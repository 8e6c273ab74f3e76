--------------------------- MODULE UploadV2Proofs ---------------------------
(***************************************************************************)
(* Transfer v2 transfers the file, for any files, any sizes and any number *)
(* of calls and of faults of the line.                                     *)
(***************************************************************************)
EXTENDS UploadV2Inv, SequenceTheorems, TLAPS

-----------------------------------------------------------------------------
(* Sequences that lose, gain or change an element.                         *)

\* The first element is read.
LEMMA ReadFirst ==
  ASSUME NEW S, NEW s \in Seq(S), s # <<>>
  PROVE  /\ Head(s) = s[1] /\ Head(s) \in S /\ Len(s) \in Nat /\ Len(s) > 0
         /\ Tail(s) \in Seq(S) /\ Len(Tail(s)) = Len(s) - 1
         /\ \A j \in 1 .. Len(Tail(s)) : j + 1 \in 1 .. Len(s) /\ Tail(s)[j] = s[j + 1]
<1>1. Len(s) \in Nat /\ Len(s) > 0
  BY EmptySeq
<1>2. Head(s) = s[1]
  BY <1>1
<1> QED
  BY <1>1, <1>2, HeadTailProperties

\* The line loses an element (RemoveAt).
LEMMA Removed ==
  ASSUME NEW S, NEW s \in Seq(S), NEW i \in 1 .. Len(s)
  PROVE  /\ RemoveAt(s, i) \in Seq(S) /\ Len(RemoveAt(s, i)) = Len(s) - 1
         /\ \A j \in 1 .. Len(s) - 1 : RemoveAt(s, i)[j] = s[IF j < i THEN j ELSE j + 1]
<1> DEFINE a == SubSeq(s, 1, i - 1)
           b == SubSeq(s, i + 1, Len(s))
<1>1. Len(s) \in Nat /\ i \in Nat /\ 1 <= i /\ i <= Len(s) /\ \A j \in 1 .. Len(s) : s[j] \in S
  BY LenProperties, ElementOfSeq
<1>2. a \in Seq(S) /\ Len(a) = i - 1 /\ \A j \in 1 .. i - 1 : a[j] = s[j]
  <2>1. \A j \in 1 .. i - 1 : s[j] \in S
    BY <1>1
  <2>2. a \in Seq(S) /\ Len(a) = (IF 1 <= i - 1 THEN (i - 1) - 1 + 1 ELSE 0)
        /\ \A j \in 1 .. (i - 1) - 1 + 1 : a[j] = s[1 + j - 1]
    BY <1>1, <2>1, SubSeqProperties
  <2> QED
    BY <1>1, <2>2
<1>3. b \in Seq(S) /\ Len(b) = Len(s) - i /\ \A j \in 1 .. Len(s) - i : b[j] = s[j + i]
  <2>1. \A j \in i + 1 .. Len(s) : s[j] \in S
    BY <1>1
  <2>2. b \in Seq(S) /\ Len(b) = (IF i + 1 <= Len(s) THEN Len(s) - (i + 1) + 1 ELSE 0)
        /\ \A j \in 1 .. Len(s) - (i + 1) + 1 : b[j] = s[(i + 1) + j - 1]
    BY <1>1, <2>1, SubSeqProperties
  <2> QED
    BY <1>1, <2>2
<1> HIDE DEF a, b
<1>4. /\ a \o b \in Seq(S) /\ Len(a \o b) = Len(a) + Len(b)
      /\ \A j \in 1 .. Len(a) + Len(b) : (a \o b)[j] = IF j <= Len(a) THEN a[j] ELSE b[j - Len(a)]
  BY <1>2, <1>3, ConcatProperties
<1>5. RemoveAt(s, i) = a \o b
  BY DEF RemoveAt, a, b
<1>6. ASSUME NEW j \in 1 .. Len(s) - 1
      PROVE  (a \o b)[j] = s[IF j < i THEN j ELSE j + 1]
  <2>1. CASE j < i
    BY <1>1, <1>2, <1>3, <1>4, <2>1
  <2>2. CASE ~(j < i)
    <3>1. (a \o b)[j] = b[j - (i - 1)] /\ j - (i - 1) \in 1 .. Len(s) - i
      BY <1>1, <1>2, <1>3, <1>4, <2>2
    <3>2. b[j - (i - 1)] = s[(j - (i - 1)) + i]
      BY <1>3, <3>1
    <3> QED
      BY <1>1, <2>2, <3>1, <3>2
  <2> QED
    BY <2>1, <2>2
<1>7. a \o b \in Seq(S) /\ Len(a \o b) = Len(s) - 1
  BY <1>1, <1>2, <1>3, <1>4
<1> QED
  BY <1>5, <1>6, <1>7

\* The line gains an element (InsertAt).
LEMMA Inserted ==
  ASSUME NEW S, NEW s \in Seq(S), NEW i \in 1 .. Len(s), NEW e \in S
  PROVE  /\ InsertAt(s, i, e) \in Seq(S) /\ Len(InsertAt(s, i, e)) = Len(s) + 1
         /\ \A j \in 1 .. Len(s) + 1 :
              InsertAt(s, i, e)[j] = IF j < i THEN s[j] ELSE IF j = i THEN e ELSE s[j - 1]
<1> DEFINE a == SubSeq(s, 1, i - 1)
           b == SubSeq(s, i, Len(s))
           c == <<e>>
<1>1. Len(s) \in Nat /\ i \in Nat /\ 1 <= i /\ i <= Len(s) /\ \A j \in 1 .. Len(s) : s[j] \in S
  BY LenProperties, ElementOfSeq
<1>2. a \in Seq(S) /\ Len(a) = i - 1 /\ \A j \in 1 .. i - 1 : a[j] = s[j]
  <2>1. \A j \in 1 .. i - 1 : s[j] \in S
    BY <1>1
  <2>2. a \in Seq(S) /\ Len(a) = (IF 1 <= i - 1 THEN (i - 1) - 1 + 1 ELSE 0)
        /\ \A j \in 1 .. (i - 1) - 1 + 1 : a[j] = s[1 + j - 1]
    BY <1>1, <2>1, SubSeqProperties
  <2> QED
    BY <1>1, <2>2
<1>3. b \in Seq(S) /\ Len(b) = Len(s) - i + 1 /\ \A j \in 1 .. Len(s) - i + 1 : b[j] = s[j + i - 1]
  <2>1. \A j \in i .. Len(s) : s[j] \in S
    BY <1>1
  <2>2. b \in Seq(S) /\ Len(b) = (IF i <= Len(s) THEN Len(s) - i + 1 ELSE 0)
        /\ \A j \in 1 .. Len(s) - i + 1 : b[j] = s[i + j - 1]
    BY <1>1, <2>1, SubSeqProperties
  <2> QED
    BY <1>1, <2>2
<1>4. c \in Seq(S) /\ Len(c) = 1 /\ c[1] = e
  OBVIOUS
<1> HIDE DEF a, b, c
<1>5. /\ a \o c \in Seq(S) /\ Len(a \o c) = i
      /\ \A j \in 1 .. i : (a \o c)[j] = IF j < i THEN s[j] ELSE e
  <2>1. /\ a \o c \in Seq(S) /\ Len(a \o c) = Len(a) + Len(c)
        /\ \A j \in 1 .. Len(a) + Len(c) : (a \o c)[j] = IF j <= Len(a) THEN a[j] ELSE c[j - Len(a)]
    BY <1>2, <1>4, ConcatProperties
  <2> QED
    BY <1>1, <1>2, <1>4, <2>1
<1>6. /\ (a \o c) \o b \in Seq(S) /\ Len((a \o c) \o b) = Len(a \o c) + Len(b)
      /\ \A j \in 1 .. Len(a \o c) + Len(b) :
           ((a \o c) \o b)[j] = IF j <= Len(a \o c) THEN (a \o c)[j] ELSE b[j - Len(a \o c)]
  BY <1>3, <1>5, ConcatProperties
<1>7. InsertAt(s, i, e) = (a \o c) \o b
  BY DEF InsertAt, a, b, c
<1>8. ASSUME NEW j \in 1 .. Len(s) + 1
      PROVE  ((a \o c) \o b)[j] = IF j < i THEN s[j] ELSE IF j = i THEN e ELSE s[j - 1]
  <2>1. CASE j <= i
    BY <1>1, <1>3, <1>5, <1>6, <2>1
  <2>2. CASE ~(j <= i)
    <3>1. ((a \o c) \o b)[j] = b[j - i] /\ j - i \in 1 .. Len(s) - i + 1
      BY <1>1, <1>3, <1>5, <1>6, <2>2
    <3>2. b[j - i] = s[(j - i) + i - 1]
      BY <1>3, <3>1
    <3> QED
      BY <1>1, <2>2, <3>1, <3>2
  <2> QED
    BY <2>1, <2>2
<1> QED
  BY <1>1, <1>3, <1>5, <1>6, <1>7, <1>8

-----------------------------------------------------------------------------
(* Tokens.                                                                 *)

LEMMA TextToken ==
  /\ \A k, n : Text(k, n).k = k /\ Text(k, n).n = n
  /\ \A k \in Kinds : Text(k, 0) \in HostTokens
  /\ \A k \in Numbered, n \in Nat : Text(k, n) \in HostTokens
  /\ LineEnd \in HostTokens /\ LineEnd.k = "eol"
BY DEF Text, Kinds, Numbered, HostTokens, LineEnd

\* A token of the host's line is known by its kind, but for a number.
LEMMA HostToken ==
  ASSUME NEW x \in HostTokens
  PROVE  /\ x.k \in Kinds \cup Numbered /\ x.n \in Nat /\ x = Text(x.k, x.n)
         /\ x.k \notin Numbered => x.n = 0
         /\ "k" \in DOMAIN x
BY DEF Text, Kinds, Numbered, HostTokens

\* What the device says: texts of given kinds.
Says(m, kinds) == m \in Seq(HostTokens) /\ \A j \in 1 .. Len(m) : m[j].k \in kinds

LEMMA SaysText ==
  ASSUME NEW x \in HostTokens
  PROVE  Says(<<x>>, {x.k})
<1>1. <<x>> \in Seq(HostTokens) /\ Len(<<x>>) = 1 /\ <<x>>[1] = x
  OBVIOUS
<1> QED
  BY <1>1 DEF Says

LEMMA SaysLine ==
  ASSUME NEW k, NEW n, Text(k, n) \in HostTokens
  PROVE  /\ Says(Line(k, n), {k, "eol"}) /\ Len(Line(k, n)) = 2
         /\ Line(k, n)[1] = Text(k, n) /\ Line(k, n)[2] = LineEnd
<1> DEFINE x == Text(k, n)
           m == Line(k, n)
<1>1. x \in HostTokens /\ LineEnd \in HostTokens /\ x.k = k /\ LineEnd.k = "eol"
  BY TextToken
<1>2. m = <<x, LineEnd>>
  BY DEF Line
<1> HIDE DEF x, m
<1>3. m \in Seq(HostTokens) /\ Len(m) = 2 /\ m[1] = x /\ m[2] = LineEnd
  BY <1>1, <1>2
<1>4. \A j \in 1 .. 2 : j = 1 \/ j = 2
  OBVIOUS
<1>5. Says(m, {k, "eol"})
  BY <1>1, <1>3, <1>4 DEF Says
<1> QED
  BY <1>3, <1>5 DEF x, m

LEMMA SaysBoth ==
  ASSUME NEW m, NEW n, NEW K, NEW L, Says(m, K), Says(n, L)
  PROVE  Says(m \o n, K \cup L)
<1>1. /\ m \o n \in Seq(HostTokens) /\ Len(m \o n) = Len(m) + Len(n) /\ Len(m) \in Nat /\ Len(n) \in Nat
      /\ \A i \in 1 .. Len(m) + Len(n) : (m \o n)[i] = IF i <= Len(m) THEN m[i] ELSE n[i - Len(m)]
  BY ConcatProperties, LenProperties DEF Says
<1>2. ASSUME NEW j \in 1 .. Len(m) + Len(n)
      PROVE  (m \o n)[j].k \in K \cup L
  <2>1. CASE j <= Len(m)
    BY <1>1, <2>1 DEF Says
  <2>2. CASE ~(j <= Len(m))
    <3>1. j - Len(m) \in 1 .. Len(n)
      BY <1>1, <2>2
    <3> QED
      BY <1>1, <2>2, <3>1 DEF Says
  <2> QED
    BY <2>1, <2>2
<1> QED
  BY <1>1, <1>2 DEF Says

LEMMA SaysPrompt == Says(Prompt, Prompts)
<1>1. PICK p \in Prompts : Prompt = <<Text(p, 0)>>
  BY DEF Prompt, Prompts
<1>2. Text(p, 0) \in HostTokens /\ Text(p, 0).k = p
  BY TextToken DEF Kinds, Prompts
<1>3. Says(<<Text(p, 0)>>, {p})
  BY <1>2, SaysText
<1> QED
  BY <1>1, <1>3 DEF Says

\* [ERR] and the prompt.
LEMMA SaysError == Says(Line("ERR", 0) \o Prompt, {"ERR", "eol"} \cup Prompts)
<1>1. Text("ERR", 0) \in HostTokens
  BY TextToken DEF Kinds
<1>2. Says(Line("ERR", 0), {"ERR", "eol"})
  BY <1>1, SaysLine
<1> QED
  BY <1>2, SaysPrompt, SaysBoth

\* The first stage's answer to a key.
LEMMA SaysEcho == Says(Line("echo", 0) \o Prompt, {"echo", "eol"} \cup Prompts)
<1>1. Text("echo", 0) \in HostTokens
  BY TextToken DEF Kinds
<1>2. Says(Line("echo", 0), {"echo", "eol"})
  BY <1>1, SaysLine
<1> QED
  BY <1>2, SaysPrompt, SaysBoth

LEMMA SaysLength ==
  ASSUME NEW len \in Nat
  PROVE  Says(Line("LEN", len) \o Line("READY-BLK", 0), {"LEN", "READY-BLK", "eol"})
<1>1. Text("LEN", len) \in HostTokens /\ Text("READY-BLK", 0) \in HostTokens
  BY TextToken DEF Numbered
<1>2. Says(Line("LEN", len), {"LEN", "eol"}) /\ Says(Line("READY-BLK", 0), {"READY-BLK", "eol"})
  BY <1>1, SaysLine
<1>3. Says(Line("LEN", len) \o Line("READY-BLK", 0), {"LEN", "eol"} \cup {"READY-BLK", "eol"})
  BY <1>2, SaysBoth
<1> QED
  BY <1>3 DEF Says

LEMMA SaysBlock ==
  ASSUME NEW n \in Nat
  PROVE  Says(Line("READY-BLK", n), {"READY-BLK", "eol"})
BY TextToken, SaysLine DEF Numbered

LEMMA SaysCrc ==
  /\ Says(Line("READY-CRC", 0), {"READY-CRC", "eol"}) /\ Len(Line("READY-CRC", 0)) = 2
  /\ Line("READY-CRC", 0)[1].k = "READY-CRC" /\ Line("READY-CRC", 0)[2].k = "eol"
BY TextToken, SaysLine DEF Kinds

LEMMA SaysOk ==
  Says(Line("OK", 0) \o Line("result", 0) \o <<Text("s2", 0)>>, {"OK", "result", "eol", "s2"})
<1>1. Text("OK", 0) \in HostTokens /\ Text("result", 0) \in HostTokens /\ Text("s2", 0) \in HostTokens
      /\ Text("s2", 0).k = "s2"
  BY TextToken DEF Kinds
<1>2. Says(Line("OK", 0), {"OK", "eol"}) /\ Says(Line("result", 0), {"result", "eol"})
      /\ Says(<<Text("s2", 0)>>, {"s2"})
  BY <1>1, SaysLine, SaysText
<1>3. Says(Line("OK", 0) \o Line("result", 0) \o <<Text("s2", 0)>>, ({"OK", "eol"} \cup {"result", "eol"}) \cup {"s2"})
  BY <1>2, SaysBoth
<1> QED
  BY <1>3 DEF Says

\* The echo of the command and READY-V2, which nothing but its line end follows.
LEMMA SaysReady ==
  LET m == Line("echo", 0) \o Line("READY-V2", 0) IN
  /\ Says(m, {"echo", "READY-V2", "eol"})
  /\ \A j, l \in 1 .. Len(m) : j < l /\ m[j].k = "READY-V2" => m[l].k = "eol"
<1> DEFINE a == Line("echo", 0)
           b == Line("READY-V2", 0)
           m == a \o b
<1>1. Text("echo", 0) \in HostTokens /\ Text("READY-V2", 0) \in HostTokens
      /\ Text("echo", 0).k = "echo" /\ LineEnd.k = "eol"
  BY TextToken DEF Kinds
<1>2. /\ Says(a, {"echo", "eol"}) /\ Len(a) = 2 /\ a[1].k = "echo" /\ a[2].k = "eol"
      /\ Says(b, {"READY-V2", "eol"}) /\ Len(b) = 2 /\ b[2].k = "eol"
  BY <1>1, SaysLine
<1> HIDE DEF a, b
<1>3. Says(a \o b, {"echo", "eol"} \cup {"READY-V2", "eol"})
  BY <1>2, SaysBoth
<1>4. /\ Len(m) = 4
      /\ \A i \in 1 .. 4 : m[i] = IF i <= 2 THEN a[i] ELSE b[i - 2]
  <2>1. /\ Len(a \o b) = Len(a) + Len(b)
        /\ \A i \in 1 .. Len(a) + Len(b) : (a \o b)[i] = IF i <= Len(a) THEN a[i] ELSE b[i - Len(a)]
    BY <1>2, ConcatProperties DEF Says
  <2> QED
    BY <1>2, <2>1
<1>5. m[1].k = "echo" /\ m[2].k = "eol" /\ m[4].k = "eol"
  BY <1>2, <1>4
<1>6. \A j, l \in 1 .. 4 : j < l => l = 2 \/ l = 4 \/ (j \in {1, 2} /\ l = 3)
  OBVIOUS
<1>7. \A j, l \in 1 .. Len(m) : j < l /\ m[j].k = "READY-V2" => m[l].k = "eol"
  BY <1>4, <1>5, <1>6
<1>8. Says(m, {"echo", "READY-V2", "eol"})
  BY <1>3 DEF Says
<1> QED
  BY <1>7, <1>8 DEF a, b

-----------------------------------------------------------------------------
(* The device speaks, the line between them otherwise as it was.           *)

Grows(kinds) ==
  /\ toHost' \in Seq(HostTokens) /\ Len(toHost) \in Nat /\ Len(toHost') \in Nat /\ Len(toHost) <= Len(toHost')
  /\ \A j \in 1 .. Len(toHost') : IF j <= Len(toHost) THEN toHost'[j] = toHost[j] ELSE toHost'[j].k \in kinds

LEMMA PutGrows ==
  ASSUME SeqInv, NEW m, NEW kinds, Says(m, kinds), Put(m)
  PROVE  /\ Grows(kinds) /\ Len(toHost') = Len(toHost) + Len(m)
         /\ \A j \in 1 .. Len(m) : toHost'[Len(toHost) + j] = m[j]
<1>1. toHost \in Seq(HostTokens) /\ m \in Seq(HostTokens) /\ toHost' = toHost \o m
  BY DEF SeqInv, Says, Put
<1>2. /\ toHost' \in Seq(HostTokens) /\ Len(toHost') = Len(toHost) + Len(m)
      /\ \A i \in 1 .. Len(toHost) + Len(m) : toHost'[i] = IF i <= Len(toHost) THEN toHost[i] ELSE m[i - Len(toHost)]
      /\ Len(toHost) \in Nat /\ Len(m) \in Nat
  BY <1>1, ConcatProperties, LenProperties
<1>3. \A j \in 1 .. Len(m) : toHost'[Len(toHost) + j] = m[j]
  <2> SUFFICES ASSUME NEW j \in 1 .. Len(m) PROVE toHost'[Len(toHost) + j] = m[j]
    OBVIOUS
  <2>1. Len(toHost) + j \in 1 .. Len(toHost) + Len(m) /\ ~(Len(toHost) + j <= Len(toHost)) /\ (Len(toHost) + j) - Len(toHost) = j
    BY <1>2
  <2> QED
    BY <1>2, <2>1
<1>4. ASSUME NEW j \in 1 .. Len(toHost')
      PROVE  IF j <= Len(toHost) THEN toHost'[j] = toHost[j] ELSE toHost'[j].k \in kinds
  <2>1. CASE j <= Len(toHost)
    BY <1>2, <2>1
  <2>2. CASE ~(j <= Len(toHost))
    <3>1. j - Len(toHost) \in 1 .. Len(m) /\ toHost'[j] = m[j - Len(toHost)]
      BY <1>2, <2>2
    <3> QED
      BY <2>2, <3>1 DEF Says
  <2> QED
    BY <2>1, <2>2
<1> QED
  BY <1>2, <1>3, <1>4 DEF Grows

\* Nothing is said.
LEMMA SilentGrows ==
  ASSUME SeqInv, toHost' = toHost
  PROVE  Grows({})
BY LenProperties DEF SeqInv, Grows

NoNewCmd == \A j \in 1 .. Len(toDev') : toDev'[j] = Cmd => \E l \in 1 .. Len(toDev) : toDev[l] = Cmd

\* What a step of a device that was not given a command may say.
MaySay(kinds) ==
  /\ "READY-V2" \notin kinds
  /\ DevWaits' => DevWaits
  /\ devPc' \in {"len", "blk"} => devPc \in {"len", "blk"}
  /\ kinds \cap {"LEN", "READY-BLK", "READY-CRC"} # {} => devPc \in {"len", "blk"}
  /\ "READY-CRC" \in kinds => /\ devPc' \notin {"len", "blk"}
                              /\ \A j \in 1 .. Len(toHost') : j > Len(toHost) + 1 => toHost'[j].k = "eol"
  /\ kinds \cap ({"OK", "ERR"} \cup Prompts) # {} => ~DevWaits'

LEMMA SinceCommandKept ==
  ASSUME NEW kinds, Grows(kinds), NoNewCmd, MaySay(kinds), NEW i \in Nat, i <= Len(toHost), SinceCommand(i)
  PROVE  SinceCommand(i)'
<1>1. \A j \in 1 .. Len(toDev') : toDev'[j] # Cmd
  BY DEF NoNewCmd, SinceCommand
<1>2. ASSUME NEW j \in 1 .. Len(toHost'), j > i
      PROVE  /\ toHost'[j].k # "READY-V2"
             /\ toHost'[j].k = "READY-CRC" => devPc' \notin {"len", "blk"}
             /\ toHost'[j].k \in {"OK", "ERR"} \cup Prompts => ~DevWaits'
  <2>1. CASE j <= Len(toHost)
    <3>1. toHost'[j] = toHost[j] /\ j \in 1 .. Len(toHost)
      BY <2>1 DEF Grows
    <3> QED
      BY <1>2, <3>1 DEF SinceCommand, MaySay
  <2>2. CASE ~(j <= Len(toHost))
    <3>1. toHost'[j].k \in kinds
      BY <2>2 DEF Grows
    <3> QED
      BY <3>1 DEF MaySay
  <2> QED
    BY <2>1, <2>2
<1>3. ASSUME NEW j \in 1 .. Len(toHost'), NEW l \in 1 .. Len(toHost'), i < j, j < l, toHost'[j].k = "READY-CRC"
      PROVE  toHost'[l].k \notin {"LEN", "READY-BLK", "READY-CRC"}
  <2>1. CASE l <= Len(toHost)
    <3>1. /\ toHost'[l] = toHost[l] /\ l \in 1 .. Len(toHost)
          /\ toHost'[j] = toHost[j] /\ j \in 1 .. Len(toHost)
      BY <1>3, <2>1 DEF Grows
    <3> QED
      BY <1>3, <3>1 DEF SinceCommand
  <2>2. CASE ~(l <= Len(toHost)) /\ j <= Len(toHost)
    <3>1. toHost'[j] = toHost[j] /\ j \in 1 .. Len(toHost) /\ toHost'[l].k \in kinds
      BY <1>3, <2>2 DEF Grows
    <3>2. devPc \notin {"len", "blk"}
      BY <1>3, <3>1 DEF SinceCommand
    <3> QED
      BY <3>1, <3>2 DEF MaySay
  <2>3. CASE ~(j <= Len(toHost))
    <3>1. toHost'[j].k \in kinds /\ l > Len(toHost) + 1
      BY <1>3, <2>3 DEF Grows
    <3>2. toHost'[l].k = "eol"
      BY <1>3, <3>1 DEF MaySay
    <3> QED
      BY <3>2
  <2> QED
    BY <2>1, <2>2, <2>3 DEF Grows
<1> QED
  BY <1>1, <1>2, <1>3 DEF SinceCommand

-----------------------------------------------------------------------------
(* A step of the device that is not given a command it takes.              *)

DeviceStep(kinds) ==
  /\ Grows(kinds) /\ MaySay(kinds) /\ UNCHANGED host
  /\ toDev' = toDev \/ (toDev # <<>> /\ toDev' = Tail(toDev))
  /\ DevWaits' => toDev # <<>>
  /\ devGot' \in {<<>>, devGot} \/ (toDev # <<>> /\ devGot' = Append(devGot, Head(toDev)))
  /\ devPc = "stored" => devPc' = "stored"
  /\ "OK" \in kinds => devPc' = "stored"
  /\ kinds \cap Transfers # {} =>
       (DevWaits /\ (toDev = <<>> => ~DevWaits')) \/ (toDev # <<>> /\ Head(toDev) = Cmd /\ toDev' = Tail(toDev))
  /\ devT' \in 0 .. ByteTimeout

\* What is left on the line to the device was on it.
LEMMA LeftOnLine ==
  ASSUME SeqInv, NEW kinds, DeviceStep(kinds)
  PROVE  /\ toDev' \in Seq(DevTokens) /\ Len(toDev) \in Nat /\ Len(toDev') \in Nat
         /\ \/ Len(toDev') = Len(toDev) /\ \A j \in 1 .. Len(toDev') : j \in 1 .. Len(toDev) /\ toDev'[j] = toDev[j]
            \/ Len(toDev') = Len(toDev) - 1 /\ \A j \in 1 .. Len(toDev') : j + 1 \in 1 .. Len(toDev) /\ toDev'[j] = toDev[j + 1]
<1>1. toDev \in Seq(DevTokens) /\ Len(toDev) \in Nat
  BY LenProperties DEF SeqInv
<1>2. CASE toDev' = toDev
  BY <1>1, <1>2
<1>3. CASE toDev # <<>> /\ toDev' = Tail(toDev)
  BY <1>1, <1>3, ReadFirst, LenProperties
<1> QED
  BY <1>2, <1>3 DEF DeviceStep

LEMMA LeftNoNewCmd ==
  ASSUME SeqInv, NEW kinds, DeviceStep(kinds)
  PROVE  NoNewCmd
BY LeftOnLine DEF NoNewCmd

LEMMA DeviceSeq ==
  ASSUME SeqInv, NEW kinds, DeviceStep(kinds)
  PROVE  SeqInv'
<1>1. toDev' \in Seq(DevTokens) /\ toHost' \in Seq(HostTokens)
  BY LeftOnLine DEF DeviceStep, Grows
<1>2. hostBuf' \in Seq(HostTokens) /\ hostI' \in Nat
  BY DEF SeqInv, DeviceStep, host
<1>3. devGot' \in Seq(DevTokens)
  <2>1. devGot \in Seq(DevTokens) /\ <<>> \in Seq(DevTokens)
    BY DEF SeqInv
  <2>2. CASE devGot' \in {<<>>, devGot}
    BY <2>1, <2>2
  <2>3. CASE toDev # <<>> /\ devGot' = Append(devGot, Head(toDev))
    <3>1. Head(toDev) \in DevTokens
      BY <2>3, ReadFirst DEF SeqInv
    <3> QED
      BY <2>1, <2>3, <3>1, AppendProperties
  <2> QED
    BY <2>2, <2>3 DEF DeviceStep
<1> QED
  BY <1>1, <1>2, <1>3 DEF SeqInv

LEMMA DeviceTime ==
  ASSUME SeqInv, TimeInv, NEW kinds, DeviceStep(kinds)
  PROVE  TimeInv'
<1>1. HostWaits' <=> HostWaits
  BY DEF DeviceStep, host, HostWaits, InUpload
<1>2. hostT' = hostT /\ devT' \in Nat
  BY UploadAssumption DEF DeviceStep, host
<1>3. toDev' # <<>> => toDev # <<>>
  BY DEF DeviceStep
<1>4. DevWaits' => toDev # <<>>
  BY DEF DeviceStep
<1> QED
  BY <1>1, <1>2, <1>3, <1>4 DEF TimeInv

LEMMA DeviceLine ==
  ASSUME SeqInv, LineInv, NEW kinds, DeviceStep(kinds)
  PROVE  LineInv'
<1>1. hostPc' = hostPc /\ hostBuf' = hostBuf
  BY DEF DeviceStep, host
<1>2. (Answered' <=> Answered) /\ \A K : First(K)' <=> First(K)
  BY <1>1 DEF Answered, First
<1>3. Grows(kinds) /\ MaySay(kinds) /\ NoNewCmd /\ Len(toHost) \in Nat /\ 0 <= Len(toHost)
  BY LeftNoNewCmd DEF DeviceStep, Grows
<1>4. SinceCommand(0) => SinceCommand(0)'
  BY <1>3, SinceCommandKept
<1>5. ASSUME hostPc = "READY-V2", NEW i \in 1 .. Len(toHost'), toHost'[i].k = "READY-V2"
      PROVE  SinceCommand(i)'
  <2>1. i <= Len(toHost) /\ toHost'[i] = toHost[i] /\ i \in Nat /\ i \in 1 .. Len(toHost)
    BY <1>3, <1>5 DEF Grows, MaySay
  <2>2. SinceCommand(i)
    BY <1>5, <2>1 DEF LineInv
  <2> QED
    BY <1>3, <2>1, <2>2, SinceCommandKept
<1>6. ASSUME Answered, First({"READY-CRC"})
      PROVE  /\ devPc' \notin {"len", "blk"}
             /\ \A l \in 1 .. Len(toHost') : toHost'[l].k \notin {"LEN", "READY-BLK", "READY-CRC"}
  <2>1. /\ devPc \notin {"len", "blk"}
        /\ \A l \in 1 .. Len(toHost) : toHost[l].k \notin {"LEN", "READY-BLK", "READY-CRC"}
    BY <1>6 DEF LineInv
  <2>2. kinds \cap {"LEN", "READY-BLK", "READY-CRC"} = {} /\ devPc' \notin {"len", "blk"}
    BY <1>3, <2>1 DEF MaySay
  <2>3. ASSUME NEW l \in 1 .. Len(toHost')
        PROVE  toHost'[l].k \notin {"LEN", "READY-BLK", "READY-CRC"}
    <3>1. CASE l <= Len(toHost)
      BY <1>3, <2>1, <3>1 DEF Grows
    <3>2. CASE ~(l <= Len(toHost))
      BY <1>3, <2>2, <3>2 DEF Grows
    <3> QED
      BY <3>1, <3>2
  <2> QED
    BY <2>2, <2>3
<1>7. Answered /\ First({"OK", "ERR"}) => ~DevWaits'
  BY <1>3 DEF LineInv, MaySay
<1> QED
  BY <1>1, <1>2, <1>4, <1>5, <1>6, <1>7 DEF LineInv

LEMMA DeviceCrcSent ==
  ASSUME CrcSent, NEW kinds, DeviceStep(kinds)
  PROVE  CrcSent'
<1> SUFFICES ASSUME hostPc' = "OK", DevWaits'
             PROVE  /\ devPc' = "crc" /\ ~First(Transfers)'
                    /\ \A l \in 1 .. Len(toHost') : toHost'[l].k \notin Transfers
  BY DEF CrcSent
<1>1. hostPc' = hostPc /\ hostBuf' = hostBuf /\ Grows(kinds) /\ MaySay(kinds)
  BY DEF DeviceStep, host
<1>2. /\ devPc = "crc" /\ ~First(Transfers)
      /\ \A l \in 1 .. Len(toHost) : toHost[l].k \notin Transfers
  BY <1>1 DEF CrcSent, MaySay
<1>3. devPc' = "crc" /\ kinds \cap Transfers = {}
  BY <1>1, <1>2 DEF MaySay, DevWaits, Transfers
<1>4. ASSUME NEW l \in 1 .. Len(toHost')
      PROVE  toHost'[l].k \notin Transfers
  <2>1. CASE l <= Len(toHost)
    BY <1>1, <1>2, <2>1 DEF Grows
  <2>2. CASE ~(l <= Len(toHost))
    BY <1>1, <1>3, <2>2 DEF Grows
  <2> QED
    BY <2>1, <2>2
<1> QED
  BY <1>1, <1>2, <1>3, <1>4 DEF First

LEMMA DeviceOk ==
  ASSUME OkInv, NEW kinds, DeviceStep(kinds)
  PROVE  OkInv'
<1>1. hostPc' = hostPc /\ hostBuf' = hostBuf /\ Grows(kinds)
  BY DEF DeviceStep, host
<1>2. devPc = "stored" => devPc' = "stored"
  BY DEF DeviceStep
<1>3. First({"OK"})' <=> First({"OK"})
  BY <1>1 DEF First
<1>4. ASSUME NEW j \in 1 .. Len(toHost'), toHost'[j].k = "OK"
      PROVE  devPc' = "stored"
  <2>1. CASE j <= Len(toHost)
    BY <1>1, <1>2, <1>4, <2>1 DEF Grows, OkInv
  <2>2. CASE ~(j <= Len(toHost))
    BY <1>1, <1>4, <2>2 DEF Grows, DeviceStep
  <2> QED
    BY <2>1, <2>2
<1> QED
  BY <1>1, <1>2, <1>3, <1>4 DEF OkInv

LEMMA DeviceCrc ==
  ASSUME SeqInv, CrcInv, NEW kinds, DeviceStep(kinds)
  PROVE  CrcInv'
<1> DEFINE Own(x) == CrcEnd(x) => hostPc = "OK" /\ x.crc = data
<1> SUFFICES ASSUME DevWaits'
             PROVE  /\ \A j \in 1 .. Len(toDev') : Own(toDev'[j])
                    /\ \A j \in 1 .. Len(devGot') : Own(devGot'[j])
  BY DEF CrcInv, DeviceStep, host
<1>2. DevWaits
  BY DEF DeviceStep, MaySay
<1>3. /\ \A j \in 1 .. Len(toDev) : Own(toDev[j])
      /\ \A j \in 1 .. Len(devGot) : Own(devGot[j])
  BY <1>2 DEF CrcInv
<1> HIDE DEF Own
<1>4. \A j \in 1 .. Len(toDev') : Own(toDev'[j])
  BY <1>3, LeftOnLine
<1>5. \A j \in 1 .. Len(devGot') : Own(devGot'[j])
  <2>1. CASE devGot' = <<>>
    BY <2>1
  <2>2. CASE devGot' = devGot
    BY <1>3, <2>2
  <2>3. CASE toDev # <<>> /\ devGot' = Append(devGot, Head(toDev))
    <3>1. Head(toDev) = toDev[1] /\ Head(toDev) \in DevTokens /\ 1 \in 1 .. Len(toDev)
      BY <2>3, ReadFirst DEF SeqInv
    <3>2. /\ Len(devGot') = Len(devGot) + 1 /\ Len(devGot) \in Nat
          /\ \A j \in 1 .. Len(devGot) : devGot'[j] = devGot[j]
          /\ devGot'[Len(devGot) + 1] = Head(toDev)
      BY <2>3, <3>1, AppendProperties, LenProperties DEF SeqInv
    <3>3. \A j \in 1 .. Len(devGot') : j \in 1 .. Len(devGot) \/ j = Len(devGot) + 1
      BY <3>2
    <3> QED
      BY <1>3, <3>1, <3>2, <3>3
  <2> QED
    BY <2>1, <2>2, <2>3 DEF DeviceStep
<1> QED
  BY <1>4, <1>5

LEMMA DevicePrompt ==
  ASSUME SeqInv, PromptInv, NEW kinds, DeviceStep(kinds)
  PROVE  PromptInv'
<1> SUFFICES ASSUME caller' # "install"
             PROVE  PromptInv'
  BY DEF PromptInv
<1>1. caller' = caller /\ hostPc' = hostPc /\ hostBuf' = hostBuf /\ Grows(kinds) /\ MaySay(kinds)
  BY DEF DeviceStep, host
<1>2. (DevWaits' => DevWaits) /\ (DevWaits' => toDev # <<>>)
  BY DEF DeviceStep, MaySay
<1>3. \A K : First(K)' <=> First(K)
  BY <1>1 DEF First
<1>4. ASSUME NEW j \in 1 .. Len(toDev'), toDev'[j] = Cmd
      PROVE  hostPc' = "READY-V2" /\ j = Len(toDev')
  <2>1. \A l \in 1 .. Len(toDev) : toDev[l] = Cmd => hostPc = "READY-V2" /\ l = Len(toDev)
    BY <1>1 DEF PromptInv
  <2>2. PICK l \in 1 .. Len(toDev) : toDev[l] = Cmd /\ Len(toDev) - l = Len(toDev') - j
    <3>1. Len(toDev) \in Nat /\ Len(toDev') \in Nat
      BY LeftOnLine
    <3>2. CASE Len(toDev') = Len(toDev) /\ j \in 1 .. Len(toDev) /\ toDev'[j] = toDev[j]
      BY <1>4, <3>1, <3>2
    <3>3. CASE Len(toDev') = Len(toDev) - 1 /\ j + 1 \in 1 .. Len(toDev) /\ toDev'[j] = toDev[j + 1]
      <4>1. Len(toDev) - (j + 1) = Len(toDev') - j
        BY <3>1, <3>3
      <4> QED
        BY <1>4, <3>3, <4>1
    <3> QED
      BY <3>2, <3>3, LeftOnLine
  <2>3. hostPc = "READY-V2" /\ l = Len(toDev)
    BY <2>1, <2>2
  <2> QED
    BY <1>1, <2>2, <2>3, LeftOnLine
<1>5. hostPc' = "READY-V2" => ~DevWaits'
  BY <1>1, <1>2 DEF PromptInv
<1>6. ASSUME hostPc' = "READY-V2",
             First(Transfers \ {"READY-V2"})' \/ \E j \in 1 .. Len(toHost') : toHost'[j].k \in Transfers \ {"READY-V2"}
      PROVE  \A j \in 1 .. Len(toDev') : toDev'[j] # Cmd
  <2>1. CASE First(Transfers \ {"READY-V2"}) \/ \E j \in 1 .. Len(toHost) : toHost[j].k \in Transfers \ {"READY-V2"}
    <3>1. \A j \in 1 .. Len(toDev) : toDev[j] # Cmd
      BY <1>1, <1>6, <2>1 DEF PromptInv
    <3> QED
      BY <3>1, LeftNoNewCmd DEF NoNewCmd
  <2>2. CASE kinds \cap Transfers # {}
    <3>1. \A l \in 1 .. Len(toDev) : toDev[l] = Cmd => l = Len(toDev)
      BY <1>1 DEF PromptInv
    <3>2. CASE DevWaits
      <4>1. toDev = <<>> /\ toDev' = <<>>
        BY <1>1, <1>6, <3>2 DEF PromptInv, DeviceStep
      <4> QED
        BY <4>1
    <3>3. CASE toDev # <<>> /\ Head(toDev) = Cmd /\ toDev' = Tail(toDev)
      <4>1. 1 \in 1 .. Len(toDev) /\ toDev[1] = Cmd /\ Len(toDev') = Len(toDev) - 1
        BY <3>3, ReadFirst DEF SeqInv
      <4>2. Len(toDev') = 0
        BY <3>1, <4>1
      <4> QED
        BY <4>2
    <3> QED
      BY <2>2, <3>2, <3>3 DEF DeviceStep
  <2>3. ASSUME NEW j \in 1 .. Len(toHost'), toHost'[j].k \in Transfers \ {"READY-V2"}
        PROVE  (\E l \in 1 .. Len(toHost) : toHost[l].k \in Transfers \ {"READY-V2"}) \/ kinds \cap Transfers # {}
    <3>1. CASE j <= Len(toHost)
      BY <1>1, <2>3, <3>1 DEF Grows
    <3>2. CASE ~(j <= Len(toHost))
      BY <1>1, <2>3, <3>2 DEF Grows
    <3> QED
      BY <3>1, <3>2
  <2> QED
    BY <1>3, <1>6, <2>1, <2>2, <2>3
<1>7. ASSUME hostPc' = "errprompt", DevWaits', NEW j \in 1 .. Len(toHost')
      PROVE  toHost'[j].k \notin Prompts
  <2>1. \A l \in 1 .. Len(toHost) : toHost[l].k \notin Prompts
    BY <1>1, <1>2, <1>7 DEF PromptInv
  <2>2. kinds \cap Prompts = {}
    BY <1>1, <1>7 DEF MaySay
  <2>3. CASE j <= Len(toHost)
    BY <1>1, <1>7, <2>1, <2>3 DEF Grows
  <2>4. CASE ~(j <= Len(toHost))
    BY <1>1, <1>7, <2>2, <2>4 DEF Grows
  <2> QED
    BY <2>3, <2>4
<1>8. hostPc' \in {"idle", "raised", "returned", "prompt"} => ~DevWaits'
  BY <1>1, <1>2 DEF PromptInv
<1> QED
  BY <1>4, <1>5, <1>6, <1>7, <1>8 DEF PromptInv

LEMMA DeviceTalk ==
  ASSUME TalkInv, NEW kinds, DeviceStep(kinds)
  PROVE  TalkInv'
BY DeviceSeq, DeviceTime, DeviceLine, DeviceCrcSent, DeviceOk, DeviceCrc, DevicePrompt DEF TalkInv

\* The device gives up: RecvTimeout, and whatever is refused.
LEMMA FailStep ==
  ASSUME TalkInv, Fail, UNCHANGED host,
         toDev' = toDev \/ (toDev # <<>> /\ toDev' = Tail(toDev)),
         DevWaits \/ (devPc = "prompt" /\ toDev # <<>> /\ Head(toDev) = Cmd /\ toDev' = Tail(toDev))
  PROVE  TalkInv'
<1> DEFINE K == {"ERR", "eol"} \cup Prompts
<1>1. Grows(K)
  BY SaysError, PutGrows DEF TalkInv, Fail
<1>2. devPc' = "prompt" /\ devGot' = <<>> /\ devT' = 0
  BY DEF Fail, Leave
<1>3. ~DevWaits'
  BY <1>2 DEF DevWaits
<1>4. MaySay(K)
  BY <1>2, <1>3 DEF MaySay, Prompts
<1>5. devPc # "stored" /\ "OK" \notin K /\ devT' \in 0 .. ByteTimeout
  BY <1>2, UploadAssumption DEF DevWaits, Prompts
<1>6. DeviceStep(K)
  BY <1>1, <1>2, <1>3, <1>4, <1>5 DEF DeviceStep
<1> QED
  BY <1>6, DeviceTalk

LEMMA RecvTalk ==
  ASSUME TalkInv, Recv
  PROVE  TalkInv'
<1>1. Grows({})
  BY SilentGrows DEF TalkInv, Recv
<1>2. devPc' = devPc /\ (DevWaits' <=> DevWaits) /\ DevWaits /\ devT' = 0
  BY DEF Recv, DevWaits
<1>3. MaySay({})
  BY <1>2 DEF MaySay
<1>4. DeviceStep({})
  BY <1>1, <1>2, <1>3, UploadAssumption DEF DeviceStep, Recv
<1> QED
  BY <1>4, DeviceTalk

LEMMA RecvTimeoutTalk ==
  ASSUME TalkInv, RecvTimeout
  PROVE  TalkInv'
BY FailStep DEF RecvTimeout, DevWaits

LEMMA GotLengthTalk ==
  ASSUME TalkInv, GotLength
  PROVE  TalkInv'
<1>1. devPc = "len" /\ toDev # <<>> /\ toDev' = Tail(toDev) /\ UNCHANGED host /\ DevWaits
  BY DEF GotLength, DevWaits
<1>2. CASE Fail
  BY <1>1, <1>2, FailStep
<1>3. ASSUME NEW len \in 0 .. Base^Word - 1, devPc' = "blk", devGot' = <<>>, devT' = 0, len > 0,
             Put(Line("LEN", len) \o Line("READY-BLK", 0))
      PROVE  TalkInv'
  <2> DEFINE K == {"LEN", "READY-BLK", "eol"}
  <2>1. len \in Nat
    BY <1>3
  <2>2. Grows(K)
    BY <1>3, <2>1, SaysLength, PutGrows DEF TalkInv
  <2>3. MaySay(K)
    BY <1>1, <1>3 DEF MaySay, DevWaits, Prompts
  <2>4. DeviceStep(K)
    BY <1>1, <1>3, <2>2, <2>3, UploadAssumption DEF DeviceStep
  <2> QED
    BY <2>4, DeviceTalk
<1> QED
  BY <1>2, <1>3 DEF GotLength

LEMMA GotBlockTalk ==
  ASSUME TalkInv, GotBlock, devIndex \in Nat
  PROVE  TalkInv'
<1>1. devPc = "blk" /\ toDev # <<>> /\ toDev' = Tail(toDev) /\ UNCHANGED host /\ DevWaits
  BY DEF GotBlock, DevWaits
<1>2. CASE Fail
  BY <1>1, <1>2, FailStep
<1>3. CASE /\ devGot' = <<>> /\ devT' = 0 /\ devPc' = "blk" /\ devIndex' = devIndex + 1
           /\ Put(Line("READY-BLK", devIndex'))
  <2> DEFINE K == {"READY-BLK", "eol"}
  <2>1. devIndex' \in Nat
    BY <1>3
  <2>2. Grows(K)
    BY <1>3, <2>1, SaysBlock, PutGrows DEF TalkInv
  <2>3. MaySay(K)
    BY <1>1, <1>3 DEF MaySay, DevWaits, Prompts
  <2>4. DeviceStep(K)
    BY <1>1, <1>3, <2>2, <2>3, UploadAssumption DEF DeviceStep
  <2> QED
    BY <2>4, DeviceTalk
<1>4. CASE /\ devGot' = <<>> /\ devT' = 0 /\ devPc' = "crc"
           /\ Put(Line("READY-CRC", 0))
  <2> DEFINE K == {"READY-CRC", "eol"}
             m == Line("READY-CRC", 0)
  <2>1. Says(m, K) /\ Len(m) = 2 /\ m[2].k = "eol"
    BY SaysCrc
  <2> HIDE DEF m
  <2>2. /\ Grows(K) /\ Len(toHost') = Len(toHost) + 2 /\ Len(toHost) \in Nat
        /\ toHost'[Len(toHost) + 2] = m[2]
    <3>1. Put(m)
      BY <1>4 DEF m
    <3>2. /\ Grows(K) /\ Len(toHost') = Len(toHost) + Len(m)
          /\ \A j \in 1 .. Len(m) : toHost'[Len(toHost) + j] = m[j]
      BY <2>1, <3>1, PutGrows DEF TalkInv
    <3> QED
      BY <2>1, <3>2 DEF Grows
  <2>3. \A j \in 1 .. Len(toHost') : j > Len(toHost) + 1 => toHost'[j].k = "eol"
    <3>1. \A j \in 1 .. Len(toHost') : j > Len(toHost) + 1 => j = Len(toHost) + 2
      BY <2>2
    <3> QED
      BY <2>1, <2>2, <3>1
  <2>4. MaySay(K)
    BY <1>1, <1>4, <2>3 DEF MaySay, DevWaits, Prompts
  <2>5. DeviceStep(K)
    BY <1>1, <1>4, <2>2, <2>4, UploadAssumption DEF DeviceStep
  <2> QED
    BY <2>5, DeviceTalk
<1> QED
  BY <1>2, <1>3, <1>4 DEF GotBlock

LEMMA GotCrcTalk ==
  ASSUME TalkInv, GotCrc
  PROVE  TalkInv'
<1>1. devPc = "crc" /\ toDev # <<>> /\ toDev' = Tail(toDev) /\ UNCHANGED host /\ DevWaits
  BY DEF GotCrc, DevWaits
<1>2. CASE Fail
  BY <1>1, <1>2, FailStep
<1>3. CASE /\ devPc' = "stored" /\ devGot' = <<>> /\ devT' = 0
           /\ Put(Line("OK", 0) \o Line("result", 0) \o <<Text("s2", 0)>>)
  <2> DEFINE K == {"OK", "result", "eol", "s2"}
  <2>2. Grows(K)
    BY <1>3, SaysOk, PutGrows DEF TalkInv
  <2>3. MaySay(K)
    BY <1>1, <1>3 DEF MaySay, DevWaits, Prompts
  <2>4. DeviceStep(K)
    BY <1>1, <1>3, <2>2, <2>3, UploadAssumption DEF DeviceStep
  <2> QED
    BY <2>4, DeviceTalk
<1> QED
  BY <1>2, <1>3 DEF GotCrc

\* A key that is not the command.
LEMMA StrayKeyTalk ==
  ASSUME TalkInv, devT \in 0 .. ByteTimeout, devPc = "prompt", toDev # <<>>, toDev' = Tail(toDev), UNCHANGED <<host, devPc, devGot, devT>>,
         Put(Line("echo", 0) \o Prompt) \/ toHost' = toHost
  PROVE  TalkInv'
<1>1. ~DevWaits /\ ~DevWaits'
  BY DEF DevWaits
<1>2. CASE Put(Line("echo", 0) \o Prompt)
  <2> DEFINE K == {"echo", "eol"} \cup Prompts
  <2>2. Grows(K)
    BY <1>2, SaysEcho, PutGrows DEF TalkInv
  <2>3. MaySay(K)
    BY <1>1 DEF MaySay, Prompts
  <2>4. DeviceStep(K)
    BY <1>1, <2>2, <2>3 DEF DeviceStep, Prompts, Transfers
  <2> QED
    BY <2>4, DeviceTalk
<1>3. CASE toHost' = toHost
  <2>2. Grows({})
    BY <1>3, SilentGrows DEF TalkInv
  <2>3. MaySay({})
    BY <1>1 DEF MaySay
  <2>4. DeviceStep({})
    BY <1>1, <2>2, <2>3 DEF DeviceStep
  <2> QED
    BY <2>4, DeviceTalk
<1> QED
  BY <1>2, <1>3

\* upload_v2 starts: nothing the device said before its new READY-V2 answers the command.
LEMMA StartTalk ==
  ASSUME TalkInv, devPc = "prompt", toDev # <<>>, Head(toDev) = Cmd, UNCHANGED host,
         devPc' = "len", devGot' = <<>>, devT' = 0, toDev' = <<>>,
         Put(Line("echo", 0) \o Line("READY-V2", 0))
  PROVE  TalkInv'
<1> DEFINE m == Line("echo", 0) \o Line("READY-V2", 0)
           K == {"echo", "READY-V2", "eol"}
<1>1. Says(m, K) /\ \A j, l \in 1 .. Len(m) : j < l /\ m[j].k = "READY-V2" => m[l].k = "eol"
  BY SaysReady
<1>2. Put(m)
  OBVIOUS
<1> HIDE DEF m
<1>3. /\ Grows(K) /\ Len(toHost') = Len(toHost) + Len(m) /\ Len(toHost) \in Nat /\ Len(m) \in Nat
      /\ \A j \in 1 .. Len(m) : toHost'[Len(toHost) + j] = m[j]
  <2>1. Len(m) \in Nat
    BY <1>1, LenProperties DEF Says
  <2> QED
    BY <1>1, <1>2, <2>1, PutGrows DEF TalkInv, Grows
<1>4. 1 \in 1 .. Len(toDev) /\ toDev[1] = Cmd
  BY ReadFirst DEF TalkInv, SeqInv
<1>5. \A i : ~SinceCommand(i)
  BY <1>4 DEF SinceCommand
<1>6. ~Answered /\ ~Answered'
  BY <1>5 DEF TalkInv, LineInv, Answered, host
<1>7. hostPc' = hostPc /\ hostBuf' = hostBuf /\ caller' = caller /\ hostT' = hostT /\ hostI' = hostI
  BY DEF host
<1>8. \A J : First(J)' <=> First(J)
  BY <1>7 DEF First
<1>9. ASSUME NEW j \in 1 .. Len(toHost')
      PROVE  \/ j \in 1 .. Len(toHost) /\ toHost'[j] = toHost[j]
             \/ j - Len(toHost) \in 1 .. Len(m) /\ toHost'[j] = m[j - Len(toHost)] /\ toHost'[j].k \in K
  <2>1. CASE j <= Len(toHost)
    BY <1>3, <2>1 DEF Grows
  <2>2. CASE ~(j <= Len(toHost))
    <3>1. j - Len(toHost) \in 1 .. Len(m) /\ Len(toHost) + (j - Len(toHost)) = j
      BY <1>3, <2>2
    <3>2. toHost'[Len(toHost) + (j - Len(toHost))] = m[j - Len(toHost)]
      BY <1>3, <3>1
    <3>3. m[j - Len(toHost)].k \in K
      BY <1>1, <3>1 DEF Says
    <3> QED
      BY <3>1, <3>2, <3>3
  <2> QED
    BY <2>1, <2>2
<1>10. SeqInv'
  BY <1>3, <1>7 DEF TalkInv, SeqInv, Grows
<1>11. TimeInv'
  <2>1. HostWaits' <=> HostWaits
    BY <1>7 DEF HostWaits, InUpload
  <2> QED
    BY <1>7, <2>1 DEF TalkInv, TimeInv
<1>12. LineInv'
  <2>1. ASSUME hostPc = "READY-V2"
        PROVE  ~First({"READY-V2"}) /\ \A i \in 1 .. Len(toHost) : toHost[i].k # "READY-V2"
    BY <1>5, <2>1 DEF TalkInv, LineInv
  <2>2. ASSUME hostPc = "READY-V2", NEW i \in 1 .. Len(toHost'), toHost'[i].k = "READY-V2"
        PROVE  SinceCommand(i)'
    <3>1. i - Len(toHost) \in 1 .. Len(m) /\ m[i - Len(toHost)].k = "READY-V2"
      BY <1>9, <2>1, <2>2
    <3>2. ASSUME NEW j \in 1 .. Len(toHost'), j > i
          PROVE  toHost'[j].k = "eol"
      <4>1. j - Len(toHost) \in 1 .. Len(m) /\ i - Len(toHost) < j - Len(toHost) /\ ~(j \in 1 .. Len(toHost))
        BY <1>3, <3>1, <3>2
      <4>2. toHost'[j] = m[j - Len(toHost)]
        BY <1>9, <4>1
      <4> QED
        BY <1>1, <3>1, <4>1, <4>2
    <3> QED
      BY <3>2 DEF SinceCommand, Prompts
  <2> QED
    BY <1>6, <1>7, <1>8, <2>1, <2>2 DEF LineInv
<1>13. CrcSent'
  BY <1>6, <1>7 DEF Answered, CrcSent
<1>14. OkInv'
  <2>1. ~(hostPc \in {"prompt", "returned"} \/ First({"OK"}) \/ \E j \in 1 .. Len(toHost) : toHost[j].k = "OK")
    BY DEF TalkInv, OkInv
  <2>2. \A j \in 1 .. Len(toHost') : toHost'[j].k # "OK"
    BY <1>9, <2>1
  <2> QED
    BY <1>7, <1>8, <2>1, <2>2 DEF OkInv
<1>15. CrcInv'
  BY DEF CrcInv
<1>16. PromptInv'
  <2> SUFFICES ASSUME caller # "install"
               PROVE  PromptInv'
    BY <1>7 DEF PromptInv
  <2>1. hostPc = "READY-V2"
    BY <1>4 DEF TalkInv, PromptInv
  <2>2. ~First(Transfers \ {"READY-V2"}) /\ \A j \in 1 .. Len(toHost) : toHost[j].k \notin Transfers \ {"READY-V2"}
    BY <1>4, <2>1 DEF TalkInv, PromptInv
  <2>3. \A j \in 1 .. Len(toHost') : toHost'[j].k \notin Transfers \ {"READY-V2"}
    BY <1>9, <2>2 DEF Transfers
  <2> QED
    BY <1>7, <1>8, <2>1, <2>2, <2>3 DEF PromptInv
<1> QED
  BY <1>10, <1>11, <1>12, <1>13, <1>14, <1>15, <1>16 DEF TalkInv

LEMMA AtPromptTalk ==
  ASSUME TalkInv, devT \in 0 .. ByteTimeout, AtPrompt
  PROVE  TalkInv'
<1>1. devPc = "prompt" /\ toDev # <<>> /\ UNCHANGED host
  BY DEF AtPrompt
<1>2. CASE Head(toDev) = Cmd /\ StartExchange
  <2>1. CASE caller # "ram_boot" /\ dirty
    BY <1>1, <1>2, <2>1, FailStep DEF StartExchange, Fail
  <2>2. CASE ~(caller # "ram_boot" /\ dirty)
    BY <1>1, <1>2, <2>2, StartTalk DEF StartExchange
  <2> QED
    BY <2>1, <2>2
<1>3. CASE Head(toDev) # Cmd
  BY <1>1, <1>3, StrayKeyTalk DEF AtPrompt, Cmd
<1> QED
  BY <1>2, <1>3 DEF AtPrompt, Cmd

-----------------------------------------------------------------------------
(* Tokens leave the line to the host: they are read, lost or made noise.   *)

Thins(f) ==
  /\ toHost' \in Seq(HostTokens) /\ Len(toHost') \in Nat
  /\ \A j \in 1 .. Len(toHost') : /\ f[j] \in 1 .. Len(toHost)
                                  /\ toHost'[j].k = toHost[f[j]].k \/ toHost'[j].k = "noise"
  /\ \A j, l \in 1 .. Len(toHost') : j < l => f[j] < f[l]

\* The host reads a token.
Reads == toHost # <<>> /\ toHost' = Tail(toHost)

LEMMA ReadsThins ==
  ASSUME SeqInv, Reads
  PROVE  /\ 1 \in 1 .. Len(toHost) /\ Head(toHost) = toHost[1] /\ Head(toHost) \in HostTokens
         /\ \A j \in 1 .. Len(toHost') : j + 1 \in 1 .. Len(toHost) /\ toHost'[j] = toHost[j + 1]
         /\ Thins([j \in 1 .. Len(toHost') |-> j + 1])
<1>1. /\ Head(toHost) = toHost[1] /\ Head(toHost) \in HostTokens /\ 1 \in 1 .. Len(toHost)
      /\ toHost' \in Seq(HostTokens)
      /\ \A j \in 1 .. Len(toHost') : j + 1 \in 1 .. Len(toHost) /\ toHost'[j] = toHost[j + 1]
  BY ReadFirst DEF SeqInv, Reads
<1>2. Len(toHost') \in Nat
  BY <1>1, LenProperties
<1> QED
  BY <1>1, <1>2 DEF Thins

LEMMA SinceCommandThins ==
  ASSUME NEW f, Thins(f), NoNewCmd, UNCHANGED devPc, NEW i, NEW n, SinceCommand(i),
         \A j \in 1 .. Len(toHost') : j > n => f[j] > i
  PROVE  SinceCommand(n)'
<1>1. \A j \in 1 .. Len(toDev') : toDev'[j] # Cmd
  BY DEF NoNewCmd, SinceCommand
<1>2. DevWaits' <=> DevWaits
  BY DEF DevWaits
<1>3. ASSUME NEW j \in 1 .. Len(toHost'), j > n
      PROVE  /\ toHost'[j].k # "READY-V2"
             /\ toHost'[j].k = "READY-CRC" => devPc' \notin {"len", "blk"}
             /\ toHost'[j].k \in {"OK", "ERR"} \cup Prompts => ~DevWaits'
  <2>1. f[j] \in 1 .. Len(toHost) /\ f[j] > i /\ (toHost'[j].k = toHost[f[j]].k \/ toHost'[j].k = "noise")
    BY <1>3 DEF Thins
  <2> QED
    BY <1>2, <2>1 DEF SinceCommand, Prompts
<1>4. ASSUME NEW j \in 1 .. Len(toHost'), NEW l \in 1 .. Len(toHost'), n < j, j < l, toHost'[j].k = "READY-CRC"
      PROVE  toHost'[l].k \notin {"LEN", "READY-BLK", "READY-CRC"}
  <2>1. /\ f[j] \in 1 .. Len(toHost) /\ f[j] > i /\ toHost[f[j]].k = "READY-CRC"
        /\ f[l] \in 1 .. Len(toHost) /\ f[j] < f[l] /\ (toHost'[l].k = toHost[f[l]].k \/ toHost'[l].k = "noise")
    BY <1>4 DEF Thins
  <2>2. toHost[f[l]].k \notin {"LEN", "READY-BLK", "READY-CRC"}
    BY <2>1 DEF SinceCommand
  <2> QED
    BY <2>1, <2>2
<1> QED
  BY <1>1, <1>3, <1>4 DEF SinceCommand

\* The line to the host holds fewer kinds than before.
LEMMA ThinsKinds ==
  ASSUME NEW f, Thins(f), NEW K, "noise" \notin K
  PROVE  (\E j \in 1 .. Len(toHost') : toHost'[j].k \in K) => \E j \in 1 .. Len(toHost) : toHost[j].k \in K
BY DEF Thins

-----------------------------------------------------------------------------
(* Steps of the host.                                                      *)

\* A host step leaves the device alone.
LEMMA SameDevice ==
  ASSUME UNCHANGED dev
  PROVE  /\ devPc' = devPc /\ devGot' = devGot /\ devT' = devT /\ (DevWaits' <=> DevWaits)
BY DEF dev, DevWaits

LEMMA SameLineNoNewCmd ==
  ASSUME UNCHANGED toDev
  PROVE  NoNewCmd
BY DEF NoNewCmd

\* The first token of the line the host reads is one it had, or the one it has read now.
LEMMA ReadTokenFirst ==
  ASSUME SeqInv, ReadToken
  PROVE  \A K : First(K)' => First(K) \/ (1 \in 1 .. Len(toHost) /\ toHost[1].k \in K)
<1> SUFFICES ASSUME NEW K, First(K)'
             PROVE  First(K) \/ (1 \in 1 .. Len(toHost) /\ toHost[1].k \in K)
  OBVIOUS
<1>1. hostBuf \in Seq(HostTokens) /\ Len(hostBuf) \in Nat
  BY LenProperties DEF SeqInv
<1>2. 1 \in 1 .. Len(toHost) /\ Head(toHost) = toHost[1] /\ Head(toHost) \in HostTokens
  BY ReadsThins DEF Reads, ReadToken
<1>3. hostBuf' = Append(hostBuf, Head(toHost)) /\ hostBuf'[1].k \in K
  BY DEF ReadToken, First
<1>4. CASE hostBuf = <<>>
  <2>1. hostBuf'[1] = Head(toHost)
    BY <1>2, <1>3, <1>4
  <2> QED
    BY <1>2, <1>3, <2>1
<1>5. CASE hostBuf # <<>>
  <2>1. 1 \in 1 .. Len(hostBuf)
    BY <1>1, <1>5, EmptySeq
  <2>2. hostBuf'[1] = hostBuf[1]
    BY <1>1, <1>2, <1>3, <2>1, AppendProperties
  <2> QED
    BY <1>3, <1>5, <2>2 DEF First
<1> QED
  BY <1>4, <1>5

LEMMA ReadTokenTalk ==
  ASSUME TalkInv, ReadToken
  PROVE  TalkInv'
<1> DEFINE f == [j \in 1 .. Len(toHost') |-> j + 1]
<1>1. /\ 1 \in 1 .. Len(toHost) /\ Head(toHost) = toHost[1] /\ Head(toHost) \in HostTokens
      /\ \A j \in 1 .. Len(toHost') : j + 1 \in 1 .. Len(toHost) /\ toHost'[j] = toHost[j + 1]
      /\ Thins(f)
  BY ReadsThins DEF Reads, ReadToken, TalkInv
<1>2. /\ hostPc' = hostPc /\ hostT' = hostT /\ caller' = caller /\ data' = data /\ hostI' = hostI
      /\ toDev' = toDev /\ UNCHANGED dev /\ NoNewCmd
  BY SameLineNoNewCmd DEF ReadToken
<1>3. devPc' = devPc /\ devGot' = devGot /\ devT' = devT /\ (DevWaits' <=> DevWaits)
  BY <1>2, SameDevice
<1>4. \A K : First(K)' => First(K) \/ toHost[1].k \in K
  BY ReadTokenFirst DEF TalkInv
<1>5. (Answered' <=> Answered) /\ (HostWaits' <=> HostWaits)
  BY <1>2 DEF Answered, HostWaits, InUpload
<1>6. \A K : (\E j \in 1 .. Len(toHost') : toHost'[j].k \in K) => \E j \in 1 .. Len(toHost) : toHost[j].k \in K
  BY <1>1
<1>7. SeqInv'
  <2>1. hostBuf' \in Seq(HostTokens)
    BY <1>1, AppendProperties DEF ReadToken, TalkInv, SeqInv
  <2> QED
    BY <1>1, <1>2, <1>3, <2>1 DEF TalkInv, SeqInv, Thins
<1>8. TimeInv'
  BY <1>2, <1>3, <1>5 DEF TalkInv, TimeInv
<1>9. LineInv'
  <2>1. LineInv
    BY DEF TalkInv
  <2>2. SinceCommand(0) \/ SinceCommand(1) => SinceCommand(0)'
    <3>1. \A j \in 1 .. Len(toHost') : j > 0 => f[j] > 0 /\ f[j] > 1
      OBVIOUS
    <3> HIDE DEF f
    <3> QED
      BY <1>1, <1>2, <1>3, <3>1, SinceCommandThins
  <2>3. ASSUME hostPc = "READY-V2", First({"READY-V2"})'
        PROVE  SinceCommand(0)'
    BY <1>1, <1>4, <2>1, <2>2, <2>3 DEF LineInv
  <2>4. ASSUME hostPc = "READY-V2", NEW i \in 1 .. Len(toHost'), toHost'[i].k = "READY-V2"
        PROVE  SinceCommand(i)'
    <3>1. SinceCommand(i + 1)
      BY <1>1, <2>1, <2>4 DEF LineInv
    <3>2. \A j \in 1 .. Len(toHost') : j > i => f[j] > i + 1
      OBVIOUS
    <3> HIDE DEF f
    <3> QED
      BY <1>1, <1>2, <1>3, <3>1, <3>2, SinceCommandThins
  <2>5. ASSUME Answered, First({"READY-CRC"})'
        PROVE  /\ devPc' \notin {"len", "blk"}
               /\ \A l \in 1 .. Len(toHost') : toHost'[l].k \notin {"LEN", "READY-BLK", "READY-CRC"}
    <3>1. CASE First({"READY-CRC"})
      BY <1>1, <1>3, <2>1, <2>5, <3>1 DEF LineInv
    <3>2. CASE toHost[1].k = "READY-CRC"
      <4>1. SinceCommand(0)
        BY <2>1, <2>5 DEF LineInv
      <4>2. devPc \notin {"len", "blk"} /\ \A l \in 1 .. Len(toHost) : 1 < l => toHost[l].k \notin {"LEN", "READY-BLK", "READY-CRC"}
        BY <1>1, <3>2, <4>1 DEF SinceCommand
      <4>3. \A l \in 1 .. Len(toHost') : 1 < l + 1
        OBVIOUS
      <4> QED
        BY <1>1, <1>3, <4>2, <4>3
    <3> QED
      BY <1>4, <2>5, <3>1, <3>2
  <2>6. ASSUME Answered, First({"OK", "ERR"})'
        PROVE  ~DevWaits'
    <3>1. CASE First({"OK", "ERR"})
      BY <1>3, <2>1, <2>6, <3>1 DEF LineInv
    <3>2. CASE toHost[1].k \in {"OK", "ERR"}
      BY <1>1, <1>3, <2>1, <2>6, <3>2 DEF LineInv, SinceCommand
    <3> QED
      BY <1>4, <2>6, <3>1, <3>2
  <2> QED
    BY <1>2, <1>5, <2>1, <2>2, <2>3, <2>4, <2>5, <2>6 DEF LineInv
<1>10. CrcSent'
  BY <1>1, <1>2, <1>3, <1>4, <1>6 DEF TalkInv, CrcSent
<1>11. OkInv'
  <2>1. First({"OK"})' => First({"OK"}) \/ toHost[1].k = "OK"
    BY <1>4
  <2>2. \A j \in 1 .. Len(toHost') : toHost'[j].k = "OK" => \E l \in 1 .. Len(toHost) : toHost[l].k = "OK"
    BY <1>1
  <2> QED
    BY <1>1, <1>2, <1>3, <2>1, <2>2 DEF TalkInv, OkInv
<1>12. CrcInv'
  BY <1>2, <1>3 DEF TalkInv, CrcInv
<1>13. PromptInv'
  <2> SUFFICES ASSUME caller # "install"
               PROVE  PromptInv'
    BY <1>2 DEF PromptInv
  <2>1. PromptInv
    BY DEF TalkInv
  <2>2. First(Transfers \ {"READY-V2"})' \/ (\E j \in 1 .. Len(toHost') : toHost'[j].k \in Transfers \ {"READY-V2"}) =>
        First(Transfers \ {"READY-V2"}) \/ \E j \in 1 .. Len(toHost) : toHost[j].k \in Transfers \ {"READY-V2"}
    BY <1>1, <1>4, <1>6
  <2>3. hostPc \notin {"errprompt", "idle", "raised", "returned", "prompt"}
    BY DEF ReadToken, InUpload
  <2> QED
    BY <1>2, <1>3, <2>1, <2>2, <2>3 DEF PromptInv
<1> QED
  BY <1>7, <1>8, <1>9, <1>10, <1>11, <1>12, <1>13 DEF TalkInv

\* The host gives up the upload.
LEMMA RaiseTalk ==
  ASSUME TalkInv, devT \in Nat, Raise, UNCHANGED <<caller, data, dev>>, toHost' = toHost \/ Reads,
         DevWaits => hostPc # "OK",
         Answered \/ ~DevWaits \/ caller = "install",
         caller # "install" => \A j \in 1 .. Len(toDev) : toDev[j] # Cmd
  PROVE  TalkInv'
<1>1. /\ hostBuf' = <<>> /\ hostT' = 0 /\ hostI' = hostI /\ toDev' = toDev
      /\ hostPc' = IF caller = "install" THEN "raised" ELSE "errprompt"
  BY DEF Raise, Await
<1>2. devPc' = devPc /\ devGot' = devGot /\ devT' = devT /\ (DevWaits' <=> DevWaits)
  BY SameDevice
<1>3. /\ toHost' \in Seq(HostTokens)
      /\ \A K : (\E j \in 1 .. Len(toHost') : toHost'[j].k \in K) => \E j \in 1 .. Len(toHost) : toHost[j].k \in K
  <2>1. CASE toHost' = toHost
    BY <2>1 DEF TalkInv, SeqInv
  <2>2. CASE Reads
    BY <2>2, ReadsThins DEF TalkInv, Thins
  <2> QED
    BY <2>1, <2>2
<1>4. ~Answered' /\ hostPc' \notin {"READY-V2", "OK", "prompt", "returned", "idle"} /\ \A K : ~First(K)'
  BY <1>1 DEF Answered, First
<1>5. SeqInv'
  BY <1>1, <1>2, <1>3 DEF TalkInv, SeqInv
<1>6. TimeInv'
  BY <1>1, <1>2 DEF TimeInv
<1>7. LineInv'
  BY <1>4 DEF LineInv
<1>8. CrcSent'
  BY <1>4 DEF CrcSent
<1>9. OkInv'
  <2>1. (\E j \in 1 .. Len(toHost') : toHost'[j].k \in {"OK"}) => \E j \in 1 .. Len(toHost) : toHost[j].k \in {"OK"}
    BY <1>3
  <2> QED
    BY <1>2, <1>4, <2>1 DEF TalkInv, OkInv
<1>10. CrcInv'
  BY <1>1, <1>2 DEF TalkInv, CrcInv
<1>11. PromptInv'
  <2> SUFFICES ASSUME caller # "install", DevWaits, NEW j \in 1 .. Len(toHost'), toHost'[j].k \in Prompts
               PROVE  FALSE
    BY <1>1, <1>2, <1>4 DEF PromptInv
  <2>1. SinceCommand(0)
    BY DEF TalkInv, LineInv
  <2>2. PICK l \in 1 .. Len(toHost) : toHost[l].k \in Prompts
    BY <1>3
  <2> QED
    BY <2>1, <2>2 DEF SinceCommand
<1> QED
  BY <1>5, <1>6, <1>7, <1>8, <1>9, <1>10, <1>11 DEF TalkInv

\* What the host writes follows what is on the line.
LEMMA Written ==
  ASSUME SeqInv, NEW w \in Seq(DevTokens), Write(w)
  PROVE  /\ toDev' \in Seq(DevTokens) /\ Len(toDev) \in Nat /\ Len(w) \in Nat /\ Len(toDev') = Len(toDev) + Len(w)
         /\ \A j \in 1 .. Len(toDev') : \/ j \in 1 .. Len(toDev) /\ toDev'[j] = toDev[j]
                                        \/ j - Len(toDev) \in 1 .. Len(w) /\ toDev'[j] = w[j - Len(toDev)]
<1>1. toDev \in Seq(DevTokens) /\ toDev' = toDev \o w
  BY DEF SeqInv, Write
<1>2. /\ toDev' \in Seq(DevTokens) /\ Len(toDev') = Len(toDev) + Len(w)
      /\ \A i \in 1 .. Len(toDev) + Len(w) : toDev'[i] = IF i <= Len(toDev) THEN toDev[i] ELSE w[i - Len(toDev)]
      /\ Len(toDev) \in Nat /\ Len(w) \in Nat
  BY <1>1, ConcatProperties, LenProperties
<1>3. ASSUME NEW j \in 1 .. Len(toDev')
      PROVE  \/ j \in 1 .. Len(toDev) /\ toDev'[j] = toDev[j]
             \/ j - Len(toDev) \in 1 .. Len(w) /\ toDev'[j] = w[j - Len(toDev)]
  <2>1. CASE j <= Len(toDev)
    BY <1>2, <2>1
  <2>2. CASE ~(j <= Len(toDev))
    BY <1>2, <2>2
  <2> QED
    BY <2>1, <2>2
<1> QED
  BY <1>2, <1>3

\* Bytes are no commands and end no CRC, and neither does what a file is made of.
LEMMA Bytes ==
  ASSUME NEW x \in [b : 0 .. Base - 1] \cup FileTokens
  PROVE  x \in DevTokens /\ x # Cmd /\ ~CrcEnd(x)
<1>1. x \in DevTokens
  BY DEF DevTokens
<1>2. CASE x \in [b : 0 .. Base - 1]
  BY <1>1, <1>2 DEF Cmd, Text, CrcEnd, IsByte
<1>3. CASE x \in FileTokens /\ ~IsByte(x) /\ x = [crc |-> x.crc, i |-> 1]
  <2>1. x.i = 1 /\ Word # 1 /\ DOMAIN x = {"crc", "i"}
    BY <1>3, UploadAssumption
  <2>2. DOMAIN Cmd = {"k", "n"}
    BY DEF Cmd, Text
  <2> QED
    BY <1>1, <2>1, <2>2 DEF CrcEnd
<1> QED
  BY <1>2, <1>3, FilesAssumption

LEMMA PackedLength ==
  ASSUME NEW n \in Nat
  PROVE  /\ PackLen(n) \in Seq(DevTokens)
         /\ \A j \in 1 .. Len(PackLen(n)) : PackLen(n)[j] \in [b : 0 .. Base - 1]
<1>1. ASSUME NEW i \in 1 .. Word
      PROVE  Byte((n \div Base^(i - 1)) % Base) \in [b : 0 .. Base - 1]
  <2>1. n \div Base^(i - 1) \in Nat
    BY PowersAssumption
  <2>2. (n \div Base^(i - 1)) % Base \in 0 .. Base - 1
    BY <2>1, UploadAssumption
  <2> QED
    BY <2>2 DEF Byte
<1>2. Word \in Nat
  BY UploadAssumption
<1>3. PackLen(n) \in [1 .. Word -> [b : 0 .. Base - 1]]
  BY <1>1 DEF PackLen
<1>4. [b : 0 .. Base - 1] \subseteq DevTokens
  BY DEF DevTokens
<1>5. PackLen(n) \in Seq(DevTokens) /\ Len(PackLen(n)) = Word
  BY <1>2, <1>3, <1>4
<1> QED
  BY <1>3, <1>5

LEMMA WrittenCrc ==
  ASSUME NEW d \in Files \cup {<<>>}
  PROVE  /\ CrcWord(d) \in Seq(DevTokens)
         /\ \A j \in 1 .. Len(CrcWord(d)) : CrcWord(d)[j] # Cmd /\ CrcWord(d)[j].crc = d
<1>1. ASSUME NEW i \in 1 .. Word
      PROVE  /\ [crc |-> d, i |-> i] \in [crc : Files \cup {<<>>}, i : 1 .. Word]
             /\ [crc |-> d, i |-> i] # Cmd /\ [crc |-> d, i |-> i].crc = d
  <2>1. DOMAIN [crc |-> d, i |-> i] # DOMAIN Cmd
    BY DEF Cmd, Text
  <2> QED
    BY <2>1
<1>2. Word \in Nat
  BY UploadAssumption
<1>3. CrcWord(d) \in [1 .. Word -> [crc : Files \cup {<<>>}, i : 1 .. Word]]
  BY <1>1 DEF CrcWord
<1>4. [crc : Files \cup {<<>>}, i : 1 .. Word] \subseteq DevTokens
  BY DEF DevTokens
<1>5. CrcWord(d) \in Seq(DevTokens) /\ Len(CrcWord(d)) = Word
  BY <1>2, <1>3, <1>4
<1> QED
  BY <1>1, <1>5 DEF CrcWord

\* A slice of a file.
LEMMA WrittenSlice ==
  ASSUME NEW d \in Files \cup {<<>>}, NEW a \in Nat \ {0}, NEW b \in Nat, b <= Len(d)
  PROVE  /\ SubSeq(d, a, b) \in Seq(DevTokens)
         /\ \A j \in 1 .. Len(SubSeq(d, a, b)) : SubSeq(d, a, b)[j] \in FileTokens
<1>1. d \in Seq(FileTokens)
  <2>1. CASE d = <<>>
    BY <2>1
  <2>2. CASE d \in Files
    BY <2>2, FilesAssumption
  <2> QED
    BY <2>1, <2>2
<1>2. \A j \in a .. b : d[j] \in FileTokens
  <2>1. Len(d) \in Nat /\ \A j \in 1 .. Len(d) : d[j] \in FileTokens
    BY <1>1, LenProperties, ElementOfSeq
  <2> QED
    BY <2>1
<1>3. SubSeq(d, a, b) \in Seq(FileTokens)
  BY <1>1, <1>2, SubSeqProperties
<1>4. \A j \in 1 .. Len(SubSeq(d, a, b)) : SubSeq(d, a, b)[j] \in FileTokens
  BY <1>3, ElementOfSeq
<1>5. FileTokens \subseteq DevTokens
  BY DEF DevTokens
<1> QED
  BY <1>3, <1>4, <1>5

\* The host goes on with the upload: it has read a line that it expected.
GoesOn(w) ==
  /\ w \in Seq(DevTokens) /\ Write(w) /\ Reads
  /\ \A j \in 1 .. Len(w) : w[j] # Cmd
  /\ hostPc' \in {"LEN", "READY-BLK", "READY-CRC", "OK"} /\ hostPc # "OK"
  /\ hostBuf' = <<>> /\ hostT' = 0 /\ hostI' \in Nat
  /\ UNCHANGED <<caller, data, dev>>
  /\ SinceCommand(0)

LEMMA GoesOnTalk ==
  ASSUME TalkInv, devT \in Nat, NEW w, GoesOn(w),
         \A j \in 1 .. Len(w) : CrcEnd(w[j]) => hostPc' = "OK" /\ w[j].crc = data,
         hostPc' = "OK" => /\ devPc \notin {"len", "blk"}
                           /\ \A l \in 1 .. Len(toHost) : toHost[l].k \notin {"LEN", "READY-BLK", "READY-CRC"}
  PROVE  TalkInv'
<1> DEFINE f == [j \in 1 .. Len(toHost') |-> j + 1]
<1>1. /\ \A j \in 1 .. Len(toHost') : j + 1 \in 1 .. Len(toHost) /\ toHost'[j] = toHost[j + 1]
      /\ Thins(f)
  BY ReadsThins DEF GoesOn, TalkInv
<1>2. /\ toDev' \in Seq(DevTokens)
      /\ \A j \in 1 .. Len(toDev') : \/ j \in 1 .. Len(toDev) /\ toDev'[j] = toDev[j]
                                     \/ j - Len(toDev) \in 1 .. Len(w) /\ toDev'[j] = w[j - Len(toDev)]
  BY Written DEF GoesOn, TalkInv
<1>3. devPc' = devPc /\ devGot' = devGot /\ devT' = devT /\ (DevWaits' <=> DevWaits)
  BY SameDevice DEF GoesOn
<1>4. /\ Answered' /\ hostPc' \notin {"READY-V2", "prompt", "returned", "errprompt", "idle", "raised"}
      /\ \A K : ~First(K)'
  BY DEF Answered, First, GoesOn
<1>5. NoNewCmd
  BY <1>2 DEF NoNewCmd, GoesOn
<1>6. SinceCommand(0)'
  <2>1. \A j \in 1 .. Len(toHost') : j > 0 => f[j] > 0
    OBVIOUS
  <2> HIDE DEF f
  <2> QED
    BY <1>1, <1>3, <1>5, <2>1, SinceCommandThins DEF GoesOn
<1>7. SeqInv'
  BY <1>1, <1>2, <1>3 DEF TalkInv, SeqInv, Thins, GoesOn
<1>8. TimeInv'
  BY <1>3 DEF TimeInv, GoesOn
<1>9. LineInv'
  BY <1>4, <1>6 DEF LineInv
<1>10. CrcSent'
  <2> SUFFICES ASSUME hostPc' = "OK", DevWaits, NEW l \in 1 .. Len(toHost'), toHost'[l].k \in Transfers
               PROVE  FALSE
    BY <1>3, <1>4 DEF CrcSent, DevWaits
  <2>1. l + 1 \in 1 .. Len(toHost) /\ toHost[l + 1].k \in Transfers /\ l + 1 > 0
    BY <1>1
  <2>2. toHost[l + 1].k \notin {"READY-V2", "OK", "ERR"}
    BY <2>1 DEF SinceCommand, GoesOn
  <2> QED
    BY <2>1, <2>2 DEF Transfers
<1>11. OkInv'
  <2>1. \A j \in 1 .. Len(toHost') : toHost'[j].k = "OK" => devPc = "stored"
    BY <1>1 DEF TalkInv, OkInv
  <2> QED
    BY <1>3, <1>4, <2>1 DEF OkInv
<1>12. CrcInv'
  <2> SUFFICES ASSUME DevWaits
               PROVE  /\ \A j \in 1 .. Len(toDev') : CrcEnd(toDev'[j]) => hostPc' = "OK" /\ toDev'[j].crc = data
                      /\ \A j \in 1 .. Len(devGot) : ~CrcEnd(devGot[j])
    BY <1>3 DEF CrcInv, GoesOn
  <2>1. /\ \A j \in 1 .. Len(toDev) : ~CrcEnd(toDev[j])
        /\ \A j \in 1 .. Len(devGot) : ~CrcEnd(devGot[j])
    BY DEF TalkInv, CrcInv, GoesOn
  <2> QED
    BY <1>2, <2>1
<1>13. PromptInv'
  <2>1. \A j \in 1 .. Len(toDev') : toDev'[j] # Cmd
    BY <1>6 DEF SinceCommand
  <2> QED
    BY <1>4, <2>1 DEF PromptInv
<1> QED
  BY <1>7, <1>8, <1>9, <1>10, <1>11, <1>12, <1>13 DEF TalkInv

\* [OK] has come: the host waits for the prompt.
LEMMA UploadedTalk ==
  ASSUME TalkInv, devT \in Nat, Reads, UNCHANGED <<caller, data, dev, toDev, hostI>>, hostPc' = "prompt", hostBuf' = <<>>, hostT' = 0,
         devPc = "stored", hostPc = "OK"
  PROVE  TalkInv'
<1>1. /\ \A j \in 1 .. Len(toHost') : j + 1 \in 1 .. Len(toHost) /\ toHost'[j] = toHost[j + 1]
      /\ toHost' \in Seq(HostTokens)
  BY ReadsThins DEF TalkInv, Thins
<1>2. devPc' = devPc /\ devGot' = devGot /\ devT' = devT /\ ~DevWaits' /\ ~DevWaits
  BY SameDevice DEF DevWaits
<1>3. ~Answered' /\ \A K : ~First(K)'
  BY DEF Answered, First
<1>4. \A j \in 1 .. Len(toDev) : toDev[j] # Cmd
  BY DEF TalkInv, LineInv, SinceCommand, Answered
<1>5. SeqInv' /\ TimeInv' /\ LineInv' /\ CrcSent' /\ OkInv' /\ CrcInv'
  BY <1>1, <1>2, <1>3 DEF TalkInv, SeqInv, TimeInv, LineInv, CrcSent, OkInv, CrcInv
<1>6. PromptInv'
  BY <1>2, <1>3, <1>4 DEF PromptInv
<1> QED
  BY <1>5, <1>6 DEF TalkInv

LEMMA ProceedTalk ==
  ASSUME TalkInv, TypeOK, ExpectedLine, AsExpected
  PROVE  TalkInv'
<1>1. /\ Reads /\ Proceed /\ UNCHANGED <<caller, data, dev>> /\ InUpload /\ hostBuf # <<>>
      /\ hostBuf[1] = Wants
  BY DEF ExpectedLine, Reads, AsExpected, IsTransferLine
<1>2. First({hostPc})
  <2>1. Wants.k = hostPc
    BY TextToken DEF Wants
  <2> QED
    BY <1>1, <2>1 DEF First
<1>3. devT \in Nat /\ data \in Files \cup {<<>>} /\ hostI \in Nat /\ LineInv
  BY UploadAssumption DEF TypeOK, TalkInv, SeqInv
<1>4. hostPc \in {"READY-V2", "LEN", "READY-BLK", "READY-CRC"} => SinceCommand(0)
  BY <1>2, <1>3 DEF LineInv, Answered
<1>5. Len(data) \in Nat
  <2>1. CASE data = <<>>
    BY <2>1
  <2>2. CASE data \in Files
    BY <2>2, FilesAssumption, LenProperties
  <2> QED
    BY <1>3, <2>1, <2>2
<1>6. CASE hostPc = "READY-V2" /\ Write(PackLen(Len(data))) /\ Await("LEN") /\ hostI' = hostI
  <2> DEFINE w == PackLen(Len(data))
  <2>1. /\ w \in Seq(DevTokens)
        /\ \A j \in 1 .. Len(w) : w[j] \in [b : 0 .. Base - 1]
    BY <1>5, PackedLength
  <2>2. Write(w)
    BY <1>6
  <2> HIDE DEF w
  <2>3. \A j \in 1 .. Len(w) : w[j] # Cmd /\ ~CrcEnd(w[j])
    BY <2>1, Bytes
  <2>4. GoesOn(w)
    BY <1>1, <1>3, <1>4, <1>6, <2>1, <2>2, <2>3 DEF GoesOn, Await
  <2>5. hostPc' # "OK"
    BY <1>6 DEF Await
  <2> QED
    BY <1>3, <2>3, <2>4, <2>5, GoesOnTalk
<1>7. CASE /\ hostPc = "LEN" /\ toDev' = toDev /\ hostI' = hostI
           /\ Await(IF Blocks > 0 THEN "READY-BLK" ELSE "READY-CRC")
  <2>1. Write(<<>>)
    <3>1. toDev \o <<>> = toDev
      BY ConcatEmptySeq DEF TalkInv, SeqInv
    <3> QED
      BY <1>7, <3>1 DEF Write
  <2>2. hostPc' \in {"READY-BLK", "READY-CRC"} /\ hostBuf' = <<>> /\ hostT' = 0
    BY <1>7 DEF Await
  <2>3. GoesOn(<<>>)
    BY <1>1, <1>3, <1>4, <1>7, <2>1, <2>2 DEF GoesOn
  <2> QED
    BY <1>3, <2>2, <2>3, GoesOnTalk
<1>8. CASE /\ hostPc = "READY-BLK" /\ hostI' = hostI + 1
           /\ Write(SubSeq(data, hostI * Block + 1, IF (hostI + 1) * Block < Len(data) THEN (hostI + 1) * Block ELSE Len(data)))
           /\ Await(IF hostI + 1 < Blocks THEN "READY-BLK" ELSE "READY-CRC")
  <2> DEFINE a == hostI * Block + 1
             b == IF (hostI + 1) * Block < Len(data) THEN (hostI + 1) * Block ELSE Len(data)
             w == SubSeq(data, a, b)
  <2>1. hostI * Block \in Nat /\ (hostI + 1) * Block \in Nat
    BY <1>3, UploadAssumption
  <2>2. a \in Nat \ {0} /\ b \in Nat /\ b <= Len(data)
    BY <1>5, <2>1
  <2>3. Write(w)
    BY <1>8
  <2> HIDE DEF a, b
  <2>4. w \in Seq(DevTokens) /\ \A j \in 1 .. Len(w) : w[j] \in FileTokens
    BY <1>3, <2>2, WrittenSlice
  <2> HIDE DEF w
  <2>5. \A j \in 1 .. Len(w) : w[j] # Cmd /\ ~CrcEnd(w[j])
    BY <2>4, Bytes
  <2>6. hostPc' \in {"READY-BLK", "READY-CRC"} /\ hostBuf' = <<>> /\ hostT' = 0
    BY <1>8 DEF Await
  <2>7. GoesOn(w)
    BY <1>1, <1>3, <1>4, <1>8, <2>3, <2>4, <2>5, <2>6 DEF GoesOn
  <2> QED
    BY <1>3, <2>5, <2>6, <2>7, GoesOnTalk
<1>9. CASE hostPc = "READY-CRC" /\ Write(CrcWord(data)) /\ Await("OK") /\ hostI' = hostI
  <2> DEFINE w == CrcWord(data)
  <2>1. w \in Seq(DevTokens) /\ \A j \in 1 .. Len(w) : w[j] # Cmd /\ w[j].crc = data
    BY <1>3, WrittenCrc
  <2>2. Write(w)
    BY <1>9
  <2> HIDE DEF w
  <2>3. hostPc' = "OK" /\ hostBuf' = <<>> /\ hostT' = 0
    BY <1>9 DEF Await
  <2>4. GoesOn(w)
    BY <1>1, <1>3, <1>4, <1>9, <2>1, <2>2, <2>3 DEF GoesOn
  <2>5. /\ devPc \notin {"len", "blk"}
        /\ \A l \in 1 .. Len(toHost) : toHost[l].k \notin {"LEN", "READY-BLK", "READY-CRC"}
    BY <1>2, <1>3, <1>9 DEF LineInv, Answered
  <2> QED
    BY <1>3, <2>1, <2>3, <2>4, <2>5, GoesOnTalk
<1>10. CASE hostPc = "OK" /\ toDev' = toDev /\ Await("prompt") /\ hostI' = hostI
  <2>1. devPc = "stored"
    BY <1>2, <1>10 DEF TalkInv, OkInv
  <2> QED
    BY <1>1, <1>3, <1>10, <2>1, UploadedTalk DEF Await
<1> QED
  BY <1>1, <1>6, <1>7, <1>8, <1>9, <1>10 DEF Proceed

\* A line that is not the expected one: [OK] is never what a device in an exchange refuses.
LEMMA RefusedTalk ==
  ASSUME TalkInv, TypeOK, ExpectedLine, ~AsExpected
  PROVE  TalkInv'
<1>1. /\ Reads /\ Raise /\ UNCHANGED <<caller, data, dev>> /\ InUpload /\ hostBuf # <<>>
      /\ hostBuf[1].k \in Transfers /\ hostBuf[1] # Wants
  BY DEF ExpectedLine, Reads, AsExpected, IsTransferLine, Transfers
<1>2. First(Transfers) /\ devT \in Nat
  BY <1>1, UploadAssumption DEF First, TypeOK
<1>3. DevWaits => hostPc # "OK"
  BY <1>2 DEF TalkInv, CrcSent
<1>4. ASSUME hostPc = "READY-V2", caller # "install"
      PROVE  ~DevWaits /\ \A j \in 1 .. Len(toDev) : toDev[j] # Cmd
  <2>1. hostBuf[1] \in HostTokens
    <3>1. hostBuf \in Seq(HostTokens) /\ 1 \in 1 .. Len(hostBuf)
      BY <1>1, ReadFirst DEF TalkInv, SeqInv
    <3> QED
      BY <3>1, ElementOfSeq
  <2>2. hostBuf[1].k # "READY-V2"
    <3> SUFFICES ASSUME hostBuf[1].k = "READY-V2" PROVE FALSE
      OBVIOUS
    <3>1. hostBuf[1] = Text("READY-V2", 0)
      BY <2>1, HostToken DEF Numbered
    <3>2. Wants = Text("READY-V2", 0)
      BY <1>4 DEF Wants
    <3> QED
      BY <1>1, <3>1, <3>2
  <2>3. First(Transfers \ {"READY-V2"})
    BY <1>1, <2>2 DEF First
  <2> QED
    BY <1>4, <2>3 DEF TalkInv, PromptInv
<1>5. hostPc = "READY-V2" \/ Answered
  BY <1>1 DEF InUpload, Answered
<1>6. Answered \/ ~DevWaits \/ caller = "install"
  BY <1>4, <1>5
<1>7. caller # "install" => \A j \in 1 .. Len(toDev) : toDev[j] # Cmd
  BY <1>4, <1>5 DEF TalkInv, LineInv, SinceCommand
<1> QED
  BY <1>1, <1>2, <1>3, <1>6, <1>7, RaiseTalk

\* The device gives up before the host does.
LEMMA HostLast ==
  ASSUME TalkInv, TypeOK, HostWaits, hostT >= LineTimeout
  PROVE  ~DevWaits /\ toDev = <<>>
BY UploadAssumption DEF TypeOK, TalkInv, TimeInv

LEMMA LineTimesOutTalk ==
  ASSUME TalkInv, TypeOK, LineTimesOut
  PROVE  TalkInv'
<1>1. ~DevWaits /\ toDev = <<>>
  BY HostLast DEF LineTimesOut, HostWaits
<1>2. devT \in Nat
  BY UploadAssumption DEF TypeOK
<1>3. \A j \in 1 .. Len(toDev) : toDev[j] # Cmd
  BY <1>1
<1> QED
  BY <1>1, <1>2, <1>3, RaiseTalk DEF LineTimesOut

\* The host leaves the call, or waits on for the prompt.
LEMMA EndTalk ==
  ASSUME TalkInv, UNCHANGED <<caller, data, dev, toDev, hostI>>, toHost' = toHost \/ Reads,
         hostPc \in {"prompt", "errprompt", "raised", "returned"},
         hostPc' \in {hostPc, "raised", "returned", "idle"}, hostBuf' = hostBuf \/ hostBuf' = <<>>,
         hostPc' = hostPc => hostT' = hostT,
         hostPc' = "returned" => hostPc \in {"prompt", "returned"},
         hostPc' \in {"raised", "idle"} /\ caller # "install" => ~DevWaits
  PROVE  TalkInv'
<1>1. /\ toHost' \in Seq(HostTokens)
      /\ \A K : (\E j \in 1 .. Len(toHost') : toHost'[j].k \in K) => \E j \in 1 .. Len(toHost) : toHost[j].k \in K
  <2>1. CASE toHost' = toHost
    BY <2>1 DEF TalkInv, SeqInv
  <2>2. CASE Reads
    BY <2>2, ReadsThins DEF TalkInv, Thins
  <2> QED
    BY <2>1, <2>2
<1>2. devPc' = devPc /\ devGot' = devGot /\ devT' = devT /\ (DevWaits' <=> DevWaits)
  BY SameDevice
<1>3. ~Answered' /\ ~Answered /\ hostPc' \notin {"READY-V2", "OK"} /\ \A K : First(K)' => First(K)
  BY DEF Answered, First
<1>4. SeqInv'
  <2>1. hostBuf' \in Seq(HostTokens)
    <3>1. hostBuf \in Seq(HostTokens) /\ <<>> \in Seq(HostTokens)
      BY DEF TalkInv, SeqInv
    <3>2. CASE hostBuf' = <<>>
      BY <3>1, <3>2
    <3>3. CASE hostBuf' = hostBuf
      BY <3>1, <3>3
    <3> QED
      BY <3>2, <3>3
  <2> QED
    BY <1>1, <1>2, <2>1 DEF TalkInv, SeqInv
<1>5. TimeInv'
  <2>1. HostWaits' => HostWaits /\ hostPc' = hostPc
    BY DEF HostWaits, InUpload
  <2> QED
    BY <1>2, <2>1 DEF TalkInv, TimeInv
<1>6. LineInv' /\ CrcSent'
  BY <1>3 DEF LineInv, CrcSent
<1>7. OkInv'
  <2>1. (\E j \in 1 .. Len(toHost') : toHost'[j].k \in {"OK"}) => \E j \in 1 .. Len(toHost) : toHost[j].k \in {"OK"}
    BY <1>1
  <2>2. hostPc' \in {"prompt", "returned"} => hostPc \in {"prompt", "returned"}
    OBVIOUS
  <2> QED
    BY <1>2, <1>3, <2>1, <2>2 DEF TalkInv, OkInv
<1>8. CrcInv'
  BY <1>2 DEF TalkInv, CrcInv
<1>9. PromptInv'
  <2> SUFFICES ASSUME caller # "install" PROVE PromptInv'
    BY DEF PromptInv
  <2>1. \A j \in 1 .. Len(toDev) : toDev[j] # Cmd
    BY DEF TalkInv, PromptInv
  <2>2. ASSUME hostPc' = "errprompt", DevWaits, NEW j \in 1 .. Len(toHost'), toHost'[j].k \in Prompts
        PROVE  FALSE
    <3>1. hostPc = "errprompt"
      BY <2>2
    <3> QED
      BY <1>1, <2>2, <3>1 DEF TalkInv, PromptInv
  <2>3. hostPc' \in {"idle", "raised", "returned", "prompt"} => ~DevWaits
    BY DEF TalkInv, PromptInv
  <2> QED
    BY <1>2, <1>3, <2>1, <2>2, <2>3 DEF PromptInv
<1> QED
  BY <1>4, <1>5, <1>6, <1>7, <1>8, <1>9 DEF TalkInv

LEMMA ReadPromptTalk ==
  ASSUME TalkInv, ReadPrompt
  PROVE  TalkInv'
<1>1. /\ hostPc \in {"prompt", "errprompt"} /\ Reads /\ UNCHANGED <<caller, data, dev, toDev, hostI>>
  BY DEF ReadPrompt, Reads
<1>2. Head(toHost) = toHost[1] /\ 1 \in 1 .. Len(toHost)
  BY <1>1, ReadsThins DEF TalkInv
<1>3. CASE Head(toHost).k \in PromptsRead
  <2>1. /\ hostPc' = IF hostPc = "prompt" /\ Head(toHost).k = "s2" THEN "returned" ELSE "raised"
        /\ hostBuf' = <<>>
    BY <1>3 DEF ReadPrompt
  <2>2. Prompt[1].k \in Prompts
    BY TextToken DEF Prompt, Prompts
  <2>3. toHost[1].k \in Prompts
    BY <1>2, <1>3, <2>2 DEF PromptsRead, Prompts
  <2>4. caller # "install" => ~DevWaits
    BY <1>1, <1>2, <2>3 DEF TalkInv, PromptInv
  <2> QED
    BY <1>1, <2>1, <2>4, EndTalk
<1>4. CASE UNCHANGED <<hostPc, hostBuf, hostT>>
  BY <1>1, <1>4, EndTalk
<1> QED
  BY <1>3, <1>4 DEF ReadPrompt

LEMMA PromptTimesOutTalk ==
  ASSUME TalkInv, TypeOK, PromptTimesOut
  PROVE  TalkInv'
<1>1. ~DevWaits
  BY HostLast DEF PromptTimesOut, HostWaits
<1> QED
  BY <1>1, EndTalk DEF PromptTimesOut, Await, line

LEMMA ReturnTalk ==
  ASSUME TalkInv, Return
  PROVE  TalkInv'
<1>1. caller # "install" => ~DevWaits
  BY DEF Return, TalkInv, PromptInv
<1> QED
  BY <1>1, EndTalk DEF Return, line

\* A new command: the host forgets what it has read.
LEMMA CallTalk ==
  ASSUME TalkInv, devT \in Nat, Call
  PROVE  TalkInv'
<1>1. /\ hostPc = "idle" /\ hostPc' = "READY-V2" /\ hostBuf' = <<>> /\ hostT' = 0 /\ toHost' = <<>>
      /\ Write(<<Cmd>>) /\ hostI' = 0 /\ UNCHANGED <<caller, devGot, devT>>
      /\ devPc' = devPc \/ devPc' = "prompt"
  BY DEF Call, Await, Cmd
<1>2. <<Cmd>> \in Seq(DevTokens) /\ Len(<<Cmd>>) = 1 /\ <<Cmd>>[1] = Cmd
  BY DEF DevTokens
<1>3. DevWaits' => DevWaits /\ devPc' = devPc
  BY <1>1 DEF DevWaits
<1>4. /\ toDev' \in Seq(DevTokens) /\ Len(toDev) \in Nat /\ Len(toDev') = Len(toDev) + 1
      /\ \A j \in 1 .. Len(toDev') : \/ j \in 1 .. Len(toDev) /\ toDev'[j] = toDev[j]
                                     \/ j = Len(toDev') /\ toDev'[j] = Cmd
  <2> DEFINE w == <<Cmd>>
  <2>1. w \in Seq(DevTokens) /\ Len(w) = 1 /\ w[1] = Cmd /\ Write(w) /\ SeqInv
    BY <1>1, <1>2 DEF TalkInv
  <2> HIDE DEF w
  <2>2. /\ toDev' \in Seq(DevTokens) /\ Len(toDev) \in Nat /\ Len(toDev') = Len(toDev) + Len(w)
        /\ \A j \in 1 .. Len(toDev') : \/ j \in 1 .. Len(toDev) /\ toDev'[j] = toDev[j]
                                       \/ j - Len(toDev) \in 1 .. Len(w) /\ toDev'[j] = w[j - Len(toDev)]
    BY <2>1, Written
  <2>3. \A j \in 1 .. Len(toDev') : j - Len(toDev) \in 1 .. 1 => j - Len(toDev) = 1 /\ j = Len(toDev')
    BY <2>1, <2>2
  <2> QED
    BY <2>1, <2>2, <2>3
<1>5. ~Answered' /\ Len(toHost') = 0 /\ \A K : ~First(K)'
  BY <1>1 DEF Answered, First
<1>6. SeqInv'
  BY <1>1, <1>4 DEF TalkInv, SeqInv
<1>7. TimeInv'
  BY <1>1 DEF TimeInv
<1>8. LineInv' /\ CrcSent' /\ OkInv'
  BY <1>1, <1>5 DEF LineInv, CrcSent, OkInv
<1>9. CrcInv'
  <2> SUFFICES ASSUME DevWaits'
               PROVE  /\ \A j \in 1 .. Len(toDev') : ~CrcEnd(toDev'[j])
                      /\ \A j \in 1 .. Len(devGot') : ~CrcEnd(devGot'[j])
    BY DEF CrcInv
  <2>1. /\ \A j \in 1 .. Len(toDev) : ~CrcEnd(toDev[j])
        /\ \A j \in 1 .. Len(devGot) : ~CrcEnd(devGot[j])
    BY <1>1, <1>3 DEF TalkInv, CrcInv
  <2>2. ~CrcEnd(Cmd)
    BY DEF CrcEnd
  <2> QED
    BY <1>1, <1>4, <2>1, <2>2
<1>10. PromptInv'
  <2> SUFFICES ASSUME caller # "install" PROVE PromptInv'
    BY <1>1 DEF PromptInv
  <2>1. ~DevWaits' /\ \A j \in 1 .. Len(toDev) : toDev[j] # Cmd
    BY <1>1, <1>3 DEF TalkInv, PromptInv
  <2>2. \A j \in 1 .. Len(toDev') : toDev'[j] = Cmd => j = Len(toDev')
    BY <1>4, <2>1
  <2> QED
    BY <1>1, <1>5, <2>1, <2>2 DEF PromptInv
<1> QED
  BY <1>6, <1>7, <1>8, <1>9, <1>10 DEF TalkInv

LEMMA TickTalk ==
  ASSUME TalkInv, TypeOK, Tick
  PROVE  TalkInv'
<1>1. /\ toDev = <<>> /\ UNCHANGED <<toDev, toHost, devPc, devGot, hostPc, hostBuf, hostI, caller, data>>
      /\ devT' = IF DevWaits THEN devT + 1 ELSE devT
      /\ hostT' = IF HostWaits THEN hostT + 1 ELSE hostT
  BY DEF Tick, line
<1>2. (DevWaits' <=> DevWaits) /\ (HostWaits' <=> HostWaits) /\ (Answered' <=> Answered)
  BY <1>1 DEF DevWaits, HostWaits, InUpload, Answered
<1>3. \A K : First(K)' <=> First(K)
  BY <1>1 DEF First
<1>4. \A i : SinceCommand(i)' <=> SinceCommand(i)
  BY <1>1, <1>2 DEF SinceCommand
<1>5. SeqInv'
  BY <1>1 DEF TalkInv, SeqInv
<1>6. TimeInv'
  <2>1. HostWaits /\ DevWaits => hostT <= devT
    BY DEF TalkInv, TimeInv
  <2>2. hostT \in Nat /\ devT \in Nat
    BY UploadAssumption DEF TypeOK
  <2> QED
    BY <1>1, <1>2, <2>1, <2>2 DEF TimeInv
<1>7. LineInv'
  BY <1>1, <1>2, <1>3, <1>4 DEF TalkInv, LineInv
<1>8. CrcSent' /\ OkInv' /\ CrcInv' /\ PromptInv'
  BY <1>1, <1>2, <1>3 DEF TalkInv, CrcSent, OkInv, CrcInv, PromptInv
<1> QED
  BY <1>5, <1>6, <1>7, <1>8 DEF TalkInv

-----------------------------------------------------------------------------
(* Faults of the line.                                                     *)

\* A token to the host is lost or made another.
LEMMA ThinTalk ==
  ASSUME TalkInv, NEW f, Thins(f), UNCHANGED <<host, dev, toDev>>
  PROVE  TalkInv'
<1>1. hostPc' = hostPc /\ hostBuf' = hostBuf /\ hostI' = hostI /\ hostT' = hostT /\ caller' = caller /\ data' = data
  BY DEF host
<1>2. devPc' = devPc /\ devGot' = devGot /\ devT' = devT /\ (DevWaits' <=> DevWaits)
  BY SameDevice
<1>3. (HostWaits' <=> HostWaits) /\ (Answered' <=> Answered) /\ \A K : First(K)' <=> First(K)
  BY <1>1 DEF HostWaits, InUpload, Answered, First
<1>4. ASSUME NEW K, "noise" \notin K, NEW j \in 1 .. Len(toHost'), toHost'[j].k \in K
      PROVE  \E l \in 1 .. Len(toHost) : toHost[l].k \in K
  BY <1>4, ThinsKinds
<1>5. NoNewCmd
  BY SameLineNoNewCmd
<1>6. SeqInv' /\ TimeInv' /\ CrcInv'
  BY <1>1, <1>2, <1>3 DEF TalkInv, SeqInv, TimeInv, CrcInv, Thins
<1>7. LineInv'
  <2>1. LineInv
    BY DEF TalkInv
  <2>2. SinceCommand(0) => SinceCommand(0)'
    <3>1. \A j \in 1 .. Len(toHost') : j > 0 => f[j] > 0
      BY DEF Thins
    <3> QED
      BY <1>2, <1>5, <3>1, SinceCommandThins
  <2>3. ASSUME hostPc = "READY-V2", NEW i \in 1 .. Len(toHost'), toHost'[i].k = "READY-V2"
        PROVE  SinceCommand(i)'
    <3>1. f[i] \in 1 .. Len(toHost) /\ toHost[f[i]].k = "READY-V2"
      BY <2>3 DEF Thins
    <3>2. SinceCommand(f[i])
      BY <2>1, <2>3, <3>1 DEF LineInv
    <3>3. \A j \in 1 .. Len(toHost') : j > i => f[j] > f[i]
      BY DEF Thins
    <3> QED
      BY <1>2, <1>5, <3>2, <3>3, SinceCommandThins
  <2>4. ASSUME Answered, First({"READY-CRC"}), NEW l \in 1 .. Len(toHost')
        PROVE  toHost'[l].k \notin {"LEN", "READY-BLK", "READY-CRC"}
    BY <1>4, <2>1, <2>4 DEF LineInv
  <2>5. Answered /\ First({"READY-CRC"}) => devPc' \notin {"len", "blk"}
    BY <1>2, <2>1 DEF LineInv
  <2>6. Answered /\ First({"OK", "ERR"}) => ~DevWaits'
    BY <1>2, <2>1 DEF LineInv
  <2> QED
    BY <1>1, <1>3, <2>1, <2>2, <2>3, <2>4, <2>5, <2>6 DEF LineInv
<1>8. CrcSent'
  <2>1. "noise" \notin Transfers
    BY DEF Transfers
  <2> QED
    BY <1>1, <1>2, <1>3, <1>4, <2>1 DEF TalkInv, CrcSent
<1>9. OkInv'
  <2>1. (\E j \in 1 .. Len(toHost') : toHost'[j].k = "OK") => \E j \in 1 .. Len(toHost) : toHost[j].k = "OK"
    <3>1. "noise" \notin {"OK"} /\ \A y : y \in {"OK"} <=> y = "OK"
      OBVIOUS
    <3> QED
      BY <3>1, ThinsKinds
  <2> QED
    BY <1>1, <1>2, <1>3, <2>1 DEF TalkInv, OkInv
<1>10. PromptInv'
  <2>1. "noise" \notin Transfers \ {"READY-V2"} /\ "noise" \notin Prompts
    BY DEF Transfers, Prompts
  <2>2. (\E j \in 1 .. Len(toHost') : toHost'[j].k \in Transfers \ {"READY-V2"}) =>
        \E j \in 1 .. Len(toHost) : toHost[j].k \in Transfers \ {"READY-V2"}
    BY <1>4, <2>1
  <2>3. (\E j \in 1 .. Len(toHost') : toHost'[j].k \in Prompts) => \E j \in 1 .. Len(toHost) : toHost[j].k \in Prompts
    BY <1>4, <2>1
  <2> QED
    BY <1>1, <1>2, <1>3, <2>2, <2>3 DEF TalkInv, PromptInv
<1> QED
  BY <1>6, <1>7, <1>8, <1>9, <1>10 DEF TalkInv

\* The line to the device holds bytes it did not, and no other command or CRC.
Garbles ==
  /\ toDev' \in Seq(DevTokens) /\ toDev # <<>>
  /\ \A j \in 1 .. Len(toDev') :
       \/ toDev'[j] \in [b : 0 .. Base - 1]
       \/ \E l \in 1 .. Len(toDev) : toDev'[j] = toDev[l] /\ (l = Len(toDev) => j = Len(toDev'))

LEMMA GarblesTalk ==
  ASSUME TalkInv, Garbles, UNCHANGED <<host, dev, toHost>>
  PROVE  TalkInv'
<1>1. hostPc' = hostPc /\ hostBuf' = hostBuf /\ hostI' = hostI /\ hostT' = hostT /\ caller' = caller /\ data' = data
  BY DEF host
<1>2. devPc' = devPc /\ devGot' = devGot /\ devT' = devT /\ (DevWaits' <=> DevWaits)
  BY SameDevice
<1>3. (HostWaits' <=> HostWaits) /\ (Answered' <=> Answered) /\ \A K : First(K)' <=> First(K)
  BY <1>1 DEF HostWaits, InUpload, Answered, First
<1>4. ASSUME NEW j \in 1 .. Len(toDev'), toDev'[j] = Cmd \/ CrcEnd(toDev'[j])
      PROVE  \E l \in 1 .. Len(toDev) : toDev'[j] = toDev[l] /\ (l = Len(toDev) => j = Len(toDev'))
  BY <1>4, Bytes DEF Garbles
<1>5. \A i : SinceCommand(i) => SinceCommand(i)'
  BY <1>2, <1>4 DEF SinceCommand
<1>6. SeqInv' /\ TimeInv'
  BY <1>1, <1>2, <1>3 DEF TalkInv, SeqInv, TimeInv, Garbles
<1>7. LineInv'
  BY <1>1, <1>2, <1>3, <1>5 DEF TalkInv, LineInv
<1>8. CrcSent' /\ OkInv'
  BY <1>1, <1>2, <1>3 DEF TalkInv, CrcSent, OkInv
<1>9. CrcInv'
  BY <1>1, <1>2, <1>4 DEF TalkInv, CrcInv
<1>10. PromptInv'
  <2> SUFFICES ASSUME caller # "install" PROVE PromptInv'
    BY <1>1 DEF PromptInv
  <2>1. ASSUME NEW j \in 1 .. Len(toDev'), toDev'[j] = Cmd
        PROVE  hostPc = "READY-V2" /\ j = Len(toDev') /\ \E l \in 1 .. Len(toDev) : toDev[l] = Cmd
    <3>1. PICK l \in 1 .. Len(toDev) : toDev[l] = Cmd /\ (l = Len(toDev) => j = Len(toDev'))
      BY <1>4, <2>1
    <3> QED
      BY <3>1 DEF TalkInv, PromptInv
  <2>2. hostPc = "READY-V2" => ~DevWaits
    BY DEF TalkInv, PromptInv, Garbles
  <2> QED
    BY <1>1, <1>2, <1>3, <2>1, <2>2 DEF TalkInv, PromptInv
<1> QED
  BY <1>6, <1>7, <1>8, <1>9, <1>10 DEF TalkInv

\* What the line makes of a token.
LEMMA GarbledText ==
  ASSUME NEW x \in HostTokens, NEW y \in Garbled(x)
  PROVE  y \in HostTokens /\ (y.k = x.k \/ y.k = "noise")
<1>1. "k" \in DOMAIN x /\ MaxLen \in Nat
  BY HostToken, UploadAssumption
<1>2. CASE y = Text("noise", 0)
  BY <1>2, TextToken DEF Kinds
<1>3. CASE x.k \in Numbered /\ \E n \in 0 .. MaxLen : y = Text(x.k, n)
  BY <1>1, <1>3, TextToken
<1> QED
  BY <1>1, <1>2, <1>3 DEF Garbled, Numbered

LEMMA GarbledByte ==
  ASSUME NEW x \in DevTokens, x # Cmd, NEW y \in Garbled(x)
  PROVE  y \in [b : 0 .. Base - 1]
<1>1. "k" \notin DOMAIN x
  <2>1. CASE x \in [b : 0 .. Base - 1]
    BY <2>1
  <2>2. CASE x \in FileTokens
    <3>1. x \in [b : 0 .. Base - 1] \/ x = [crc |-> x.crc, i |-> 1]
      BY <2>2, FilesAssumption
    <3>2. CASE x = [crc |-> x.crc, i |-> 1]
      <4>1. DOMAIN x = {"crc", "i"}
        BY <3>2
      <4> QED
        BY <4>1
    <3> QED
      BY <2>1, <3>1, <3>2
  <2>3. CASE x \in [crc : Files \cup {<<>>}, i : 1 .. Word]
    BY <2>3
  <2> QED
    BY <2>1, <2>2, <2>3 DEF DevTokens
<1> QED
  BY <1>1 DEF Garbled, Byte

LEMMA FaultTalk ==
  ASSUME TalkInv, Fault
  PROVE  TalkInv'
<1>1. UNCHANGED <<host, dev>> /\ toDev \in Seq(DevTokens) /\ toHost \in Seq(HostTokens)
      /\ Len(toDev) \in Nat /\ Len(toHost) \in Nat
  BY LenProperties DEF Fault, TalkInv, SeqInv
<1>2. ASSUME NEW i \in 1 .. Len(toDev), toDev' = RemoveAt(toDev, i), toHost' = toHost
      PROVE  TalkInv'
  <2>1. /\ toDev' \in Seq(DevTokens) /\ Len(toDev') = Len(toDev) - 1
        /\ \A j \in 1 .. Len(toDev) - 1 : toDev'[j] = toDev[IF j < i THEN j ELSE j + 1]
    BY <1>1, <1>2, Removed
  <2>2. ASSUME NEW j \in 1 .. Len(toDev')
        PROVE  \E l \in 1 .. Len(toDev) : toDev'[j] = toDev[l] /\ (l = Len(toDev) => j = Len(toDev'))
    <3>1. CASE j < i
      <4>1. toDev'[j] = toDev[j] /\ j \in 1 .. Len(toDev) /\ j # Len(toDev)
        BY <1>1, <2>1, <3>1
      <4> QED
        BY <4>1
    <3>2. CASE ~(j < i)
      <4>1. toDev'[j] = toDev[j + 1] /\ j + 1 \in 1 .. Len(toDev) /\ (j + 1 = Len(toDev) => j = Len(toDev'))
        BY <1>1, <2>1, <3>2
      <4> QED
        BY <4>1
    <3> QED
      BY <3>1, <3>2
  <2>3. Garbles
    <3>1. toDev # <<>>
      BY <1>1, <1>2, EmptySeq
    <3> QED
      BY <2>1, <2>2, <3>1 DEF Garbles
  <2> QED
    BY <1>1, <1>2, <2>3, GarblesTalk
<1>3. ASSUME NEW i \in 1 .. Len(toDev), NEW x \in Garbled(toDev[i]), toDev[i] # Cmd,
             toDev' = [toDev EXCEPT ![i] = x], toHost' = toHost
      PROVE  TalkInv'
  <2>1. toDev[i] \in DevTokens
    BY <1>1, ElementOfSeq
  <2>2. x \in [b : 0 .. Base - 1] /\ x \in DevTokens
    BY <1>3, <2>1, GarbledByte, Bytes
  <2>3. toDev' \in Seq(DevTokens) /\ Len(toDev') = Len(toDev)
        /\ \A j \in 1 .. Len(toDev') : toDev'[j] = IF j = i THEN x ELSE toDev[j]
    BY <1>1, <1>3, <2>2, ExceptSeq
  <2>4. Garbles
    <3>1. toDev # <<>>
      BY <1>1, <1>3, EmptySeq
    <3> QED
      BY <2>2, <2>3, <3>1 DEF Garbles
  <2> QED
    BY <1>1, <1>3, <2>4, GarblesTalk
<1>4. ASSUME NEW i \in 1 .. Len(toDev), toDev' = InsertAt(toDev, i, Byte(0)), toHost' = toHost
      PROVE  TalkInv'
  <2>1. Byte(0) \in [b : 0 .. Base - 1]
    BY UploadAssumption DEF Byte
  <2>2. Byte(0) \in DevTokens
    BY <2>1, Bytes
  <2>3. /\ toDev' \in Seq(DevTokens) /\ Len(toDev') = Len(toDev) + 1
        /\ \A j \in 1 .. Len(toDev) + 1 :
             toDev'[j] = IF j < i THEN toDev[j] ELSE IF j = i THEN Byte(0) ELSE toDev[j - 1]
    BY <1>1, <1>4, <2>2, Inserted
  <2>4. ASSUME NEW j \in 1 .. Len(toDev')
        PROVE  \/ toDev'[j] \in [b : 0 .. Base - 1]
               \/ \E l \in 1 .. Len(toDev) : toDev'[j] = toDev[l] /\ (l = Len(toDev) => j = Len(toDev'))
    <3>1. CASE j < i
      <4>1. toDev'[j] = toDev[j] /\ j \in 1 .. Len(toDev) /\ j # Len(toDev)
        BY <1>1, <2>3, <3>1
      <4> QED
        BY <4>1
    <3>2. CASE j = i
      BY <2>1, <2>3, <3>2
    <3>3. CASE j > i
      <4>1. toDev'[j] = toDev[j - 1] /\ j - 1 \in 1 .. Len(toDev) /\ (j - 1 = Len(toDev) => j = Len(toDev'))
        BY <1>1, <2>3, <3>3
      <4> QED
        BY <4>1
    <3> QED
      BY <1>1, <2>3, <3>1, <3>2, <3>3
  <2>5. Garbles
    <3>1. toDev # <<>>
      BY <1>1, <1>4, EmptySeq
    <3> QED
      BY <2>3, <2>4, <3>1 DEF Garbles
  <2> QED
    BY <1>1, <1>4, <2>5, GarblesTalk
<1>5. ASSUME NEW i \in 1 .. Len(toHost), toHost' = RemoveAt(toHost, i), toDev' = toDev
      PROVE  TalkInv'
  <2> DEFINE f == [j \in 1 .. Len(toHost') |-> IF j < i THEN j ELSE j + 1]
  <2>1. /\ toHost' \in Seq(HostTokens) /\ Len(toHost') = Len(toHost) - 1
        /\ \A j \in 1 .. Len(toHost) - 1 : toHost'[j] = toHost[IF j < i THEN j ELSE j + 1]
    BY <1>1, <1>5, Removed
  <2>2. Len(toHost') \in Nat
    BY <2>1, LenProperties
  <2>3. \A j \in 1 .. Len(toHost') : f[j] \in 1 .. Len(toHost)
    BY <1>1, <2>1
  <2>4. \A j \in 1 .. Len(toHost') : toHost'[j] = toHost[f[j]]
    BY <2>1
  <2>5. \A j, l \in 1 .. Len(toHost') : j < l => f[j] < f[l]
    BY <1>1, <2>1
  <2>6. Thins(f)
    BY <2>1, <2>2, <2>3, <2>4, <2>5 DEF Thins
  <2> QED
    BY <1>1, <1>5, <2>6, ThinTalk
<1>6. ASSUME NEW i \in 1 .. Len(toHost), NEW x \in Garbled(toHost[i]), toHost' = [toHost EXCEPT ![i] = x], toDev' = toDev
      PROVE  TalkInv'
  <2> DEFINE f == [j \in 1 .. Len(toHost') |-> j]
  <2>1. toHost[i] \in HostTokens
    BY <1>1, ElementOfSeq
  <2>2. x \in HostTokens /\ (x.k = toHost[i].k \/ x.k = "noise")
    BY <1>6, <2>1, GarbledText
  <2>3. toHost' \in Seq(HostTokens) /\ Len(toHost') = Len(toHost)
        /\ \A j \in 1 .. Len(toHost') : toHost'[j] = IF j = i THEN x ELSE toHost[j]
    BY <1>1, <1>6, <2>2, ExceptSeq
  <2>4. Thins(f)
    BY <1>1, <2>2, <2>3 DEF Thins
  <2> QED
    BY <1>1, <1>6, <2>4, ThinTalk
<1> QED
  BY <1>2, <1>3, <1>4, <1>5, <1>6 DEF Fault, Cmd

-----------------------------------------------------------------------------
(* The sink.                                                               *)

\* Steps that store nothing and do not end a transfer.
LEMMA SinkLeft ==
  ASSUME SinkInv, UNCHANGED <<caller, devLen, devIndex, devRest, devCrc, sink>>,
         devPc' \in {devPc, "prompt", "len"}, data' = data \/ devPc' # "stored"
  PROVE  SinkInv'
<1>1. Received' = Received
  BY DEF Received, sink
<1> QED
  BY <1>1 DEF SinkInv, sink

\* A transfer begins.
LEMMA SinkBegun ==
  ASSUME SinkInv, UNCHANGED caller, NEW len \in Nat, len <= MaxLen, ~BeginRefuses(len), Begin(len),
         devLen' = len, devRest' = len, devIndex' = 0, devCrc' = <<>>, devPc' = "blk", len > 0
  PROVE  SinkInv'
<1>1. sinkHdr' = <<>> /\ mem' = <<>> /\ sinkAt' = 0
  BY DEF Begin
<1>2. Received' = <<>>
  <2>1. <<>> \o <<>> = <<>>
    OBVIOUS
  <2> QED
    BY <1>1, <2>1 DEF Received
<1>3. caller = "ram_boot" => len > HeaderLen
  BY UploadAssumption DEF BeginRefuses
<1>4. <<>> \in Seq(DevTokens) /\ Len(<<>>) = 0
  OBVIOUS
<1> QED
  BY <1>1, <1>2, <1>3, <1>4, UploadAssumption DEF SinkInv

\* The bytes of a block: as many as were asked for.
LEMMA WholeBlock ==
  ASSUME SeqInv, toDev # <<>>
  PROVE  /\ Whole \in Seq(DevTokens) /\ Len(Whole) = Len(devGot) + 1 /\ Len(devGot) \in Nat
         /\ Whole[Len(Whole)] = toDev[1] /\ 1 \in 1 .. Len(toDev)
<1>1. Head(toDev) = toDev[1] /\ Head(toDev) \in DevTokens /\ 1 \in 1 .. Len(toDev)
  BY ReadFirst DEF SeqInv
<1>2. devGot \in Seq(DevTokens) /\ Len(devGot) \in Nat
  BY LenProperties DEF SeqInv
<1> QED
  BY <1>1, <1>2, AppendProperties DEF Whole

\* A byte of a header is a number.
LEMMA ByteValue ==
  ASSUME NEW x \in DevTokens, IsByte(x)
  PROVE  x.b \in Nat
<1>1. CASE x \in [b : 0 .. Base - 1]
  BY <1>1
<1>2. CASE x \in [crc : Files \cup {<<>>}, i : 1 .. Word]
  BY <1>2 DEF IsByte
<1>3. CASE x = Cmd
  BY <1>3 DEF IsByte, Cmd, Text
<1> QED
  BY <1>1, <1>2, <1>3, FilesAssumption DEF DevTokens

\* The first block of a RAM boot is its header and what follows it.
LEMMA HeaderAndPayload ==
  ASSUME NEW block \in Seq(DevTokens), Len(block) > HeaderLen
  PROVE  /\ HeaderOf(block) \in Seq(DevTokens) /\ Len(HeaderOf(block)) = HeaderLen
         /\ \A j \in 1 .. HeaderLen : HeaderOf(block)[j] = block[j] /\ block[j] \in DevTokens
         /\ PayloadOf(block) \in Seq(DevTokens) /\ Len(PayloadOf(block)) = Len(block) - HeaderLen
         /\ HeaderOf(block) \o PayloadOf(block) = block
<1>1. Len(block) \in Nat /\ HeaderLen = 4 /\ \A j \in 1 .. Len(block) : block[j] \in DevTokens
  BY LenProperties, ElementOfSeq, UploadAssumption
<1>2. /\ HeaderOf(block) \in Seq(DevTokens) /\ Len(HeaderOf(block)) = 4
      /\ \A j \in 1 .. 4 : HeaderOf(block)[j] = block[j]
  <2>1. \A j \in 1 .. 4 : block[j] \in DevTokens
    BY <1>1
  <2>2. /\ SubSeq(block, 1, 4) \in Seq(DevTokens) /\ Len(SubSeq(block, 1, 4)) = (IF 1 <= 4 THEN 4 - 1 + 1 ELSE 0)
        /\ \A i \in 1 .. 4 - 1 + 1 : SubSeq(block, 1, 4)[i] = block[1 + i - 1]
    BY <2>1, SubSeqProperties
  <2> QED
    BY <1>1, <2>2 DEF HeaderOf
<1>3. PayloadOf(block) \in Seq(DevTokens) /\ Len(PayloadOf(block)) = Len(block) - 4
  <2>1. \A j \in 5 .. Len(block) : block[j] \in DevTokens
    BY <1>1
  <2>2. /\ SubSeq(block, 5, Len(block)) \in Seq(DevTokens)
        /\ Len(SubSeq(block, 5, Len(block))) = (IF 5 <= Len(block) THEN Len(block) - 5 + 1 ELSE 0)
    BY <1>1, <2>1, SubSeqProperties
  <2> QED
    BY <1>1, <2>2 DEF PayloadOf
<1>4. HeaderOf(block) \o PayloadOf(block) = block
  <2>1. SubSeq(block, 1, 4) \o SubSeq(block, 4 + 1, Len(block)) = SubSeq(block, 1, Len(block))
    BY <1>1, ConcatAdjacentSubSeq
  <2>2. SubSeq(block, 1, Len(block)) = block
    BY SubSeqFull
  <2> QED
    BY <1>1, <2>1, <2>2 DEF HeaderOf, PayloadOf
<1>5. \A j \in 1 .. 4 : block[j] \in DevTokens
  BY <1>1
<1> QED
  BY <1>1, <1>2, <1>3, <1>4, <1>5

\* What is stored of an image fits where the image does.
LEMMA Fits ==
  ASSUME NEW a \in Nat, NEW size \in Nat, NEW m \in Nat, NEW win \in Nat, NEW len \in Nat,
         size + 4 = len, m + 4 <= len, a + size <= win
  PROVE  a + m \in 0 .. win
OBVIOUS

\* A block is stored: the sink still holds what the device has received, and a RAM boot's
\* address stays below the end its accepted header gives.
LEMMA SinkStored ==
  ASSUME SeqInv, SinkInv, GotBlock, ~BlockRefused(Whole), StoreBlock(Whole), devCrc' = devCrc \o Whole,
         devRest' = devRest - BlockLen, devIndex' = devIndex + 1,
         devPc' = IF devRest' > 0 THEN "blk" ELSE "crc"
  PROVE  SinkInv'
<1> DEFINE w == Whole
           first == caller = "ram_boot" /\ devIndex = 0
<1>1. /\ devPc = "blk" /\ toDev # <<>> /\ Len(devGot) + 1 = BlockLen /\ caller' = caller /\ devLen' = devLen
  BY DEF GotBlock, host
<1>2. /\ devLen \in Nat /\ devLen <= MaxLen /\ devRest \in Nat /\ 0 < devRest /\ devRest <= devLen /\ devIndex \in Nat
      /\ mem \in Seq(DevTokens) /\ devCrc \in Seq(DevTokens) /\ sinkHdr \in Seq(DevTokens)
      /\ devCrc = Received /\ Len(devCrc) = devLen - devRest
      /\ devIndex = 0 => devRest = devLen
      /\ HeaderLen = 4 /\ Block \in Nat /\ Block > 4 /\ WindowLen \in Nat /\ MaxLen \in Nat
  BY <1>1, UploadAssumption DEF SinkInv
<1>3. w \in Seq(DevTokens) /\ Len(w) = BlockLen /\ BlockLen \in Nat /\ 0 < BlockLen /\ BlockLen <= devRest
      /\ (devRest > 4 => BlockLen > 4)
  <2>1. w \in Seq(DevTokens) /\ Len(w) = Len(devGot) + 1
    BY <1>1, WholeBlock
  <2>2. BlockLen \in Nat /\ 0 < BlockLen /\ BlockLen <= devRest /\ (devRest > 4 => BlockLen > 4)
    BY <1>2 DEF BlockLen
  <2> QED
    BY <1>1, <2>1, <2>2
<1>4. StoreBlock(w) /\ devCrc' = devCrc \o w
  OBVIOUS
<1>5. ~BlockRefused(w)
  OBVIOUS
<1> HIDE DEF w
<1>6. devCrc' \in Seq(DevTokens) /\ Len(devCrc') = devLen' - devRest'
  <2>1. devCrc \o w \in Seq(DevTokens) /\ Len(devCrc \o w) = Len(devCrc) + Len(w)
    BY <1>2, <1>3, ConcatProperties
  <2>2. Len(devCrc) + Len(w) = devLen - (devRest - BlockLen)
    BY <1>2, <1>3
  <2> QED
    BY <1>1, <1>4, <2>1, <2>2
<1>7. devRest' \in 0 .. devLen' /\ devIndex' \in Nat /\ devIndex' > 0 /\ devLen' \in 0 .. MaxLen
      /\ devPc' \in {"blk", "crc"} /\ (devPc' = "blk" => devRest' > 0)
  BY <1>1, <1>2, <1>3
<1> DEFINE booted == /\ Len(sinkHdr') = HeaderLen /\ HeaderAccepted(sinkHdr', devLen')
                     /\ sinkAt' = sinkHdr'[2].b + Len(mem')
                     /\ sinkAt' \in 0 .. WindowLen /\ devLen' > HeaderLen
<1>8. ASSUME Received' = devCrc', mem' \in Seq(DevTokens), sinkHdr' \in Seq(DevTokens), Len(mem') <= devLen',
             caller = "ram_boot" => booted
      PROVE  SinkInv'
  <2>1. /\ devCrc' = Received' /\ Len(devCrc') = devLen' - devRest'
        /\ devPc' = "blk" => devRest' > 0
        /\ caller' = "ram_boot" => devLen' > HeaderLen
        /\ devIndex' = 0 => devRest' = devLen'
        /\ caller' = "ram_boot" /\ devIndex' > 0 =>
             /\ Len(sinkHdr') = HeaderLen /\ HeaderAccepted(sinkHdr', devLen')
             /\ sinkAt' = sinkHdr'[2].b + Len(mem')
    BY <1>1, <1>6, <1>7, <1>8
  <2>2. /\ devPc' # "stored" /\ (devPc' = "crc" => devIndex' > 0)
        /\ caller' = "ram_boot" => sinkAt' \in 0 .. WindowLen
    BY <1>1, <1>7, <1>8
  <2> HIDE DEF booted
  <2> QED
    BY <1>6, <1>7, <1>8, <2>1, <2>2 DEF SinkInv
<1>9. CASE first
  <2>1. devRest = devLen /\ devLen > 4
    BY <1>1, <1>2, <1>9 DEF SinkInv
  <2>2. Len(w) > HeaderLen
    BY <1>2, <1>3, <2>1
  <2>3. /\ HeaderOf(w) \in Seq(DevTokens) /\ Len(HeaderOf(w)) = HeaderLen
        /\ \A j \in 1 .. HeaderLen : HeaderOf(w)[j] = w[j] /\ w[j] \in DevTokens
        /\ PayloadOf(w) \in Seq(DevTokens) /\ Len(PayloadOf(w)) = Len(w) - HeaderLen
        /\ HeaderOf(w) \o PayloadOf(w) = w
    BY <1>3, <2>2, HeaderAndPayload
  <2>4. devCrc = <<>>
    BY <1>2, <2>1, EmptySeq
  <2>5. mem = <<>>
    <3>1. sinkHdr \o mem = <<>>
      BY <1>2, <1>9, <2>4 DEF Received
    <3> QED
      BY <1>2, <3>1, ConcatEqualIffEmpty
  <2>6. sinkHdr' = HeaderOf(w) /\ mem' = mem \o PayloadOf(w) /\ sinkAt' = w[2].b + Len(PayloadOf(w))
    BY <1>4, <1>9 DEF StoreBlock
  <2>7. mem' = PayloadOf(w) /\ devCrc' = w
    BY <1>3, <1>4, <2>3, <2>4, <2>5, <2>6, ConcatEmptySeq
  <2>8. Received' = devCrc'
    BY <1>1, <1>9, <2>3, <2>6, <2>7 DEF Received
  <2>9. /\ IsByte(w[1]) /\ w[1].b = 1 /\ IsByte(w[2]) /\ IsByte(w[3])
        /\ w[3].b + HeaderLen = devLen /\ w[2].b + w[3].b <= WindowLen
    BY <1>5, <1>9 DEF BlockRefused, HeaderAccepted
  <2>10. sinkHdr'[1] = w[1] /\ sinkHdr'[2] = w[2] /\ sinkHdr'[3] = w[3] /\ w[2] \in DevTokens /\ w[3] \in DevTokens
    BY <1>2, <2>3, <2>6
  <2>11. HeaderAccepted(sinkHdr', devLen')
    BY <1>1, <2>9, <2>10 DEF HeaderAccepted
  <2>12. w[2].b \in Nat /\ w[3].b \in Nat
    BY <2>9, <2>10, ByteValue
  <2>13. Len(mem') = Len(w) - 4 /\ Len(w) \in Nat /\ Len(w) <= devLen
    BY <1>2, <1>3, <2>1, <2>3, <2>7
  <2>14. sinkAt' = w[2].b + Len(mem') /\ sinkAt' \in 0 .. WindowLen /\ Len(mem') <= devLen'
    <3>1. sinkAt' = w[2].b + Len(mem')
      BY <2>6, <2>7
    <3>2. w[2].b + Len(mem') \in 0 .. WindowLen /\ Len(mem') <= devLen
      <4>1. w[3].b + 4 = devLen /\ Len(mem') \in Nat /\ Len(mem') + 4 <= devLen
        BY <1>2, <2>1, <2>2, <2>9, <2>13
      <4>2. w[2].b + Len(mem') \in 0 .. WindowLen
        BY <1>2, <2>9, <2>12, <4>1, Fits
      <4> QED
        BY <1>2, <4>1, <4>2
    <3> QED
      BY <1>1, <3>1, <3>2
  <2>15. mem' \in Seq(DevTokens) /\ sinkHdr' \in Seq(DevTokens) /\ Len(sinkHdr') = HeaderLen
    BY <2>3, <2>6, <2>7
  <2>16. devLen' > HeaderLen /\ sinkAt' = sinkHdr'[2].b + Len(mem')
    BY <1>1, <1>2, <2>1, <2>10, <2>14
  <2> QED
    BY <1>8, <2>8, <2>11, <2>14, <2>15, <2>16
<1>10. CASE ~first
  <2>1. sinkHdr' = sinkHdr /\ mem' = mem \o w /\ sinkAt' = sinkAt + Len(w)
    BY <1>4, <1>10 DEF StoreBlock
  <2>2. mem' \in Seq(DevTokens) /\ Len(mem') = Len(mem) + Len(w) /\ Len(mem) \in Nat
    BY <1>2, <1>3, <2>1, ConcatProperties, LenProperties
  <2>3. CASE caller = "ram_boot"
    <3>1. /\ devIndex > 0 /\ Len(sinkHdr) = HeaderLen /\ HeaderAccepted(sinkHdr, devLen)
          /\ sinkAt = sinkHdr[2].b + Len(mem) /\ devLen > HeaderLen
      BY <1>1, <1>2, <1>10, <2>3 DEF SinkInv
    <3>2. Received' = devCrc'
      <4>1. devCrc = sinkHdr \o mem /\ Received' = sinkHdr \o (mem \o w)
        BY <1>1, <1>2, <2>1, <2>3 DEF Received
      <4>2. (sinkHdr \o mem) \o w = sinkHdr \o (mem \o w)
        <5>1. sinkHdr \in Seq(DevTokens) /\ mem \in Seq(DevTokens) /\ w \in Seq(DevTokens)
          BY <1>2, <1>3
        <5> QED
          BY <5>1, ConcatAssociative
      <4> QED
        BY <1>4, <4>1, <4>2
    <3>3. Len(devCrc') = HeaderLen + Len(mem')
      <4>1. Received' = sinkHdr \o mem'
        BY <1>1, <2>1, <2>3 DEF Received
      <4>2. Len(sinkHdr \o mem') = Len(sinkHdr) + Len(mem')
        BY <1>2, <2>2, ConcatProperties
      <4> QED
        BY <3>1, <3>2, <4>1, <4>2
    <3>4. /\ IsByte(sinkHdr[2]) /\ IsByte(sinkHdr[3])
          /\ sinkHdr[3].b + HeaderLen = devLen /\ sinkHdr[2].b + sinkHdr[3].b <= WindowLen
      BY <3>1 DEF HeaderAccepted
    <3>5. sinkHdr[2] \in DevTokens /\ sinkHdr[3] \in DevTokens
      <4>1. 2 \in 1 .. Len(sinkHdr) /\ 3 \in 1 .. Len(sinkHdr)
        BY <1>2, <3>1
      <4> QED
        BY <1>2, <4>1, ElementOfSeq
    <3>6. sinkHdr[2].b \in Nat /\ sinkHdr[3].b \in Nat
      BY <3>4, <3>5, ByteValue
    <3>7. Len(w) \in Nat /\ Len(mem') \in Nat
      BY <1>3, <2>2
    <3>8. sinkAt' = sinkHdr[2].b + Len(mem')
      <4>1. (sinkHdr[2].b + Len(mem)) + Len(w) = sinkHdr[2].b + (Len(mem) + Len(w))
        BY <2>2, <3>6, <3>7
      <4> QED
        BY <2>1, <2>2, <3>1, <4>1
    <3>9. Len(mem') + 4 <= devLen
      <4>1. Len(devCrc') <= devLen
        BY <1>1, <1>2, <1>6, <1>7
      <4> QED
        BY <1>2, <3>3, <3>7, <4>1
    <3>10. sinkAt' \in 0 .. WindowLen
      <4>1. sinkHdr[2].b + Len(mem') \in 0 .. WindowLen
        BY <1>2, <3>4, <3>6, <3>7, <3>9, Fits
      <4> QED
        BY <3>8, <4>1
    <3>11. Len(mem') <= devLen'
      BY <1>1, <1>2, <1>3, <1>6, <1>7, <3>3, <3>7
    <3>12. /\ Len(sinkHdr') = HeaderLen /\ HeaderAccepted(sinkHdr', devLen') /\ sinkAt' = sinkHdr'[2].b + Len(mem')
           /\ sinkHdr' \in Seq(DevTokens) /\ devLen' > HeaderLen
      BY <1>1, <1>2, <2>1, <3>1, <3>8
    <3> QED
      BY <1>8, <2>2, <3>2, <3>10, <3>11, <3>12
  <2>4. CASE caller # "ram_boot"
    <3>1. Received' = devCrc' /\ mem' = devCrc'
      BY <1>1, <1>2, <1>4, <2>1, <2>4 DEF Received
    <3>2. Len(mem') <= devLen'
      BY <1>1, <1>2, <1>6, <1>7, <3>1
    <3> QED
      BY <1>2, <1>8, <2>1, <2>2, <2>4, <3>1, <3>2
  <2> QED
    BY <2>3, <2>4
<1> QED
  BY <1>9, <1>10

\* The transfer ends: the CRC that matches is the one of the host's file.
LEMMA SinkFinished ==
  ASSUME TalkInv, SinkInv, devPc = "crc", toDev # <<>>, Len(devGot) + 1 = Word, CrcMatches, devPc' = "stored",
         UNCHANGED <<caller, data, devLen, devIndex, devRest, devCrc, sink>>
  PROVE  SinkInv'
<1>1. /\ Len(Whole) = Word /\ Whole[Len(Whole)] = toDev[1] /\ 1 \in 1 .. Len(toDev)
  BY WholeBlock DEF TalkInv
<1>2. Word \in 1 .. Word
  BY UploadAssumption
<1>3. toDev[1] = [crc |-> devCrc, i |-> Word]
  BY <1>1, <1>2 DEF CrcMatches, CrcWord
<1>4. CrcEnd(toDev[1]) /\ toDev[1].crc = devCrc
  <2>1. DOMAIN toDev[1] = {"crc", "i"} /\ DOMAIN Cmd = {"k", "n"}
    BY <1>3 DEF Cmd, Text
  <2>2. toDev[1].i = Word /\ toDev[1].crc = devCrc
    BY <1>3
  <2> QED
    BY <2>1, <2>2 DEF CrcEnd, IsByte
<1>5. data = devCrc
  BY <1>1, <1>4 DEF TalkInv, CrcInv, DevWaits
<1>6. devCrc = Received /\ Received' = Received
  BY DEF SinkInv, Received, sink
<1> QED
  BY <1>5, <1>6 DEF SinkInv, sink

-----------------------------------------------------------------------------
(* The invariant.                                                          *)

LEMMA InitInv == Init => UploadInv
<1> SUFFICES ASSUME Init PROVE UploadInv
  OBVIOUS
<1>1. <<>> \in Seq(DevTokens) /\ <<>> \in Seq(HostTokens) /\ Len(<<>>) = 0 /\ <<>> \o <<>> = <<>>
  OBVIOUS
<1>2. ~DevWaits /\ ~HostWaits /\ ~Answered /\ \A K : ~First(K)
  BY DEF Init, DevWaits, HostWaits, InUpload, Answered, First
<1>3. TypeOK
  BY <1>1, UploadAssumption DEF Init, TypeOK
<1>4. SeqInv
  BY <1>1 DEF Init, SeqInv
<1>5. TimeInv /\ LineInv /\ CrcSent /\ OkInv /\ CrcInv /\ PromptInv
  BY <1>1, <1>2 DEF Init, TimeInv, LineInv, CrcSent, OkInv, CrcInv, PromptInv
<1>6. SinkInv
  BY <1>1, UploadAssumption DEF Init, SinkInv
<1> QED
  BY <1>3, <1>4, <1>5, <1>6 DEF UploadInv, TalkInv

\* A step of the device.
LEMMA DeviceInv ==
  ASSUME UploadInv, Device
  PROVE  UploadInv'
<1>1. TypeOK /\ TalkInv /\ SinkInv /\ devT \in 0 .. ByteTimeout /\ devT \in Nat /\ devIndex \in Nat
  BY UploadAssumption DEF UploadInv, TypeOK, SinkInv
<1>2. UNCHANGED <<host, faults>>
  BY DEF Device, AtPrompt, Recv, RecvTimeout, GotLength, GotBlock, GotCrc
<1>3. TalkInv'
  BY <1>1, AtPromptTalk, RecvTalk, RecvTimeoutTalk, GotLengthTalk, GotBlockTalk, GotCrcTalk DEF Device
<1>4. devPc' \in {"prompt", "len", "blk", "crc", "stored"} /\ devT' \in 0 .. ByteTimeout
  <2>1. 0 \in 0 .. ByteTimeout
    BY UploadAssumption
  <2>2. CASE AtPrompt
    BY <1>1, <2>1, <2>2 DEF TypeOK, AtPrompt, StartExchange, Leave
  <2>3. CASE Recv
    BY <1>1, <2>1, <2>3 DEF TypeOK, Recv
  <2>4. CASE RecvTimeout
    BY <1>1, <2>1, <2>4 DEF TypeOK, RecvTimeout, Fail, Leave
  <2>5. CASE GotLength
    BY <1>1, <2>1, <2>5 DEF TypeOK, GotLength, Fail, Leave
  <2>6. CASE GotBlock
    BY <1>1, <2>1, <2>6 DEF TypeOK, GotBlock, Fail, Leave
  <2>7. CASE GotCrc
    BY <1>1, <2>1, <2>7 DEF TypeOK, GotCrc, Fail, Leave
  <2> QED
    BY <2>2, <2>3, <2>4, <2>5, <2>6, <2>7 DEF Device
<1>5. SinkInv'
  <2>1. caller' = caller /\ data' = data
    BY <1>2 DEF host
  <2>2. CASE AtPrompt
    <3>1. devPc' \in {devPc, "prompt", "len"} /\ UNCHANGED <<devLen, devIndex, devRest, devCrc, sink>>
      BY <2>2 DEF AtPrompt, StartExchange, Leave
    <3> QED
      BY <1>1, <2>1, <3>1, SinkLeft
  <2>3. CASE Recv
    BY <1>1, <2>1, <2>3, SinkLeft DEF Recv
  <2>4. CASE RecvTimeout
    BY <1>1, <2>1, <2>4, SinkLeft DEF RecvTimeout, Fail, Leave
  <2>5. CASE GotLength
    <3>1. PICK len \in 0 .. Base^Word - 1 :
             \/ /\ Fail
                /\ UNCHANGED <<devLen, devIndex, devRest, devCrc, sink>>
             \/ /\ len > 0 /\ len <= MaxLen /\ ~BeginRefuses(len)
                /\ Begin(len)
                /\ devLen' = len /\ devRest' = len /\ devIndex' = 0 /\ devCrc' = <<>>
                /\ devPc' = "blk"
      BY <2>5 DEF GotLength
    <3>2. CASE Fail /\ UNCHANGED <<devLen, devIndex, devRest, devCrc, sink>>
      BY <1>1, <2>1, <3>2, SinkLeft DEF Fail, Leave
    <3>3. CASE ~(Fail /\ UNCHANGED <<devLen, devIndex, devRest, devCrc, sink>>)
      <4>1. len \in Nat
        OBVIOUS
      <4> QED
        BY <1>1, <2>1, <3>1, <3>3, <4>1, SinkBegun
    <3> QED
      BY <3>2, <3>3
  <2>6. CASE GotBlock
    <3>1. CASE Fail /\ UNCHANGED <<devIndex, devRest, devCrc, sink>>
      BY <1>1, <2>1, <2>6, <3>1, SinkLeft DEF GotBlock, Fail, Leave
    <3>2. CASE /\ ~BlockRefused(Whole) /\ StoreBlock(Whole) /\ devCrc' = devCrc \o Whole
               /\ devRest' = devRest - BlockLen /\ devIndex' = devIndex + 1
               /\ devPc' = IF devRest' > 0 THEN "blk" ELSE "crc"
      BY <1>1, <2>6, <3>2, SinkStored DEF TalkInv
    <3> QED
      BY <2>6, <3>1, <3>2 DEF GotBlock
  <2>7. CASE GotCrc
    <3>1. CASE Fail
      BY <1>1, <2>1, <2>7, <3>1, SinkLeft DEF GotCrc, Fail, Leave
    <3>2. CASE CrcMatches /\ devPc' = "stored"
      BY <1>1, <2>1, <2>7, <3>2, SinkFinished DEF GotCrc
    <3> QED
      BY <2>7, <3>1, <3>2 DEF GotCrc
  <2> QED
    BY <2>2, <2>3, <2>4, <2>5, <2>6, <2>7 DEF Device
<1>6. devLen' \in 0 .. MaxLen /\ devRest' \in 0 .. devLen' /\ Len(mem') <= MaxLen
  <2>1. SinkInv' => devLen' \in 0 .. MaxLen /\ devRest' \in 0 .. devLen' /\ mem' \in Seq(DevTokens) /\ Len(mem') <= devLen'
    BY DEF SinkInv
  <2>2. Len(mem') \in Nat
    BY <1>5, <2>1, LenProperties
  <2> QED
    BY <1>5, <2>1, <2>2, UploadAssumption
<1>7. TypeOK'
  BY <1>1, <1>2, <1>4, <1>6 DEF TypeOK, host
<1> QED
  BY <1>3, <1>5, <1>7 DEF UploadInv

\* A step of the host, a command, a fault or a tick: the sink is left as it is.
LEMMA OtherInv ==
  ASSUME UploadInv, Host \/ Call \/ Fault \/ Tick
  PROVE  UploadInv'
<1>1. TypeOK /\ TalkInv /\ SinkInv /\ devT \in 0 .. ByteTimeout /\ devT \in Nat
  BY UploadAssumption DEF UploadInv, TypeOK, SinkInv
<1>2. TalkInv'
  <2>1. CASE Host
    BY <1>1, <2>1, ReadTokenTalk, ProceedTalk, RefusedTalk, LineTimesOutTalk, ReadPromptTalk, PromptTimesOutTalk, ReturnTalk
    DEF Host
  <2> QED
    BY <1>1, <2>1, CallTalk, FaultTalk, TickTalk
<1>3. /\ UNCHANGED <<caller, devLen, devIndex, devRest, devCrc, sink>>
      /\ devPc' \in {devPc, "prompt", "len"} /\ (data' = data \/ devPc' # "stored")
  <2>1. CASE Host
    BY <2>1 DEF Host, ReadToken, ExpectedLine, LineTimesOut, ReadPrompt, PromptTimesOut, Return, dev
  <2>2. CASE Call
    BY <2>2 DEF Call
  <2>3. CASE Fault
    BY <2>3 DEF Fault, host, dev
  <2>4. CASE Tick
    BY <2>4 DEF Tick
  <2> QED
    BY <2>1, <2>2, <2>3, <2>4
<1>4. SinkInv'
  BY <1>1, <1>3, SinkLeft
<1>5. TypeOK'
  <2>1. 0 \in 0 .. LineTimeout /\ LineTimeout \in Nat /\ ByteTimeout \in Nat /\ MaxCalls \in Nat /\ MaxFaults \in Nat
    BY UploadAssumption
  <2>2. /\ devLen' = devLen /\ devRest' = devRest /\ mem' = mem /\ caller' = caller
        /\ devPc' \in {"prompt", "len", "blk", "crc", "stored"}
    BY <1>1, <1>3 DEF TypeOK, sink
  <2>3. CASE ReadToken
    BY <1>1, <2>1, <2>2, <2>3 DEF TypeOK, ReadToken, dev
  <2>4. CASE ExpectedLine
    <3>1. /\ UNCHANGED <<caller, data, calls, outcome, dev, faults>> /\ hostT' = 0
          /\ hostPc' \in {"LEN", "READY-BLK", "READY-CRC", "OK", "prompt", "errprompt", "raised"}
      BY <2>4 DEF ExpectedLine, Proceed, Raise, Await
    <3> QED
      BY <1>1, <2>1, <2>2, <3>1 DEF TypeOK, dev
  <2>5. CASE LineTimesOut
    BY <1>1, <2>1, <2>2, <2>5 DEF TypeOK, LineTimesOut, Raise, Await, dev
  <2>6. CASE ReadPrompt
    BY <1>1, <2>1, <2>2, <2>6 DEF TypeOK, ReadPrompt, dev
  <2>7. CASE PromptTimesOut
    BY <1>1, <2>1, <2>2, <2>7 DEF TypeOK, PromptTimesOut, Await, dev
  <2>8. CASE Return
    BY <1>1, <2>1, <2>2, <2>8 DEF TypeOK, Return, dev
  <2>9. CASE Call
    BY <1>1, <2>1, <2>2, <2>9 DEF TypeOK, Call, Await
  <2>10. CASE Fault
    BY <1>1, <2>1, <2>2, <2>10 DEF TypeOK, Fault, host, dev
  <2>11. CASE Tick
    BY <1>1, <2>1, <2>2, <2>11 DEF TypeOK, Tick
  <2> QED
    BY <2>3, <2>4, <2>5, <2>6, <2>7, <2>8, <2>9, <2>10, <2>11 DEF Host
<1> QED
  BY <1>2, <1>4, <1>5 DEF UploadInv

\* Nothing happens.
LEMMA StutterInv ==
  ASSUME UploadInv, UNCHANGED vars
  PROVE  UploadInv'
<1>1. /\ UNCHANGED <<caller, data, hostPc, hostI, hostBuf, hostT, calls, outcome>>
      /\ UNCHANGED <<devPc, devGot, devLen, devIndex, devRest, devCrc, devT, sinkHdr, mem, sinkAt, dirty>>
      /\ UNCHANGED <<toDev, toHost, faults>>
  BY DEF vars, host, dev, sink, line
<1>2. (DevWaits' <=> DevWaits) /\ (HostWaits' <=> HostWaits) /\ (Answered' <=> Answered)
  BY <1>1 DEF DevWaits, HostWaits, InUpload, Answered
<1>3. (\A K : First(K)' <=> First(K)) /\ Received' = Received
  BY <1>1 DEF First, Received
<1>4. \A i : SinceCommand(i)' <=> SinceCommand(i)
  BY <1>1, <1>2 DEF SinceCommand
<1>5. TypeOK' /\ SeqInv' /\ TimeInv'
  BY <1>1, <1>2 DEF UploadInv, TalkInv, TypeOK, SeqInv, TimeInv
<1>6. LineInv'
  BY <1>1, <1>2, <1>3, <1>4 DEF UploadInv, TalkInv, LineInv
<1>7. CrcSent' /\ OkInv' /\ CrcInv' /\ PromptInv'
  BY <1>1, <1>2, <1>3 DEF UploadInv, TalkInv, CrcSent, OkInv, CrcInv, PromptInv
<1>8. SinkInv'
  BY <1>1, <1>3 DEF UploadInv, SinkInv
<1> QED
  BY <1>5, <1>6, <1>7, <1>8 DEF UploadInv, TalkInv

-----------------------------------------------------------------------------
(* The theorems.                                                           *)

\* What the two sides and the line between them know of each other (UploadInv) holds of
\* every behaviour: of any files, block and window sizes, timeouts, calls and faults.
THEOREM UploadInvariant == Spec => []UploadInv
<1>1. UploadInv /\ [Next]_vars => UploadInv'
  BY DeviceInv, OtherInv, StutterInv DEF Next
<1> QED
  BY <1>1, InitInv, PTL DEF Spec

\* Whatever the line loses, changes or inserts, what the device commits is the file of the
\* host's call, a call that returned had it committed, and a RAM boot stores inside the
\* second stage's window (upload.rs:144, boot.rs:113-131, vux_tool.py:463).
THEOREM TransfersTheFileTheorem == Spec => []TransfersTheFile
<1>1. UploadInv => TransfersTheFile
  <2> SUFFICES ASSUME UploadInv PROVE TransfersTheFile
    OBVIOUS
  <2>1. TypeOK
    BY DEF UploadInv
  <2>2. CommitsTheFile
    BY DEF UploadInv, SinkInv, Received, CommitsTheFile
  <2>3. ReturnedMeansCommitted
    BY DEF UploadInv, TalkInv, OkInv, ReturnedMeansCommitted
  <2>4. StoresInWindow
    BY UploadAssumption DEF UploadInv, SinkInv, StoresInWindow
  <2> QED
    BY <2>1, <2>2, <2>3, <2>4 DEF TransfersTheFile
<1> QED
  BY <1>1, UploadInvariant, PTL

\* When ram_boot or put has given up, the device is not left in the exchange: it gave up
\* before the host did (vux_tool.py:615-617, 661-663).
THEOREM NotLeftInExchangeTheorem == Spec => []NotLeftInExchange
<1>1. UploadInv => NotLeftInExchange
  BY DEF UploadInv, TypeOK, TalkInv, PromptInv, DevWaits, NotLeftInExchange
<1> QED
  BY <1>1, UploadInvariant, PTL
=============================================================================

-------------------------- MODULE HostConsoleProofs --------------------------
(***************************************************************************)
(* The dialogue for any number of commands, polls and waits: whom what the *)
(* host types meets, when it gives up, and whose reply it returns.         *)
(***************************************************************************)
EXTENDS HostConsole, SequenceTheorems, WellFoundedInduction, TLAPS

\* What is typed, and what is printed.
Typed == {"cr", "b", "i", "r", "eset", "un", "l", "s", "m", "kdir"}

Printed == Tokens \cup ToSet(Replies)

\* What the second stage echoes.
Chars == Typed \ {"cr"}

Lines == {<<"l", "s">>, <<"m", "kdir">>, <<"r", "un">>}

Todos == {<<"enter_s1", "key">>, <<"enter_s2", "ls">>, <<"enter_s2", "mkdir">>, <<"enter_s2", "run">>,
          <<"enter_s1", "enter_s2">>, <<"key">>, <<"ls">>, <<"mkdir">>, <<"run">>, <<"enter_s2">>}

-----------------------------------------------------------------------------
(* With and without split reads.                                           *)

TypeInv ==
    /\ split \in BOOLEAN /\ card \in BOOLEAN
    /\ dev \in {"start", "window", "s1", "s2", "boot", "busy", "app"}
    /\ devLine \in Seq(Chars) /\ (devLine # <<>> => dev = "s2")
    /\ devCmd.line \in Lines /\ devCmd.id \in 0 .. MaxCommands[split]
    /\ toDev \in Seq(Typed) /\ toHost \in Seq(Printed) /\ text \in Seq(Printed)
    /\ polls \in 0 .. MaxPolls[split] /\ waits \in 0 .. MaxWaits /\ id \in 0 .. MaxCommands[split]

\* Where the host is says which step it is at.
PlaceInv ==
    \/ pc \in {"idle", "done", "timeout", "S2Error"} /\ todo = <<>>
    \/ /\ todo \in Todos /\ outcome = "none"
       /\ \/ pc = "drain"
          \/ pc = "poll1" /\ Head(todo) = "enter_s1"
          \/ pc \in {"poll2", "boot2"} /\ Head(todo) = "enter_s2"
          \/ pc = "mark" /\ Head(todo) = "key"
          \/ pc = "echo" /\ Head(todo) \in {"ls", "mkdir"}
          \/ pc = "run" /\ Head(todo) = "run"

\* The n-th token from the end of what the device printed since the host's line was sent.
Nth(n) == Chunk[Len(Chunk) + 1 - n]

\* What was echoed last is the end of the second stage's line.
TailInv ==
    /\ Len(Chunk) >= 1 /\ Nth(1) \in Chars => devLine # <<>> /\ devLine[Len(devLine)] = Nth(1)
    /\ Len(Chunk) >= 2 /\ Nth(1) \in Chars /\ Nth(2) \in Chars =>
         Len(devLine) >= 2 /\ devLine[Len(devLine) - 1] = Nth(2)

\* Where the echo of a line ends in what was read.
Echoed(line, got, k) == k \in 3 .. Len(got) /\ got[k - 2] = line[1] /\ got[k - 1] = line[2] /\ got[k] = "nl"

\* After the echo of the host's line comes the reply to it, or an error.
EchoInv ==
    pc = "echo" =>
      /\ TailInv
      /\ \A k \in 1 .. Len(Chunk) : Echoed(LineOf(Head(todo)), Chunk, k) =>
           \/ k = Len(Chunk) /\ dev = "busy" /\ devCmd = [line |-> LineOf(Head(todo)), id |-> id]
           \/ k < Len(Chunk) /\ Chunk[k + 1] \in {Reply(id), "[ERR]"}

-----------------------------------------------------------------------------
(* Until an answer is late.                                                *)

\* The device has Enters before it and nothing else.
OnlyEnters == devLine = <<>> /\ toDev \in Seq({"cr"})

\* Between steps, and before one: the device is at the prompt that the last one found.
LooseInv ==
    pc \in {"idle", "done", "timeout", "S2Error", "drain"} =>
      /\ OnlyEnters
      /\ dev = "start" => Len(toDev) <= 1
      /\ pc = "drain" /\ Head(todo) = "key" => dev = "s1" /\ toDev = <<>> /\ toHost = <<>>
      /\ pc = "drain" /\ Head(todo) \in {"ls", "mkdir", "run"} => dev = "s2" /\ toDev = <<>> /\ toHost = <<>>

Polling == pc \in {"poll1", "poll2"}

\* `reset` is typed, or on its way.
Resets(line, typed) ==
    \/ line = <<>> /\ typed = <<"r", "eset", "cr", "cr">>
    \/ line = <<"r">> /\ typed = <<"eset", "cr", "cr">>
    \/ line = <<"r", "eset">> /\ typed = <<"cr", "cr">>

Resetting == dev = "s2" /\ Resets(devLine, toDev)

TypedInv == Polling => (OnlyEnters /\ (dev = "start" => Len(toDev) <= 1)) \/ Resetting

\* While the host polls, a prompt on its way is the device's present one.
PromptInv ==
    Polling =>
      /\ "s1> " \in ToSet(toHost) => dev = "s1"
      /\ "s2> " \in ToSet(toHost) => dev = "s2" /\ OnlyEnters
      /\ "banner" \in ToSet(toHost) => (dev = "window" /\ Len(toDev) <= 1) \/ (dev = "s1" /\ toDev = <<>>)

\* A device that has taken every Enter has answered, and the answer is not read yet.
AnsweredInv ==
    Polling =>
      /\ {"s1> ", "s2> ", "banner"} \cap ToSet(text) = {}
      /\ toDev = <<>> =>
           /\ dev = "s1" => "s1> " \in ToSet(toHost)
           /\ dev = "s2" => "s2> " \in ToSet(toHost)
           /\ dev = "window" => "banner" \in ToSet(toHost)

\* A device at a prompt costs one poll, its reset another and its banner a third.
CountInv ==
    Polling =>
      /\ polls <= 3
      /\ dev \in {"boot", "busy", "app"} \/ (dev = "s2" /\ OnlyEnters) => polls <= 1
      /\ dev = "start" \/ Resetting \/ "banner" \in ToSet(toHost) => polls <= 2

BootInv ==
    pc = "boot2" =>
      /\ devLine = <<>> /\ dev \in {"s1", "boot", "s2"}
      /\ toDev = <<>> \/ (toDev = <<"b">> /\ dev = "s1" /\ toHost = <<>>)
      /\ "s2> " \notin ToSet(text)
      /\ "s2> " \in ToSet(toHost) => dev = "s2"

MarkInv ==
    pc = "mark" =>
      /\ dev = "s1" /\ devLine = <<>> /\ text = <<>>
      /\ \/ toDev = <<"i">> /\ toHost = <<>>
         \/ toDev = <<>> /\ toHost = <<"[CMD:i]", "info", "s1> ">>

\* A line: on its way, executed, answered.
LineTyped(a, b) ==
    /\ dev = "s2" /\ Chunk = devLine
    /\ \/ devLine = <<>> /\ toDev = <<a, b, "cr">>
       \/ devLine = <<a>> /\ toDev = <<b, "cr">>
       \/ devLine = <<a, b>> /\ toDev = <<"cr">>

LineRuns(a, b) ==
    /\ dev = "busy" /\ devLine = <<>> /\ toDev = <<>> /\ devCmd.line = <<a, b>>
    /\ Chunk = <<a, b, "nl">>

LineAnswered(a, b) ==
    /\ dev = "s2" /\ devLine = <<>> /\ toDev = <<>> /\ toHost # <<>>
    /\ \E x \in {Reply(devCmd.id), "[ERR]"} : Chunk = <<a, b, "nl", x, "s2> ">>

LineInv ==
    pc \in {"echo", "run"} =>
      LET line == LineOf(Head(todo)) IN
      \/ LineTyped(line[1], line[2]) \/ LineRuns(line[1], line[2]) \/ LineAnswered(line[1], line[2])
      \/ pc = "run" /\ dev = "app" /\ devLine = <<>> /\ toDev = <<>>

StageInv == LooseInv /\ TypedInv /\ PromptInv /\ AnsweredInv /\ CountInv /\ BootInv /\ MarkInv /\ LineInv

ConsoleInv == TypeInv /\ PlaceInv /\ EchoInv /\ (~late => StageInv)


-----------------------------------------------------------------------------
(* Sequences.                                                              *)

LEMMA ToSetCat ==
    ASSUME NEW S, NEW s \in Seq(S), NEW t \in Seq(S)
    PROVE  ToSet(s \o t) = ToSet(s) \cup ToSet(t)
  <1>1. /\ DOMAIN s = 1 .. Len(s) /\ DOMAIN t = 1 .. Len(t) /\ Len(s) \in Nat /\ Len(t) \in Nat
        /\ DOMAIN (s \o t) = 1 .. Len(s) + Len(t)
        /\ \A i \in 1 .. Len(s) + Len(t) : (s \o t)[i] = IF i <= Len(s) THEN s[i] ELSE t[i - Len(s)]
    OBVIOUS
  <1>2. ASSUME NEW x \in ToSet(s \o t) PROVE x \in ToSet(s) \cup ToSet(t)
    BY <1>1, <1>2 DEF ToSet
  <1>3. ASSUME NEW x \in ToSet(s) PROVE x \in ToSet(s \o t)
    BY <1>1, <1>3 DEF ToSet
  <1>4. ASSUME NEW x \in ToSet(t) PROVE x \in ToSet(s \o t)
    <2>1. PICK i \in 1 .. Len(t) : t[i] = x
      BY <1>1, <1>4 DEF ToSet
    <2>2. /\ Len(s) + i \in 1 .. Len(s) + Len(t) /\ ~(Len(s) + i <= Len(s)) /\ (Len(s) + i) - Len(s) = i
      BY <1>1
    <2>3. (s \o t)[Len(s) + i] = x
      BY <1>1, <2>1, <2>2
    <2> QED
      BY <1>1, <2>2, <2>3 DEF ToSet
  <1> QED
    BY <1>2, <1>3, <1>4

LEMMA ToSetShort ==
    ASSUME NEW a, NEW b, NEW c
    PROVE  /\ ToSet(<<>>) = {} /\ ToSet(<<a>>) = {a} /\ ToSet(<<a, b>>) = {a, b} /\ ToSet(<<a, b, c>>) = {a, b, c}
  BY DEF ToSet

LEMMA ShortSeqs ==
    ASSUME NEW a, NEW b, NEW c
    PROVE  /\ Head(<<a>>) = a /\ Tail(<<a>>) = <<>> /\ Head(<<a, b>>) = a /\ Tail(<<a, b>>) = <<b>>
           /\ Head(<<a, b, c>>) = a /\ Tail(<<a, b, c>>) = <<b, c>>
           /\ <<a>> # <<>> /\ <<a, b>> # <<>> /\ <<a, b, c>> # <<>>
  OBVIOUS

LEMMA CatIs ==
    ASSUME NEW S, NEW s \in Seq(S), NEW t \in Seq(S), NEW u \in Seq(S), Len(u) = Len(s) + Len(t),
           \A i \in 1 .. Len(s) : u[i] = s[i], \A i \in 1 .. Len(t) : u[Len(s) + i] = t[i]
    PROVE  s \o t = u
  <1>1. /\ s \o t \in Seq(S) /\ Len(s \o t) = Len(s) + Len(t)
        /\ \A i \in 1 .. Len(s) + Len(t) : (s \o t)[i] = IF i <= Len(s) THEN s[i] ELSE t[i - Len(s)]
    BY ConcatProperties
  <1>2. Len(s) \in Nat /\ Len(t) \in Nat
    OBVIOUS
  <1>3. ASSUME NEW i \in 1 .. Len(s \o t) PROVE (s \o t)[i] = u[i]
    <2>1. CASE i <= Len(s)
      BY <1>1, <1>2, <2>1
    <2>2. CASE ~(i <= Len(s))
      <3>1. i - Len(s) \in 1 .. Len(t) /\ Len(s) + (i - Len(s)) = i
        BY <1>1, <1>2, <2>2
      <3> QED
        BY <1>1, <2>2, <3>1
    <2> QED
      BY <2>1, <2>2
  <1> QED
    BY <1>1, <1>3, SeqEqual

LEMMA ShortLen ==
    ASSUME NEW a, NEW b, NEW c, NEW x, NEW y
    PROVE  /\ Len(<<a>>) = 1 /\ <<a>>[1] = a
           /\ Len(<<a, b>>) = 2 /\ <<a, b>>[1] = a /\ <<a, b>>[2] = b
           /\ Len(<<a, b, c>>) = 3 /\ <<a, b, c>>[1] = a /\ <<a, b, c>>[2] = b /\ <<a, b, c>>[3] = c
           /\ Len(<<a, b, c, x, y>>) = 5 /\ <<a, b, c, x, y>>[1] = a /\ <<a, b, c, x, y>>[2] = b /\ <<a, b, c, x, y>>[3] = c
           /\ <<a, b, c, x, y>>[4] = x /\ <<a, b, c, x, y>>[5] = y
  OBVIOUS

LEMMA ShortSeq ==
    ASSUME NEW S, NEW a \in S, NEW b \in S, NEW c \in S, NEW x \in S, NEW y \in S
    PROVE  /\ <<>> \in Seq(S) /\ <<a>> \in Seq(S) /\ <<a, b>> \in Seq(S) /\ <<a, b, c>> \in Seq(S)
           /\ <<a, b, c, x, y>> \in Seq(S)
  OBVIOUS

LEMMA CatLength ==
    ASSUME NEW S, NEW s \in Seq(S), NEW t \in Seq(S), NEW u \in Seq(S)
    PROVE  /\ Len(s) = 1 /\ Len(t) = 1 /\ Len(u) = 2 /\ u[1] = s[1] /\ u[2] = t[1] => s \o t = u
           /\ Len(s) = 2 /\ Len(t) = 1 /\ Len(u) = 3 /\ u[1] = s[1] /\ u[2] = s[2] /\ u[3] = t[1] => s \o t = u
           /\ Len(s) = 3 /\ Len(t) = 2 /\ Len(u) = 5 /\ u[1] = s[1] /\ u[2] = s[2] /\ u[3] = s[3]
                /\ u[4] = t[1] /\ u[5] = t[2] => s \o t = u
  <1> USE CatIs
  <1>1. ASSUME Len(s) = 1, Len(t) = 1, Len(u) = 2, u[1] = s[1], u[2] = t[1] PROVE s \o t = u
    <2>1. Len(u) = Len(s) + Len(t)
      BY <1>1
    <2>2. \A i \in 1 .. Len(s) : u[i] = s[i]
      BY <1>1
    <2>3. \A i \in 1 .. Len(t) : u[Len(s) + i] = t[i]
      BY <1>1
    <2> QED
      BY <2>1, <2>2, <2>3
  <1>2. ASSUME Len(s) = 2, Len(t) = 1, Len(u) = 3, u[1] = s[1], u[2] = s[2], u[3] = t[1] PROVE s \o t = u
    <2>1. Len(u) = Len(s) + Len(t)
      BY <1>2
    <2>2. \A i \in 1 .. Len(s) : u[i] = s[i]
      BY <1>2
    <2>3. \A i \in 1 .. Len(t) : u[Len(s) + i] = t[i]
      BY <1>2
    <2> QED
      BY <2>1, <2>2, <2>3
  <1>3. ASSUME Len(s) = 3, Len(t) = 2, Len(u) = 5, u[1] = s[1], u[2] = s[2], u[3] = s[3], u[4] = t[1], u[5] = t[2] PROVE s \o t = u
    <2>1. Len(u) = Len(s) + Len(t)
      BY <1>3
    <2>2. \A i \in 1 .. Len(s) : u[i] = s[i]
      BY <1>3
    <2>3. \A i \in 1 .. Len(t) : u[Len(s) + i] = t[i]
      BY <1>3
    <2> QED
      BY <2>1, <2>2, <2>3
  <1> QED
    BY <1>1, <1>2, <1>3

LEMMA ShortCat ==
    ASSUME NEW a \in Printed, NEW b \in Printed, NEW c \in Printed, NEW x \in Printed, NEW y \in Printed
    PROVE  /\ Append(<<>>, a) = <<a>> /\ Append(<<a>>, b) = <<a, b>>
           /\ <<a>> \o <<b>> = <<a, b>> /\ <<a, b>> \o <<c>> = <<a, b, c>>
           /\ <<a, b, c>> \o <<x, y>> = <<a, b, c, x, y>>
  <1>1. Append(<<>>, a) = <<a>>
    OBVIOUS
  <1>2. \A s, t, u \in Seq(Printed) :
          /\ Len(s) = 1 /\ Len(t) = 1 /\ Len(u) = 2 /\ u[1] = s[1] /\ u[2] = t[1] => s \o t = u
          /\ Len(s) = 2 /\ Len(t) = 1 /\ Len(u) = 3 /\ u[1] = s[1] /\ u[2] = s[2] /\ u[3] = t[1] => s \o t = u
          /\ Len(s) = 3 /\ Len(t) = 2 /\ Len(u) = 5 /\ u[1] = s[1] /\ u[2] = s[2] /\ u[3] = s[3]
                /\ u[4] = t[1] /\ u[5] = t[2] => s \o t = u
    <2> TAKE s, t, u \in Seq(Printed)
    <2> QED
      BY CatLength
  <1>3. /\ <<a>> \in Seq(Printed) /\ <<b>> \in Seq(Printed) /\ <<c>> \in Seq(Printed) /\ <<a, b>> \in Seq(Printed) /\ <<x, y>> \in Seq(Printed)
        /\ <<a, b, c>> \in Seq(Printed) /\ <<a, b, c, x, y>> \in Seq(Printed)
    OBVIOUS
  <1>4. <<a>> \o <<b>> = <<a, b>>
    BY <1>2, <1>3
  <1>5. <<a, b>> \o <<c>> = <<a, b, c>>
    BY <1>2, <1>3
  <1>6. <<a, b, c>> \o <<x, y>> = <<a, b, c, x, y>>
    BY <1>2, <1>3
  <1>7. Append(<<a>>, b) = <<a, b>>
    <2>1. \A s \in Seq(Printed) : Append(s, b) = s \o <<b>>
      OBVIOUS
    <2> QED
      BY <2>1, <1>3, <1>4
  <1> QED
    BY <1>1, <1>4, <1>5, <1>6, <1>7

LEMMA TodoSteps ==
    ASSUME NEW t \in Todos
    PROVE  /\ t # <<>>
           /\ Head(t) \in {"enter_s1", "enter_s2", "key", "ls", "mkdir", "run"}
           /\ Head(t) = "enter_s1" => Tail(t) \in {<<"key">>, <<"enter_s2">>}
           /\ Head(t) = "enter_s2" => Tail(t) \in {<<>>, <<"ls">>, <<"mkdir">>, <<"run">>}
           /\ Head(t) \notin {"enter_s1", "enter_s2"} => Tail(t) = <<>>
  <1>1. CASE t = <<"enter_s1", "key">>
    BY <1>1, ShortSeqs
  <1>2. CASE t = <<"enter_s2", "ls">>
    BY <1>2, ShortSeqs
  <1>3. CASE t = <<"enter_s2", "mkdir">>
    BY <1>3, ShortSeqs
  <1>4. CASE t = <<"enter_s2", "run">>
    BY <1>4, ShortSeqs
  <1>5. CASE t = <<"enter_s1", "enter_s2">>
    BY <1>5, ShortSeqs
  <1>6. CASE t = <<"key">>
    BY <1>6, ShortSeqs
  <1>7. CASE t = <<"ls">>
    BY <1>7, ShortSeqs
  <1>8. CASE t = <<"mkdir">>
    BY <1>8, ShortSeqs
  <1>9. CASE t = <<"run">>
    BY <1>9, ShortSeqs
  <1>10. CASE t = <<"enter_s2">>
    BY <1>10, ShortSeqs
  <1> QED
    BY <1>1, <1>2, <1>3, <1>4, <1>5, <1>6, <1>7, <1>8, <1>9, <1>10 DEF Todos

LEMMA TodoOne ==
    /\ Head(<<"key">>) = "key" /\ Head(<<"enter_s2">>) = "enter_s2" /\ Head(<<"ls">>) = "ls" /\ Head(<<"mkdir">>) = "mkdir"
    /\ Head(<<"run">>) = "run"
    /\ {<<"key">>, <<"enter_s2">>, <<"ls">>, <<"mkdir">>, <<"run">>} \subseteq Todos \ {<<>>}
  BY ShortSeqs DEF Todos

\* The end of a queue is one of the device's bytes fewer.
LEMMA Taken ==
    ASSUME NEW S, NEW q \in Seq(S), q # <<>>
    PROVE  /\ Head(q) \in S /\ Tail(q) \in Seq(S) /\ Len(Tail(q)) = Len(q) - 1 /\ Len(q) \in Nat \ {0}
           /\ Head(q) = q[1] /\ \A i \in 1 .. Len(q) - 1 : Tail(q)[i] = q[i + 1]
  OBVIOUS

-----------------------------------------------------------------------------
(* Types.                                                                  *)

LEMMA Bounds ==
    ASSUME split \in BOOLEAN
    PROVE  /\ MaxPolls[split] \in Nat \ {0} /\ MaxCommands[split] \in Nat /\ MaxWaits \in Nat /\ MaxPolls[split] > 2
  BY ConsoleAssumption

LEMMA Kinds ==
    /\ Typed \subseteq Tokens /\ Chars \subseteq Typed /\ Tokens \subseteq Printed
    /\ Chars = {"b", "i", "r", "eset", "un", "l", "s", "m", "kdir"}
  BY DEF Typed, Chars, Tokens, Printed

LEMMA Replied ==
    ASSUME split \in BOOLEAN, NEW n \in 0 .. MaxCommands[split]
    PROVE  Reply(n) \in Printed /\ Reply(n) \notin Tokens /\ Reply(n) # "none"
  <1>1. n + 1 \in DOMAIN Replies
    BY ConsoleAssumption
  <1> QED
    BY <1>1, ConsoleAssumption DEF Reply, Printed, ToSet

LEMMA PrintedSeqs ==
    /\ <<"banner">> \in Seq(Printed) /\ <<"help", "s1> ">> \in Seq(Printed) /\ <<"nl", "s1> ">> \in Seq(Printed)
    /\ <<"[CMD:b]">> \in Seq(Printed) /\ <<"[CMD:r]">> \in Seq(Printed) /\ <<"[CMD:i]", "info", "s1> ">> \in Seq(Printed)
    /\ <<"[CMD:?]", "s1> ">> \in Seq(Printed) /\ <<"nl", "s2> ">> \in Seq(Printed) /\ <<"nl">> \in Seq(Printed)
    /\ <<"nl", "[ERR]", "s2> ">> \in Seq(Printed) /\ <<"[ERR]", "s2> ">> \in Seq(Printed) /\ <<"[RUN]", "nl">> \in Seq(Printed)
    /\ <<"stage2", "s2> ">> \in Seq(Printed) /\ <<"no boot", "s1> ">> \in Seq(Printed) /\ <<>> \in Seq(Printed)
  <1>1. \A a, b, c \in Printed : <<a>> \in Seq(Printed) /\ <<a, b>> \in Seq(Printed) /\ <<a, b, c>> \in Seq(Printed)
    OBVIOUS
  <1>2. {"banner", "help", "s1> ", "s2> ", "nl", "[CMD:b]", "[CMD:r]", "[CMD:i]", "[CMD:?]", "info", "stage2", "no boot", "[ERR]", "[RUN]"}
        \subseteq Printed
    BY DEF Tokens, Printed
  <1>3. <<>> \in Seq(Printed)
    OBVIOUS
  <1> QED
    BY <1>1, <1>2, <1>3

LEMMA TypedSeqs ==
    /\ <<"cr">> \in Seq(Typed) /\ <<"i">> \in Seq(Typed) /\ <<"b">> \in Seq(Typed) /\ <<>> \in Seq(Typed)
    /\ <<"r", "eset", "cr">> \in Seq(Typed)
    /\ <<"l", "s">> \in Seq(Typed) /\ <<"m", "kdir">> \in Seq(Typed) /\ <<"r", "un">> \in Seq(Typed)
  BY DEF Typed

LEMMA LinesOf ==
    /\ LineOf("ls") = <<"l", "s">> /\ LineOf("mkdir") = <<"m", "kdir">> /\ LineOf("run") = <<"r", "un">>
  BY DEF LineOf

LEMMA CatSeq ==
    ASSUME NEW S, NEW s \in Seq(S), NEW t \in Seq(S)
    PROVE  s \o t \in Seq(S)
  OBVIOUS

DeviceType ==
    /\ split \in BOOLEAN /\ card \in BOOLEAN
    /\ dev \in {"start", "window", "s1", "s2", "boot", "busy", "app"}
    /\ devLine \in Seq(Chars) /\ (devLine # <<>> => dev = "s2")
    /\ devCmd.line \in Lines /\ devCmd.id \in 0 .. MaxCommands[split]

HostType == polls \in 0 .. MaxPolls[split] /\ waits \in 0 .. MaxWaits /\ id \in 0 .. MaxCommands[split]

LEMMA TypeParts ==
    TypeInv <=> DeviceType /\ toDev \in Seq(Typed) /\ toHost \in Seq(Printed) /\ text \in Seq(Printed) /\ HostType
  BY DEF TypeInv, DeviceType, HostType

LEMMA TypeInit == Init => TypeInv
  <1> SUFFICES ASSUME Init PROVE TypeInv
    OBVIOUS
  <1>1. devLine \in Seq(Chars) /\ toDev \in Seq(Typed) /\ toHost \in Seq(Printed) /\ text \in Seq(Printed)
    BY DEF Init
  <1>2. split \in BOOLEAN
    BY ConsoleAssumption DEF Init
  <1>3. devCmd.line \in Lines /\ devCmd.id \in 0 .. MaxCommands[split]
    BY <1>2, Bounds DEF Init, Lines
  <1>4. polls \in 0 .. MaxPolls[split] /\ waits \in 0 .. MaxWaits /\ id \in 0 .. MaxCommands[split]
    BY <1>2, Bounds DEF Init
  <1>5. dev \in {"start", "window", "s1", "s2", "boot", "busy", "app"}
    BY ConsoleAssumption DEF Init
  <1> QED
    BY <1>1, <1>2, <1>3, <1>4, <1>5 DEF Init, TypeInv

LEMMA OutType ==
    ASSUME toHost \in Seq(Printed), NEW t \in Seq(Printed), Out(t)
    PROVE  toHost' \in Seq(Printed)
  BY DEF Out

LEMMA OneType ==
    /\ \A S : \A a \in S : <<a>> \in Seq(S)
    /\ \A S : \A a, b \in S : <<a, b>> \in Seq(S)
    /\ \A S : \A s \in Seq(S) : \A a \in S : Append(s, a) \in Seq(S)
  OBVIOUS

LEMMA TypeDevice ==
    ASSUME TypeInv, Device
    PROVE  TypeInv'
  <1>a. DeviceType /\ toDev \in Seq(Typed) /\ toHost \in Seq(Printed) /\ text \in Seq(Printed) /\ HostType
    BY TypeParts
  <1>b. ASSUME DeviceType', toDev' \in Seq(Typed), toHost' \in Seq(Printed), text' \in Seq(Printed), HostType'
        PROVE  TypeInv'
    BY <1>a, <1>b DEF TypeInv, DeviceType, HostType
  <1>0. split \in BOOLEAN /\ UNCHANGED <<split, card, host>>
    BY DEF TypeInv, Device, Start, KeyInWindow, Stage1Key, Stage2Char, Stage2Line, AppReads, device
  <1>1. HostType' /\ text' \in Seq(Printed)
    BY <1>0, <1>a DEF HostType, host
  <1>2. CASE Start
    <2>1. toDev' \in Seq(Typed)
      <3>1. PICK k \in 0 .. Len(toDev) : toDev' = SubSeq(toDev, k + 1, Len(toDev))
        BY <1>2 DEF Start
      <3>2. \A i \in k + 1 .. Len(toDev) : toDev[i] \in Typed
        BY <1>a
      <3>3. k + 1 \in Int /\ Len(toDev) \in Int
        BY <1>a
      <3> QED
        BY <3>1, <3>2, <3>3, SubSeqProperties
    <2>2. toHost' \in Seq(Printed)
      BY <1>2, <1>a, OutType, PrintedSeqs DEF Start
    <2>3. DeviceType'
      BY <1>a, <1>0, <1>2 DEF Start, DeviceType
    <2> QED
      BY <1>b, <1>1, <2>1, <2>2, <2>3
  <1>3. ASSUME Take PROVE Head(toDev) \in Typed /\ toDev' \in Seq(Typed)
    BY <1>3, <1>a, Taken DEF Take
  <1>4. CASE KeyInWindow
    <2>1. toHost' \in Seq(Printed)
      BY <1>4, <1>a, OutType, PrintedSeqs DEF KeyInWindow
    <2>2. DeviceType'
      BY <1>a, <1>0, <1>4 DEF KeyInWindow, DeviceType
    <2> QED
      BY <1>b, <1>1, <1>3, <1>4, <2>1, <2>2 DEF KeyInWindow
  <1>5. CASE Stage1Key
    <2>1. toHost' \in Seq(Printed)
      BY <1>5, <1>a, OutType, PrintedSeqs DEF Stage1Key
    <2>2. DeviceType'
      BY <1>a, <1>0, <1>5 DEF Stage1Key, DeviceType
    <2> QED
      BY <1>b, <1>1, <1>3, <1>5, <2>1, <2>2 DEF Stage1Key
  <1>6. CASE Stage2Char
    <2>1. Head(toDev) \in Chars
      BY <1>3, <1>6 DEF Stage2Char, Chars
    <2>2. <<Head(toDev)>> \in Seq(Printed)
      BY <2>1, Kinds, OneType
    <2>3. toHost' \in Seq(Printed)
      BY <1>6, <2>2, <1>a, OutType, PrintedSeqs DEF Stage2Char
    <2>4. devLine' \in Seq(Chars)
      BY <1>a, <1>6, <2>1, OneType DEF Stage2Char, DeviceType
    <2>5. DeviceType'
      BY <1>a, <1>0, <1>6, <2>4 DEF Stage2Char, DeviceType
    <2> QED
      BY <1>b, <1>1, <1>3, <1>6, <2>3, <2>5 DEF Stage2Char
  <1>7. CASE Stage2Line
    <2>1. toHost' \in Seq(Printed)
      BY <1>7, <1>a, OutType, PrintedSeqs DEF Stage2Line
    <2>2. devCmd'.line \in Lines /\ devCmd'.id \in 0 .. MaxCommands[split]
      <3>1. CASE devCmd' = devCmd
        BY <1>a, <3>1 DEF DeviceType
      <3>2. CASE devCmd' = Executed /\ devLine \in Lines
        <4>1. devCmd'.line = devLine /\ devCmd'.id \in {id, 0}
          BY <3>2 DEF Executed
        <4> QED
          BY <1>a, <3>2, <4>1, <1>0, Bounds DEF HostType
      <3> QED
        BY <1>7, <3>1, <3>2 DEF Stage2Line, Lines
    <2>3. devLine' = <<>> /\ dev' \in {"start", "s2", "busy"}
      BY <1>7 DEF Stage2Line
    <2>5. <<>> \in Seq(Chars)
      OBVIOUS
    <2>4. DeviceType'
      BY <1>0, <1>a, <2>2, <2>3, <2>5 DEF DeviceType
    <2> QED
      BY <1>b, <1>1, <1>3, <1>7, <2>1, <2>4 DEF Stage2Line
  <1>8. CASE AppReads
    <2>1. DeviceType'
      BY <1>0, <1>a, <1>8 DEF AppReads, device, DeviceType
    <2> QED
      BY <1>a, <1>b, <1>1, <1>3, <1>8, <2>1 DEF AppReads
  <1> QED
    BY <1>2, <1>4, <1>5, <1>6, <1>7, <1>8 DEF Device

LEMMA TypeSlow ==
    ASSUME TypeInv, Slow
    PROVE  TypeInv'
  <1>a. DeviceType /\ toDev \in Seq(Typed) /\ toHost \in Seq(Printed) /\ text \in Seq(Printed) /\ HostType
    BY TypeParts
  <1>b. ASSUME DeviceType', toDev' \in Seq(Typed), toHost' \in Seq(Printed), text' \in Seq(Printed), HostType'
        PROVE  TypeInv'
    BY <1>a, <1>b DEF TypeInv, DeviceType, HostType
  <1>0. split \in BOOLEAN /\ UNCHANGED <<split, card, devCmd, toDev, host>>
    BY DEF TypeInv, Slow, CommandDone, BootDone, NoKey
  <1>1. HostType' /\ text' \in Seq(Printed) /\ toDev' \in Seq(Typed)
    BY <1>0, <1>a DEF HostType, host
  <1>2. CASE CommandDone
    <2>1. <<Reply(devCmd.id), "s2> ">> \in Seq(Printed)
      <3>1. Reply(devCmd.id) \in Printed /\ "s2> " \in Printed
        BY <1>a, Replied DEF DeviceType, Printed, Tokens
      <3> QED
        BY <3>1, OneType
    <2>2. toHost' \in Seq(Printed)
      BY <1>2, <2>1, <1>a, OutType, PrintedSeqs DEF CommandDone
    <2>3. DeviceType'
      BY <1>a, <1>0, <1>2 DEF CommandDone, DeviceType
    <2> QED
      BY <1>b, <1>1, <2>2, <2>3
  <1>3. CASE BootDone
    <2>1. toHost' \in Seq(Printed)
      BY <1>3, <1>a, OutType, PrintedSeqs DEF BootDone
    <2>2. devLine' = <<>> /\ dev' \in {"s1", "s2"}
      BY <1>3 DEF BootDone
    <2>4. <<>> \in Seq(Chars)
      OBVIOUS
    <2>3. DeviceType'
      BY <1>0, <1>a, <2>2, <2>4 DEF DeviceType
    <2> QED
      BY <1>b, <1>1, <2>1, <2>3
  <1>4. CASE NoKey
    <2>1. DeviceType'
      BY <1>a, <1>0, <1>4 DEF NoKey, DeviceType
    <2> QED
      BY <1>a, <1>b, <1>1, <1>4, <2>1 DEF NoKey
  <1> QED
    BY <1>2, <1>3, <1>4 DEF Slow

LEMMA PollType ==
    ASSUME TypeInv, NEW t \in Seq(Typed), Poll(t), UNCHANGED split
    PROVE  /\ toDev' \in Seq(Typed) /\ text' = <<>>
           /\ polls' \in 0 .. MaxPolls[split] /\ waits' \in 0 .. MaxWaits
  <1>1. Append(t, "cr") \in Seq(Typed)
    BY OneType DEF Typed
  <1>2. toDev' \in Seq(Typed)
    BY <1>1, CatSeq DEF TypeInv, Poll, Write
  <1>3. text' = <<>>
    BY DEF Poll, Read, Raise
  <1>4. polls' \in 0 .. MaxPolls[split] /\ waits' \in 0 .. MaxWaits
    <2>1. polls \in 0 .. MaxPolls[split] /\ waits \in 0 .. MaxWaits /\ split \in BOOLEAN
      BY DEF TypeInv
    <2>2. MaxPolls[split] \in Nat /\ MaxWaits \in Nat
      BY <2>1, Bounds
    <2>3. \/ waits < MaxWaits /\ waits' = waits + 1 /\ polls' = polls
          \/ polls < MaxPolls[split] /\ polls' = polls + 1 /\ waits' = waits
          \/ polls' = 0 /\ waits' = 0
      BY DEF Poll, Raise, NoPolls
    <2> QED
      BY <2>1, <2>2, <2>3
  <1> QED
    BY <1>2, <1>3, <1>4

LEMMA TypeHost ==
    ASSUME TypeInv, Host
    PROVE  TypeInv'
  <1>a. DeviceType /\ toDev \in Seq(Typed) /\ toHost \in Seq(Printed) /\ text \in Seq(Printed) /\ HostType
    BY TypeParts
  <1>b. ASSUME DeviceType', toDev' \in Seq(Typed), toHost' \in Seq(Printed), text' \in Seq(Printed), HostType'
        PROVE  TypeInv'
    BY <1>b DEF TypeInv, DeviceType, HostType
  <1>0. split \in BOOLEAN /\ UNCHANGED <<split, device, id>>
    BY DEF TypeInv, Host, Drain, Send, PollReads, PollTimesOut, LongRead, LongTimesOut, Close, Keep
  <1>1. DeviceType'
    BY <1>0, <1>a DEF DeviceType, device
  <1>2. toHost' \in Seq(Printed)
    <2>1. toHost' \in {<<>>, toHost}
      BY DEF Host, Drain, Send, PollReads, PollTimesOut, LongRead, LongTimesOut, Close, Receives
    <2> QED
      BY <1>a, <2>1, PrintedSeqs
  <1>c. Chunk \in Seq(Printed) /\ <<>> \in Seq(Printed)
    BY <1>a, CatSeq, PrintedSeqs DEF Chunk
  <1>d. /\ 0 \in 0 .. MaxPolls[split] /\ 1 \in 0 .. MaxPolls[split] /\ 0 \in 0 .. MaxWaits
        /\ polls \in 0 .. MaxPolls[split] /\ waits \in 0 .. MaxWaits
    BY <1>0, <1>a, Bounds DEF HostType
  <1>e. ASSUME polls' \in 0 .. MaxPolls[split], waits' \in 0 .. MaxWaits, toDev' \in Seq(Typed), text' \in Seq(Printed)
        PROVE  TypeInv'
    <2>1. HostType'
      BY <1>0, <1>a, <1>e DEF HostType
    <2> QED
      BY <1>b, <1>1, <1>2, <1>e, <2>1
  <1>3. CASE Drain
    BY <1>3, <1>a, <1>d, <1>e DEF Drain, KeepPolls
  <1>4. CASE Send
    <2>1. toDev' \in Seq(Typed)
      <3>1. \A t \in Seq(Typed) : toDev \o t \in Seq(Typed)
        BY <1>a
      <3>2. {<<"cr">>, <<"i">>, <<"l", "s">> \o <<"cr">>, <<"m", "kdir">> \o <<"cr">>, <<"r", "un">> \o <<"cr">>} \subseteq Seq(Typed)
        BY TypedSeqs, CatSeq
      <3>3. toDev' \in {toDev \o <<"cr">>, toDev \o <<"i">>, toDev \o (<<"l", "s">> \o <<"cr">>),
                        toDev \o (<<"m", "kdir">> \o <<"cr">>), toDev \o (<<"r", "un">> \o <<"cr">>)}
        BY <1>4, LinesOf DEF Send, Write
      <3> QED
        BY <3>1, <3>2, <3>3
    <2>2. text' = <<>> /\ waits' = 0 /\ polls' \in {0, 1}
      BY <1>4 DEF Send, Read
    <2> QED
      BY <1>c, <1>d, <1>e, <2>1, <2>2
  <1>5. CASE PollReads
    <2>1. \/ Poll(<<>>) \/ Poll(<<"r", "eset", "cr">>)
          \/ /\ toDev' \in {toDev, toDev \o <<"b">>} /\ text' \in {<<>>, Chunk}
             /\ polls' \in {polls, 0} /\ waits' \in {waits, 0}
      BY <1>5 DEF PollReads, Write, Read, KeepPolls, StepDone, NoPolls
    <2>2. CASE Poll(<<>>) \/ Poll(<<"r", "eset", "cr">>)
      BY <1>0, <1>c, <1>e, <2>2, PollType, TypedSeqs
    <2>3. toDev \o <<"b">> \in Seq(Typed)
      BY <1>a, TypedSeqs, CatSeq
    <2> QED
      BY <1>a, <1>c, <1>d, <1>e, <2>1, <2>2, <2>3
  <1>6. CASE PollTimesOut
    BY <1>0, <1>6, <1>c, <1>e, PollType, TypedSeqs DEF PollTimesOut
  <1>7. CASE LongRead
    <2>1. text' \in {<<>>, Chunk} /\ polls' \in {polls, 0} /\ waits' \in {waits, 0} /\ toDev' = toDev
      BY <1>7 DEF LongRead, Raise, Read, KeepPolls, StepDone, NoPolls
    <2> QED
      BY <1>a, <1>c, <1>d, <1>e, <2>1
  <1>8. CASE LongTimesOut \/ Close
    <2>1. text' = <<>> /\ polls' \in {polls, 0} /\ waits' \in {waits, 0} /\ toDev' = toDev
      BY <1>8 DEF LongTimesOut, Close, Raise, Read, NoPolls
    <2> QED
      BY <1>a, <1>c, <1>d, <1>e, <2>1
  <1> QED
    BY <1>3, <1>4, <1>5, <1>6, <1>7, <1>8 DEF Host

LEMMA TypeCommand ==
    ASSUME TypeInv, Command, UNCHANGED split
    PROVE  TypeInv'
  <1>1. text' = <<>> /\ polls' = 0 /\ waits' = 0 /\ id' \in 0 .. MaxCommands[split]
    BY Bounds DEF TypeInv, Command, NoPolls
  <1>2. 0 \in 0 .. MaxPolls[split] /\ 0 \in 0 .. MaxWaits
    BY Bounds DEF TypeInv
  <1>3. <<>> \in Seq(Printed)
    BY PrintedSeqs
  <1> QED
    BY <1>1, <1>2, <1>3 DEF TypeInv, Command, device

LEMMA TypeStep ==
    ASSUME TypeInv, [Next]_vars
    PROVE  TypeInv'
  <1>1. CASE UNCHANGED vars
    BY <1>1 DEF vars, device, host, TypeInv
  <1> QED
    BY <1>1, TypeDevice, TypeSlow, TypeHost, TypeCommand DEF Next

-----------------------------------------------------------------------------
(* Where the host is.                                                      *)

LEMMA PlaceStep ==
    ASSUME PlaceInv, [Next]_vars
    PROVE  PlaceInv'
  <1>1. CASE UNCHANGED vars \/ Device \/ Slow
    <2>1. UNCHANGED <<todo, pc, outcome>>
      BY <1>1 DEF vars, host, Device, Slow, Start, KeyInWindow, Stage1Key, Stage2Char, Stage2Line, AppReads, CommandDone, BootDone, NoKey
    <2> QED
      BY <2>1 DEF PlaceInv
  <1>2. CASE Command
    <2>1. PICK c \in Commands : todo' = StepsOf(c)
      BY <1>2 DEF Command
    <2>2. todo' \in Todos
      BY <2>1, ConsoleAssumption DEF StepsOf, Todos
    <2> QED
      BY <1>2, <2>2 DEF Command, PlaceInv
  <1>3. ASSUME todo \in Todos, outcome = "none", StepDone, outcome' = "none" PROVE PlaceInv'
    <2>1. todo' = Tail(todo) /\ Tail(todo) \in Todos \cup {<<>>} /\ pc' = IF Tail(todo) = <<>> THEN "done" ELSE "drain"
      BY <1>3, TodoSteps, TodoOne DEF StepDone, Read
    <2> QED
      BY <1>3, <2>1, TodoSteps DEF PlaceInv
  <1>4. ASSUME NEW w \in {"timeout", "S2Error"}, Raise(w) PROVE PlaceInv'
    BY <1>4 DEF Raise, Read, PlaceInv
  <1>5. CASE Drain
    BY <1>5 DEF Drain, Keep, PlaceInv
  <1>6. CASE Send
    <2>1. UNCHANGED <<todo, outcome>> /\ todo \in Todos /\ outcome = "none"
      BY <1>6 DEF Send, Keep, PlaceInv
    <2>2. \/ pc' = "poll1" /\ Head(todo) = "enter_s1"
          \/ pc' = "poll2" /\ Head(todo) = "enter_s2"
          \/ pc' = "mark" /\ Head(todo) = "key"
          \/ pc' = "echo" /\ Head(todo) \in {"ls", "mkdir"}
          \/ pc' = "run" /\ Head(todo) = "run"
      BY <1>6 DEF Send, Read
    <2> QED
      BY <2>1, <2>2 DEF PlaceInv
  <1>7. ASSUME NEW t, Poll(t), pc \in {"poll1", "poll2"}, outcome' = outcome PROVE PlaceInv'
    <2>1. (pc' = pc /\ todo' = todo) \/ Raise("timeout")
      BY <1>7 DEF Poll, Read
    <2> QED
      BY <1>4, <1>7, <2>1 DEF PlaceInv
  <1>8. CASE PollReads
    <2>1. /\ pc \in {"poll1", "poll2"} /\ outcome' = outcome /\ todo \in Todos /\ outcome = "none"
          /\ (\E t : Poll(t)) \/ StepDone \/ (todo' = todo /\ pc' = pc) \/ (pc = "poll2" /\ pc' = "boot2" /\ todo' = todo)
      BY <1>8 DEF PollReads, Keep, Read, PlaceInv
    <2> QED
      BY <1>3, <1>7, <2>1 DEF PlaceInv
  <1>9. CASE PollTimesOut
    BY <1>7, <1>9 DEF PollTimesOut, Keep
  <1>10. CASE LongRead
    <2>1. /\ todo \in Todos /\ outcome = "none"
          /\ \/ todo' = todo /\ pc' = pc /\ outcome' = outcome
             \/ Raise("S2Error")
             \/ StepDone /\ (Head(todo) \in {"ls", "mkdir"} \/ outcome' = outcome)
      BY <1>10 DEF LongRead, LongReads, PlaceInv
    <2>2. CASE StepDone /\ Head(todo) \in {"ls", "mkdir"}
      BY <2>1, <2>2, TodoSteps DEF StepDone, Read, PlaceInv
    <2> QED
      BY <1>3, <1>4, <2>1, <2>2 DEF PlaceInv
  <1>11. CASE LongTimesOut
    BY <1>4, <1>11 DEF LongTimesOut
  <1>12. CASE Close
    BY <1>12 DEF Close, Read, PlaceInv
  <1> QED
    BY <1>1, <1>2, <1>5, <1>6, <1>8, <1>9, <1>10, <1>11, <1>12 DEF Next, Host

LEMMA PlaceInit == Init => PlaceInv
  BY DEF Init, PlaceInv

-----------------------------------------------------------------------------
(* The echo.                                                               *)

LEMMA Catted ==
    ASSUME NEW c \in Seq(Printed), NEW out \in Seq(Printed), NEW d, d = c \o out
    PROVE  /\ Len(c) \in Nat /\ Len(out) \in Nat /\ Len(d) = Len(c) + Len(out) /\ d \in Seq(Printed)
           /\ \A k \in 1 .. Len(c) : d[k] = c[k]
           /\ \A k \in 1 .. Len(out) : d[Len(c) + k] = out[k]
  OBVIOUS

EchoedIn(line, c, out, k) ==
    \/ k \in 1 .. Len(c) /\ Echoed(line, c, k)
    \/ k = Len(c) + 1 /\ Len(c) >= 2 /\ out # <<>> /\ out[1] = "nl" /\ c[Len(c)] = line[2] /\ c[Len(c) - 1] = line[1]
    \/ k - Len(c) \in 2 .. Len(out) /\ out[k - Len(c)] = "nl" /\ out[k - Len(c) - 1] = line[2]

LEMMA EchoedCat ==
    ASSUME NEW c \in Seq(Printed), NEW out \in Seq(Printed), NEW line
    PROVE  \A k \in 1 .. Len(c \o out) : Echoed(line, c \o out, k) => EchoedIn(line, c, out, k)
  <1> DEFINE d == c \o out
  <1> SUFFICES ASSUME NEW k \in 1 .. Len(d), Echoed(line, d, k) PROVE EchoedIn(line, c, out, k)
    OBVIOUS
  <1>0. /\ Len(c) \in Nat /\ Len(out) \in Nat /\ Len(d) = Len(c) + Len(out)
        /\ \A i \in 1 .. Len(c) : d[i] = c[i]
        /\ \A i \in 1 .. Len(out) : d[Len(c) + i] = out[i]
    BY Catted
  <1>1. k \in 3 .. Len(d) /\ d[k - 2] = line[1] /\ d[k - 1] = line[2] /\ d[k] = "nl"
    BY DEF Echoed, EchoedIn
  <1>2. CASE k <= Len(c)
    BY <1>0, <1>1, <1>2 DEF Echoed, EchoedIn
  <1>3. CASE k = Len(c) + 1
    <2>1. 1 \in 1 .. Len(out) /\ Len(c) \in 1 .. Len(c) /\ Len(c) - 1 \in 1 .. Len(c)
      BY <1>0, <1>1, <1>3
    <2>2. d[Len(c) + 1] = out[1] /\ d[Len(c)] = c[Len(c)] /\ d[Len(c) - 1] = c[Len(c) - 1]
      BY <1>0, <2>1
    <2>3. k - 1 = Len(c) /\ k - 2 = Len(c) - 1 /\ Len(c) >= 2 /\ out # <<>>
      BY <1>0, <1>1, <1>3, <2>1
    <2> QED
      BY <1>1, <1>3, <2>2, <2>3 DEF EchoedIn
  <1>4. CASE k > Len(c) + 1
    <2>1. k - Len(c) \in 2 .. Len(out) /\ k - Len(c) - 1 \in 1 .. Len(out)
      BY <1>0, <1>1, <1>4
    <2>2. d[Len(c) + (k - Len(c))] = out[k - Len(c)] /\ d[Len(c) + (k - Len(c) - 1)] = out[k - Len(c) - 1]
      BY <1>0, <2>1
    <2>3. Len(c) + (k - Len(c)) = k /\ Len(c) + (k - Len(c) - 1) = k - 1
      BY <1>0, <1>1
    <2> QED
      BY <1>1, <2>1, <2>2, <2>3 DEF EchoedIn
  <1> QED
    BY <1>0, <1>1, <1>2, <1>3, <1>4

\* The end of the second stage's line is the host's line; a command is the host's.
LineIsMine ==
    /\ Len(devLine) >= 2
    /\ devLine[Len(devLine)] = LineOf(Head(todo))[2] /\ devLine[Len(devLine) - 1] = LineOf(Head(todo))[1]

IsMine(cmd) == cmd = [line |-> LineOf(Head(todo)), id |-> id]

EchoBase == TypeInv /\ EchoInv /\ pc = "echo" /\ UNCHANGED <<pc, text, todo, id>> /\ Head(todo) \in {"ls", "mkdir"}

\* How an answer may go on without breaking EchoInv.
LEMMA EchoGrows ==
    ASSUME EchoBase, NEW out \in Seq(Printed), out # <<>>, Out(out),
           out[Len(out)] \notin Chars \/ (Len(out) = 1 /\ devLine' = Append(devLine, out[1])),
           \A j \in 2 .. Len(out) : out[j] = "nl" => out[j - 1] \notin Chars,
           dev = "busy" /\ IsMine(devCmd) => out[1] \in {Reply(id), "[ERR]"},
           out[1] = "nl" /\ LineIsMine =>
              \/ Len(out) = 1 /\ dev' = "busy" /\ IsMine(devCmd')
              \/ Len(out) > 1 /\ out[2] = "[ERR]"
    PROVE  EchoInv'
  <1> USE DEF EchoBase
  <1> DEFINE c == Chunk  d == c \o out  line == LineOf(Head(todo))
  <1>0. c \in Seq(Printed) /\ text \in Seq(Printed) /\ toHost \in Seq(Printed)
    BY CatSeq DEF TypeInv, Chunk
  <1>1. Chunk' = d
    <2>1. text' = text /\ toHost' = toHost \o out
      BY DEF Out
    <2>2. (text \o toHost) \o out = text \o (toHost \o out)
      BY <1>0, ConcatAssociative
    <2> QED
      BY <2>1, <2>2 DEF Chunk
  <1>2. /\ Len(c) \in Nat /\ Len(out) \in Nat /\ Len(d) = Len(c) + Len(out)
        /\ \A i \in 1 .. Len(c) : d[i] = c[i]
        /\ \A i \in 1 .. Len(out) : d[Len(c) + i] = out[i]
    BY <1>0, Catted
  <1>3. line[1] \in Chars /\ line[2] \in Chars /\ "nl" \notin Chars /\ Len(out) >= 1
    <2>1. line \in {<<"l", "s">>, <<"m", "kdir">>}
      BY LinesOf
    <2>2. Len(out) >= 1
      BY <1>2
    <2> QED
      BY <2>1, <2>2, Kinds
  <1>4. d[Len(d)] = out[Len(out)] /\ (Len(out) = 1 /\ Len(c) >= 1 => d[Len(d) - 1] = c[Len(c)])
    <2>1. Len(out) \in 1 .. Len(out)
      BY <1>2, <1>3
    <2>2. d[Len(d)] = out[Len(out)]
      BY <1>2, <2>1
    <2>3. ASSUME Len(out) = 1, Len(c) >= 1 PROVE d[Len(d) - 1] = c[Len(c)]
      <3>1. Len(d) - 1 = Len(c) /\ Len(c) \in 1 .. Len(c)
        BY <1>2, <2>3
      <3> QED
        BY <1>2, <3>1
    <2> QED
      BY <2>2, <2>3
  <1>5. TailInv'
    <2>0. devLine \in Seq(Chars) /\ Len(devLine) \in Nat
      BY DEF TypeInv
    <2>t. /\ Len(c) >= 1 /\ c[Len(c)] \in Chars => devLine # <<>> /\ devLine[Len(devLine)] = c[Len(c)]
      BY <1>2 DEF EchoInv, TailInv, Nth
    <2>1. CASE out[Len(out)] \notin Chars
      BY <1>1, <1>2, <1>4, <2>1 DEF TailInv, Nth
    <2>2. CASE out[Len(out)] \in Chars
      <3>1. /\ Len(out) = 1 /\ devLine' = Append(devLine, out[1]) /\ out[1] \in Chars
        BY <2>2
      <3>2. /\ Len(devLine') = Len(devLine) + 1 /\ devLine'[Len(devLine')] = out[1] /\ devLine' # <<>>
            /\ Len(devLine) >= 1 => devLine'[Len(devLine') - 1] = devLine[Len(devLine)]
        BY <2>0, <3>1
      <3>3. d[Len(d)] = out[1] /\ (Len(c) >= 1 => d[Len(d) - 1] = c[Len(c)]) /\ Len(d) = Len(c) + 1
        BY <1>2, <1>4, <3>1
      <3>4. ASSUME Len(d) >= 2, d[Len(d) - 1] \in Chars
            PROVE  Len(devLine') >= 2 /\ devLine'[Len(devLine') - 1] = d[Len(d) - 1]
        <4>1. Len(c) >= 1 /\ c[Len(c)] \in Chars
          BY <1>2, <3>3, <3>4
        <4>2. devLine # <<>> /\ devLine[Len(devLine)] = c[Len(c)] /\ Len(devLine) >= 1
          BY <2>0, <2>t, <4>1
        <4> QED
          BY <2>0, <3>2, <3>3, <4>1, <4>2
      <3>5. Len(d) + 1 - 1 = Len(d) /\ Len(d) + 1 - 2 = Len(d) - 1
        BY <1>2
      <3> QED
        BY <1>1, <3>2, <3>3, <3>4, <3>5 DEF TailInv, Nth
    <2> QED
      BY <2>1, <2>2
  <1>6. ASSUME NEW k \in 1 .. Len(d), Echoed(line, d, k)
        PROVE  \/ k = Len(d) /\ dev' = "busy" /\ IsMine(devCmd')
               \/ k < Len(d) /\ d[k + 1] \in {Reply(id), "[ERR]"}
    <2>1. CASE k \in 1 .. Len(c) /\ Echoed(line, c, k)
      <3>1. CASE k = Len(c) /\ dev = "busy" /\ IsMine(devCmd)
        <4>1. k < Len(d) /\ d[k + 1] = out[1]
          BY <1>2, <1>3, <3>1
        <4> QED
          BY <3>1, <4>1
      <3>2. CASE k < Len(c) /\ c[k + 1] \in {Reply(id), "[ERR]"}
        <4>1. k + 1 \in 1 .. Len(c) /\ k < Len(d)
          BY <1>2, <3>2
        <4> QED
          BY <1>2, <3>2, <4>1
      <3> QED
        BY <2>1, <3>1, <3>2 DEF EchoInv, IsMine
    <2>2. CASE k = Len(c) + 1 /\ Len(c) >= 2 /\ out[1] = "nl" /\ c[Len(c)] = line[2] /\ c[Len(c) - 1] = line[1]
      <3>1. Len(devLine) >= 2 /\ devLine[Len(devLine)] = line[2] /\ devLine[Len(devLine) - 1] = line[1]
        BY <1>2, <1>3, <2>2 DEF EchoInv, TailInv, Nth
      <3>2. CASE Len(out) = 1 /\ dev' = "busy" /\ IsMine(devCmd')
        BY <1>2, <2>2, <3>2
      <3>3. CASE Len(out) > 1 /\ out[2] = "[ERR]"
        <4>1. k < Len(d) /\ d[Len(c) + 2] = out[2] /\ k + 1 = Len(c) + 2
          BY <1>2, <2>2, <3>3
        <4> QED
          BY <3>3, <4>1
      <3> QED
        BY <2>2, <3>1, <3>2, <3>3 DEF LineIsMine
    <2>3. CASE k - Len(c) \in 2 .. Len(out) /\ out[k - Len(c)] = "nl" /\ out[k - Len(c) - 1] = line[2]
      BY <1>3, <2>3
    <2>4. EchoedIn(line, c, out, k)
      <3>1. c \in Seq(Printed)
        BY <1>0
      <3> HIDE DEF c, line
      <3> QED
        BY <1>6, <3>1, EchoedCat
    <2> QED
      BY <2>1, <2>2, <2>3, <2>4 DEF EchoedIn
  <1> HIDE DEF d, c
  <1> QED
    BY <1>1, <1>5, <1>6 DEF EchoInv, IsMine

LEMMA EchoGrowsShort ==
    ASSUME EchoBase, NEW a \in Printed, NEW b \in Printed, NEW c \in Printed,
           dev = "busy" /\ IsMine(devCmd) => a \in {Reply(id), "[ERR]"}
    PROVE  /\ /\ Out(<<a>>) /\ (a \notin Chars \/ devLine' = Append(devLine, a))
              /\ (a = "nl" /\ LineIsMine => dev' = "busy" /\ IsMine(devCmd'))
              => EchoInv'
           /\ /\ Out(<<a, b>>) /\ a \notin Chars /\ b \notin Chars
              /\ (a = "nl" /\ LineIsMine => b = "[ERR]")
              => EchoInv'
           /\ /\ Out(<<a, b, c>>) /\ a \notin Chars /\ b \notin Chars /\ c \notin Chars
              /\ (a = "nl" /\ LineIsMine => b = "[ERR]")
              => EchoInv'
  <1>1. ASSUME Out(<<a>>), a \notin Chars \/ devLine' = Append(devLine, a),
               a = "nl" /\ LineIsMine => dev' = "busy" /\ IsMine(devCmd')
        PROVE  EchoInv'
    <2> DEFINE out == <<a>>
    <2>1. out \in Seq(Printed) /\ Len(out) = 1 /\ out[1] = a /\ out # <<>> /\ out[Len(out)] = a
      BY ShortLen
    <2> HIDE DEF out
    <2>2. \A j \in 2 .. Len(out) : out[j] = "nl" => out[j - 1] \notin Chars
      BY <2>1
    <2>3. Out(out)
      BY <1>1 DEF out
    <2> QED
      BY <1>1, <2>1, <2>2, <2>3, EchoGrows
  <1>2. ASSUME Out(<<a, b>>), a \notin Chars, b \notin Chars, a = "nl" /\ LineIsMine => b = "[ERR]"
        PROVE  EchoInv'
    <2> DEFINE out == <<a, b>>
    <2>1. out \in Seq(Printed) /\ Len(out) = 2 /\ out[1] = a /\ out[2] = b /\ out # <<>> /\ out[Len(out)] = b
      BY ShortLen
    <2> HIDE DEF out
    <2>2. \A j \in 2 .. Len(out) : out[j] = "nl" => out[j - 1] \notin Chars
      BY <1>2, <2>1
    <2>3. Out(out)
      BY <1>2 DEF out
    <2> QED
      BY <1>2, <2>1, <2>2, <2>3, EchoGrows
  <1>3. ASSUME Out(<<a, b, c>>), a \notin Chars, b \notin Chars, c \notin Chars, a = "nl" /\ LineIsMine => b = "[ERR]"
        PROVE  EchoInv'
    <2> DEFINE out == <<a, b, c>>
    <2>1. out \in Seq(Printed) /\ Len(out) = 3 /\ out[1] = a /\ out[2] = b /\ out[3] = c /\ out # <<>> /\ out[Len(out)] = c
      BY ShortLen
    <2> HIDE DEF out
    <2>2. \A j \in 2 .. Len(out) : out[j] = "nl" => out[j - 1] \notin Chars
      BY <1>3, <2>1
    <2>3. Out(out)
      BY <1>3 DEF out
    <2> QED
      BY <1>3, <2>1, <2>2, <2>3, EchoGrows
  <1> QED
    BY <1>1, <1>2, <1>3

LEMMA NotChars ==
    LET words == {"banner", "help", "s1> ", "s2> ", "nl", "[CMD:b]", "[CMD:r]", "[CMD:i]", "[CMD:?]", "info", "stage2",
                  "no boot", "[ERR]", "[RUN]"}
    IN  words \subseteq Printed /\ words \cap Chars = {}
  BY Kinds DEF Printed, Tokens

LEMMA EchoStep ==
    ASSUME TypeInv, PlaceInv, EchoInv, [Next]_vars
    PROVE  EchoInv'
  <1> SUFFICES ASSUME pc' = "echo" PROVE EchoInv'
    BY DEF EchoInv
  <1>1. CASE UNCHANGED vars
    BY <1>1 DEF vars, device, host, EchoInv, TailInv, Nth, Chunk
  <1>2. CASE Host \/ Command
    <2>1. CASE Send
      <3>1. Chunk' = <<>> /\ Len(Chunk') = 0
        BY <1>2, <2>1 DEF Send, Read, Chunk
      <3> QED
        BY <3>1 DEF EchoInv, TailInv
    <2>2. CASE LongRead /\ pc' = pc
      <3>1. text' = Chunk /\ toHost' = <<>> /\ UNCHANGED <<device, todo, id, pc>>
        BY <1>2, <2>2 DEF LongRead, StepDone, Read, Raise, Receives
      <3>2. Chunk' = Chunk
        BY <3>1, ConcatEmptySeq, CatSeq DEF TypeInv, Chunk
      <3> QED
        BY <3>1, <3>2 DEF device, EchoInv, TailInv, Nth
    <2> QED
      BY <1>2, <2>1, <2>2
      DEF PlaceInv, Host, Command, Drain, PollReads, PollTimesOut, LongRead, LongTimesOut, Close, Poll, StepDone, Read, Raise
  <1>3. CASE Device \/ Slow
    <2>0. EchoBase
      BY <1>3 DEF Device, Slow, Start, KeyInWindow, Stage1Key, Stage2Char, Stage2Line, AppReads, CommandDone, BootDone, NoKey, host, PlaceInv, EchoBase
    <2> DEFINE line == LineOf(Head(todo))
    <2>l. line \in {<<"l", "s">>, <<"m", "kdir">>}
      BY <2>0, LinesOf DEF EchoBase
    <2>2. CASE Start \/ KeyInWindow \/ BootDone
      <3>1. Out(<<"banner">>) \/ Out(<<"help", "s1> ">>) \/ Out(<<"stage2", "s2> ">>) \/ Out(<<"no boot", "s1> ">>)
        BY <2>2 DEF Start, KeyInWindow, BootDone
      <3>2. dev # "busy"
        BY <2>2 DEF Start, KeyInWindow, BootDone
      <3> QED
        BY <2>0, <3>1, <3>2, EchoGrowsShort, NotChars
    <2>3. CASE Stage1Key
      <3>1. \/ Out(<<"nl", "s1> ">>) \/ Out(<<"[CMD:b]">>) \/ Out(<<"[CMD:r]">>) \/ Out(<<"[CMD:i]", "info", "s1> ">>)
            \/ Out(<<"[CMD:?]", "s1> ">>)
        BY <2>3 DEF Stage1Key
      <3>2. dev # "busy" /\ dev # "s2"
        BY <2>3 DEF Stage1Key
      <3>3. devLine = <<>> /\ Len(<<>>) = 0
        BY <3>2 DEF TypeInv
      <3>4. ~LineIsMine
        BY <3>3 DEF LineIsMine
      <3> QED
        BY <2>0, <3>1, <3>2, <3>4, EchoGrowsShort, NotChars
    <2>4. CASE Stage2Char
      <3>1. Head(toDev) \in Chars
        BY <2>4, Taken DEF Stage2Char, Take, TypeInv, Chars
      <3>2. Head(toDev) \in Printed /\ Head(toDev) # "nl"
        BY <3>1, Kinds
      <3>3. Out(<<Head(toDev)>>) /\ devLine' = Append(devLine, Head(toDev)) /\ dev # "busy"
        BY <2>4 DEF Stage2Char
      <3> QED
        BY <2>0, <3>1, <3>2, <3>3, EchoGrowsShort
    <2>5. CASE Stage2Line
      <3>0. dev # "busy"
        BY <2>5 DEF Stage2Line
      <3>1. CASE devLine = <<>> /\ Out(<<"nl", "s2> ">>)
        <4>1. Len(devLine) = 0
          BY <3>1
        <4>2. ~LineIsMine
          BY <4>1 DEF LineIsMine
        <4> QED
          BY <2>0, <3>0, <3>1, <4>2, EchoGrowsShort, NotChars
      <3>2. CASE devLine = <<"r", "eset">> /\ Out(<<"nl">>)
        <4>1. ~LineIsMine
          BY <2>l, <3>2 DEF LineIsMine
        <4> QED
          BY <2>0, <3>0, <3>2, <4>1, EchoGrowsShort, NotChars
      <3>3. CASE devLine \in {<<"l", "s">>, <<"m", "kdir">>, <<"r", "un">>} /\ Out(<<"nl">>) /\ dev' = "busy" /\ devCmd' = Executed
        <4>1. LineIsMine => devLine = line
          BY <2>l, <3>3 DEF LineIsMine
        <4>2. devLine = line => Executed = [line |-> line, id |-> id]
          BY <2>0 DEF Executed, EchoBase
        <4>3. LineIsMine => IsMine(devCmd')
          BY <3>3, <4>1, <4>2 DEF IsMine
        <4> QED
          BY <2>0, <3>0, <3>3, <4>3, EchoGrowsShort, NotChars
      <3>4. CASE Out(<<"nl", "[ERR]", "s2> ">>)
        BY <2>0, <3>0, <3>4, EchoGrowsShort, NotChars
      <3> QED
        BY <2>5, <3>1, <3>2, <3>3, <3>4 DEF Stage2Line
    <2>6. CASE CommandDone
      <3>1. \/ Out(<<Reply(devCmd.id), "s2> ">>) \/ Out(<<"[ERR]", "s2> ">>)
            \/ Out(<<"[RUN]", "nl">>) /\ devCmd.line = <<"r", "un">>
        BY <2>6 DEF CommandDone
      <3>2. devCmd.id \in 0 .. MaxCommands[split]
        BY DEF TypeInv
      <3>3. Reply(devCmd.id) \in Printed /\ Reply(devCmd.id) \notin Chars /\ Reply(devCmd.id) # "nl"
        BY <3>2, Replied, Kinds DEF TypeInv, Tokens
      <3>4. IsMine(devCmd) => devCmd.id = id /\ devCmd.line # <<"r", "un">>
        <4> SUFFICES ASSUME IsMine(devCmd) PROVE devCmd.id = id /\ devCmd.line # <<"r", "un">>
          OBVIOUS
        <4>1. devCmd.id = id /\ devCmd.line = line
          BY DEF IsMine
        <4> HIDE DEF line
        <4>2. line # <<"r", "un">>
          BY <2>l
        <4> QED
          BY <4>1, <4>2
      <3>5. CASE Out(<<Reply(devCmd.id), "s2> ">>)
        BY <2>0, <3>3, <3>4, <3>5, EchoGrowsShort, NotChars
      <3>6. CASE Out(<<"[ERR]", "s2> ">>)
        BY <2>0, <3>6, EchoGrowsShort, NotChars
      <3>7. CASE Out(<<"[RUN]", "nl">>) /\ devCmd.line = <<"r", "un">>
        BY <2>0, <3>4, <3>7, EchoGrowsShort, NotChars
      <3> QED
        BY <3>1, <3>5, <3>6, <3>7
    <2>7. CASE AppReads \/ NoKey
      <3>1. toHost' = toHost /\ devLine' = devLine /\ devCmd' = devCmd /\ dev # "busy"
        BY <2>7 DEF AppReads, NoKey, device
      <3>2. Chunk' = Chunk
        BY <2>0, <3>1 DEF Chunk, EchoBase
      <3>3. TailInv'
        BY <2>0, <3>1, <3>2 DEF EchoInv, TailInv, Nth, EchoBase
      <3> QED
        BY <2>0, <3>1, <3>2, <3>3 DEF EchoInv, EchoBase
    <2> QED
      BY <1>3, <2>2, <2>3, <2>4, <2>5, <2>6, <2>7 DEF Device, Slow
  <1> QED
    BY <1>1, <1>2, <1>3 DEF Next

LEMMA LeastOf ==
    ASSUME NEW T \in SUBSET Nat, T # {}
    PROVE  \E k \in T : \A j \in T : k <= j
  <1> DEFINE R == OpToRel(<, Nat)
  <1>1. PICK k \in T : \A j \in T : ~(<<j, k>> \in R)
    BY NatLessThanWellFounded, WFMin
  <1>2. \A j \in T : ~(j < k)
    BY <1>1 DEF OpToRel
  <1> QED
    BY <1>2

\* What follows the first echo of a line of two tokens.
LEMMA AfterEchoIs ==
    ASSUME NEW got \in Seq(Printed), NEW a, NEW b, NEW line, line = <<a, b>>, AfterEcho(line, got) # <<>>
    PROVE  \E k \in 1 .. Len(got) :
             Echoed(line, got, k) /\ k < Len(got) /\ AfterEcho(line, got)[1] = got[k + 1] /\ got[k + 1] \in ToSet(AfterEcho(line, got))
  <1> DEFINE ends == EchoAt(line, got)  k == CHOOSE i \in ends : \A j \in ends : i <= j
  <1>0. Len(got) \in Nat /\ Len(line) = 2 /\ line[1] = a /\ line[2] = b
    OBVIOUS
  <1>1. ends # {} /\ AfterEcho(line, got) = SubSeq(got, 1 + k, Len(got))
    BY DEF AfterEcho
  <1>2. ends \in SUBSET (1 .. Len(got)) /\ ends \in SUBSET Nat
    BY <1>0 DEF EchoAt
  <1>3. k \in ends
    <2> HIDE DEF ends
    <2> QED
      BY <1>1, <1>2, LeastOf
  <1> HIDE DEF k
  <1>4. k \in 1 .. Len(got) /\ k >= 3 /\ SubSeq(got, k - 2, k) = Append(line, "nl")
    BY <1>0, <1>3 DEF EchoAt
  <1>5. Echoed(line, got, k)
    <2>1. \A i \in k - 2 .. k : got[i] \in Printed
      BY <1>0, <1>4
    <2>2. \A i \in 1 .. 3 : SubSeq(got, k - 2, k)[i] = got[(k - 2) + i - 1]
      <3>1. k - 2 \in Int /\ k \in Int /\ k - (k - 2) + 1 = 3
        BY <1>0, <1>4
      <3> QED
        BY <2>1, <3>1, SubSeqProperties
    <2>3. Append(line, "nl")[1] = a /\ Append(line, "nl")[2] = b /\ Append(line, "nl")[3] = "nl"
      OBVIOUS
    <2>4. (k - 2) + 1 - 1 = k - 2 /\ (k - 2) + 2 - 1 = k - 1 /\ (k - 2) + 3 - 1 = k
      BY <1>4
    <2>5. got[k - 2] = a /\ got[k - 1] = b /\ got[k] = "nl"
      BY <1>4, <2>2, <2>3, <2>4
    <2> QED
      BY <1>0, <1>4, <2>5 DEF Echoed
  <1>6. k < Len(got)
    <2> SUFFICES ASSUME ~(k < Len(got)) PROVE FALSE
      OBVIOUS
    <2>1. Len(got) < 1 + k /\ 1 + k \in Int /\ Len(got) \in Int
      BY <1>0, <1>4
    <2> QED
      BY <1>1, <2>1, SubSeqEmpty
  <1>7. AfterEcho(line, got)[1] = got[k + 1] /\ got[k + 1] \in ToSet(AfterEcho(line, got))
    <2> DEFINE s == SubSeq(got, 1 + k, Len(got))
    <2>1. \A i \in 1 + k .. Len(got) : got[i] \in Printed
      BY <1>0, <1>4
    <2>2. 1 + k \in Int /\ Len(got) \in Int /\ 1 + k <= Len(got)
      BY <1>0, <1>4, <1>6
    <2>3. /\ s \in Seq(Printed) /\ Len(s) = Len(got) - (1 + k) + 1
          /\ \A i \in 1 .. Len(got) - (1 + k) + 1 : s[i] = got[(1 + k) + i - 1]
      BY <2>1, <2>2, SubSeqProperties
    <2>5. AfterEcho(line, got) = s
      BY <1>1
    <2> HIDE DEF s
    <2>6. 1 \in 1 .. Len(got) - (1 + k) + 1 /\ (1 + k) + 1 - 1 = k + 1
      BY <1>0, <1>4, <2>2
    <2>4. 1 \in DOMAIN s /\ s[1] = got[k + 1]
      BY <2>3, <2>6
    <2> QED
      BY <2>4, <2>5 DEF ToSet
  <1> QED
    BY <1>4, <1>5, <1>6, <1>7

LEMMA OwnReplyStep ==
    ASSUME TypeInv, PlaceInv, EchoInv, [Next]_vars, pc = "echo", pc' # pc, outcome' # "none"
    PROVE  outcome' = Reply(id)
  <1>0. outcome = "none" /\ Head(todo) \in {"ls", "mkdir"}
    BY DEF PlaceInv
  <1> DEFINE step == Head(todo)  line == LineOf(step)
  <1>1. LongRead /\ Finished(step, Chunk) /\ ~Refused(step, Chunk) /\ outcome' = Returned(step, Chunk)
    BY <1>0
    DEF Next, Device, Slow, Host, Command, vars, host, Start, KeyInWindow, Stage1Key, Stage2Char, Stage2Line, AppReads, CommandDone,
        BootDone, NoKey, Drain, Send, PollReads, PollTimesOut, LongRead, LongTimesOut, Close, Keep
  <1>2. "s2> " \in ToSet(AfterEcho(line, Chunk)) /\ "[ERR]" \notin ToSet(AfterEcho(line, Chunk))
    BY <1>0, <1>1 DEF Finished, Refused
  <1>3. AfterEcho(line, Chunk) # <<>>
    BY <1>2, ToSetShort
  <1>4. Chunk \in Seq(Printed)
    BY CatSeq DEF TypeInv, Chunk
  <1>5. line \in {<<"l", "s">>, <<"m", "kdir">>}
    BY <1>0, LinesOf
  <1> HIDE DEF line
  <1>6. PICK k \in 1 .. Len(Chunk) :
          /\ Echoed(line, Chunk, k) /\ k < Len(Chunk) /\ AfterEcho(line, Chunk)[1] = Chunk[k + 1]
          /\ Chunk[k + 1] \in ToSet(AfterEcho(line, Chunk))
    BY <1>3, <1>4, <1>5, AfterEchoIs
  <1>7. Chunk[k + 1] \in {Reply(id), "[ERR]"}
    BY <1>6 DEF EchoInv, line
  <1>8. Returned(step, Chunk) = AfterEcho(line, Chunk)[1]
    BY <1>3 DEF Returned, line
  <1> QED
    BY <1>1, <1>2, <1>6, <1>7, <1>8

EchoedInv == TypeInv /\ PlaceInv /\ EchoInv

LEMMA EchoedInvariant == Spec => []EchoedInv
  <1>1. Init => EchoedInv
    BY TypeInit, PlaceInit DEF EchoedInv, EchoInv, Init
  <1>2. EchoedInv /\ [Next]_vars => EchoedInv'
    BY TypeStep, PlaceStep, EchoStep DEF EchoedInv
  <1> QED
    BY <1>1, <1>2, PTL DEF Spec

\* What s2_cmd returns is the reply to its own command, also with reads and drains that end
\* between any two answers of the device, and whatever an earlier command left on the line
\* (vux_tool.py:562-578): after the echo of the line comes its reply or an error.
THEOREM OwnReplyTheorem == Spec => OwnReply
  <1>1. EchoedInv /\ [Next]_vars =>
          [pc = "echo" /\ pc' # pc /\ outcome' # "none" /\ LineOf(Head(todo)) \notin gaveUp => outcome' = Reply(id)]_vars
    BY OwnReplyStep DEF EchoedInv
  <1> QED
    BY <1>1, EchoedInvariant, PTL DEF Spec, OwnReply

-----------------------------------------------------------------------------
(* Until an answer is late, the device's steps.                            *)

Base == TypeInv /\ PlaceInv /\ StageInv

LEMMA Enters ==
    /\ <<>> \in Seq({"cr"}) /\ <<"cr">> \in Seq({"cr"}) /\ Len(<<>>) = 0
    /\ \A q \in Seq({"cr"}) : q # <<>> => Head(q) = "cr" /\ Tail(q) \in Seq({"cr"})
    /\ \A q \in Seq({"cr"}) : q \o <<"cr">> \in Seq({"cr"}) /\ q \o <<"cr">> # <<>>
  <1>1. \A q \in Seq({"cr"}) : q # <<>> => Head(q) = "cr" /\ Tail(q) \in Seq({"cr"})
    <2> TAKE q \in Seq({"cr"})
    <2> HAVE q # <<>>
    <2>1. Head(q) \in {"cr"} /\ Tail(q) \in Seq({"cr"})
      BY Taken
    <2> QED
      BY <2>1
  <1>2. <<>> \in Seq({"cr"}) /\ <<"cr">> \in Seq({"cr"})
    OBVIOUS
  <1>3. \A q \in Seq({"cr"}) : q \o <<"cr">> \in Seq({"cr"}) /\ q \o <<"cr">> # <<>>
    OBVIOUS
  <1>4. Len(<<>>) = 0
    OBVIOUS
  <1> QED
    BY <1>1, <1>2, <1>3, <1>4

LEMMA NoReset ==
    ASSUME NEW q \in Seq({"cr"})
    PROVE  ~Resets(<<>>, q)
  <1>1. q # <<"r", "eset", "cr", "cr">>
    <2> SUFFICES ASSUME q = <<"r", "eset", "cr", "cr">> PROVE FALSE
      OBVIOUS
    <2>1. q # <<>> /\ Head(q) = "r"
      OBVIOUS
    <2> QED
      BY <2>1, Enters
  <1> QED
    BY <1>1, ShortSeqs DEF Resets

\* A token that is printed is one of what was there, or of what is new.
LEMMA SeenAfter ==
    ASSUME toHost \in Seq(Printed), NEW t \in Seq(Printed), Out(t)
    PROVE  ToSet(toHost') = ToSet(toHost) \cup ToSet(t)
  BY ToSetCat DEF Out

LEMMA SeenTwo ==
    ASSUME toHost \in Seq(Printed), NEW a \in Printed, NEW b \in Printed, Out(<<a, b>>)
    PROVE  ToSet(toHost') = ToSet(toHost) \cup {a, b}
  <1>1. <<a, b>> \in Seq(Printed) /\ ToSet(<<a, b>>) = {a, b}
    BY OneType, ToSetShort
  <1> QED
    BY <1>1, SeenAfter

\* What was printed since the read began grows by what is printed, and a read keeps it.
LEMMA ChunkGrows ==
    ASSUME TypeInv, NEW t \in Seq(Printed), Out(t), text' = text
    PROVE  Chunk' = Chunk \o t
  <1>1. text \in Seq(Printed) /\ toHost \in Seq(Printed)
    BY DEF TypeInv
  <1>2. (text \o toHost) \o t = text \o (toHost \o t)
    BY <1>1
  <1> QED
    BY <1>2 DEF Chunk, Out

LEMMA ChunkKept ==
    ASSUME TypeInv, text' = Chunk, toHost' = <<>>
    PROVE  Chunk' = Chunk
  <1>1. Chunk \in Seq(Printed)
    BY CatSeq DEF Chunk, TypeInv
  <1>2. Chunk \o <<>> = Chunk
    BY <1>1, ConcatEmptySeq
  <1> QED
    BY <1>2 DEF Chunk

LEMMA StageStart ==
    ASSUME Base, Start
    PROVE  StageInv'
  <1> USE DEF Base, StageInv
  <1>0. /\ dev = "start" /\ dev' = "window" /\ UNCHANGED <<pc, todo, text, polls, devLine, devCmd>>
        /\ toDev \in Seq(Typed) /\ toHost \in Seq(Printed)
    BY DEF Start, host, TypeInv
  <1>1. /\ pc \in {"idle", "done", "timeout", "S2Error", "drain", "poll1", "poll2"}
        /\ pc = "drain" => Head(todo) \notin {"key", "ls", "mkdir", "run"}
    BY <1>0 DEF PlaceInv, LooseInv, BootInv, MarkInv, LineInv, LineTyped, LineRuns, LineAnswered
  <1>2. OnlyEnters /\ Len(toDev) <= 1
    BY <1>0, <1>1 DEF LooseInv, TypedInv, Polling, Resetting
  <1>3. toDev' \in Seq({"cr"}) /\ Len(toDev') <= 1
    <2>1. PICK k \in 0 .. Len(toDev) : toDev' = SubSeq(toDev, k + 1, Len(toDev))
      BY DEF Start
    <2>2. \A i \in k + 1 .. Len(toDev) : toDev[i] \in {"cr"}
      BY <1>2 DEF OnlyEnters
    <2>3. k + 1 \in Int /\ Len(toDev) \in Int
      BY <1>0
    <2>4. toDev' \in Seq({"cr"}) /\ Len(toDev') = IF k + 1 <= Len(toDev) THEN Len(toDev) - (k + 1) + 1 ELSE 0
      BY <2>1, <2>2, <2>3, SubSeqProperties
    <2> QED
      BY <1>2, <2>3, <2>4
  <1>4. OnlyEnters'
    BY <1>0, <1>2, <1>3 DEF OnlyEnters
  <1>5. ToSet(toHost') = ToSet(toHost) \cup {"banner"}
    BY <1>0, SeenAfter, PrintedSeqs, ToSetShort DEF Start
  <1>6. LooseInv' /\ TypedInv' /\ BootInv' /\ MarkInv' /\ LineInv'
    BY <1>0, <1>1, <1>3, <1>4 DEF LooseInv, TypedInv, BootInv, MarkInv, LineInv, Polling
  <1>7. PromptInv' /\ AnsweredInv' /\ CountInv'
    BY <1>0, <1>3, <1>4, <1>5 DEF PromptInv, AnsweredInv, CountInv, Polling, Resetting
  <1> QED
    BY <1>6, <1>7

LEMMA StageKeyInWindow ==
    ASSUME Base, KeyInWindow
    PROVE  StageInv'
  <1> USE DEF Base, StageInv
  <1>0. /\ dev = "window" /\ dev' = "s1" /\ UNCHANGED <<pc, todo, text, polls, devLine, devCmd>>
        /\ toDev # <<>> /\ toDev' = Tail(toDev) /\ toHost \in Seq(Printed)
    BY DEF KeyInWindow, Take, host, TypeInv
  <1>1. /\ pc \in {"idle", "done", "timeout", "S2Error", "drain", "poll1", "poll2"}
        /\ pc = "drain" => Head(todo) \notin {"key", "ls", "mkdir", "run"}
    BY <1>0 DEF PlaceInv, LooseInv, BootInv, MarkInv, LineInv, LineTyped, LineRuns, LineAnswered
  <1>2. OnlyEnters
    BY <1>0, <1>1 DEF LooseInv, TypedInv, Polling, Resetting
  <1>3. OnlyEnters' /\ (Len(toDev) <= 1 => toDev' = <<>>)
    <2>1. toDev' \in Seq({"cr"})
      BY <1>0, <1>2, Enters DEF OnlyEnters
    <2>2. Len(toDev) <= 1 => toDev' = <<>>
      BY <1>0, <1>2 DEF OnlyEnters
    <2> QED
      BY <1>0, <1>2, <2>1, <2>2 DEF OnlyEnters
  <1>4. ToSet(toHost') = ToSet(toHost) \cup {"help", "s1> "}
    BY <1>0, SeenAfter, PrintedSeqs, ToSetShort DEF KeyInWindow
  <1>5. LooseInv' /\ TypedInv' /\ BootInv' /\ MarkInv' /\ LineInv'
    BY <1>0, <1>1, <1>3 DEF LooseInv, TypedInv, BootInv, MarkInv, LineInv, Polling
  <1>6. PromptInv' /\ AnsweredInv' /\ CountInv'
    BY <1>0, <1>3, <1>4 DEF PromptInv, AnsweredInv, CountInv, Polling, Resetting
  <1> QED
    BY <1>5, <1>6

LEMMA StageStage1Key ==
    ASSUME Base, Stage1Key
    PROVE  StageInv'
  <1> USE DEF Base, StageInv
  <1>0. /\ dev = "s1" /\ UNCHANGED <<pc, todo, text, polls, devLine, devCmd>> /\ devLine = <<>>
        /\ toDev # <<>> /\ toDev' = Tail(toDev) /\ toHost \in Seq(Printed)
    BY DEF Stage1Key, Take, host, TypeInv
  <1>1. pc \notin {"echo", "run"}
    BY <1>0 DEF PlaceInv, LineInv, LineTyped, LineRuns, LineAnswered
  <1>2. CASE pc = "boot2"
    <2>1. toDev = <<"b">> /\ toHost = <<>>
      BY <1>0, <1>2 DEF BootInv
    <2>2. Head(toDev) = "b" /\ toDev' = <<>>
      BY <1>0, <2>1, ShortSeqs
    <2>3. dev' = "boot" /\ Out(<<"[CMD:b]">>)
      BY <2>2 DEF Stage1Key
    <2>4. ToSet(toHost') = {"[CMD:b]"}
      BY <1>0, <2>1, <2>3, SeenAfter, PrintedSeqs, ToSetShort
    <2>5. BootInv'
      BY <1>0, <1>2, <2>2, <2>3, <2>4 DEF BootInv
    <2> QED
      BY <1>0, <1>2, <2>5 DEF LooseInv, TypedInv, PromptInv, AnsweredInv, CountInv, Polling, MarkInv, LineInv
  <1>3. CASE pc = "mark"
    <2>1. toDev = <<"i">> /\ toHost = <<>>
      BY <1>0, <1>3 DEF MarkInv
    <2>2. Head(toDev) = "i" /\ toDev' = <<>>
      BY <1>0, <2>1, ShortSeqs
    <2>3. dev' = dev /\ Out(<<"[CMD:i]", "info", "s1> ">>)
      BY <2>2 DEF Stage1Key
    <2>4. toHost' = <<"[CMD:i]", "info", "s1> ">>
      BY <2>1, <2>3, PrintedSeqs, ConcatEmptySeq DEF Out
    <2>5. MarkInv'
      BY <1>0, <1>3, <2>2, <2>3, <2>4 DEF MarkInv
    <2> QED
      BY <1>0, <1>3, <2>5 DEF LooseInv, TypedInv, PromptInv, AnsweredInv, CountInv, Polling, BootInv, LineInv
  <1>4. CASE pc \in {"idle", "done", "timeout", "S2Error", "drain", "poll1", "poll2"}
    <2>1. OnlyEnters
      BY <1>0, <1>4 DEF LooseInv, TypedInv, Polling, Resetting
    <2>2. Head(toDev) = "cr" /\ OnlyEnters'
      BY <1>0, <2>1, Enters DEF OnlyEnters
    <2>3. dev' = dev /\ Out(<<"nl", "s1> ">>)
      BY <2>2 DEF Stage1Key
    <2>4. ToSet(toHost') = ToSet(toHost) \cup {"nl", "s1> "}
      BY <1>0, <2>3, SeenAfter, PrintedSeqs, ToSetShort
    <2>5. LooseInv' /\ TypedInv' /\ BootInv' /\ MarkInv' /\ LineInv'
      BY <1>0, <1>1, <1>4, <2>2, <2>3 DEF LooseInv, TypedInv, BootInv, MarkInv, LineInv, Polling
    <2>6. PromptInv' /\ AnsweredInv' /\ CountInv'
      BY <1>0, <2>2, <2>3, <2>4 DEF PromptInv, AnsweredInv, CountInv, Polling, Resetting
    <2> QED
      BY <2>5, <2>6
  <1> QED
    BY <1>1, <1>2, <1>3, <1>4 DEF PlaceInv

LEMMA StageAppReads ==
    ASSUME Base, AppReads
    PROVE  StageInv'
  <1> USE DEF Base, StageInv
  <1>0. /\ dev = "app" /\ UNCHANGED <<pc, todo, text, polls, dev, devLine, devCmd, toHost>>
        /\ toDev # <<>> /\ toDev' = Tail(toDev)
    BY DEF AppReads, Take, host, device
  <1>1. /\ pc \in {"idle", "done", "timeout", "S2Error", "drain", "poll1", "poll2"}
        /\ pc = "drain" => Head(todo) \notin {"key", "ls", "mkdir", "run"}
    BY <1>0 DEF PlaceInv, LooseInv, BootInv, MarkInv, LineInv, LineTyped, LineRuns, LineAnswered
  <1>2. OnlyEnters
    BY <1>0, <1>1 DEF LooseInv, TypedInv, Polling, Resetting
  <1>3. OnlyEnters'
    BY <1>0, <1>2, Enters DEF OnlyEnters
  <1>4. LooseInv' /\ TypedInv' /\ BootInv' /\ MarkInv' /\ LineInv'
    BY <1>0, <1>1, <1>3 DEF LooseInv, TypedInv, BootInv, MarkInv, LineInv, Polling
  <1>5. PromptInv' /\ AnsweredInv' /\ CountInv'
    BY <1>0, <1>3 DEF PromptInv, AnsweredInv, CountInv, Polling, Resetting
  <1> QED
    BY <1>4, <1>5

LEMMA StageNoKey ==
    ASSUME Base, NoKey
    PROVE  StageInv'
  <1> USE DEF Base, StageInv
  <1>0. /\ dev = "window" /\ dev' = "boot" /\ UNCHANGED <<pc, todo, text, polls, devLine, devCmd, toDev, toHost>>
        /\ toDev = <<>> /\ (pc = "idle" \/ (toHost = <<>> /\ (pc = "drain" => Head(todo) = "key")))
    BY DEF NoKey, host
  <1>1. ToSet(<<>>) = {}
    BY ToSetShort
  <1>2. pc \in {"idle", "done", "timeout", "S2Error"}
    BY <1>0, <1>1 DEF PlaceInv, LooseInv, AnsweredInv, Polling, BootInv, MarkInv, LineInv, LineTyped, LineRuns, LineAnswered
  <1>3. OnlyEnters /\ OnlyEnters'
    BY <1>0, <1>2 DEF LooseInv, OnlyEnters
  <1> QED
    BY <1>0, <1>2, <1>3 DEF LooseInv, TypedInv, PromptInv, AnsweredInv, CountInv, Polling, BootInv, MarkInv, LineInv

LEMMA StageBootDone ==
    ASSUME Base, BootDone
    PROVE  StageInv'
  <1> USE DEF Base, StageInv
  <1>0. /\ dev = "boot" /\ UNCHANGED <<pc, todo, text, polls, devCmd, toDev>> /\ devLine' = <<>>
        /\ toHost \in Seq(Printed)
    BY DEF BootDone, host, TypeInv
  <1>1. /\ pc \in {"idle", "done", "timeout", "S2Error", "drain", "poll1", "poll2", "boot2"}
        /\ pc = "drain" => Head(todo) \notin {"key", "ls", "mkdir", "run"}
    BY <1>0 DEF PlaceInv, LooseInv, MarkInv, LineInv, LineTyped, LineRuns, LineAnswered
  <1>2. pc # "boot2" => OnlyEnters'
    BY <1>0, <1>1 DEF LooseInv, TypedInv, Polling, Resetting, OnlyEnters
  <1>3. \/ dev' = "s2" /\ ToSet(toHost') = ToSet(toHost) \cup {"stage2", "s2> "}
        \/ dev' = "s1" /\ ToSet(toHost') = ToSet(toHost) \cup {"no boot", "s1> "}
    <2>1. (dev' = "s2" /\ Out(<<"stage2", "s2> ">>)) \/ (dev' = "s1" /\ Out(<<"no boot", "s1> ">>))
      BY DEF BootDone
    <2>2. CASE dev' = "s2" /\ Out(<<"stage2", "s2> ">>)
      BY <1>0, <2>2, SeenTwo, NotChars
    <2>3. CASE dev' = "s1" /\ Out(<<"no boot", "s1> ">>)
      BY <1>0, <2>3, SeenTwo, NotChars
    <2> QED
      BY <2>1, <2>2, <2>3
  <1>4. LooseInv' /\ TypedInv' /\ MarkInv' /\ LineInv'
    BY <1>0, <1>1, <1>2, <1>3 DEF LooseInv, TypedInv, MarkInv, LineInv, Polling
  <1>a. ASSUME NEW x \in {"s1> ", "s2> ", "banner"}
        PROVE  x \in ToSet(toHost') <=> \/ x \in ToSet(toHost) \/ (dev' = "s2" /\ x = "s2> ") \/ (dev' = "s1" /\ x = "s1> ")
    BY <1>3
  <1>b. (dev' = "s2" \/ dev' = "s1") /\ dev' # "start" /\ text' = text
    BY <1>0, <1>3
  <1>5. BootInv'
    BY <1>0, <1>a, <1>b DEF BootInv
  <1>c. PromptInv'
    BY <1>0, <1>2, <1>a, <1>b DEF PromptInv, Polling
  <1>d. AnsweredInv'
    BY <1>0, <1>a, <1>b DEF AnsweredInv, Polling
  <1>e. CountInv'
    <2>1. Polling' => ~Resetting'
      BY <1>0, <1>2, NoReset DEF Polling, OnlyEnters, Resetting
    <2> QED
      BY <1>0, <1>a, <1>b, <2>1 DEF PromptInv, CountInv, Polling
  <1>6. PromptInv' /\ AnsweredInv' /\ CountInv'
    BY <1>c, <1>d, <1>e
  <1> QED
    BY <1>4, <1>5, <1>6

LEMMA LineSplit ==
    ASSUME PlaceInv, pc \in {"echo", "run"}
    PROVE  \E a, b \in Chars :
             /\ LineOf(Head(todo)) = <<a, b>> /\ LineOf(Head(todo))[1] = a /\ LineOf(Head(todo))[2] = b /\ <<a, b>> \in Lines
             /\ pc = "echo" => <<a, b>> # <<"r", "un">>
  <1>1. CASE Head(todo) = "ls"
    <2>1. <<"l", "s">> # <<"r", "un">> /\ <<"l", "s">>[1] = "l" /\ <<"l", "s">>[2] = "s"
      OBVIOUS
    <2> QED
      BY <1>1, <2>1, LinesOf, Kinds DEF Lines
  <1>2. CASE Head(todo) = "mkdir"
    <2>1. <<"m", "kdir">> # <<"r", "un">> /\ <<"m", "kdir">>[1] = "m" /\ <<"m", "kdir">>[2] = "kdir"
      OBVIOUS
    <2> QED
      BY <1>2, <2>1, LinesOf, Kinds DEF Lines
  <1>3. CASE Head(todo) = "run"
    <2>1. <<"r", "un">>[1] = "r" /\ <<"r", "un">>[2] = "un" /\ pc # "echo"
      BY <1>3 DEF PlaceInv
    <2> QED
      BY <1>3, <2>1, LinesOf, Kinds DEF Lines
  <1> QED
    BY <1>1, <1>2, <1>3 DEF PlaceInv

LEMMA AnswerCat ==
    ASSUME NEW a \in Printed, NEW b \in Printed, NEW x \in Printed
    PROVE  /\ <<a, b, "nl">> \o <<x, "s2> ">> = <<a, b, "nl", x, "s2> ">>
           /\ <<a, b>> \o <<"nl">> = <<a, b, "nl">>
  <1>0. PICK n, p : n = "nl" /\ p = "s2> "
    OBVIOUS
  <1>1. n \in Printed /\ p \in Printed
    BY <1>0, NotChars
  <1>2. \A s, t, u \in Seq(Printed) :
          /\ Len(s) = 2 /\ Len(t) = 1 /\ Len(u) = 3 /\ u[1] = s[1] /\ u[2] = s[2] /\ u[3] = t[1] => s \o t = u
          /\ Len(s) = 3 /\ Len(t) = 2 /\ Len(u) = 5 /\ u[1] = s[1] /\ u[2] = s[2] /\ u[3] = s[3]
                /\ u[4] = t[1] /\ u[5] = t[2] => s \o t = u
    <2> TAKE s, t, u \in Seq(Printed)
    <2> QED
      BY CatLength
  <1>3. /\ <<a, b>> \in Seq(Printed) /\ <<n>> \in Seq(Printed) /\ <<x, p>> \in Seq(Printed)
        /\ <<a, b, n>> \in Seq(Printed) /\ <<a, b, n, x, p>> \in Seq(Printed)
    BY <1>1
  <1>4. <<a, b, n>> \o <<x, p>> = <<a, b, n, x, p>>
    BY <1>2, <1>3
  <1>5. <<a, b>> \o <<n>> = <<a, b, n>>
    BY <1>2, <1>3
  <1> QED
    BY <1>0, <1>4, <1>5

LEMMA StageCommandDone ==
    ASSUME Base, CommandDone
    PROVE  StageInv'
  <1> USE DEF Base, StageInv
  <1>0. /\ dev = "busy" /\ UNCHANGED <<pc, todo, text, polls, devLine, devCmd, toDev>> /\ devLine = <<>>
        /\ toHost \in Seq(Printed)
    BY DEF CommandDone, host, TypeInv
  <1>1. /\ pc \in {"idle", "done", "timeout", "S2Error", "drain", "poll1", "poll2", "echo", "run"}
        /\ pc = "drain" => Head(todo) \notin {"key", "ls", "mkdir", "run"}
    BY <1>0 DEF PlaceInv, LooseInv, MarkInv, BootInv
  <1>a. Reply(devCmd.id) \in Printed /\ Reply(devCmd.id) \notin Tokens
    BY Replied DEF TypeInv
  <1>b. "s2> " \in Printed /\ "[ERR]" \in Printed /\ "nl" \in Printed
    BY DEF Printed, Tokens
  <1>2. \/ \E x \in {Reply(devCmd.id), "[ERR]"} : dev' = "s2" /\ Out(<<x, "s2> ">>)
        \/ dev' = "app" /\ Out(<<"[RUN]", "nl">>) /\ devCmd.line = <<"r", "un">>
    BY DEF CommandDone
  <1>3. CASE pc \notin {"echo", "run"}
    <2>1. OnlyEnters /\ OnlyEnters'
      BY <1>0, <1>1, <1>3 DEF LooseInv, TypedInv, Polling, Resetting, OnlyEnters
    <2>2. \/ dev' = "s2" /\ \E x : ToSet(toHost') = ToSet(toHost) \cup {x, "s2> "} /\ x \notin {"s1> ", "banner"}
          \/ dev' = "app" /\ ToSet(toHost') = ToSet(toHost) \cup {"[RUN]", "nl"}
      <3>1. CASE dev' = "app" /\ Out(<<"[RUN]", "nl">>)
        BY <1>0, <3>1, SeenAfter, PrintedSeqs, ToSetShort
      <3>2. ASSUME NEW x \in {Reply(devCmd.id), "[ERR]"}, dev' = "s2", Out(<<x, "s2> ">>)
            PROVE  ToSet(toHost') = ToSet(toHost) \cup {x, "s2> "} /\ x \notin {"s1> ", "banner"}
        <4>1. x \in Printed /\ x \notin {"s1> ", "banner"}
          BY <1>a, <1>b DEF Tokens
        <4>2. <<x, "s2> ">> \in Seq(Printed)
          BY <1>b, <4>1, OneType
        <4> QED
          BY <1>0, <3>2, <4>1, <4>2, SeenAfter, ToSetShort
      <3> QED
        BY <1>2, <3>1, <3>2
    <2>3. LooseInv' /\ TypedInv' /\ BootInv' /\ MarkInv' /\ LineInv'
      BY <1>0, <1>1, <1>3, <2>1, <2>2 DEF LooseInv, TypedInv, BootInv, MarkInv, LineInv, Polling
    <2>a. ASSUME NEW x \in {"s1> ", "s2> ", "banner"}
          PROVE  x \in ToSet(toHost') <=> x \in ToSet(toHost) \/ (dev' = "s2" /\ x = "s2> ")
      BY <2>2
    <2>b. (dev' = "s2" \/ dev' = "app") /\ text' = text
      BY <1>0, <2>2
    <2>4. PromptInv'
      BY <1>0, <2>1, <2>a, <2>b DEF PromptInv, Polling
    <2>5. AnsweredInv'
      BY <1>0, <2>a, <2>b DEF AnsweredInv, Polling
    <2>6. CountInv'
      <3>1. ~Resetting'
        BY <2>1, NoReset DEF OnlyEnters, Resetting
      <3> QED
        BY <1>0, <2>a, <2>b, <3>1 DEF PromptInv, CountInv, Polling
    <2> QED
      BY <2>3, <2>4, <2>5, <2>6
  <1>4. CASE pc \in {"echo", "run"}
    <2>1. PICK a, b \in Chars :
             /\ LineOf(Head(todo)) = <<a, b>> /\ LineOf(Head(todo))[1] = a /\ LineOf(Head(todo))[2] = b
             /\ pc = "echo" => <<a, b>> # <<"r", "un">>
      BY <1>4, LineSplit
    <2>2. LineRuns(a, b)
      BY <1>0, <1>4, <2>1 DEF LineInv, LineTyped, LineAnswered
    <2>3. CASE dev' = "app" /\ Out(<<"[RUN]", "nl">>) /\ devCmd.line = <<"r", "un">>
      BY <1>0, <1>4, <2>1, <2>2, <2>3 DEF LineRuns, LineInv, LooseInv, TypedInv, PromptInv, AnsweredInv, CountInv, Polling, BootInv, MarkInv
    <2>4. ASSUME NEW x \in {Reply(devCmd.id), "[ERR]"}, dev' = "s2", Out(<<x, "s2> ">>)
          PROVE  StageInv'
      <3>1. x \in Printed /\ a \in Printed /\ b \in Printed
        BY <1>a, <1>b, Kinds
      <3>2. <<a, b, "nl">> \o <<x, "s2> ">> = <<a, b, "nl", x, "s2> ">>
        BY <3>1, AnswerCat
      <3>3. Chunk' = <<a, b, "nl", x, "s2> ">> /\ toHost' # <<>>
        <4>1. <<x, "s2> ">> \in Seq(Printed) /\ <<x, "s2> ">> # <<>>
          BY <1>b, <3>1, OneType, ShortSeqs
        <4>2. Chunk' = Chunk \o <<x, "s2> ">>
          BY <1>0, <2>4, <4>1, ChunkGrows
        <4>3. toHost' # <<>>
          <5>0. ToSet(<<>>) = {}
            BY ToSetShort
          <5>a. PICK p : p = "s2> "
            OBVIOUS
          <5>b. ToSet(toHost') = ToSet(toHost) \cup {x, p}
            BY <1>0, <1>b, <2>4, <3>1, <5>a, SeenTwo
          <5>1. p \in ToSet(toHost') /\ ToSet(<<>>) = {}
            BY <5>0, <5>b
          <5> QED
            BY <5>1
        <4> QED
          BY <2>2, <3>2, <4>2, <4>3 DEF LineRuns
      <3>4. LineAnswered(a, b)'
        BY <1>0, <2>2, <2>4, <3>3 DEF LineRuns, LineAnswered
      <3>5. LineInv'
        BY <1>0, <2>1, <3>4 DEF LineInv
      <3> QED
        BY <1>0, <1>4, <3>5 DEF LooseInv, TypedInv, PromptInv, AnsweredInv, CountInv, Polling, BootInv, MarkInv
    <2> QED
      BY <1>2, <2>3, <2>4
  <1> QED
    BY <1>3, <1>4

LEMMA ResetTyped ==
    ASSUME NEW line, NEW typed, Resets(line, typed)
    PROVE  /\ typed # <<>> /\ Head(typed) \in {"r", "eset", "cr"}
           /\ Head(typed) # "cr" => Resets(Append(line, Head(typed)), Tail(typed)) /\ Append(line, Head(typed)) # <<>>
           /\ Head(typed) = "cr" => line = <<"r", "eset">> /\ Tail(typed) = <<"cr">>
  <1>1. CASE line = <<>> /\ typed = <<"r", "eset", "cr", "cr">>
    <2>1. typed # <<>> /\ Head(typed) = "r" /\ Tail(typed) = <<"eset", "cr", "cr">>
      BY <1>1
    <2>2. Append(line, "r") = <<"r">>
      BY <1>1
    <2> QED
      BY <2>1, <2>2, ShortSeqs DEF Resets
  <1>2. CASE line = <<"r">> /\ typed = <<"eset", "cr", "cr">>
    <2>1. typed # <<>> /\ Head(typed) = "eset" /\ Tail(typed) = <<"cr", "cr">>
      BY <1>2
    <2>2. Append(line, "eset") = <<"r", "eset">>
      <3>1. PICK r, e : r = "r" /\ e = "eset"
        OBVIOUS
      <3>2. r \in Printed /\ e \in Printed
        BY <3>1, Kinds DEF Typed
      <3>3. Append(<<r>>, e) = <<r, e>>
        BY <3>2, ShortCat
      <3> QED
        BY <1>2, <3>1, <3>3
    <2> QED
      BY <2>1, <2>2, ShortSeqs DEF Resets
  <1>3. CASE line = <<"r", "eset">> /\ typed = <<"cr", "cr">>
    <2>1. typed # <<>> /\ Head(typed) = "cr" /\ Tail(typed) = <<"cr">>
      BY <1>3
    <2> QED
      BY <1>3, <2>1
  <1> QED
    BY <1>1, <1>2, <1>3 DEF Resets

LEMMA LineGoesOn ==
    ASSUME TypeInv, NEW a \in Chars, NEW b \in Chars, LineTyped(a, b)
    PROVE  /\ toDev # <<>>
           /\ Head(toDev) # "cr" /\ toDev' = Tail(toDev) /\ devLine' = Append(devLine, Head(toDev)) /\ Out(<<Head(toDev)>>)
              /\ dev' = dev /\ text' = text => LineTyped(a, b)'
           /\ Head(toDev) = "cr" => devLine = <<a, b>> /\ Tail(toDev) = <<>>
  <1>0. a \in Printed /\ b \in Printed /\ a # "cr" /\ b # "cr"
    BY Kinds
  <1>a. ASSUME NEW c \in Printed, Out(<<c>>), text' = text PROVE Chunk' = devLine \o <<c>>
    <2>1. <<c>> \in Seq(Printed)
      BY OneType
    <2>2. Chunk' = Chunk \o <<c>>
      BY <1>a, <2>1, ChunkGrows
    <2> QED
      BY <2>2 DEF LineTyped
  <1>1. CASE devLine = <<>> /\ toDev = <<a, b, "cr">>
    <2>1. toDev # <<>> /\ Head(toDev) = a /\ Tail(toDev) = <<b, "cr">>
      BY <1>1
    <2>2. Append(<<>>, a) = <<a>> /\ <<>> \o <<a>> = <<a>>
      OBVIOUS
    <2> QED
      BY <1>0, <1>1, <1>a, <2>1, <2>2 DEF LineTyped
  <1>2. CASE devLine = <<a>> /\ toDev = <<b, "cr">>
    <2>1. toDev # <<>> /\ Head(toDev) = b /\ Tail(toDev) = <<"cr">>
      BY <1>2
    <2>2. Append(<<a>>, b) = <<a, b>> /\ <<a>> \o <<b>> = <<a, b>>
      BY <1>0, ShortCat
    <2> QED
      BY <1>0, <1>2, <1>a, <2>1, <2>2 DEF LineTyped
  <1>3. CASE devLine = <<a, b>> /\ toDev = <<"cr">>
    BY <1>3, ShortSeqs
  <1> QED
    BY <1>1, <1>2, <1>3 DEF LineTyped

LEMMA StageStage2Char ==
    ASSUME Base, Stage2Char
    PROVE  StageInv'
  <1> USE DEF Base, StageInv
  <1>0. /\ dev = "s2" /\ UNCHANGED <<pc, todo, text, polls, dev, devCmd>> /\ devLine' = Append(devLine, Head(toDev))
        /\ toDev # <<>> /\ toDev' = Tail(toDev) /\ Head(toDev) # "cr" /\ Out(<<Head(toDev)>>) /\ toHost \in Seq(Printed)
    BY DEF Stage2Char, Take, host, TypeInv
  <1>1. ~OnlyEnters
    BY <1>0, Enters DEF OnlyEnters
  <1>2. pc \in {"poll1", "poll2", "echo", "run"}
    BY <1>0, <1>1 DEF PlaceInv, LooseInv, BootInv, MarkInv
  <1>3. CASE Polling
    <2>1. Resets(devLine, toDev)
      BY <1>0, <1>1, <1>3 DEF TypedInv, Resetting
    <2>2. Resets(devLine', toDev') /\ devLine' # <<>> /\ Head(toDev) \in {"r", "eset"} /\ toDev' # <<>>
      <3>1. Resets(devLine', toDev') /\ devLine' # <<>> /\ Head(toDev) \in {"r", "eset"}
        BY <1>0, <2>1, ResetTyped
      <3>2. toDev' # <<>>
        BY <3>1, ResetTyped
      <3> QED
        BY <3>1, <3>2
    <2>3. ToSet(toHost') = ToSet(toHost) \cup {Head(toDev)}
      <3>1. Head(toDev) \in Printed
        BY <2>2, Kinds DEF Typed
      <3>2. <<Head(toDev)>> \in Seq(Printed)
        BY <3>1, OneType
      <3> QED
        BY <1>0, <3>2, SeenAfter, ToSetShort
    <2>4. ASSUME NEW x \in {"s1> ", "s2> ", "banner"} PROVE x \in ToSet(toHost') <=> x \in ToSet(toHost)
      BY <2>2, <2>3
    <2>5. ~OnlyEnters' /\ Resetting' /\ Resetting
      BY <1>0, <2>1, <2>2 DEF OnlyEnters, Resetting
    <2>6. TypedInv' /\ PromptInv' /\ AnsweredInv' /\ CountInv'
      BY <1>0, <1>1, <1>3, <2>2, <2>4, <2>5 DEF TypedInv, PromptInv, AnsweredInv, CountInv, Polling
    <2> QED
      BY <1>0, <1>3, <2>6 DEF LooseInv, BootInv, MarkInv, LineInv, Polling
  <1>4. CASE pc \in {"echo", "run"}
    <2>1. PICK a, b \in Chars :
             /\ LineOf(Head(todo)) = <<a, b>> /\ LineOf(Head(todo))[1] = a /\ LineOf(Head(todo))[2] = b
      BY <1>4, LineSplit
    <2>2. LineTyped(a, b)
      BY <1>0, <1>4, <2>1 DEF LineInv, LineRuns, LineAnswered
    <2>3. LineTyped(a, b)'
      BY <1>0, <2>2, LineGoesOn
    <2>4. LineInv'
      BY <1>0, <2>1, <2>3 DEF LineInv
    <2> QED
      BY <1>0, <1>4, <2>4 DEF LooseInv, TypedInv, PromptInv, AnsweredInv, CountInv, Polling, BootInv, MarkInv
  <1> QED
    BY <1>2, <1>3, <1>4 DEF Polling

LEMMA StageStage2Line ==
    ASSUME Base, Stage2Line
    PROVE  StageInv'
  <1> USE DEF Base, StageInv
  <1>0. /\ dev = "s2" /\ UNCHANGED <<pc, todo, text, polls>> /\ devLine' = <<>>
        /\ toDev # <<>> /\ toDev' = Tail(toDev) /\ Head(toDev) = "cr" /\ toHost \in Seq(Printed)
    BY DEF Stage2Line, Take, host, TypeInv
  <1>1. pc \notin {"boot2", "mark"} /\ (pc = "drain" => Head(todo) \notin {"key", "ls", "mkdir", "run"})
    BY <1>0 DEF PlaceInv, LooseInv, BootInv, MarkInv
  <1>2. CASE OnlyEnters /\ pc \notin {"echo", "run"}
    <2>1. OnlyEnters'
      BY <1>0, <1>2, Enters DEF OnlyEnters
    <2>2. dev' = "s2" /\ Out(<<"nl", "s2> ">>)
      BY <1>0, <1>2, ShortSeqs DEF Stage2Line, OnlyEnters
    <2>3. ToSet(toHost') = ToSet(toHost) \cup {"nl", "s2> "}
      BY <1>0, <2>2, SeenTwo, NotChars
    <2>4. ASSUME NEW x \in {"s1> ", "s2> ", "banner"} PROVE x \in ToSet(toHost') <=> x \in ToSet(toHost) \/ x = "s2> "
      BY <2>3
    <2>5. ~Resetting'
      BY <2>1, NoReset DEF OnlyEnters, Resetting
    <2>6. PromptInv' /\ AnsweredInv' /\ CountInv'
      BY <1>0, <1>2, <2>1, <2>2, <2>4, <2>5 DEF PromptInv, AnsweredInv, CountInv, Polling
    <2> QED
      BY <1>0, <1>1, <1>2, <2>1, <2>2, <2>6 DEF LooseInv, TypedInv, BootInv, MarkInv, LineInv
  <1>3. CASE Polling /\ ~OnlyEnters
    <2>1. Resetting /\ devLine = <<"r", "eset">> /\ toDev' = <<"cr">>
      BY <1>0, <1>3, ResetTyped DEF TypedInv, Resetting
    <2>2. dev' = "start" /\ Out(<<"nl">>)
      <3>1. <<"r", "eset">> # <<>> /\ <<"r", "eset">> # <<"l", "s">> /\ <<"r", "eset">> # <<"m", "kdir">> /\ <<"r", "eset">> # <<"r", "un">>
        OBVIOUS
      <3> QED
        BY <2>1, <3>1 DEF Stage2Line
    <2>3. OnlyEnters' /\ Len(toDev') <= 1 /\ toDev' # <<>>
      <3>1. Len(toDev') = 1 /\ toDev' # <<>>
        BY <2>1
      <3>2. OnlyEnters'
        BY <1>0, <2>1, Enters DEF OnlyEnters
      <3> QED
        BY <3>1, <3>2
    <2>4. ToSet(toHost') = ToSet(toHost) \cup {"nl"}
      BY <1>0, <2>2, SeenAfter, PrintedSeqs, ToSetShort
    <2>5. ASSUME NEW x \in {"s1> ", "s2> ", "banner"} PROVE x \in ToSet(toHost') <=> x \in ToSet(toHost)
      BY <2>4
    <2>6. TypedInv' /\ PromptInv' /\ AnsweredInv' /\ CountInv'
      BY <1>0, <1>3, <2>1, <2>2, <2>3, <2>5 DEF TypedInv, PromptInv, AnsweredInv, CountInv, Polling, Resetting
    <2> QED
      BY <1>0, <1>3, <2>6 DEF LooseInv, BootInv, MarkInv, LineInv, Polling
  <1>4. CASE pc \in {"echo", "run"}
    <2>1. PICK a, b \in Chars :
             /\ LineOf(Head(todo)) = <<a, b>> /\ LineOf(Head(todo))[1] = a /\ LineOf(Head(todo))[2] = b /\ <<a, b>> \in Lines
      BY <1>4, LineSplit
    <2>2. LineTyped(a, b)
      BY <1>0, <1>4, <2>1 DEF LineInv, LineRuns, LineAnswered
    <2>3. devLine = <<a, b>> /\ toDev' = <<>> /\ Chunk = <<a, b>>
      BY <1>0, <2>2, LineGoesOn DEF LineTyped
    <2>4. dev' = "busy" /\ Out(<<"nl">>) /\ devCmd' = Executed
      <3>1. /\ <<"l", "s">> # <<>> /\ <<"m", "kdir">> # <<>> /\ <<"r", "un">> # <<>>
            /\ <<"r", "eset">> # <<"l", "s">> /\ <<"r", "eset">> # <<"m", "kdir">> /\ <<"r", "eset">> # <<"r", "un">>
        OBVIOUS
      <3> QED
        BY <2>1, <2>3, <3>1 DEF Stage2Line, Lines
    <2>5. devCmd'.line = <<a, b>>
      BY <2>3, <2>4 DEF Executed
    <2>6. Chunk' = <<a, b, "nl">>
      <3>1. <<a, b>> \o <<"nl">> = <<a, b, "nl">>
        BY AnswerCat, Kinds
      <3>2. <<"nl">> \in Seq(Printed)
        BY PrintedSeqs
      <3>3. Chunk' = Chunk \o <<"nl">>
        BY <1>0, <2>4, <3>2, ChunkGrows
      <3> QED
        BY <2>3, <3>1, <3>3
    <2>7. LineRuns(a, b)'
      BY <1>0, <2>3, <2>4, <2>5, <2>6 DEF LineRuns
    <2>8. LineInv'
      BY <1>0, <2>1, <2>7 DEF LineInv
    <2> QED
      BY <1>0, <1>4, <2>8 DEF LooseInv, TypedInv, PromptInv, AnsweredInv, CountInv, Polling, BootInv, MarkInv
  <1> QED
    BY <1>1, <1>2, <1>3, <1>4 DEF PlaceInv, LooseInv, Polling

-----------------------------------------------------------------------------
(* Until an answer is late, the host's steps.                              *)

\* A command that finds nothing typed starts afresh.
LEMMA StageCommand ==
    ASSUME StageInv \/ (toDev = <<>> /\ devLine = <<>>), Command
    PROVE  StageInv'
  <1> USE DEF StageInv
  <1>0. pc = "idle" /\ pc' = "drain" /\ UNCHANGED <<dev, devLine, toDev, toHost>>
    BY DEF Command, device
  <1>1. Head(todo') \in {"enter_s1", "enter_s2"}
    <2>1. PICK c \in Commands : todo' = StepsOf(c)
      BY DEF Command
    <2>2. c \in {"sd-info", "ls", "mkdir", "run-app", "reboot"}
      BY ConsoleAssumption
    <2>3. \/ todo' = <<"enter_s1", "key">> \/ todo' = <<"enter_s2", "ls">> \/ todo' = <<"enter_s2", "mkdir">>
          \/ todo' = <<"enter_s2", "run">> \/ todo' = <<"enter_s1", "enter_s2">>
      BY <2>1, <2>2 DEF StepsOf
    <2> QED
      BY <2>3, ShortSeqs
  <1>2. OnlyEnters' /\ (dev' = "start" => Len(toDev') <= 1)
    <2>1. CASE StageInv
      BY <1>0, <2>1 DEF LooseInv, OnlyEnters
    <2>2. CASE toDev = <<>> /\ devLine = <<>>
      <3>1. toDev' = <<>> /\ devLine' = <<>> /\ <<>> \in Seq({"cr"}) /\ Len(<<>>) = 0
        BY <1>0, <2>2, Enters
      <3> QED
        BY <3>1 DEF OnlyEnters
    <2> QED
      BY <2>1, <2>2
  <1> QED
    BY <1>0, <1>1, <1>2 DEF LooseInv, TypedInv, PromptInv, AnsweredInv, CountInv, Polling, BootInv, MarkInv, LineInv

LEMMA StageDrain ==
    ASSUME Base, Drain
    PROVE  StageInv'
  <1> USE DEF Base, StageInv
  <1>0. pc = "drain" /\ toHost' = <<>> /\ UNCHANGED <<pc, todo, dev, devLine, toDev>>
    BY DEF Drain, Keep, device
  <1> QED
    BY <1>0 DEF LooseInv, OnlyEnters, TypedInv, PromptInv, AnsweredInv, CountInv, Polling, BootInv, MarkInv, LineInv

LEMMA StageClose ==
    ASSUME Base, Close
    PROVE  StageInv'
  <1> USE DEF Base, StageInv
  <1>0. pc \in {"done", "timeout", "S2Error"} /\ pc' = "idle" /\ UNCHANGED <<dev, devLine, toDev>>
    BY DEF Close, device, Read
  <1> QED
    BY <1>0 DEF LooseInv, OnlyEnters, TypedInv, PromptInv, AnsweredInv, CountInv, Polling, BootInv, MarkInv, LineInv

LEMMA LineWritten ==
    ASSUME NEW a \in Chars, NEW b \in Chars
    PROVE  <<>> \o (<<a, b>> \o <<"cr">>) = <<a, b, "cr">>
  <1>1. PICK c : c = "cr"
    OBVIOUS
  <1>2. a \in Printed /\ b \in Printed /\ c \in Printed
    BY <1>1, Kinds DEF Typed
  <1>3. <<a, b>> \o <<c>> = <<a, b, c>>
    BY <1>2, ShortCat
  <1>4. <<a, b, c>> \in Seq(Printed)
    BY <1>2
  <1>5. <<>> \o <<a, b, c>> = <<a, b, c>>
    BY <1>4, ConcatEmptySeq
  <1> QED
    BY <1>1, <1>3, <1>5

LEMMA StageSend ==
    ASSUME Base, Settled, Send
    PROVE  StageInv'
  <1> USE DEF Base, StageInv
  <1>0. /\ pc = "drain" /\ toHost = <<>> /\ Settled /\ UNCHANGED <<dev, devLine, devCmd, toHost, todo>> /\ OnlyEnters
        /\ ToSet(<<>>) = {}
    BY ToSetShort DEF Send, Keep, device, LooseInv
  <1>1. ASSUME pc' \in {"poll1", "poll2"}, toDev' = toDev \o <<"cr">>, text' = <<>>, polls' = 1
        PROVE  StageInv'
    <2>1. OnlyEnters' /\ toDev' # <<>> /\ dev # "start"
      BY <1>0, <1>1, Enters DEF OnlyEnters, Settled
    <2>3. ToSet(toHost') = {} /\ ToSet(text') = {}
      BY <1>0, <1>1
    <2>4. CountInv'
      BY <1>1 DEF CountInv
    <2>2. TypedInv' /\ PromptInv' /\ AnsweredInv' /\ CountInv'
      BY <1>0, <1>1, <2>1, <2>3, <2>4 DEF TypedInv, PromptInv, AnsweredInv
    <2> QED
      BY <1>1, <2>2 DEF LooseInv, BootInv, MarkInv, LineInv
  <1>2. CASE Head(todo) \in {"enter_s1", "enter_s2"}
    BY <1>1, <1>2 DEF Send, Write, Read
  <1>3. CASE Head(todo) = "key"
    <2>1. pc' = "mark" /\ text' = <<>> /\ toDev' = toDev \o <<"i">>
      BY <1>3 DEF Send, Write, Read
    <2>2. dev = "s1" /\ toDev = <<>>
      BY <1>0, <1>3 DEF LooseInv
    <2>3. toDev' = <<"i">>
      BY <2>1, <2>2, TypedSeqs, ConcatEmptySeq
    <2>4. MarkInv'
      BY <1>0, <2>1, <2>2, <2>3 DEF MarkInv, OnlyEnters
    <2> QED
      BY <2>1, <2>4 DEF LooseInv, TypedInv, PromptInv, AnsweredInv, CountInv, Polling, BootInv, LineInv
  <1>4. CASE Head(todo) \in {"ls", "mkdir", "run"}
    <2>1. pc' \in {"echo", "run"} /\ text' = <<>> /\ toDev' = toDev \o (LineOf(Head(todo)) \o <<"cr">>)
      BY <1>4 DEF Send, Write, Read
    <2>2. dev = "s2" /\ toDev = <<>>
      BY <1>0, <1>4 DEF LooseInv
    <2>3. PICK a, b \in Chars : LineOf(Head(todo)) = <<a, b>> /\ LineOf(Head(todo))[1] = a /\ LineOf(Head(todo))[2] = b
      <3>1. <<"l", "s">>[1] = "l" /\ <<"l", "s">>[2] = "s" /\ <<"m", "kdir">>[1] = "m" /\ <<"m", "kdir">>[2] = "kdir"
            /\ <<"r", "un">>[1] = "r" /\ <<"r", "un">>[2] = "un"
        OBVIOUS
      <3> QED
        BY <1>4, <3>1, LinesOf, Kinds
    <2>4. toDev' = <<a, b, "cr">>
      BY <2>1, <2>2, <2>3, LineWritten
    <2>5. LineTyped(a, b)'
      <3>1. Chunk' = <<>>
        BY <1>0, <2>1, PrintedSeqs, ConcatEmptySeq DEF Chunk
      <3> QED
        BY <1>0, <2>1, <2>2, <2>4, <3>1 DEF LineTyped, OnlyEnters
    <2>6. LineInv'
      BY <1>0, <2>3, <2>5 DEF LineInv
    <2> QED
      BY <2>1, <2>6 DEF LooseInv, TypedInv, PromptInv, AnsweredInv, CountInv, Polling, BootInv, MarkInv
  <1> QED
    BY <1>0, <1>2, <1>3, <1>4, TodoSteps DEF PlaceInv

\* The device of a host that gives up a poll is at no prompt.
LEMMA StagePollTimesOut ==
    ASSUME Base, PollTimesOut
    PROVE  StageInv' /\ AtNoPrompt
  <1> USE DEF Base, StageInv
  <1>0. Polling /\ toHost = <<>> /\ Settled /\ UNCHANGED <<dev, devLine, devCmd, toHost>> /\ ToSet(<<>>) = {} /\ Poll(<<>>)
    BY ToSetShort DEF PollTimesOut, Quiet, Keep, device, Polling
  <1>1. AtNoPrompt
    BY <1>0 DEF AnsweredInv, Settled, AtNoPrompt, TypeInv
  <1>2. OnlyEnters
    BY <1>0, <1>1 DEF TypedInv, Resetting, AtNoPrompt
  <1>3. \/ pc' = pc /\ polls' = polls /\ text' = <<>> /\ toDev' = toDev \o Append(<<>>, "cr")
        \/ pc' = "timeout" /\ toDev' = toDev \o <<>>
    BY <1>0, <1>1 DEF Poll, Write, Read, Raise
  <1>4. Append(<<>>, "cr") = <<"cr">> /\ toDev \o <<>> = toDev
    BY <1>2, ConcatEmptySeq DEF OnlyEnters
  <1>5. CASE pc' = pc /\ polls' = polls /\ text' = <<>> /\ toDev' = toDev \o <<"cr">>
    <2>1. OnlyEnters' /\ toDev' # <<>>
      BY <1>0, <1>2, <1>5, Enters DEF OnlyEnters
    <2>3. ToSet(toHost') = {} /\ ToSet(text') = {}
      BY <1>0, <1>5
    <2>4. polls' <= 1
      BY <1>0, <1>1, <1>5 DEF CountInv, AtNoPrompt
    <2>5. CountInv'
      <3>1. polls' \in Int
        BY <1>5 DEF TypeInv
      <3> QED
        BY <2>4, <3>1 DEF CountInv
    <2>2. TypedInv' /\ PromptInv' /\ AnsweredInv' /\ CountInv'
      BY <1>0, <1>1, <1>5, <2>1, <2>3, <2>5 DEF TypedInv, PromptInv, AnsweredInv, AtNoPrompt
    <2> QED
      BY <1>0, <1>1, <1>5, <2>2 DEF LooseInv, BootInv, MarkInv, LineInv, Polling
  <1>6. CASE pc' = "timeout" /\ toDev' = toDev
    <2>1. OnlyEnters' /\ dev' # "start"
      BY <1>0, <1>1, <1>2, <1>6 DEF OnlyEnters, AtNoPrompt
    <2> QED
      BY <1>1, <1>6, <2>1 DEF LooseInv, TypedInv, PromptInv, AnsweredInv, CountInv, Polling, BootInv, MarkInv, LineInv
  <1> QED
    BY <1>1, <1>3, <1>4, <1>5, <1>6

LEMMA PromptIs ==
    ASSUME TypeInv, {"s1> ", "s2> ", "banner"} \cap ToSet(text) = {}
    PROVE  /\ "s1> " \in ToSet(toHost) <=> PromptIn(Chunk) = "s1> "
           /\ PromptIn(Chunk) = "s2> " => "s2> " \in ToSet(toHost)
           /\ PromptIn(Chunk) = "none" => {"s1> ", "s2> "} \cap ToSet(toHost) = {} /\ {"s1> ", "s2> "} \cap ToSet(Chunk) = {}
           /\ PromptIn(Chunk) \in {"s1> ", "s2> ", "none"}
           /\ "banner" \in ToSet(Chunk) <=> "banner" \in ToSet(toHost)
  <1>0. text \in Seq(Printed) /\ toHost \in Seq(Printed)
    BY DEF TypeInv
  <1>1. ToSet(Chunk) = ToSet(text) \cup ToSet(toHost)
    BY <1>0, ToSetCat DEF Chunk
  <1> QED
    BY <1>1 DEF PromptIn

LEMMA ResetWritten == <<>> \o Append(<<"r", "eset", "cr">>, "cr") = <<"r", "eset", "cr", "cr">>
  <1>0. PICK r, e, c : r = "r" /\ e = "eset" /\ c = "cr"
    OBVIOUS
  <1> DEFINE s == <<r, e, c>>  u == <<r, e, c, c>>
  <1>1. s \in Seq(Typed) /\ c \in Typed /\ u \in Seq(Typed)
    <2>1. r \in Typed /\ e \in Typed /\ c \in Typed
      BY <1>0 DEF Typed
    <2> QED
      BY <2>1
  <1>2. Len(s) = 3 /\ s[1] = r /\ s[2] = e /\ s[3] = c
    OBVIOUS
  <1>3. Len(u) = 4 /\ u[1] = r /\ u[2] = e /\ u[3] = c /\ u[4] = c
    OBVIOUS
  <1> HIDE DEF s, u
  <1>4. Append(s, c) = s \o <<c>>
    BY <1>1
  <1>5. Append(s, c) = u
    <2>1. <<c>> \in Seq(Typed) /\ Len(<<c>>) = 1 /\ <<c>>[1] = c
      BY <1>1
    <2> DEFINE t == <<c>>
    <2>2. t \in Seq(Typed) /\ Len(t) = 1 /\ t[1] = c
      BY <2>1
    <2> HIDE DEF t
    <2>3. Len(u) = Len(s) + Len(t)
      BY <1>2, <1>3, <2>2
    <2>4. \A i \in 1 .. Len(s) : u[i] = s[i]
      BY <1>2, <1>3
    <2>5. \A i \in 1 .. Len(t) : u[Len(s) + i] = t[i]
      BY <1>2, <1>3, <2>2
    <2>6. s \o t = u
      BY <1>1, <2>2, <2>3, <2>4, <2>5, CatIs
    <2> QED
      BY <1>4, <2>6 DEF t
  <1>6. <<>> \o u = u
    BY <1>1, ConcatEmptySeq
  <1> QED
    BY <1>0, <1>5, <1>6 DEF s, u

LEMMA PollGoesOn ==
    ASSUME NEW t, Poll(t), ~AtNoPrompt, polls < MaxPolls[split], polls \in Nat, MaxPolls[split] \in Nat
    PROVE  polls' = polls + 1 /\ toDev' = toDev \o Append(t, "cr") /\ text' = <<>> /\ pc' = pc
  BY DEF Poll, Write, Read

LEMMA PollReadsGoOn ==
    ASSUME Base, PollReads
    PROVE  pc' # "timeout"
  <1> USE DEF Base, StageInv
  <1>0. Polling /\ pc' \in {pc, "drain", "done", "boot2", "timeout"}
    BY DEF PollReads, Polling, Poll, Read, Raise, StepDone
  <1>1. {"s1> ", "s2> ", "banner"} \cap ToSet(text) = {}
    BY <1>0 DEF AnsweredInv
  <1>2. polls \in Nat /\ MaxPolls[split] \in Nat /\ (polls < MaxPolls[split] \/ polls > 2)
    <2>1. split \in BOOLEAN /\ polls \in 0 .. MaxPolls[split]
      BY DEF TypeInv
    <2>2. MaxPolls[split] > 2 /\ MaxPolls[split] \in Nat
      BY <2>1, Bounds
    <2> QED
      BY <2>1, <2>2
  <1>3. CASE PromptIn(Chunk) = "none" /\ "banner" \in ToSet(Chunk) /\ Poll(<<>>)
    <2>1. "banner" \in ToSet(toHost) /\ "s1> " \notin ToSet(toHost)
      BY <1>1, <1>3, PromptIs
    <2>2. dev = "window" /\ polls <= 2
      BY <1>0, <2>1 DEF PromptInv, AnsweredInv, CountInv
    <2>3. pc' = pc
      BY <1>2, <1>3, <2>2, PollGoesOn DEF AtNoPrompt
    <2> QED
      BY <1>0, <2>3 DEF Polling
  <1>4. CASE PromptIn(Chunk) = "s2> " /\ pc = "poll1" /\ Poll(<<"r", "eset", "cr">>)
    <2>1. dev = "s2" /\ polls <= 1
      <3>1. "s2> " \in ToSet(toHost)
        BY <1>1, <1>4, PromptIs
      <3> QED
        BY <1>0, <3>1 DEF PromptInv, CountInv
    <2>2. PICK t : t = <<"r", "eset", "cr">>
      OBVIOUS
    <2>a. Poll(t)
      BY <1>4, <2>2
    <2>b. ~AtNoPrompt /\ polls < MaxPolls[split]
      BY <1>2, <2>1 DEF AtNoPrompt
    <2>3. Poll(t) /\ ~AtNoPrompt /\ polls < MaxPolls[split]
      BY <2>a, <2>b
    <2>4. pc' = pc
      BY <1>2, <2>3, PollGoesOn
    <2> QED
      BY <1>4, <2>4
  <1>5. CASE ~Poll(<<>>) /\ ~Poll(<<"r", "eset", "cr">>)
    BY <1>0, <1>5 DEF PollReads, Read, StepDone, Polling
  <1> QED
    BY <1>3, <1>4, <1>5 DEF PollReads, Stage1Answered, Read, StepDone

LEMMA StagePollReads ==
    ASSUME Base, PollReads, PromptIn(Chunk) # "none" => Settled
    PROVE  StageInv'
  <1> USE DEF Base, StageInv
  <1>0. /\ Polling /\ toHost' = <<>> /\ UNCHANGED <<dev, devLine, devCmd>>
        /\ ToSet(<<>>) = {}
    BY ToSetShort DEF PollReads, Receives, Keep, device, Polling
  <1>1. {"s1> ", "s2> ", "banner"} \cap ToSet(text) = {}
    BY <1>0 DEF AnsweredInv
  <1>2. /\ "s1> " \in ToSet(toHost) => dev = "s1" /\ toDev = <<>>
        /\ PromptIn(Chunk) = "s2> " => dev = "s2" /\ toDev = <<>> /\ OnlyEnters /\ polls <= 1
    <2>1. /\ PromptIn(Chunk) = "s2> " => "s2> " \in ToSet(toHost)
          /\ "s1> " \in ToSet(toHost) => PromptIn(Chunk) = "s1> "
      BY <1>1, PromptIs
    <2> QED
      BY <1>0, <2>1 DEF PromptInv, CountInv, Settled, AtNoPrompt
  <1>a. polls < MaxPolls[split] \/ polls > 2
    <2>1. split \in BOOLEAN /\ polls \in 0 .. MaxPolls[split]
      BY DEF TypeInv
    <2>2. MaxPolls[split] > 2 /\ MaxPolls[split] \in Nat
      BY <2>1, Bounds
    <2> QED
      BY <2>1, <2>2
  <1>c. polls \in Nat /\ MaxPolls[split] \in Nat
    BY Bounds DEF TypeInv
  <1>b. ASSUME pc' = pc, text' = <<>>, toDev' # <<>>, TypedInv', CountInv' PROVE StageInv'
    <2>1. ToSet(toHost') = {} /\ ToSet(text') = {}
      BY <1>0, <1>b
    <2>2. PromptInv' /\ AnsweredInv'
      BY <1>b, <2>1 DEF PromptInv, AnsweredInv
    <2> QED
      BY <1>0, <1>b, <2>2 DEF LooseInv, BootInv, MarkInv, LineInv, Polling
  <1>3. CASE PromptIn(Chunk) = "none" /\ "banner" \in ToSet(Chunk) /\ Poll(<<>>)
    <2>1. "banner" \in ToSet(toHost) /\ "s1> " \notin ToSet(toHost)
      BY <1>1, <1>3, PromptIs
    <2>2. dev = "window" /\ polls <= 2 /\ OnlyEnters
      BY <1>0, <2>1 DEF PromptInv, AnsweredInv, CountInv, TypedInv, Resetting
    <2>3. polls' = polls + 1 /\ toDev' = toDev \o Append(<<>>, "cr") /\ text' = <<>> /\ pc' = pc
      BY <1>3, <1>a, <1>c, <2>2, PollGoesOn DEF AtNoPrompt
    <2>4. Append(<<>>, "cr") = <<"cr">>
      OBVIOUS
    <2>5. OnlyEnters' /\ toDev' # <<>>
      BY <1>0, <2>2, <2>3, <2>4, Enters DEF OnlyEnters
    <2>6. TypedInv'
      BY <1>0, <2>2, <2>5 DEF TypedInv
    <2>7. CountInv'
      BY <1>0, <1>c, <2>2, <2>3 DEF CountInv, Resetting
    <2> QED
      BY <1>b, <2>3, <2>5, <2>6, <2>7
  <1>4. CASE PromptIn(Chunk) = "none" /\ "banner" \notin ToSet(Chunk) /\ text' = Chunk /\ UNCHANGED <<polls, toDev, todo, pc>>
    <2>1. {"s1> ", "s2> ", "banner"} \cap ToSet(toHost) = {} /\ {"s1> ", "s2> ", "banner"} \cap ToSet(Chunk) = {}
      BY <1>1, <1>4, PromptIs
    <2>2. ToSet(toHost') = {} /\ ToSet(text') = ToSet(Chunk)
      BY <1>0, <1>4
    <2>3. TypedInv' /\ PromptInv' /\ AnsweredInv'
      BY <1>0, <1>4, <2>1, <2>2 DEF TypedInv, OnlyEnters, Resetting, PromptInv, AnsweredInv, Polling
    <2>4. CountInv'
      BY <1>0, <1>4, <2>1, <2>2 DEF CountInv, OnlyEnters, Resetting, Polling
    <2> QED
      BY <1>0, <1>4, <2>3, <2>4 DEF LooseInv, BootInv, MarkInv, LineInv, Polling
  <1>5. CASE PromptIn(Chunk) = "s1> " /\ pc = "poll1" /\ StepDone /\ UNCHANGED toDev
    <2>1. dev = "s1" /\ toDev = <<>> /\ OnlyEnters
      BY <1>0, <1>1, <1>2, <1>5, PromptIs DEF TypedInv, Resetting
    <2>2. pc' = "drain" /\ Head(todo') \in {"key", "enter_s2"}
      <3>1. todo \in Todos /\ Head(todo) = "enter_s1"
        BY <1>5 DEF PlaceInv
      <3>2. \/ Tail(todo) = <<"key">> \/ Tail(todo) = <<"enter_s2">>
        BY <3>1, TodoSteps
      <3> QED
        BY <1>5, <3>2, TodoOne DEF StepDone, Read
    <2>3. OnlyEnters'
      BY <1>0, <1>5, <2>1 DEF OnlyEnters
    <2> QED
      BY <1>0, <1>5, <2>1, <2>2, <2>3 DEF LooseInv, TypedInv, PromptInv, AnsweredInv, CountInv, Polling, BootInv, MarkInv, LineInv
  <1>6. CASE PromptIn(Chunk) = "s2> " /\ pc = "poll1" /\ Poll(<<"r", "eset", "cr">>)
    <2>1. dev = "s2" /\ toDev = <<>> /\ OnlyEnters /\ polls <= 1
      BY <1>2, <1>6
    <2>2. polls' = polls + 1 /\ toDev' = toDev \o Append(<<"r", "eset", "cr">>, "cr") /\ text' = <<>> /\ pc' = pc
      <3>1. PICK t : t = <<"r", "eset", "cr">>
        OBVIOUS
      <3>2. Poll(t)
        BY <1>6, <3>1
      <3>3. ~AtNoPrompt /\ polls < MaxPolls[split]
        BY <1>a, <1>c, <2>1 DEF AtNoPrompt
      <3>4. polls' = polls + 1 /\ toDev' = toDev \o Append(t, "cr") /\ text' = <<>> /\ pc' = pc
        BY <1>c, <3>2, <3>3, PollGoesOn
      <3> QED
        BY <3>1, <3>4
    <2>3. toDev' = <<"r", "eset", "cr", "cr">> /\ toDev' # <<>>
      <3>1. toDev' = <<"r", "eset", "cr", "cr">>
        BY <2>1, <2>2, ResetWritten
      <3> QED
        BY <3>1
    <2>4. Resetting' /\ ~OnlyEnters'
      <3>1. Resetting'
        BY <1>0, <2>1, <2>3 DEF Resetting, Resets, OnlyEnters
      <3> QED
        BY <1>0, <2>1, <3>1, NoReset DEF Resetting, OnlyEnters
    <2>5. TypedInv' /\ CountInv'
      BY <1>0, <1>c, <2>1, <2>2, <2>4 DEF TypedInv, CountInv
    <2> QED
      BY <1>b, <2>2, <2>3, <2>5
  <1>7. CASE PromptIn(Chunk) = "s2> " /\ pc = "poll2" /\ StepDone /\ UNCHANGED toDev
    <2>1. dev = "s2" /\ toDev = <<>> /\ OnlyEnters
      BY <1>2, <1>7
    <2>2. pc' \in {"done", "drain"} /\ (pc' = "drain" => Head(todo') # "key")
      <3>1. todo \in Todos /\ Head(todo) = "enter_s2"
        BY <1>7 DEF PlaceInv
      <3>2. \/ Tail(todo) = <<>> \/ Tail(todo) = <<"ls">> \/ Tail(todo) = <<"mkdir">> \/ Tail(todo) = <<"run">>
        BY <3>1, TodoSteps
      <3> QED
        BY <1>7, <3>2, TodoOne DEF StepDone, Read
    <2>3. OnlyEnters'
      BY <1>0, <1>7, <2>1 DEF OnlyEnters
    <2> QED
      BY <1>0, <1>7, <2>1, <2>2, <2>3 DEF LooseInv, TypedInv, PromptInv, AnsweredInv, CountInv, Polling, BootInv, MarkInv, LineInv
  <1>8. CASE PromptIn(Chunk) = "s1> " /\ pc = "poll2" /\ Write(<<"b">>) /\ Read("boot2")
    <2>1. dev = "s1" /\ toDev = <<>> /\ OnlyEnters
      BY <1>0, <1>1, <1>2, <1>8, PromptIs DEF TypedInv, Resetting
    <2>2. toDev' = <<"b">> /\ pc' = "boot2" /\ text' = <<>>
      BY <1>8, <2>1, TypedSeqs, ConcatEmptySeq DEF Write, Read
    <2>3. BootInv'
      BY <1>0, <2>1, <2>2 DEF BootInv, OnlyEnters
    <2> QED
      BY <2>2, <2>3 DEF LooseInv, TypedInv, PromptInv, AnsweredInv, CountInv, Polling, MarkInv, LineInv
  <1> QED
    BY <1>3, <1>4, <1>5, <1>6, <1>7, <1>8 DEF PollReads, Stage1Answered, KeepPolls


-----------------------------------------------------------------------------
(* What ends a long read.                                                  *)

LEMMA RestOf ==
    ASSUME NEW S, NEW s \in Seq(S), NEW m \in 1 .. Len(s) + 1
    PROVE  /\ ToSet(SubSeq(s, m, Len(s))) \subseteq ToSet(s)
           /\ \A i \in m .. Len(s) : s[i] \in ToSet(SubSeq(s, m, Len(s)))
  <1> DEFINE t == SubSeq(s, m, Len(s))
  <1>0. Len(s) \in Int /\ Len(s) \in Nat /\ m \in Int /\ m >= 1 /\ DOMAIN s = 1 .. Len(s)
    OBVIOUS
  <1>1. \A i \in m .. Len(s) : s[i] \in S
    BY <1>0
  <1>2. /\ t \in Seq(S) /\ Len(t) = IF m <= Len(s) THEN Len(s) - m + 1 ELSE 0
        /\ \A i \in 1 .. Len(s) - m + 1 : t[i] = s[m + i - 1]
    BY <1>0, <1>1, SubSeqProperties
  <1> HIDE DEF t
  <1>3. DOMAIN t = 1 .. Len(t)
    BY <1>2
  <1>4. ASSUME NEW x \in ToSet(t) PROVE x \in ToSet(s)
    <2>1. PICK i \in 1 .. Len(t) : t[i] = x
      BY <1>3, <1>4 DEF ToSet
    <2>2. m <= Len(s) /\ i \in 1 .. Len(s) - m + 1 /\ m + i - 1 \in 1 .. Len(s)
      BY <1>0, <1>2, <2>1
    <2>3. s[m + i - 1] = x
      BY <1>2, <2>1, <2>2
    <2> QED
      BY <1>0, <2>2, <2>3 DEF ToSet
  <1>5. ASSUME NEW i \in m .. Len(s) PROVE s[i] \in ToSet(t)
    <2>1. m <= Len(s) /\ i - m + 1 \in 1 .. Len(s) - m + 1 /\ m + (i - m + 1) - 1 = i /\ i - m + 1 \in 1 .. Len(t)
      BY <1>0, <1>2
    <2>2. t[i - m + 1] = s[i]
      BY <1>2, <2>1
    <2> QED
      BY <1>3, <2>1, <2>2 DEF ToSet
  <1> QED
    BY <1>4, <1>5 DEF t

LEMMA IndexIs ==
    ASSUME NEW got \in Seq(Printed), NEW t
    PROVE  /\ IndexOf(t, got) \in 0 .. Len(got)
           /\ t \in ToSet(got) => IndexOf(t, got) > 0 /\ got[IndexOf(t, got)] = t
  <1>1. \E k \in 0 .. Len(got) : IF t \in ToSet(got) THEN k > 0 /\ got[k] = t ELSE k = 0
    <2>1. CASE t \in ToSet(got)
      <3>1. PICK k \in 1 .. Len(got) : got[k] = t
        BY <2>1 DEF ToSet
      <3>2. k \in 0 .. Len(got) /\ k > 0
        OBVIOUS
      <3> QED
        BY <2>1, <3>1, <3>2
    <2>2. CASE t \notin ToSet(got)
      <3>1. 0 \in 0 .. Len(got)
        OBVIOUS
      <3> QED
        BY <2>2, <3>1
    <2> QED
      BY <2>1, <2>2
  <1> QED
    BY <1>1 DEF IndexOf

\* A token behind another that ends what was read is behind the one that was found.
LEMMA BehindIndex ==
    ASSUME NEW got \in Seq(Printed), NEW t \in ToSet(got), got # <<>>, got[Len(got)] # t
    PROVE  got[Len(got)] \in ToSet(SubSeq(got, IndexOf(t, got) + 1, Len(got)))
  <1>1. IndexOf(t, got) \in 0 .. Len(got) /\ IndexOf(t, got) > 0 /\ got[IndexOf(t, got)] = t
    BY IndexIs
  <1>2. PICK k \in 1 .. Len(got) : k = IndexOf(t, got) /\ got[k] = t
    BY <1>1
  <1>3. k # Len(got) /\ k + 1 \in 1 .. Len(got) + 1 /\ Len(got) \in k + 1 .. Len(got)
    BY <1>2
  <1>4. got[Len(got)] \in ToSet(SubSeq(got, k + 1, Len(got)))
    BY <1>3, RestOf
  <1> QED
    BY <1>2, <1>4

\* The mark's answer.
LEMMA MarkFinished ==
    ASSUME NEW c \in Printed, NEW f \in Printed, NEW p \in Printed, c # p, NEW got, got = <<c, f, p>>
    PROVE  c \in ToSet(got) /\ p \in ToSet(SubSeq(got, IndexOf(c, got) + 1, Len(got)))
  <1>1. got \in Seq(Printed) /\ Len(got) = 3 /\ got[1] = c /\ got[3] = p /\ got # <<>> /\ 1 \in DOMAIN got
    OBVIOUS
  <1>2. c \in ToSet(got) /\ c # got[Len(got)]
    BY <1>1 DEF ToSet
  <1>4. got[Len(got)] \in ToSet(SubSeq(got, IndexOf(c, got) + 1, Len(got)))
    BY <1>1, <1>2, BehindIndex
  <1> QED
    BY <1>1, <1>2, <1>4


LEMMA SeqParts ==
    ASSUME NEW S, NEW s \in Seq(S)
    PROVE  DOMAIN s = 1 .. Len(s) /\ (\A i \in 1 .. Len(s) : s[i] \in S) /\ (Len(s) > 0 => s # <<>>)
  OBVIOUS

LEMMA AppendParts ==
    ASSUME NEW S, NEW s \in Seq(S), NEW x \in S
    PROVE  /\ Append(s, x) \in Seq(S) /\ Len(Append(s, x)) = Len(s) + 1
           /\ (\A i \in 1 .. Len(s) : Append(s, x)[i] = s[i]) /\ Append(s, x)[Len(s) + 1] = x
  OBVIOUS

EchoEnds(line, n, got) == {k \in 1 .. Len(got) : k >= Len(line) + 1 /\ SubSeq(got, k - Len(line), k) = Append(line, n)}

\* The answer to a line: its echo, the reply, the prompt.
LEMMA AnswerFinished ==
    ASSUME NEW n \in Printed, NEW got \in Seq(Printed), NEW line \in Seq(Printed), Len(got) = 5, Len(line) = 2,
           got[1] = line[1], got[2] = line[2], got[3] = n, got[5] # n, EchoAt(line, got) = EchoEnds(line, n, got)
    PROVE  /\ got[5] \in ToSet(AfterEcho(line, got))
           /\ got[5] \in ToSet(SubSeq(got, IndexOf(n, got) + 1, Len(got)))
  <1>0. DOMAIN got = 1 .. 5 /\ got # <<>> /\ \A i \in 1 .. 5 : got[i] \in Printed
    <2>1. DOMAIN got = 1 .. Len(got) /\ (\A i \in 1 .. Len(got) : got[i] \in Printed) /\ (Len(got) > 0 => got # <<>>)
      BY SeqParts
    <2> QED
      BY <2>1
  <1>2. got[Len(got)] = got[5] /\ n \in ToSet(got)
    BY <1>0 DEF ToSet
  <1>3. got[Len(got)] \in ToSet(SubSeq(got, IndexOf(n, got) + 1, Len(got)))
    BY <1>0, <1>2, BehindIndex
  <1> DEFINE ends == EchoEnds(line, n, got)  k == CHOOSE i \in ends : \A j \in ends : i <= j
  <1>4. ends \in SUBSET (1 .. 5) /\ ends \in SUBSET Nat
    BY DEF EchoEnds
  <1>5. SubSeq(got, 1, 3) = Append(line, n)
    <2> DEFINE s == SubSeq(got, 1, 3)  u == Append(line, n)
    <2>1. /\ s \in Seq(Printed) /\ Len(s) = (IF 1 <= 3 THEN 3 - 1 + 1 ELSE 0)
          /\ \A i \in 1 .. 3 - 1 + 1 : s[i] = got[1 + i - 1]
      <3>1. \A i \in 1 .. 3 : got[i] \in Printed
        BY <1>0
      <3> QED
        BY <3>1, SubSeqProperties
    <2>2. u \in Seq(Printed) /\ Len(u) = 3 /\ u[1] = line[1] /\ u[2] = line[2] /\ u[3] = n
      <3>1. /\ u \in Seq(Printed) /\ Len(u) = Len(line) + 1
            /\ (\A i \in 1 .. Len(line) : u[i] = line[i]) /\ u[Len(line) + 1] = n
        <4>1. \A q \in Seq(Printed), x \in Printed :
                /\ Append(q, x) \in Seq(Printed) /\ Len(Append(q, x)) = Len(q) + 1
                /\ (\A i \in 1 .. Len(q) : Append(q, x)[i] = q[i]) /\ Append(q, x)[Len(q) + 1] = x
          <5> TAKE q \in Seq(Printed), x \in Printed
          <5> QED
            BY AppendParts
        <4> QED
          BY <4>1, Zenon
      <3> HIDE DEF u
      <3> QED
        BY <3>1
    <2> HIDE DEF s, u
    <2>3. Len(s) = 3 /\ s[1] = got[1] /\ s[2] = got[2] /\ s[3] = got[3]
      BY <2>1
    <2>4. \A i \in 1 .. Len(s) : s[i] = u[i]
      BY <2>2, <2>3
    <2>5. s = u
      BY <2>1, <2>2, <2>3, <2>4, SeqEqual
    <2> QED
      BY <2>5 DEF s, u
  <1>6. 3 \in ends
    <2>1. 3 \in 1 .. Len(got) /\ 3 >= Len(line) + 1 /\ 3 - Len(line) = 1
      OBVIOUS
    <2> QED
      BY <1>5, <2>1 DEF EchoEnds
  <1>7. k \in ends
    <2> HIDE DEF ends
    <2> QED
      BY <1>4, <1>6, LeastOf
  <1>8. AfterEcho(line, got) = SubSeq(got, 1 + k, Len(got))
    BY <1>6 DEF AfterEcho
  <1> HIDE DEF k
  <1>9. k \in 1 .. 5 /\ k >= 3 /\ SubSeq(got, k - 2, k) = Append(line, n)
    BY <1>7 DEF EchoEnds
  <1>10. got[k] = n
    <2>1. \A i \in k - 2 .. k : got[i] \in Printed
      BY <1>0, <1>9
    <2>2. k - 2 \in Int /\ k \in Int /\ k - (k - 2) + 1 = 3
      BY <1>9
    <2>3. \A i \in 1 .. 3 : SubSeq(got, k - 2, k)[i] = got[(k - 2) + i - 1]
      BY <2>1, <2>2, SubSeqProperties
    <2>4. Append(line, n)[3] = n /\ (k - 2) + 3 - 1 = k
      BY <1>9
    <2> QED
      BY <1>9, <2>3, <2>4
  <1>11. k # 5
    BY <1>10
  <1>12. 1 + k \in 1 .. Len(got) + 1 /\ 5 \in 1 + k .. Len(got)
    BY <1>9, <1>11
  <1>13. got[5] \in ToSet(SubSeq(got, 1 + k, Len(got)))
    BY <1>12, RestOf
  <1> QED
    BY <1>2, <1>3, <1>8, <1>13

\* The echo alone ends nothing.
LEMMA EchoUnfinished ==
    ASSUME NEW n, n = "nl", NEW got \in Seq(Printed), NEW a \in Chars, NEW b \in Chars, got = <<a, b, n>>, NEW line, line = <<a, b>>
    PROVE  /\ "s2> " \notin ToSet(AfterEcho(line, got)) /\ "[RUN]" \notin ToSet(got)
           /\ "s2> " \notin ToSet(SubSeq(got, IndexOf(n, got) + 1, Len(got)))
  <1>3. ToSet(got) = {a, b, n} /\ Len(got) = 3
    BY ToSetShort
  <1>4. "[RUN]" \notin ToSet(got) /\ "s2> " \notin ToSet(got)
    BY <1>3, Kinds
  <1>5. AfterEcho(line, got) = <<>>
    <2> SUFFICES ASSUME AfterEcho(line, got) # <<>> PROVE FALSE
      OBVIOUS
    <2>1. PICK k \in 1 .. Len(got) : Echoed(line, got, k) /\ k < Len(got)
      BY AfterEchoIs
    <2> QED
      BY <1>3, <2>1 DEF Echoed
  <1>6. IndexOf(n, got) \in 0 .. Len(got)
    BY IndexIs
  <1>7. PICK m \in 1 .. Len(got) + 1 : m = IndexOf(n, got) + 1
    BY <1>3, <1>6
  <1>8. ToSet(SubSeq(got, m, Len(got))) \subseteq ToSet(got)
    BY RestOf
  <1> QED
    BY <1>4, <1>5, <1>7, <1>8, ToSetShort

\* Nor does a part of it.
LEMMA PartUnfinished ==
    ASSUME NEW step \in {"ls", "mkdir", "run"}, NEW a \in Chars, NEW b \in Chars, NEW line, line = LineOf(step), line = <<a, b>>,
           NEW got \in Seq(Chars)
    PROVE  ~Finished(step, got)
  <1>1. ToSet(got) \subseteq Chars /\ got \in Seq(Printed) /\ Len(got) \in Nat /\ \A i \in 1 .. Len(got) : got[i] \in Chars
    <2>1. DOMAIN got = 1 .. Len(got) /\ (\A i \in 1 .. Len(got) : got[i] \in Chars) /\ Len(got) \in Nat
      BY SeqParts
    <2>2. ToSet(got) \subseteq Chars
      BY <2>1 DEF ToSet
    <2>3. got \in Seq(Printed)
      BY Kinds
    <2> QED
      BY <2>1, <2>2, <2>3
  <1>2. "[RUN]" \notin ToSet(got) /\ "s2> " \notin ToSet(got) /\ "nl" \notin Chars
    BY <1>1, Kinds
  <1>3. AfterEcho(line, got) = <<>>
    <2> SUFFICES ASSUME AfterEcho(line, got) # <<>> PROVE FALSE
      OBVIOUS
    <2>1. PICK k \in 1 .. Len(got) : Echoed(line, got, k) /\ k < Len(got)
      BY <1>1, AfterEchoIs
    <2> QED
      BY <1>1, <1>2, <2>1 DEF Echoed
  <1>4. PICK n : n = "nl"
    OBVIOUS
  <1>5. IndexOf(n, got) \in 0 .. Len(got)
    BY <1>1, IndexIs
  <1>6. PICK m \in 1 .. Len(got) + 1 : m = IndexOf(n, got) + 1
    BY <1>1, <1>5
  <1>7. ToSet(SubSeq(got, m, Len(got))) \subseteq ToSet(got)
    BY <1>1, RestOf
  <1>8. "s2> " \notin ToSet(AfterEcho(LineOf(step), got))
    BY <1>3, ToSetShort
  <1>9. "s2> " \notin ToSet(SubSeq(got, IndexOf("nl", got) + 1, Len(got)))
    BY <1>2, <1>4, <1>6, <1>7
  <1> QED
    BY <1>2, <1>8, <1>9 DEF Finished

\* What a read of a line's step that has not its answer, and that has it, tells s2_cmd and run_app.
LEMMA LineFinished ==
    ASSUME NEW step \in {"ls", "mkdir", "run"}, NEW a \in Chars, NEW b \in Chars, LineOf(step) = <<a, b>>,
           NEW x \in Printed, NEW got
    PROVE  /\ got = <<a, b, "nl">> => ~Finished(step, got)
           /\ got = <<a, b, "nl", x, "s2> ">> => Finished(step, got)
  <1>0. PICK n, p : n = "nl" /\ p = "s2> "
    OBVIOUS
  <1>1. n \in Printed /\ p \in Printed /\ a \in Printed /\ b \in Printed /\ n # p
    BY <1>0, Kinds DEF Printed, Tokens
  <1> DEFINE line == LineOf(step)
  <1>2. line \in Seq(Printed) /\ Len(line) = 2 /\ line[1] = a /\ line[2] = b
    BY <1>1
  <1>3. ASSUME got = <<a, b, n>> PROVE ~Finished(step, got)
    <2>1. got \in Seq(Printed)
      BY <1>1, <1>3
    <2>2. /\ "s2> " \notin ToSet(AfterEcho(line, got)) /\ "[RUN]" \notin ToSet(got)
          /\ "s2> " \notin ToSet(SubSeq(got, IndexOf(n, got) + 1, Len(got)))
      BY <1>0, <1>3, <2>1, EchoUnfinished
    <2> QED
      BY <1>0, <2>2 DEF Finished
  <1>4. ASSUME got = <<a, b, n, x, p>> PROVE Finished(step, got)
    <2>1. got \in Seq(Printed) /\ Len(got) = 5 /\ got[1] = a /\ got[2] = b /\ got[3] = n /\ got[5] = p
      BY <1>1, <1>4
    <2>2. EchoAt(line, got) = EchoEnds(line, n, got)
      BY <1>0 DEF EchoAt, EchoEnds
    <2> HIDE DEF line
    <2>3. /\ got[5] \in ToSet(AfterEcho(line, got))
          /\ got[5] \in ToSet(SubSeq(got, IndexOf(n, got) + 1, Len(got)))
      BY <1>1, <1>2, <2>1, <2>2, AnswerFinished
    <2>4. "s2> " \in ToSet(AfterEcho(line, got)) /\ "s2> " \in ToSet(SubSeq(got, IndexOf("nl", got) + 1, Len(got)))
      BY <1>0, <2>1, <2>3
    <2> QED
      BY <2>4 DEF Finished, line
  <1> QED
    BY <1>0, <1>3, <1>4

LEMMA StageLongRead ==
    ASSUME Base, LongRead
    PROVE  StageInv' /\ pc' # "timeout"
  <1> USE DEF Base, StageInv
  <1>0. /\ pc \in {"mark", "echo", "run", "boot2"} /\ toHost # <<>>
        /\ toHost' = <<>> /\ UNCHANGED <<dev, devLine, devCmd, toDev>> /\ ToSet(<<>>) = {}
    BY ToSetShort DEF LongRead, LongReads, Receives, device
  <1>1. \/ ~Finished(Head(todo), Chunk) /\ text' = Chunk /\ UNCHANGED <<pc, todo>>
        \/ Finished(Head(todo), Chunk) /\ pc' = "S2Error"
        \/ Finished(Head(todo), Chunk) /\ todo' = Tail(todo) /\ pc' = IF Tail(todo) = <<>> THEN "done" ELSE "drain"
    BY DEF LongRead, Raise, StepDone, Read
  <1>a. todo \in Todos /\ (pc = "boot2" => Head(todo) = "enter_s2") /\ (pc = "mark" => Head(todo) = "key")
        /\ (pc \in {"echo", "run"} => Head(todo) \in {"ls", "mkdir", "run"})
    BY <1>0 DEF PlaceInv
  <1>b. <<>> \in Seq({"cr"})
    BY Enters
  <1>2. ASSUME devLine = <<>>, toDev = <<>>, dev # "start", pc' \in {"done", "S2Error"} PROVE StageInv' /\ pc' # "timeout"
    BY <1>0, <1>2, <1>b
    DEF LooseInv, OnlyEnters, TypedInv, PromptInv, AnsweredInv, CountInv, Polling, BootInv, MarkInv, LineInv
  <1>3. CASE pc = "boot2"
    <2>0. text \in Seq(Printed) /\ toHost \in Seq(Printed)
      BY DEF TypeInv
    <2>1. /\ devLine = <<>> /\ toDev = <<>> /\ dev \in {"s1", "boot", "s2"} /\ "s2> " \notin ToSet(text)
          /\ "s2> " \in ToSet(toHost) => dev = "s2"
      BY <1>0, <1>3 DEF BootInv
    <2>2. ToSet(Chunk) = ToSet(text) \cup ToSet(toHost)
      BY <2>0, ToSetCat DEF Chunk
    <2>3. Finished(Head(todo), Chunk) <=> "s2> " \in ToSet(toHost)
      BY <1>3, <1>a, <2>1, <2>2 DEF Finished
    <2>4. CASE ~Finished(Head(todo), Chunk)
      <3>1. text' = Chunk /\ pc' = pc
        BY <1>1, <2>4
      <3>2. BootInv'
        BY <1>0, <2>1, <2>2, <2>3, <2>4, <3>1 DEF BootInv
      <3> QED
        BY <1>3, <3>1, <3>2 DEF LooseInv, TypedInv, PromptInv, AnsweredInv, CountInv, Polling, MarkInv, LineInv
    <2>5. CASE Finished(Head(todo), Chunk) /\ pc' \in {"done", "S2Error"}
      BY <1>2, <2>1, <2>5
    <2>6. CASE Finished(Head(todo), Chunk) /\ todo' = Tail(todo) /\ Tail(todo) # <<>> /\ pc' = "drain"
      <3>1. Tail(todo) = <<"ls">> \/ Tail(todo) = <<"mkdir">> \/ Tail(todo) = <<"run">>
        BY <1>3, <1>a, <2>6, TodoSteps
      <3>2. Head(todo') # "key"
        BY <2>6, <3>1, TodoOne
      <3>3. OnlyEnters'
        BY <1>0, <1>b, <2>1 DEF OnlyEnters
      <3> QED
        BY <1>0, <2>1, <2>3, <2>6, <3>2, <3>3
        DEF LooseInv, TypedInv, PromptInv, AnsweredInv, CountInv, Polling, BootInv, MarkInv, LineInv
    <2> QED
      BY <1>1, <2>4, <2>5, <2>6
  <1>4. CASE pc = "mark"
    <2>1. dev = "s1" /\ devLine = <<>> /\ text = <<>> /\ toDev = <<>> /\ toHost = <<"[CMD:i]", "info", "s1> ">>
      BY <1>0, <1>4 DEF MarkInv
    <2>2. Chunk = <<"[CMD:i]", "info", "s1> ">>
      BY <2>1, PrintedSeqs, ConcatEmptySeq DEF Chunk
    <2>3. PICK c, f, p : c = "[CMD:i]" /\ f = "info" /\ p = "s1> "
      OBVIOUS
    <2>4. c \in Printed /\ f \in Printed /\ p \in Printed /\ c # p
      BY <2>3 DEF Printed, Tokens
    <2>5. Chunk = <<c, f, p>>
      BY <2>2, <2>3
    <2>6. c \in ToSet(Chunk) /\ p \in ToSet(SubSeq(Chunk, IndexOf(c, Chunk) + 1, Len(Chunk)))
      BY <2>4, <2>5, MarkFinished
    <2>7. Finished("key", Chunk)
      BY <2>3, <2>6 DEF Finished
    <2>8. Tail(todo) = <<>>
      BY <1>4, <1>a, TodoSteps
    <2> QED
      BY <1>1, <1>2, <1>4, <1>a, <2>1, <2>7, <2>8
  <1>5. CASE pc \in {"echo", "run"}
    <2>1. PICK a, b \in Chars : LineOf(Head(todo)) = <<a, b>> /\ LineOf(Head(todo))[1] = a /\ LineOf(Head(todo))[2] = b
      BY <1>5, LineSplit
    <2>2. Tail(todo) = <<>>
      BY <1>5, <1>a, TodoSteps
    <2>a. ASSUME ~Finished(Head(todo), Chunk) PROVE Chunk' = Chunk /\ UNCHANGED <<pc, todo>>
      <3>1. text' = Chunk /\ UNCHANGED <<pc, todo>>
        BY <1>1, <2>a
      <3> QED
        BY <1>0, <3>1, ChunkKept
    <2>b. ASSUME LineInv', UNCHANGED <<pc, todo>> PROVE StageInv' /\ pc' # "timeout"
      BY <1>5, <2>b DEF LooseInv, TypedInv, PromptInv, AnsweredInv, CountInv, Polling, BootInv, MarkInv
    <2>3. CASE LineTyped(a, b)
      <3>1. Chunk \in Seq(Chars)
        BY <2>3 DEF LineTyped, TypeInv
      <3>2. ~Finished(Head(todo), Chunk)
        BY <1>5, <1>a, <2>1, <3>1, PartUnfinished
      <3>3. LineTyped(a, b)'
        BY <1>0, <2>3, <2>a, <3>2 DEF LineTyped
      <3>4. LineInv'
        BY <2>1, <2>a, <3>2, <3>3 DEF LineInv
      <3> QED
        BY <2>a, <2>b, <3>2, <3>4
    <2>4. CASE LineRuns(a, b)
      <3>1. Chunk = <<a, b, "nl">> /\ "nl" \in Printed
        BY <2>4 DEF LineRuns, Printed, Tokens
      <3>2. ~Finished(Head(todo), Chunk)
        BY <1>5, <1>a, <2>1, <3>1, LineFinished
      <3>3. LineRuns(a, b)'
        BY <1>0, <2>4, <2>a, <3>2 DEF LineRuns
      <3>4. LineInv'
        BY <2>1, <2>a, <3>2, <3>3 DEF LineInv
      <3> QED
        BY <2>a, <2>b, <3>2, <3>4
    <2>5. CASE LineAnswered(a, b)
      <3>1. PICK x \in {Reply(devCmd.id), "[ERR]"} : Chunk = <<a, b, "nl", x, "s2> ">>
        BY <2>5 DEF LineAnswered
      <3>2. x \in Printed
        <4>1. Reply(devCmd.id) \in Printed
          BY Replied DEF TypeInv
        <4>2. "[ERR]" \in Printed
          BY DEF Printed, Tokens
        <4> QED
          BY <4>1, <4>2
      <3>3. Finished(Head(todo), Chunk)
        BY <1>5, <1>a, <2>1, <3>1, <3>2, LineFinished
      <3> QED
        BY <1>1, <1>2, <2>2, <2>5, <3>3 DEF LineAnswered
    <2>6. CASE pc = "run" /\ dev = "app" /\ devLine = <<>> /\ toDev = <<>>
      <3>1. CASE pc' \in {"done", "S2Error"}
        BY <1>2, <2>6, <3>1
      <3>2. CASE UNCHANGED <<pc, todo>>
        <4>1. LineInv'
          BY <1>0, <2>6, <3>2 DEF LineInv
        <4> QED
          BY <2>6, <3>2, <4>1 DEF LooseInv, TypedInv, PromptInv, AnsweredInv, CountInv, Polling, BootInv, MarkInv
      <3> QED
        BY <1>1, <2>2, <3>1, <3>2
    <2> QED
      BY <1>5, <2>1, <2>3, <2>4, <2>5, <2>6 DEF LineInv
  <1> QED
    BY <1>0, <1>3, <1>4, <1>5


\* The device of a host that gives up an answer is at no prompt.
LEMMA StageLongTimesOut ==
    ASSUME Base, LongTimesOut
    PROVE  StageInv' /\ (pc # "boot2" => AtNoPrompt)
  <1> USE DEF Base, StageInv
  <1>0. /\ pc \in {"mark", "echo", "run", "boot2"} /\ toHost = <<>> /\ Settled /\ pc' = "timeout"
        /\ UNCHANGED <<dev, devLine, toDev>>
    BY DEF LongTimesOut, LongReads, Quiet, Raise, Read, Keep, device
  <1>b. <<>> \in Seq({"cr"})
    BY Enters
  <1>1. ASSUME devLine = <<>>, toDev = <<>>, dev # "start" PROVE StageInv'
    BY <1>0, <1>1, <1>b
    DEF LooseInv, OnlyEnters, TypedInv, PromptInv, AnsweredInv, CountInv, Polling, BootInv, MarkInv, LineInv
  <1>2. CASE pc = "boot2"
    <2>1. devLine = <<>> /\ dev # "start" /\ (toDev = <<>> \/ (toDev = <<"b">> /\ dev = "s1"))
      BY <1>2 DEF BootInv
    <2>2. toDev = <<>>
      BY <1>0, <2>1, ShortSeqs DEF Settled, AtNoPrompt
    <2> QED
      BY <1>1, <1>2, <2>1, <2>2
  <1>3. pc # "mark"
    <2> SUFFICES ASSUME pc = "mark" PROVE FALSE
      OBVIOUS
    <2>1. dev = "s1" /\ (toDev = <<"i">> \/ toHost = <<"[CMD:i]", "info", "s1> ">>)
      BY DEF MarkInv
    <2> QED
      BY <1>0, <2>1, ShortSeqs DEF Settled, AtNoPrompt
  <1>4. CASE pc \in {"echo", "run"}
    <2>1. PICK a, b \in Chars : LineOf(Head(todo))[1] = a /\ LineOf(Head(todo))[2] = b
      BY <1>4, LineSplit
    <2>2. ~LineTyped(a, b)
      <3> SUFFICES ASSUME LineTyped(a, b) PROVE FALSE
        OBVIOUS
      <3>1. dev = "s2" /\ (toDev = <<a, b, "cr">> \/ toDev = <<b, "cr">> \/ toDev = <<"cr">>)
        BY DEF LineTyped
      <3> QED
        BY <1>0, <3>1, ShortSeqs DEF Settled, AtNoPrompt
    <2>3. ~LineAnswered(a, b)
      BY <1>0 DEF LineAnswered
    <2>4. devLine = <<>> /\ toDev = <<>> /\ dev \in {"busy", "app"}
      BY <1>4, <2>1, <2>2, <2>3 DEF LineInv, LineRuns
    <2> QED
      BY <1>1, <2>4 DEF AtNoPrompt
  <1> QED
    BY <1>0, <1>2, <1>3, <1>4

-----------------------------------------------------------------------------
(* Until an answer is late, every step.                                    *)

LEMMA StageInit == Init => StageInv
  <1> SUFFICES ASSUME Init PROVE StageInv
    OBVIOUS
  <1>1. devLine = <<>> /\ toDev = <<>> /\ pc = "idle"
    BY DEF Init
  <1>2. <<>> \in Seq({"cr"}) /\ Len(<<>>) = 0
    BY Enters
  <1>3. LooseInv
    BY <1>1, <1>2 DEF LooseInv, OnlyEnters
  <1> QED
    BY <1>1, <1>3 DEF StageInv, TypedInv, PromptInv, AnsweredInv, CountInv, Polling, BootInv, MarkInv, LineInv

LEMMA StageStutter ==
    ASSUME StageInv, UNCHANGED vars
    PROVE  StageInv'
  <1>1. UNCHANGED <<dev, devLine, devCmd, toDev, toHost, todo, pc, text, polls>>
    BY DEF vars, device, host
  <1>2. LooseInv' /\ TypedInv' /\ PromptInv' /\ AnsweredInv'
    BY <1>1 DEF StageInv, LooseInv, TypedInv, PromptInv, AnsweredInv, Polling, OnlyEnters, Resetting
  <1>3. CountInv' /\ BootInv' /\ MarkInv'
    BY <1>1 DEF StageInv, CountInv, BootInv, MarkInv, Polling, OnlyEnters, Resetting
  <1>4. LineInv'
    BY <1>1 DEF StageInv, LineInv, LineTyped, LineRuns, LineAnswered, Chunk
  <1> QED
    BY <1>2, <1>3, <1>4 DEF StageInv

LEMMA StageStep ==
    ASSUME Base, [Next]_vars
    PROVE  /\ ~late' => StageInv'
           /\ pc \in {"poll1", "poll2", "mark", "echo", "run"} /\ pc' = "timeout" => AtNoPrompt
  <1>1. CASE Device
    <2>1. StageInv'
      BY <1>1, StageStart, StageKeyInWindow, StageStage1Key, StageStage2Char, StageStage2Line, StageAppReads DEF Device
    <2>2. pc' = pc
      BY <1>1 DEF Device, Start, KeyInWindow, Stage1Key, Stage2Char, Stage2Line, AppReads, host
    <2> QED
      BY <2>1, <2>2
  <1>2. CASE Slow
    <2>1. StageInv'
      BY <1>2, StageCommandDone, StageBootDone, StageNoKey DEF Slow
    <2>2. pc' = pc
      BY <1>2 DEF Slow, CommandDone, BootDone, NoKey, host
    <2> QED
      BY <2>1, <2>2
  <1>3. CASE Drain \/ Send \/ Close
    <2>1. ~late' => StageInv'
      <3>1. Send /\ ~late' => Settled
        BY DEF Send
      <3> QED
        BY <1>3, <3>1, StageDrain, StageSend, StageClose
    <2>2. pc \notin {"poll1", "poll2", "mark", "echo", "run"}
      BY <1>3 DEF Drain, Send, Close
    <2> QED
      BY <2>1, <2>2
  <1>4. CASE PollReads
    <2>1. ~late' => (PromptIn(Chunk) # "none" => Settled)
      BY <1>4 DEF PollReads
    <2> QED
      BY <1>4, <2>1, StagePollReads, PollReadsGoOn
  <1>5. CASE LongRead
    BY <1>5, StageLongRead
  <1>6. CASE PollTimesOut
    BY <1>6, StagePollTimesOut
  <1>7. CASE LongTimesOut
    BY <1>7, StageLongTimesOut
  <1>8. CASE Command
    BY <1>8, StageCommand DEF Command, Base
  <1>9. CASE UNCHANGED vars
    BY <1>9, StageStutter DEF Base, vars, host
  <1> QED
    BY <1>1, <1>2, <1>3, <1>4, <1>5, <1>6, <1>7, <1>8, <1>9 DEF Next, Host

\* Only a command that finds nothing typed makes up for an answer that was late.
LEMMA LateStep ==
    ASSUME [Next]_vars, late
    PROVE  late' \/ (Command /\ toDev = <<>> /\ devLine = <<>>)
  <1>1. CASE Device \/ Slow
    BY <1>1 DEF Device, Slow, Start, KeyInWindow, Stage1Key, Stage2Char, Stage2Line, AppReads, CommandDone, BootDone, NoKey, host
  <1>2. CASE Drain \/ Send \/ Close
    BY <1>2 DEF Drain, Send, Close
  <1>3. CASE PollReads \/ PollTimesOut
    BY <1>3 DEF PollReads, PollTimesOut
  <1>4. CASE LongRead \/ LongTimesOut
    BY <1>4 DEF LongRead, LongTimesOut
  <1>5. CASE Command
    BY <1>5 DEF Command
  <1>6. CASE UNCHANGED vars
    BY <1>6 DEF vars, host
  <1> QED
    BY <1>1, <1>2, <1>3, <1>4, <1>5, <1>6 DEF Next, Host

\* The inductive invariant of the dialogue. With reads and drains that may end anywhere: types,
\* places, and what stands behind the echo of a line (EchoInv). Until a drain or a poll ends
\* before the last answer, also where the device is at each step of the host, and that an
\* answer it has printed is still unread (StageInv); a command that finds nothing typed and
\* left over restores it.
THEOREM ConsoleInvariant == Spec => []ConsoleInv
  <1>1. Init => ConsoleInv
    BY TypeInit, PlaceInit, StageInit DEF ConsoleInv, EchoInv, Init
  <1>2. ASSUME ConsoleInv, [Next]_vars PROVE ConsoleInv'
    <2>1. TypeInv' /\ PlaceInv' /\ EchoInv'
      BY <1>2, TypeStep, PlaceStep, EchoStep DEF ConsoleInv
    <2>2. CASE ~late
      BY <1>2, <2>1, <2>2, StageStep DEF ConsoleInv, Base
    <2>3. CASE late
      <3>1. late' \/ StageInv'
        BY <1>2, <2>3, LateStep, StageCommand
      <3> QED
        BY <2>1, <3>1 DEF ConsoleInv
    <2> QED
      BY <2>2, <2>3
  <1> QED
    BY <1>1, <1>2, PTL DEF Spec

LEMMA MeetsFromStage ==
    ASSUME Base
    PROVE  MeetsItsStage
  <1> USE DEF Base, StageInv
  <1> SUFFICES ASSUME toDev # <<>>
               PROVE  /\ Head(toDev) \in {"i", "b"} => dev = "s1"
                      /\ Head(toDev) \in {"l", "s", "m", "kdir", "r", "un", "eset"} => dev = "s2"
                      /\ Head(toDev) \in {"l", "m", "r"} => devLine = <<>>
    BY DEF MeetsItsStage
  <1>1. CASE toDev \in Seq({"cr"})
    <2>1. Head(toDev) = "cr"
      BY <1>1, Enters
    <2> QED
      BY <2>1
  <1>2. CASE Polling /\ Resetting
    <2>1. CASE devLine = <<>> /\ toDev = <<"r", "eset", "cr", "cr">>
      <3>1. Head(toDev) = "r" /\ dev = "s2"
        BY <1>2, <2>1 DEF Resetting
      <3> QED
        BY <2>1, <3>1
    <2>2. CASE toDev = <<"eset", "cr", "cr">> \/ toDev = <<"cr", "cr">>
      <3>1. Head(toDev) \in {"eset", "cr"} /\ dev = "s2"
        BY <1>2, <2>2, ShortSeqs DEF Resetting
      <3> QED
        BY <3>1
    <2> QED
      BY <1>2, <2>1, <2>2 DEF Resetting, Resets
  <1>3. CASE pc = "boot2"
    <2>1. toDev = <<"b">> /\ dev = "s1"
      BY <1>3 DEF BootInv
    <2>2. Head(toDev) = "b"
      BY <2>1, ShortSeqs
    <2> QED
      BY <2>1, <2>2
  <1>4. CASE pc = "mark"
    <2>1. dev = "s1" /\ toDev = <<"i">>
      BY <1>4 DEF MarkInv
    <2>2. Head(toDev) = "i"
      BY <2>1, ShortSeqs
    <2> QED
      BY <2>1, <2>2
  <1>5. CASE pc \in {"echo", "run"}
    <2>1. PICK a, b \in Chars : LineOf(Head(todo)) = <<a, b>> /\ LineOf(Head(todo))[1] = a /\ LineOf(Head(todo))[2] = b
      BY <1>5, LineSplit
    <2>2. LineTyped(a, b)
      BY <1>5, <2>1 DEF LineInv, LineRuns, LineAnswered
    <2>3. /\ dev = "s2"
          /\ (toDev = <<a, b, "cr">> /\ devLine = <<>>) \/ toDev = <<b, "cr">> \/ toDev = <<"cr">>
      BY <2>2 DEF LineTyped
    <2>4. (Head(toDev) = a /\ devLine = <<>>) \/ Head(toDev) \in {b, "cr"}
      BY <2>3, ShortSeqs
    <2>5. a \in {"l", "m", "r"} /\ b \in {"s", "kdir", "un"}
      <3>1. /\ <<"l", "s">>[1] = "l" /\ <<"l", "s">>[2] = "s" /\ <<"m", "kdir">>[1] = "m" /\ <<"m", "kdir">>[2] = "kdir"
            /\ <<"r", "un">>[1] = "r" /\ <<"r", "un">>[2] = "un"
        OBVIOUS
      <3>2. Head(todo) \in {"ls", "mkdir", "run"}
        BY <1>5 DEF PlaceInv
      <3> QED
        BY <2>1, <3>1, <3>2, LinesOf
    <2> QED
      BY <2>3, <2>4, <2>5
  <1> QED
    BY <1>1, <1>2, <1>3, <1>4, <1>5 DEF PlaceInv, LooseInv, TypedInv, OnlyEnters, Polling

\* For any number of commands, polls and waits, and however the host's reads end: until a drain
\* or a poll ends while the device still owes answers, and again from the next command that
\* finds nothing typed, every key and every line is read at the prompt it is for: `i` and `b`
\* by the first stage, a line and `reset` by the second from an empty line on
\* (vux_tool.py:497-540, 562-578).
THEOREM TypedForItsStageTheorem == Spec => []TypedForItsStage
  <1>1. ASSUME ConsoleInv PROVE TypedForItsStage
    <2>1. TypeOK
      <3>1. TypeInv /\ PlaceInv
        BY <1>1 DEF ConsoleInv
      <3>2. pc \in {"drain", "poll1", "poll2", "boot2", "mark", "echo", "run"} => todo # <<>>
        BY <3>1, TodoSteps DEF PlaceInv
      <3> QED
        BY <3>1, <3>2 DEF TypeOK, TypeInv, PlaceInv
    <2>2. ~late => MeetsItsStage
      BY <1>1, MeetsFromStage DEF ConsoleInv, Base
    <2> QED
      BY <2>1, <2>2 DEF TypedForItsStage
  <1> QED
    BY <1>1, ConsoleInvariant, PTL

\* Until an answer is late, the host gives up a poll, a mark or a line only on a device that is
\* loading, running a command or running an application, never on one at a prompt
\* (vux_tool.py:497-540), however long its deadlines beyond three polls.
THEOREM GivesUpTheorem == Spec => GivesUpOnlyAwayFromPrompts
  <1>1. ConsoleInv /\ [Next]_vars =>
          [(~late /\ pc \in {"poll1", "poll2", "mark", "echo", "run"} /\ pc' = "timeout") => AtNoPrompt]_vars
    BY StageStep DEF ConsoleInv, Base
  <1> QED
    BY <1>1, ConsoleInvariant, PTL DEF Spec, GivesUpOnlyAwayFromPrompts
=============================================================================

---------------------------- MODULE SdCardProofs ----------------------------
(***************************************************************************)
(* The driver and the card in step: what each has sent and heard of a      *)
(* command, its answer and its data, for any sector size, loop lengths,    *)
(* calls, programs and faults; NoViolations and ReportsAreTrue from it.    *)
(***************************************************************************)
EXTENDS SdCard, SequenceTheorems, TLAPS

Bytes == 0 .. 255

InitCommands == {0, 8, 55, 1, 41, 58, 16}

\* Where the driver has deselected the card, or not selected it yet.
High == {"idle", "init", "cmd0", "cmd8", "cmd55", "cmd41", "cmd1", "cmd58", "cmd16", "fast",
         "read", "verify", "write", "ok", "failed"}

\* The bytes of the driver's step that the card has not seen.
Pending == IF busy THEN <<tx>> \o out ELSE out

\* r is what is left of w after its first k bytes.
IsRest(r, w, k) ==
    /\ r \in Seq(Bytes) /\ k \in 0 .. Len(w) /\ Len(r) = Len(w) - k
    /\ \A i \in 1 .. Len(r) : r[i] = w[k + i]

\* Bytes of a poll that were clocked: each poll asks for one.
Clocked == polls - Len(Pending)

-----------------------------------------------------------------------------
(* Types, and what a call is doing.                                        *)

StateInv ==
    /\ card \in Cards /\ fault \in FaultSets
    /\ sectors \in [Lbas -> Seq(Bytes)] /\ \A n \in Lbas : Len(sectors[n]) = Sector
    /\ resp \in Seq(Bytes) /\ cbuf \in Seq(Bytes) /\ lba \in Nat /\ ready \in BOOLEAN /\ first_cmd_seen \in BOOLEAN
    /\ busy \in BOOLEAN /\ tx \in Bytes /\ rx \in Bytes /\ cs_n \in BOOLEAN /\ clk_fast \in BOOLEAN
    /\ out \in Seq(Bytes) /\ got \in Seq(Bytes)
    /\ Len(got) + Len(Pending) <= Preamble + Sector + 8
    /\ Len(cbuf) <= Sector + 6 /\ Len(resp) <= Sector + 6
    /\ cstate \in {"idle", "cmd", "wait_token", "data", "resync"}
    /\ tries \in 0 .. Cmd0Tries + ReadyTries /\ polls \in 0 .. R1Tries + TokenTries + BusyTries
    /\ ops \in 0 .. MaxOps /\ inited \in BOOLEAN /\ sdhc \in BOOLEAN /\ is_v2 \in BOOLEAN
    /\ op \in [k : {"none", "init", "read", "write"}, lba : Nat, data : Seq(Bytes)]
    /\ violations = {}

OpInv ==
    /\ pc = "idle" <=> op.k = "none"
    /\ pc \in {"init", "cmd0", "cmd8", "cmd55", "cmd41", "cmd1", "cmd58", "cmd16", "fast", "r7", "ocr"} => op.k = "init"
    /\ pc = "r1" /\ cmd \in InitCommands => op.k = "init"
    /\ pc = "read" => op.k = "read"
    /\ pc \in {"verify", "write", "accepted", "programming"} => op.k = "write"
    /\ pc = "r1" /\ cmd = 24 => op.k = "write"
    /\ pc \in {"token", "data"} => op.k \in {"read", "write"} /\ cmd = 17
    /\ pc = "r1" /\ cmd = 17 => op.k \in {"read", "write"}
    /\ pc = "r7" => cmd = 8
    /\ pc = "ocr" => cmd = 58
    /\ pc \in {"accepted", "programming"} => cmd = 24
    /\ pc \in High \cup {"r1", "r7", "ocr", "token", "data", "accepted", "programming"}
    /\ cmd \in InitCommands \cup {17, 24}
    /\ op.k \in {"read", "write"} => op.lba \in Sectors
    /\ op.k = "write" => op.data \in Seq(Bytes) /\ Len(op.data) = Sector

TriesInv ==
    /\ pc = "cmd0" \/ (pc = "r1" /\ cmd = 0) => tries < Cmd0Tries
    /\ pc \in {"r7", "cmd55", "cmd41", "cmd1"} \/ (pc = "r1" /\ cmd \in {55, 1, 41}) => tries < ReadyTries
    /\ pc = "r1" => polls \in 1 .. R1Tries
    /\ pc = "token" => polls \in 1 .. TokenTries
    /\ pc = "programming" => polls \in 1 .. BusyTries

\* init slows the clock before the card is told to start over, and makes it fast when the card is ready.
ClockInv ==
    /\ clk_fast => ready
    /\ pc \in {"cmd0", "cmd8", "cmd55", "cmd41", "cmd1", "r7"} => ~clk_fast
    /\ pc = "r1" /\ cmd \in {0, 8, 55, 1, 41} => ~clk_fast
    /\ pc \in {"cmd58", "cmd16", "fast", "ocr"} => ready
    /\ pc = "r1" /\ cmd \in {58, 16} => ready
    /\ sdhc => card.sdhc

-----------------------------------------------------------------------------
(* A command: its frame, then its answer.                                  *)

Argument ==
    IF cmd = 8 THEN 426 ELSE IF cmd = 16 THEN 512
    ELSE IF cmd \in {1, 41} /\ is_v2 THEN 1073741824
    ELSE IF cmd \in {17, 24} THEN address(op.lba) ELSE 0

Frame == <<64 + cmd, ArgBytes(Argument)[1], ArgBytes(Argument)[2], ArgBytes(Argument)[3], ArgBytes(Argument)[4],
           255, 255>>

InFrame == pc = "r1" /\ polls = 1 /\ Len(got) < 6

\* Before the first command the card has seen 74 clocks, or the rest of the preamble is to come.
PowerInv ==
    /\ idle_clocks \in Nat
    /\ ~first_cmd_seen =>
         /\ ~inited /\ result.op.k # "init"
         /\ \/ pc \in {"idle", "init"}
            \/ pc = "cmd0" /\ idle_clocks + 8 * Len(Pending) >= POWER_UP_CLOCKS
            \/ InFrame /\ cmd = 0 /\ idle_clocks >= POWER_UP_CLOCKS

Mute == cmd \in fault.mute

\* What the card answers to the command, from the command on.
Full == Answer(cmd, Arg(Frame), ready)
Target == addr_lba(Arg(Frame))
ReadFails == fault.read_error \/ Target \in fault.bad_sectors

FrameInv ==
    InFrame =>
      /\ IsRest(Pending, Frame, Len(got))
      /\ resp = <<>> /\ cstate = IF Len(got) = 0 THEN "idle" ELSE "cmd"
      /\ Len(got) # 0 => Len(cbuf) = Len(got) /\ \A i \in 1 .. Len(got) : cbuf[i] = Frame[i]

PollInv ==
    pc \in {"r1", "token", "programming"} /\ ~InFrame =>
      /\ Pending = <<>> \/ Pending = <<255>>
      /\ Pending = <<>> => got # <<>>

AnswerInv ==
    pc = "r1" /\ ~InFrame =>
      /\ cstate = IF cmd = 24 /\ ~Mute THEN "wait_token" ELSE "idle"
      /\ Mute => resp = <<>> /\ (Pending = <<>> => Last(got) = 255)
      /\ ~Mute => /\ polls <= 2 /\ IsRest(resp, Full, Clocked)
                  /\ Pending = <<>> => Last(got) = Full[Clocked]

-----------------------------------------------------------------------------
(* What follows an answer.                                                 *)

\* R7 and OCR: four bytes.
WordInv ==
    pc \in {"r7", "ocr"} =>
      /\ ~Mute /\ cstate = "idle" /\ Len(got) + Len(Pending) = 4
      /\ IsRest(resp, Full, 2 + Len(got))
      /\ \A i \in 1 .. Len(got) : got[i] = Full[2 + i]

TokenInv ==
    pc = "token" =>
      /\ ~Mute /\ cstate = "idle"
      /\ polls <= 2 \/ ReadFails
      /\ IF Clocked <= 2 THEN IsRest(resp, Full, 2 + Clocked) ELSE resp = <<>>
      /\ Pending = <<>> => Last(got) = IF Clocked <= 2 THEN Full[2 + Clocked] ELSE 255

BlockInv ==
    pc = "data" =>
      /\ ~Mute /\ ~ReadFails /\ cstate = "idle" /\ Len(got) + Len(Pending) = Sector + 2
      /\ IsRest(resp, Full, 4 + Len(got))
      /\ \A i \in 1 .. Len(got) : got[i] = Full[4 + i]

\* A block to be written, in its frame; the card's answer to it.
Written == <<255, 254>> \o op.data \o FF(3)
DataResponse == IF fault.write_reject THEN <<11>> ELSE <<5, 63>>

WriteInv ==
    pc = "accepted" =>
      /\ IsRest(Pending, Written, Len(got))
      /\ Len(got) < 2 => cstate = "wait_token" /\ resp = <<>>
      /\ Len(got) \in 2 .. Sector + 3 => cstate = "data" /\ resp = <<>> /\ Len(cbuf) = Len(got) - 2
      /\ Len(got) > Sector + 3 => cstate = "resync" /\ IsRest(resp, DataResponse, Len(got) - (Sector + 4))
      /\ Len(got) = Sector + 5 => Last(got) = DataResponse[1]

ProgrammingInv ==
    pc = "programming" =>
      /\ cstate = "resync"
      /\ resp = IF Clocked = 0 THEN <<63>> ELSE <<>>

\* CS, and the card that listens for a command.
CsInv ==
    /\ pc \in High <=> cs_n
    /\ pc \in High => resp = <<>> /\ cstate = "idle"
    /\ pc = "idle" => ~busy /\ out = <<>>

ResultInv ==
    /\ pc = "ok" /\ op.k \in {"read", "write"} /\ Addressable => sectors[op.lba] = op.data
    /\ DoneIsOnTheCard

TalkInv == FrameInv /\ PollInv /\ AnswerInv /\ WordInv /\ TokenInv /\ BlockInv /\ WriteInv /\ ProgrammingInv

SdInv == StateInv /\ OpInv /\ TriesInv /\ ClockInv /\ PowerInv /\ CsInv /\ TalkInv /\ ResultInv


-----------------------------------------------------------------------------
(* Sequences of bytes.                                                     *)

LEMMA TailRest ==
    ASSUME NEW r, NEW w, NEW k, IsRest(r, w, k), r # <<>>
    PROVE  IsRest(Tail(r), w, k + 1) /\ Head(r) = w[k + 1] /\ Head(r) \in Bytes /\ Len(Tail(r)) = Len(r) - 1
<1>1. r \in Seq(Bytes) /\ k \in 0 .. Len(w) /\ Len(r) = Len(w) - k /\ Len(r) \in Nat /\ Len(r) # 0
  BY EmptySeq DEF IsRest
<1>2. Tail(r) \in Seq(Bytes) /\ Len(Tail(r)) = Len(r) - 1 /\ \A i \in 1 .. Len(Tail(r)) : Tail(r)[i] = r[i + 1]
  BY <1>1
<1>3. Head(r) = r[1] /\ Head(r) \in Bytes /\ Head(r) = w[k + 1]
  BY <1>1 DEF IsRest
<1>4. Len(w) \in Int
  BY <1>1
<1>5. k + 1 \in 0 .. Len(w) /\ Len(Tail(r)) = Len(w) - (k + 1)
  BY <1>1, <1>2, <1>4
<1>6. ASSUME NEW i \in 1 .. Len(Tail(r)) PROVE Tail(r)[i] = w[(k + 1) + i]
  <2>1. i + 1 \in 1 .. Len(r) /\ k + (i + 1) = (k + 1) + i
    BY <1>1, <1>2
  <2> QED
    BY <1>2, <2>1 DEF IsRest
<1> QED
  BY <1>2, <1>3, <1>5, <1>6 DEF IsRest

LEMMA ConcatBytes ==
    ASSUME NEW s \in Seq(Bytes), NEW t \in Seq(Bytes)
    PROVE  /\ s \o t \in Seq(Bytes) /\ Len(s \o t) = Len(s) + Len(t)
           /\ \A i \in 1 .. Len(s) : (s \o t)[i] = s[i]
           /\ \A i \in 1 .. Len(t) : (s \o t)[Len(s) + i] = t[i]
<1>1. /\ s \o t \in Seq(Bytes) /\ Len(s \o t) = Len(s) + Len(t)
      /\ \A i \in 1 .. Len(s) + Len(t) : (s \o t)[i] = IF i <= Len(s) THEN s[i] ELSE t[i - Len(s)]
  BY ConcatProperties, Zenon
<1>2. Len(s) \in Nat /\ Len(t) \in Nat
  OBVIOUS
<1>3. \A i \in 1 .. Len(s) : i \in 1 .. Len(s) + Len(t) /\ i <= Len(s)
  BY <1>2
<1>4. \A i \in 1 .. Len(t) : Len(s) + i \in 1 .. Len(s) + Len(t) /\ ~(Len(s) + i <= Len(s)) /\ (Len(s) + i) - Len(s) = i
  BY <1>2
<1>5. ASSUME NEW i \in 1 .. Len(s) PROVE (s \o t)[i] = s[i]
  BY <1>1, <1>3, Zenon
<1>6. ASSUME NEW i \in 1 .. Len(t) PROVE (s \o t)[Len(s) + i] = t[i]
  <2>1. (s \o t)[Len(s) + i] = t[(Len(s) + i) - Len(s)]
    BY <1>1, <1>4, Zenon
  <2> QED
    BY <1>4, <2>1, Zenon
<1> QED
  BY <1>1, <1>5, <1>6, Zenon

-----------------------------------------------------------------------------
(* The card's answers.                                                     *)

LEMMA AnswerCases ==
    ASSUME NEW c, NEW arg, NEW b
    PROVE  /\ c = 0 => Answer(c, arg, b) = <<255, 1>>
           /\ c = 8 => Answer(c, arg, b) = <<255, 1, 0, 0, 1, 170>>
           /\ c = 55 => Answer(c, arg, b) = IF ready THEN <<255, 0>> ELSE <<255, 1>>
           /\ c \in {1, 41} => Answer(c, arg, b) = IF b THEN <<255, 0>> ELSE <<255, 1>>
           /\ c = 58 => Answer(c, arg, b) = <<255, 0, IF card.sdhc THEN 192 ELSE 128, 255, 128, 0>>
           /\ c \in {16, 24} => Answer(c, arg, b) = <<255, 0>>
           /\ c = 17 => Answer(c, arg, b) =
                IF fault.read_error \/ addr_lba(arg) \in fault.bad_sectors THEN <<255, 0, 255, 8>>
                ELSE <<255, 0, 255, 254>> \o get_sector(addr_lba(arg)) \o <<18, 52>>
<1>1. ASSUME c = 0 PROVE Answer(c, arg, b) = <<255, 1>>
  BY <1>1 DEF Answer
<1>2. ASSUME c = 8 PROVE Answer(c, arg, b) = <<255, 1, 0, 0, 1, 170>>
  BY <1>2 DEF Answer
<1>3. ASSUME c = 55 PROVE Answer(c, arg, b) = IF ready THEN <<255, 0>> ELSE <<255, 1>>
  BY <1>3 DEF Answer
<1>4. ASSUME c \in {1, 41} PROVE Answer(c, arg, b) = IF b THEN <<255, 0>> ELSE <<255, 1>>
  BY <1>4 DEF Answer
<1>5. ASSUME c = 58 PROVE Answer(c, arg, b) = <<255, 0, IF card.sdhc THEN 192 ELSE 128, 255, 128, 0>>
  BY <1>5 DEF Answer
<1>6. ASSUME c \in {16, 24} PROVE Answer(c, arg, b) = <<255, 0>>
  BY <1>6 DEF Answer
<1>7. ASSUME c = 17
      PROVE  Answer(c, arg, b) =
                IF fault.read_error \/ addr_lba(arg) \in fault.bad_sectors THEN <<255, 0, 255, 8>>
                ELSE <<255, 0, 255, 254>> \o get_sector(addr_lba(arg)) \o <<18, 52>>
  BY <1>7 DEF Answer
<1> QED
  BY <1>1, <1>2, <1>3, <1>4, <1>5, <1>6, <1>7, Zenon

\* What a step of the driver may rely on, of the answer to each command.
AnswerFacts(c, arg, a) ==
    /\ a \in Seq(Bytes) /\ Len(a) \in 2 .. Sector + 6 /\ a[1] = 255 /\ a[2] \in {0, 1}
    /\ c \in {0, 8} => a[2] = 1
    /\ c \in {58, 16, 17, 24} => a[2] = 0
    /\ c \notin {8, 58, 17} => Len(a) = 2
    /\ c \in {8, 58} => Len(a) = 6
    /\ c = 58 => a[3] = IF card.sdhc THEN 192 ELSE 128
    /\ c = 17 =>
         IF fault.read_error \/ addr_lba(arg) \in fault.bad_sectors
         THEN Len(a) = 4 /\ a[3] = 255 /\ a[4] = 8
         ELSE /\ Len(a) = Sector + 6 /\ a[3] = 255 /\ a[4] = 254
              /\ \A i \in 1 .. Sector : a[4 + i] = get_sector(addr_lba(arg))[i]

LEMMA SectorBytes ==
    ASSUME StateInv, NEW n
    PROVE  get_sector(n) \in Seq(Bytes) /\ Len(get_sector(n)) = Sector
<1>1. Sector \in Nat
  BY SdCardAssumption
<1>2. CASE n \in Lbas
  BY <1>2 DEF StateInv, get_sector
<1>3. CASE n \notin Lbas
  <2>1. [i \in 1 .. Sector |-> 0] \in Seq(Bytes) /\ Len([i \in 1 .. Sector |-> 0]) = Sector
    BY <1>1 DEF Bytes
  <2> QED
    BY <1>3, <2>1 DEF get_sector
<1> QED
  BY <1>2, <1>3

LEMMA Answers ==
    ASSUME StateInv, NEW c \in InitCommands \cup {17, 24}, NEW arg, NEW b \in BOOLEAN
    PROVE  /\ AnswerFacts(c, arg, Answer(c, arg, b))
           /\ c \in {1, 41} => (Answer(c, arg, b)[2] = 0 <=> b)
<1> DEFINE a == Answer(c, arg, b)
<1>1. Sector \in Nat \ {0}
  BY SdCardAssumption
<1>2. CASE c \notin {8, 58, 17}
  <2>1. \/ c = 0 /\ a = <<255, 1>>
        \/ c = 55 /\ a = <<255, IF ready THEN 0 ELSE 1>>
        \/ c \in {1, 41} /\ a = <<255, IF b THEN 0 ELSE 1>>
        \/ c \in {16, 24} /\ a = <<255, 0>>
    BY <1>2, AnswerCases DEF InitCommands
  <2> HIDE DEF a
  <2>2. \A v \in {0, 1} : <<255, v>> \in Seq(Bytes) /\ Len(<<255, v>>) = 2 /\ <<255, v>>[1] = 255 /\ <<255, v>>[2] = v
    BY DEF Bytes
  <2>3. a \in Seq(Bytes) /\ Len(a) = 2 /\ a[1] = 255 /\ a[2] \in {0, 1} /\ (c = 0 => a[2] = 1)
        /\ (c \in {16, 24} => a[2] = 0) /\ (c \in {1, 41} => (a[2] = 0 <=> b))
    <3>1. CASE a = <<255, 1>> /\ c \notin {16, 24} /\ (c \in {1, 41} => ~b)
      BY <2>2, <3>1
    <3>2. CASE a = <<255, 0>> /\ c # 0 /\ (c \in {1, 41} => b)
      BY <2>2, <3>2
    <3> QED
      BY <2>1, <3>1, <3>2
  <2>4. AnswerFacts(c, arg, a)
    BY <1>1, <1>2, <2>3 DEF AnswerFacts
  <2> QED
    BY <2>3, <2>4 DEF a
<1>3. CASE c = 8
  <2>1. a = <<255, 1, 0, 0, 1, 170>>
    BY <1>3, AnswerCases
  <2> HIDE DEF a
  <2>2. a \in Seq(Bytes) /\ Len(a) = 6 /\ a[1] = 255 /\ a[2] = 1
    BY <2>1 DEF Bytes
  <2>3. AnswerFacts(c, arg, a)
    BY <1>1, <1>3, <2>2 DEF AnswerFacts
  <2> QED
    BY <1>3, <2>3 DEF a
<1>4. CASE c = 58
  <2>1. PICK v \in {192, 128} : a = <<255, 0, v, 255, 128, 0>> /\ v = IF card.sdhc THEN 192 ELSE 128
    BY <1>4, AnswerCases
  <2> HIDE DEF a
  <2>2. a \in Seq(Bytes) /\ Len(a) = 6 /\ a[1] = 255 /\ a[2] = 0 /\ a[3] = v
    BY <2>1 DEF Bytes
  <2>3. AnswerFacts(c, arg, a)
    BY <1>1, <1>4, <2>1, <2>2 DEF AnswerFacts
  <2> QED
    BY <1>4, <2>3 DEF a
<1>5. CASE c = 17
  <2>0. a = IF fault.read_error \/ addr_lba(arg) \in fault.bad_sectors THEN <<255, 0, 255, 8>>
            ELSE <<255, 0, 255, 254>> \o get_sector(addr_lba(arg)) \o <<18, 52>>
    BY <1>5, AnswerCases
  <2>1. CASE fault.read_error \/ addr_lba(arg) \in fault.bad_sectors
    <3>1. a = <<255, 0, 255, 8>>
      BY <2>0, <2>1
    <3> HIDE DEF a
    <3>2. a \in Seq(Bytes) /\ Len(a) = 4 /\ a[1] = 255 /\ a[2] = 0 /\ a[3] = 255 /\ a[4] = 8
      BY <3>1 DEF Bytes
    <3>3. AnswerFacts(c, arg, a)
      BY <1>1, <1>5, <2>1, <3>2 DEF AnswerFacts
    <3> QED
      BY <1>5, <3>3 DEF a
  <2>2. CASE ~(fault.read_error \/ addr_lba(arg) \in fault.bad_sectors)
    <3> DEFINE s == get_sector(addr_lba(arg))
               h == <<255, 0, 255, 254>>
               t == <<18, 52>>
    <3> DEFINE hs == h \o s
    <3>1. a = hs \o t
      BY <2>0, <2>2
    <3>2. s \in Seq(Bytes) /\ Len(s) = Sector
      BY SectorBytes
    <3>3. h \in Seq(Bytes) /\ Len(h) = 4 /\ h[1] = 255 /\ h[2] = 0 /\ h[3] = 255 /\ h[4] = 254
      BY DEF Bytes
    <3>4. t \in Seq(Bytes) /\ Len(t) = 2
      BY DEF Bytes
    <3> HIDE DEF a, s, h, t
    <3>5. /\ hs \in Seq(Bytes) /\ Len(hs) = 4 + Sector
          /\ (\A i \in 1 .. 4 : hs[i] = h[i]) /\ \A i \in 1 .. Sector : hs[4 + i] = s[i]
      <4>1. /\ hs \in Seq(Bytes) /\ Len(hs) = Len(h) + Len(s)
            /\ (\A i \in 1 .. Len(h) : hs[i] = h[i]) /\ \A i \in 1 .. Len(s) : hs[Len(h) + i] = s[i]
        <5>1. h \in Seq(Bytes) /\ s \in Seq(Bytes)
          BY <3>2, <3>3
        <5> QED
          BY <5>1, ConcatBytes, Zenon
      <4> HIDE DEF hs
      <4> QED
        BY <3>2, <3>3, <4>1
    <3> HIDE DEF hs
    <3>6. a \in Seq(Bytes) /\ Len(a) = Sector + 6 /\ \A i \in 1 .. 4 + Sector : a[i] = hs[i]
      <4>1. a \in Seq(Bytes) /\ Len(a) = Len(hs) + Len(t) /\ \A i \in 1 .. Len(hs) : a[i] = hs[i]
        BY <3>1, <3>4, <3>5, ConcatBytes, Zenon
      <4> QED
        BY <1>1, <3>4, <3>5, <4>1
    <3>7. 1 \in 1 .. 4 + Sector /\ 2 \in 1 .. 4 + Sector /\ 3 \in 1 .. 4 + Sector /\ 4 \in 1 .. 4 + Sector
          /\ \A i \in 1 .. Sector : 4 + i \in 1 .. 4 + Sector
      BY <1>1
    <3>8. a[1] = 255 /\ a[2] = 0 /\ a[3] = 255 /\ a[4] = 254 /\ \A i \in 1 .. Sector : a[4 + i] = s[i]
      <4>1. \A i \in 1 .. 4 : i \in 1 .. 4 + Sector /\ a[i] = h[i]
        BY <3>5, <3>6, <3>7
      <4>2. ASSUME NEW i \in 1 .. Sector PROVE a[4 + i] = s[i]
        BY <3>5, <3>6, <3>7
      <4> QED
        BY <3>3, <4>1, <4>2
    <3>9. AnswerFacts(c, arg, a)
      BY <1>1, <1>5, <2>2, <3>6, <3>8 DEF AnswerFacts, s
    <3> QED
      BY <1>5, <3>9 DEF a
  <2> QED
    BY <2>1, <2>2
<1> QED
  BY <1>2, <1>3, <1>4, <1>5


-----------------------------------------------------------------------------
(* Addresses.                                                              *)

LEMMA ArgumentNat ==
    ASSUME OpInv, cmd \in {17, 24} => op.k \in {"read", "write"}
    PROVE  Argument \in Nat
<1>1. Sector \in Nat /\ Lbas \subseteq Nat /\ Sectors \subseteq Nat
  BY SdCardAssumption, AddressAssumption, SMT
<1>2. \A s \in Nat : s * Sector \in Nat
  BY <1>1, SMT
<1>3. CASE cmd \in {17, 24}
  <2>1. op.lba \in Sectors
    BY <1>3, Zenon DEF OpInv
  <2> QED
    <3>1. op.lba \in Nat
      BY <1>1, <2>1, Zenon
    <3>2. op.lba * Sector \in Nat
      BY <1>2, <3>1, Zenon
    <3> QED
      BY <1>3, <3>1, <3>2, SMT DEF Argument, address
<1>4. CASE cmd \notin {17, 24}
  BY <1>4, SMT DEF Argument
<1> QED
  BY <1>3, <1>4

LEMMA FrameBytes ==
    ASSUME Argument \in Nat, cmd \in InitCommands \cup {17, 24}
    PROVE  /\ Frame \in Seq(Bytes) /\ Len(Frame) = 7 /\ Frame[1] = 64 + cmd /\ Frame[6] = 255 /\ Frame[7] = 255
           /\ Frame[1] % 64 = cmd /\ Frame[1] \div 64 = 1
           /\ Arg(Frame) \in Nat
           /\ Argument \div 65536 < 65536 => Arg(Frame) = Argument
<1> DEFINE a == Argument
           b == ArgBytes(a)
<1>1. b[1] \in Bytes /\ b[2] \in Bytes /\ b[3] \in Bytes /\ b[4] \in Bytes
  BY SMT DEF ArgBytes, Bytes
<1>2. a \div 65536 < 65536 => b[1] * 16777216 + b[2] * 65536 + b[3] * 256 + b[4] = a
  BY SMT DEF ArgBytes
<1>3. 64 + cmd \in Bytes /\ (64 + cmd) % 64 = cmd /\ (64 + cmd) \div 64 = 1
  BY SMT DEF InitCommands, Bytes
<1> HIDE DEF a, b
<1>4. Frame = <<64 + cmd, b[1], b[2], b[3], b[4], 255, 255>>
  BY SMT DEF Frame, a, b
<1>5. /\ Frame \in Seq(Bytes) /\ Len(Frame) = 7 /\ Frame[1] = 64 + cmd /\ Frame[2] = b[1] /\ Frame[3] = b[2]
      /\ Frame[4] = b[3] /\ Frame[5] = b[4] /\ Frame[6] = 255 /\ Frame[7] = 255
  BY <1>1, <1>3, <1>4, SMT DEF Bytes
<1>6. Arg(Frame) = b[1] * 16777216 + b[2] * 65536 + b[3] * 256 + b[4]
  BY <1>5, SMT DEF Arg
<1>7. Arg(Frame) \in Nat
  <2>1. \A x1, x2, x3, x4 \in Bytes : x1 * 16777216 + x2 * 65536 + x3 * 256 + x4 \in Nat
    BY SMT DEF Bytes
  <2> QED
    BY <1>1, <1>6, <2>1, SMT
<1> QED
  BY <1>2, <1>3, <1>5, <1>6, <1>7, SMT DEF a

LEMMA Aligned ==
    ASSUME NEW s \in Nat, NEW k \in Nat \ {0}
    PROVE  (s * k) % k = 0 /\ (s * k) \div k = s
OBVIOUS

\* A command for a sector names it to a card that can be addressed, and is aligned for one that asks for it.
LEMMA SectorNamed ==
    ASSUME StateInv, OpInv, ClockInv, cmd \in {17, 24}, op.k \in {"read", "write"}
    PROVE  /\ Addressable => Target = op.lba
           /\ ~Unaligned(cmd, Arg(Frame))
           /\ op.lba \in Lbas
<1> DEFINE s == op.lba
<1>1. s \in Sectors /\ s \in Nat /\ Sector \in Nat \ {0} /\ s \in Lbas
  <2>1. s \in Sectors
    BY Zenon DEF OpInv
  <2> QED
    <3>1. Sectors \subseteq Lbas
      BY AddressAssumption
    <3>2. Lbas \subseteq Nat /\ Sector \in Nat \ {0}
      BY SdCardAssumption
    <3> QED
      BY <2>1, <3>1, <3>2
<1>2. Argument = address(s) /\ Argument \in Nat
  BY ArgumentNat, SMT DEF Argument
<1>3. card \in Cards /\ card.sdhc \in BOOLEAN /\ card.strict \in BOOLEAN
  BY SdCardAssumption, SMT DEF StateInv
<1>4. CASE sdhc
  <2>1. Argument = s /\ card.sdhc /\ s \div 65536 < 65536
    BY <1>1, <1>2, <1>4, AddressAssumption, SMT DEF address, ClockInv
  <2>2. Arg(Frame) = s
    BY <1>2, <2>1, FrameBytes, SMT
  <2>3. ~card.strict => s < 65536
    BY <1>1, <1>3, AddressAssumption, SMT
  <2> QED
    BY <1>1, <1>3, <2>1, <2>2, <2>3, SMT DEF Target, addr_lba, Unaligned, Addressable
<1>5. CASE ~sdhc /\ ~card.sdhc
  <2>1. Argument = s * Sector /\ (s * Sector) \div 65536 < 65536
    BY <1>1, <1>2, <1>3, <1>5, AddressAssumption, SMT DEF address
  <2>2. Arg(Frame) = s * Sector
    BY <1>2, <2>1, FrameBytes, SMT
  <2>3. Arg(Frame) % Sector = 0 /\ Arg(Frame) \div Sector = s
    BY <1>1, <2>2, Aligned, SMT
  <2> QED
    BY <1>1, <1>3, <1>5, <2>3, SMT DEF Target, addr_lba, Unaligned, Addressable
<1>6. CASE ~sdhc /\ card.sdhc
  BY <1>1, <1>6, SMT DEF Unaligned, Addressable
<1> QED
  BY <1>3, <1>4, <1>5, <1>6, SMT DEF StateInv

-----------------------------------------------------------------------------
(* What is clocked.                                                        *)

LEMMA PendingFacts ==
    ASSUME StateInv
    PROVE  /\ Pending \in Seq(Bytes) /\ Len(Pending) \in Nat
           /\ busy => Pending # <<>> /\ Head(Pending) = tx /\ Pending[1] = tx /\ Tail(Pending) = out
                      /\ Len(Pending) = Len(out) + 1
           /\ ~busy => Pending = out
<1>1. out \in Seq(Bytes) /\ tx \in Bytes /\ busy \in BOOLEAN
  BY DEF StateInv
<1>2. CASE busy
  <2>1. Pending = <<tx>> \o out
    BY <1>2 DEF Pending
  <2>2. <<tx>> \in Seq(Bytes) /\ Len(<<tx>>) = 1 /\ <<tx>>[1] = tx
    BY <1>1
  <2>3. Pending \in Seq(Bytes) /\ Len(Pending) = 1 + Len(out) /\ Pending[1] = tx
    BY <1>1, <2>1, <2>2, ConcatBytes
  <2>4. Head(Pending) = tx /\ Tail(Pending) = out
    BY <1>1, <2>1
  <2> QED
    BY <1>1, <1>2, <2>3, <2>4
<1>3. CASE ~busy
  BY <1>1, <1>3 DEF Pending
<1> QED
  BY <1>1, <1>2, <1>3


\* The answer and the frame are those of the command as long as none of these changes.
KeepsAnswer == UNCHANGED <<card, fault, sectors, ready, cmd, is_v2, sdhc>> /\ op'.lba = op.lba

LEMMA AnswerKept ==
    ASSUME KeepsAnswer
    PROVE  Full' = Full /\ Frame' = Frame /\ Target' = Target /\ (ReadFails' <=> ReadFails) /\ (Mute' <=> Mute)
<1>1. Argument' = Argument
  BY SMT DEF KeepsAnswer, Argument, address
<1>2. Frame' = Frame
  BY <1>1, SMT DEF Frame, KeepsAnswer
<1>3. Arg(Frame)' = Arg(Frame)
  BY <1>2
<1>4. Target' = Target
  BY <1>2 DEF Target, addr_lba, KeepsAnswer
<1>5. Full' = Full
  BY <1>2, SMT DEF Full, Answer, addr_lba, get_sector, KeepsAnswer
<1>6. (ReadFails' <=> ReadFails) /\ (Mute' <=> Mute)
  BY <1>4 DEF ReadFails, Mute, KeepsAnswer
<1> QED
  BY <1>2, <1>4, <1>5, <1>6

LEMMA TransferStep ==
    ASSUME SdInv, Transfer
    PROVE  SdInv'
<1> USE DEF SdInv, TalkInv
<1>1. out \in Seq(Bytes) /\ out # <<>> /\ ~busy /\ busy' /\ tx' = Head(out) /\ out' = Tail(out)
  BY DEF StateInv, Transfer, Idle
<1>2. tx' \in Bytes /\ out' \in Seq(Bytes) /\ <<tx'>> \o out' = out
  BY <1>1
<1>3. Pending' = Pending
  BY <1>1, <1>2 DEF Pending
<1>4. /\ UNCHANGED <<cardVars, rx, cs_n, clk_fast, got, pc, tries, polls, cmd, inited, sdhc, is_v2, op, result, ops>>
      /\ KeepsAnswer
  BY DEF Transfer, KeepsAnswer, cardVars
<1>5. Full' = Full /\ Frame' = Frame /\ Target' = Target /\ (ReadFails' <=> ReadFails) /\ (Mute' <=> Mute)
  BY <1>4, AnswerKept
<1> USE <1>4 DEF cardVars
<1>6. StateInv'
  BY <1>1, <1>2, <1>3 DEF StateInv
<1>7. OpInv' /\ TriesInv' /\ ClockInv' /\ CsInv'
  <2>1. pc # "idle"
    BY <1>1 DEF CsInv
  <2> QED
    BY <2>1 DEF OpInv, TriesInv, ClockInv, CsInv
<1>8. PowerInv'
  BY <1>3 DEF PowerInv, InFrame
<1>9. ResultInv'
  BY DEF ResultInv, DoneIsOnTheCard, Addressable
<1>10. (InFrame' <=> InFrame) /\ Clocked' = Clocked /\ Written' = Written /\ DataResponse' = DataResponse
  BY <1>3 DEF InFrame, Clocked, Written, DataResponse
<1>11. FrameInv' /\ PollInv'
  BY <1>3, <1>5, <1>10 DEF FrameInv, PollInv
<1>12. AnswerInv'
  BY <1>3, <1>5, <1>10 DEF AnswerInv
<1>13. WordInv' /\ TokenInv' /\ BlockInv'
  BY <1>3, <1>5, <1>10 DEF WordInv, TokenInv, BlockInv
<1>14. WriteInv' /\ ProgrammingInv'
  BY <1>3, <1>10 DEF WriteInv, ProgrammingInv
<1> QED
  BY <1>6, <1>7, <1>8, <1>9, <1>11, <1>12, <1>13, <1>14 DEF TalkInv


LEMMA ByteFacts ==
    ASSUME SdInv, ByteClocked
    PROVE  /\ busy /\ Pending # <<>> /\ tx = Pending[1] /\ tx = Head(Pending) /\ Pending' = Tail(Pending)
           /\ Pending \in Seq(Bytes) /\ Len(Pending) \in Nat \ {0} /\ Pending' \in Seq(Bytes)
           /\ Len(Pending') = Len(Pending) - 1
           /\ begin_byte \in Bytes
           /\ got \in Seq(Bytes) /\ got' \in Seq(Bytes) /\ Len(got) \in Nat /\ Len(got') = Len(got) + 1
           /\ got' # <<>> /\ Last(got') = begin_byte /\ got'[Len(got) + 1] = begin_byte
           /\ \A i \in 1 .. Len(got) : got'[i] = got[i]
           /\ Clocked' = Clocked + 1 /\ Clocked \in Int
           /\ UNCHANGED <<tx, cs_n, clk_fast, out, pc, tries, polls, cmd, inited, sdhc, is_v2, op, result, ops, card, fault>>
<1>1. StateInv
  BY DEF SdInv
<1>2. /\ busy /\ ~busy' /\ rx' = begin_byte /\ got' = Append(got, begin_byte) /\ exchange(tx, ~cs_n, clk_fast)
      /\ UNCHANGED <<tx, cs_n, clk_fast, out, pc, tries, polls, cmd, inited, sdhc, is_v2, op, result, ops>>
  BY DEF ByteClocked
<1>3. UNCHANGED <<card, fault>>
  BY <1>2 DEF exchange
<1>4. /\ Pending \in Seq(Bytes) /\ Len(Pending) \in Nat /\ Pending # <<>> /\ Head(Pending) = tx /\ Pending[1] = tx
      /\ Tail(Pending) = out /\ Len(Pending) = Len(out) + 1
  BY <1>1, <1>2, PendingFacts, Zenon
<1>5. Pending' = out /\ out \in Seq(Bytes) /\ Len(out) \in Nat
  BY <1>1, <1>2 DEF Pending, StateInv
<1>6. resp \in Seq(Bytes) /\ got \in Seq(Bytes) /\ polls \in Int
  BY <1>1 DEF StateInv
<1>7. begin_byte \in Bytes
  <2>1. resp # <<>> => Head(resp) \in Bytes
    BY <1>6
  <2>2. 255 \in Bytes
    BY DEF Bytes
  <2> QED
    BY <2>1, <2>2 DEF begin_byte
<1> DEFINE b == begin_byte
<1> HIDE DEF b
<1>8. /\ got' \in Seq(Bytes) /\ Len(got) \in Nat /\ Len(got') = Len(got) + 1 /\ got'[Len(got) + 1] = b
      /\ \A i \in 1 .. Len(got) : got'[i] = got[i]
  <2>1. got' = Append(got, b) /\ b \in Bytes
    BY <1>2, <1>7 DEF b
  <2> QED
    BY <1>6, <2>1
<1>9. got' # <<>> /\ Last(got') = b
  BY <1>8 DEF Last
<1>10. Clocked \in Int /\ Clocked' = Clocked + 1
  BY <1>2, <1>4, <1>5, <1>6 DEF Clocked
<1> QED
  <2>1. Len(Pending) \in Nat \ {0} /\ Len(Pending') = Len(Pending) - 1
    BY <1>4, <1>5
  <2> QED
    BY <1>2, <1>3, <1>4, <1>5, <1>6, <1>7, <1>8, <1>9, <1>10, <2>1, Zenon DEF b


\* A byte that is no command's last and no block's.
CardKeeps == UNCHANGED <<sectors, ready, lba, first_cmd_seen, violations>>

LEMMA CardSends ==
    ASSUME SdInv, ByteClocked, resp # <<>>
    PROVE  CardKeeps /\ resp' = Tail(resp) /\ cstate' = cstate /\ cbuf' = cbuf /\ begin_byte = Head(resp)
           /\ (idle_clocks' = IF cs_n /\ ~first_cmd_seen THEN idle_clocks + 8 ELSE idle_clocks)
<1>1. clk_fast => ready
  BY DEF SdInv, ClockInv
<1> QED
  BY <1>1 DEF ByteClocked, exchange, CardKeeps, begin_byte

LEMMA CardDeaf ==
    ASSUME SdInv, ByteClocked, resp = <<>>, cs_n
    PROVE  CardKeeps /\ resp' = <<>> /\ cstate' = cstate /\ cbuf' = cbuf
           /\ (idle_clocks' = IF ~first_cmd_seen THEN idle_clocks + 8 ELSE idle_clocks)
<1>1. clk_fast => ready
  BY DEF SdInv, ClockInv
<1> QED
  BY <1>1 DEF ByteClocked, exchange, CardKeeps

LEMMA CardHears ==
    ASSUME SdInv, ByteClocked, resp = <<>>, ~cs_n
    PROVE  /\ begin_byte = 255 /\ idle_clocks' = idle_clocks
           /\ cstate = "idle" =>
                /\ CardKeeps /\ resp' = <<>>
                /\ IF tx \div 64 = 1 THEN cstate' = "cmd" /\ cbuf' = <<tx>> ELSE cstate' = "idle" /\ cbuf' = cbuf
           /\ cstate = "cmd" /\ Len(Append(cbuf, tx)) # 6 =>
                CardKeeps /\ resp' = <<>> /\ cstate' = "cmd" /\ cbuf' = Append(cbuf, tx)
           /\ cstate = "cmd" /\ Len(Append(cbuf, tx)) = 6 =>
                /\ command(Append(cbuf, tx)[1] % 64, Arg(Append(cbuf, tx)), <<>>, {})
                /\ cbuf' = Append(cbuf, tx) /\ sectors' = sectors
           /\ cstate = "wait_token" =>
                /\ CardKeeps /\ resp' = <<>>
                /\ IF tx = 254 THEN cstate' = "data" /\ cbuf' = <<>> ELSE cstate' = cstate /\ cbuf' = cbuf
           /\ cstate = "data" =>
                /\ UNCHANGED <<ready, lba, first_cmd_seen, violations>> /\ cbuf' = Append(cbuf, tx)
                /\ IF Len(Append(cbuf, tx)) < Sector + 2
                   THEN resp' = <<>> /\ cstate' = cstate /\ sectors' = sectors
                   ELSE /\ cstate' = "resync" /\ resp' = <<>> \o (IF fault.write_reject THEN <<11>> ELSE <<5, 63>>)
                        /\ \/ sectors' = sectors
                           \/ lba \in Lbas /\ sectors' = [sectors EXCEPT ![lba] = SubSeq(Append(cbuf, tx), 1, Sector)]
           /\ cstate = "resync" => CardKeeps /\ resp' = <<>> /\ cstate' = cstate /\ cbuf' = cbuf
<1>1. clk_fast => ready
  BY DEF SdInv, ClockInv
<1> DEFINE buf == Append(cbuf, tx)
<1>2. begin_byte = 255 /\ idle_clocks' = idle_clocks
  BY DEF ByteClocked, exchange, begin_byte
<1>3. ASSUME cstate = "idle"
      PROVE  /\ CardKeeps /\ resp' = <<>>
             /\ IF tx \div 64 = 1 THEN cstate' = "cmd" /\ cbuf' = <<tx>> ELSE cstate' = "idle" /\ cbuf' = cbuf
  BY <1>1, <1>3 DEF ByteClocked, exchange, CardKeeps
<1>4. ASSUME cstate = "cmd", Len(buf) # 6
      PROVE  CardKeeps /\ resp' = <<>> /\ cstate' = "cmd" /\ cbuf' = buf
  BY <1>1, <1>4 DEF ByteClocked, exchange, CardKeeps
<1>5. ASSUME cstate = "cmd", Len(buf) = 6
      PROVE  command(buf[1] % 64, Arg(buf), <<>>, {}) /\ cbuf' = buf /\ sectors' = sectors
  <2>1. (IF card.strict /\ ~ready /\ clk_fast /\ ~fast_reported THEN {"sclk"} ELSE {}) = {}
    BY <1>1
  <2>2. exchange(tx, ~cs_n, clk_fast)
    BY DEF ByteClocked
  <2> HIDE DEF buf
  <2>3. command(buf[1] % 64, Arg(buf), IF resp # <<>> THEN Tail(resp) ELSE resp,
                IF card.strict /\ ~ready /\ clk_fast /\ ~fast_reported THEN {"sclk"} ELSE {})
        /\ cbuf' = buf /\ sectors' = sectors
    BY <1>5, <2>2, Zenon DEF exchange, buf
  <2>4. (IF resp # <<>> THEN Tail(resp) ELSE resp) = <<>>
    OBVIOUS
  <2> QED
    BY <2>1, <2>3, <2>4, Zenon
<1>6. ASSUME cstate = "wait_token"
      PROVE  /\ CardKeeps /\ resp' = <<>>
             /\ IF tx = 254 THEN cstate' = "data" /\ cbuf' = <<>> ELSE cstate' = cstate /\ cbuf' = cbuf
  BY <1>1, <1>6 DEF ByteClocked, exchange, CardKeeps
<1>7. ASSUME cstate = "data"
      PROVE  /\ UNCHANGED <<ready, lba, first_cmd_seen, violations>> /\ cbuf' = buf
             /\ IF Len(buf) < Sector + 2
                THEN resp' = <<>> /\ cstate' = cstate /\ sectors' = sectors
                ELSE /\ cstate' = "resync" /\ resp' = <<>> \o (IF fault.write_reject THEN <<11>> ELSE <<5, 63>>)
                     /\ \/ sectors' = sectors
                        \/ lba \in Lbas /\ sectors' = [sectors EXCEPT ![lba] = SubSeq(buf, 1, Sector)]
  BY <1>1, <1>7 DEF ByteClocked, exchange
<1>8. ASSUME cstate = "resync" PROVE CardKeeps /\ resp' = <<>> /\ cstate' = cstate /\ cbuf' = cbuf
  BY <1>1, <1>8 DEF ByteClocked, exchange, CardKeeps
<1> QED
  BY <1>2, <1>3, <1>4, <1>5, <1>6, <1>7, <1>8, Zenon


LEMMA HighTalk ==
    ASSUME pc' \in High
    PROVE  TalkInv'
BY DEF TalkInv, FrameInv, PollInv, AnswerInv, WordInv, TokenInv, BlockInv, WriteInv, ProgrammingInv, InFrame, High

CardTypes ==
    /\ resp \in Seq(Bytes) /\ Len(resp) <= Sector + 6 /\ cbuf \in Seq(Bytes) /\ Len(cbuf) <= Sector + 6
    /\ cstate \in {"idle", "cmd", "wait_token", "data", "resync"}

\* What a byte does not change of the driver's side.
LEMMA ByteOthers ==
    ASSUME SdInv, ByteClocked
    PROVE  /\ OpInv' /\ TriesInv' /\ (ready' = ready => ClockInv')
           /\ (pc \in High => resp' = <<>> /\ cstate' = "idle") => CsInv'
           /\ CardTypes' /\ sectors' \in [Lbas -> Seq(Bytes)] /\ (\A n \in Lbas : Len(sectors'[n]) = Sector)
              /\ lba' \in Nat /\ ready' \in BOOLEAN /\ first_cmd_seen' \in BOOLEAN /\ violations' = {} => StateInv'
           /\ sectors' = sectors => ResultInv'
<1>1. StateInv /\ OpInv /\ TriesInv /\ ClockInv /\ CsInv /\ ResultInv
  BY DEF SdInv
<1>2. /\ UNCHANGED <<tx, cs_n, clk_fast, out, pc, tries, polls, cmd, inited, sdhc, is_v2, op, result, ops, card, fault>>
      /\ got' \in Seq(Bytes) /\ Len(got) \in Nat /\ Len(got') = Len(got) + 1
      /\ Len(Pending) \in Nat /\ Len(Pending') = Len(Pending) - 1
  BY ByteFacts
<1>3. OpInv'
  BY <1>1, <1>2 DEF OpInv
<1>4. TriesInv'
  BY <1>1, <1>2 DEF TriesInv
<1>5. ASSUME ready' = ready PROVE ClockInv'
  BY <1>1, <1>2, <1>5 DEF ClockInv
<1>6. ASSUME pc \in High => resp' = <<>> /\ cstate' = "idle" PROVE CsInv'
  <2>1. pc # "idle"
    BY <1>1 DEF CsInv, ByteClocked
  <2> QED
    BY <1>1, <1>2, <1>6, <2>1 DEF CsInv
<1>7. ASSUME CardTypes', sectors' \in [Lbas -> Seq(Bytes)], \A n \in Lbas : Len(sectors'[n]) = Sector,
             lba' \in Nat, ready' \in BOOLEAN, first_cmd_seen' \in BOOLEAN, violations' = {}
      PROVE  StateInv'
  <2>1. busy' \in BOOLEAN /\ rx' \in Bytes
    BY ByteFacts DEF ByteClocked
  <2>2. Len(got') + Len(Pending') = Len(got) + Len(Pending)
    BY <1>2
  <2> QED
    BY <1>1, <1>2, <1>7, <2>1, <2>2 DEF StateInv, CardTypes
<1>8. ASSUME sectors' = sectors PROVE ResultInv'
  BY <1>1, <1>2, <1>8 DEF ResultInv, DoneIsOnTheCard, Addressable
<1> QED
  BY <1>3, <1>4, <1>5, <1>6, <1>7, <1>8, Zenon

LEMMA ByteKeeps ==
    ASSUME SdInv, ByteClocked, CardKeeps
    PROVE  Full' = Full /\ Frame' = Frame /\ Target' = Target /\ (ReadFails' <=> ReadFails) /\ (Mute' <=> Mute)
<1>1. KeepsAnswer
  BY ByteFacts DEF CardKeeps, KeepsAnswer
<1> QED
  BY <1>1, AnswerKept

LEMMA ByteStep ==
    ASSUME SdInv, ByteClocked, CardKeeps, CardTypes', TalkInv', InFrame => InFrame',
           pc \in High => resp' = <<>> /\ cstate' = "idle",
           idle_clocks' = IF cs_n /\ ~first_cmd_seen THEN idle_clocks + 8 ELSE idle_clocks
    PROVE  SdInv'
<1>1. StateInv /\ PowerInv /\ CsInv
  BY DEF SdInv
<1>2. /\ sectors' \in [Lbas -> Seq(Bytes)] /\ (\A n \in Lbas : Len(sectors'[n]) = Sector)
      /\ lba' \in Nat /\ ready' \in BOOLEAN /\ first_cmd_seen' \in BOOLEAN /\ violations' = {}
      /\ ready' = ready /\ sectors' = sectors /\ first_cmd_seen' = first_cmd_seen
  BY <1>1 DEF CardKeeps, StateInv
<1>3. OpInv' /\ TriesInv' /\ ClockInv' /\ CsInv' /\ StateInv' /\ ResultInv'
  BY <1>2, ByteOthers, Zenon
<1>4. PowerInv'
  <2>1. /\ pc' = pc /\ cmd' = cmd /\ inited' = inited /\ result' = result
        /\ Len(Pending') = Len(Pending) - 1 /\ Len(Pending) \in Nat
    BY ByteFacts
  <2>2. idle_clocks \in Nat /\ idle_clocks' \in Nat
    BY <1>1 DEF PowerInv
  <2>3. pc = "cmd0" => cs_n
    BY <1>1 DEF CsInv, High
  <2>4. pc = "cmd0" /\ ~first_cmd_seen => idle_clocks' + 8 * Len(Pending') = idle_clocks + 8 * Len(Pending)
    BY <2>1, <2>2, <2>3
  <2>5. idle_clocks' >= idle_clocks
    BY <2>2
  <2>6. CASE ~first_cmd_seen
    BY <1>1, <1>2, <2>1, <2>2, <2>4, <2>5, <2>6 DEF PowerInv, POWER_UP_CLOCKS
  <2> QED
    BY <1>2, <2>2, <2>6 DEF PowerInv
<1> QED
  BY <1>3, <1>4 DEF SdInv

LEMMA HighByte ==
    ASSUME SdInv, ByteClocked, pc \in High
    PROVE  SdInv'
<1>1. cs_n /\ resp = <<>> /\ cstate = "idle" /\ StateInv
  BY DEF SdInv, CsInv
<1>2. CardKeeps /\ resp' = <<>> /\ cstate' = cstate /\ cbuf' = cbuf
      /\ (idle_clocks' = IF ~first_cmd_seen THEN idle_clocks + 8 ELSE idle_clocks)
  BY <1>1, CardDeaf, Zenon
<1>3. pc' \in High /\ ~InFrame
  BY ByteFacts DEF High, InFrame
<1>4. CardTypes'
  BY <1>1, <1>2 DEF CardTypes, StateInv
<1> QED
  BY <1>1, <1>2, <1>3, <1>4, HighTalk, ByteStep


LEMMA SendsRest ==
    ASSUME SdInv, ByteClocked, NEW w, NEW k, IsRest(resp, w, k), resp # <<>>
    PROVE  /\ CardKeeps /\ CardTypes' /\ cstate' = cstate /\ cbuf' = cbuf
           /\ IsRest(resp', w, k + 1) /\ begin_byte = w[k + 1]
           /\ (idle_clocks' = IF cs_n /\ ~first_cmd_seen THEN idle_clocks + 8 ELSE idle_clocks)
<1>1. CardKeeps /\ resp' = Tail(resp) /\ cstate' = cstate /\ cbuf' = cbuf /\ begin_byte = Head(resp)
      /\ (idle_clocks' = IF cs_n /\ ~first_cmd_seen THEN idle_clocks + 8 ELSE idle_clocks)
  BY CardSends, Zenon
<1>2. IsRest(Tail(resp), w, k + 1) /\ Head(resp) = w[k + 1] /\ Len(Tail(resp)) = Len(resp) - 1
  BY TailRest, Zenon
<1>3. CardTypes'
  <2>1. Tail(resp) \in Seq(Bytes)
    BY <1>2 DEF IsRest
  <2>2. resp \in Seq(Bytes) /\ Len(resp) <= Sector + 6 /\ Sector \in Nat
    BY SdCardAssumption DEF SdInv, StateInv
  <2>3. Len(Tail(resp)) <= Sector + 6
    BY <1>2, <2>2
  <2>4. cbuf \in Seq(Bytes) /\ Len(cbuf) <= Sector + 6 /\ cstate \in {"idle", "cmd", "wait_token", "data", "resync"}
    BY DEF SdInv, StateInv
  <2> QED
    BY <1>1, <2>1, <2>3, <2>4 DEF CardTypes
<1> QED
  BY <1>1, <1>2, <1>3, Zenon

LEMMA TalkAt ==
    /\ pc' \in {"r7", "ocr"} /\ WordInv' => TalkInv'
    /\ pc' = "data" /\ BlockInv' => TalkInv'
    /\ pc' = "accepted" /\ WriteInv' => TalkInv'
    /\ pc' = "programming" /\ PollInv' /\ ProgrammingInv' => TalkInv'
    /\ pc' = "token" /\ PollInv' /\ TokenInv' => TalkInv'
    /\ pc' = "r1" /\ FrameInv' /\ PollInv' /\ AnswerInv' => TalkInv'
<1> USE DEF TalkInv, FrameInv, PollInv, AnswerInv, WordInv, TokenInv, BlockInv, WriteInv, ProgrammingInv, InFrame
<1>1. pc' \in {"r7", "ocr"} /\ WordInv' => TalkInv'
  OBVIOUS
<1>2. pc' = "data" /\ BlockInv' => TalkInv'
  OBVIOUS
<1>3. pc' = "accepted" /\ WriteInv' => TalkInv'
  OBVIOUS
<1>4. pc' = "programming" /\ PollInv' /\ ProgrammingInv' => TalkInv'
  OBVIOUS
<1>5. pc' = "token" /\ PollInv' /\ TokenInv' => TalkInv'
  OBVIOUS
<1>6. pc' = "r1" /\ FrameInv' /\ PollInv' /\ AnswerInv' => TalkInv'
  OBVIOUS
<1> HIDE DEF TalkInv, FrameInv, PollInv, AnswerInv, WordInv, TokenInv, BlockInv, WriteInv, ProgrammingInv, InFrame
<1> QED
  BY <1>1, <1>2, <1>3, <1>4, <1>5, <1>6, Zenon

LEMMA WordByte ==
    ASSUME SdInv, ByteClocked, pc \in {"r7", "ocr"}
    PROVE  SdInv'
<1>1. /\ StateInv /\ OpInv /\ CsInv /\ cmd \in {8, 58} /\ ~Mute /\ cstate = "idle" /\ ~cs_n
      /\ Len(got) + Len(Pending) = 4 /\ IsRest(resp, Full, 2 + Len(got))
      /\ \A i \in 1 .. Len(got) : got[i] = Full[2 + i]
  BY DEF SdInv, TalkInv, WordInv, OpInv, CsInv, High
<1>2. AnswerFacts(cmd, Arg(Frame), Full)
  BY <1>1, Answers DEF Full, StateInv, InitCommands
<1>3. Len(Full) = 6
  BY <1>1, <1>2 DEF AnswerFacts
<1>4. Len(got) \in Nat /\ Len(Pending) \in Nat \ {0}
  BY ByteFacts
<1>5. resp # <<>>
  <2>1. Len(resp) = 6 - (2 + Len(got))
    BY <1>1, <1>3 DEF IsRest
  <2> QED
    BY <1>1, <1>4, <2>1
<1> DEFINE k == 2 + Len(got)
<1>6. IsRest(resp, Full, k)
  BY <1>1
<1> HIDE DEF k
<1>7. /\ CardKeeps /\ CardTypes' /\ cstate' = cstate /\ IsRest(resp', Full, k + 1) /\ begin_byte = Full[k + 1]
      /\ (idle_clocks' = IF cs_n /\ ~first_cmd_seen THEN idle_clocks + 8 ELSE idle_clocks)
  BY <1>5, <1>6, SendsRest, Zenon
<1>8. Full' = Full /\ (Mute' <=> Mute) /\ pc' = pc /\ Len(got') = Len(got) + 1 /\ Len(Pending') = Len(Pending) - 1
      /\ got'[Len(got) + 1] = begin_byte /\ \A i \in 1 .. Len(got) : got'[i] = got[i]
  BY <1>7, ByteFacts, ByteKeeps
<1>9. WordInv'
  <2>1. k + 1 = 2 + Len(got') /\ Len(got') + Len(Pending') = 4
    BY <1>1, <1>4, <1>8 DEF k
  <2>2. ASSUME NEW i \in 1 .. Len(got') PROVE got'[i] = Full[2 + i]
    <3>1. CASE i = Len(got) + 1
      <4>1. 2 + i = k + 1
        BY <1>4, <3>1 DEF k
      <4> QED
        BY <1>7, <1>8, <3>1, <4>1
    <3>2. CASE i # Len(got) + 1
      <4>1. i \in 1 .. Len(got)
        BY <1>4, <1>8, <3>2
      <4> QED
        BY <1>1, <1>8, <4>1
    <3> QED
      BY <3>1, <3>2
  <2>3. IsRest(resp', Full, 2 + Len(got'))
    BY <1>7, <2>1, Zenon
  <2> QED
    BY <1>1, <1>7, <1>8, <2>1, <2>2, <2>3 DEF WordInv
<1>10. TalkInv' /\ ~InFrame /\ pc \notin High
  BY <1>8, <1>9, TalkAt DEF InFrame, High
<1> QED
  BY <1>7, <1>10, ByteStep, Zenon

LEMMA BlockByte ==
    ASSUME SdInv, ByteClocked, pc = "data"
    PROVE  SdInv'
<1>1. /\ StateInv /\ OpInv /\ CsInv /\ cmd = 17 /\ ~Mute /\ ~ReadFails /\ cstate = "idle" /\ ~cs_n
      /\ Len(got) + Len(Pending) = Sector + 2 /\ IsRest(resp, Full, 4 + Len(got))
      /\ \A i \in 1 .. Len(got) : got[i] = Full[4 + i]
  BY DEF SdInv, TalkInv, BlockInv, OpInv, CsInv, High
<1>2. AnswerFacts(cmd, Arg(Frame), Full)
  BY <1>1, Answers DEF Full, StateInv, InitCommands
<1>3. Len(Full) = Sector + 6 /\ Sector \in Nat
  BY <1>1, <1>2, SdCardAssumption DEF AnswerFacts, ReadFails, Target
<1>4. Len(got) \in Nat /\ Len(Pending) \in Nat \ {0}
  BY ByteFacts
<1>5. resp # <<>>
  <2>1. Len(resp) = (Sector + 6) - (4 + Len(got))
    BY <1>1, <1>3 DEF IsRest
  <2> QED
    BY <1>1, <1>3, <1>4, <2>1
<1> DEFINE k == 4 + Len(got)
<1>6. IsRest(resp, Full, k)
  BY <1>1
<1> HIDE DEF k
<1>7. /\ CardKeeps /\ CardTypes' /\ cstate' = cstate /\ IsRest(resp', Full, k + 1) /\ begin_byte = Full[k + 1]
      /\ (idle_clocks' = IF cs_n /\ ~first_cmd_seen THEN idle_clocks + 8 ELSE idle_clocks)
  BY <1>5, <1>6, SendsRest, Zenon
<1>8. Full' = Full /\ (Mute' <=> Mute) /\ (ReadFails' <=> ReadFails) /\ pc' = pc /\ Len(got') = Len(got) + 1
      /\ Len(Pending') = Len(Pending) - 1
      /\ got'[Len(got) + 1] = begin_byte /\ \A i \in 1 .. Len(got) : got'[i] = got[i]
  BY <1>7, ByteFacts, ByteKeeps
<1>9. BlockInv'
  <2>1. k + 1 = 4 + Len(got') /\ Len(got') + Len(Pending') = Sector + 2
    BY <1>1, <1>3, <1>4, <1>8 DEF k
  <2>2. ASSUME NEW i \in 1 .. Len(got') PROVE got'[i] = Full[4 + i]
    <3>1. CASE i = Len(got) + 1
      <4>1. 4 + i = k + 1
        BY <1>4, <3>1 DEF k
      <4> QED
        BY <1>7, <1>8, <3>1, <4>1
    <3>2. CASE i # Len(got) + 1
      <4>1. i \in 1 .. Len(got)
        BY <1>4, <1>8, <3>2
      <4> QED
        BY <1>1, <1>8, <4>1
    <3> QED
      BY <3>1, <3>2
  <2>3. IsRest(resp', Full, 4 + Len(got'))
    BY <1>7, <2>1, Zenon
  <2> QED
    BY <1>1, <1>7, <1>8, <2>1, <2>2, <2>3 DEF BlockInv
<1>10. TalkInv' /\ ~InFrame /\ pc \notin High
  BY <1>1, <1>8, <1>9, TalkAt DEF InFrame, High
<1> QED
  BY <1>7, <1>10, ByteStep, Zenon


\* A byte that the card hears and takes no notice of.
LEMMA Unheard ==
    ASSUME SdInv, ByteClocked, resp = <<>>, ~cs_n,
           cstate = "resync" \/ (cstate = "idle" /\ tx = 255)
    PROVE  /\ CardKeeps /\ CardTypes' /\ cstate' = cstate /\ resp' = <<>> /\ begin_byte = 255
           /\ (idle_clocks' = IF cs_n /\ ~first_cmd_seen THEN idle_clocks + 8 ELSE idle_clocks)
<1>1. 255 \div 64 # 1
  OBVIOUS
<1>2. CardKeeps /\ cstate' = cstate /\ resp' = <<>> /\ begin_byte = 255 /\ cbuf' = cbuf /\ idle_clocks' = idle_clocks
  BY <1>1, CardHears
<1>3. CardTypes'
  BY <1>2 DEF CardTypes, SdInv, StateInv
<1> QED
  BY <1>2, <1>3

LEMMA PolledByte ==
    ASSUME SdInv, ByteClocked, pc \in {"r1", "token", "programming"}, ~InFrame
    PROVE  Pending = <<255>> /\ tx = 255 /\ Pending' = <<>> /\ Clocked' = polls /\ Clocked = polls - 1
           /\ ~InFrame' /\ PollInv' /\ pc' = pc /\ cmd' = cmd /\ polls' = polls /\ polls \in Int
<1>1. Pending = <<255>>
  BY ByteFacts DEF SdInv, TalkInv, PollInv
<1>2. /\ tx = 255 /\ Pending' = <<>> /\ Clocked = polls - 1 /\ polls' = polls /\ pc' = pc /\ cmd' = cmd /\ polls \in Int
      /\ Clocked' = polls
  <2>1. polls \in Int
    BY DEF SdInv, StateInv
  <2>2. Len(<<255>>) = 1 /\ Tail(<<255>>) = <<>> /\ Head(<<255>>) = 255
    OBVIOUS
  <2>3. Clocked = polls - 1
    BY <1>1, <2>2 DEF Clocked
  <2>4. Clocked' = polls
    BY <2>1, <2>3, ByteFacts
  <2> QED
    BY <1>1, <2>1, <2>2, <2>3, <2>4, ByteFacts
<1>3. ~InFrame'
  BY ByteFacts DEF InFrame
<1> QED
  BY <1>1, <1>2, <1>3, ByteFacts DEF PollInv

LEMMA ProgrammingByte ==
    ASSUME SdInv, ByteClocked, pc = "programming"
    PROVE  SdInv'
<1>1. ~cs_n /\ cstate = "resync" /\ (resp = IF Clocked = 0 THEN <<63>> ELSE <<>>) /\ polls >= 1 /\ ~InFrame
  BY DEF SdInv, CsInv, High, TalkInv, ProgrammingInv, TriesInv, InFrame
<1>2. /\ Clocked' = polls /\ Clocked' # 0 /\ PollInv' /\ pc' = pc
  BY <1>1, PolledByte
<1>3. /\ CardKeeps /\ CardTypes' /\ cstate' = cstate /\ resp' = <<>>
      /\ (idle_clocks' = IF cs_n /\ ~first_cmd_seen THEN idle_clocks + 8 ELSE idle_clocks)
  <2>1. CASE Clocked # 0
    BY <1>1, <2>1, Unheard
  <2>2. CASE Clocked = 0
    <3>1. resp = <<63>> /\ IsRest(resp, <<63>>, 0) /\ resp # <<>>
      BY <1>1, <2>2 DEF IsRest, Bytes
    <3>2. /\ CardKeeps /\ CardTypes' /\ cstate' = cstate /\ resp' = Tail(resp)
          /\ (idle_clocks' = IF cs_n /\ ~first_cmd_seen THEN idle_clocks + 8 ELSE idle_clocks)
      BY <3>1, SendsRest, CardSends
    <3> QED
      BY <3>1, <3>2
  <2> QED
    BY <2>1, <2>2
<1>4. TalkInv'
  BY <1>1, <1>2, <1>3, TalkAt DEF ProgrammingInv
<1>5. pc \notin High
  BY DEF High
<1> QED
  BY <1>1, <1>3, <1>4, <1>5, ByteStep, Zenon

LEMMA TokenByte ==
    ASSUME SdInv, ByteClocked, pc = "token"
    PROVE  SdInv'
<1>1. /\ ~cs_n /\ cstate = "idle" /\ ~Mute /\ ~InFrame /\ cmd = 17 /\ pc \notin High /\ polls >= 1
      /\ polls <= 2 \/ ReadFails
      /\ IF Clocked <= 2 THEN IsRest(resp, Full, 2 + Clocked) ELSE resp = <<>>
  BY DEF SdInv, CsInv, High, TalkInv, TokenInv, TriesInv, InFrame, OpInv
<1>2. AnswerFacts(cmd, Arg(Frame), Full)
  BY <1>1, Answers DEF SdInv, Full, StateInv, InitCommands
<1>3. Len(Full) \in Nat /\ Len(Full) >= 4 /\ (ReadFails => Len(Full) = 4)
  BY <1>1, <1>2, SdCardAssumption DEF AnswerFacts, ReadFails, Target
<1>4. /\ Pending' = <<>> /\ Clocked' = polls /\ Clocked = polls - 1 /\ PollInv' /\ pc' = pc /\ cmd' = cmd
      /\ polls' = polls /\ tx = 255 /\ polls \in Int
  BY <1>1, PolledByte
<1>5. CASE Clocked <= 1
  <2> DEFINE k == 2 + Clocked
  <2>1. IsRest(resp, Full, k) /\ resp # <<>> /\ k + 1 = 2 + Clocked' /\ Clocked' <= 2
    <3>1. IsRest(resp, Full, k)
      BY <1>1, <1>4, <1>5
    <3>2. Len(resp) = Len(Full) - k
      BY <3>1 DEF IsRest
    <3> QED
      BY <1>3, <1>4, <1>5, <3>1, <3>2
  <2> HIDE DEF k
  <2>2. /\ CardKeeps /\ CardTypes' /\ cstate' = cstate /\ IsRest(resp', Full, k + 1) /\ begin_byte = Full[k + 1]
        /\ (idle_clocks' = IF cs_n /\ ~first_cmd_seen THEN idle_clocks + 8 ELSE idle_clocks)
    BY <2>1, SendsRest, Zenon
  <2>3. Full' = Full /\ (Mute' <=> Mute) /\ (ReadFails' <=> ReadFails) /\ Last(got') = begin_byte
    BY <2>2, ByteKeeps, ByteFacts
  <2>4. IsRest(resp', Full, 2 + Clocked') /\ Last(got') = Full[2 + Clocked']
    BY <2>1, <2>2, <2>3
  <2>5. TokenInv'
    BY <1>1, <1>4, <2>1, <2>2, <2>3, <2>4 DEF TokenInv
  <2> QED
    BY <1>1, <1>4, <2>2, <2>5, TalkAt, ByteStep, Zenon
<1>6. CASE ~(Clocked <= 1)
  <2>1. ReadFails /\ ~(Clocked' <= 2)
    BY <1>1, <1>4, <1>6
  <2>2. resp = <<>>
    <3>1. CASE Clocked <= 2
      <4>1. IsRest(resp, Full, 2 + Clocked) /\ Clocked = 2
        BY <1>1, <1>4, <1>6, <3>1
      <4>2. resp \in Seq(Bytes) /\ Len(resp) = Len(Full) - (2 + Clocked)
        BY <4>1 DEF IsRest
      <4>3. Len(resp) = 0
        BY <1>3, <2>1, <4>1, <4>2
      <4> QED
        BY <4>2, <4>3
    <3> QED
      BY <1>1, <3>1
  <2>3. /\ CardKeeps /\ CardTypes' /\ cstate' = cstate /\ resp' = <<>> /\ begin_byte = 255
        /\ (idle_clocks' = IF cs_n /\ ~first_cmd_seen THEN idle_clocks + 8 ELSE idle_clocks)
    BY <1>1, <1>4, <2>2, Unheard
  <2>4. Full' = Full /\ (Mute' <=> Mute) /\ (ReadFails' <=> ReadFails) /\ Last(got') = begin_byte
    BY <2>3, ByteKeeps, ByteFacts
  <2>5. TokenInv'
    BY <1>1, <1>4, <2>1, <2>3, <2>4 DEF TokenInv
  <2> QED
    BY <1>1, <1>4, <2>3, <2>5, TalkAt, ByteStep, Zenon
<1> QED
  BY <1>5, <1>6


LEMMA AnswerByte ==
    ASSUME SdInv, ByteClocked, pc = "r1", ~InFrame
    PROVE  SdInv'
<1>1. /\ ~cs_n /\ (cstate = IF cmd = 24 /\ ~Mute THEN "wait_token" ELSE "idle") /\ pc \notin High
      /\ Mute => resp = <<>>
      /\ ~Mute => polls <= 2 /\ IsRest(resp, Full, Clocked)
  BY DEF SdInv, CsInv, High, TalkInv, AnswerInv
<1>2. AnswerFacts(cmd, Arg(Frame), Full)
  BY <1>1, Answers DEF SdInv, Full, StateInv, InitCommands, OpInv
<1>3. Len(Full) \in Nat /\ Len(Full) >= 2
  BY <1>2 DEF AnswerFacts
<1>4. /\ Pending' = <<>> /\ Clocked' = polls /\ Clocked = polls - 1 /\ PollInv' /\ ~InFrame' /\ pc' = pc /\ cmd' = cmd
      /\ polls' = polls /\ tx = 255 /\ polls \in Int
  BY PolledByte
<1>5. FrameInv'
  BY <1>4 DEF FrameInv
<1>6. CASE ~Mute
  <2> DEFINE k == Clocked
  <2>1. IsRest(resp, Full, k) /\ resp # <<>> /\ k + 1 = Clocked' /\ Clocked' <= 2
    <3>1. IsRest(resp, Full, k)
      BY <1>1, <1>6
    <3>2. Len(resp) = Len(Full) - k
      BY <3>1 DEF IsRest
    <3> QED
      BY <1>1, <1>3, <1>4, <1>6, <3>1, <3>2
  <2> HIDE DEF k
  <2>2. /\ CardKeeps /\ CardTypes' /\ cstate' = cstate /\ IsRest(resp', Full, k + 1) /\ begin_byte = Full[k + 1]
        /\ (idle_clocks' = IF cs_n /\ ~first_cmd_seen THEN idle_clocks + 8 ELSE idle_clocks)
    BY <2>1, SendsRest, Zenon
  <2>3. Full' = Full /\ (Mute' <=> Mute) /\ Last(got') = begin_byte
    BY <2>2, ByteKeeps, ByteFacts
  <2>4. IsRest(resp', Full, Clocked') /\ Last(got') = Full[Clocked']
    BY <2>1, <2>2, <2>3
  <2>5. AnswerInv'
    BY <1>1, <1>4, <1>6, <2>1, <2>2, <2>3, <2>4 DEF AnswerInv
  <2> QED
    BY <1>1, <1>4, <1>5, <2>2, <2>5, TalkAt, ByteStep, Zenon
<1>7. CASE Mute
  <2>1. /\ CardKeeps /\ CardTypes' /\ cstate' = cstate /\ resp' = <<>> /\ begin_byte = 255
        /\ (idle_clocks' = IF cs_n /\ ~first_cmd_seen THEN idle_clocks + 8 ELSE idle_clocks)
    BY <1>1, <1>4, <1>7, Unheard
  <2>2. Full' = Full /\ (Mute' <=> Mute) /\ Last(got') = begin_byte
    BY <2>1, ByteKeeps, ByteFacts
  <2>3. AnswerInv'
    BY <1>1, <1>4, <1>7, <2>1, <2>2 DEF AnswerInv
  <2> QED
    BY <1>1, <1>4, <1>5, <2>1, <2>3, TalkAt, ByteStep, Zenon
<1> QED
  BY <1>6, <1>7

-----------------------------------------------------------------------------
(* The frame of a command, byte by byte.                                   *)

LEMMA FrameFacts ==
    ASSUME SdInv, pc = "r1"
    PROVE  /\ Frame \in Seq(Bytes) /\ Len(Frame) = 7 /\ Frame[1] = 64 + cmd /\ Frame[6] = 255 /\ Frame[7] = 255
           /\ Frame[1] % 64 = cmd /\ Frame[1] \div 64 = 1 /\ Arg(Frame) \in Nat
           /\ cmd \in {17, 24} => op.k \in {"read", "write"} /\ ~Unaligned(cmd, Arg(Frame))
           /\ cmd \notin {17, 24} => ~Unaligned(cmd, Arg(Frame))
           /\ cmd \in InitCommands \cup {17, 24}
<1>1. StateInv /\ OpInv /\ ClockInv /\ cmd \in InitCommands \cup {17, 24}
  BY DEF SdInv, OpInv
<1>2. cmd \in {17, 24} => op.k \in {"read", "write"}
  BY <1>1 DEF OpInv
<1>3. Argument \in Nat
  BY <1>1, <1>2, ArgumentNat
<1>4. cmd \in {17, 24} => ~Unaligned(cmd, Arg(Frame))
  BY <1>1, <1>2, SectorNamed
<1>5. cmd \notin {17, 24} => ~Unaligned(cmd, Arg(Frame))
  BY Zenon DEF Unaligned
<1>6. /\ Frame \in Seq(Bytes) /\ Len(Frame) = 7 /\ Frame[1] = 64 + cmd /\ Frame[6] = 255 /\ Frame[7] = 255
      /\ Frame[1] % 64 = cmd /\ Frame[1] \div 64 = 1 /\ Arg(Frame) \in Nat
  BY <1>1, <1>3, FrameBytes
<1> QED
  BY <1>1, <1>2, <1>4, <1>5, <1>6

LEMMA FrameByte ==
    ASSUME SdInv, ByteClocked, InFrame
    PROVE  /\ pc = "r1" /\ polls = 1 /\ Len(got) \in 0 .. 5 /\ resp = <<>> /\ ~cs_n
           /\ IsRest(Pending', Frame, Len(got) + 1) /\ tx = Frame[Len(got) + 1] /\ tx \in Bytes
           /\ cstate = IF Len(got) = 0 THEN "idle" ELSE "cmd"
           /\ cbuf \in Seq(Bytes)
           /\ Len(got) # 0 =>
                /\ Len(cbuf) = Len(got) /\ Append(cbuf, tx) \in Seq(Bytes) /\ Len(Append(cbuf, tx)) = Len(got) + 1
                /\ \A i \in 1 .. Len(got) + 1 : Append(cbuf, tx)[i] = Frame[i]
<1>1. /\ pc = "r1" /\ polls = 1 /\ Len(got) < 6 /\ IsRest(Pending, Frame, Len(got)) /\ resp = <<>>
      /\ cstate = IF Len(got) = 0 THEN "idle" ELSE "cmd"
      /\ Len(got) # 0 => Len(cbuf) = Len(got) /\ \A i \in 1 .. Len(got) : cbuf[i] = Frame[i]
      /\ ~cs_n /\ cbuf \in Seq(Bytes) /\ StateInv
  BY DEF InFrame, SdInv, TalkInv, FrameInv, CsInv, High, StateInv
<1>2. Pending # <<>> /\ tx = Head(Pending) /\ Pending' = Tail(Pending) /\ Len(got) \in Nat
  BY ByteFacts
<1> DEFINE n == Len(got)
<1> HIDE DEF n
<1>3. IsRest(Pending, Frame, n)
  BY <1>1 DEF n
<1>4. IsRest(Pending', Frame, n + 1) /\ tx = Frame[n + 1] /\ tx \in Bytes
  BY <1>2, <1>3, TailRest, Zenon
<1>5. n \in 0 .. 5
  <2>1. \A m \in Nat : m < 6 => m \in 0 .. 5
    OBVIOUS
  <2> QED
    BY <1>1, <1>2, <2>1, Zenon DEF n
<1>6. ASSUME n # 0
      PROVE  /\ Len(cbuf) = n /\ Append(cbuf, tx) \in Seq(Bytes) /\ Len(Append(cbuf, tx)) = n + 1
             /\ \A i \in 1 .. n + 1 : Append(cbuf, tx)[i] = Frame[i]
  <2>1. Len(cbuf) = n /\ \A i \in 1 .. n : cbuf[i] = Frame[i]
    BY <1>1, <1>6 DEF n
  <2>2. /\ Append(cbuf, tx) \in Seq(Bytes) /\ Len(Append(cbuf, tx)) = n + 1
        /\ (\A i \in 1 .. n : Append(cbuf, tx)[i] = cbuf[i]) /\ Append(cbuf, tx)[n + 1] = tx
    BY <1>1, <1>4, <2>1
  <2>3. ASSUME NEW i \in 1 .. n + 1 PROVE Append(cbuf, tx)[i] = Frame[i]
    <3>1. CASE i = n + 1
      BY <1>4, <2>2, <3>1
    <3>2. CASE i # n + 1
      <4>1. i \in 1 .. n
        BY <1>5, <3>2
      <4> QED
        BY <2>1, <2>2, <4>1
    <3> QED
      BY <3>1, <3>2
  <2> QED
    BY <2>1, <2>2, <2>3
<1> QED
  BY <1>1, <1>4, <1>5, <1>6, Zenon DEF n

LEMMA FrameByteStep ==
    ASSUME SdInv, ByteClocked, InFrame, Len(got) # 5
    PROVE  SdInv'
<1>1. /\ pc = "r1" /\ polls = 1 /\ Len(got) \in 0 .. 5 /\ resp = <<>> /\ ~cs_n
      /\ IsRest(Pending', Frame, Len(got) + 1) /\ tx = Frame[Len(got) + 1] /\ tx \in Bytes
      /\ cstate = IF Len(got) = 0 THEN "idle" ELSE "cmd"
      /\ cbuf \in Seq(Bytes)
      /\ Len(got) # 0 =>
           /\ Len(cbuf) = Len(got) /\ Append(cbuf, tx) \in Seq(Bytes) /\ Len(Append(cbuf, tx)) = Len(got) + 1
           /\ \A i \in 1 .. Len(got) + 1 : Append(cbuf, tx)[i] = Frame[i]
  BY FrameByte
<1>2. Sector \in Nat \ {0} /\ Frame[1] \div 64 = 1
  BY <1>1, FrameFacts, SdCardAssumption
<1>3. pc' = pc /\ polls' = polls /\ cmd' = cmd /\ Len(got') = Len(got) + 1
  BY ByteFacts
<1>4. InFrame' /\ Len(got') # 0
  BY <1>1, <1>3 DEF InFrame
<1>5. /\ CardKeeps /\ resp' = <<>> /\ cstate' = "cmd" /\ cbuf' \in Seq(Bytes) /\ Len(cbuf') = Len(got')
      /\ (\A i \in 1 .. Len(got') : cbuf'[i] = Frame[i]) /\ idle_clocks' = idle_clocks
  <2>1. CASE Len(got) = 0
    <3>1. tx = Frame[1] /\ tx \div 64 = 1 /\ cstate = "idle"
      BY <1>1, <1>2, <2>1
    <3>2. CardKeeps /\ resp' = <<>> /\ cstate' = "cmd" /\ cbuf' = <<tx>> /\ idle_clocks' = idle_clocks
      BY <1>1, <3>1, CardHears
    <3> QED
      BY <1>1, <1>3, <2>1, <3>1, <3>2
  <2>2. CASE Len(got) # 0
    <3>1. cstate = "cmd" /\ Len(Append(cbuf, tx)) # 6
      BY <1>1, <2>2
    <3>2. CardKeeps /\ resp' = <<>> /\ cstate' = "cmd" /\ cbuf' = Append(cbuf, tx) /\ idle_clocks' = idle_clocks
      BY <1>1, <3>1, CardHears, Zenon
    <3> QED
      BY <1>1, <1>3, <2>2, <3>2
  <2> QED
    BY <2>1, <2>2
<1>6. CardTypes'
  <2>1. Len(cbuf') <= Sector + 6 /\ Len(<<>>) <= Sector + 6
    BY <1>1, <1>2, <1>3, <1>5
  <2> QED
    BY <1>5, <2>1 DEF CardTypes
<1>7. Frame' = Frame
  BY <1>5, ByteKeeps
<1>8. FrameInv' /\ PollInv' /\ AnswerInv'
  <2>1. IsRest(Pending', Frame', Len(got'))
    BY <1>1, <1>3, <1>7
  <2> QED
    BY <1>4, <1>5, <1>7, <2>1 DEF FrameInv, PollInv, AnswerInv
<1>9. pc \notin High
  BY <1>1 DEF High
<1> QED
  BY <1>1, <1>3, <1>4, <1>5, <1>6, <1>8, <1>9, TalkAt, ByteStep, Zenon


LEMMA CommandHeard ==
    ASSUME SdInv, ByteClocked, InFrame, Len(got) = 5
    PROVE  /\ command(cmd, Arg(Frame), <<>>, {}) /\ sectors' = sectors /\ idle_clocks' = idle_clocks
           /\ cbuf' \in Seq(Bytes) /\ Len(cbuf') = 6
<1>1. /\ pc = "r1" /\ resp = <<>> /\ ~cs_n /\ cstate = "cmd"
      /\ Append(cbuf, tx) \in Seq(Bytes) /\ Len(Append(cbuf, tx)) = 6
      /\ \A i \in 1 .. 6 : Append(cbuf, tx)[i] = Frame[i]
  BY FrameByte
<1> DEFINE buf == Append(cbuf, tx)
<1> HIDE DEF buf
<1>2. /\ buf \in Seq(Bytes) /\ Len(buf) = 6
      /\ buf[1] = Frame[1] /\ buf[2] = Frame[2] /\ buf[3] = Frame[3] /\ buf[4] = Frame[4] /\ buf[5] = Frame[5]
  BY <1>1 DEF buf
<1>3. buf[1] % 64 = cmd
  BY <1>1, <1>2, FrameFacts
<1>4. Arg(buf) = Arg(Frame)
  BY <1>2, SMT DEF Arg
<1>5. command(buf[1] % 64, Arg(buf), <<>>, {}) /\ cbuf' = buf /\ sectors' = sectors /\ idle_clocks' = idle_clocks
  BY <1>1, <1>2, CardHears, Zenon DEF buf
<1> QED
  BY <1>2, <1>3, <1>4, <1>5, Zenon

LEMMA CommandAnswered ==
    ASSUME SdInv, ByteClocked, InFrame, Len(got) = 5
    PROVE  /\ first_cmd_seen' /\ violations' = {} /\ ready' \in BOOLEAN /\ lba' \in Nat
           /\ cmd \notin {0, 1, 41} => ready' = ready
           /\ cstate' = IF cmd = 24 /\ ~Mute THEN "wait_token" ELSE "idle"
           /\ resp' = IF Mute THEN <<>> ELSE Answer(cmd, Arg(Frame), ready')
           /\ AnswerFacts(cmd, Arg(Frame), Answer(cmd, Arg(Frame), ready'))
<1>1. command(cmd, Arg(Frame), <<>>, {})
  BY CommandHeard
<1>2. StateInv /\ PowerInv /\ pc = "r1"
  BY DEF SdInv, InFrame
<1>3. ~Unaligned(cmd, Arg(Frame)) /\ Arg(Frame) \in Nat /\ cmd \in InitCommands \cup {17, 24}
  BY <1>2, FrameFacts
<1> DEFINE arg == Arg(Frame)
<1> HIDE DEF arg
<1>4. command(cmd, arg, <<>>, {}) /\ ~Unaligned(cmd, arg) /\ arg \in Nat
  BY <1>1, <1>3 DEF arg
<1>5. ~first_cmd_seen => ~(idle_clocks < POWER_UP_CLOCKS)
  BY <1>2 DEF PowerInv, POWER_UP_CLOCKS
<1>6. first_cmd_seen' /\ violations' = {}
  BY <1>2, <1>4, <1>5 DEF command, StateInv
<1>7. ready' \in BOOLEAN /\ (cmd \notin {0, 1, 41} => ready' = ready)
  BY <1>2, <1>4 DEF command, StateInv
<1>8. cstate' = IF cmd = 24 /\ ~Mute THEN "wait_token" ELSE "idle"
  BY <1>4 DEF command, Mute
<1>9. lba' \in Nat
  <2>1. addr_lba(arg) \in Nat
    <3>1. arg \div Sector \in Nat
      BY <1>4, SdCardAssumption
    <3> QED
      BY <1>4, <3>1 DEF addr_lba
  <2> QED
    BY <1>2, <1>4, <2>1 DEF command, StateInv
<1>10. AnswerFacts(cmd, arg, Answer(cmd, arg, ready'))
  BY <1>2, <1>3, <1>7, Answers
<1>11. resp' = IF Mute THEN <<>> ELSE <<>> \o Answer(cmd, arg, ready')
  BY <1>4, Zenon DEF command, Mute
<1>12. <<>> \o Answer(cmd, arg, ready') = Answer(cmd, arg, ready')
  <2>1. Answer(cmd, arg, ready') \in Seq(Bytes)
    BY <1>10 DEF AnswerFacts
  <2> QED
    BY <2>1, ConcatEmptySeq
<1> QED
  BY <1>6, <1>7, <1>8, <1>9, <1>10, <1>11, <1>12, Zenon DEF arg


LEMMA FrameKept ==
    ASSUME UNCHANGED <<cmd, is_v2, sdhc>>, op'.lba = op.lba
    PROVE  Frame' = Frame /\ Arg(Frame)' = Arg(Frame)
<1>1. Argument' = Argument
  BY SMT DEF Argument, address
<1>2. Frame' = Frame
  BY <1>1, SMT DEF Frame
<1> QED
  BY <1>2, Zenon

LEMMA CommandByte ==
    ASSUME SdInv, ByteClocked, InFrame, Len(got) = 5
    PROVE  SdInv'
<1>1. /\ first_cmd_seen' /\ violations' = {} /\ ready' \in BOOLEAN /\ lba' \in Nat
      /\ cmd \notin {0, 1, 41} => ready' = ready
      /\ cstate' = IF cmd = 24 /\ ~Mute THEN "wait_token" ELSE "idle"
      /\ resp' = IF Mute THEN <<>> ELSE Answer(cmd, Arg(Frame), ready')
      /\ AnswerFacts(cmd, Arg(Frame), Answer(cmd, Arg(Frame), ready'))
  BY CommandAnswered, Zenon
<1>2. sectors' = sectors /\ idle_clocks' = idle_clocks /\ cbuf' \in Seq(Bytes) /\ Len(cbuf') = 6
  BY CommandHeard
<1>3. pc = "r1" /\ polls = 1 /\ ~cs_n /\ IsRest(Pending', Frame, 6)
  BY FrameByte
<1>4. /\ pc' = pc /\ polls' = polls /\ cmd' = cmd /\ is_v2' = is_v2 /\ sdhc' = sdhc /\ op' = op /\ fault' = fault
      /\ card' = card /\ clk_fast' = clk_fast /\ got' # <<>> /\ Len(got') = 6
  BY ByteFacts
<1>5. Frame' = Frame /\ Arg(Frame)' = Arg(Frame) /\ (Mute' <=> Mute)
  BY <1>4, FrameKept DEF Mute
<1>6. Pending' = <<255>>
  <2>1. Frame[7] = 255 /\ Len(Frame) = 7
    BY <1>3, FrameFacts
  <2>2. /\ Pending' \in Seq(Bytes) /\ Len(Pending') = 1 /\ Pending'[1] = Frame[6 + 1]
    BY <1>3, <2>1 DEF IsRest
  <2> DEFINE q == Pending'
  <2> HIDE DEF q
  <2>3. q \in Seq(Bytes) /\ Len(q) = 1 /\ q[1] = 255
    BY <2>1, <2>2 DEF q
  <2>4. q = <<255>>
    BY <2>3
  <2> QED
    BY <2>4 DEF q
<1>7. Clocked' = 0 /\ ~InFrame'
  <2>1. Clocked' = polls' - Len(Pending')
    BY DEF Clocked
  <2>2. Len(Pending') = 1
    BY <1>6
  <2> QED
    BY <1>3, <1>4, <2>1, <2>2 DEF InFrame
<1>8. Full' = Answer(cmd, Arg(Frame), ready')
  <2>1. CASE cmd = 55
    <3>1. ready' = ready /\ KeepsAnswer
      BY <1>1, <1>2, <1>4, <2>1 DEF KeepsAnswer
    <3> QED
      BY <3>1, AnswerKept DEF Full
  <2>2. CASE cmd # 55
    <3> DEFINE arg == Arg(Frame)
    <3>1. Full' = Answer(cmd, arg, ready)'
      BY DEF Full
    <3>2. arg' = arg
      BY <1>5
    <3> HIDE DEF arg
    <3>3. Answer(cmd, arg, ready)' = Answer(cmd, arg, ready')
      BY <1>2, <1>4, <2>2, <3>2, SMT DEF Answer, addr_lba, get_sector
    <3> QED
      BY <3>1, <3>3 DEF arg
  <2> QED
    BY <2>1, <2>2
<1>9. FrameInv' /\ PollInv'
  BY <1>4, <1>6, <1>7 DEF FrameInv, PollInv
<1>10. AnswerInv'
  <2>1. ~Mute => IsRest(resp', Full', 0)
    <3>1. Full' \in Seq(Bytes)
      BY <1>1, <1>8 DEF AnswerFacts
    <3>2. ~Mute => resp' = Full'
      BY <1>1, <1>8
    <3> DEFINE q == Full'
    <3> HIDE DEF q
    <3>3. q \in Seq(Bytes) => IsRest(q, q, 0)
      BY DEF IsRest
    <3> QED
      BY <3>1, <3>2, <3>3 DEF q
  <2>2. Pending' # <<>>
    BY <1>6
  <2> QED
    BY <1>1, <1>3, <1>4, <1>5, <1>7, <2>1, <2>2 DEF AnswerInv
<1>11. OpInv' /\ TriesInv' /\ CsInv' /\ ResultInv'
  <2>1. pc \notin High
    BY <1>3 DEF High
  <2> QED
    BY <1>2, <2>1, ByteOthers
<1>12. ClockInv'
  <2>1. CASE cmd \notin {0, 1, 41}
    BY <1>1, <2>1, ByteOthers
  <2>2. CASE cmd \in {0, 1, 41}
    BY <1>3, <1>4, <2>2 DEF SdInv, ClockInv
  <2> QED
    BY <2>1, <2>2
<1>13. StateInv'
  <2>1. Sector \in Nat
    BY SdCardAssumption
  <2>2. resp' \in Seq(Bytes) /\ Len(resp') <= Sector + 6
    BY <1>1, <2>1 DEF AnswerFacts
  <2>3. CardTypes'
    BY <1>1, <1>2, <2>1, <2>2 DEF CardTypes
  <2>4. sectors' \in [Lbas -> Seq(Bytes)] /\ \A n \in Lbas : Len(sectors'[n]) = Sector
    BY <1>2 DEF SdInv, StateInv
  <2> QED
    BY <1>1, <2>3, <2>4, ByteOthers
<1>14. PowerInv'
  BY <1>1, <1>2 DEF SdInv, PowerInv
<1> QED
  BY <1>3, <1>4, <1>9, <1>10, <1>11, <1>12, <1>13, <1>14, TalkAt DEF SdInv

-----------------------------------------------------------------------------
(* A block, byte by byte.                                                  *)

LEMMA WrittenBytes ==
    ASSUME op.data \in Seq(Bytes), Len(op.data) = Sector
    PROVE  Written \in Seq(Bytes) /\ Len(Written) = Sector + 5 /\ Written[1] = 255 /\ Written[2] = 254
<1> DEFINE h == <<255, 254>>
           d == op.data
           t == FF(3)
<1>1. h \in Seq(Bytes) /\ Len(h) = 2 /\ h[1] = 255 /\ h[2] = 254
  BY DEF Bytes
<1>2. t \in Seq(Bytes) /\ Len(t) = 3
  BY DEF Bytes, FF
<1>3. Sector \in Nat
  BY SdCardAssumption
<1> DEFINE hd == h \o d
<1>4. Written = hd \o t
  BY DEF Written
<1> HIDE DEF h, d, t
<1>5. hd \in Seq(Bytes) /\ Len(hd) = 2 + Sector /\ hd[1] = 255 /\ hd[2] = 254
  <2>1. d \in Seq(Bytes) /\ Len(d) = Sector
    BY DEF d
  <2>2. hd \in Seq(Bytes) /\ Len(hd) = Len(h) + Len(d) /\ \A i \in 1 .. Len(h) : hd[i] = h[i]
    <3>1. h \in Seq(Bytes) /\ d \in Seq(Bytes)
      BY <1>1, <2>1
    <3> QED
      BY <3>1, ConcatBytes, Zenon
  <2> HIDE DEF hd
  <2> QED
    BY <1>1, <1>3, <2>1, <2>2
<1> HIDE DEF hd
<1>6. Written \in Seq(Bytes) /\ Len(Written) = Len(hd) + Len(t) /\ \A i \in 1 .. Len(hd) : Written[i] = hd[i]
  <2>1. hd \in Seq(Bytes) /\ t \in Seq(Bytes)
    BY <1>2, <1>5
  <2> QED
    BY <1>4, <2>1, ConcatBytes, Zenon
<1> QED
  BY <1>2, <1>3, <1>5, <1>6


LEMMA ResponseFacts ==
    DataResponse \in Seq(Bytes) /\ Len(DataResponse) \in 1 .. 2
<1>1. <<11>> \in Seq(Bytes) /\ Len(<<11>>) = 1
  BY DEF Bytes
<1>2. <<5, 63>> \in Seq(Bytes) /\ Len(<<5, 63>>) = 2
  BY DEF Bytes
<1>3. DataResponse = <<11>> \/ DataResponse = <<5, 63>>
  BY DEF DataResponse
<1>4. CASE DataResponse = <<11>>
  BY <1>1, <1>4
<1>5. CASE DataResponse = <<5, 63>>
  BY <1>2, <1>5
<1> QED
  BY <1>3, <1>4, <1>5

LEMMA WriteByte ==
    ASSUME SdInv, ByteClocked, pc = "accepted"
    PROVE  SdInv'
<1>1. /\ ~cs_n /\ pc \notin High /\ ~InFrame /\ op.k = "write" /\ op.data \in Seq(Bytes) /\ Len(op.data) = Sector
      /\ IsRest(Pending, Written, Len(got))
      /\ Len(got) < 2 => cstate = "wait_token" /\ resp = <<>>
      /\ Len(got) \in 2 .. Sector + 3 => cstate = "data" /\ resp = <<>> /\ Len(cbuf) = Len(got) - 2
      /\ Len(got) > Sector + 3 => cstate = "resync" /\ IsRest(resp, DataResponse, Len(got) - (Sector + 4))
  BY DEF SdInv, CsInv, High, TalkInv, WriteInv, InFrame, OpInv
<1>2. Sector \in Nat \ {0} /\ cbuf \in Seq(Bytes) /\ Len(cbuf) <= Sector + 6 /\ 255 \in Bytes /\ tx \in Bytes
  BY SdCardAssumption DEF SdInv, StateInv, Bytes
<1>3. Written \in Seq(Bytes) /\ Len(Written) = Sector + 5 /\ Written[1] = 255 /\ Written[2] = 254
  BY <1>1, WrittenBytes
<1>4. /\ pc' = pc /\ fault' = fault /\ op' = op /\ Len(got') = Len(got) + 1 /\ Len(got) \in Nat /\ Pending # <<>>
      /\ Pending' = Tail(Pending) /\ tx = Head(Pending) /\ Last(got') = begin_byte
  BY ByteFacts
<1>5. Written' = Written /\ DataResponse' = DataResponse
  BY <1>4 DEF Written, DataResponse
<1> DEFINE n == Len(got)
<1> HIDE DEF n
<1>6. IsRest(Pending', Written, n + 1) /\ tx = Written[n + 1]
  <2>1. IsRest(Pending, Written, n)
    BY <1>1 DEF n
  <2> QED
    BY <1>4, <2>1, TailRest, Zenon
<1>7. n \in Nat /\ n < Sector + 5 /\ Len(got') = n + 1 /\ IsRest(Pending', Written, Len(got'))
  <2>1. Len(Pending) \in Nat \ {0} /\ Len(Pending) = Len(Written) - n
    <3>1. Len(Pending) \in Nat \ {0}
      BY ByteFacts
    <3> QED
      BY <1>1, <3>1 DEF IsRest, n
  <2>2. n \in Nat /\ Len(got') = n + 1
    BY <1>4 DEF n
  <2> QED
    BY <1>2, <1>3, <1>6, <2>1, <2>2
<1>8. CASE n < 2
  <2>1. cstate = "wait_token" /\ resp = <<>>
    BY <1>1, <1>8 DEF n
  <2>2. tx = IF n = 0 THEN 255 ELSE 254
    BY <1>3, <1>6, <1>7, <1>8
  <2>3. /\ CardKeeps /\ resp' = <<>> /\ idle_clocks' = idle_clocks
        /\ IF n = 0 THEN cstate' = "wait_token" /\ cbuf' = cbuf ELSE cstate' = "data" /\ cbuf' = <<>>
    BY <1>1, <2>1, <2>2, CardHears
  <2>4. CardTypes'
    <3>1. Len(<<>>) <= Sector + 6 /\ <<>> \in Seq(Bytes)
      BY <1>2
    <3>2. cbuf' = cbuf \/ cbuf' = <<>>
      BY <2>3
    <3>3. cbuf' \in Seq(Bytes) /\ Len(cbuf') <= Sector + 6
      BY <1>2, <3>1, <3>2
    <3>4. cstate' \in {"idle", "cmd", "wait_token", "data", "resync"}
      BY <2>3
    <3> QED
      BY <2>3, <3>1, <3>3, <3>4 DEF CardTypes
  <2>5. WriteInv'
    BY <1>2, <1>4, <1>5, <1>7, <1>8, <2>3 DEF WriteInv
  <2> QED
    BY <1>1, <1>4, <2>3, <2>4, <2>5, TalkAt, ByteStep
<1>9. CASE n \in 2 .. Sector + 3
  <2>1. cstate = "data" /\ resp = <<>> /\ Len(cbuf) = n - 2
    BY <1>1, <1>9 DEF n
  <2> DEFINE buf == Append(cbuf, tx)
  <2>2. buf \in Seq(Bytes) /\ Len(buf) = n - 1
    BY <1>2, <1>7, <2>1
  <2> HIDE DEF buf
  <2>3. /\ UNCHANGED <<ready, lba, first_cmd_seen, violations>> /\ cbuf' = buf /\ idle_clocks' = idle_clocks
        /\ IF Len(buf) < Sector + 2
           THEN resp' = <<>> /\ cstate' = cstate /\ sectors' = sectors
           ELSE /\ cstate' = "resync" /\ resp' = <<>> \o (IF fault.write_reject THEN <<11>> ELSE <<5, 63>>)
                /\ \/ sectors' = sectors
                   \/ lba \in Lbas /\ sectors' = [sectors EXCEPT ![lba] = SubSeq(buf, 1, Sector)]
    BY <1>1, <2>1, CardHears, Zenon DEF buf
  <2>4. CASE n < Sector + 3
    <3>1. CardKeeps /\ resp' = <<>> /\ cstate' = "data" /\ idle_clocks' = idle_clocks
      BY <1>2, <1>7, <2>1, <2>2, <2>3, <2>4 DEF CardKeeps
    <3>2. CardTypes'
      BY <1>2, <1>7, <2>2, <2>3, <2>4, <3>1 DEF CardTypes
    <3>3. WriteInv'
      BY <1>2, <1>4, <1>5, <1>7, <1>9, <2>2, <2>3, <2>4, <3>1 DEF WriteInv
    <3> QED
      BY <1>1, <1>4, <3>1, <3>2, <3>3, TalkAt, ByteStep
  <2>5. CASE n = Sector + 3
    <3>1. cstate' = "resync" /\ resp' = <<>> \o DataResponse
      BY <1>2, <2>2, <2>3, <2>5 DEF DataResponse
    <3>2. resp' = DataResponse
      BY <3>1, ResponseFacts, ConcatEmptySeq
    <3>3. CardTypes'
      BY <1>2, <2>2, <2>3, <2>5, <3>1, <3>2, ResponseFacts DEF CardTypes
    <3>4. WriteInv'
      <4>1. IsRest(resp', DataResponse, 0)
        BY <3>2, ResponseFacts DEF IsRest
      <4>2. Len(got') = Sector + 4 /\ Len(got') - (Sector + 4) = 0
        BY <1>2, <1>7, <2>5
      <4>3. IsRest(resp', DataResponse', Len(got') - (Sector + 4))
        BY <1>5, <4>1, <4>2
      <4> QED
        BY <1>2, <1>4, <1>5, <1>7, <3>1, <4>2, <4>3 DEF WriteInv
    <3>5. sectors' \in [Lbas -> Seq(Bytes)] /\ \A m \in Lbas : Len(sectors'[m]) = Sector
      <4>1. sectors \in [Lbas -> Seq(Bytes)] /\ \A m \in Lbas : Len(sectors[m]) = Sector
        BY DEF SdInv, StateInv
      <4>2. CASE sectors' = sectors
        BY <4>1, <4>2
      <4>3. CASE lba \in Lbas /\ sectors' = [sectors EXCEPT ![lba] = SubSeq(buf, 1, Sector)]
        <5>1. SubSeq(buf, 1, Sector) \in Seq(Bytes) /\ Len(SubSeq(buf, 1, Sector)) = Sector
          BY <1>2, <2>2, <2>5
        <5> QED
          BY <4>1, <4>3, <5>1
      <4> QED
        BY <1>2, <2>2, <2>3, <2>5, <4>2, <4>3
    <3>6. lba' \in Nat /\ ready' \in BOOLEAN /\ first_cmd_seen' \in BOOLEAN /\ violations' = {} /\ ready' = ready
      BY <2>3 DEF SdInv, StateInv
    <3>7. OpInv' /\ TriesInv' /\ ClockInv' /\ CsInv' /\ StateInv'
      BY <1>1, <3>3, <3>5, <3>6, ByteOthers
    <3>8. PowerInv'
      <4>1. first_cmd_seen
        BY <1>1 DEF SdInv, PowerInv
      <4> QED
        BY <2>3, <4>1 DEF SdInv, PowerInv
    <3>9. ResultInv'
      BY <1>1, <1>4 DEF ResultInv, DoneIsOnTheCard
    <3> QED
      BY <1>4, <3>4, <3>7, <3>8, <3>9, TalkAt DEF SdInv
  <2> QED
    BY <1>2, <1>7, <1>9, <2>4, <2>5
<1>10. CASE n > Sector + 3
  <2>1. n = Sector + 4
    BY <1>2, <1>7, <1>10
  <2>2. cstate = "resync" /\ IsRest(resp, DataResponse, 0)
    <3>1. cstate = "resync" /\ IsRest(resp, DataResponse, n - (Sector + 4))
      BY <1>1, <1>10 DEF n
    <3>2. n - (Sector + 4) = 0
      BY <1>2, <2>1
    <3> QED
      BY <3>1, <3>2
  <2>3. resp # <<>>
    <3>1. Len(resp) = Len(DataResponse) - 0
      BY <2>2 DEF IsRest
    <3> QED
      BY <3>1, ResponseFacts
  <2>4. /\ CardKeeps /\ CardTypes' /\ cstate' = cstate /\ IsRest(resp', DataResponse, 0 + 1)
        /\ begin_byte = DataResponse[0 + 1]
        /\ (idle_clocks' = IF cs_n /\ ~first_cmd_seen THEN idle_clocks + 8 ELSE idle_clocks)
    BY <2>2, <2>3, SendsRest, Zenon
  <2>5. Len(got') = Sector + 5 /\ Len(got') - (Sector + 4) = 0 + 1 /\ 0 + 1 = 1
    BY <1>2, <1>7, <2>1
  <2>6. IsRest(resp', DataResponse', Len(got') - (Sector + 4)) /\ Last(got') = DataResponse'[1]
    BY <1>4, <1>5, <2>4, <2>5
  <2>7. WriteInv'
    BY <1>2, <1>4, <1>5, <1>7, <2>2, <2>4, <2>5, <2>6 DEF WriteInv
  <2> QED
    BY <1>1, <1>4, <2>4, <2>7, TalkAt, ByteStep, Zenon
<1> QED
  BY <1>2, <1>7, <1>8, <1>9, <1>10


LEMMA ByteClockedStep ==
    ASSUME SdInv, ByteClocked
    PROVE  SdInv'
<1>1. pc \in High \cup {"r1", "r7", "ocr", "token", "data", "accepted", "programming"}
  BY DEF SdInv, OpInv
<1>2. CASE pc \in High
  BY <1>2, HighByte
<1>3. CASE pc \in {"r7", "ocr"}
  BY <1>3, WordByte
<1>4. CASE pc = "token"
  BY <1>4, TokenByte
<1>5. CASE pc = "data"
  BY <1>5, BlockByte
<1>6. CASE pc = "accepted"
  BY <1>6, WriteByte
<1>7. CASE pc = "programming"
  BY <1>7, ProgrammingByte
<1>8. CASE pc = "r1"
  BY <1>8, AnswerByte, FrameByteStep, CommandByte
<1> QED
  BY <1>1, <1>2, <1>3, <1>4, <1>5, <1>6, <1>7, <1>8


-----------------------------------------------------------------------------
(* The driver's steps: the bytes of the last one are clocked.              *)

LEMMA FFBytes ==
    ASSUME NEW n \in Nat
    PROVE  FF(n) \in Seq(Bytes) /\ Len(FF(n)) = n /\ \A i \in 1 .. n : FF(n)[i] = 255
BY DEF FF, Bytes

LEMMA OneFF ==
    FF(1) = <<255>>
<1>1. FF(1) \in Seq(Bytes) /\ Len(FF(1)) = 1 /\ FF(1)[1] = 255
  <2>1. 1 \in Nat /\ 1 \in 1 .. 1
    OBVIOUS
  <2>2. FF(1) \in Seq(Bytes) /\ Len(FF(1)) = 1
    BY <2>1, FFBytes, Zenon
  <2>3. FF(1)[1] = 255
    BY <2>1 DEF FF
  <2> QED
    BY <2>2, <2>3
<1> DEFINE s == FF(1)
<1> HIDE DEF s
<1>2. s \in Seq(Bytes) /\ Len(s) = 1 /\ s[1] = 255
  BY <1>1 DEF s
<1>3. s = <<255>>
  BY <1>2
<1> QED
  BY <1>3 DEF s

LEMMA OneFits ==
    FF(1) \in Seq(Bytes) /\ Len(FF(1)) <= Preamble + Sector + 8
<1>1. <<255>> \in Seq(Bytes) /\ Len(<<255>>) = 1
  BY DEF Bytes
<1>2. 1 <= Preamble + Sector + 8
  BY SdCardAssumption, SdDriverAssumption
<1> QED
  BY <1>1, <1>2, OneFF

LEMMA AtFacts ==
    ASSUME SdInv, out = <<>>, Idle
    PROVE  /\ ~busy /\ Pending = <<>> /\ Clocked = polls /\ polls \in Nat /\ got \in Seq(Bytes) /\ Len(got) \in Nat
           /\ ~InFrame
           /\ pc \notin {"idle", "init", "cmd0"} => first_cmd_seen
<1>1. StateInv /\ TalkInv /\ PowerInv
  BY DEF SdInv
<1>2. ~busy /\ Pending = <<>>
  BY DEF Idle, Pending
<1>3. polls \in Nat /\ got \in Seq(Bytes) /\ Len(got) \in Nat
  BY <1>1 DEF StateInv
<1>4. Clocked = polls
  BY <1>2, <1>3 DEF Clocked
<1>5. ~InFrame
  <2>1. SUFFICES ASSUME InFrame PROVE FALSE
    OBVIOUS
  <2>2. IsRest(Pending, Frame, Len(got)) /\ pc = "r1" /\ Len(got) < 6
    BY <1>1, <2>1 DEF TalkInv, FrameInv, InFrame
  <2>3. Len(Frame) = 7
    BY <2>2, FrameFacts
  <2>4. Len(Pending) = 7 - Len(got)
    BY <2>2, <2>3 DEF IsRest
  <2>5. Len(Pending) = 0
    BY <1>2
  <2>6. \A n \in Nat : n < 6 => 7 - n # 0
    OBVIOUS
  <2> QED
    BY <1>3, <2>2, <2>4, <2>5, <2>6, Zenon
<1>6. pc \notin {"idle", "init", "cmd0"} => first_cmd_seen
  BY <1>1, <1>5 DEF PowerInv
<1> QED
  BY <1>2, <1>3, <1>4, <1>5, <1>6

\* What every step of the driver keeps, and the bytes it asks for.
LEMMA DriverState ==
    ASSUME SdInv, ~busy, KeepCard, UNCHANGED <<busy, tx, rx, ops>>, got' = <<>>,
           out' \in Seq(Bytes), Len(out') <= Preamble + Sector + 8,
           cs_n' \in BOOLEAN, clk_fast' \in BOOLEAN, cbuf' \in Seq(Bytes), Len(cbuf') <= Sector + 6,
           cstate' \in {"idle", "cmd", "wait_token", "data", "resync"},
           tries' \in 0 .. Cmd0Tries + ReadyTries, polls' \in 0 .. R1Tries + TokenTries + BusyTries,
           inited' \in BOOLEAN, sdhc' \in BOOLEAN, is_v2' \in BOOLEAN,
           op' \in [k : {"none", "init", "read", "write"}, lba : Nat, data : Seq(Bytes)]
    PROVE  StateInv' /\ Pending' = out'
<1>1. StateInv
  BY DEF SdInv
<1>2. Pending' = out'
  BY DEF Pending
<1>3. Len(got') + Len(Pending') <= Preamble + Sector + 8
  <2>1. Len(<<>>) = 0 /\ Len(out') \in Nat
    OBVIOUS
  <2>2. Len(got') + Len(Pending') = Len(out')
    BY <1>2, <2>1
  <2> QED
    BY <2>2
<1> QED
  BY <1>1, <1>2, <1>3 DEF StateInv, KeepCard

\* The card is deselected: what it had to send is sent.
LEMMA DeselectStep ==
    ASSUME SdInv, out = <<>>, Idle, first_cmd_seen, resp = <<>>, KeepCard, StoreCs(FALSE), got' = <<>>,
           pc' \in High \ {"idle"}, out' = FF(1),
           UNCHANGED <<busy, tx, rx, clk_fast, ops>>,
           tries' \in 0 .. Cmd0Tries + ReadyTries, polls' \in 0 .. R1Tries + TokenTries + BusyTries,
           inited' \in BOOLEAN, sdhc' \in BOOLEAN, is_v2' \in BOOLEAN,
           op' \in [k : {"none", "init", "read", "write"}, lba : Nat, data : Seq(Bytes)],
           OpInv', TriesInv', ClockInv', ResultInv'
    PROVE  SdInv'
<1>1. StateInv /\ CsInv /\ PowerInv /\ ~busy
  BY DEF SdInv, Idle
<1>2. cs_n' /\ cs_n' \in BOOLEAN /\ cstate' = "idle" /\ (cbuf' = cbuf \/ cbuf' = <<>>)
  BY <1>1 DEF StoreCs, set_cs, CsInv, StateInv
<1>3. cbuf' \in Seq(Bytes) /\ Len(cbuf') <= Sector + 6
  <2>1. cbuf \in Seq(Bytes) /\ Len(cbuf) <= Sector + 6 /\ <<>> \in Seq(Bytes) /\ Len(<<>>) <= Sector + 6
    BY <1>1, SdCardAssumption DEF StateInv
  <2> QED
    BY <1>2, <2>1
<1>4. out' \in Seq(Bytes) /\ Len(out') <= Preamble + Sector + 8
  BY OneFits
<1>5. clk_fast' \in BOOLEAN
  BY <1>1 DEF StateInv
<1>6. StateInv'
  BY <1>1, <1>2, <1>3, <1>4, <1>5, DriverState
<1>7. CsInv'
  BY <1>2 DEF CsInv, KeepCard
<1>8. PowerInv'
  BY <1>1 DEF PowerInv, KeepCard
<1> QED
  BY <1>6, <1>7, <1>8, HighTalk DEF SdInv

\* The card stays selected, and the driver asks for more.
LEMMA AskStep ==
    ASSUME SdInv, out = <<>>, Idle, first_cmd_seen, KeepCard, KeepCs, got' = <<>>,
           pc \notin High, pc' \notin High, out' \in Seq(Bytes), Len(out') <= Preamble + Sector + 8,
           UNCHANGED <<busy, tx, rx, clk_fast, inited, sdhc, is_v2, op, result, ops>>,
           tries' \in 0 .. Cmd0Tries + ReadyTries, polls' \in 0 .. R1Tries + TokenTries + BusyTries,
           OpInv', TriesInv', ClockInv', TalkInv'
    PROVE  SdInv'
<1>1. StateInv /\ CsInv /\ PowerInv /\ ResultInv /\ ~busy
  BY DEF SdInv, Idle
<1>2. StateInv'
  BY <1>1, DriverState DEF StateInv, KeepCs
<1>3. CsInv' /\ PowerInv'
  BY <1>1 DEF CsInv, KeepCs, KeepCard, PowerInv, High
<1>4. ResultInv'
  BY <1>1 DEF ResultInv, DoneIsOnTheCard, Addressable, KeepCard, High
<1> QED
  BY <1>2, <1>3, <1>4 DEF SdInv


-----------------------------------------------------------------------------
(* R1.                                                                     *)

LEMMA FullFacts ==
    ASSUME SdInv
    PROVE  /\ AnswerFacts(cmd, Arg(Frame), Full) /\ Full \in Seq(Bytes) /\ Len(Full) \in Nat
           /\ cmd \in {1, 41} => (Full[2] = 0 <=> ready)
<1>1. StateInv /\ cmd \in InitCommands \cup {17, 24} /\ ready \in BOOLEAN
  BY DEF SdInv, OpInv, StateInv
<1>2. AnswerFacts(cmd, Arg(Frame), Full) /\ (cmd \in {1, 41} => (Full[2] = 0 <=> ready))
  BY <1>1, Answers DEF Full
<1> QED
  BY <1>2 DEF AnswerFacts

\* send_cmd returns: the card is mute and there was no answer, or R1 has come as its second byte.
LEMMA R1Known ==
    ASSUME SdInv, NEW r, R1(r)
    PROVE  /\ pc = "r1" /\ out = <<>> /\ Idle /\ ~busy /\ first_cmd_seen /\ cmd \in InitCommands \cup {17, 24}
           /\ Mute => r = 255 /\ resp = <<>>
           /\ ~Mute => /\ r = Full[2] /\ r \in {0, 1} /\ IsRest(resp, Full, 2)
                       /\ (cmd = 24 => cstate = "wait_token") /\ (cmd # 24 => cstate = "idle")
           /\ cmd \in {0, 8} /\ ~Mute => r = 1
           /\ cmd \in {58, 16, 17, 24} /\ ~Mute => r = 0
           /\ cmd \notin {8, 58, 17} => resp = <<>>
<1>1. pc = "r1" /\ out = <<>> /\ Idle /\ Last(got) = r /\ (r # 255 \/ polls = R1Tries)
  BY DEF R1, At
<1>2. ~busy /\ Pending = <<>> /\ Clocked = polls /\ polls \in Nat /\ ~InFrame /\ first_cmd_seen
  BY <1>1, AtFacts
<1>3. /\ cstate = IF cmd = 24 /\ ~Mute THEN "wait_token" ELSE "idle"
      /\ Mute => resp = <<>> /\ r = 255
      /\ ~Mute => polls <= 2 /\ IsRest(resp, Full, polls) /\ r = Full[polls]
      /\ polls >= 1
  BY <1>1, <1>2 DEF SdInv, TalkInv, AnswerInv, TriesInv
<1>4. AnswerFacts(cmd, Arg(Frame), Full) /\ Full \in Seq(Bytes) /\ Len(Full) \in Nat
  BY FullFacts
<1>5. Full[1] = 255 /\ Full[2] \in {0, 1} /\ (cmd \in {0, 8} => Full[2] = 1) /\ (cmd \in {58, 16, 17, 24} => Full[2] = 0)
      /\ (cmd \notin {8, 58, 17} => Len(Full) = 2)
  BY <1>4 DEF AnswerFacts
<1>6. ~Mute => polls = 2
  <2>1. SUFFICES ASSUME ~Mute, polls = 1 PROVE FALSE
    BY <1>2, <1>3
  <2>2. r = 255 /\ polls = R1Tries
    BY <1>1, <1>3, <1>5, <2>1
  <2> QED
    BY <2>1, <2>2, SdDriverAssumption
<1>7. ~Mute => r = Full[2] /\ IsRest(resp, Full, 2)
  BY <1>3, <1>6
<1>8. cmd \notin {8, 58, 17} => resp = <<>>
  <2>1. SUFFICES ASSUME cmd \notin {8, 58, 17}, ~Mute PROVE resp = <<>>
    BY <1>3
  <2>2. resp \in Seq(Bytes) /\ Len(resp) = Len(Full) - 2 /\ Len(Full) = 2
    BY <1>5, <1>7, <2>1 DEF IsRest
  <2>3. Len(resp) = 0
    BY <2>2
  <2> QED
    BY <2>2, <2>3, EmptySeq
<1>9. cmd \in InitCommands \cup {17, 24}
  BY DEF SdInv, OpInv
<1> QED
  BY <1>1, <1>2, <1>3, <1>5, <1>7, <1>8, <1>9

LEMMA PollAgainStep ==
    ASSUME SdInv, PollAgain
    PROVE  SdInv'
<1>1. /\ pc = "r1" /\ out = <<>> /\ Idle /\ Last(got) = 255 /\ polls < R1Tries /\ polls' = polls + 1
      /\ out' = FF(1) /\ got' = <<>> /\ pc' = "r1" /\ KeepCard /\ KeepCs
      /\ UNCHANGED <<busy, tx, rx, clk_fast, tries, cmd, inited, sdhc, is_v2, op, result, ops>>
  BY DEF PollAgain, At, Ask
<1>2. ~busy /\ Pending = <<>> /\ Clocked = polls /\ polls \in Nat /\ ~InFrame /\ first_cmd_seen
  BY <1>1, AtFacts
<1>3. /\ cstate = IF cmd = 24 /\ ~Mute THEN "wait_token" ELSE "idle"
      /\ Mute => resp = <<>>
      /\ ~Mute => polls <= 2 /\ IsRest(resp, Full, polls) /\ 255 = Full[polls]
      /\ polls >= 1
  BY <1>1, <1>2 DEF SdInv, TalkInv, AnswerInv, TriesInv
<1>4. Full[2] \in {0, 1}
  BY FullFacts DEF AnswerFacts
<1>5. ~Mute => polls = 1
  BY <1>2, <1>3, <1>4
<1>6. Pending' = <<255>> /\ out' = <<255>>
  BY <1>1, <1>2, OneFF DEF Pending
<1>7. Clocked' = polls /\ ~InFrame'
  <2>1. Len(<<255>>) = 1
    OBVIOUS
  <2>2. Clocked' = polls' - Len(Pending')
    BY DEF Clocked
  <2> QED
    BY <1>1, <1>2, <1>3, <1>6, <2>1, <2>2 DEF InFrame
<1>8. Full' = Full /\ (Mute' <=> Mute)
  <2>1. KeepsAnswer
    BY <1>1 DEF KeepsAnswer, KeepCard
  <2> QED
    BY <2>1, AnswerKept
<1>9. FrameInv' /\ PollInv' /\ AnswerInv'
  <2>1. <<255>> # <<>>
    OBVIOUS
  <2>2. cstate' = cstate /\ resp' = resp
    BY <1>1 DEF KeepCs, KeepCard
  <2>3. FrameInv' /\ PollInv'
    BY <1>6, <1>7, <2>1 DEF FrameInv, PollInv
  <2>4. AnswerInv'
    BY <1>1, <1>2, <1>3, <1>5, <1>6, <1>7, <1>8, <2>1, <2>2 DEF AnswerInv
  <2> QED
    BY <2>3, <2>4
<1>10. OpInv' /\ TriesInv' /\ ClockInv'
  <2>1. OpInv'
    BY <1>1 DEF SdInv, OpInv
  <2>2. TriesInv'
    BY <1>1, <1>2, <1>3, SdDriverAssumption DEF SdInv, TriesInv
  <2>3. ClockInv'
    BY <1>1 DEF SdInv, ClockInv, KeepCard
  <2> QED
    BY <2>1, <2>2, <2>3
<1>11. /\ out' \in Seq(Bytes) /\ Len(out') <= Preamble + Sector + 8
       /\ tries' \in 0 .. Cmd0Tries + ReadyTries /\ polls' \in 0 .. R1Tries + TokenTries + BusyTries
  <2>1. tries \in 0 .. Cmd0Tries + ReadyTries
    BY DEF SdInv, StateInv
  <2>2. polls' \in 0 .. R1Tries + TokenTries + BusyTries
    BY <1>1, <1>2, SdDriverAssumption
  <2> QED
    BY <1>1, <2>1, <2>2, OneFits
<1>12. pc \notin High /\ pc' \notin High
  BY <1>1 DEF High
<1> QED
  BY <1>1, <1>2, <1>9, <1>10, <1>11, <1>12, TalkAt, AskStep


-----------------------------------------------------------------------------
(* init.                                                                   *)

\* A step of init that deselects the card, and goes on with a command or ends.
\* What the next step of init asks of the counters, the clock and what is known of the card.
InitNext(p) ==
    /\ p = "cmd0" => tries' < Cmd0Tries
    /\ p \in {"cmd55", "cmd41", "cmd1"} => tries' < ReadyTries
    /\ p \in {"cmd0", "cmd8", "cmd55", "cmd41", "cmd1"} => ~clk_fast
    /\ p \in {"cmd58", "cmd16", "fast"} => ready
    /\ sdhc' => card.sdhc

LEMMA InitDeselect ==
    ASSUME SdInv, out = <<>>, Idle, first_cmd_seen, resp = <<>>, op.k = "init", KeepCard,
           UNCHANGED <<busy, tx, rx, clk_fast, polls, cmd, op, result, ops>>,
           NEW p \in {"cmd0", "cmd8", "cmd55", "cmd41", "cmd1", "cmd58", "cmd16", "fast", "failed"}, Deselect(p),
           tries' \in 0 .. Cmd0Tries + ReadyTries, inited' \in BOOLEAN, sdhc' \in BOOLEAN, is_v2' \in BOOLEAN,
           InitNext(p)
    PROVE  SdInv'
<1> USE DEF InitNext
<1>1. StoreCs(FALSE) /\ got' = <<>> /\ pc' = p /\ out' = FF(1)
  BY DEF Deselect, Ask
<1>2. p \in High \ {"idle"}
  BY DEF High
<1>3. OpInv'
  BY <1>1, <1>2 DEF SdInv, OpInv
<1>4. TriesInv'
  BY <1>1 DEF TriesInv
<1>5. ClockInv'
  BY <1>1 DEF SdInv, ClockInv, KeepCard
<1>6. ResultInv'
  BY DEF ResultInv, DoneIsOnTheCard
<1>7. polls' \in 0 .. R1Tries + TokenTries + BusyTries
      /\ op' \in [k : {"none", "init", "read", "write"}, lba : Nat, data : Seq(Bytes)]
  BY DEF SdInv, StateInv
<1> QED
  BY <1>1, <1>2, <1>3, <1>4, <1>5, <1>6, <1>7, DeselectStep

\* R1 of CMD8 and CMD58 is followed by four bytes.
LEMMA InitWord ==
    ASSUME SdInv, out = <<>>, Idle, first_cmd_seen, pc = "r1", ~Mute, cstate = "idle", IsRest(resp, Full, 2), KeepCard, KeepCs,
           UNCHANGED <<busy, tx, rx, clk_fast, polls, cmd, inited, sdhc, is_v2, op, result, ops>>,
           NEW p, (p = "r7" /\ cmd = 8) \/ (p = "ocr" /\ cmd = 58), Ask(FF(4), p),
           tries' \in 0 .. Cmd0Tries + ReadyTries, TriesInv'
    PROVE  SdInv'
<1>1. out' = FF(4) /\ got' = <<>> /\ pc' = p /\ p \in {"r7", "ocr"}
  BY DEF Ask
<1>2. FF(4) \in Seq(Bytes) /\ Len(FF(4)) = 4
  <2>1. 4 \in Nat
    OBVIOUS
  <2> QED
    BY <2>1, FFBytes, Zenon
<1>3. Len(out') <= Preamble + Sector + 8
  <2>1. 4 <= Preamble + Sector + 8
    BY SdCardAssumption, SdDriverAssumption
  <2> QED
    BY <1>1, <1>2, <2>1
<1>4. op.k = "init" /\ (cmd = 8 => ~clk_fast) /\ (cmd = 58 => ready)
  BY DEF SdInv, OpInv, ClockInv, InitCommands
<1>5. OpInv'
  BY <1>1, <1>4 DEF SdInv, OpInv, High
<1>7. ClockInv'
  BY <1>1, <1>4 DEF SdInv, ClockInv, KeepCard
<1>8. Full' = Full /\ (Mute' <=> Mute)
  <2>1. KeepsAnswer
    BY DEF KeepsAnswer, KeepCard
  <2> QED
    BY <2>1, AnswerKept
<1>9. WordInv'
  <2>1. Pending' = out'
    BY DEF Pending, Idle
  <2>2. Len(got') = 0 /\ Len(Pending') = 4 /\ Len(got') + Len(Pending') = 4 /\ 2 + Len(got') = 2
    BY <1>1, <1>2, <2>1
  <2>3. cstate' = cstate /\ resp' = resp
    BY DEF KeepCs, KeepCard
  <2>4. IsRest(resp', Full', 2 + Len(got'))
    BY <1>8, <2>2, <2>3, Zenon
  <2> QED
    BY <1>8, <2>2, <2>3, <2>4 DEF WordInv
<1>10. polls' \in 0 .. R1Tries + TokenTries + BusyTries
  BY DEF SdInv, StateInv
<1>11. pc \notin High /\ pc' \notin High
  BY <1>1 DEF High
<1> QED
  BY <1>1, <1>2, <1>3, <1>5, <1>7, <1>9, <1>10, <1>11, TalkAt, AskStep

LEMMA InitAnswerStep ==
    ASSUME SdInv, InitAnswer
    PROVE  SdInv'
<1>1. KeepCard /\ UNCHANGED <<busy, tx, rx, clk_fast, polls, cmd, is_v2, op, result, ops>>
  BY DEF InitAnswer
<1>2. PICK r \in 0 .. 255 :
       /\ R1(r)
       /\ \/ /\ cmd = 0 /\ tries' = tries + 1
             /\ Deselect(IF r = 1 THEN "cmd8" ELSE IF tries' < Cmd0Tries THEN "cmd0" ELSE "failed")
             /\ UNCHANGED <<inited, sdhc>>
          \/ /\ cmd = 8 /\ tries' = 0
             /\ IF r = 1 THEN Ask(FF(4), "r7") /\ KeepCs ELSE Deselect("cmd55")
             /\ UNCHANGED <<inited, sdhc>>
          \/ /\ cmd = 55 /\ tries' = tries
             /\ Deselect(IF r <= 1 THEN "cmd41" ELSE "cmd1")
             /\ UNCHANGED <<inited, sdhc>>
          \/ /\ cmd \in {1, 41} /\ tries' = tries + 1
             /\ Deselect(IF r = 0 THEN IF is_v2 THEN "cmd58" ELSE "cmd16"
                         ELSE IF tries' < ReadyTries THEN "cmd55" ELSE "failed")
             /\ sdhc' = IF r = 0 /\ ~is_v2 THEN FALSE ELSE sdhc
             /\ inited' = (inited \/ (r = 0 /\ ~is_v2))
          \/ /\ cmd = 58 /\ tries' = tries
             /\ IF r = 0 THEN Ask(FF(4), "ocr") /\ KeepCs /\ UNCHANGED <<inited, sdhc>>
                ELSE Deselect("cmd16") /\ sdhc' = FALSE /\ inited' = TRUE
          \/ /\ cmd = 16 /\ tries' = tries
             /\ Deselect("fast") /\ UNCHANGED <<inited, sdhc>>
  BY Zenon DEF InitAnswer
<1>3. /\ pc = "r1" /\ out = <<>> /\ Idle /\ ~busy /\ first_cmd_seen
      /\ Mute => r = 255 /\ resp = <<>>
      /\ ~Mute => /\ r = Full[2] /\ r \in {0, 1} /\ IsRest(resp, Full, 2) /\ (cmd # 24 => cstate = "idle")
      /\ cmd \in {0, 8} /\ ~Mute => r = 1
      /\ cmd \in {58, 16, 17, 24} /\ ~Mute => r = 0
      /\ cmd \notin {8, 58, 17} => resp = <<>>
  BY <1>2, R1Known
<1>4. cmd \in InitCommands
  BY <1>2 DEF InitCommands
<1>5. /\ op.k = "init" /\ (cmd \in {0, 8, 55, 1, 41} => ~clk_fast) /\ (cmd \in {58, 16} => ready) /\ (sdhc => card.sdhc)
      /\ (cmd = 0 => tries < Cmd0Tries) /\ (cmd \in {55, 1, 41} => tries < ReadyTries)
  BY <1>3, <1>4 DEF SdInv, OpInv, ClockInv, TriesInv
<1>6. /\ tries \in 0 .. Cmd0Tries + ReadyTries /\ inited \in BOOLEAN /\ sdhc \in BOOLEAN /\ is_v2' \in BOOLEAN
      /\ Cmd0Tries \in Nat \ {0} /\ ReadyTries \in Nat \ {0}
  BY <1>1, SdDriverAssumption DEF SdInv, StateInv
<1>7. CASE cmd = 0
  <2> DEFINE p == IF r = 1 THEN "cmd8" ELSE IF tries' < Cmd0Tries THEN "cmd0" ELSE "failed"
  <2>1. tries' = tries + 1 /\ Deselect(p) /\ UNCHANGED <<inited, sdhc>> /\ resp = <<>>
    BY <1>2, <1>3, <1>7
  <2>2. tries' \in 0 .. Cmd0Tries + ReadyTries
    BY <1>5, <1>6, <1>7, <2>1
  <2>3. p \in {"cmd8", "cmd0", "failed"} /\ (p = "cmd0" => tries' < Cmd0Tries)
    OBVIOUS
  <2> HIDE DEF p
  <2> QED
    BY <1>1, <1>3, <1>5, <1>6, <1>7, <2>1, <2>2, <2>3, InitDeselect DEF InitNext
<1>8. CASE cmd = 8
  <2>1. tries' = 0 /\ UNCHANGED <<inited, sdhc>> /\ tries' \in 0 .. Cmd0Tries + ReadyTries /\ tries' < ReadyTries
    BY <1>2, <1>6, <1>8
  <2>2. CASE r = 1
    <3>1. ~Mute /\ Ask(FF(4), "r7") /\ KeepCs
      BY <1>2, <1>3, <1>8, <2>2
    <3>2. cstate = "idle" /\ IsRest(resp, Full, 2)
      BY <1>3, <1>8, <3>1
    <3> QED
      <4>1. UNCHANGED <<busy, tx, rx, clk_fast, polls, cmd, inited, sdhc, is_v2, op, result, ops>>
        BY <1>1, <2>1
      <4>2. tries' \in 0 .. Cmd0Tries + ReadyTries /\ TriesInv'
        BY <2>1, <3>1 DEF TriesInv, Ask
      <4>3. out = <<>> /\ Idle /\ first_cmd_seen /\ pc = "r1" /\ KeepCard
        BY <1>1, <1>3
      <4> QED
        BY <1>6, <1>8, <3>1, <3>2, <4>1, <4>2, <4>3, InitWord
  <2>3. CASE r # 1
    <3>1. Mute /\ Deselect("cmd55")
      BY <1>2, <1>3, <1>8, <2>3
    <3> QED
      BY <1>1, <1>3, <1>5, <1>6, <1>8, <2>1, <3>1, InitDeselect DEF InitNext
  <2> QED
    BY <2>2, <2>3
<1>9. CASE cmd = 55
  <2> DEFINE p == IF r <= 1 THEN "cmd41" ELSE "cmd1"
  <2>1. tries' = tries /\ Deselect(p) /\ UNCHANGED <<inited, sdhc>> /\ resp = <<>>
    BY <1>2, <1>3, <1>9
  <2>2. p \in {"cmd41", "cmd1"}
    OBVIOUS
  <2> HIDE DEF p
  <2> QED
    BY <1>1, <1>3, <1>5, <1>6, <1>9, <2>1, <2>2, InitDeselect DEF InitNext
<1>10. CASE cmd \in {1, 41}
  <2> DEFINE p == IF r = 0 THEN IF is_v2 THEN "cmd58" ELSE "cmd16"
                  ELSE IF tries' < ReadyTries THEN "cmd55" ELSE "failed"
  <2>1. /\ tries' = tries + 1 /\ Deselect(p) /\ sdhc' = (IF r = 0 /\ ~is_v2 THEN FALSE ELSE sdhc)
        /\ inited' = (inited \/ (r = 0 /\ ~is_v2)) /\ resp = <<>>
    <3>1. cmd \notin {0, 8, 55, 58, 16, 17}
      BY <1>10
    <3>2. cmd # 0 /\ cmd # 8 /\ cmd # 55 /\ cmd # 58 /\ cmd # 16
      BY <3>1
    <3>3. resp = <<>>
      BY <1>3, <3>1
    <3> QED
      BY <1>2, <3>2, <3>3, Zenon
  <2>2. tries' \in 0 .. Cmd0Tries + ReadyTries
    BY <1>5, <1>6, <1>10, <2>1
  <2>3. r = 0 => ready
    BY <1>3, <1>10, FullFacts
  <2>4. /\ p \in {"cmd58", "cmd16", "cmd55", "failed"} /\ (p \in {"cmd58", "cmd16"} => ready)
        /\ (p = "cmd55" => tries' < ReadyTries)
    BY <2>3
  <2>5. inited' \in BOOLEAN /\ sdhc' \in BOOLEAN /\ (sdhc' => card.sdhc)
    BY <1>5, <1>6, <2>1
  <2> HIDE DEF p
  <2>6. Deselect(p) /\ resp = <<>> /\ ~clk_fast
    BY <1>5, <1>10, <2>1
  <2> QED
    BY <1>1, <1>3, <1>5, <1>6, <2>2, <2>4, <2>5, <2>6, InitDeselect DEF InitNext
<1>11. CASE cmd = 58
  <2>1. tries' = tries
    BY <1>2, <1>11
  <2>2. CASE r = 0
    <3>1. ~Mute /\ Ask(FF(4), "ocr") /\ KeepCs /\ UNCHANGED <<inited, sdhc>>
      BY <1>2, <1>3, <1>11, <2>2
    <3>2. TriesInv'
      BY <3>1 DEF TriesInv, Ask
    <3> QED
      BY <1>1, <1>3, <1>6, <1>11, <2>1, <3>1, <3>2, InitWord
  <2>3. CASE r # 0
    <3>1. Mute /\ Deselect("cmd16") /\ sdhc' = FALSE /\ inited' = TRUE
      BY <1>2, <1>3, <1>11, <2>3
    <3> QED
      BY <1>1, <1>3, <1>5, <1>6, <1>11, <2>1, <3>1, InitDeselect DEF InitNext
  <2> QED
    BY <2>2, <2>3
<1>12. CASE cmd = 16
  <2>1. tries' = tries /\ Deselect("fast") /\ UNCHANGED <<inited, sdhc>> /\ resp = <<>>
    BY <1>2, <1>3, <1>12
  <2> QED
    BY <1>1, <1>3, <1>5, <1>6, <1>12, <2>1, InitDeselect DEF InitNext
<1> QED
  BY <1>2, <1>7, <1>8, <1>9, <1>10, <1>11, <1>12


\* The four bytes are clocked: the answer is at its end.
LEMMA WordKnown ==
    ASSUME SdInv, pc \in {"r7", "ocr"}, out = <<>>, Idle
    PROVE  /\ first_cmd_seen /\ op.k = "init" /\ resp = <<>> /\ tries \in 0 .. Cmd0Tries + ReadyTries
           /\ inited \in BOOLEAN /\ sdhc \in BOOLEAN /\ is_v2 \in BOOLEAN /\ (sdhc => card.sdhc)
           /\ pc = "r7" => tries < ReadyTries /\ ~clk_fast
           /\ pc = "ocr" => ready /\ got[1] = IF card.sdhc THEN 192 ELSE 128
<1>1. Pending = <<>> /\ first_cmd_seen /\ Len(got) \in Nat
  BY AtFacts
<1>2. /\ op.k = "init" /\ cmd \in {8, 58} /\ (pc = "ocr" => cmd = 58 /\ ready) /\ (sdhc => card.sdhc)
      /\ (pc = "r7" => tries < ReadyTries /\ ~clk_fast)
      /\ tries \in 0 .. Cmd0Tries + ReadyTries /\ inited \in BOOLEAN /\ sdhc \in BOOLEAN /\ is_v2 \in BOOLEAN
  BY DEF SdInv, OpInv, ClockInv, TriesInv, StateInv
<1>3. Len(got) = 4 /\ IsRest(resp, Full, 2 + Len(got)) /\ \A i \in 1 .. Len(got) : got[i] = Full[2 + i]
  <2>1. Len(Pending) = 0
    BY <1>1
  <2>2. Len(got) + Len(Pending) = 4 /\ IsRest(resp, Full, 2 + Len(got)) /\ \A i \in 1 .. Len(got) : got[i] = Full[2 + i]
    BY DEF SdInv, TalkInv, WordInv
  <2> QED
    BY <1>1, <2>1, <2>2
<1>4. AnswerFacts(cmd, Arg(Frame), Full)
  BY FullFacts
<1>5. Len(Full) = 6 /\ (cmd = 58 => Full[3] = IF card.sdhc THEN 192 ELSE 128)
  BY <1>2, <1>4 DEF AnswerFacts
<1>6. resp = <<>>
  <2>1. resp \in Seq(Bytes) /\ Len(resp) = Len(Full) - (2 + Len(got))
    BY <1>3 DEF IsRest
  <2>2. Len(resp) = 0
    BY <1>3, <1>5, <2>1
  <2> QED
    BY <2>1, <2>2, EmptySeq
<1>7. got[1] = Full[3]
  BY <1>3
<1> QED
  BY <1>1, <1>2, <1>5, <1>6, <1>7

LEMMA R7Step ==
    ASSUME SdInv, R7
    PROVE  SdInv'
<1>1. /\ pc = "r7" /\ out = <<>> /\ Idle /\ Deselect("cmd55") /\ KeepCard /\ is_v2' \in BOOLEAN
      /\ UNCHANGED <<busy, tx, rx, clk_fast, tries, polls, cmd, inited, sdhc, op, result, ops>>
  BY DEF R7, At
<1>2. /\ first_cmd_seen /\ op.k = "init" /\ resp = <<>> /\ tries \in 0 .. Cmd0Tries + ReadyTries
      /\ inited \in BOOLEAN /\ sdhc \in BOOLEAN /\ (sdhc => card.sdhc) /\ tries < ReadyTries /\ ~clk_fast
  BY <1>1, WordKnown
<1> QED
  BY <1>1, <1>2, InitDeselect DEF InitNext

LEMMA OcrStep ==
    ASSUME SdInv, Ocr
    PROVE  SdInv'
<1>1. /\ pc = "ocr" /\ out = <<>> /\ Idle /\ Deselect("cmd16") /\ KeepCard /\ inited' = TRUE
      /\ sdhc' = (((got[1] \div 64) % 2) = 1)
      /\ UNCHANGED <<busy, tx, rx, clk_fast, tries, polls, cmd, is_v2, op, result, ops>>
  BY DEF Ocr, At
<1>2. /\ first_cmd_seen /\ op.k = "init" /\ resp = <<>> /\ tries \in 0 .. Cmd0Tries + ReadyTries
      /\ is_v2 \in BOOLEAN /\ ready /\ got[1] = IF card.sdhc THEN 192 ELSE 128
  BY <1>1, WordKnown
<1>3. sdhc' \in BOOLEAN /\ (sdhc' => card.sdhc)
  <2>1. ~card.sdhc => ~(((got[1] \div 64) % 2) = 1)
    <3>1. ~(((128 \div 64) % 2) = 1)
      OBVIOUS
    <3>2. ~card.sdhc => got[1] = 128
      BY <1>2
    <3> QED
      BY <3>1, <3>2
  <2>2. sdhc' \in BOOLEAN
    BY <1>1, Zenon
  <2>3. sdhc' => (((got[1] \div 64) % 2) = 1)
    BY <1>1, Zenon
  <2> QED
    BY <2>1, <2>2, <2>3, Zenon
<1>4. UNCHANGED <<busy, tx, rx, clk_fast, polls, cmd, op, result, ops>> /\ tries' = tries /\ is_v2' = is_v2
  BY <1>1
<1>5. Deselect("cmd16") /\ KeepCard /\ inited' \in BOOLEAN /\ out = <<>> /\ Idle
  BY <1>1
<1> QED
  BY <1>2, <1>3, <1>4, <1>5, InitDeselect DEF InitNext

LEMMA FastStep ==
    ASSUME SdInv, Fast
    PROVE  SdInv'
<1>1. /\ pc = "fast" /\ out = <<>> /\ Idle /\ StoreDiv(TRUE) /\ out' = <<>> /\ got' = <<>> /\ pc' = "ok"
      /\ KeepCard /\ KeepCs
      /\ UNCHANGED <<busy, tx, rx, tries, polls, cmd, inited, sdhc, is_v2, op, result, ops>>
  BY DEF Fast, At, Goto, Ask
<1>2. ~busy /\ first_cmd_seen
  BY <1>1, AtFacts
<1>3. clk_fast' = TRUE
  BY <1>1, <1>2 DEF StoreDiv
<1>4. op.k = "init" /\ ready /\ cs_n /\ resp = <<>> /\ cstate = "idle" /\ StateInv
  BY <1>1 DEF SdInv, OpInv, ClockInv, CsInv, High
<1>5. StateInv'
  <2>1. out' \in Seq(Bytes) /\ Len(out') <= Preamble + Sector + 8
    BY <1>1, SdCardAssumption, SdDriverAssumption
  <2> QED
    BY <1>1, <1>2, <1>3, <1>4, <2>1, DriverState DEF StateInv, KeepCs
<1>6. OpInv' /\ TriesInv' /\ ClockInv'
  BY <1>1, <1>3, <1>4 DEF SdInv, OpInv, TriesInv, ClockInv, KeepCard, High
<1>7. CsInv' /\ PowerInv'
  BY <1>1, <1>2, <1>4 DEF SdInv, CsInv, PowerInv, KeepCs, KeepCard, High
<1>8. TalkInv' /\ ResultInv'
  BY <1>1, <1>4, HighTalk DEF High, ResultInv, DoneIsOnTheCard
<1> QED
  BY <1>5, <1>6, <1>7, <1>8 DEF SdInv

LEMMA StartInitStep ==
    ASSUME SdInv, StartInit
    PROVE  SdInv'
<1>1. /\ pc = "init" /\ out = <<>> /\ Idle /\ StoreDiv(FALSE) /\ StoreCs(FALSE) /\ out' = FF(1 + Preamble) /\ got' = <<>>
      /\ pc' = "cmd0" /\ tries' = 0 /\ is_v2' = FALSE /\ KeepCard
      /\ UNCHANGED <<busy, tx, rx, polls, cmd, inited, sdhc, op, result, ops>>
  BY DEF StartInit, At, Ask
<1>2. ~busy
  BY <1>1 DEF Idle
<1>3. op.k = "init" /\ cs_n /\ resp = <<>> /\ cstate = "idle" /\ StateInv /\ PowerInv
  BY <1>1 DEF SdInv, OpInv, CsInv, High
<1>4. clk_fast' = FALSE /\ cs_n' = TRUE /\ cstate' = "idle" /\ cbuf' = cbuf
  BY <1>1, <1>2, <1>3 DEF StoreDiv, StoreCs, StateInv
<1>5. Preamble \in Nat /\ Sector \in Nat /\ 8 * (1 + Preamble) >= 74 /\ Cmd0Tries \in Nat \ {0} /\ ReadyTries \in Nat
  BY SdDriverAssumption, SdCardAssumption DEF POWER_UP_CLOCKS
<1>6. out' \in Seq(Bytes) /\ Len(out') = 1 + Preamble /\ Len(out') <= Preamble + Sector + 8
  <2>1. 1 + Preamble \in Nat /\ 1 + Preamble <= Preamble + Sector + 8
    BY <1>5
  <2>2. FF(1 + Preamble) \in Seq(Bytes) /\ Len(FF(1 + Preamble)) = 1 + Preamble
    BY <2>1, FFBytes
  <2> QED
    BY <1>1, <2>1, <2>2
<1>7. StateInv' /\ Pending' = out'
  <2>1. tries' \in 0 .. Cmd0Tries + ReadyTries
    BY <1>1, <1>5
  <2> QED
    BY <1>1, <1>2, <1>3, <1>4, <1>6, <2>1, DriverState DEF StateInv
<1>8. OpInv' /\ TriesInv' /\ ClockInv'
  BY <1>1, <1>3, <1>4, <1>5 DEF SdInv, OpInv, TriesInv, ClockInv, KeepCard, High
<1>9. CsInv'
  BY <1>1, <1>3, <1>4 DEF CsInv, KeepCard, High
<1>10. PowerInv'
  <2>1. idle_clocks \in Nat /\ idle_clocks' = idle_clocks /\ first_cmd_seen' = first_cmd_seen
    BY <1>1, <1>3 DEF PowerInv, KeepCard
  <2>2. idle_clocks' + 8 * Len(Pending') >= POWER_UP_CLOCKS
    BY <1>5, <1>6, <1>7, <2>1 DEF POWER_UP_CLOCKS
  <2> QED
    BY <1>1, <1>3, <2>1, <2>2 DEF PowerInv
<1>11. TalkInv' /\ ResultInv'
  BY <1>1, <1>3, HighTalk DEF High, ResultInv, DoneIsOnTheCard
<1> QED
  BY <1>7, <1>8, <1>9, <1>10, <1>11 DEF SdInv


-----------------------------------------------------------------------------
(* Commands.                                                               *)

\* The command each step sends.
Sends(p, c) ==
    \/ (p = "cmd0" /\ c = 0) \/ (p = "cmd8" /\ c = 8) \/ (p = "cmd55" /\ c = 55) \/ (p = "cmd41" /\ c = 41)
    \/ (p = "cmd1" /\ c = 1) \/ (p = "cmd58" /\ c = 58) \/ (p = "cmd16" /\ c = 16)
    \/ (p \in {"read", "verify"} /\ c = 17) \/ (p = "write" /\ c = 24)

LEMMA CommandSent ==
    ASSUME pc \in DOMAIN Commands, cmd' = Commands[pc][1], UNCHANGED <<is_v2, sdhc, op>>, op.lba \in Nat
    PROVE  Sends(pc, cmd') /\ Commands[pc][2] = Argument' /\ Argument' \in Nat
<1>1. pc \in {"cmd0", "cmd8", "cmd55", "cmd41", "cmd1", "cmd58", "cmd16", "read", "verify", "write"}
  BY DEF Commands
<1>2. address(op.lba)' = address(op.lba) /\ address(op.lba) \in Nat
  <2>1. op.lba * Sector \in Nat
    BY SdCardAssumption
  <2> QED
    BY <2>1 DEF address
<1>3. CASE pc = "cmd0"
  <2>1. Commands[pc] = <<0, 0>>
    BY <1>3 DEF Commands
  <2> QED
    BY <1>3, <2>1, SMT DEF Sends, Argument
<1>4. CASE pc = "cmd8"
  <2>1. Commands[pc] = <<8, 426>>
    BY <1>4 DEF Commands
  <2> QED
    BY <1>4, <2>1, SMT DEF Sends, Argument
<1>5. CASE pc = "cmd55"
  <2>1. Commands[pc] = <<55, 0>>
    BY <1>5 DEF Commands
  <2> QED
    BY <1>5, <2>1, SMT DEF Sends, Argument
<1>6. CASE pc = "cmd41"
  <2>1. Commands[pc] = <<41, IF is_v2 THEN 1073741824 ELSE 0>>
    BY <1>6, SMT DEF Commands
  <2> QED
    BY <1>6, <2>1, SMT DEF Sends, Argument
<1>7. CASE pc = "cmd1"
  <2>1. Commands[pc] = <<1, IF is_v2 THEN 1073741824 ELSE 0>>
    BY <1>7, SMT DEF Commands
  <2> QED
    BY <1>7, <2>1, SMT DEF Sends, Argument
<1>8. CASE pc = "cmd58"
  <2>1. Commands[pc] = <<58, 0>>
    BY <1>8 DEF Commands
  <2> QED
    BY <1>8, <2>1, SMT DEF Sends, Argument
<1>9. CASE pc = "cmd16"
  <2>1. Commands[pc] = <<16, 512>>
    BY <1>9 DEF Commands
  <2> QED
    BY <1>9, <2>1, SMT DEF Sends, Argument
<1>10. CASE pc \in {"read", "verify"}
  <2>1. Commands[pc] = <<17, address(op.lba)>>
    BY <1>10 DEF Commands
  <2> QED
    BY <1>2, <1>10, <2>1, SMT DEF Sends, Argument
<1>11. CASE pc = "write"
  <2>1. Commands[pc] = <<24, address(op.lba)>>
    BY <1>11 DEF Commands
  <2> QED
    BY <1>2, <1>11, <2>1, SMT DEF Sends, Argument
<1> QED
  BY <1>1, <1>3, <1>4, <1>5, <1>6, <1>7, <1>8, <1>9, <1>10, <1>11

\* What SendCmd asks for.
Sent(c, a) == <<64 + c>> \o ArgBytes(a) \o <<255>> \o FF(1)

LEMMA SentFrame ==
    ASSUME NEW c \in InitCommands \cup {17, 24}, NEW a \in Nat
    PROVE  /\ Sent(c, a) \in Seq(Bytes) /\ Len(Sent(c, a)) = 7
           /\ Sent(c, a)[1] = 64 + c /\ Sent(c, a)[2] = ArgBytes(a)[1] /\ Sent(c, a)[3] = ArgBytes(a)[2]
           /\ Sent(c, a)[4] = ArgBytes(a)[3] /\ Sent(c, a)[5] = ArgBytes(a)[4]
           /\ Sent(c, a)[6] = 255 /\ Sent(c, a)[7] = 255
<1> DEFINE h == <<64 + c>>
           b == ArgBytes(a)
           t == <<255>>
<1>1. b \in Seq(Bytes) /\ Len(b) = 4
  BY SMT DEF ArgBytes, Bytes
<1>2. h \in Seq(Bytes) /\ Len(h) = 1 /\ h[1] = 64 + c
  <2>1. 64 + c \in Bytes
    BY SMT DEF InitCommands, Bytes
  <2> QED
    BY <2>1, SMT
<1>3. t \in Seq(Bytes) /\ Len(t) = 1 /\ t[1] = 255
  BY SMT DEF Bytes
<1> DEFINE hb == h \o b
           hbt == hb \o t
<1>4. Sent(c, a) = hbt \o t
  BY OneFF DEF Sent
<1> HIDE DEF h, b, t
<1>5. /\ hb \in Seq(Bytes) /\ Len(hb) = 5
      /\ hb[1] = 64 + c /\ hb[2] = b[1] /\ hb[3] = b[2] /\ hb[4] = b[3] /\ hb[5] = b[4]
  <2>1. h \in Seq(Bytes) /\ b \in Seq(Bytes)
    BY <1>1, <1>2
  <2>2. /\ hb \in Seq(Bytes) /\ Len(hb) = Len(h) + Len(b)
        /\ (\A i \in 1 .. Len(h) : hb[i] = h[i]) /\ \A i \in 1 .. Len(b) : hb[Len(h) + i] = b[i]
    BY <2>1, ConcatBytes, Zenon
  <2> HIDE DEF hb
  <2> QED
    BY <1>1, <1>2, <2>2, SMT
<1> HIDE DEF hb
<1>6. hbt \in Seq(Bytes) /\ Len(hbt) = 6 /\ (\A i \in 1 .. 5 : hbt[i] = hb[i]) /\ hbt[6] = 255
  <2>1. hb \in Seq(Bytes) /\ t \in Seq(Bytes)
    BY <1>3, <1>5
  <2>2. /\ hbt \in Seq(Bytes) /\ Len(hbt) = Len(hb) + Len(t)
        /\ (\A i \in 1 .. Len(hb) : hbt[i] = hb[i]) /\ \A i \in 1 .. Len(t) : hbt[Len(hb) + i] = t[i]
    BY <2>1, ConcatBytes, Zenon
  <2> HIDE DEF hbt
  <2> QED
    BY <1>3, <1>5, <2>2, SMT
<1> HIDE DEF hbt
<1> DEFINE st == hbt \o t
<1>7. st \in Seq(Bytes) /\ Len(st) = 7 /\ (\A i \in 1 .. 6 : st[i] = hbt[i]) /\ st[7] = 255
  <2>1. hbt \in Seq(Bytes) /\ t \in Seq(Bytes)
    BY <1>3, <1>6
  <2>2. /\ st \in Seq(Bytes) /\ Len(st) = Len(hbt) + Len(t)
        /\ (\A i \in 1 .. Len(hbt) : st[i] = hbt[i]) /\ \A i \in 1 .. Len(t) : st[Len(hbt) + i] = t[i]
    BY <2>1, ConcatBytes, Zenon
  <2> HIDE DEF st
  <2> QED
    BY <1>3, <1>6, <2>2, SMT
<1>8. Sent(c, a) = st
  BY <1>4
<1> HIDE DEF st
<1>9. st[1] = 64 + c /\ st[2] = b[1] /\ st[3] = b[2] /\ st[4] = b[3] /\ st[5] = b[4] /\ st[6] = 255
  BY <1>5, <1>6, <1>7, SMT
<1> QED
  BY <1>7, <1>8, <1>9, Zenon DEF b


LEMMA CommandStep ==
    ASSUME SdInv, Command
    PROVE  SdInv'
<1> DEFINE c == Commands[pc][1]
           a == Commands[pc][2]
<1>1. /\ pc \in DOMAIN Commands /\ out = <<>> /\ Idle /\ StoreCs(TRUE) /\ cmd' = c /\ polls' = 1 /\ pc' = "r1"
      /\ out' = <<64 + c>> \o ArgBytes(a) \o <<255>> \o FF(1) /\ got' = <<>> /\ KeepCard
      /\ UNCHANGED <<busy, tx, rx, clk_fast, tries, inited, sdhc, is_v2, op, result, ops>>
  BY Zenon DEF Command, SendCmd, At, Ask
<1>2. StateInv /\ OpInv /\ TriesInv /\ ClockInv /\ CsInv /\ PowerInv /\ ResultInv
  BY DEF SdInv
<1>3. op.lba \in Nat
  BY <1>2 DEF StateInv
<1>4. Sends(pc, cmd') /\ a = Argument' /\ Argument' \in Nat
  BY <1>1, <1>3, CommandSent, Zenon
<1> HIDE DEF a, c
<1>5. ~busy /\ Pending = <<>> /\ (pc # "cmd0" => first_cmd_seen) /\ pc \in High /\ pc # "idle"
  <2>1. pc \in High /\ pc \notin {"idle", "init"}
    BY <1>4 DEF Sends, High
  <2> QED
    BY <1>1, <2>1, AtFacts
<1>6. cs_n /\ resp = <<>> /\ cstate = "idle" /\ cs_n' = FALSE /\ cstate' = "idle" /\ cbuf' = cbuf
  BY <1>1, <1>2, <1>5 DEF CsInv, StoreCs, set_cs
<1>7. cmd' \in InitCommands \cup {17, 24}
  BY <1>4 DEF Sends, InitCommands
<1>8. /\ out' \in Seq(Bytes) /\ Len(out') = 7
      /\ out'[1] = 64 + c /\ out'[2] = ArgBytes(a)[1] /\ out'[3] = ArgBytes(a)[2] /\ out'[4] = ArgBytes(a)[3]
      /\ out'[5] = ArgBytes(a)[4] /\ out'[6] = 255 /\ out'[7] = 255
  <2>1. c \in InitCommands \cup {17, 24} /\ a \in Nat
    BY <1>1, <1>4, <1>7, Zenon
  <2>2. out' = Sent(c, a)
    BY <1>1, Zenon DEF Sent
  <2>3. /\ Sent(c, a) \in Seq(Bytes) /\ Len(Sent(c, a)) = 7
        /\ Sent(c, a)[1] = 64 + c /\ Sent(c, a)[2] = ArgBytes(a)[1] /\ Sent(c, a)[3] = ArgBytes(a)[2]
        /\ Sent(c, a)[4] = ArgBytes(a)[3] /\ Sent(c, a)[5] = ArgBytes(a)[4]
        /\ Sent(c, a)[6] = 255 /\ Sent(c, a)[7] = 255
    BY <2>1, SentFrame, SMT
  <2> QED
    BY <2>2, <2>3, Zenon
<1>9. StateInv' /\ Pending' = out'
  <2>1. Len(out') <= Preamble + Sector + 8
    <3>1. 7 <= Preamble + Sector + 8
      BY SdCardAssumption, SdDriverAssumption
    <3> QED
      BY <1>8, <3>1
  <2>2. polls' \in 0 .. R1Tries + TokenTries + BusyTries
    BY <1>1, SdDriverAssumption
  <2>3. out' \in Seq(Bytes)
    BY <1>8
  <2>4. KeepCard /\ got' = <<>> /\ UNCHANGED <<busy, tx, rx, clk_fast, tries, inited, sdhc, is_v2, op, result, ops>>
    BY <1>1
  <2> QED
    BY <1>2, <1>5, <1>6, <2>1, <2>2, <2>3, <2>4, DriverState DEF StateInv
<1>10. OpInv'
  BY <1>1, <1>2, <1>4 DEF OpInv, Sends, InitCommands
<1>11. TriesInv'
  <2>1. 1 \in 1 .. R1Tries
    BY SdDriverAssumption
  <2>2. pc' = "r1" /\ polls' = 1 /\ tries' = tries
    BY <1>1
  <2> QED
    BY <1>2, <1>4, <2>1, <2>2 DEF TriesInv, Sends
<1>12. ClockInv'
  <2>1. pc' = "r1" /\ clk_fast' = clk_fast /\ ready' = ready /\ sdhc' = sdhc /\ card' = card
    BY <1>1 DEF KeepCard
  <2> QED
    BY <1>2, <1>4, <2>1 DEF ClockInv, Sends
<1>13. CsInv'
  BY <1>1, <1>6 DEF CsInv, High
<1>14. InFrame'
  BY <1>1 DEF InFrame
<1>15. PowerInv'
  <2>1. idle_clocks' = idle_clocks /\ first_cmd_seen' = first_cmd_seen /\ inited' = inited /\ result' = result
    BY <1>1 DEF KeepCard
  <2>2. CASE first_cmd_seen
    BY <1>2, <2>1, <2>2 DEF PowerInv
  <2>3. CASE ~first_cmd_seen
    <3>1. pc = "cmd0" /\ cmd' = 0
      BY <1>4, <1>5, <2>3 DEF Sends
    <3>2. idle_clocks \in Nat /\ ~inited /\ result.op.k # "init" /\ idle_clocks + 8 * Len(Pending) >= POWER_UP_CLOCKS
      BY <1>2, <2>3, <3>1 DEF PowerInv, InFrame
    <3>3. idle_clocks >= POWER_UP_CLOCKS
      <4>1. Len(Pending) = 0
        BY <1>5
      <4> QED
        BY <3>2, <4>1
    <3> QED
      BY <1>14, <2>1, <3>1, <3>2, <3>3 DEF PowerInv
  <2> QED
    BY <2>2, <2>3
<1>16. ResultInv'
  BY <1>1, <1>2 DEF ResultInv, DoneIsOnTheCard, KeepCard, Addressable
<1>17. FrameInv' /\ PollInv' /\ AnswerInv'
  <2>1. IsRest(Pending', Frame', 0)
    <3> DEFINE q == out'
               f == Frame'
    <3>1. /\ Len(f) = 7 /\ f[1] = 64 + c /\ f[2] = ArgBytes(a)[1] /\ f[3] = ArgBytes(a)[2] /\ f[4] = ArgBytes(a)[3]
          /\ f[5] = ArgBytes(a)[4] /\ f[6] = 255 /\ f[7] = 255
      <4>1. f = <<64 + c, ArgBytes(a)[1], ArgBytes(a)[2], ArgBytes(a)[3], ArgBytes(a)[4], 255, 255>>
        BY <1>1, <1>4, Zenon DEF Frame
      <4> HIDE DEF f
      <4> QED
        BY <4>1, SMT
    <3>2. q \in Seq(Bytes) /\ Len(q) = 7 /\ q[1] = f[1] /\ q[2] = f[2] /\ q[3] = f[3] /\ q[4] = f[4] /\ q[5] = f[5]
          /\ q[6] = f[6] /\ q[7] = f[7]
      BY <1>8, <3>1
    <3>3. Len(f) = 7
      BY <3>1
    <3> HIDE DEF q, f
    <3>4. IsRest(q, f, 0)
      BY <3>2, <3>3 DEF IsRest
    <3> QED
      BY <1>9, <3>4 DEF q, f
  <2>2. Len(got') = 0
    BY <1>1
  <2>3. resp' = <<>> /\ cstate' = "idle"
    BY <1>1, <1>6 DEF KeepCard
  <2> QED
    BY <1>14, <2>1, <2>2, <2>3 DEF FrameInv, PollInv, AnswerInv
<1>18. TalkInv'
  <2>1. pc' = "r1"
    BY <1>1
  <2> QED
    BY <1>17, <2>1, TalkAt, Zenon
<1> QED
  BY <1>9, <1>10, <1>11, <1>12, <1>13, <1>15, <1>16, <1>18 DEF SdInv


-----------------------------------------------------------------------------
(* Reads and writes.                                                       *)

\* A read or write that ends, or a written block to be verified.
LEMMA BlockDeselect ==
    ASSUME SdInv, out = <<>>, Idle, first_cmd_seen, resp = <<>>, op.k \in {"read", "write"}, KeepCard,
           UNCHANGED <<busy, tx, rx, clk_fast, tries, cmd, inited, sdhc, is_v2, op, result, ops>>,
           NEW p, p = "failed" \/ (p = "verify" /\ op.k = "write"), Deselect(p),
           polls' \in 0 .. R1Tries + TokenTries + BusyTries
    PROVE  SdInv'
<1>1. StoreCs(FALSE) /\ got' = <<>> /\ pc' = p /\ out' = FF(1)
  BY DEF Deselect, Ask
<1>2. p \in High \ {"idle"}
  BY DEF High
<1>3. OpInv'
  BY <1>1, <1>2 DEF SdInv, OpInv
<1>4. TriesInv' /\ ClockInv'
  BY <1>1 DEF SdInv, TriesInv, ClockInv, KeepCard
<1>5. ResultInv'
  BY <1>1 DEF ResultInv, DoneIsOnTheCard
<1>6. /\ tries' \in 0 .. Cmd0Tries + ReadyTries /\ inited' \in BOOLEAN /\ sdhc' \in BOOLEAN /\ is_v2' \in BOOLEAN
      /\ op' \in [k : {"none", "init", "read", "write"}, lba : Nat, data : Seq(Bytes)]
  BY DEF SdInv, StateInv
<1> QED
  BY <1>1, <1>2, <1>3, <1>4, <1>5, <1>6, DeselectStep

\* A read or write that asks the card for more.
\* What a step of a block's transfer asks of the command, the call and the polls.
BlockNext(p) ==
    /\ p \in {"token", "data"} => cmd = 17 /\ op.k \in {"read", "write"}
    /\ p \in {"accepted", "programming"} => cmd = 24 /\ op.k = "write"
    /\ p = "token" => polls' <= TokenTries
    /\ p = "programming" => polls' <= BusyTries

LEMMA BlockAsk ==
    ASSUME SdInv, out = <<>>, Idle, first_cmd_seen, KeepCard, KeepCs, pc \notin High,
           UNCHANGED <<busy, tx, rx, clk_fast, tries, cmd, inited, sdhc, is_v2, op, result, ops>>,
           NEW p \in {"token", "data", "accepted", "programming"}, NEW s \in Seq(Bytes), Ask(s, p),
           Len(s) <= Preamble + Sector + 8, polls' \in 1 .. R1Tries + TokenTries + BusyTries,
           BlockNext(p), TalkInv'
    PROVE  SdInv'
<1> USE DEF BlockNext
<1>1. out' = s /\ got' = <<>> /\ pc' = p
  BY DEF Ask
<1>2. pc' \notin High
  BY <1>1 DEF High
<1>3. OpInv'
  BY <1>1 DEF SdInv, OpInv
<1>4. TriesInv'
  BY <1>1, SdDriverAssumption DEF TriesInv
<1>5. ClockInv'
  BY <1>1 DEF SdInv, ClockInv, KeepCard
<1>6. tries' \in 0 .. Cmd0Tries + ReadyTries /\ polls' \in 0 .. R1Tries + TokenTries + BusyTries
  BY SdDriverAssumption DEF SdInv, StateInv
<1> QED
  BY <1>1, <1>2, <1>3, <1>4, <1>5, <1>6, AskStep

\* One more byte of a poll: what is clocked is what was.
LEMMA OneMore ==
    ASSUME SdInv, out = <<>>, Idle, UNCHANGED <<busy>>, NEW p, Ask(FF(1), p), polls' \in Nat
    PROVE  Pending' = <<255>> /\ Pending' # <<>> /\ Clocked' = polls' - 1
<1>1. out' = <<255>> /\ ~busy
  BY OneFF DEF Ask, Idle
<1>2. Pending' = <<255>>
  BY <1>1 DEF Pending
<1>3. Clocked' = polls' - Len(Pending')
  BY DEF Clocked
<1>4. Len(<<255>>) = 1 /\ <<255>> # <<>>
  OBVIOUS
<1> QED
  BY <1>2, <1>3, <1>4

LEMMA TokenAsked ==
    ASSUME SdInv, out = <<>>, Idle, KeepCard, KeepCs, UNCHANGED <<busy, cmd, sdhc, is_v2, op>>,
           ~Mute, cstate = "idle", Ask(FF(1), "token"), polls' \in Nat \ {0},
           polls' <= 2 \/ ReadFails,
           IF polls' - 1 <= 2 THEN IsRest(resp, Full, 2 + (polls' - 1)) ELSE resp = <<>>
    PROVE  TalkInv'
<1>1. Pending' = <<255>> /\ Pending' # <<>> /\ Clocked' = polls' - 1
  BY OneMore
<1>2. Full' = Full /\ (Mute' <=> Mute) /\ (ReadFails' <=> ReadFails)
  <2>1. KeepsAnswer
    BY DEF KeepsAnswer, KeepCard
  <2> QED
    BY <2>1, AnswerKept
<1>3. pc' = "token" /\ resp' = resp /\ cstate' = cstate
  BY DEF Ask, KeepCard, KeepCs
<1>4. PollInv'
  BY <1>1 DEF PollInv
<1>5. TokenInv'
  BY <1>1, <1>2, <1>3 DEF TokenInv
<1> QED
  BY <1>3, <1>4, <1>5, TalkAt

LEMMA DataAnswerStep ==
    ASSUME SdInv, DataAnswer
    PROVE  SdInv'
<1>1. /\ KeepCard /\ polls' = 1
      /\ UNCHANGED <<busy, tx, rx, clk_fast, tries, cmd, inited, sdhc, is_v2, op, result, ops>>
  BY DEF DataAnswer
<1>2. PICK r \in 0 .. 255 :
       /\ R1(r) /\ cmd \in {17, 24}
       /\ \/ r # 0 /\ Deselect("failed")
          \/ /\ r = 0 /\ KeepCs
             /\ IF cmd = 17 THEN Ask(FF(1), "token")
                ELSE Ask(<<255, 254>> \o op.data \o FF(3), "accepted")
  BY Zenon DEF DataAnswer
<1>3. /\ pc = "r1" /\ out = <<>> /\ Idle /\ ~busy /\ first_cmd_seen
      /\ Mute => r = 255 /\ resp = <<>>
      /\ ~Mute => /\ r = 0 /\ IsRest(resp, Full, 2)
                  /\ (cmd = 24 => cstate = "wait_token") /\ (cmd # 24 => cstate = "idle")
      /\ cmd = 24 => resp = <<>>
  BY <1>2, R1Known
<1>4. op.k \in {"read", "write"} /\ (cmd = 24 => op.k = "write" /\ op.data \in Seq(Bytes) /\ Len(op.data) = Sector)
  BY <1>2, <1>3 DEF SdInv, OpInv
<1>5. /\ polls' \in 0 .. R1Tries + TokenTries + BusyTries /\ polls' \in 1 .. R1Tries + TokenTries + BusyTries
      /\ polls' <= TokenTries /\ polls' \in Nat \ {0} /\ Preamble \in Nat /\ Sector \in Nat
  BY <1>1, SdDriverAssumption, SdCardAssumption
<1>6. CASE r # 0
  BY <1>1, <1>2, <1>3, <1>4, <1>5, <1>6, BlockDeselect
<1>7. CASE r = 0 /\ cmd = 17
  <2>1. ~Mute /\ KeepCs /\ Ask(FF(1), "token") /\ cstate = "idle" /\ IsRest(resp, Full, 2) /\ pc \notin High
    BY <1>2, <1>3, <1>7 DEF High
  <2>2. IF polls' - 1 <= 2 THEN IsRest(resp, Full, 2 + (polls' - 1)) ELSE resp = <<>>
    BY <1>1, <2>1
  <2>3. TalkInv'
    BY <1>1, <1>3, <1>5, <2>1, <2>2, TokenAsked
  <2>4. FF(1) \in Seq(Bytes) /\ Len(FF(1)) <= Preamble + Sector + 8
    BY OneFits
  <2> QED
    BY <1>1, <1>3, <1>4, <1>5, <1>7, <2>1, <2>3, <2>4, BlockAsk DEF BlockNext
<1>8. CASE r = 0 /\ cmd = 24
  <2>1. ~Mute /\ KeepCs /\ Ask(Written, "accepted") /\ cstate = "wait_token" /\ resp = <<>> /\ pc \notin High
    <3>1. Ask(<<255, 254>> \o op.data \o FF(3), "accepted")
      BY <1>2, <1>8
    <3>2. Ask(Written, "accepted")
      BY <3>1, Zenon DEF Written
    <3> QED
      BY <1>2, <1>3, <1>8, <3>2 DEF High
  <2>2. Written \in Seq(Bytes) /\ Len(Written) = Sector + 5
    BY <1>4, <1>8, WrittenBytes
  <2>3. Len(Written) <= Preamble + Sector + 8
    BY <1>5, <2>2
  <2>4. TalkInv'
    <3>1. Pending' = Written /\ got' = <<>> /\ pc' = "accepted"
      BY <1>1, <1>3, <2>1 DEF Pending, Ask
    <3>2. Written' = Written
      BY <1>1, Zenon DEF Written
    <3>3. resp' = <<>> /\ cstate' = "wait_token"
      BY <1>1, <2>1 DEF KeepCard, KeepCs
    <3>4. Len(got') = 0 /\ IsRest(Pending', Written', 0)
      <4>1. IsRest(Written, Written, 0)
        BY <2>2 DEF IsRest
      <4> QED
        BY <3>1, <3>2, <4>1
    <3>5. WriteInv'
      BY <1>5, <3>1, <3>3, <3>4 DEF WriteInv
    <3> QED
      BY <3>1, <3>5, TalkAt
  <2> QED
    BY <1>1, <1>3, <1>4, <1>5, <1>8, <2>1, <2>2, <2>3, <2>4, BlockAsk DEF BlockNext
<1> QED
  BY <1>2, <1>6, <1>7, <1>8


\* A byte was polled for the token: it is the token of a block, or there is none yet, or none will come.
LEMMA TokenKnown ==
    ASSUME SdInv, pc = "token", out = <<>>, Idle
    PROVE  /\ ~Mute /\ cstate = "idle" /\ first_cmd_seen /\ cmd = 17 /\ op.k \in {"read", "write"}
           /\ polls \in 1 .. TokenTries
           /\ Last(got) = 254 => ~ReadFails /\ IsRest(resp, Full, 4)
           /\ Last(got) # 254 => /\ polls < 2 \/ ReadFails
                                 /\ IF polls <= 2 THEN IsRest(resp, Full, 2 + polls) ELSE resp = <<>>
           /\ polls >= 2 /\ Last(got) # 254 => resp = <<>>
<1>1. Pending = <<>> /\ Clocked = polls /\ polls \in Nat /\ first_cmd_seen
  BY AtFacts
<1>2. /\ ~Mute /\ cstate = "idle" /\ (polls <= 2 \/ ReadFails)
      /\ IF polls <= 2 THEN IsRest(resp, Full, 2 + polls) ELSE resp = <<>>
      /\ Last(got) = IF polls <= 2 THEN Full[2 + polls] ELSE 255
      /\ polls \in 1 .. TokenTries /\ cmd = 17 /\ op.k \in {"read", "write"}
  BY <1>1 DEF SdInv, TalkInv, TokenInv, TriesInv, OpInv
<1>3. AnswerFacts(cmd, Arg(Frame), Full)
  BY FullFacts
<1>4. Full[3] = 255 /\ (ReadFails => Full[4] = 8 /\ Len(Full) = 4) /\ (~ReadFails => Full[4] = 254)
  BY <1>2, <1>3 DEF AnswerFacts, ReadFails, Target
<1>5. polls = 1 \/ polls = 2 \/ polls > 2
  BY <1>1, <1>2, SdDriverAssumption
<1>6. CASE polls = 1
  <2>1. Last(got) = 255 /\ polls < 2 /\ ~(polls >= 2)
    BY <1>2, <1>4, <1>6
  <2> QED
    BY <1>1, <1>2, <2>1
<1>7. CASE polls = 2
  <2>1. Last(got) = Full[4] /\ IsRest(resp, Full, 4) /\ IsRest(resp, Full, 2 + polls) /\ polls <= 2
    BY <1>2, <1>7
  <2>2. CASE ReadFails
    <3>1. resp \in Seq(Bytes) /\ Len(resp) = Len(Full) - 4 /\ Len(Full) = 4
      BY <1>4, <2>1, <2>2 DEF IsRest
    <3>2. Len(resp) = 0
      BY <3>1
    <3>3. resp = <<>>
      BY <3>1, <3>2, EmptySeq
    <3> QED
      BY <1>1, <1>2, <1>4, <2>1, <2>2, <3>3
  <2>3. CASE ~ReadFails
    BY <1>1, <1>2, <1>4, <2>1, <2>3
  <2> QED
    BY <2>2, <2>3
<1>8. CASE polls > 2
  <2>1. ~(polls <= 2)
    BY <1>1, <1>8
  <2> QED
    BY <1>1, <1>2, <2>1
<1> QED
  BY <1>5, <1>6, <1>7, <1>8

LEMMA TokenStep ==
    ASSUME SdInv, Token
    PROVE  SdInv'
<1>1. /\ pc = "token" /\ out = <<>> /\ Idle /\ KeepCard
      /\ polls' = IF polls < TokenTries THEN polls + 1 ELSE polls
      /\ UNCHANGED <<busy, tx, rx, clk_fast, tries, cmd, inited, sdhc, is_v2, op, result, ops>>
  BY DEF Token, At
<1>2. /\ ~Mute /\ cstate = "idle" /\ first_cmd_seen /\ cmd = 17 /\ op.k \in {"read", "write"}
      /\ polls \in 1 .. TokenTries
      /\ Last(got) = 254 => ~ReadFails /\ IsRest(resp, Full, 4)
      /\ Last(got) # 254 => /\ polls < 2 \/ ReadFails
                            /\ IF polls <= 2 THEN IsRest(resp, Full, 2 + polls) ELSE resp = <<>>
      /\ polls >= 2 /\ Last(got) # 254 => resp = <<>>
  BY <1>1, TokenKnown
<1>3. TokenTries \in Nat /\ TokenTries > 1 /\ R1Tries \in Nat /\ BusyTries \in Nat /\ Preamble \in Nat /\ Sector \in Nat
  BY SdDriverAssumption, SdCardAssumption
<1>4. /\ polls' \in 1 .. TokenTries /\ polls' \in 0 .. R1Tries + TokenTries + BusyTries
      /\ polls' \in 1 .. R1Tries + TokenTries + BusyTries /\ polls' \in Nat \ {0}
  BY <1>1, <1>2, <1>3
<1>5. pc \notin High
  BY <1>1 DEF High
<1>6. CASE Last(got) = 254 /\ Ask(FF(Sector + 2), "data") /\ KeepCs
  <2>1. FF(Sector + 2) \in Seq(Bytes) /\ Len(FF(Sector + 2)) = Sector + 2
    <3>1. Sector + 2 \in Nat
      BY <1>3
    <3> QED
      BY <3>1, FFBytes
  <2>2. Len(FF(Sector + 2)) <= Preamble + Sector + 8
    BY <1>3, <2>1
  <2>3. Full' = Full /\ (Mute' <=> Mute) /\ (ReadFails' <=> ReadFails)
    <3>1. KeepsAnswer
      BY <1>1 DEF KeepsAnswer, KeepCard
    <3> QED
      BY <3>1, AnswerKept
  <2>4. BlockInv' /\ pc' = "data"
    <3>1. got' = <<>> /\ pc' = "data" /\ resp' = resp /\ cstate' = cstate /\ out' = FF(Sector + 2)
      BY <1>1, <1>6 DEF Ask, KeepCard, KeepCs
    <3>2. Pending' = out'
      BY <1>1 DEF Pending, Idle
    <3>3. Len(got') = 0 /\ Len(got') + Len(Pending') = Sector + 2 /\ 4 + Len(got') = 4
      BY <1>3, <2>1, <3>1, <3>2
    <3>4. IsRest(resp', Full', 4 + Len(got'))
      BY <1>2, <1>6, <2>3, <3>1, <3>3, Zenon
    <3> QED
      BY <1>2, <1>6, <2>3, <3>1, <3>3, <3>4 DEF BlockInv
  <2>5. TalkInv'
    BY <2>4, TalkAt, Zenon
  <2> QED
    BY <1>1, <1>2, <1>4, <1>5, <1>6, <2>1, <2>2, <2>5, BlockAsk DEF BlockNext
<1>7. CASE Last(got) # 254 /\ polls < TokenTries /\ Ask(FF(1), "token") /\ KeepCs
  <2>1. polls' - 1 = polls /\ polls' = polls + 1
    BY <1>1, <1>2, <1>7
  <2>2. polls' <= 2 \/ ReadFails
    BY <1>2, <1>7, <2>1
  <2>3. IF polls' - 1 <= 2 THEN IsRest(resp, Full, 2 + (polls' - 1)) ELSE resp = <<>>
    BY <1>2, <1>7, <2>1
  <2>4. TalkInv'
    BY <1>1, <1>2, <1>4, <1>7, <2>2, <2>3, TokenAsked
  <2>5. FF(1) \in Seq(Bytes) /\ Len(FF(1)) <= Preamble + Sector + 8 /\ polls' <= TokenTries
    BY <1>3, <1>4, OneFits
  <2> QED
    BY <1>1, <1>2, <1>4, <1>5, <1>7, <2>4, <2>5, BlockAsk DEF BlockNext
<1>8. CASE Last(got) # 254 /\ ~(polls < TokenTries) /\ Deselect("failed")
  <2>1. polls >= 2
    BY <1>2, <1>3, <1>8
  <2>2. resp = <<>>
    BY <1>2, <1>8, <2>1
  <2> QED
    BY <1>1, <1>2, <1>4, <1>8, <2>2, BlockDeselect
<1>9. \/ Last(got) = 254 /\ Ask(FF(Sector + 2), "data") /\ KeepCs
      \/ Last(got) # 254 /\ polls < TokenTries /\ Ask(FF(1), "token") /\ KeepCs
      \/ Last(got) # 254 /\ ~(polls < TokenTries) /\ Deselect("failed")
  BY Zenon DEF Token, IsToken, TokenTriesLeft, BlockAndCrc
<1> QED
  BY <1>6, <1>7, <1>8, <1>9

LEMMA DataStep ==
    ASSUME SdInv, Data
    PROVE  SdInv'
<1> DEFINE d == SubSeq(got, 1, Sector)
           p == IF op.k = "write" /\ d # op.data THEN "failed" ELSE "ok"
<1>1. /\ pc = "data" /\ out = <<>> /\ Idle /\ KeepCard /\ Deselect(p)
      /\ op' = [op EXCEPT !.data = IF op.k = "read" THEN d ELSE @]
      /\ UNCHANGED <<busy, tx, rx, clk_fast, tries, polls, cmd, inited, sdhc, is_v2, result, ops>>
  BY DEF Data, At
<1>2. Pending = <<>> /\ first_cmd_seen /\ got \in Seq(Bytes) /\ Len(got) \in Nat
  BY <1>1, AtFacts
<1>3. /\ ~Mute /\ ~ReadFails /\ cmd = 17 /\ op.k \in {"read", "write"} /\ Len(got) + Len(Pending) = Sector + 2
      /\ IsRest(resp, Full, 4 + Len(got)) /\ \A i \in 1 .. Len(got) : got[i] = Full[4 + i]
  BY <1>1 DEF SdInv, TalkInv, BlockInv, OpInv
<1>4. Sector \in Nat \ {0} /\ Len(got) = Sector + 2
  <2>1. Len(Pending) = 0 /\ Sector \in Nat \ {0}
    BY <1>2, SdCardAssumption
  <2> QED
    BY <1>2, <1>3, <2>1
<1>5. Len(Full) = Sector + 6 /\ \A i \in 1 .. Sector : Full[4 + i] = get_sector(Target)[i]
  <2>1. AnswerFacts(cmd, Arg(Frame), Full)
    BY FullFacts
  <2> QED
    BY <1>3, <2>1 DEF AnswerFacts, ReadFails, Target
<1>6. resp = <<>>
  <2>1. resp \in Seq(Bytes) /\ Len(resp) = Len(Full) - (4 + Len(got))
    BY <1>3 DEF IsRest
  <2>2. Len(resp) = 0
    BY <1>4, <1>5, <2>1
  <2> QED
    BY <2>1, <2>2, EmptySeq
<1>7. d \in Seq(Bytes) /\ Len(d) = Sector /\ \A i \in 1 .. Sector : d[i] = got[i]
  BY <1>2, <1>4
<1>8. d = get_sector(Target)
  <2>1. get_sector(Target) \in Seq(Bytes) /\ Len(get_sector(Target)) = Sector
    BY SectorBytes DEF SdInv
  <2> HIDE DEF d
  <2>2. \A i \in 1 .. Sector : d[i] = get_sector(Target)[i]
    <3>1. SUFFICES ASSUME NEW i \in 1 .. Sector PROVE d[i] = get_sector(Target)[i]
      OBVIOUS
    <3>2. i \in 1 .. Len(got)
      BY <1>4
    <3> QED
      BY <1>3, <1>5, <1>7, <3>2, Zenon
  <2> DEFINE g == get_sector(Target)
  <2> HIDE DEF g
  <2>3. g \in Seq(Bytes) /\ Len(g) = Sector /\ \A i \in 1 .. Sector : d[i] = g[i]
    BY <2>1, <2>2 DEF g
  <2>4. d = g
    BY <1>7, <2>3
  <2> QED
    BY <2>4 DEF g
<1> HIDE DEF d
<1>9. op.lba \in Lbas /\ (Addressable => d = sectors[op.lba])
  <2>1. (Addressable => Target = op.lba) /\ op.lba \in Lbas
    BY <1>3, SectorNamed DEF SdInv
  <2> QED
    BY <1>8, <2>1 DEF get_sector
<1>10. /\ op'.k = op.k /\ op'.lba = op.lba /\ (op'.data = IF op.k = "read" THEN d ELSE op.data)
       /\ op' \in [k : {"none", "init", "read", "write"}, lba : Nat, data : Seq(Bytes)]
  <2>1. op \in [k : {"none", "init", "read", "write"}, lba : Nat, data : Seq(Bytes)]
    BY DEF SdInv, StateInv
  <2> QED
    BY <1>1, <1>7, <2>1
<1>11. StoreCs(FALSE) /\ got' = <<>> /\ pc' = p /\ out' = FF(1)
  BY <1>1 DEF Deselect, Ask
<1>12. p \in {"ok", "failed"} /\ (p = "ok" => op'.data = d)
  BY <1>3, <1>10
<1> HIDE DEF p
<1>13. pc' \in High \ {"idle"}
  BY <1>11, <1>12 DEF High
<1>14. OpInv'
  <2>1. op.k = "write" => op.data \in Seq(Bytes) /\ Len(op.data) = Sector
    BY DEF SdInv, OpInv
  <2>2. op.lba \in Sectors
    BY <1>3 DEF SdInv, OpInv
  <2>3. cmd' = 17 /\ op'.k \in {"read", "write"} /\ op'.lba \in Sectors /\ pc' \in {"ok", "failed"}
        /\ (op'.k = "write" => op'.data \in Seq(Bytes) /\ Len(op'.data) = Sector)
    BY <1>1, <1>3, <1>10, <1>11, <1>12, <2>1, <2>2
  <2> QED
    BY <1>13, <2>3 DEF OpInv, InitCommands
<1>15. TriesInv' /\ ClockInv'
  BY <1>1, <1>11, <1>12 DEF SdInv, TriesInv, ClockInv, KeepCard
<1>16. ResultInv'
  <2>1. sectors' = sectors /\ card' = card /\ sdhc' = sdhc /\ op'.k # "none"
    BY <1>1, <1>3, <1>10 DEF KeepCard
  <2>2. Addressable' <=> Addressable
    BY <2>1 DEF Addressable
  <2> QED
    BY <1>9, <1>10, <1>11, <1>12, <2>1, <2>2 DEF ResultInv, DoneIsOnTheCard
<1>17. /\ tries' \in 0 .. Cmd0Tries + ReadyTries /\ polls' \in 0 .. R1Tries + TokenTries + BusyTries
       /\ inited' \in BOOLEAN /\ sdhc' \in BOOLEAN /\ is_v2' \in BOOLEAN
  BY <1>1 DEF SdInv, StateInv
<1>18. /\ out = <<>> /\ Idle /\ KeepCard /\ UNCHANGED <<busy, tx, rx, clk_fast, ops>>
       /\ op' \in [k : {"none", "init", "read", "write"}, lba : Nat, data : Seq(Bytes)]
  BY <1>1, <1>10
<1> QED
  BY <1>2, <1>6, <1>11, <1>13, <1>14, <1>15, <1>16, <1>17, <1>18, DeselectStep


LEMMA ProgrammingAsked ==
    ASSUME SdInv, out = <<>>, Idle, KeepCard, KeepCs, UNCHANGED <<busy>>,
           cstate = "resync", Ask(FF(1), "programming"), polls' \in Nat \ {0},
           resp = IF polls' = 1 THEN << 63 >> ELSE <<>>
    PROVE  TalkInv'
<1>1. Pending' = <<255>> /\ Pending' # <<>> /\ Clocked' = polls' - 1
  BY OneMore
<1>2. pc' = "programming" /\ resp' = resp /\ cstate' = cstate
  BY DEF Ask, KeepCard, KeepCs
<1>3. PollInv'
  BY <1>1 DEF PollInv
<1>4. Clocked' = 0 <=> polls' = 1
  BY <1>1
<1>5. ProgrammingInv'
  BY <1>2, <1>4 DEF ProgrammingInv
<1> QED
  BY <1>2, <1>3, <1>5, TalkAt

LEMMA AcceptedStep ==
    ASSUME SdInv, Accepted
    PROVE  SdInv'
<1>1. /\ pc = "accepted" /\ out = <<>> /\ Idle /\ KeepCard /\ polls' = 1
      /\ IF (Last(got) % 32) = 5 THEN Ask(FF(1), "programming") /\ KeepCs ELSE Deselect("failed")
      /\ UNCHANGED <<busy, tx, rx, clk_fast, tries, cmd, inited, sdhc, is_v2, op, result, ops>>
  BY DEF Accepted, At
<1>2. Pending = <<>> /\ first_cmd_seen /\ Len(got) \in Nat
  BY <1>1, AtFacts
<1>3. /\ cmd = 24 /\ op.k = "write" /\ op.data \in Seq(Bytes) /\ Len(op.data) = Sector /\ pc \notin High
      /\ IsRest(Pending, Written, Len(got))
      /\ Len(got) > Sector + 3 => cstate = "resync" /\ IsRest(resp, DataResponse, Len(got) - (Sector + 4))
      /\ Len(got) = Sector + 5 => Last(got) = DataResponse[1]
  BY <1>1 DEF SdInv, TalkInv, WriteInv, OpInv, High
<1>4. Len(got) = Sector + 5 /\ Sector \in Nat
  <2>1. Len(Pending) = Len(Written) - Len(got) /\ Len(Pending) = 0
    BY <1>2, <1>3 DEF IsRest
  <2>2. Len(Written) = Sector + 5 /\ Sector \in Nat
    BY <1>3, WrittenBytes, SdCardAssumption
  <2> QED
    BY <1>2, <2>1, <2>2
<1>5. cstate = "resync" /\ IsRest(resp, DataResponse, 1) /\ Last(got) = DataResponse[1]
  <2>1. Len(got) > Sector + 3 /\ Len(got) - (Sector + 4) = 1
    BY <1>4
  <2> QED
    BY <1>3, <1>4, <2>1
<1>6. resp \in Seq(Bytes) /\ Len(resp) = Len(DataResponse) - 1 /\ \A i \in 1 .. Len(resp) : resp[i] = DataResponse[1 + i]
  BY <1>5 DEF IsRest
<1>7. /\ polls' \in 0 .. R1Tries + TokenTries + BusyTries /\ polls' \in 1 .. R1Tries + TokenTries + BusyTries
      /\ polls' \in Nat \ {0} /\ polls' <= BusyTries
  BY <1>1, SdDriverAssumption
<1>8. CASE DataResponse = <<11>>
  <2>1. Last(got) = 11 /\ Len(resp) = 0
    BY <1>5, <1>6, <1>8
  <2>2. resp = <<>>
    BY <1>6, <2>1, EmptySeq
  <2>3. Deselect("failed")
    <3>1. ~((11 % 32) = 5)
      OBVIOUS
    <3> QED
      BY <1>1, <2>1, <3>1
  <2> QED
    BY <1>1, <1>2, <1>3, <1>7, <2>2, <2>3, BlockDeselect
<1>9. CASE DataResponse = <<5, 63>>
  <2>1. Last(got) = 5 /\ Len(resp) = 1
    BY <1>5, <1>6, <1>9
  <2>2. resp = <<63>>
    <3>1. resp[1] = DataResponse[1 + 1]
      <4>1. 1 \in 1 .. Len(resp)
        BY <2>1
      <4> QED
        BY <1>6, <4>1, Zenon
    <3>2. DataResponse[1 + 1] = 63
      BY <1>9
    <3> QED
      BY <1>6, <2>1, <3>1, <3>2
  <2>3. Ask(FF(1), "programming") /\ KeepCs
    <3>1. (5 % 32) = 5
      OBVIOUS
    <3> QED
      BY <1>1, <2>1, <3>1
  <2>4. TalkInv'
    BY <1>1, <1>5, <1>7, <2>2, <2>3, ProgrammingAsked
  <2> QED
    BY <1>1, <1>2, <1>3, <1>7, <2>3, <2>4, OneFits, BlockAsk DEF BlockNext
<1> QED
  BY <1>8, <1>9 DEF DataResponse

LEMMA ProgrammingStep ==
    ASSUME SdInv, Programming
    PROVE  SdInv'
<1>1. /\ pc = "programming" /\ out = <<>> /\ Idle /\ KeepCard
      /\ \/ Last(got) = 255 /\ Deselect("verify")
         \/ Last(got) # 255 /\ polls < BusyTries /\ Ask(FF(1), "programming") /\ KeepCs
         \/ Last(got) # 255 /\ polls >= BusyTries /\ Deselect("failed")
      /\ polls' = IF polls < BusyTries THEN polls + 1 ELSE polls
      /\ UNCHANGED <<busy, tx, rx, clk_fast, tries, cmd, inited, sdhc, is_v2, op, result, ops>>
  BY DEF Programming, At
<1>2. Clocked = polls /\ polls \in Nat /\ first_cmd_seen
  BY <1>1, AtFacts
<1>3. /\ cmd = 24 /\ op.k = "write" /\ pc \notin High /\ cstate = "resync" /\ polls \in 1 .. BusyTries
      /\ resp = IF Clocked = 0 THEN <<63>> ELSE <<>>
  BY <1>1 DEF SdInv, TalkInv, ProgrammingInv, TriesInv, OpInv, High
<1>4. BusyTries \in Nat /\ R1Tries \in Nat /\ TokenTries \in Nat
  BY SdDriverAssumption
<1>5. resp = <<>>
  BY <1>2, <1>3, <1>4
<1>6. /\ polls' \in 0 .. R1Tries + TokenTries + BusyTries /\ polls' \in 1 .. R1Tries + TokenTries + BusyTries
      /\ polls' \in Nat \ {0} /\ polls' <= BusyTries
  BY <1>1, <1>2, <1>3, <1>4
<1>7. CASE Deselect("verify") \/ Deselect("failed")
  <2>1. PICK p \in {"verify", "failed"} : Deselect(p)
    BY <1>7
  <2>2. p = "failed" \/ (p = "verify" /\ op.k = "write")
    BY <1>3, <2>1
  <2>3. UNCHANGED <<busy, tx, rx, clk_fast, tries, cmd, inited, sdhc, is_v2, op, result, ops>> /\ out = <<>> /\ Idle /\ KeepCard
    BY <1>1
  <2> QED
    BY <1>2, <1>3, <1>5, <1>6, <2>1, <2>2, <2>3, BlockDeselect
<1>8. CASE polls < BusyTries /\ Ask(FF(1), "programming") /\ KeepCs
  <2>1. polls' # 1
    BY <1>1, <1>2, <1>3, <1>4, <1>8
  <2>2. resp = IF polls' = 1 THEN <<63>> ELSE <<>>
    BY <1>5, <2>1
  <2>3. UNCHANGED <<busy, tx, rx, clk_fast, tries, cmd, inited, sdhc, is_v2, op, result, ops>> /\ out = <<>> /\ Idle /\ KeepCard
    BY <1>1
  <2>4. TalkInv'
    BY <1>3, <1>6, <1>8, <2>2, <2>3, ProgrammingAsked
  <2> QED
    BY <1>2, <1>3, <1>6, <1>8, <2>3, <2>4, OneFits, BlockAsk DEF BlockNext
<1> QED
  BY <1>1, <1>7, <1>8


-----------------------------------------------------------------------------
(* Calls.                                                                  *)

\* The driver is idle, and so is the bus.
LEMMA IdleFacts ==
    ASSUME SdInv, op.k = "none"
    PROVE  pc = "idle" /\ out = <<>> /\ ~busy /\ cs_n /\ resp = <<>> /\ cstate = "idle"
<1>1. pc = "idle"
  BY DEF SdInv, OpInv
<1> QED
  BY <1>1 DEF SdInv, CsInv, High

\* What a call, its return, a new program or a fault leaves.
CallNext ==
    /\ fault' \in FaultSets /\ inited' \in BOOLEAN /\ sdhc' \in BOOLEAN /\ ops' \in 0 .. MaxOps
    /\ op' \in [k : {"none", "init", "read", "write"}, lba : Nat, data : Seq(Bytes)]
    /\ sdhc' => card.sdhc
    /\ pc' \in {"idle", "init", "read", "write"}
    /\ pc' = "init" => op'.k = "init"
    /\ pc' = "read" => op'.k = "read" /\ op'.lba \in Sectors
    /\ pc' = "write" => op'.k = "write" /\ op'.lba \in Sectors /\ Len(op'.data) = Sector
    /\ pc' = "idle" => op'.k = "none"
    /\ ~first_cmd_seen => ~inited' /\ result'.op.k # "init" /\ pc' \in {"idle", "init"}
    /\ DoneIsOnTheCard'

\* Steps outside a transfer, of a driver that has deselected the card.
LEMMA CallStep ==
    ASSUME SdInv, pc \in High, ~busy, out = <<>>, got' = <<>> \/ got' = got, out' = <<>>, pc' \in High,
           UNCHANGED <<card, sectors, violations, idle_clocks, first_cmd_seen, ready, fast_reported,
                       sclk_fast, resp, cstate, cbuf, lba, spi, tries, polls, cmd, is_v2>>,
           CallNext
    PROVE  SdInv'
<1> USE DEF CallNext
<1>1. StateInv /\ OpInv /\ TriesInv /\ ClockInv /\ PowerInv /\ CsInv
  BY DEF SdInv
<1>2. StateInv'
  <2>1. Pending' = <<>> /\ Pending = <<>> /\ busy' = busy
    BY DEF Pending, spi
  <2>2. Len(<<>>) = 0 /\ <<>> \in Seq(Bytes)
    OBVIOUS
  <2>3. got \in Seq(Bytes) /\ Len(got) \in Nat /\ Len(got) + 0 <= Preamble + Sector + 8
    BY <1>1, <2>1, <2>2 DEF StateInv
  <2>4. got' \in Seq(Bytes) /\ Len(got') + Len(Pending') <= Preamble + Sector + 8
    <3>1. 0 + 0 <= Preamble + Sector + 8
      BY SdDriverAssumption, SdCardAssumption
    <3> QED
      BY <2>1, <2>2, <2>3, <3>1
  <2> QED
    BY <1>1, <2>2, <2>4 DEF StateInv, spi
<1>3. OpInv'
  <2>1. op'.data \in Seq(Bytes) /\ op'.k \in {"none", "init", "read", "write"} /\ cmd' = cmd
    OBVIOUS
  <2>2. cmd \in InitCommands \cup {17, 24}
    BY <1>1 DEF OpInv
  <2> QED
    BY <2>1, <2>2 DEF OpInv, High
<1>4. TriesInv'
  BY DEF TriesInv
<1>5. ClockInv'
  BY <1>1 DEF ClockInv, spi
<1>6. PowerInv'
  BY <1>1 DEF PowerInv
<1>7. CsInv'
  BY <1>1 DEF CsInv, spi
<1>8. ResultInv'
  BY DEF ResultInv
<1> QED
  BY <1>2, <1>3, <1>4, <1>5, <1>6, <1>7, <1>8, HighTalk DEF SdInv

LEMMA CallsStep ==
    ASSUME SdInv, Call
    PROVE  SdInv'
<1>1. /\ op.k = "none" /\ ops < MaxOps /\ result' = NoResult /\ ops' = ops + 1 /\ out' = <<>> /\ got' = <<>>
      /\ \/ op' = [NoOp EXCEPT !.k = "init"] /\ pc' = "init" /\ inited' = FALSE
         \/ /\ inited \/ result.op.k = "init"
            /\ inited' = inited /\ pc' = "read"
            /\ \E s \in Sectors : op' = [k |-> "read", lba |-> s, data |-> <<>>]
         \/ /\ inited /\ inited' = inited /\ pc' = "write"
            /\ \E s \in Sectors, d \in Contents : op' = [k |-> "write", lba |-> s, data |-> d]
      /\ UNCHANGED <<cardVars, spi, tries, polls, cmd, sdhc, is_v2>>
  BY DEF Call, Begin, Goto, Ask
<1>2. pc = "idle" /\ out = <<>> /\ ~busy
  BY <1>1, IdleFacts
<1>3. StateInv /\ PowerInv /\ ClockInv
  BY DEF SdInv
<1>4. Sectors \subseteq Nat
  BY AddressAssumption, SdCardAssumption
<1>5. /\ op' \in [k : {"none", "init", "read", "write"}, lba : Nat, data : Seq(Bytes)]
      /\ pc' = "init" => op'.k = "init"
      /\ pc' = "read" => op'.k = "read" /\ op'.lba \in Sectors
      /\ pc' = "write" => op'.k = "write" /\ op'.lba \in Sectors /\ Len(op'.data) = Sector
      /\ pc' \in {"init", "read", "write"}
  <2> DEFINE e == <<>>
  <2>0. e \in Seq(Bytes)
    OBVIOUS
  <2> HIDE DEF e
  <2>1. CASE op' = [NoOp EXCEPT !.k = "init"] /\ pc' = "init"
    <3>1. [NoOp EXCEPT !.k = "init"] = [k |-> "init", lba |-> 0, data |-> e]
      BY DEF NoOp, e
    <3>2. op' = [k |-> "init", lba |-> 0, data |-> e] /\ pc' = "init"
      BY <2>1, <3>1
    <3> QED
      BY <2>0, <3>2
  <2>2. CASE pc' = "read" /\ \E s \in Sectors : op' = [k |-> "read", lba |-> s, data |-> <<>>]
    <3>1. PICK s \in Sectors : op' = [k |-> "read", lba |-> s, data |-> e]
      BY <2>2 DEF e
    <3>2. s \in Nat
      BY <1>4
    <3> QED
      BY <2>0, <2>2, <3>1, <3>2
  <2>3. CASE pc' = "write" /\ \E s \in Sectors, d \in Contents : op' = [k |-> "write", lba |-> s, data |-> d]
    <3>1. PICK s \in Sectors, d \in Contents : op' = [k |-> "write", lba |-> s, data |-> d]
      BY <2>3
    <3>2. d \in Seq(Bytes) /\ Len(d) = Sector
      <4>1. d \in [1 .. Sector -> Bytes] /\ Sector \in Nat
        BY SdDriverAssumption, SdCardAssumption DEF Bytes
      <4> QED
        BY <4>1
    <3> QED
      BY <1>4, <2>3, <3>1, <3>2
  <2> QED
    BY <1>1, <2>1, <2>2, <2>3
<1>6. inited' \in BOOLEAN /\ (~first_cmd_seen => ~inited' /\ pc' = "init") /\ (sdhc' => card.sdhc) /\ sdhc' \in BOOLEAN
  BY <1>1, <1>3 DEF StateInv, PowerInv, ClockInv
<1>7. ops' \in 0 .. MaxOps
  <2>1. MaxOps \in Nat
    BY SdDriverAssumption
  <2>2. ops \in 0 .. MaxOps /\ ops < MaxOps /\ ops' = ops + 1
    BY <1>1, <1>3 DEF StateInv
  <2> QED
    BY <2>1, <2>2
<1>8. DoneIsOnTheCard' /\ result'.op.k # "init"
  BY <1>1 DEF DoneIsOnTheCard, NoResult, NoOp
<1>9. pc \in High /\ pc' \in High /\ pc' \in {"idle", "init", "read", "write"} /\ pc' # "idle"
  BY <1>2, <1>5 DEF High
<1>10. fault' \in FaultSets
  BY <1>1, <1>3 DEF StateInv, cardVars
<1>11. UNCHANGED <<card, sectors, violations, idle_clocks, first_cmd_seen, ready, fast_reported,
                   sclk_fast, resp, cstate, cbuf, lba, spi, tries, polls, cmd, is_v2>>
  BY <1>1 DEF cardVars
<1>12. out' = <<>> /\ got' = <<>>
  BY <1>1
<1> QED
  BY <1>2, <1>5, <1>6, <1>7, <1>8, <1>9, <1>10, <1>11, <1>12, CallStep DEF CallNext

LEMMA ReturnStep ==
    ASSUME SdInv, Return
    PROVE  SdInv'
<1>1. /\ op.k # "none" /\ pc \in {"ok", "failed"} /\ out = <<>> /\ ~busy /\ result' = [ok |-> pc = "ok", op |-> op]
      /\ op' = NoOp /\ out' = <<>> /\ got' = <<>> /\ pc' = "idle"
      /\ UNCHANGED <<cardVars, spi, tries, polls, cmd, inited, sdhc, is_v2, ops>>
  BY DEF Return, At, Goto, Ask, Idle
<1>2. StateInv /\ PowerInv /\ ClockInv /\ ResultInv
  BY DEF SdInv
<1>3. DoneIsOnTheCard'
  <2>1. (result'.ok <=> pc = "ok") /\ result'.op = op
    BY <1>1
  <2>2. sectors' = sectors /\ (Addressable' <=> Addressable)
    BY <1>1 DEF Addressable, cardVars
  <2> QED
    BY <1>2, <2>1, <2>2 DEF DoneIsOnTheCard, ResultInv
<1>4. op' \in [k : {"none", "init", "read", "write"}, lba : Nat, data : Seq(Bytes)] /\ op'.k = "none"
  BY <1>1 DEF NoOp
<1>5. /\ inited' \in BOOLEAN /\ sdhc' \in BOOLEAN /\ (sdhc' => card.sdhc)
      /\ first_cmd_seen /\ ops' \in 0 .. MaxOps /\ fault' \in FaultSets
  <2>1. first_cmd_seen
    BY <1>1, <1>2 DEF PowerInv, InFrame
  <2> QED
    BY <1>1, <1>2, <2>1 DEF StateInv, ClockInv, cardVars
<1>6. pc \in High /\ pc' \in High
  BY <1>1 DEF High
<1>7. UNCHANGED <<card, sectors, violations, idle_clocks, first_cmd_seen, ready, fast_reported,
                  sclk_fast, resp, cstate, cbuf, lba, spi, tries, polls, cmd, is_v2>>
  BY <1>1 DEF cardVars
<1>8. out = <<>> /\ ~busy /\ out' = <<>> /\ got' = <<>> /\ pc' = "idle"
  BY <1>1
<1> QED
  BY <1>3, <1>4, <1>5, <1>6, <1>7, <1>8, CallStep DEF CallNext

LEMMA NewProgramStep ==
    ASSUME SdInv, NewProgram
    PROVE  SdInv'
<1>1. /\ op.k = "none" /\ inited /\ inited' \in BOOLEAN /\ sdhc' = (inited' /\ sdhc) /\ result' = NoResult
      /\ UNCHANGED <<cardVars, spi, out, got, pc, tries, polls, cmd, is_v2, op, ops>>
  BY DEF NewProgram
<1>2. pc = "idle" /\ out = <<>> /\ ~busy
  BY <1>1, IdleFacts
<1>3. StateInv /\ PowerInv /\ ClockInv
  BY DEF SdInv
<1>4. DoneIsOnTheCard' /\ result'.op.k # "init"
  BY <1>1 DEF DoneIsOnTheCard, NoResult, NoOp
<1>5. first_cmd_seen
  BY <1>1, <1>3 DEF PowerInv
<1>6. sdhc' \in BOOLEAN /\ (sdhc' => card.sdhc)
  BY <1>1, <1>3, Zenon DEF StateInv, ClockInv
<1>7. /\ op' \in [k : {"none", "init", "read", "write"}, lba : Nat, data : Seq(Bytes)] /\ op'.k = "none"
      /\ ops' \in 0 .. MaxOps /\ fault' \in FaultSets
  BY <1>1, <1>3 DEF StateInv, cardVars
<1>8. pc \in High /\ pc' \in High /\ pc' = "idle"
  BY <1>1, <1>2 DEF High
<1>9. UNCHANGED <<card, sectors, violations, idle_clocks, first_cmd_seen, ready, fast_reported,
                  sclk_fast, resp, cstate, cbuf, lba, spi, tries, polls, cmd, is_v2>>
  BY <1>1 DEF cardVars
<1>10. out' = <<>> /\ got' = got /\ inited' \in BOOLEAN
  BY <1>1, <1>2
<1> QED
  BY <1>2, <1>4, <1>5, <1>6, <1>7, <1>8, <1>9, <1>10, CallStep DEF CallNext

LEMMA FailsStep ==
    ASSUME SdInv, Fails
    PROVE  SdInv'
<1>1. /\ op.k = "none" /\ fault' \in FaultSets /\ result' = NoResult
      /\ UNCHANGED <<card, sectors, violations, idle_clocks, first_cmd_seen, ready, fast_reported, sclk_fast,
                     resp, cstate, cbuf, lba, spi, out, got, pc, tries, polls, cmd, inited, sdhc, is_v2, op, ops>>
  BY DEF Fails
<1>2. pc = "idle" /\ out = <<>> /\ ~busy
  BY <1>1, IdleFacts
<1>3. StateInv /\ PowerInv /\ ClockInv
  BY DEF SdInv
<1>4. DoneIsOnTheCard' /\ result'.op.k # "init"
  BY <1>1 DEF DoneIsOnTheCard, NoResult, NoOp
<1>5. /\ op' \in [k : {"none", "init", "read", "write"}, lba : Nat, data : Seq(Bytes)] /\ op'.k = "none"
      /\ ops' \in 0 .. MaxOps /\ inited' \in BOOLEAN /\ sdhc' \in BOOLEAN /\ (sdhc' => card.sdhc)
      /\ (~first_cmd_seen => ~inited')
  BY <1>1, <1>3 DEF StateInv, ClockInv, PowerInv
<1>6. pc \in High /\ pc' \in High /\ pc' = "idle"
  BY <1>1, <1>2 DEF High
<1>7. UNCHANGED <<card, sectors, violations, idle_clocks, first_cmd_seen, ready, fast_reported,
                  sclk_fast, resp, cstate, cbuf, lba, spi, tries, polls, cmd, is_v2>>
  BY <1>1
<1>8. out' = <<>> /\ got' = got
  BY <1>1, <1>2
<1> QED
  BY <1>1, <1>2, <1>4, <1>5, <1>6, <1>7, <1>8, CallStep DEF CallNext

-----------------------------------------------------------------------------
(* The invariant.                                                          *)

LEMMA StutterStep ==
    ASSUME SdInv, UNCHANGED vars
    PROVE  SdInv'
<1> USE DEF SdInv, TalkInv
<1>1. UNCHANGED <<card, fault, sectors, violations, idle_clocks, first_cmd_seen, ready, fast_reported, sclk_fast,
                  resp, cstate, cbuf, lba, busy, tx, rx, cs_n, clk_fast, out, got, pc, tries, polls, cmd, inited,
                  sdhc, is_v2, op, result, ops>>
  BY DEF vars, cardVars, spi, driver
<1>2. KeepsAnswer
  BY <1>1 DEF KeepsAnswer
<1>3. Full' = Full /\ Frame' = Frame /\ Target' = Target /\ (ReadFails' <=> ReadFails) /\ (Mute' <=> Mute)
  BY <1>2, AnswerKept
<1>4. Pending' = Pending
  BY <1>1 DEF Pending
<1> USE <1>1
<1>5. StateInv'
  BY <1>4 DEF StateInv
<1>6. OpInv' /\ TriesInv' /\ ClockInv' /\ CsInv'
  BY DEF OpInv, TriesInv, ClockInv, CsInv
<1>7. PowerInv'
  BY <1>4 DEF PowerInv, InFrame
<1>8. ResultInv'
  BY DEF ResultInv, DoneIsOnTheCard, Addressable
<1>9. (InFrame' <=> InFrame) /\ Clocked' = Clocked /\ Written' = Written /\ DataResponse' = DataResponse
  BY <1>4 DEF InFrame, Clocked, Written, DataResponse
<1>10. FrameInv' /\ PollInv'
  BY <1>3, <1>4, <1>9 DEF FrameInv, PollInv
<1>11. AnswerInv'
  BY <1>3, <1>4, <1>9 DEF AnswerInv
<1>12. WordInv' /\ TokenInv' /\ BlockInv'
  BY <1>3, <1>4, <1>9 DEF WordInv, TokenInv, BlockInv
<1>13. WriteInv' /\ ProgrammingInv'
  BY <1>4, <1>9 DEF WriteInv, ProgrammingInv
<1> QED
  BY <1>5, <1>6, <1>7, <1>8, <1>10, <1>11, <1>12, <1>13

LEMMA InitInv ==
    ASSUME Init
    PROVE  SdInv
<1>1. /\ card \in Cards /\ fault \in FaultSets /\ sectors = [n \in Lbas |-> [i \in 1 .. Sector |-> 0]]
      /\ violations = {} /\ idle_clocks = 0 /\ first_cmd_seen = FALSE /\ ready = FALSE
      /\ resp = <<>> /\ cstate = "idle" /\ cbuf = <<>> /\ lba = 0
      /\ busy = FALSE /\ tx = 255 /\ rx = 255 /\ cs_n = TRUE /\ clk_fast = FALSE
      /\ out = <<>> /\ got = <<>> /\ pc = "idle" /\ tries = 0 /\ polls = 0 /\ cmd = 0
      /\ inited = FALSE /\ sdhc = FALSE /\ is_v2 = FALSE /\ op = NoOp /\ result = NoResult /\ ops = 0
  BY DEF Init, CardInit
<1>2. Sector \in Nat \ {0}
  BY SdCardAssumption
<1>3. StateInv
  <2>1. sectors \in [Lbas -> Seq(Bytes)] /\ \A n \in Lbas : Len(sectors[n]) = Sector
    <3> DEFINE z == [i \in 1 .. Sector |-> 0]
    <3>1. z \in Seq(Bytes) /\ Len(z) = Sector
      BY <1>2 DEF Bytes
    <3>2. sectors = [n \in Lbas |-> z]
      BY <1>1
    <3> HIDE DEF z
    <3> QED
      BY <3>1, <3>2
  <2>2. <<>> \in Seq(Bytes) /\ Len(<<>>) = 0
    OBVIOUS
  <2>3. op \in [k : {"none", "init", "read", "write"}, lba : Nat, data : Seq(Bytes)]
    BY <1>1, <2>2 DEF NoOp
  <2>4. Pending = <<>> /\ Len(got) + Len(Pending) = 0
    BY <1>1, <2>2 DEF Pending
  <2>5. 0 <= Preamble + Sector + 8 /\ 0 <= Sector + 6
    BY <1>2, SdDriverAssumption
  <2>6. 0 \in 0 .. Cmd0Tries + ReadyTries /\ 0 \in 0 .. R1Tries + TokenTries + BusyTries /\ 0 \in 0 .. MaxOps
    BY SdDriverAssumption
  <2>7. tx \in Bytes /\ rx \in Bytes /\ lba \in Nat
    BY <1>1 DEF Bytes
  <2> QED
    BY <1>1, <2>1, <2>2, <2>3, <2>4, <2>5, <2>6, <2>7 DEF StateInv
<1>4. OpInv /\ TriesInv /\ ClockInv /\ PowerInv /\ CsInv
  BY <1>1 DEF OpInv, TriesInv, ClockInv, PowerInv, CsInv, NoOp, NoResult, High, InitCommands
<1>5. TalkInv
  BY <1>1 DEF TalkInv, FrameInv, InFrame, PollInv, AnswerInv, WordInv, TokenInv, BlockInv, WriteInv, ProgrammingInv
<1>6. ResultInv
  BY <1>1 DEF ResultInv, DoneIsOnTheCard, NoResult
<1> QED
  BY <1>3, <1>4, <1>5, <1>6 DEF SdInv

LEMMA NextInv ==
    ASSUME SdInv, [Next]_vars
    PROVE  SdInv'
<1>1. CASE ByteClocked
  BY <1>1, ByteClockedStep
<1>2. CASE Driver
  BY <1>2, TransferStep, CommandStep, StartInitStep, PollAgainStep, InitAnswerStep, R7Step, OcrStep, FastStep,
     DataAnswerStep, TokenStep, DataStep, AcceptedStep, ProgrammingStep, ReturnStep, Zenon DEF Driver
<1>3. CASE Call
  BY <1>3, CallsStep
<1>4. CASE NewProgram
  BY <1>4, NewProgramStep
<1>5. CASE Fails
  BY <1>5, FailsStep
<1>6. CASE UNCHANGED vars
  BY <1>6, StutterStep
<1> QED
  BY <1>1, <1>2, <1>3, <1>4, <1>5, <1>6, Zenon DEF Next

\* The driver of sdcard.rs and the card of sdcard_protocol.py stay in step at every byte: what
\* the card has heard is a prefix of the frame, and what it has left to send is the rest of
\* this command's answer, for any sector size, loop lengths, faults, calls and programs.
THEOREM SdInvariant == Spec => []SdInv
<1>1. Init => SdInv
  BY InitInv
<1>2. SdInv /\ [Next]_vars => SdInv'
  BY NextInv
<1> QED
  BY <1>1, <1>2, PTL DEF Spec

\* A strict card never reports anything, with any preamble of at least 74 clocks: not the
\* power-up clocks, not SCLK before it is ready, not an address off a sector boundary
\* (init, read_block and write_block of sdcard.rs).
THEOREM NoViolationsTheorem == Spec => []NoViolations
<1>1. SdInv => NoViolations
  BY DEF SdInv, StateInv, NoViolations
<1> QED
  BY <1>1, SdInvariant, PTL

\* What read_block and write_block report is so: the sector is as they say on every card
\* that can be addressed, and when they return the card listens for the next command with
\* nothing left to send, after any faults, retries and programs.
THEOREM ReportsAreTrueTheorem == Spec => []ReportsAreTrue
<1>1. SdInv => ReportsAreTrue
  <2> SUFFICES ASSUME SdInv PROVE ReportsAreTrue
    OBVIOUS
  <2>1. TypeOK
    <3>1. StateInv
      BY DEF SdInv
    <3>2. Len(got) <= Preamble + Sector + 8
      <4>1. Pending \in Seq(Bytes) /\ got \in Seq(Bytes)
        BY <3>1 DEF StateInv, Pending
      <4>2. Len(got) \in Nat /\ Len(Pending) \in Nat /\ Len(got) + Len(Pending) <= Preamble + Sector + 8
        BY <3>1, <4>1 DEF StateInv
      <4>3. Preamble + Sector + 8 \in Nat
        BY SdDriverAssumption, SdCardAssumption
      <4> QED
        BY <4>2, <4>3
    <3>3. tx \in 0 .. 255 /\ rx \in 0 .. 255
      BY <3>1 DEF StateInv, Bytes
    <3>4. violations \subseteq {"power-up", "sclk", "alignment"}
      BY <3>1 DEF StateInv
    <3> QED
      BY <3>1, <3>2, <3>3, <3>4 DEF StateInv, TypeOK
  <2>2. DoneIsOnTheCard
    BY DEF SdInv, ResultInv
  <2>3. NothingLeftOver
    BY IdleFacts DEF NothingLeftOver
  <2> QED
    BY <2>1, <2>2, <2>3 DEF ReportsAreTrue
<1> QED
  BY <1>1, SdInvariant, PTL
=============================================================================

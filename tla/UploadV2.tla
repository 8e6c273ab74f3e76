------------------------------- MODULE UploadV2 -------------------------------
(***************************************************************************)
(* Transfer v2: the device (fw_common/src/upload.rs with the sinks of      *)
(* boot.rs and stage2/src/cmds.rs) and the host (tools/vux_tool.py:        *)
(* send_upload_v2 and its callers ram_boot, put and install_stage2) over a *)
(* serial line that drops, changes and inserts.                            *)
(*                                                                         *)
(* A byte is [b |-> value].  The four bytes of a CRC-32 are                *)
(* [crc |-> content, i |-> 1 .. Word]: two contents that occur never have  *)
(* the same CRC.  A text of the device is a token; its line end is a token *)
(* of its own, so that the line can lose it and join two lines.            *)
(* Time passes (Tick) only while the line is quiet: a byte takes 87 us,    *)
(* the shortest timeout is 5 s.                                            *)
(***************************************************************************)
EXTENDS Integers, Sequences, SequencesExt, FiniteSets

CONSTANTS
    Base,          \* values of a byte, 0 .. Base-1
    Word,          \* bytes of a u32
    Block,         \* UPLOAD_V2_BLOCK, BLOCK
    HeaderLen,     \* HEADER_LEN: kind, load address, size, CRC of the payload
    WindowLen,     \* length of STAGE2_WINDOW, which starts at address 0
    MaxLen,        \* RAM_BOOT_MAX, SCRATCH_BYTES
    Files,         \* what the host may send
    Callers,       \* subset of {"ram_boot", "put", "install"}
    ByteTimeout,   \* BYTE_TIMEOUT_MS, in ticks
    LineTimeout,   \* the host's timeout for a line
    MaxFaults, MaxCalls

ASSUME UploadAssumption ==
    /\ Base \in Nat \ {0} /\ Word \in Nat \ {0, 1} /\ HeaderLen = 4 /\ Block \in Nat /\ Block > HeaderLen
    /\ WindowLen \in Nat /\ MaxLen \in Nat /\ MaxFaults \in Nat /\ MaxCalls \in Nat
    /\ ByteTimeout \in Nat \ {0} /\ LineTimeout \in Nat /\ LineTimeout > ByteTimeout
    /\ Callers \subseteq {"ram_boot", "put", "install"}

\* A fact of arithmetic that takes an induction: the place values of a word are numbers.
ASSUME PowersAssumption == \A i \in 1 .. Word : Base^(i - 1) \in Nat \ {0}

VARIABLES
    caller, data,                  \* the host's call
    hostPc, hostI, hostBuf, hostT, \* its place, block, partial line, ticks waited
    calls, outcome,                \* calls made, how the last one ended
    devPc, devGot, devLen, devIndex, devRest, devCrc, devT,
    sinkHdr, mem, sinkAt, dirty,   \* the sink; a stray byte in the shell's line
    toDev, toHost, faults

host == <<caller, data, hostPc, hostI, hostBuf, hostT, calls, outcome>>
sink == <<sinkHdr, mem, sinkAt>>
dev  == <<devPc, devGot, devLen, devIndex, devRest, devCrc, devT, sink, dirty>>
line == <<toDev, toHost>>
vars == <<host, dev, line, faults>>

------------------------------------------------------------------------------
(* Bytes and words *)

Byte(v) == [b |-> v]
IsByte(x) == "b" \in DOMAIN x

\* A file is of bytes and of the CRC its header names, which is one element there: no file
\* holds the last byte of a CRC that follows a transfer.
FileTokens == UNION {{f[k] : k \in DOMAIN f} : f \in Files}

ASSUME FilesAssumption ==
    /\ \A f \in Files : f \in Seq(FileTokens)
    /\ \A x \in FileTokens : x \in [b : 0 .. Base - 1] \/ (~IsByte(x) /\ x = [crc |-> x.crc, i |-> 1])

\* struct.pack("<I", n): little-endian digits
PackLen(n) == [i \in 1 .. Word |-> Byte((n \div Base^(i - 1)) % Base)]
CrcWord(content) == [i \in 1 .. Word |-> [crc |-> content, i |-> i]]

\* recv_u32: len is the number with these digits
LenOf(word, len) ==
    \A i \in 1 .. Word : (len \div Base^(i - 1)) % Base = IF IsByte(word[i]) THEN word[i].b ELSE 0

\* A v4 file: kind (1: one the first stage starts), load address, size, CRC of the payload
HeaderOf(content) == SubSeq(content, 1, HeaderLen)
PayloadOf(content) == SubSeq(content, HeaderLen + 1, Len(content))

\* ImageHeader::parse, the size against the transfer's, ImageHeader::check, check_stage2
HeaderAccepted(h, len) ==
    /\ IsByte(h[1]) /\ h[1].b = 1
    /\ IsByte(h[2]) /\ IsByte(h[3])
    /\ h[3].b + HeaderLen = len
    /\ h[2].b + h[3].b <= WindowLen

Text(k, n) == [k |-> k, n |-> n]
LineEnd == Text("eol", 0)
Line(k, n) == <<Text(k, n), LineEnd>>

\* what the line may make of a token or a byte
Garbled(x) ==
    IF "k" \in DOMAIN x
    THEN {Text("noise", 0)} \cup
         (IF x.k \in {"LEN", "READY-BLK"} THEN {Text(x.k, n) : n \in (0 .. MaxLen) \ {x.n}} ELSE {})
    ELSE {Byte(v) : v \in 0 .. Base - 1} \ {x}

------------------------------------------------------------------------------
(* The device *)

Put(tokens) == toHost' = toHost \o tokens

\* upload_v2 returns to the prompt of the stage that ran it
Prompt == <<Text(IF caller = "ram_boot" THEN "s1" ELSE "s2", 0)>>

Leave == devPc' = "prompt" /\ devGot' = <<>> /\ devT' = 0

Fail == Leave /\ Put(Line("ERR", 0) \o Prompt)

\* upload_v2's start: drain what arrived, ask for the length.  A stray byte in the shell's
\* line makes the command an unknown one.
StartExchange ==
    IF caller # "ram_boot" /\ dirty
    THEN /\ Leave /\ Put(Line("ERR", 0) \o Prompt) /\ dirty' = FALSE /\ toDev' = Tail(toDev)
         /\ UNCHANGED <<devLen, devIndex, devRest, devCrc, sink>>
    ELSE /\ devPc' = "len" /\ devGot' = <<>> /\ devT' = 0 /\ dirty' = FALSE
         /\ toDev' = <<>>
         /\ Put(Line("echo", 0) \o Line("READY-V2", 0))
         /\ UNCHANGED <<devLen, devIndex, devRest, devCrc, sink>>

\* A byte at a prompt: the first stage answers every key, the second keeps it in its line
AtPrompt ==
    /\ devPc = "prompt" /\ toDev # <<>>
    /\ \/ /\ Head(toDev) = Text("cmd", 0)
          /\ StartExchange
       \/ /\ Head(toDev) # Text("cmd", 0)
          /\ toDev' = Tail(toDev)
          /\ IF caller = "ram_boot" THEN dirty' = dirty /\ Put(Line("echo", 0) \o Prompt)
                                    ELSE dirty' = TRUE /\ toHost' = toHost
          /\ UNCHANGED <<devPc, devGot, devLen, devIndex, devRest, devCrc, devT, sink>>
    /\ UNCHANGED <<host, faults>>

BlockLen == IF devRest < Block THEN devRest ELSE Block

Wanted == IF devPc = "blk" THEN BlockLen ELSE Word

\* recv: a byte that is not yet the last of what upload_v2 asked for
Recv ==
    /\ devPc \in {"len", "blk", "crc"} /\ toDev # <<>>
    /\ Len(devGot) + 1 < Wanted
    /\ devGot' = Append(devGot, Head(toDev))
    /\ toDev' = Tail(toDev) /\ devT' = 0
    /\ UNCHANGED <<host, devPc, devLen, devIndex, devRest, devCrc, sink, dirty, toHost, faults>>

Whole == Append(devGot, Head(toDev))

\* mutant: recv waits for ever
RecvForEver == FALSE /\ UNCHANGED vars

\* recv: no byte within BYTE_TIMEOUT_MS; sink.finish(false) changes nothing that is used
RecvTimeout ==
    /\ devPc \in {"len", "blk", "crc"} /\ toDev = <<>> /\ devT >= ByteTimeout
    /\ Fail
    /\ UNCHANGED <<host, devLen, devIndex, devRest, devCrc, sink, dirty, toDev, faults>>

\* RamBoot::new and begin, Scratch's begin
Begin(len) ==
    /\ sinkHdr' = <<>> /\ mem' = <<>> /\ sinkAt' = 0

BeginRefuses(len) == caller = "ram_boot" /\ len <= HeaderLen

GotLength ==
    /\ devPc = "len" /\ toDev # <<>> /\ Len(devGot) + 1 = Word
    /\ \E len \in 0 .. Base^Word - 1 :
       /\ LenOf(Whole, len)
       /\ \/ /\ len = 0 \/ len > MaxLen \/ BeginRefuses(len)
             /\ Fail
             /\ UNCHANGED <<devLen, devIndex, devRest, devCrc, sink>>
          \/ /\ len > 0 /\ len <= MaxLen /\ ~BeginRefuses(len)
             /\ Begin(len)
             /\ devLen' = len /\ devRest' = len /\ devIndex' = 0 /\ devCrc' = <<>>
             /\ devPc' = "blk" /\ devGot' = <<>> /\ devT' = 0
             /\ Put(Line("LEN", len) \o Line("READY-BLK", 0))
    /\ toDev' = Tail(toDev)
    /\ UNCHANGED <<host, dirty, faults>>

\* the sink's block(): RamBoot checks the header of block 0 and stores the payload from its
\* load address on; Scratch stores every block from address 0 on
BlockRefused(block) == caller = "ram_boot" /\ devIndex = 0 /\ ~HeaderAccepted(block, devLen)

StoreBlock(block) ==
    LET first   == caller = "ram_boot" /\ devIndex = 0
        payload == IF first THEN PayloadOf(block) ELSE block
    IN  /\ sinkHdr' = IF first THEN HeaderOf(block) ELSE sinkHdr
        /\ mem' = mem \o payload
        /\ sinkAt' = (IF first THEN block[2].b ELSE sinkAt) + Len(payload)

GotBlock ==
    /\ devPc = "blk" /\ toDev # <<>> /\ Len(devGot) + 1 = BlockLen
    /\ \/ /\ BlockRefused(Whole)
          /\ Fail
          /\ UNCHANGED <<devIndex, devRest, devCrc, sink>>
       \/ /\ ~BlockRefused(Whole)
          /\ StoreBlock(Whole)
          /\ devCrc' = devCrc \o Whole
          /\ devRest' = devRest - BlockLen /\ devIndex' = devIndex + 1
          /\ devGot' = <<>> /\ devT' = 0
          /\ devPc' = IF devRest' > 0 THEN "blk" ELSE "crc"
          /\ Put(IF devRest' > 0 THEN Line("READY-BLK", devIndex') ELSE Line("READY-CRC", 0))
    /\ toDev' = Tail(toDev)
    /\ UNCHANGED <<host, devLen, dirty, faults>>

\* finish(true): RamBoot compares the payload's CRC with the header's
FinishAccepts == caller = "ram_boot" => sinkHdr[4] = [crc |-> mem, i |-> 1]

CrcMatches == Whole = CrcWord(devCrc)

\* the CRC; on [OK] the first stage starts the second, whose prompt follows, and put and
\* install go on to the card and print their line
GotCrc ==
    /\ devPc = "crc" /\ toDev # <<>> /\ Len(devGot) + 1 = Word
    /\ \/ /\ ~CrcMatches \/ ~FinishAccepts
          /\ Fail
       \/ /\ CrcMatches /\ FinishAccepts
          /\ devPc' = "stored" /\ devGot' = <<>> /\ devT' = 0
          /\ Put(Line("OK", 0) \o Line("result", 0) \o <<Text("s2", 0)>>)
    /\ toDev' = Tail(toDev)
    /\ UNCHANGED <<host, devLen, devIndex, devRest, devCrc, sink, dirty, faults>>

------------------------------------------------------------------------------
(* The host *)

Write(bytes) == toDev' = toDev \o bytes

Await(pc) == hostPc' = pc /\ hostBuf' = <<>> /\ hostT' = 0

\* ram_boot, put, install_stage2: drain_serial, then the command.  put and install leave
\* the second stage at its prompt, for another one; ram_boot started it.
Call ==
    /\ hostPc = "idle" /\ calls < MaxCalls
    /\ \/ devPc # "stored" /\ devPc' = devPc
       \/ devPc = "stored" /\ caller # "ram_boot" /\ devPc' = "prompt"
    /\ \E d \in Files : data' = d
    /\ calls' = calls + 1 /\ outcome' = "none" /\ hostI' = 0
    /\ Write(<<Text("cmd", 0)>>) /\ toHost' = <<>>
    /\ Await("READY-V2")
    /\ UNCHANGED <<caller, devGot, devLen, devIndex, devRest, devCrc, devT, sink, dirty, faults>>

Blocks == (Len(data) + Block - 1) \div Block

Wants == Text(hostPc, IF hostPc = "LEN" THEN Len(data) ELSE IF hostPc = "READY-BLK" THEN hostI ELSE 0)

InUpload == hostPc \in {"READY-V2", "LEN", "READY-BLK", "READY-CRC", "OK"}

\* _upload_line skips a line that does not start with a transfer token
IsTransferLine(l) == l # <<>> /\ l[1].k \in {"READY-V2", "READY-BLK", "READY-CRC", "LEN", "OK", "ERR"}

\* _upload_line: a token of a line, or the end of one that is skipped
ReadToken ==
    /\ InUpload /\ toHost # <<>> /\ hostT < LineTimeout
    /\ ~(Head(toHost) = LineEnd /\ IsTransferLine(hostBuf))
    /\ hostBuf' = IF Head(toHost) = LineEnd THEN <<>> ELSE Append(hostBuf, Head(toHost))
    /\ toHost' = Tail(toHost)
    /\ UNCHANGED <<caller, data, hostPc, hostI, hostT, calls, outcome, dev, toDev, faults>>

\* send_upload_v2 after the line it expected
Proceed ==
    \/ /\ hostPc = "READY-V2" /\ Write(PackLen(Len(data))) /\ Await("LEN") /\ hostI' = hostI
    \/ /\ hostPc = "LEN" /\ toDev' = toDev /\ hostI' = hostI
       /\ Await(IF Blocks > 0 THEN "READY-BLK" ELSE "READY-CRC")
    \/ /\ hostPc = "READY-BLK" /\ hostI' = hostI + 1
       /\ Write(SubSeq(data, hostI * Block + 1, IF (hostI + 1) * Block < Len(data) THEN (hostI + 1) * Block ELSE Len(data)))
       /\ Await(IF hostI + 1 < Blocks THEN "READY-BLK" ELSE "READY-CRC")
    \/ /\ hostPc = "READY-CRC" /\ Write(CrcWord(data)) /\ Await("OK") /\ hostI' = hostI
    \/ /\ hostPc = "OK" /\ toDev' = toDev /\ Await("prompt") /\ hostI' = hostI

\* mutant: no caller reads to the prompt
RaiseAtOnce == Await("raised") /\ hostI' = hostI /\ toDev' = toDev

\* UploadError: ram_boot and put read to the prompt before they raise it
Raise == Await(IF caller = "install" THEN "raised" ELSE "errprompt") /\ hostI' = hostI /\ toDev' = toDev

\* mutant: only the prefix "[" is compared, so that [ERR] is taken for the answer
AsExpectedLoosely == hostBuf[1] = Wants \/ hostBuf[1].k = "ERR"

AsExpected == hostBuf[1] = Wants

\* _upload_expect
ExpectedLine ==
    /\ InUpload /\ toHost # <<>> /\ hostT < LineTimeout
    /\ Head(toHost) = LineEnd /\ IsTransferLine(hostBuf)
    /\ toHost' = Tail(toHost)
    /\ IF AsExpected THEN Proceed ELSE Raise
    /\ UNCHANGED <<caller, data, calls, outcome, dev, faults>>

LineTimesOut ==
    /\ InUpload /\ hostT >= LineTimeout
    /\ Raise
    /\ UNCHANGED <<caller, data, calls, outcome, toHost, dev, faults>>

\* read_until the prompt: after an UploadError the one the command was given at, after
\* [OK] the second stage's, or the first stage's when it started none
PromptsRead == IF hostPc = "errprompt" THEN {Prompt[1].k} ELSE {"s1", "s2"}

ReadPrompt ==
    /\ hostPc \in {"prompt", "errprompt"} /\ toHost # <<>> /\ hostT < LineTimeout
    /\ toHost' = Tail(toHost)
    /\ IF Head(toHost).k \in PromptsRead
       THEN /\ hostPc' = IF hostPc = "prompt" /\ Head(toHost).k = "s2" THEN "returned" ELSE "raised"
            /\ hostBuf' = <<>> /\ hostT' = 0
       ELSE UNCHANGED <<hostPc, hostBuf, hostT>>
    /\ UNCHANGED <<caller, data, hostI, calls, outcome, toDev, dev, faults>>

PromptTimesOut ==
    /\ hostPc \in {"prompt", "errprompt"} /\ hostT >= LineTimeout
    /\ Await("raised")
    /\ UNCHANGED <<caller, data, hostI, calls, outcome, line, dev, faults>>

\* the call's result reaches its caller, which may call again
Return ==
    /\ hostPc \in {"returned", "raised"}
    /\ outcome' = hostPc /\ hostPc' = "idle"
    /\ UNCHANGED <<caller, data, hostI, hostBuf, hostT, calls, dev, line, faults>>

------------------------------------------------------------------------------
(* The line and the clock *)

Fault ==
    /\ faults < MaxFaults /\ faults' = faults + 1
    /\ \/ \E i \in 1 .. Len(toDev) :
             /\ \/ toDev' = RemoveAt(toDev, i)
                \/ \E x \in Garbled(toDev[i]) : toDev[i] # Text("cmd", 0) /\ toDev' = [toDev EXCEPT ![i] = x]
                \/ toDev' = InsertAt(toDev, i, Byte(0))
             /\ toHost' = toHost
       \/ \E i \in 1 .. Len(toHost) :
             /\ \/ toHost' = RemoveAt(toHost, i)
                \/ \E x \in Garbled(toHost[i]) : toHost' = [toHost EXCEPT ![i] = x]
             /\ toDev' = toDev
    /\ UNCHANGED <<host, dev>>

DevWaits == devPc \in {"len", "blk", "crc"}
HostWaits == InUpload \/ hostPc \in {"prompt", "errprompt"}

Tick ==
    /\ toDev = <<>> /\ (HostWaits => toHost = <<>>) /\ (DevWaits \/ HostWaits)
    /\ DevWaits => devT < ByteTimeout
    /\ HostWaits => hostT < LineTimeout
    /\ devT' = IF DevWaits THEN devT + 1 ELSE devT
    /\ hostT' = IF HostWaits THEN hostT + 1 ELSE hostT
    /\ UNCHANGED <<caller, data, hostPc, hostI, hostBuf, calls, outcome, devPc, devGot, devLen, devIndex,
                   devRest, devCrc, sink, dirty, line, faults>>

------------------------------------------------------------------------------
Init ==
    /\ caller \in Callers /\ data = <<>>
    /\ hostPc = "idle" /\ hostI = 0 /\ hostBuf = <<>> /\ hostT = 0 /\ calls = 0 /\ outcome = "none"
    /\ devPc = "prompt" /\ devGot = <<>> /\ devLen = 0 /\ devIndex = 0 /\ devRest = 0 /\ devCrc = <<>>
    /\ devT = 0 /\ sinkHdr = <<>> /\ mem = <<>> /\ sinkAt = 0 /\ dirty = FALSE
    /\ toDev = <<>> /\ toHost = <<>> /\ faults = 0

Device == AtPrompt \/ Recv \/ RecvTimeout \/ GotLength \/ GotBlock \/ GotCrc
Host == ReadToken \/ ExpectedLine \/ LineTimesOut \/ ReadPrompt \/ PromptTimesOut \/ Return

Next == Device \/ Host \/ Call \/ Fault \/ Tick

\* Both programs run on, and time passes
Spec == Init /\ [][Next]_vars /\ WF_vars(Device) /\ WF_vars(Host) /\ WF_vars(Tick)

------------------------------------------------------------------------------
(* Properties *)

\* Types of all variables.
TypeOK ==
    /\ caller \in Callers /\ data \in Files \cup {<<>>}
    /\ hostPc \in {"idle", "READY-V2", "LEN", "READY-BLK", "READY-CRC", "OK", "prompt", "errprompt",
                   "returned", "raised"}
    /\ hostT \in 0 .. LineTimeout /\ devT \in 0 .. ByteTimeout
    /\ outcome \in {"none", "returned", "raised"}
    /\ devPc \in {"prompt", "len", "blk", "crc", "stored"}
    /\ devLen \in 0 .. MaxLen /\ devRest \in 0 .. devLen /\ Len(mem) <= MaxLen
    /\ calls \in 0 .. MaxCalls /\ faults \in 0 .. MaxFaults

\* Whatever the line does, what the device commits (upload_v2 prints [OK], RamBoot's
\* header() is Some, receive() returns the scratch area) is the file of the host's call,
\* byte for byte: upload.rs:144, boot.rs:131.
CommitsTheFile ==
    devPc = "stored" =>
        IF caller = "ram_boot" THEN sinkHdr \o mem = data ELSE mem = data

\* A call that returns without an error had its file committed (vux_tool.py:463: the
\* device's [OK] line was the answer to this call's CRC, not to an earlier one's).
ReturnedMeansCommitted == hostPc = "returned" => devPc = "stored"

\* A RAM boot stores only inside the second stage's window, also when the line changed
\* the header's load address or size: boot.rs:113-125.
StoresInWindow == caller = "ram_boot" => sinkAt <= WindowLen

\* A transfer does what its two sides say of it: what is committed is the host's file, a
\* call that returned had it committed, and nothing is stored outside the window.
TransfersTheFile == TypeOK /\ CommitsTheFile /\ ReturnedMeansCommitted /\ StoresInWindow

\* When ram_boot or put has given up, the device is back at a prompt and the next command
\* is not taken for bytes of the file (vux_tool.py:615-617, 661-663).
NotLeftInExchange == hostPc = "raised" /\ caller # "install" => devPc \in {"prompt", "stored"}

\* Every call ends, and the device leaves the exchange: no fault makes the two wait for
\* each other for ever (upload.rs:9, vux_tool.py:434).
BothEnd == (InUpload ~> hostPc = "idle") /\ (DevWaits ~> ~DevWaits)

==============================================================================

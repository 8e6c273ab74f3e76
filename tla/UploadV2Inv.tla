----------------------------- MODULE UploadV2Inv -----------------------------
(***************************************************************************)
(* The inductive invariant of transfer v2: what the two sides and what is  *)
(* on the line between them know of each other, whatever the line loses,   *)
(* changes or inserts.                                                     *)
(***************************************************************************)
EXTENDS UploadV2

Cmd == Text("cmd", 0)

\* What may be on the line to the device, and on the line to the host.
DevTokens ==
    [b : 0 .. Base - 1] \cup FileTokens \cup [crc : Files \cup {<<>>}, i : 1 .. Word] \cup {Cmd}

Numbered == {"LEN", "READY-BLK"}
Kinds == {"eol", "noise", "echo", "READY-V2", "READY-CRC", "OK", "ERR", "result", "s1", "s2"}
HostTokens == [k : Kinds, n : {0}] \cup [k : Numbered, n : Nat]

Transfers == {"READY-V2", "READY-BLK", "READY-CRC", "LEN", "OK", "ERR"}
Prompts == {"s1", "s2"}

\* The first token of the line the host is reading.
First(kinds) == hostBuf # <<>> /\ hostBuf[1].k \in kinds

SeqInv ==
    /\ toDev \in Seq(DevTokens) /\ devGot \in Seq(DevTokens)
    /\ toHost \in Seq(HostTokens) /\ hostBuf \in Seq(HostTokens)
    /\ hostI \in Nat

-----------------------------------------------------------------------------
\* A byte is on the line, or the device waits for one, no longer than the host waits for
\* its line: it is the device that gives up first.
TimeInv ==
    /\ HostWaits /\ toDev # <<>> => hostT = 0
    /\ HostWaits /\ DevWaits => hostT <= devT

-----------------------------------------------------------------------------
\* The device has read the host's command, and what follows the i-th token on the line to
\* the host it has sent since: its lines come in their order, and after an answer that ends
\* the exchange it is out of it.
SinceCommand(i) ==
    /\ \A j \in 1 .. Len(toDev) : toDev[j] # Cmd
    /\ \A j \in 1 .. Len(toHost) : j > i =>
         /\ toHost[j].k # "READY-V2"
         /\ toHost[j].k = "READY-CRC" => devPc \notin {"len", "blk"}
         /\ toHost[j].k \in {"OK", "ERR"} \cup Prompts => ~DevWaits
    /\ \A j, l \in 1 .. Len(toHost) : i < j /\ j < l /\ toHost[j].k = "READY-CRC" =>
         toHost[l].k \notin {"LEN", "READY-BLK", "READY-CRC"}

\* A host past READY-V2 is in the exchange the device is in or has left last.
Answered == hostPc \in {"LEN", "READY-BLK", "READY-CRC", "OK"}

LineInv ==
    /\ Answered => SinceCommand(0)
    /\ hostPc = "READY-V2" =>
         /\ First({"READY-V2"}) => SinceCommand(0)
         /\ \A i \in 1 .. Len(toHost) : toHost[i].k = "READY-V2" => SinceCommand(i)
    /\ Answered /\ First({"READY-CRC"}) =>
         /\ devPc \notin {"len", "blk"}
         /\ \A l \in 1 .. Len(toHost) : toHost[l].k \notin {"LEN", "READY-BLK", "READY-CRC"}
    /\ Answered /\ First({"OK", "ERR"}) => ~DevWaits

\* A host that has sent its CRC hears of it only when the device has left the exchange.
CrcSent ==
    hostPc = "OK" /\ DevWaits =>
        /\ devPc = "crc" /\ ~First(Transfers)
        /\ \A l \in 1 .. Len(toHost) : toHost[l].k \notin Transfers

\* [OK] is of the transfer that is stored.
OkInv ==
    (hostPc \in {"prompt", "returned"} \/ First({"OK"}) \/ \E j \in 1 .. Len(toHost) : toHost[j].k = "OK") =>
        devPc = "stored"

\* The last byte of a CRC reaches a device in an exchange only from the host whose file it is.
CrcEnd(x) == ~IsByte(x) /\ x # Cmd /\ x.i = Word

CrcInv ==
    DevWaits =>
        /\ \A j \in 1 .. Len(toDev) : CrcEnd(toDev[j]) => hostPc = "OK" /\ toDev[j].crc = data
        /\ \A j \in 1 .. Len(devGot) : CrcEnd(devGot[j]) => hostPc = "OK" /\ devGot[j].crc = data

-----------------------------------------------------------------------------
\* Callers that read to the prompt give no command to a device in an exchange.
PromptInv ==
    caller # "install" =>
        /\ \A j \in 1 .. Len(toDev) : toDev[j] = Cmd => hostPc = "READY-V2" /\ j = Len(toDev)
        /\ hostPc = "READY-V2" /\ DevWaits => devPc = "len" /\ toDev = <<>>
        /\ hostPc = "READY-V2" /\ (First(Transfers \ {"READY-V2"})
                                   \/ \E j \in 1 .. Len(toHost) : toHost[j].k \in Transfers \ {"READY-V2"}) =>
             ~DevWaits /\ \A j \in 1 .. Len(toDev) : toDev[j] # Cmd
        /\ hostPc = "errprompt" /\ DevWaits => \A j \in 1 .. Len(toHost) : toHost[j].k \notin Prompts
        /\ hostPc \in {"idle", "raised", "returned", "prompt"} => ~DevWaits

-----------------------------------------------------------------------------
\* What the sink holds is what the device has received.
Received == IF caller = "ram_boot" THEN sinkHdr \o mem ELSE mem

SinkInv ==
    /\ devLen \in 0 .. MaxLen /\ devRest \in 0 .. devLen /\ devIndex \in Nat
    /\ mem \in Seq(DevTokens) /\ devCrc \in Seq(DevTokens) /\ sinkHdr \in Seq(DevTokens)
    /\ Len(mem) <= devLen
    /\ caller = "ram_boot" => sinkAt \in 0 .. WindowLen
    /\ devPc \in {"blk", "crc"} =>
         /\ devCrc = Received /\ Len(devCrc) = devLen - devRest
         /\ devPc = "blk" => devRest > 0
         /\ caller = "ram_boot" => devLen > HeaderLen
         /\ devIndex = 0 => devRest = devLen
         /\ caller = "ram_boot" /\ devIndex > 0 =>
              /\ Len(sinkHdr) = HeaderLen /\ HeaderAccepted(sinkHdr, devLen)
              /\ sinkAt = sinkHdr[2].b + Len(mem)
    /\ devPc = "crc" => devIndex > 0
    /\ devPc = "stored" => Received = data

\* What the two sides know of each other, and all of it.
TalkInv == SeqInv /\ TimeInv /\ LineInv /\ CrcSent /\ OkInv /\ CrcInv /\ PromptInv

UploadInv == TypeOK /\ TalkInv /\ SinkInv
=============================================================================

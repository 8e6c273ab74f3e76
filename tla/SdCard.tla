-------------------------------- MODULE SdCard --------------------------------
(***************************************************************************)
(* The SD card's driver (fw_drivers/src/sdcard.rs) on the SPI controller   *)
(* (soc/sdcard_spi.veryl) and the card of SdCardProtocol: initialisation,  *)
(* reads and verified writes, programs that follow each other on the same  *)
(* controller, and a card that fails.                                      *)
(*                                                                         *)
(* The driver clocks a list of bytes, out, and looks at the ones received, *)
(* got; pc is where it goes on from there.  A poll for an answer asks for  *)
(* one byte at a time, at most as often as its loop (a constant here).     *)
(***************************************************************************)
EXTENDS SdCardProtocol

CONSTANTS
    Preamble,                                         \* 0xFF bytes of init (16)
    R1Tries, Cmd0Tries, ReadyTries, TokenTries, BusyTries,  \* 200, 20, 1000, 50000, 250000
    Sectors,       \* sectors the volume uses
    Contents,      \* what it writes
    MaxOps

ASSUME SdDriverAssumption ==
    /\ Preamble \in Nat /\ 8 * (1 + Preamble) >= POWER_UP_CLOCKS
    /\ R1Tries \in Nat /\ R1Tries > 1 /\ Cmd0Tries \in Nat \ {0} /\ ReadyTries \in Nat \ {0}
    /\ TokenTries \in Nat /\ TokenTries > 1 /\ BusyTries \in Nat /\ BusyTries > 1 /\ MaxOps \in Nat
    /\ Contents \subseteq [1 .. Sector -> 0 .. 255]

\* An address is a u32; a forgiving card takes one below 65536 for a block number.
ASSUME AddressAssumption ==
    /\ Sectors \subseteq Lbas
    /\ \A s \in Sectors : s \div 65536 < 65536
    /\ (\E c \in Cards : ~c.strict) => \A s \in Sectors : s < 65536
    /\ (\E c \in Cards : ~c.sdhc) => \A s \in Sectors : (s * Sector) \div 65536 < 65536

VARIABLES
    busy, tx, rx, cs_n, clk_fast,  \* the controller: byte being shifted, CS, divider below SD_DIV_INIT
    out, got, pc, tries, polls, cmd,
    inited, sdhc, is_v2,           \* IS_INITIALIZED, IS_SDHC, is_v2
    op, result, ops                \* the call, its result, calls made

spi    == <<busy, tx, rx, cs_n, clk_fast>>
driver == <<out, got, pc, tries, polls, cmd, inited, sdhc, is_v2, op, result, ops>>
vars   == <<cardVars, spi, driver>>

------------------------------------------------------------------------------
(* The controller *)

\* transfer's wait for the controller
Idle == ~busy

\* A store to SD_CS: ignored while a byte is shifted
StoreCs(selected) ==
    IF busy THEN UNCHANGED <<cs_n, cstate, cbuf>>
    ELSE /\ cs_n' = ~selected
         /\ IF cs_n = selected THEN set_cs(selected) ELSE UNCHANGED <<cstate, cbuf>>

StoreDiv(fast) == clk_fast' = IF busy THEN clk_fast ELSE fast

\* eight SCLK cycles: the card sees the byte and CS, the controller its answer
ByteClocked ==
    /\ busy
    /\ busy' = FALSE /\ rx' = begin_byte /\ got' = Append(got, begin_byte)
    /\ exchange(tx, ~cs_n, clk_fast)
    /\ UNCHANGED <<tx, cs_n, clk_fast, out, pc, tries, polls, cmd, inited, sdhc, is_v2, op, result, ops>>

\* transfer(): the store that starts the next byte of out
Transfer ==
    /\ out # <<>> /\ Idle
    /\ busy' = TRUE /\ tx' = Head(out) /\ out' = Tail(out)
    /\ UNCHANGED <<cardVars, rx, cs_n, clk_fast, got, pc, tries, polls, cmd, inited, sdhc, is_v2, op, result, ops>>

------------------------------------------------------------------------------
(* The driver *)

At(p) == pc = p /\ out = <<>> /\ Idle

Ask(bytes, next) == out' = bytes /\ got' = <<>> /\ pc' = next

Goto(next) == Ask(<<>>, next)

FF(n) == [i \in 1 .. n |-> 255]

\* CS and the registers of the card that only it changes
KeepCard == UNCHANGED <<card, fault, sectors, violations, idle_clocks, first_cmd_seen, ready, fast_reported,
                        sclk_fast, resp, lba>>
KeepCs == UNCHANGED <<cs_n, cstate, cbuf>>

ArgBytes(arg) == <<(arg \div 16777216) % 256, (arg \div 65536) % 256, (arg \div 256) % 256, arg % 256>>

\* send_cmd: the frame and the first poll for R1
SendCmd(c, arg) ==
    /\ StoreCs(TRUE)
    /\ cmd' = c /\ polls' = 1
    /\ Ask(<<64 + c>> \o ArgBytes(arg) \o <<255>> \o FF(1), "r1")

Deselect(next) == StoreCs(FALSE) /\ Ask(FF(1), next)

address(s) == IF sdhc THEN s ELSE s * Sector

\* the command a step of init, read_block or write_block sends
Commands ==
    [cmd0 |-> <<0, 0>>, cmd8 |-> <<8, 426>>, cmd55 |-> <<55, 0>>,
     cmd41 |-> <<41, IF is_v2 THEN 1073741824 ELSE 0>>, cmd1 |-> <<1, IF is_v2 THEN 1073741824 ELSE 0>>,
     cmd58 |-> <<58, 0>>, cmd16 |-> <<16, 512>>,
     read |-> <<17, address(op.lba)>>, verify |-> <<17, address(op.lba)>>, write |-> <<24, address(op.lba)>>]

Command ==
    /\ pc \in DOMAIN Commands /\ At(pc)
    /\ SendCmd(Commands[pc][1], Commands[pc][2])
    /\ KeepCard /\ UNCHANGED <<busy, tx, rx, clk_fast, tries, inited, sdhc, is_v2, op, result, ops>>

\* mutant: half the preamble, 72 clocks
StartInitShort ==
    /\ At("init")
    /\ StoreDiv(FALSE) /\ StoreCs(FALSE)
    /\ Ask(FF(1 + (Preamble \div 2)), "cmd0") /\ tries' = 0 /\ is_v2' = FALSE
    /\ KeepCard /\ UNCHANGED <<busy, tx, rx, polls, cmd, inited, sdhc, op, result, ops>>

\* init: the divider, CS high, the preamble
StartInit ==
    /\ At("init")
    /\ StoreDiv(FALSE) /\ StoreCs(FALSE)
    /\ Ask(FF(1 + Preamble), "cmd0") /\ tries' = 0 /\ is_v2' = FALSE
    /\ KeepCard /\ UNCHANGED <<busy, tx, rx, polls, cmd, inited, sdhc, op, result, ops>>

PollAgain ==
    /\ At("r1") /\ Last(got) = 255 /\ polls < R1Tries
    /\ polls' = polls + 1 /\ Ask(FF(1), "r1")
    /\ KeepCard /\ KeepCs
    /\ UNCHANGED <<busy, tx, rx, clk_fast, tries, cmd, inited, sdhc, is_v2, op, result, ops>>

\* send_cmd returned r
R1(r) == At("r1") /\ Last(got) = r /\ (r # 255 \/ polls = R1Tries)

\* init's command loop
InitAnswer ==
    /\ \E r \in 0 .. 255 :
       /\ R1(r)
       /\ \/ /\ cmd = 0 /\ tries' = tries + 1
             /\ Deselect(IF r = 1 THEN "cmd8" ELSE IF tries' < Cmd0Tries THEN "cmd0" ELSE "failed")
             /\ UNCHANGED <<inited, sdhc>>
          \/ /\ cmd = 8 /\ tries' = 0
             /\ IF r = 1 THEN Ask(FF(4), "r7") /\ KeepCs ELSE Deselect("cmd55")
             /\ UNCHANGED <<inited, sdhc>>
          \/ /\ cmd = 55 /\ tries' = tries
             /\ Deselect(IF r <= 1 THEN "cmd41" ELSE "cmd1")
             /\ UNCHANGED <<inited, sdhc>>
          \/ /\ cmd \in {1, 41} /\ tries' = tries + 1
             /\ Deselect(IF r = 0 THEN IF is_v2 THEN "cmd58" ELSE "cmd16"
                         ELSE IF tries' < ReadyTries THEN "cmd55" ELSE "failed")
             /\ sdhc' = IF r = 0 /\ ~is_v2 THEN FALSE ELSE sdhc
             /\ inited' = (inited \/ (r = 0 /\ ~is_v2))
          \/ /\ cmd = 58 /\ tries' = tries
             /\ IF r = 0 THEN Ask(FF(4), "ocr") /\ KeepCs /\ UNCHANGED <<inited, sdhc>>
                ELSE Deselect("cmd16") /\ sdhc' = FALSE /\ inited' = TRUE
          \/ /\ cmd = 16 /\ tries' = tries
             /\ Deselect("fast") /\ UNCHANGED <<inited, sdhc>>
    /\ KeepCard /\ UNCHANGED <<busy, tx, rx, clk_fast, polls, cmd, is_v2, op, result, ops>>

R7 ==
    /\ At("r7")
    /\ is_v2' = (got[3] = 1 /\ got[4] = 170)
    /\ Deselect("cmd55")
    /\ KeepCard /\ UNCHANGED <<busy, tx, rx, clk_fast, tries, polls, cmd, inited, sdhc, op, result, ops>>

Ocr ==
    /\ At("ocr")
    /\ sdhc' = (((got[1] \div 64) % 2) = 1) /\ inited' = TRUE
    /\ Deselect("cmd16")
    /\ KeepCard /\ UNCHANGED <<busy, tx, rx, clk_fast, tries, polls, cmd, is_v2, op, result, ops>>

Fast ==
    /\ At("fast")
    /\ StoreDiv(TRUE) /\ Goto("ok")
    /\ KeepCard /\ KeepCs /\ UNCHANGED <<busy, tx, rx, tries, polls, cmd, inited, sdhc, is_v2, op, result, ops>>

\* read_block, write_block and its verification: the command refused, or its data phase
DataAnswer ==
    /\ \E r \in 0 .. 255 :
       /\ R1(r) /\ cmd \in {17, 24}
       /\ \/ r # 0 /\ Deselect("failed")
          \/ /\ r = 0 /\ KeepCs
             /\ IF cmd = 17 THEN Ask(FF(1), "token")
                ELSE Ask(<<255, 254>> \o op.data \o FF(3), "accepted")
    /\ polls' = 1
    /\ KeepCard /\ UNCHANGED <<busy, tx, rx, clk_fast, tries, cmd, inited, sdhc, is_v2, op, result, ops>>

IsToken(b) == b = 254

\* mutant: the wait for the token has no end
TokenTriesNone == polls >= 0

TokenTriesLeft == polls < TokenTries

\* mutant: the block's CRC is not read
BlockOnly == Sector

BlockAndCrc == Sector + 2

Token ==
    /\ At("token")
    /\ \/ /\ IsToken(Last(got)) /\ Ask(FF(BlockAndCrc), "data") /\ KeepCs
       \/ /\ ~IsToken(Last(got)) /\ TokenTriesLeft /\ Ask(FF(1), "token") /\ KeepCs
       \/ /\ ~IsToken(Last(got)) /\ ~TokenTriesLeft /\ Deselect("failed")
    /\ polls' = IF polls < TokenTries THEN polls + 1 ELSE polls
    /\ KeepCard /\ UNCHANGED <<busy, tx, rx, clk_fast, tries, cmd, inited, sdhc, is_v2, op, result, ops>>

\* the block of a read, or the verification of a write
Data ==
    /\ At("data")
    /\ op' = [op EXCEPT !.data = IF op.k = "read" THEN SubSeq(got, 1, Sector) ELSE @]
    /\ Deselect(IF op.k = "write" /\ SubSeq(got, 1, Sector) # op.data THEN "failed" ELSE "ok")
    /\ KeepCard /\ UNCHANGED <<busy, tx, rx, clk_fast, tries, polls, cmd, inited, sdhc, is_v2, result, ops>>

\* the data response, then the wait for the card to be done programming
Accepted ==
    /\ At("accepted")
    /\ IF (Last(got) % 32) = 5 THEN Ask(FF(1), "programming") /\ KeepCs ELSE Deselect("failed")
    /\ polls' = 1
    /\ KeepCard /\ UNCHANGED <<busy, tx, rx, clk_fast, tries, cmd, inited, sdhc, is_v2, op, result, ops>>

Programming ==
    /\ At("programming")
    /\ \/ Last(got) = 255 /\ Deselect("verify")
       \/ Last(got) # 255 /\ polls < BusyTries /\ Ask(FF(1), "programming") /\ KeepCs
       \/ Last(got) # 255 /\ polls >= BusyTries /\ Deselect("failed")
    /\ polls' = IF polls < BusyTries THEN polls + 1 ELSE polls
    /\ KeepCard /\ UNCHANGED <<busy, tx, rx, clk_fast, tries, cmd, inited, sdhc, is_v2, op, result, ops>>

------------------------------------------------------------------------------
(* Calls *)

NoOp == [k |-> "none", lba |-> 0, data |-> <<>>]

NoResult == [ok |-> FALSE, op |-> NoOp]

Begin(o, p) == op' = o /\ result' = NoResult /\ ops' = ops + 1 /\ Goto(p)

\* force_init (ensure_init when the card is not initialised), read_block, write_block; a read may follow
\* an init that failed: a mount without a card reports the read error (launch.rs:138-140)
Call ==
    /\ op.k = "none" /\ ops < MaxOps
    /\ \/ /\ Begin([NoOp EXCEPT !.k = "init"], "init") /\ inited' = FALSE
       \/ /\ inited \/ result.op.k = "init"
          /\ \E s \in Sectors : Begin([k |-> "read", lba |-> s, data |-> <<>>], "read")
          /\ inited' = inited
       \/ /\ inited /\ inited' = inited
          /\ \E s \in Sectors, d \in Contents : Begin([k |-> "write", lba |-> s, data |-> d], "write")
    /\ UNCHANGED <<cardVars, spi, tries, polls, cmd, sdhc, is_v2>>

\* the call returns
Return ==
    /\ op.k # "none" /\ (At("ok") \/ At("failed"))
    /\ result' = [ok |-> pc = "ok", op |-> op]
    /\ op' = NoOp /\ Goto("idle")
    /\ UNCHANGED <<cardVars, spi, tries, polls, cmd, inited, sdhc, is_v2, ops>>

\* Another program on the same controller and card: a soft reset (its statics are new; the
\* divider and the card are not), or a second stage that adopts the card
NewProgram ==
    /\ op.k = "none" /\ inited /\ result # NoResult
    /\ inited' \in BOOLEAN /\ sdhc' = (inited' /\ sdhc) /\ result' = NoResult
    /\ UNCHANGED <<cardVars, spi, out, got, pc, tries, polls, cmd, is_v2, op, ops>>

\* The card starts or stops failing
Fails ==
    /\ op.k = "none" /\ result # NoResult
    /\ fault' \in FaultSets /\ result' = NoResult
    /\ UNCHANGED <<card, sectors, violations, idle_clocks, first_cmd_seen, ready, fast_reported, sclk_fast,
                   resp, cstate, cbuf, lba, spi, out, got, pc, tries, polls, cmd, inited, sdhc, is_v2, op, ops>>

Init ==
    /\ CardInit
    /\ busy = FALSE /\ tx = 255 /\ rx = 255 /\ cs_n = TRUE /\ clk_fast = FALSE
    /\ out = <<>> /\ got = <<>> /\ pc = "idle" /\ tries = 0 /\ polls = 0 /\ cmd = 0
    /\ inited = FALSE /\ sdhc = FALSE /\ is_v2 = FALSE
    /\ op = NoOp /\ result = NoResult /\ ops = 0

Driver == Transfer \/ Command \/ StartInit \/ PollAgain \/ InitAnswer \/ R7 \/ Ocr \/ Fast \/ DataAnswer
          \/ Token \/ Data \/ Accepted \/ Programming \/ Return

Next == ByteClocked \/ Driver \/ Call \/ NewProgram \/ Fails

\* The CPU runs on and the controller shifts
Spec == Init /\ [][Next]_vars /\ WF_vars(Driver) /\ WF_vars(ByteClocked)

------------------------------------------------------------------------------
(* Properties *)

\* Types of all variables.
TypeOK ==
    /\ card \in Cards /\ fault \in FaultSets /\ violations \subseteq {"power-up", "sclk", "alignment"}
    /\ cstate \in {"idle", "cmd", "wait_token", "data", "resync"}
    /\ Len(cbuf) <= Sector + 6 /\ Len(resp) <= Sector + 6 /\ Len(got) <= Preamble + Sector + 8
    /\ \A n \in Lbas : Len(sectors[n]) = Sector
    /\ tries \in 0 .. Cmd0Tries + ReadyTries /\ polls \in 0 .. R1Tries + TokenTries + BusyTries
    /\ ops \in 0 .. MaxOps /\ busy \in BOOLEAN /\ tx \in 0 .. 255 /\ rx \in 0 .. 255

\* A strict card never has anything to report: 74 clocks before the first command, SCLK
\* at most 400 kHz whenever the card is not ready (also when a program left the divider
\* fast and the next initialises again), addresses on sector boundaries for SDSC
\* (sdcard_protocol.py:23-30, sdcard.rs:87-93).
NoViolations == violations = {}

\* Not an SDHC card whose kind init did not learn, nor an SDSC card that forgives block numbers.
Addressable == IF card.sdhc THEN sdhc ELSE card.strict

\* A write that was reported done is in its sector of the card, and the block a read
\* returned is the sector's, whatever programs ran and faults came before
\* (sdcard.rs:204-310), on a card that can be addressed.
DoneIsOnTheCard ==
    op.k = "none" /\ result.ok /\ result.op.k \in {"read", "write"} /\ Addressable
        => sectors[result.op.lba] = result.op.data

\* The comment at sdcard.rs:196, "SDHC/SDXC take block numbers, SDSC byte addresses", as
\* the commands on the bus: what a card is asked for is the sector of the call.
AddressesAsTheCardTakesThem ==
    out = <<>> /\ pc = "token" /\ card.strict => addr_lba(address(op.lba)) = op.lba

\* When no call is under way the card listens for commands and has nothing left to
\* send: the next command's answer is its own and not the rest of another one's, however
\* the last operation ended (sdcard.rs:59, sdcard_protocol.py:84-88, 110).
NothingLeftOver == op.k = "none" => resp = <<>> /\ cstate = "idle" /\ ~busy

\* What a call reports is so: its sector is as it says, and the card is ready for the next
\* command.
ReportsAreTrue == TypeOK /\ DoneIsOnTheCard /\ NothingLeftOver

\* Every call returns, with a card that never answers, is never ready or fails: all of the
\* driver's loops end (sdcard.rs:76, 98, 129, 215, 265, 288).
CallsReturn == op.k # "none" ~> op.k = "none"
==============================================================================

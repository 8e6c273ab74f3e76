----------------------------- MODULE SocWindow ------------------------------
(***************************************************************************)
(* soc/soc_top.veryl: the wait-state window as soc_top wires it.  The CPU, *)
(* the two caches, the bridge and the PSRAM controller advance together at *)
(* each clock edge; the reset button may interrupt any cycle.              *)
(***************************************************************************)
EXTENDS SocDcache, SocIcache, SocXmemBridge, PsramController, UnifiedCpuBus

CONSTANTS
  POR_CYCLES,      \* cycles from rst_n's release to raw_rst: rst_sync, por_counter (32,768)
  RST_PULSE,       \* cycles of the soft reset's pulse (15)
  BootModes        \* the ISAs the program soft-resets into, RV32 is TRUE (a bound)

\* The sweeps of both caches and the controller's power-up end inside the
\* power-on reset.
ASSUME ResetAssumption ==
  /\ POR_CYCLES \in Nat /\ RST_PULSE \in Nat \ {0}
  /\ BootModes \subseteq BOOLEAN
  /\ POR_CYCLES > DLINES /\ POR_CYCLES > ILINES /\ POR_CYCLES > INIT_CYCLES

VARIABLES
  porCounter,      \* those counted (rst_sync and por_counter); raw_rst rises at the end
  gRstCnt, gBoot   \* gpio_controller: rst_pulse_cnt, and the ISA this soft reset boots

vars == <<dvars, ivars, bvars, pvars, cvars, porCounter, gRstCnt, gBoot>>

RawRst == porCounter = POR_CYCLES      \* high: running
CpuSoftRst == gRstCnt # 0

-----------------------------------------------------------------------------
\* The wires.

\* Mutant: the instruction cache sees the fetch the soft reset holds.
FetchPortInReset == [win |-> FetchReq /\ cPc.sel, blk |-> cPc.blk, off |-> cPc.off]

FetchPort == [win |-> FetchReq /\ ~CpuSoftRst /\ cPc.sel, blk |-> cPc.blk, off |-> cPc.off]
DataPort == [win |-> DataReq /\ cIns.sel, we |-> MemWrite, blk |-> cIns.blk, off |-> cIns.off,
             wdata |-> cIns.data, wstrb |-> cIns.strb]

InstrReady == IInstrReady(FetchPort)
DataReady == DDataReady(DataPort)

InvPort == [on |-> DataReq /\ cIns.sel /\ MemWrite /\ DataReady, blk |-> cIns.blk]
ProbePort == [req |-> IMiss(FetchPort), blk |-> cPc.blk]

\* Mutant: only a write-back that runs holds the fill.
FillHoldBusy == ~DIdle

FillHold == ProbeDirty(cPc.blk)

IMemPort == [ready |-> BInstrReady(IMemSel, pRspValid), rdata |-> pRdata]
DMemPort == [ready |-> BDataReady(DMemSel, pRspValid), rdata |-> pRdata, wnext |-> pWdataNext]

\* The bridge's request: the data side first.
Request == [valid |-> BReqValid(IMemSel, DMemSel, CpuSoftRst),
            we |-> DMemSel /\ DMemWe,
            blk |-> IF DMemSel THEN DMemBlk ELSE cPc.blk,
            wdata |-> dWordQ.data, wstrb |-> dWordQ.mask]

-----------------------------------------------------------------------------
\* gpio_controller: a store outside the window may be the soft reset's, with the
\* boot mode stored before it; else the pulse counts down.
GpioClock ==
  \/ /\ MemWrite /\ ~cIns.sel
     /\ gRstCnt' = RST_PULSE /\ gBoot' \in BootModes
  \/ /\ gRstCnt' = IF CpuSoftRst THEN gRstCnt - 1 ELSE 0
     /\ UNCHANGED gBoot

GpioInit == gRstCnt = 0 /\ gBoot = TRUE
GpioReset == gRstCnt' = 0 /\ gBoot' = TRUE

\* A clock edge while the power-on reset counts: the caches sweep, the controller
\* powers up, the CPU, the bridge and the GPIO are held in reset.
PorClock ==
  /\ ~RawRst
  /\ porCounter' = porCounter + 1
  /\ DcacheClock(DataPort, DIdx(cIns), DMemPort, ProbePort, TRUE)
  /\ IcacheClock(FetchPort, IIdx(cPc), IMemPort, InvPort, FillHold, TRUE)
  /\ PsramClock(Request)
  /\ BridgeReset /\ CpuReset /\ GpioReset

\* A clock edge of the running SoC.
Clock ==
  /\ RawRst
  /\ \E nextPc \in NextPcs :
       /\ IF CpuSoftRst
          THEN CSoftReset(gBoot)
          ELSE CpuClock(nextPc, InstrReady, DataReady)
       /\ DcacheClock(DataPort, DIdx(cIns), DMemPort, ProbePort, FALSE)
       /\ IcacheClock(FetchPort, IIdx(PcOut(nextPc)), IMemPort, InvPort, FillHold, FALSE)
  /\ BridgeClock(IMemSel, DMemSel, CpuSoftRst, PReqReady, pRspLast)
  /\ PsramClock(Request)
  /\ GpioClock
  /\ UNCHANGED porCounter

\* The reset button (rst_n), in any cycle.
Reset ==
  /\ porCounter' = 0
  /\ DcacheReset /\ IcacheReset /\ PsramReset
  /\ BridgeReset /\ CpuReset /\ GpioReset

Init ==
  /\ porCounter = 0
  /\ DcacheInit /\ IcacheInit /\ PsramInit
  /\ BridgeInit /\ CpuInit /\ GpioInit

Next == PorClock \/ Clock \/ Reset

Spec == Init /\ [][Next]_vars

-----------------------------------------------------------------------------
\* The registers of soc_top's wait-state window keep their types: no line, word or
\* cycle counter leaves its width, and the RAMs hold entries of the right shape.
TypeOK ==
  /\ DcacheTypeOK /\ IcacheTypeOK /\ BridgeTypeOK /\ PsramTypeOK /\ CpuTypeOK
  /\ porCounter \in 0 .. POR_CYCLES
  /\ gRstCnt \in 0 .. RST_PULSE /\ gBoot \in BOOLEAN

\* soc_dcache holds block b: its tag is there and its words are not being replaced.
Holds(b) ==
  LET l == DLineOf[b]
  IN  /\ dSwept /\ dTags[l].valid /\ dTags[l].tag = DTagOf[b]
      /\ ~(dState = "FILL" /\ dLineR = l)

\* What the window's memory holds, wherever it is.
Memory == [b \in Blocks |-> [k \in Offs |->
             IF Holds(b) THEN dWords[<<DLineOf[b], k>>].data ELSE pMem[b][k]]]

\* The access completing in this cycle.
Port ==
  LET at(op, p, v) == [op |-> op, blk |-> p.blk, off |-> p.off, val |-> v]
  IN  CASE DataPort.win /\ DataReady /\ DataPort.we ->
             at("store", DataPort,
                MergeBytes(Memory[cIns.blk][cIns.off], DataPort.wdata, DataPort.wstrb))
        [] DataPort.win /\ DataReady /\ ~DataPort.we -> at("load", DataPort, dWordQ.data)
        [] ~DataPort.win /\ FetchPort.win /\ InstrReady -> at("load", FetchPort, iWordQ)
        [] OTHER -> [op |-> "none"]

Abstract == INSTANCE WindowMemory WITH mem <- Memory, port <- Port, up <- RawRst

\* The window is a memory: every load and every fetch gets the last value stored
\* at its address, whichever of the two caches, the PSRAM or a transfer between
\* them holds it, also code the CPU has just written (no fence.i), and only a store
\* changes what the memory holds.  Only the reset button loses stores.
ImplementsMemory == Abstract!Spec

\* A byte of the PSRAM is older than the data cache's copy only where a store put it:
\* the line is dirty and the byte is in the word's mask, which the write-back's
\* strobes are.  So a clean line can be dropped and a masked write-back loses nothing.
StaleOnlyWhereStored ==
  \A b \in Blocks : Holds(b) =>
    \A k \in Offs, i \in Lanes :
      LET w == dWords[<<DLineOf[b], k>>]
      IN  w.data[i] # pMem[b][k][i] => dTags[DLineOf[b]].dirty /\ i \in w.mask

\* Every register and RAM keeps its type, and a byte of the PSRAM is stale only where the
\* mask of a dirty line holds the one that a write-back will write.
LanesSound == TypeOK /\ StaleOnlyWhereStored

\* A cache and the controller count a burst's words in step: the last response finds
\* the counter of the side it completes at the last word, and no counter is left
\* over in IDLE.
CountsWords ==
  /\ pRspLast => (IF bBusyData THEN dCnt ELSE iCnt) = LineWords - 1
  /\ DIdle => dCnt = 0
  /\ IIdle => iCnt = 0

\* The bridge's contract with the caches: one of them transfers at a time, and a
\* request never waits for req_ready (so its fields cannot change under it).
OneTransferAtATime ==
  /\ ~(IMemSel /\ DMemSel)
  /\ Request.valid => PReqReady

\* What the caches, the bridge and the controller rely on of each other in a burst: they
\* count its words in step, and there is one at a time.
BurstContract == CountsWords /\ OneTransferAtATime

\* A fill of the instruction cache never reads a block the data cache holds dirty:
\* fill_hold held it back and does not rise again under it.  Nor can a store's
\* invalidation meet the fill's tag write.
FillReadsFresh == IMemSel => ~ProbeDirty(cPc.blk) /\ ~InvPort.on

\* The soft reset, which resets neither cache, finds no transfer in flight and no
\* cache waiting for the bridge, which takes no request then.
SoftResetFindsIdle == CpuSoftRst => DIdle /\ IIdle /\ ~bBusy

\* The CPU starts after both sweeps: a window access never waits for one.
SweptBeforeStart == RawRst => dSwept /\ iSwept /\ pInit = 0

\* Hack's read-modify-write of M (AM=M+1) costs the load's cycles only: its store
\* in HACK_WB always hits at once.
HackWriteBackHits == cState = "HACK_WB" /\ DataPort.win => DataReady

\* A transfer the bridge has in flight keeps its select and its fields until its
\* last response, whatever the CPU does meanwhile.
TransferHeld ==
  [][bBusy /\ bBusy' => /\ bBusyData' = bBusyData
                       /\ Request'.valid = Request.valid
                       /\ Request'.we = Request.we /\ Request'.blk = Request.blk
                       /\ IF bBusyData THEN DMemSel' ELSE IMemSel']_vars
=============================================================================

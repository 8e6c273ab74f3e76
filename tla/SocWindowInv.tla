---------------------------- MODULE SocWindowInv ----------------------------
(***************************************************************************)
(* The inductive invariant of the wait-state window: what the CPU, the two *)
(* caches, the bridge and the controller know of each other in each cycle, *)
(* and what the RAMs and the PSRAM hold then.                              *)
(***************************************************************************)
EXTENDS SocWindow

\* The program's side.  A store or an AMO is RV32's; an access goes on until the window
\* answers; the soft reset finds no access under way.
CpuInv ==
  /\ cIns.op \in {"store", "amo"} => cRiscv
  /\ cState = "AMO_CALC" => cIns.op = "amo"
  /\ cState = "MEM_WAIT" /\ cStoreWe => cIns.op \in {"store", "amo"}
  /\ CpuSoftRst => cState \in {"FETCH", "HACK_WR_D"}

\* While the power-on reset counts the CPU waits at the ROM.
HeldInReset ==
  /\ cState = "FETCH" /\ cRiscv /\ ~cPc.sel /\ gRstCnt = 0
  /\ ~pBusy

-----------------------------------------------------------------------------
\* Where a transfer stands.
NoRsp == ~pRspValid /\ ~pRspLast
LastWordAt == BURST_READ_AT + Twice

\* The controller's cycles after the last word of a read: still busy, and the access
\* the words were for is looked up again before another one can miss.
Recovering ==
  /\ ~pWe /\ pElapsed > LastWordAt
  /\ pElapsed = LastWordAt + 1 => (DataPort.win /\ dStaleQ) \/ (FetchPort.win /\ iReplayQ)

Quiet ==
  /\ DIdle /\ IIdle /\ ~bBusy /\ NoRsp
  /\ dCnt = 0 /\ iCnt = 0 /\ ~dPrimed
  /\ pBusy => Recovering

\* A request is on the bridge, or will be in the next cycle.
Asking(cnt) == ~bBusy /\ ~pBusy /\ NoRsp /\ cnt = 0

\* A read burst answers every second cycle, and the cache has counted the answers.
Reading(cnt, blk) ==
  /\ bBusy /\ pBusy /\ ~pWe /\ pBlk = blk
  /\ pElapsed <= LastWordAt
  /\ pRspValid <=> pElapsed >= BURST_READ_AT /\ pElapsed % 2 = 0
  /\ pRspLast <=> pElapsed = LastWordAt
  /\ pCursor = cnt + (IF pRspValid THEN 1 ELSE 0)

\* A write burst has taken the words the data cache has counted, the one of this cycle
\* apart; its one answer comes at the end.
Writing ==
  /\ bBusy /\ pBusy /\ pWe /\ pBlk = DMemBlk /\ NoRsp
  /\ pCursor + (IF pTakeWord THEN 1 ELSE 0) = dCnt + 1
Written ==
  /\ bBusy /\ ~pBusy /\ pRspValid /\ pRspLast /\ pBlk = DMemBlk
  /\ dCnt = LineWords - 1 /\ pCursor = LineWords

\* Whom the data cache's transfer is for: the instruction cache's miss or the CPU's access.
DFor ==
  IF dState = "WB" /\ dIsProbe
  THEN FetchPort.win /\ dLineR = DLineOf[cPc.blk] /\ dTagR = DTagOf[cPc.blk]
  ELSE /\ DataPort.win /\ dLineR = DLineOf[cIns.blk]
       /\ dState = "FILL" => dTagR = DTagOf[cIns.blk]

DTransfers ==
  /\ IIdle /\ iCnt = 0 /\ DFor
  /\ \/ Asking(dCnt) /\ (dState = "FILL" => ~dPrimed)
     \/ dState = "WB" /\ dPrimed /\ bBusyData /\ Writing
     \/ dState = "WB" /\ dPrimed /\ bBusyData /\ Written
     \/ dState = "FILL" /\ ~dPrimed /\ bBusyData /\ Reading(dCnt, DMemBlk)

ITransfers ==
  /\ DIdle /\ dCnt = 0 /\ ~dPrimed /\ FetchPort.win
  /\ \/ Asking(iCnt)
     \/ ~bBusyData /\ Reading(iCnt, cPc.blk)

Transfer ==
  /\ ~DIdle => DTransfers
  /\ IMemSel => ITransfers
  /\ DIdle /\ ~IMemSel => Quiet

ControlInv == CpuInv /\ Transfer /\ (~RawRst => HeldInReset /\ Quiet)

-----------------------------------------------------------------------------
\* What was read of the RAMs is what they hold, unless it is marked.
ReadInv ==
  porCounter # 0 =>
    /\ ~dStaleQ => dTagQ = dTags[dRdIdxQ[1]] /\ dWordQ = dWords[dRdIdxQ]
    /\ ~iConflictQ => iTagQ = iTags[iRdIdxQ[1]]
    /\ ~iReplayQ => iWordQ = iWords[iRdIdxQ]
    /\ dState = "WB" /\ dPrimed => dWordQ = dWords[<<dLineR, dCnt>>]

\* The lines swept so far are invalid, and so are all until the CPU starts.
SweptInv ==
  /\ \A l \in DLines : (IF dSwept THEN ~RawRst ELSE l < dSweepIdx) => ~dTags[l].valid
  /\ \A l \in ILines : (IF iSwept THEN ~RawRst ELSE l < iSweepIdx) => ~iTags[l].valid

IHolds(b) == iTags[ILineOf[b]].valid /\ iTags[ILineOf[b]].tag = ITagOf[b]

\* The instruction cache holds no block that is dirty in the data cache and fills none; the
\* line a write-back is of stays dirty.
TagInv ==
  RawRst =>
    /\ \A b \in Blocks : IHolds(b) => ~ProbeDirty(b)
    /\ IMemSel => ~ProbeDirty(cPc.blk)
    /\ dState = "WB" => dTags[dLineR] = [valid |-> TRUE, dirty |-> TRUE, tag |-> dTagR]

\* In HACK_WB the word of M that MEM_WAIT loaded is still in the data cache's registers.
HackInv ==
  cState = "HACK_WB" /\ DataPort.win => DHit(DataPort)

-----------------------------------------------------------------------------
\* The words a transfer has moved.
MovedInv ==
  RawRst =>
    /\ dState = "WB" /\ bBusy =>
         \A k \in Offs : k < pCursor => pMem[DMemBlk][k] = dWords[<<dLineR, k>>].data
    /\ dState = "FILL" =>
         \A k \in Offs : k < dCnt => dWords[<<dLineR, k>>].data = pMem[DMemBlk][k]
    /\ IMemSel =>
         \A k \in Offs : k < iCnt => iWords[<<ILineOf[cPc.blk], k>>] = pMem[cPc.blk][k]
    /\ dState = "FILL" /\ pRspValid => pRdata = pMem[DMemBlk][dCnt]
    /\ IMemSel /\ pRspValid => pRdata = pMem[cPc.blk][iCnt]

\* The instruction cache's copy of a block is the memory's.
CodeInv ==
  RawRst =>
    \A b \in Blocks : IHolds(b) /\ ~(IMemSel /\ ILineOf[cPc.blk] = ILineOf[b]) =>
      \A k \in Offs : iWords[<<ILineOf[b], k>>] = Memory[b][k]

DataInv == MovedInv /\ CodeInv /\ StaleOnlyWhereStored
=============================================================================

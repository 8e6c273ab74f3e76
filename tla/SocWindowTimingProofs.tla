----------------------- MODULE SocWindowTimingProofs ------------------------
(***************************************************************************)
(* Proofs about how long the CPU waits for the window: the cycles that the *)
(* caches' headers count are those of every access, for every size of the  *)
(* caches and of a line, every latency of the controller and every program.*)
(***************************************************************************)
EXTENDS MCWindowTiming, SocWindowProofs

-----------------------------------------------------------------------------
\* How long the present access has waited, by where its transfer stands.

\* What a fill comes after: nothing, or the write-back of its victim (soc_dcache) or of the
\* block itself (soc_icache, with the cycle of the fetch's second lookup).
DBases == {0, WriteBackCost + 2}
IBases == {0, WriteBackCost + 3}

NoAccess == ~FetchPort.win /\ ~DataPort.win => waited = 0

\* A write-back: a cycle to read its first word, one to ask, the burst.
WbWaited ==
  dState = "WB" =>
    waited = IF ~dPrimed THEN 1 ELSE IF ~bBusy THEN 2
             ELSE IF pBusy THEN pElapsed + 2 ELSE WriteBackCost + 2

\* A fill: a cycle to ask, the burst.
FillWaited(bases) == \E n \in bases : waited = n + 1 + (IF bBusy THEN pElapsed ELSE 0)
FillsWaited ==
  /\ dState = "FILL" => FillWaited(DBases)
  /\ IMemSel => FillWaited(IBases)

\* A data access without a transfer: its first lookup, the cycle after its fill, or its last.
DTagThere == dTags[DLineOf[cIns.blk]].valid /\ dTags[DLineOf[cIns.blk]].tag = DTagOf[cIns.blk]
DIdleWaited ==
  DIdle /\ DataPort.win =>
    \/ waited = 0 /\ DLookup(DataPort)
    \/ \E n \in DBases : waited = n + FillCost - 1 /\ dStaleQ /\ DTagThere
    \/ \E n \in DBases : waited = n + FillCost /\ DHit(DataPort)

\* A fetch without one: its first lookup, the one after the write-back of its block, the cycle
\* after its fill, or its last.
IIdleWaited ==
  DIdle /\ IIdle /\ FetchPort.win =>
    \/ waited = 0 /\ ~iReplayQ
    \/ waited = WriteBackCost + 3 /\ ~iReplayQ /\ ~IHit(FetchPort) /\ ~ProbeDirty(cPc.blk)
    \/ \E n \in IBases : waited = n + FillCost - 1 /\ iReplayQ /\ IHolds(cPc.blk)
    \/ \E n \in IBases : waited = n + FillCost /\ IHit(FetchPort)

RunningWaited == NoAccess /\ WbWaited /\ FillsWaited /\ DIdleWaited /\ IIdleWaited

TimingInv ==
  /\ waited \in Nat
  /\ RawRst => RunningWaited
  /\ ~RawRst => WaitsBounded

\* The counter's clock edge.
Counts == waited' = IF RawRst /\ Waits THEN waited + 1 ELSE 0

-----------------------------------------------------------------------------
\* The costs in terms of the controller's bursts.
LEMMA Costs ==
  /\ FillCost \in Nat /\ LastWordAt \in Nat /\ FillCost = LastWordAt + 3
  /\ WriteBackCost \in Nat /\ WriteBackCost = ReadyAt(TRUE) /\ WriteBackCost >= 1
BY LatencyAssumption, SizeAssumption
DEF FillCost, WriteBackCost, LastWordAt, BURST_READ_AT, ReadyAt, Twice

\* They are constants.
LEMMA CostsConstant ==
  FillCost' = FillCost /\ WriteBackCost' = WriteBackCost /\ DBases' = DBases /\ IBases' = IBases
BY DEF FillCost, WriteBackCost, DBases, IBases, Twice

\* The access waits exactly when its cache does not hit.
LEMMA WaitsFor ==
  Waits <=> (FetchPort.win /\ ~IHit(FetchPort)) \/ (DataPort.win /\ ~DHit(DataPort))
BY DEF Waits, InstrReady, DataReady, IInstrReady, DDataReady

\* A transfer of the data cache is for an access that waits.
LEMMA DTransferWaits ==
  ASSUME WindowInv, Clock, Counts, ~DIdle PROVE waited' = waited + 1
<1>1. DTransfers /\ RawRst /\ ~DHit(DataPort)
  BY DTransferHolds DEF WindowInv, ControlInv, Transfer, Clock
<1>2. CASE dState = "WB" /\ dIsProbe
  <2>1. FetchPort.win /\ dLineR = DLineOf[cPc.blk] /\ dTagR = DTagOf[cPc.blk]
    BY <1>1, <1>2 DEF DTransfers, DFor
  <2>2. dTags[dLineR] = [valid |-> TRUE, dirty |-> TRUE, tag |-> dTagR] /\ dSwept
    BY <1>2, Running DEF WindowInv, TagInv
  <2>3. ProbeDirty(cPc.blk)
    BY <2>1, <2>2 DEF ProbeDirty
  <2> QED
    BY <1>1, <2>1, <2>3, NoHitOnDirty, WaitsFor DEF Counts
<1>3. CASE ~(dState = "WB" /\ dIsProbe)
  BY <1>1, <1>3, WaitsFor DEF DTransfers, DFor, Counts
<1> QED
  BY <1>2, <1>3

\* The burst of a request starts with its first cycle.
LEMMA FirstCycle ==
  ASSUME WindowInv, Clock, ~bBusy, ~pBusy, ~CpuSoftRst, IMemSel \/ DMemSel
  PROVE  bBusy' /\ pBusy' /\ pElapsed' = 1
<1>1. /\ TypeOK /\ PsramTypeOK /\ BurstInv /\ SweepInv /\ pInit = 0
      /\ PsramClock(Request) /\ Request \in RequestType
  BY Running, WireTypes DEF WindowInv, TypeOK, Clock
<1>2. Request.valid /\ bBusy'
  BY <1>1, BridgeStep
<1> QED
  BY <1>1, <1>2, BurstStart

\* A write burst counts its cycles to the end.
LEMMA WriteCycle ==
  ASSUME WindowInv, Clock, Writing
  PROVE  /\ pElapsed \in Nat
         /\ pBusy' => pElapsed' = pElapsed + 1
         /\ ~pBusy' => pElapsed + 1 = WriteBackCost
<1>1. PsramTypeOK /\ PsramClock(Request) /\ pBusy /\ pWe /\ pWe = TRUE
  BY DEF WindowInv, TypeOK, PsramTypeOK, Clock, Writing
<1>2. ~PAccept(Request)
  BY <1>1 DEF PAccept, PReqReady
<1>3. /\ pBusy' = (PNext # ReadyAt(pWe))
      /\ pElapsed' = IF PNext = ReadyAt(pWe) THEN 0 ELSE PNext
  BY <1>1, <1>2 DEF PsramClock
<1> QED
  BY <1>1, <1>3, Costs DEF PNext, PsramTypeOK


-----------------------------------------------------------------------------
\* A clock edge of the running SoC, by what is under way.

\* A write-back goes on, or ends in the fill or in the fetch's second lookup.
LEMMA WriteBackStep ==
  ASSUME WindowInv, WindowInv', TimingInv, Clock, Counts, dState = "WB" PROVE RunningWaited'
<1>1. /\ waited \in Nat /\ WbWaited /\ ~DIdle /\ waited' = waited + 1
      /\ TypeOK /\ SweepInv /\ DTransfers /\ DFor /\ RawRst
  BY DTransferWaits DEF WindowInv, ControlInv, Transfer, DTransfers, TimingInv, RunningWaited, Clock, DIdle
<1>2. /\ cPc' = cPc /\ cIns' = cIns /\ FetchPort' = FetchPort /\ DataPort' = DataPort
      /\ ~CpuSoftRst /\ IIdle /\ IIdle' /\ ~IMemSel' /\ ~IMemSel
  BY <1>1, DTransferHolds DEF cvars, IIdle, IMemSel
<1>3. FetchPort.win \/ DataPort.win
  BY <1>1 DEF DFor
<1>4. NoAccess'
  BY <1>2, <1>3 DEF NoAccess
<1>5. CASE Asking(dCnt)
  <2>1. dState' = "WB" /\ (DMemSel <=> dPrimed) /\ (DMemSel => bBusy') /\ (~DMemSel => ~bBusy')
    BY <1>1, <1>5, DAskStep DEF DMemSel
  <2>2. dPrimed'
    <3>1. ~DEnd
      BY <1>5 DEF Asking, DEnd, DAnswer
    <3> QED
      BY <1>1, <3>1, DStateStep
  <2>3. dPrimed => pBusy' /\ pElapsed' = 1
    BY <1>2, <1>5, <2>1, FirstCycle DEF Asking
  <2>4. waited = IF ~dPrimed THEN 1 ELSE 2
    BY <1>1, <1>5 DEF WbWaited, Asking
  <2>5. WbWaited'
    BY <1>1, <2>1, <2>2, <2>3, <2>4 DEF WbWaited
  <2> QED
    BY <1>2, <1>4, <2>1, <2>5 DEF RunningWaited, FillsWaited, DIdleWaited, IIdleWaited, DIdle
<1>6. CASE dPrimed /\ bBusyData /\ Writing
  <2>1. dState' = "WB" /\ dPrimed' /\ bBusy'
    BY <1>6, DWriteStep
  <2>2. waited = pElapsed + 2
    BY <1>1, <1>6 DEF WbWaited, Writing
  <2>3. /\ pElapsed \in Nat
        /\ pBusy' => pElapsed' = pElapsed + 1
        /\ ~pBusy' => pElapsed + 1 = WriteBackCost
    BY <1>6, WriteCycle
  <2>4. WbWaited'
    BY <1>1, <2>1, <2>2, <2>3, CostsConstant DEF WbWaited
  <2> QED
    BY <1>2, <1>4, <2>1, <2>4 DEF RunningWaited, FillsWaited, DIdleWaited, IIdleWaited, DIdle
<1>7. CASE dPrimed /\ bBusyData /\ Written
  <2>1. /\ DEnd /\ ~bBusy'
        /\ dIsProbe => dState' = "IDLE" /\ DIdle'
        /\ ~dIsProbe => dState' = "FILL"
    BY <1>7, DWrittenStep DEF DIdle
  <2>2. waited' = WriteBackCost + 3
    <3>1. waited = WriteBackCost + 2
      BY <1>1, <1>7 DEF WbWaited, Written
    <3>2. WriteBackCost \in Nat
      BY Costs
    <3> QED
      BY <1>1, <3>1, <3>2
  <2>3. CASE ~dIsProbe
    <3>1. FillWaited(DBases)'
      <4>1. WriteBackCost \in Nat /\ WriteBackCost + 2 \in DBases'
        BY Costs, CostsConstant DEF DBases
      <4>2. waited' = (WriteBackCost + 2) + 1 + (IF bBusy' THEN pElapsed' ELSE 0)
        BY <2>1, <2>2, <4>1
      <4> QED
        BY <4>1, <4>2 DEF FillWaited
    <3> QED
      BY <1>2, <1>4, <2>1, <2>3, <3>1
      DEF RunningWaited, WbWaited, FillsWaited, DIdleWaited, IIdleWaited, DIdle
  <2>4. CASE dIsProbe
    <3>1. /\ FetchPort.win /\ dLineR = DLineOf[cPc.blk] /\ dTagR = DTagOf[cPc.blk] /\ ~DataPort.win
          /\ cPc.blk \in Blocks
      BY <1>1, <2>4, Exclusive, PcsType DEF DFor, WindowInv, ControlInv, TypeOK, CpuTypeOK
    <3>2. dTags' = [dTags EXCEPT ![dLineR] = [valid |-> TRUE, dirty |-> FALSE, tag |-> dTagR]]
      BY <1>1, <2>1, <2>4, DTagStep
    <3>3. ~ProbeDirty(cPc.blk)'
      <4>1. dTags \in [DLines -> DTagEntry] /\ dLineR \in DLines
        BY <1>1 DEF TypeOK, DcacheTypeOK
      <4>2. dTags'[dLineR].dirty = FALSE
        BY <3>2, <4>1
      <4> QED
        BY <1>2, <3>1, <4>2 DEF ProbeDirty
    <3>4. ~IHit(FetchPort)'
      <4>1. ProbeDirty(cPc.blk)
        <5>1. dTags[dLineR] = [valid |-> TRUE, dirty |-> TRUE, tag |-> dTagR] /\ dSwept
          BY <1>1, Running DEF WindowInv, TagInv
        <5> QED
          BY <3>1, <5>1 DEF ProbeDirty
      <4>2. ~IHolds(cPc.blk)
        BY <1>1, <3>1, <4>1 DEF WindowInv, TagInv
      <4>3. iTags' = iTags
        BY <1>1, <1>2, <3>1, ITagStep, Ports DEF IEnd, IAnswer
      <4>4. SUFFICES ASSUME IHit(FetchPort)' PROVE FALSE
        OBVIOUS
      <4>5. porCounter' # 0
        BY <1>1, Running DEF Clock
      <4>6. iTagQ' = iTags'[iRdIdxQ'[1]] /\ iRdIdxQ' = IIdx(FetchPort)
        BY <1>2, <4>4, <4>5 DEF WindowInv, ReadInv, IHit, IIdx
      <4>7. iRdIdxQ'[1] = ILineOf[cPc.blk]
        BY <4>6, Ports DEF IIdx
      <4>8. iTagQ'.valid /\ iTagQ'.tag = ITagOf[cPc.blk]
        BY <1>2, <4>4, Ports DEF IHit
      <4> QED
        BY <4>2, <4>3, <4>6, <4>7, <4>8 DEF IHolds
    <3>5. ~iReplayQ'
      BY <1>2, CounterStep
    <3>6. IIdleWaited'
      BY <1>2, <2>2, <3>3, <3>4, <3>5, CostsConstant DEF IIdleWaited
    <3> QED
      BY <1>2, <1>4, <2>1, <2>4, <3>1, <3>6 DEF RunningWaited, WbWaited, FillsWaited, DIdleWaited
  <2> QED
    BY <2>3, <2>4
<1> QED
  BY <1>1, <1>5, <1>6, <1>7 DEF DTransfers


\* The cycles before a fill are numbers.
LEMMA BaseTypes == DBases \subseteq Nat /\ IBases \subseteq Nat
<1>1. WriteBackCost \in Nat
  BY Costs
<1> QED
  BY <1>1 DEF DBases, IBases

\* The data cache's fill goes on, or ends; the access is looked up again a cycle later.
LEMMA DFillStep ==
  ASSUME WindowInv, WindowInv', TimingInv, Clock, Counts, dState = "FILL" PROVE RunningWaited'
<1>1. /\ waited \in Nat /\ FillWaited(DBases) /\ ~DIdle /\ waited' = waited + 1
      /\ TypeOK /\ PsramTypeOK /\ BurstInv /\ SweepInv /\ DTransfers /\ DFor /\ RawRst
      /\ dCnt \in Offs /\ PsramClock(Request)
  BY DTransferWaits
  DEF WindowInv, ControlInv, Transfer, DTransfers, TimingInv, RunningWaited, FillsWaited, Clock, DIdle,
      TypeOK, DcacheTypeOK
<1>2. /\ cPc' = cPc /\ cIns' = cIns /\ FetchPort' = FetchPort /\ DataPort' = DataPort
      /\ ~CpuSoftRst /\ IIdle' /\ ~IMemSel'
  BY <1>1, DTransferHolds DEF cvars, IIdle, IMemSel
<1>3. /\ DataPort.win /\ dLineR = DLineOf[cIns.blk] /\ dTagR = DTagOf[cIns.blk] /\ ~FetchPort.win
      /\ NoAccess'
  BY <1>1, <1>2, Exclusive DEF DFor, NoAccess, WindowInv, ControlInv
<1>4. PICK n \in DBases : waited = n + 1 + (IF bBusy THEN pElapsed ELSE 0)
  BY <1>1 DEF FillWaited
<1>5. n \in Nat /\ n \in DBases' /\ pElapsed \in Nat
  BY <1>1, BaseTypes, CostsConstant DEF PsramTypeOK
<1>6. CASE Asking(dCnt) /\ ~dPrimed
  <2>1. dState' = "FILL" /\ DMemSel
    BY <1>1, <1>6, DAskStep DEF DMemSel
  <2>2. bBusy' /\ pElapsed' = 1
    BY <1>2, <1>6, <2>1, FirstCycle DEF Asking
  <2>3. waited' = n + 1 + pElapsed'
    BY <1>1, <1>4, <1>5, <1>6, <2>2 DEF Asking
  <2>4. FillWaited(DBases)'
    BY <1>5, <2>2, <2>3 DEF FillWaited
  <2> QED
    BY <1>2, <1>3, <2>1, <2>4 DEF RunningWaited, WbWaited, FillsWaited, DIdleWaited, IIdleWaited, DIdle
<1>7. CASE ~dPrimed /\ bBusyData /\ Reading(dCnt, DMemBlk)
  <2>1. /\ DEnd <=> pRspLast
        /\ bBusy' <=> ~pRspLast
        /\ pRspLast => DIdle'
        /\ ~pRspLast => dState' = "FILL"
    BY <1>7, DReadStep
  <2>2. pElapsed' = pElapsed + 1 /\ bBusy
    BY <1>1, <1>7, BurstRead DEF Reading
  <2>3. waited' = n + 1 + pElapsed'
    BY <1>1, <1>4, <1>5, <2>2
  <2>4. CASE ~pRspLast
    <3>1. FillWaited(DBases)'
      BY <1>5, <2>1, <2>3, <2>4 DEF FillWaited
    <3> QED
      BY <1>2, <1>3, <2>1, <2>4, <3>1
      DEF RunningWaited, WbWaited, FillsWaited, DIdleWaited, IIdleWaited, DIdle
  <2>5. CASE pRspLast
    <3>1. waited' = n + FillCost - 1
      <4>1. pElapsed = LastWordAt /\ LastWordAt \in Nat /\ FillCost = LastWordAt + 3
        BY <1>7, <2>5, Costs DEF Reading
      <4> QED
        BY <1>5, <2>2, <2>3, <4>1
    <3>2. dStaleQ'
      BY <1>1, CounterStep
    <3>3. DTagThere'
      <4>1. dTags' = [dTags EXCEPT ![dLineR] = [valid |-> TRUE, dirty |-> FALSE, tag |-> dTagR]]
        BY <1>1, <2>1, <2>5, DTagStep
      <4>2. dTags \in [DLines -> DTagEntry] /\ dLineR \in DLines
        BY <1>1 DEF TypeOK, DcacheTypeOK
      <4>3. dTags'[dLineR].valid /\ dTags'[dLineR].tag = dTagR
        BY <4>1, <4>2
      <4> QED
        BY <1>2, <1>3, <4>3 DEF DTagThere
    <3>4. DIdleWaited'
      BY <1>5, <3>1, <3>2, <3>3, CostsConstant DEF DIdleWaited
    <3> QED
      BY <1>2, <1>3, <2>1, <2>5, <3>4 DEF RunningWaited, WbWaited, FillsWaited, IIdleWaited, DIdle
  <2> QED
    BY <2>4, <2>5
<1> QED
  BY <1>1, <1>6, <1>7 DEF DTransfers

\* The instruction cache's fill goes on, or ends; the fetch is looked up again a cycle later.
LEMMA IFillWaits ==
  ASSUME WindowInv, WindowInv', TimingInv, Clock, Counts, IMemSel PROVE RunningWaited'
<1>1. /\ waited \in Nat /\ FillWaited(IBases) /\ ~IIdle
      /\ TypeOK /\ PsramTypeOK /\ BurstInv /\ SweepInv /\ ITransfers /\ RawRst
      /\ iCnt \in Offs /\ PsramClock(Request)
  BY DEF WindowInv, ControlInv, Transfer, TimingInv, RunningWaited, FillsWaited, Clock, IIdle, IMemSel,
      TypeOK, IcacheTypeOK
<1>2. /\ cPc' = cPc /\ FetchPort' = FetchPort /\ DataPort' = DataPort /\ DIdle
      /\ ~CpuSoftRst /\ FetchPort.win /\ ~DataPort.win /\ DIdle' /\ dState' = "IDLE" /\ ~DMemSel
  BY ITransferHolds DEF cvars, dFsm, DIdle
<1>3. waited' = waited + 1 /\ NoAccess'
  <2>1. ~IHit(FetchPort)
    BY <1>1 DEF IHit, ILookup
  <2> QED
    BY <1>1, <1>2, <2>1, WaitsFor DEF Counts, NoAccess
<1>4. PICK n \in IBases : waited = n + 1 + (IF bBusy THEN pElapsed ELSE 0)
  BY <1>1 DEF FillWaited
<1>5. n \in Nat /\ n \in IBases' /\ pElapsed \in Nat
  BY <1>1, BaseTypes, CostsConstant DEF PsramTypeOK
<1>6. /\ IMemSel' <=> ~(bBusy /\ pRspLast)
      /\ bBusy' <=> ~(bBusy /\ pRspLast)
      /\ bBusy => (IEnd <=> pRspLast)
      /\ IIdle' <=> ~IMemSel'
  BY <1>1, IFillStep, IStateStep
<1>7. ASSUME FillWaited(IBases)', IMemSel' PROVE RunningWaited'
  BY <1>2, <1>3, <1>6, <1>7 DEF RunningWaited, WbWaited, FillsWaited, DIdleWaited, IIdleWaited
<1>8. CASE Asking(iCnt)
  <2>1. bBusy' /\ pElapsed' = 1
    BY <1>2, <1>8, FirstCycle DEF Asking
  <2>2. waited' = n + 1 + pElapsed'
    BY <1>3, <1>4, <1>5, <1>8, <2>1 DEF Asking
  <2>3. FillWaited(IBases)'
    BY <1>5, <2>1, <2>2 DEF FillWaited
  <2> QED
    BY <1>6, <1>7, <1>8, <2>3 DEF Asking
<1>9. CASE ~bBusyData /\ Reading(iCnt, cPc.blk)
  <2>1. pElapsed' = pElapsed + 1 /\ bBusy
    BY <1>1, <1>9, BurstRead DEF Reading
  <2>2. waited' = n + 1 + pElapsed'
    BY <1>3, <1>4, <1>5, <2>1
  <2>3. CASE ~pRspLast
    <3>1. FillWaited(IBases)'
      BY <1>5, <1>6, <2>2, <2>3 DEF FillWaited
    <3> QED
      BY <1>6, <1>7, <2>3, <3>1
  <2>4. CASE pRspLast
    <3>1. waited' = n + FillCost - 1
      <4>1. pElapsed = LastWordAt /\ LastWordAt \in Nat /\ FillCost = LastWordAt + 3
        BY <1>9, <2>4, Costs DEF Reading
      <4> QED
        BY <1>5, <2>1, <2>2, <4>1
    <3>2. iReplayQ'
      BY <1>1, CounterStep
    <3>3. IHolds(cPc.blk)'
      <4>1. iTags' = [iTags EXCEPT ![ILineOf[cPc.blk]] = [valid |-> TRUE, tag |-> ITagOf[cPc.blk]]]
        BY <1>1, <1>6, <2>1, <2>4, ITagStep
      <4>2. iTags \in [ILines -> ITagEntry] /\ ILineOf[cPc.blk] \in ILines
        BY <1>1, PcsType, IcacheSplitAssumption DEF TypeOK, IcacheTypeOK, CpuTypeOK
      <4>3. iTags'[ILineOf[cPc.blk]].valid /\ iTags'[ILineOf[cPc.blk]].tag = ITagOf[cPc.blk]
        BY <4>1, <4>2
      <4> QED
        BY <1>2, <4>3 DEF IHolds
    <3>4. IIdleWaited'
      BY <1>5, <3>1, <3>2, <3>3, CostsConstant DEF IIdleWaited
    <3> QED
      BY <1>2, <1>3, <1>6, <2>1, <2>4, <3>4 DEF RunningWaited, WbWaited, FillsWaited, DIdleWaited
  <2> QED
    BY <2>3, <2>4
<1> QED
  BY <1>1, <1>8, <1>9 DEF ITransfers


-----------------------------------------------------------------------------
\* The cycle in which no access waits: what the CPU does next starts with a lookup.

\* unified_cpu has the address of an access on the bus a cycle before it, and writes nothing then;
\* Hack's store in HACK_WB is HackInv's.
LEMMA AddressReady ==
  ASSUME TypeOK, CpuInv, Clock, DataReady, DataReq', cState' # "HACK_WB"
  PROVE  cIns'.blk = cIns.blk /\ cIns'.off = cIns.off /\ ~(DataReq /\ MemWrite)
<1>1. ~CpuSoftRst
  BY DEF Clock, CSoftReset, DataReq, MemWrite
<1>2. PICK nextPc \in NextPcs : CpuClock(nextPc, InstrReady, DataReady)
  BY <1>1 DEF Clock
<1>3. ASSUME Complete(nextPc) PROVE FALSE
  BY <1>3 DEF Complete, DataReq, MemWrite
<1>4. cIns \in InsType /\ cRiscv \in BOOLEAN
  BY DEF TypeOK, CpuTypeOK, InsType
<1>5. CASE CFetch(InstrReady)
  <2>1. cState = "FETCH" /\ cIns' \in Instructions(cRiscv, cIns) /\ ~cRiscv
    BY <1>5 DEF CFetch, DataReq, MemWrite
  <2>2. cIns' \in HackInstructions(cIns)
    BY <2>1 DEF Instructions
  <2>3. cIns'.blk = cIns.blk /\ cIns'.off = cIns.off
    BY <2>2 DEF HackInstructions, Ins
  <2> QED
    BY <2>1, <2>3 DEF DataReq, MemWrite
<1>6. CASE CExecute(nextPc, DataReady)
  BY <1>3, <1>6 DEF CExecute, DataReq, MemWrite
<1>7. CASE CMemWait(nextPc, DataReady)
  BY <1>3, <1>7 DEF CMemWait, DataReq, MemWrite
<1>8. CASE CAmoCalc
  BY <1>4, <1>8 DEF CAmoCalc, DataReq, MemWrite, InsType
<1>9. CASE CHackWb(nextPc, DataReady) \/ CHackWrD \/ CMulDivWait(nextPc)
  BY <1>3, <1>9 DEF CHackWb, CHackWrD, CMulDivWait, DataReq, MemWrite
<1> QED
  BY <1>2, <1>5, <1>6, <1>7, <1>8, <1>9 DEF CpuClock

\* What is read of the data cache's RAMs in a cycle that writes nothing to them is sound.
LEMMA ReadSound ==
  ASSUME WindowInv, Clock, DIdle, ~(DHit(DataPort) /\ DataPort.we)
  PROVE  /\ ~dStaleQ' /\ dRdIdxQ' = <<DLineOf[cIns.blk], cIns.off>> /\ dTags' = dTags
         /\ dTagQ' = dTags[DLineOf[cIns.blk]]
<1>1. /\ TypeOK /\ SweepInv /\ DcacheTypeOK /\ dSwept
      /\ DataPort \in DataPortType /\ DMemPort \in MemPortType /\ DIdx(cIns) \in DIndex
  BY Running, WireTypes DEF WindowInv, TypeOK
<1>2. DcacheClock(DataPort, DIdx(cIns), DMemPort, ProbePort, FALSE)
  BY DEF Clock
<1>3. ~DTagWrite(DataPort, DMemPort, FALSE).we /\ ~DWordWrite(DataPort, DMemPort).we
  BY <1>1 DEF DTagWrite, DWordWrite, DLast, DDone, DMemSel, DIdle
<1>4. dTags' = dTags
  BY <1>1, DTagStep DEF DEnd, DAnswer, DMemSel, DIdle
<1>5. dStaleQ' \in BOOLEAN
  BY <1>2 DEF DcacheClock
<1>6. ~dStaleQ' /\ dRdIdxQ' = DIdx(cIns) /\ dTagQ' = dTags'[DIdx(cIns)[1]]
  BY <1>1, <1>2, <1>3, <1>5, DReadStepRam
<1> QED
  BY <1>4, <1>6 DEF DIdx

\* No access waits: there is no transfer and none starts, and the next access is looked up in its
\* first cycle.
LEMMA FreshStep ==
  ASSUME WindowInv, WindowInv', Clock, Counts, ~Waits PROVE RunningWaited'
<1>1. /\ TypeOK /\ SweepInv /\ CpuInv /\ dSwept' /\ waited' = 0
      /\ dState \in {"IDLE", "WB", "FILL"} /\ RawRst
      /\ DataPort.win => DHit(DataPort)
      /\ FetchPort.win => IHit(FetchPort)
  BY Running, WaitsFor DEF WindowInv, ControlInv, TypeOK, DcacheTypeOK, Counts, Clock
<1>2. DIdle
  <2>1. SUFFICES ASSUME ~DIdle PROVE FALSE
    OBVIOUS
  <2>2. DTransfers /\ ~DHit(DataPort)
    BY <2>1, DTransferHolds DEF WindowInv, ControlInv, Transfer
  <2>3. FetchPort.win /\ dState = "WB" /\ dLineR = DLineOf[cPc.blk] /\ dTagR = DTagOf[cPc.blk]
    BY <1>1, <2>2 DEF DTransfers, DFor
  <2>4. dTags[dLineR] = [valid |-> TRUE, dirty |-> TRUE, tag |-> dTagR] /\ dSwept
    BY <1>1, <2>3, Running DEF WindowInv, TagInv
  <2>5. ProbeDirty(cPc.blk)
    BY <2>3, <2>4 DEF ProbeDirty
  <2> QED
    BY <1>1, <2>3, <2>5, NoHitOnDirty
<1>3. IIdle /\ ~IMemSel
  BY <1>1 DEF WindowInv, ControlInv, Transfer, ITransfers, Quiet, IIdle, IMemSel, IHit, ILookup, TypeOK, IcacheTypeOK
<1>4. ~DMiss(DataPort) /\ ~IMiss(FetchPort) /\ ~ProbeWb(DataPort, ProbePort)
  BY <1>1, Ports DEF DMiss, DHit, DLookup, IMiss, ProbeWb
<1>5. DIdle' /\ dState' = "IDLE"
  BY <1>1, <1>2, <1>4, DStateStep DEF dFsm, DIdle
<1>6. IIdle' /\ ~IMemSel' /\ ~iReplayQ'
  BY <1>1, <1>3, <1>4, IStateStep, CounterStep
<1>7. ASSUME (DataPort.win)' PROVE DLookup(DataPort)'
  <2>1. CASE cState' = "HACK_WB"
    BY <1>7, <2>1 DEF WindowInv, HackInv, DHit
  <2>2. CASE cState' # "HACK_WB"
    <3>1. DataReq' /\ DataReady
      BY <1>1, <1>7 DEF DataPort, DataReady, DDataReady
    <3>2. cIns'.blk = cIns.blk /\ cIns'.off = cIns.off /\ ~(DataReq /\ MemWrite)
      BY <1>1, <2>2, <3>1, AddressReady
    <3>3. ~(DHit(DataPort) /\ DataPort.we)
      BY <3>2, Ports DEF DHit, DLookup
    <3>4. ~dStaleQ' /\ dRdIdxQ' = <<DLineOf[cIns.blk], cIns.off>>
      BY <1>2, <3>3, ReadSound
    <3>5. (DataPort.blk)' = cIns.blk /\ (DataPort.off)' = cIns.off
      BY <3>2 DEF DataPort
    <3> QED
      BY <1>1, <1>5, <1>7, <3>4, <3>5 DEF DLookup, DIdx
  <2> QED
    BY <2>1, <2>2
<1> QED
  BY <1>1, <1>5, <1>6, <1>7 DEF RunningWaited, NoAccess, WbWaited, FillsWaited, DIdleWaited, IIdleWaited


-----------------------------------------------------------------------------
\* An access that waits without a transfer: it misses, or is about to hit.

\* A data access.
LEMMA DQuietWaits ==
  ASSUME WindowInv, WindowInv', TimingInv, Clock, Counts, Quiet, DataPort.win, ~DHit(DataPort)
  PROVE  RunningWaited'
<1>1. /\ TypeOK /\ SweepInv /\ CpuInv /\ DIdle /\ IIdle /\ ~dPrimed /\ ~bBusy /\ DIdleWaited
      /\ waited \in Nat /\ RawRst /\ waited' = waited + 1 /\ dSwept'
  BY Running, WaitsFor
  DEF WindowInv, ControlInv, Quiet, TimingInv, RunningWaited, Clock, Counts
<1>2. /\ cIns' = cIns /\ FetchPort' = FetchPort /\ DataPort' = DataPort /\ ~FetchPort.win
  BY <1>1, CpuHolds, Exclusive DEF cvars
<1>3. ~IMemSel /\ ~DMemSel /\ ~IMiss(FetchPort) /\ ~ProbeWb(DataPort, ProbePort)
  BY <1>1, <1>2 DEF IMemSel, IIdle, DMemSel, DIdle, IMiss, ProbeWb
<1>4. ~IMemSel' /\ ~bBusy'
  <2>1. ~Request.valid
    BY <1>1, <1>3, BridgeStep
  <2> QED
    BY <1>1, <1>3, <2>1, BridgeStep, IStateStep
<1>5. NoAccess' /\ IIdleWaited'
  BY <1>2 DEF NoAccess, IIdleWaited
<1>6. CASE waited = 0 /\ DLookup(DataPort)
  <2>1. DMiss(DataPort)
    BY <1>6 DEF DMiss, DHit
  <2>2. dState' \in {"WB", "FILL"} /\ ~dPrimed'
    BY <1>1, <2>1, DStateStep
  <2>3. FillWaited(DBases)'
    BY <1>1, <1>4, <1>6, CostsConstant DEF FillWaited, DBases
  <2>4. waited' = 1
    BY <1>1, <1>6
  <2> QED
    BY <1>4, <1>5, <2>2, <2>3, <2>4 DEF RunningWaited, WbWaited, FillsWaited, DIdleWaited, DIdle
<1>7. CASE \E n \in DBases : waited = n + FillCost - 1 /\ dStaleQ /\ DTagThere
  <2>1. PICK n \in DBases : waited = n + FillCost - 1
    BY <1>7
  <2>2. waited' = n + FillCost /\ n \in DBases'
    <3>1. n \in Nat /\ FillCost \in Nat
      BY BaseTypes, Costs
    <3> QED
      BY <1>1, <2>1, <3>1, CostsConstant
  <2>3. DIdle' /\ dState' = "IDLE"
    <3>1. ~DMiss(DataPort)
      BY <1>7 DEF DMiss, DLookup
    <3> QED
      BY <1>1, <1>3, <3>1, DStateStep DEF dFsm, DIdle
  <2>4. DHit(DataPort)'
    <3>1. ~dStaleQ' /\ dRdIdxQ' = <<DLineOf[cIns.blk], cIns.off>> /\ dTagQ' = dTags[DLineOf[cIns.blk]]
      BY <1>1, ReadSound
    <3>2. (DataPort.blk)' = cIns.blk /\ (DataPort.off)' = cIns.off /\ (DataPort.win)'
      BY <1>2, Ports
    <3>3. DMatch(DataPort)'
      BY <1>7, <3>1, <3>2 DEF DMatch, DTagThere
    <3>4. DLookup(DataPort)'
      BY <1>1, <2>3, <3>1, <3>2 DEF DLookup, DIdx
    <3> QED
      BY <3>3, <3>4 DEF DHit
  <2>5. DIdleWaited'
    BY <2>2, <2>4, CostsConstant DEF DIdleWaited
  <2> QED
    BY <1>4, <1>5, <2>3, <2>5 DEF RunningWaited, WbWaited, FillsWaited
<1> QED
  BY <1>1, <1>6, <1>7 DEF DIdleWaited

\* A fetch: its block is written back first, or its line filled; after the fill it hits.
LEMMA IQuietWaits ==
  ASSUME WindowInv, WindowInv', TimingInv, Clock, Counts, Quiet, FetchPort.win, ~IHit(FetchPort)
  PROVE  RunningWaited'
<1>1. /\ TypeOK /\ SweepInv /\ CpuInv /\ DIdle /\ IIdle /\ ~dPrimed /\ ~bBusy /\ IIdleWaited
      /\ waited \in Nat /\ RawRst /\ waited' = waited + 1 /\ iSwept /\ iSwept' /\ dSwept
  BY Running, WaitsFor
  DEF WindowInv, ControlInv, Quiet, TimingInv, RunningWaited, Clock, Counts
<1>2. /\ cPc' = cPc /\ FetchPort' = FetchPort /\ DataPort' = DataPort /\ ~DataPort.win
  BY <1>1, CpuHolds, Exclusive DEF cvars
<1>3. ~IMemSel /\ ~DMemSel /\ ~DMiss(DataPort)
  BY <1>1, <1>2 DEF IMemSel, IIdle, DMemSel, DIdle, DMiss, DLookup
<1>4. ~bBusy' /\ (IIdle' <=> ~IMemSel') /\ ~iReplayQ'
  <2>1. ~Request.valid
    BY <1>1, <1>3, BridgeStep
  <2> QED
    BY <1>1, <1>3, <2>1, BridgeStep, IStateStep, CounterStep
<1>5. NoAccess' /\ DIdleWaited'
  BY <1>2 DEF NoAccess, DIdleWaited
<1>6. ASSUME IMiss(FetchPort), ~ProbeDirty(cPc.blk), waited \in IBases PROVE RunningWaited'
  <2>1. IMemSel'
    BY <1>1, <1>6, IStateStep
  <2>2. DIdle' /\ dState' = "IDLE"
    <3>1. ~ProbeWb(DataPort, ProbePort)
      BY <1>6, Ports DEF ProbeWb
    <3> QED
      BY <1>1, <1>3, <3>1, DStateStep DEF dFsm, DIdle
  <2>3. FillWaited(IBases)'
    <3>1. waited \in IBases' /\ waited' = waited + 1 + (IF bBusy' THEN pElapsed' ELSE 0)
      BY <1>1, <1>4, <1>6, CostsConstant
    <3> QED
      BY <3>1 DEF FillWaited
  <2> QED
    BY <1>4, <1>5, <2>1, <2>2, <2>3 DEF RunningWaited, WbWaited, FillsWaited, IIdleWaited
<1>7. CASE waited = 0 /\ ~iReplayQ
  <2>1. IMiss(FetchPort)
    BY <1>1, <1>7 DEF IMiss, ILookup
  <2>2. CASE ProbeDirty(cPc.blk)
    <3>1. ProbeWb(DataPort, ProbePort)
      BY <1>1, <1>2, <2>1, <2>2, Ports DEF ProbeWb
    <3>2. dState' = "WB" /\ ~dPrimed'
      BY <1>1, <3>1, DStateStep
    <3>3. ~IMemSel'
      BY <1>1, <1>3, <2>2, IStateStep
    <3>4. waited' = 1
      BY <1>1, <1>7
    <3> QED
      BY <1>5, <3>2, <3>3, <3>4 DEF RunningWaited, WbWaited, FillsWaited, IIdleWaited, DIdle
  <2>3. CASE ~ProbeDirty(cPc.blk)
    BY <1>6, <1>7, <2>1, <2>3 DEF IBases
  <2> QED
    BY <2>2, <2>3
<1>8. CASE waited = WriteBackCost + 3 /\ ~iReplayQ /\ ~ProbeDirty(cPc.blk)
  <2>1. IMiss(FetchPort)
    BY <1>1, <1>8 DEF IMiss, ILookup
  <2> QED
    BY <1>6, <1>8, <2>1 DEF IBases
<1>9. CASE \E n \in IBases : waited = n + FillCost - 1 /\ iReplayQ /\ IHolds(cPc.blk)
  <2>1. PICK n \in IBases : waited = n + FillCost - 1
    BY <1>9
  <2>2. waited' = n + FillCost /\ n \in IBases'
    <3>1. n \in Nat /\ FillCost \in Nat
      BY BaseTypes, Costs
    <3> QED
      BY <1>1, <2>1, <3>1, CostsConstant
  <2>3. ~IMiss(FetchPort)
    BY <1>9 DEF IMiss, ILookup
  <2>4. DIdle' /\ dState' = "IDLE"
    <3>1. ~ProbeWb(DataPort, ProbePort)
      BY <2>3, Ports DEF ProbeWb
    <3> QED
      BY <1>1, <1>3, <3>1, DStateStep DEF dFsm, DIdle
  <2>5. IIdle' /\ ~IMemSel'
    BY <1>1, <1>3, <1>4, <2>3, IStateStep
  <2>6. IHit(FetchPort)'
    <3>1. ~InvPort.on /\ ~ILast(IMemPort)
      BY <1>2, <1>3, Ports, Answers DEF IEnd, IAnswer
    <3>2. iTags' = iTags
      BY <1>1, <1>3, <3>1, ITagStep DEF IEnd, IAnswer
    <3>3. IcacheClock(FetchPort, IIdx(cPc), IMemPort, InvPort, FillHold, FALSE)
      <4>1. cState = "FETCH"
        BY Ports DEF FetchReq
      <4>2. \A x : PcOut(x) = cPc
        BY <4>1 DEF PcOut
      <4> QED
        BY <4>2 DEF Clock
    <3>4. ~ITagWrite(FetchPort, IMemPort, InvPort, FALSE).we
      BY <1>1, <3>1 DEF ITagWrite
    <3>5. ~iConflictQ' /\ iRdIdxQ' = <<ILineOf[cPc.blk], cPc.off>>
      BY <3>3, <3>4 DEF IcacheClock, IIdx
    <3>6. porCounter' # 0
      BY <1>1, Running DEF Clock
    <3>7. iTagQ' = iTags[ILineOf[cPc.blk]]
      BY <3>2, <3>5, <3>6 DEF WindowInv, ReadInv
    <3>8. iTagQ'.valid /\ iTagQ'.tag = ITagOf[cPc.blk]
      BY <1>9, <3>7 DEF IHolds
    <3> QED
      BY <1>1, <1>2, <1>4, <2>5, <3>5, <3>8, Ports DEF IHit, ILookup, IIdx
  <2>7. IIdleWaited'
    BY <2>2, <2>6, CostsConstant DEF IIdleWaited
  <2> QED
    BY <1>5, <2>4, <2>5, <2>7 DEF RunningWaited, WbWaited, FillsWaited
<1> QED
  BY <1>1, <1>7, <1>8, <1>9 DEF IIdleWaited

-----------------------------------------------------------------------------
\* Where the access stands bounds how long it has waited, and it waits on only below the bound.
LEMMA Bounded ==
  ASSUME WindowInv, TimingInv, RawRst
  PROVE  WaitsBounded /\ (Waits => waited + 1 <= WriteBackCost + 3 + FillCost)
<1>1. /\ waited \in Nat /\ RunningWaited /\ Transfer /\ CpuInv /\ BurstInv /\ PsramTypeOK
      /\ dState \in {"IDLE", "WB", "FILL"} /\ iState \in {"IDLE", "FILL"}
  BY DEF TimingInv, WindowInv, ControlInv, TypeOK, DcacheTypeOK, IcacheTypeOK
<1>2. /\ FillCost \in Nat /\ LastWordAt \in Nat /\ FillCost = LastWordAt + 3
      /\ WriteBackCost \in Nat /\ WriteBackCost >= 1
  BY Costs
<1>3. SUFFICES ASSUME TRUE
               PROVE  /\ waited <= WriteBackCost + 3 + FillCost
                      /\ Waits => waited + 1 <= WriteBackCost + 3 + FillCost
  BY DEF WaitsBounded
<1>4. CASE dState = "WB"
  <2>1. pBusy /\ bBusy => pElapsed \in Nat /\ pElapsed + 1 <= WriteBackCost
    <3>1. SUFFICES ASSUME pBusy, bBusy PROVE pElapsed \in Nat /\ pElapsed + 1 <= WriteBackCost
      OBVIOUS
    <3>2. DTransfers
      BY <1>1, <1>4 DEF Transfer, DIdle
    <3>3. pWe /\ pWe = TRUE
      BY <1>1, <1>4, <3>1, <3>2 DEF DTransfers, Asking, Writing, Written, PsramTypeOK
    <3>4. pElapsed \in 1 .. ReadyAt(pWe) - 1
      BY <1>1, <3>1 DEF BurstInv
    <3>5. ReadyAt(pWe) = WriteBackCost
      BY <3>3, Costs
    <3>6. pElapsed \in 1 .. WriteBackCost - 1
      BY <3>4, <3>5, Zenon
    <3> QED
      BY <1>2, <3>6
  <2>2. waited = IF ~dPrimed THEN 1 ELSE IF ~bBusy THEN 2
                 ELSE IF pBusy THEN pElapsed + 2 ELSE WriteBackCost + 2
    BY <1>1, <1>4 DEF RunningWaited, WbWaited
  <2> QED
    BY <1>2, <2>1, <2>2
<1>5. ASSUME NEW n \in Nat, n <= WriteBackCost + 3, NEW cnt, NEW blk, Asking(cnt) \/ Reading(cnt, blk),
             waited = n + 1 + (IF bBusy THEN pElapsed ELSE 0)
      PROVE  waited + 1 <= WriteBackCost + 3 + FillCost
  <2>1. bBusy => pElapsed \in Nat /\ pElapsed <= LastWordAt
    BY <1>1, <1>5 DEF Asking, Reading, PsramTypeOK
  <2> QED
    BY <1>2, <1>5, <2>1
<1>6. CASE dState = "FILL"
  <2>1. PICK n \in DBases : waited = n + 1 + (IF bBusy THEN pElapsed ELSE 0)
    BY <1>1, <1>6 DEF RunningWaited, FillsWaited, FillWaited
  <2>2. n \in Nat /\ n <= WriteBackCost + 3
    BY <1>2 DEF DBases
  <2>3. Asking(dCnt) \/ Reading(dCnt, DMemBlk)
    BY <1>1, <1>6 DEF Transfer, DTransfers, DIdle
  <2>4. waited + 1 <= WriteBackCost + 3 + FillCost
    BY <1>5, <2>1, <2>2, <2>3
  <2> QED
    BY <1>1, <1>2, <2>4
<1>7. CASE iState = "FILL"
  <2>1. PICK n \in IBases : waited = n + 1 + (IF bBusy THEN pElapsed ELSE 0)
    BY <1>1, <1>7 DEF RunningWaited, FillsWaited, FillWaited, IMemSel
  <2>2. n \in Nat /\ n <= WriteBackCost + 3
    BY <1>2 DEF IBases
  <2>3. Asking(iCnt) \/ Reading(iCnt, cPc.blk)
    BY <1>1, <1>7 DEF Transfer, ITransfers, IMemSel
  <2>4. waited + 1 <= WriteBackCost + 3 + FillCost
    BY <1>5, <2>1, <2>2, <2>3
  <2> QED
    BY <1>1, <1>2, <2>4
<1>8. CASE DIdle /\ IIdle /\ DataPort.win
  <2>1. ~FetchPort.win
    BY <1>1, <1>8, Exclusive
  <2>2. /\ \/ waited = 0
           \/ \E n \in DBases : waited = n + FillCost - 1
           \/ \E n \in DBases : waited = n + FillCost
        /\ Waits => waited = 0 \/ \E n \in DBases : waited = n + FillCost - 1
    BY <1>1, <1>8, <2>1, WaitsFor DEF RunningWaited, DIdleWaited
  <2> QED
    BY <1>2, <2>2 DEF DBases
<1>9. CASE DIdle /\ IIdle /\ FetchPort.win
  <2>1. ~DataPort.win
    BY <1>1, <1>9, Exclusive
  <2>2. /\ \/ waited = 0 \/ waited = WriteBackCost + 3
           \/ \E n \in IBases : waited = n + FillCost - 1
           \/ \E n \in IBases : waited = n + FillCost
        /\ Waits => waited = 0 \/ waited = WriteBackCost + 3 \/ \E n \in IBases : waited = n + FillCost - 1
    BY <1>1, <1>9, <2>1, WaitsFor DEF RunningWaited, IIdleWaited
  <2> QED
    BY <1>2, <2>2 DEF IBases
<1>10. CASE ~FetchPort.win /\ ~DataPort.win
  BY <1>1, <1>2, <1>10, WaitsFor DEF RunningWaited, NoAccess
<1> QED
  BY <1>1, <1>4, <1>6, <1>7, <1>8, <1>9, <1>10 DEF DIdle, IIdle


-----------------------------------------------------------------------------
\* Every step keeps the count where the transfers are.
LEMMA TimingStep ==
  ASSUME WindowInv, TimingInv, [TNext]_<<vars, waited>> PROVE WindowInv' /\ TimingInv'
<1>1. WindowInv'
  BY WindowStep DEF TNext
<1>2. CASE Clock /\ Counts
  <2>1. RawRst /\ RawRst' /\ waited \in Nat
    BY <1>2, Running DEF WindowInv, TimingInv
  <2>2. waited' \in Nat
    BY <1>2, <2>1 DEF Counts
  <2>3. RunningWaited'
    <3>1. CASE ~Waits
      BY <1>1, <1>2, <3>1, FreshStep
    <3>2. CASE dState = "WB"
      BY <1>1, <1>2, <3>2, WriteBackStep
    <3>3. CASE dState = "FILL"
      BY <1>1, <1>2, <3>3, DFillStep
    <3>4. CASE IMemSel
      BY <1>1, <1>2, <3>4, IFillWaits
    <3>5. CASE DIdle /\ ~IMemSel /\ Waits
      <4>1. Quiet
        BY <3>5 DEF WindowInv, ControlInv, Transfer
      <4> QED
        BY <1>1, <1>2, <3>5, <4>1, WaitsFor, DQuietWaits, IQuietWaits
    <3> QED
      BY <3>1, <3>2, <3>3, <3>4, <3>5 DEF WindowInv, TypeOK, DcacheTypeOK, DIdle
  <2> QED
    BY <1>1, <2>1, <2>2, <2>3 DEF TimingInv
<1>3. CASE PorClock /\ Counts
  <2>1. waited' = 0
    BY <1>3 DEF PorClock, Counts
  <2>2. /\ Quiet' /\ cState' = "FETCH" /\ ~cPc'.sel
    BY <1>3, ControlPor, CpuHeld DEF PorClock
  <2>3. ~(FetchPort.win)' /\ ~(DataPort.win)'
    BY <2>2 DEF FetchPort, DataPort, DataReq, MemWrite
  <2>4. RunningWaited'
    BY <2>1, <2>2, <2>3
    DEF RunningWaited, NoAccess, WbWaited, FillsWaited, DIdleWaited, IIdleWaited, Quiet, DIdle, IIdle, IMemSel
  <2>5. WaitsBounded'
    <3>1. FillCost' \in Nat /\ WriteBackCost' \in Nat
      BY Costs, CostsConstant
    <3> QED
      BY <2>1, <3>1 DEF WaitsBounded
  <2>6. waited' \in Nat
    BY <2>1
  <2> QED
    BY <1>1, <2>4, <2>5, <2>6 DEF TimingInv
<1>4. CASE Reset /\ Counts
  <2>1. ~RawRst'
    BY <1>4, ResetAssumption, SizeAssumption DEF Reset, RawRst
  <2>2. /\ FillCost \in Nat /\ WriteBackCost \in Nat /\ waited \in Nat
        /\ FillCost' = FillCost /\ WriteBackCost' = WriteBackCost
    BY Costs, CostsConstant DEF TimingInv
  <2>3. waited' \in Nat /\ waited' <= WriteBackCost + 3 + FillCost
    <3>1. CASE RawRst /\ Waits
      BY <1>4, <2>2, <3>1, Bounded DEF Counts
    <3>2. CASE ~(RawRst /\ Waits)
      BY <1>4, <2>2, <3>2 DEF Counts
    <3> QED
      BY <3>1, <3>2
  <2>4. WaitsBounded'
    BY <2>2, <2>3 DEF WaitsBounded
  <2> QED
    BY <1>1, <2>1, <2>3, <2>4 DEF TimingInv
<1>5. CASE UNCHANGED <<vars, waited>>
  <2>1. /\ UNCHANGED <<dTags, dTagQ, dRdIdxQ, dStaleQ, dSwept, dState, dPrimed>>
        /\ UNCHANGED <<iTags, iTagQ, iRdIdxQ, iConflictQ, iReplayQ, iSwept, iState>>
        /\ UNCHANGED <<bBusy, pBusy, pElapsed>>
        /\ UNCHANGED <<cState, cRiscv, cPc, cIns, cStoreWe, porCounter, gRstCnt, waited>>
    BY <1>5 DEF vars, dvars, dRams, dRegs, dFsm, ivars, iRams, iRegs, bvars, pvars, cvars
  <2>2. FetchPort' = FetchPort /\ DataPort' = DataPort /\ RawRst' = RawRst
    BY <2>1 DEF FetchPort, DataPort, FetchReq, DataReq, MemWrite, CpuSoftRst, RawRst
  <2>3. /\ DIdle' = DIdle /\ IIdle' = IIdle /\ IMemSel' = IMemSel
        /\ DLookup(DataPort)' = DLookup(DataPort) /\ DHit(DataPort)' = DHit(DataPort)
        /\ IHit(FetchPort)' = IHit(FetchPort) /\ DTagThere' = DTagThere
        /\ IHolds(cPc.blk)' = IHolds(cPc.blk) /\ ProbeDirty(cPc.blk)' = ProbeDirty(cPc.blk)
    BY <2>1, <2>2
    DEF DIdle, IIdle, IMemSel, DLookup, DHit, DMatch, DIdx, IHit, ILookup, IIdx, DTagThere, IHolds, ProbeDirty
  <2>4. RunningWaited => RunningWaited'
    BY <2>1, <2>2, <2>3, CostsConstant
    DEF RunningWaited, NoAccess, WbWaited, FillsWaited, FillWaited, DIdleWaited, IIdleWaited
  <2>5. WaitsBounded => WaitsBounded'
    BY <2>1, CostsConstant DEF WaitsBounded
  <2> QED
    BY <1>1, <2>1, <2>2, <2>4, <2>5 DEF TimingInv
<1> QED
  BY <1>2, <1>3, <1>4, <1>5 DEF TNext, Next, Counts

\* An access that completes has waited what the headers count.
LEMMA TimingCosts == ASSUME WindowInv, TimingInv PROVE CostsAsCounted
<1>1. /\ waited \in Nat /\ ControlInv /\ CpuInv
  BY DEF WindowInv, ControlInv, TimingInv
<1>2. FillCost \in Nat /\ WriteBackCost \in Nat
  BY Costs
<1>3. CASE ~RawRst
  <2>1. ~FetchPort.win /\ ~DataPort.win
    BY <1>1, <1>3, Ports DEF ControlInv, HeldInReset, DataReq
  <2> QED
    BY <1>3, <2>1 DEF TimingInv, CostsAsCounted
<1>4. CASE RawRst
  <2>1. WaitsBounded
    BY <1>4, Bounded
  <2>2. ASSUME FetchPort.win, InstrReady PROVE waited \in {0, FillCost, WriteBackCost + 3 + FillCost}
    <3>1. IHit(FetchPort) /\ IIdle /\ ~iReplayQ /\ ~IMemSel
      BY <2>2 DEF InstrReady, IInstrReady, IHit, ILookup, IIdle, IMemSel
    <3>2. DIdle
      <4>1. SUFFICES ASSUME ~DIdle PROVE FALSE
        OBVIOUS
      <4>2. DTransfers /\ ~DataPort.win
        BY <1>1, <2>2, <4>1, Exclusive DEF ControlInv, Transfer
      <4>3. dState = "WB" /\ dLineR = DLineOf[cPc.blk] /\ dTagR = DTagOf[cPc.blk]
        BY <4>2 DEF DTransfers, DFor
      <4>4. dTags[dLineR] = [valid |-> TRUE, dirty |-> TRUE, tag |-> dTagR] /\ dSwept
        BY <1>4, <4>3, SweptWhenRunning DEF WindowInv, TagInv, SweptBeforeStart
      <4>5. ProbeDirty(cPc.blk)
        BY <4>3, <4>4 DEF ProbeDirty
      <4> QED
        BY <1>4, <3>1, <4>5, NoHitOnDirty
    <3>3. waited = 0 \/ \E n \in IBases : waited = n + FillCost
      BY <1>4, <2>2, <3>1, <3>2 DEF TimingInv, RunningWaited, IIdleWaited
    <3> QED
      BY <1>2, <3>3 DEF IBases
  <2>3. ASSUME DataPort.win, DataReady PROVE waited \in {0, FillCost, WriteBackCost + 2 + FillCost}
    <3>1. DHit(DataPort) /\ DIdle /\ ~dStaleQ
      BY <2>3 DEF DataReady, DDataReady, DHit, DLookup
    <3>2. waited = 0 \/ \E n \in DBases : waited = n + FillCost
      BY <1>4, <2>3, <3>1 DEF TimingInv, RunningWaited, DIdleWaited
    <3> QED
      BY <1>2, <3>2 DEF DBases
  <2> QED
    BY <2>1, <2>2, <2>3 DEF CostsAsCounted
<1> QED
  BY <1>3, <1>4

\* The power-on state: nothing waits.
LEMMA TimingInit == ASSUME TInit PROVE WindowInv /\ TimingInv
<1>1. WindowInv /\ waited = 0
  BY WindowInit DEF TInit
<1>2. ~RawRst
  BY ResetAssumption, SizeAssumption DEF TInit, Init, RawRst
<1>3. FillCost \in Nat /\ WriteBackCost \in Nat
  BY Costs
<1> QED
  BY <1>1, <1>2, <1>3 DEF TimingInv, WaitsBounded

\* How long an access has waited is told by where its transfer stands, in every cycle of every
\* program.
THEOREM TimingInvariant == TSpec => [](WindowInv /\ TimingInv)
<1>1. TInit => WindowInv /\ TimingInv
  BY TimingInit
<1>2. WindowInv /\ TimingInv /\ [TNext]_<<vars, waited>> => (WindowInv /\ TimingInv)'
  BY TimingStep
<1> QED
  BY <1>1, <1>2, PTL DEF TSpec

\* The cycle costs of the caches' headers hold of every access: a hit waits for nothing, a miss
\* for one burst, a dirty victim or a dirty block for the write-back before it, and no access for
\* the controller's recovery, another transfer or for ever; for all latencies and sizes.
THEOREM CostsTheorem == TSpec => []CostsAsCounted
<1>1. WindowInv /\ TimingInv => CostsAsCounted
  BY TimingCosts
<1> QED
  BY <1>1, TimingInvariant, PTL
=============================================================================

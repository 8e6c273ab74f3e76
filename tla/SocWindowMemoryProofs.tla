----------------------- MODULE SocWindowMemoryProofs ------------------------
(***************************************************************************)
(* Proofs about what the wait-state window holds: the words of every line, *)
(* wherever they are, and that the window is the memory of WindowMemory.   *)
(***************************************************************************)
EXTENDS SocWindowProofs

\* A word of the window's memory, wherever it is.
MemAt(b, k) == IF Holds(b) THEN dWords[<<DLineOf[b], k>>].data ELSE pMem[b][k]

\* The window's memory, word by word.
LEMMA MemoryAt ==
  /\ \A b \in Blocks, k \in Offs : Memory[b][k] = MemAt(b, k)
  /\ Memory = [b \in Blocks |-> [k \in Offs |-> MemAt(b, k)]]
<1>1. Memory = [b \in Blocks |-> [k \in Offs |-> MemAt(b, k)]]
  BY DEF Memory, MemAt
<1> HIDE DEF MemAt, Memory
<1> QED
  BY <1>1

\* The types of the words.
LEMMA WordTypes ==
  ASSUME TypeOK, NEW b \in Blocks, NEW k \in Offs
  PROVE  /\ DLineOf[b] \in DLines /\ <<DLineOf[b], k>> \in DIndex
         /\ dWords[<<DLineOf[b], k>>] \in DWordEntry
         /\ dWords[<<DLineOf[b], k>>].data \in Word /\ dWords[<<DLineOf[b], k>>].mask \in SUBSET Lanes
         /\ pMem[b][k] \in Word /\ MemAt(b, k) \in Word
<1>1. DLineOf[b] \in DLines /\ <<DLineOf[b], k>> \in DIndex
  BY DcacheSplitAssumption DEF DIndex
<1>2. dWords[<<DLineOf[b], k>>] \in DWordEntry /\ pMem[b][k] \in Word
  BY <1>1 DEF TypeOK, DcacheTypeOK, PsramTypeOK
<1>3. dWords[<<DLineOf[b], k>>].data \in Word /\ dWords[<<DLineOf[b], k>>].mask \in SUBSET Lanes
  BY <1>2 DEF DWordEntry
<1> QED
  BY <1>1, <1>2, <1>3 DEF MemAt

\* Two words with the same bytes are one.
LEMMA SameBytes ==
  ASSUME NEW x \in Word, NEW y \in Word, \A i \in Lanes : x[i] = y[i] PROVE x = y
BY DEF Word

\* A clean line is the PSRAM's.
LEMMA CleanWord ==
  ASSUME TypeOK, StaleOnlyWhereStored, NEW b \in Blocks, NEW k \in Offs,
         Holds(b), ~dTags[DLineOf[b]].dirty
  PROVE  dWords[<<DLineOf[b], k>>].data = pMem[b][k]
<1>1. \A i \in Lanes : dWords[<<DLineOf[b], k>>].data[i] = pMem[b][k][i]
  BY DEF StaleOnlyWhereStored
<1> QED
  BY <1>1, WordTypes, SameBytes

\* A masked write-back makes the PSRAM's word the cache's.
LEMMA MaskedWord ==
  ASSUME TypeOK, StaleOnlyWhereStored, NEW b \in Blocks, NEW k \in Offs, Holds(b)
  PROVE  LET w == dWords[<<DLineOf[b], k>>]
         IN  MergeBytes(pMem[b][k], w.data, w.mask) = w.data
<1> DEFINE w == dWords[<<DLineOf[b], k>>]
<1>1. w.data \in Word /\ pMem[b][k] \in Word
  BY WordTypes
<1>2. \A i \in Lanes : w.data[i] # pMem[b][k][i] => i \in w.mask
  BY DEF StaleOnlyWhereStored
<1> HIDE DEF w
<1>3. MergeBytes(pMem[b][k], w.data, w.mask) \in Word
  BY <1>1, MergeType
<1>4. \A i \in Lanes : MergeBytes(pMem[b][k], w.data, w.mask)[i] = w.data[i]
  BY <1>2 DEF MergeBytes
<1>5. MergeBytes(pMem[b][k], w.data, w.mask) = w.data
  BY <1>1, <1>3, <1>4, SameBytes
<1> QED
  BY <1>5 DEF w

\* The line of a transfer is the block it is of.
LEMMA TransferBlock ==
  ASSUME TypeOK
  PROVE  /\ DMemBlk \in Blocks /\ DLineOf[DMemBlk] = dLineR /\ DTagOf[DMemBlk] = dTagR
         /\ \A b \in Blocks : DLineOf[b] = dLineR /\ DTagOf[b] = dTagR => b = DMemBlk
<1>1. dTagR \in DTags /\ dLineR \in DLines
  BY DEF TypeOK, DcacheTypeOK
<1>2. DMemBlk \in Blocks /\ DLineOf[DMemBlk] = dLineR /\ DTagOf[DMemBlk] = dTagR
  BY <1>1, DcacheSplitAssumption DEF DMemBlk, DBlock
<1> HIDE DEF DMemBlk
<1> QED
  BY <1>2, DcacheSplitAssumption

\* The block of a write-back is held, and dirty.
LEMMA WriteBackHolds ==
  ASSUME WindowInv, RawRst, dState = "WB"
  PROVE  Holds(DMemBlk) /\ dTags[dLineR].dirty
<1>1. /\ TypeOK /\ dSwept /\ dTags[dLineR] = [valid |-> TRUE, dirty |-> TRUE, tag |-> dTagR]
  BY SweptWhenRunning DEF WindowInv, TagInv, SweptBeforeStart
<1> QED
  BY <1>1, TransferBlock DEF Holds

\* In the power-on reset the caches hold nothing.
LEMMA NothingHeld == ASSUME WindowInv, ~RawRst, NEW b \in Blocks PROVE ~Holds(b)
BY DcacheSplitAssumption DEF WindowInv, SweptInv, Holds

-----------------------------------------------------------------------------
\* The PSRAM at a clock edge: only a write-back stores to it, the word the cache counts.
StoresWord ==
  /\ dPrimed /\ dWordQ = dWords[<<dLineR, dCnt>>]
  /\ pMem' = [pMem EXCEPT ![DMemBlk][dCnt] = MergeBytes(@, dWordQ.data, dWordQ.mask)]
  /\ pCursor' = dCnt + 1 /\ (IF bBusy THEN pCursor = dCnt ELSE dCnt = 0)

\* Outside a write-back the array keeps its words; so it does when one ends, all of them written.
LEMMA ArrayStep ==
  ASSUME WindowInv, Clock
  PROVE  /\ dState # "WB" => pMem' = pMem
         /\ dState = "WB" /\ DEnd => pMem' = pMem /\ bBusy /\ pCursor = LineWords
         /\ dState = "WB" /\ ~DEnd =>
              \/ StoresWord
              \/ pMem' = pMem /\ (bBusy' => bBusy /\ pCursor' = pCursor)
<1>1. /\ TypeOK /\ PsramTypeOK /\ BurstInv /\ SweepInv /\ Transfer /\ PsramClock(Request)
      /\ pInit = 0 /\ Request \in RequestType /\ dCnt \in Offs /\ porCounter # 0
      /\ dState \in {"IDLE", "WB", "FILL"}
  BY Running, WireTypes DEF WindowInv, ControlInv, TypeOK, DcacheTypeOK, Clock
<1>2. CASE IMemSel
  <2>1. ITransfers /\ ~DMemSel /\ DIdle
    BY <1>1, <1>2, ITransferHolds DEF Transfer
  <2>2. ~Request.we
    BY <2>1 DEF Request
  <2>3. pMem' = pMem
    <3>1. CASE Asking(iCnt)
      <4>1. Request.valid
        BY <1>1, <1>2, <3>1, BridgeStep, ITransferHolds DEF Asking
      <4> QED
        BY <1>1, <2>2, <3>1, <4>1, BurstStart DEF Asking
    <3>2. CASE Reading(iCnt, cPc.blk)
      <4>1. iCnt \in Offs
        BY <1>1 DEF TypeOK, IcacheTypeOK
      <4> QED
        BY <1>1, <3>2, <4>1, BurstRead
    <3> QED
      BY <2>1, <3>1, <3>2 DEF ITransfers
  <2> QED
    BY <2>1, <2>3 DEF DIdle
<1>3. CASE DIdle /\ ~IMemSel
  <2>1. Quiet /\ ~DMemSel
    BY <1>1, <1>3 DEF Transfer, DMemSel, DIdle
  <2>2. ~Request.valid
    BY <1>1, <1>3, <2>1, BridgeStep
  <2>3. CASE ~pBusy
    BY <1>1, <1>3, <2>2, <2>3, BurstNone DEF DIdle
  <2>4. CASE pBusy
    BY <1>1, <1>3, <2>1, <2>4, BurstRecover DEF Quiet, Recovering, DIdle
  <2> QED
    BY <1>1, <2>3, <2>4 DEF PsramTypeOK
<1>4. CASE ~DIdle
  <2>1. DTransfers /\ ~IMemSel /\ ~CpuSoftRst
    BY <1>1, <1>4, DTransferHolds DEF Transfer, IIdle, IMemSel
  <2>2. CASE Asking(dCnt) /\ (dState = "FILL" => ~dPrimed)
    <3>1. ~bBusy /\ ~pBusy /\ dCnt = 0 /\ ~DEnd
      BY <2>2 DEF Asking, DEnd, DAnswer
    <3>2. CASE ~DMemSel
      <4>1. ~Request.valid
        BY <1>1, <2>1, <3>2, BridgeStep
      <4>2. pMem' = pMem /\ ~bBusy'
        BY <1>1, <1>4, <2>2, <3>1, <3>2, <4>1, BurstNone, DAskStep
      <4> QED
        BY <3>1, <4>2
    <3>3. CASE DMemSel
      <4>1. Request.valid /\ (Request.we <=> dState = "WB") /\ Request.blk = DMemBlk
        BY <1>1, <2>1, <3>1, <3>3, BridgeStep DEF Request, DMemWe
      <4>2. Request.wdata = dWordQ.data /\ Request.wstrb = dWordQ.mask
        BY DEF Request
      <4>3. /\ pCursor' = (IF Request.we THEN 1 ELSE 0)
            /\ pMem' = IF Request.we
                       THEN [pMem EXCEPT ![Request.blk][0] = MergeBytes(@, Request.wdata, Request.wstrb)]
                       ELSE pMem
        BY <1>1, <3>1, <4>1, BurstStart
      <4>4. CASE dState = "WB"
        <5>1. dPrimed /\ dWordQ = dWords[<<dLineR, dCnt>>]
          BY <1>1, <3>3, <4>4 DEF DMemSel, WindowInv, ReadInv
        <5>2. pMem' = [pMem EXCEPT ![DMemBlk][dCnt] = MergeBytes(@, dWordQ.data, dWordQ.mask)]
          BY <3>1, <4>1, <4>2, <4>3, <4>4
        <5>3. pCursor' = dCnt + 1
          BY <3>1, <4>1, <4>3, <4>4
        <5> QED
          BY <3>1, <4>4, <5>1, <5>2, <5>3 DEF StoresWord
      <4>5. CASE dState # "WB"
        BY <4>1, <4>3, <4>5
      <4> QED
        BY <4>4, <4>5
    <3> QED
      BY <3>2, <3>3
  <2>3. CASE dState = "WB" /\ dPrimed /\ bBusyData /\ Writing
    <3>1. /\ pCursor' = pCursor + (IF pTakeWord THEN 1 ELSE 0)
          /\ pMem' = IF pTakeWord
                     THEN [pMem EXCEPT ![pBlk][pCursor] = MergeBytes(@, Request.wdata, Request.wstrb)]
                     ELSE pMem
      BY <1>1, <2>3, BurstWrite
    <3>2. Request.wdata = dWordQ.data /\ Request.wstrb = dWordQ.mask
      BY DEF Request
    <3>3. /\ pBlk = DMemBlk /\ bBusy /\ ~DEnd /\ dWordQ = dWords[<<dLineR, dCnt>>]
          /\ pCursor + (IF pTakeWord THEN 1 ELSE 0) = dCnt + 1
      BY <1>1, <2>3 DEF Writing, NoRsp, DEnd, DAnswer, WindowInv, ReadInv
    <3>4. dCnt \in Nat /\ pCursor \in Nat
      BY <1>1, SizeAssumption DEF Offs, PsramTypeOK
    <3>5. CASE pTakeWord
      <4>1. pCursor = dCnt
        BY <3>3, <3>4, <3>5
      <4> QED
        BY <2>3, <3>1, <3>2, <3>3, <3>5, <4>1 DEF StoresWord
    <3>6. CASE ~pTakeWord
      BY <2>3, <3>1, <3>3, <3>4, <3>6
    <3> QED
      BY <3>5, <3>6
  <2>4. CASE dState = "WB" /\ dPrimed /\ bBusyData /\ Written
    <3>1. DEnd /\ bBusy /\ pCursor = LineWords /\ ~pBusy
      BY <2>4, DWrittenStep DEF Written
    <3>2. ~Request.valid
      BY <1>1, <3>1, BridgeStep
    <3> QED
      BY <1>1, <2>4, <3>1, <3>2, BurstNone
  <2>5. CASE dState = "FILL" /\ ~dPrimed /\ bBusyData /\ Reading(dCnt, DMemBlk)
    BY <1>1, <2>5, BurstRead
  <2> QED
    BY <2>1, <2>2, <2>3, <2>4, <2>5 DEF DTransfers
<1> QED
  BY <1>2, <1>3, <1>4

\* The word an answer brings is the one its cache counts.
LEMMA RdataStep ==
  ASSUME WindowInv, Clock
  PROVE  /\ dState' = "FILL" /\ pRspValid' =>
              dState = "FILL" /\ ~DEnd /\ pRdata' = pMem[DMemBlk][dCnt'] /\ DMemBlk' = DMemBlk
         /\ IMemSel' /\ pRspValid' => IMemSel /\ pRdata' = pMem[cPc.blk][iCnt']
<1>1. /\ TypeOK /\ PsramTypeOK /\ BurstInv /\ SweepInv /\ Transfer /\ PsramClock(Request)
      /\ dCnt \in Offs /\ iCnt \in Offs /\ dState \in {"IDLE", "WB", "FILL"}
  BY DEF WindowInv, ControlInv, TypeOK, DcacheTypeOK, IcacheTypeOK, Clock
<1>2. TypeOK' /\ Transfer' /\ dCnt' \in Offs /\ iCnt' \in Offs /\ PsramTypeOK'
  BY WindowStep DEF Next, WindowInv, ControlInv, TypeOK, DcacheTypeOK, IcacheTypeOK
<1>3. ASSUME NEW cnt \in Offs, NEW blk, NEW c2 \in Offs, Reading(cnt, blk),
             pCursor' = c2 + (IF pRspValid' THEN 1 ELSE 0), pRspValid'
      PROVE  pRdata' = pMem[blk][c2]
  <2>1. ~pRspLast
    BY <1>1, <1>3, BurstRead
  <2>2. pCursor' = pCursor + 1 /\ pRdata' = pMem[pBlk][pCursor] /\ pBlk = blk
    BY <1>1, <1>3, <2>1, BurstRead DEF Reading
  <2>3. c2 = pCursor
    BY <1>1, <1>3, <2>2, SizeAssumption DEF Offs, PsramTypeOK
  <2> QED
    BY <2>2, <2>3
<1>4. ASSUME dState' = "FILL", pRspValid'
      PROVE  dState = "FILL" /\ ~DEnd /\ pRdata' = pMem[DMemBlk][dCnt'] /\ DMemBlk' = DMemBlk
  <2>1. Reading(dCnt, DMemBlk)'
    BY <1>2, <1>4 DEF Transfer, DTransfers, DIdle, Asking, NoRsp
  <2>2. CASE DIdle /\ ~IMemSel
    <3>1. ~bBusy'
      BY <1>1, <2>2, BridgeStep DEF Transfer, Quiet, NoRsp, DMemSel, DIdle
    <3> QED
      BY <2>1, <3>1 DEF Reading
  <2>3. CASE IMemSel
    BY <1>4, <2>3, IFillStep DEF DIdle
  <2>4. CASE ~DIdle /\ Asking(dCnt) /\ (dState = "FILL" => ~dPrimed)
    <3>1. CASE ~DMemSel
      BY <2>1, <2>4, <3>1, DAskStep DEF Reading
    <3>2. CASE DMemSel
      <4>1. Request.valid /\ PReqReady
        BY <1>1, <2>4, <3>2, BridgeStep, DTransferHolds, Running DEF Asking, PReqReady
      <4>2. ~pRspValid'
        BY <1>1, <2>4, <4>1, BurstStart, Running, WireTypes DEF Asking
      <4> QED
        BY <1>4, <4>2
    <3> QED
      BY <3>1, <3>2
  <2>5. CASE dState = "WB" /\ dPrimed /\ bBusyData /\ Writing
    BY <1>4, <2>5, DWriteStep
  <2>6. CASE dState = "WB" /\ dPrimed /\ bBusyData /\ Written
    BY <2>1, <2>6, DWrittenStep DEF Reading
  <2>7. CASE dState = "FILL" /\ ~dPrimed /\ bBusyData /\ Reading(dCnt, DMemBlk)
    <3>1. ~pRspLast /\ ~DEnd /\ UNCHANGED <<dLineR, dTagR>>
      BY <1>4, <2>7, DReadStep DEF DIdle
    <3>2. DMemBlk' = DMemBlk
      BY <3>1 DEF DMemBlk, DBlock
    <3>3. pCursor' = dCnt' + (IF pRspValid' THEN 1 ELSE 0)
      BY <2>1 DEF Reading
    <3> QED
      BY <1>1, <1>2, <1>3, <1>4, <2>7, <3>1, <3>2, <3>3
  <2> QED
    BY <1>1, <2>2, <2>3, <2>4, <2>5, <2>6, <2>7 DEF Transfer, DTransfers
<1>5. ASSUME IMemSel', pRspValid' PROVE IMemSel /\ pRdata' = pMem[cPc.blk][iCnt']
  <2>1. Reading(iCnt, cPc.blk)'
    BY <1>2, <1>5 DEF Transfer, ITransfers, Asking, NoRsp
  <2>2. CASE ~DIdle
    BY <1>5, <2>2, DTransferHolds DEF IIdle, IMemSel
  <2>3. CASE DIdle /\ ~IMemSel
    <3>1. ~bBusy'
      BY <1>1, <2>3, BridgeStep DEF Transfer, Quiet, NoRsp, DMemSel, DIdle
    <3> QED
      BY <2>1, <3>1 DEF Reading
  <2>4. CASE IMemSel /\ Asking(iCnt)
    <3>1. Request.valid
      BY <1>1, <2>4, BridgeStep, ITransferHolds DEF Asking
    <3>2. ~pRspValid'
      BY <1>1, <2>4, <3>1, BurstStart, Running, WireTypes DEF Asking
    <3> QED
      BY <1>5, <3>2
  <2>5. CASE IMemSel /\ Reading(iCnt, cPc.blk)
    <3>1. pCursor' = iCnt' + (IF pRspValid' THEN 1 ELSE 0)
      BY <2>1 DEF Reading
    <3> QED
      BY <1>1, <1>2, <1>3, <1>5, <2>5, <3>1
  <2> QED
    BY <1>1, <2>2, <2>3, <2>4, <2>5 DEF Transfer, ITransfers
<1> QED
  BY <1>4, <1>5

-----------------------------------------------------------------------------
\* What a hit finds: the line is held, and the word read is its word.
LEMMA HitFinds ==
  ASSUME WindowInv, RawRst, DHit(DataPort)
  PROVE  /\ cIns.blk \in Blocks /\ cIns.off \in Offs /\ Holds(cIns.blk) /\ DIdle
         /\ dWordQ = dWords[<<DLineOf[cIns.blk], cIns.off>>]
<1>1. porCounter # 0 /\ dSwept /\ cIns.blk \in Blocks /\ cIns.off \in Offs
  BY ResetAssumption, SizeAssumption, SweptWhenRunning
  DEF RawRst, WindowInv, SweptBeforeStart, TypeOK, CpuTypeOK
<1>2. /\ ~dStaleQ /\ dRdIdxQ = <<DLineOf[cIns.blk], cIns.off>> /\ DIdle
      /\ dTagQ.valid /\ dTagQ.tag = DTagOf[cIns.blk]
  BY Ports DEF DHit, DLookup, DMatch, DIdx
<1>3. dTagQ = dTags[DLineOf[cIns.blk]] /\ dWordQ = dWords[<<DLineOf[cIns.blk], cIns.off>>]
  BY <1>1, <1>2 DEF WindowInv, ReadInv
<1> QED
  BY <1>1, <1>2, <1>3 DEF Holds, DIdle

\* A store hit changes the word it is for, and marks the bytes it stores.
LEMMA StoreStep ==
  ASSUME WindowInv, StaleOnlyWhereStored, Clock, DHit(DataPort), DataPort.we
  PROVE  /\ \A b \in Blocks, k \in Offs :
              MemAt(b, k)' = IF b = cIns.blk /\ k = cIns.off
                             THEN MergeBytes(MemAt(b, k), cIns.data, cIns.strb)
                             ELSE MemAt(b, k)
         /\ StaleOnlyWhereStored'
<1> DEFINE l == DLineOf[cIns.blk]
           at == <<l, cIns.off>>
           entry == [mask |-> dWordQ.mask \cup cIns.strb,
                     data |-> MergeBytes(dWordQ.data, cIns.data, cIns.strb)]
<1>1. /\ TypeOK /\ SweepInv /\ RawRst /\ dSwept /\ dSwept' /\ TypeOK'
      /\ dTags \in [DLines -> DTagEntry] /\ dWords \in [DIndex -> DWordEntry]
  BY Running, WindowStep DEF WindowInv, TypeOK, DcacheTypeOK, Next
<1>2. /\ cIns.blk \in Blocks /\ cIns.off \in Offs /\ Holds(cIns.blk) /\ DIdle /\ dWordQ = dWords[at]
      /\ l \in DLines /\ at \in DIndex
  BY <1>1, HitFinds, WordTypes
<1>3. dTags' = [dTags EXCEPT ![l] = [valid |-> TRUE, dirty |-> TRUE, tag |-> DTagOf[cIns.blk]]]
  BY <1>1, DTagStep
<1>4. dWords' = [dWords EXCEPT ![at] = entry]
  BY <1>1, DWordStep
<1>5. pMem' = pMem /\ DIdle'
  <2>1. pMem' = pMem
    BY <1>2, ArrayStep DEF DIdle
  <2>2. ~DMiss(DataPort) /\ ~ProbeWb(DataPort, ProbePort)
    BY DEF DMiss, DHit, ProbeWb, DLookup
  <2> QED
    BY <1>1, <1>2, <2>1, <2>2, DStateStep DEF dFsm, DIdle
<1> HIDE DEF entry
<1>6. ASSUME NEW b \in Blocks PROVE Holds(b)' <=> Holds(b)
  <2>1. DLineOf[b] \in DLines
    BY DcacheSplitAssumption
  <2>2. CASE DLineOf[b] = l
    <3>1. dTags'[l].valid /\ dTags'[l].tag = DTagOf[cIns.blk]
      BY <1>1, <1>2, <1>3
    <3>2. dTags[l].valid /\ dTags[l].tag = DTagOf[cIns.blk]
      BY <1>2 DEF Holds
    <3> QED
      BY <1>1, <1>2, <1>5, <2>2, <3>1, <3>2 DEF Holds, DIdle
  <2>3. CASE DLineOf[b] # l
    <3>1. dTags'[DLineOf[b]] = dTags[DLineOf[b]]
      BY <1>1, <1>2, <1>3, <2>1, <2>3
    <3> QED
      BY <1>1, <1>2, <1>5, <3>1 DEF Holds, DIdle
  <2> QED
    BY <2>2, <2>3
<1>7. ASSUME NEW b \in Blocks, NEW k \in Offs, Holds(b)
      PROVE  /\ b = cIns.blk /\ k = cIns.off => dWords'[<<DLineOf[b], k>>] = entry
             /\ ~(b = cIns.blk /\ k = cIns.off) =>
                  dWords'[<<DLineOf[b], k>>] = dWords[<<DLineOf[b], k>>]
  <2>1. <<DLineOf[b], k>> \in DIndex
    BY <1>1, WordTypes
  <2>2. DLineOf[b] = l => b = cIns.blk
    BY <1>2, <1>7, DcacheSplitAssumption DEF Holds
  <2> QED
    BY <1>1, <1>2, <1>4, <2>1, <2>2
<1>8. entry.data = MergeBytes(dWords[at].data, cIns.data, cIns.strb) /\ entry.mask = dWords[at].mask \cup cIns.strb
  BY <1>2 DEF entry
<1>9. ASSUME NEW b \in Blocks, NEW k \in Offs
      PROVE  MemAt(b, k)' = IF b = cIns.blk /\ k = cIns.off
                            THEN MergeBytes(MemAt(b, k), cIns.data, cIns.strb)
                            ELSE MemAt(b, k)
  BY <1>2, <1>5, <1>6, <1>7, <1>8 DEF MemAt
<1>10. ASSUME NEW b \in Blocks, Holds(b)', NEW k \in Offs, NEW i \in Lanes,
              dWords'[<<DLineOf[b], k>>].data[i] # pMem'[b][k][i]
       PROVE  dTags'[DLineOf[b]].dirty /\ i \in dWords'[<<DLineOf[b], k>>].mask
  <2>1. Holds(b) /\ DLineOf[b] \in DLines
    BY <1>6, <1>10, DcacheSplitAssumption
  <2>2. dTags[DLineOf[b]].dirty => dTags'[DLineOf[b]].dirty
    BY <1>1, <1>2, <1>3, <2>1
  <2>3. CASE b = cIns.blk /\ k = cIns.off
    <3>1. dTags'[DLineOf[b]].dirty
      BY <1>1, <1>2, <1>3, <2>3
    <3>2. dWords'[<<DLineOf[b], k>>] = entry
      BY <1>7, <2>1, <2>3
    <3>3. CASE i \in cIns.strb
      BY <1>8, <3>1, <3>2, <3>3
    <3>4. CASE i \notin cIns.strb
      <4>1. entry.data[i] = dWords[at].data[i]
        BY <1>8, <3>4 DEF MergeBytes
      <4>2. i \in dWords[at].mask
        BY <1>2, <1>5, <1>10, <2>1, <2>3, <3>2, <4>1 DEF StaleOnlyWhereStored
      <4> QED
        BY <1>8, <3>1, <3>2, <4>2
    <3> QED
      BY <3>3, <3>4
  <2>4. CASE ~(b = cIns.blk /\ k = cIns.off)
    <3>1. dWords'[<<DLineOf[b], k>>] = dWords[<<DLineOf[b], k>>]
      BY <1>7, <2>1, <2>4
    <3>2. dTags[DLineOf[b]].dirty /\ i \in dWords[<<DLineOf[b], k>>].mask
      BY <1>5, <1>10, <2>1, <3>1 DEF StaleOnlyWhereStored
    <3> QED
      BY <2>2, <3>1, <3>2
  <2> QED
    BY <2>3, <2>4
<1> QED
  BY <1>9, <1>10 DEF StaleOnlyWhereStored

\* Nothing moves: the memory is what it was.
LEMMA SameData ==
  ASSUME StaleOnlyWhereStored, dTags' = dTags, dWords' = dWords, pMem' = pMem,
         \A b \in Blocks : Holds(b)' <=> Holds(b)
  PROVE  (\A b \in Blocks, k \in Offs : MemAt(b, k)' = MemAt(b, k)) /\ StaleOnlyWhereStored'
<1>1. \A b \in Blocks, k \in Offs : MemAt(b, k)' = MemAt(b, k)
  BY DEF MemAt
<1>2. StaleOnlyWhereStored'
  BY DEF StaleOnlyWhereStored
<1> QED
  BY <1>1, <1>2

\* A miss drops its line only when it is clean.
LEMMA IdleKeeps ==
  ASSUME WindowInv, StaleOnlyWhereStored, Clock, DIdle, ~(DHit(DataPort) /\ DataPort.we)
  PROVE  (\A b \in Blocks, k \in Offs : MemAt(b, k)' = MemAt(b, k)) /\ StaleOnlyWhereStored'
<1>1. /\ TypeOK /\ SweepInv /\ RawRst /\ dSwept /\ dSwept' /\ porCounter # 0
      /\ cIns.blk \in Blocks
  BY Running DEF WindowInv, TypeOK, CpuTypeOK
<1>2. ~DEnd /\ ~DAnswer /\ dState # "FILL" /\ dState # "WB"
  BY DEF DEnd, DAnswer, DMemSel, DIdle
<1>3. dTags' = dTags /\ dWords' = dWords /\ pMem' = pMem
  BY <1>1, <1>2, DTagStep, DWordStep, ArrayStep
<1>4. CASE dState' # "FILL"
  BY <1>1, <1>2, <1>3, <1>4, SameData DEF Holds
<1>5. CASE dState' = "FILL"
  <2>1. DMiss(DataPort) /\ ~VictimDirty /\ dLineR' = DLineOf[cIns.blk]
    BY <1>1, <1>2, <1>5, DStateStep DEF dFsm
  <2>2. dTagQ = dTags[DLineOf[cIns.blk]]
    <3>1. ~dStaleQ /\ dRdIdxQ = <<DLineOf[cIns.blk], cIns.off>>
      BY <2>1, Ports DEF DMiss, DLookup, DIdx
    <3> QED
      BY <1>1, <3>1 DEF WindowInv, ReadInv
  <2>3. \A b \in Blocks : Holds(b)' <=> Holds(b) /\ DLineOf[b] # dLineR'
    BY <1>1, <1>2, <1>3, <1>5 DEF Holds
  <2>4. ASSUME NEW b \in Blocks, NEW k \in Offs PROVE MemAt(b, k)' = MemAt(b, k)
    <3>1. CASE Holds(b) /\ DLineOf[b] = dLineR'
      <4>1. ~dTags[DLineOf[b]].dirty
        BY <2>1, <2>2, <3>1 DEF VictimDirty, Holds
      <4>2. dWords[<<DLineOf[b], k>>].data = pMem[b][k]
        BY <1>1, <3>1, <4>1, CleanWord
      <4> QED
        BY <1>3, <2>3, <3>1, <4>2 DEF MemAt
    <3>2. CASE ~(Holds(b) /\ DLineOf[b] = dLineR')
      BY <1>3, <2>3, <3>2 DEF MemAt
    <3> QED
      BY <3>1, <3>2
  <2>5. StaleOnlyWhereStored'
    BY <1>3, <2>3 DEF StaleOnlyWhereStored
  <2> QED
    BY <2>4, <2>5
<1> QED
  BY <1>4, <1>5

\* A write-back writes what the memory holds there already, and ends with the line clean.
LEMMA WriteBackKeeps ==
  ASSUME WindowInv, StaleOnlyWhereStored, MovedInv, Clock, dState = "WB"
  PROVE  (\A b \in Blocks, k \in Offs : MemAt(b, k)' = MemAt(b, k)) /\ StaleOnlyWhereStored'
<1>1. /\ TypeOK /\ SweepInv /\ RawRst /\ dSwept /\ dSwept' /\ dCnt \in Offs
      /\ dTags \in [DLines -> DTagEntry] /\ pMem \in [Blocks -> [Offs -> Word]]
      /\ dLineR \in DLines
  BY Running DEF WindowInv, TypeOK, DcacheTypeOK, PsramTypeOK
<1>2. /\ Holds(DMemBlk) /\ dTags[dLineR].dirty /\ DMemBlk \in Blocks
      /\ DLineOf[DMemBlk] = dLineR /\ DTagOf[DMemBlk] = dTagR
  BY <1>1, WriteBackHolds, TransferBlock
<1>3. ~DHit(DataPort)
  BY DEF DHit, DLookup, DIdle
<1>4. dWords' = dWords
  BY <1>1, <1>3, DWordStep
<1>5. CASE ~DEnd
  <2>1. dTags' = dTags /\ dState' = "WB"
    BY <1>1, <1>3, <1>5, DTagStep, DStateStep
  <2>2. \A b \in Blocks : Holds(b)' <=> Holds(b)
    BY <1>1, <2>1 DEF Holds
  <2>3. CASE pMem' = pMem
    BY <1>4, <2>1, <2>2, <2>3, SameData
  <2>4. CASE StoresWord
    <3> DEFINE w == dWords[<<DLineOf[DMemBlk], dCnt>>]
    <3>1. MergeBytes(pMem[DMemBlk][dCnt], w.data, w.mask) = w.data
      BY <1>1, <1>2, MaskedWord
    <3>2. pMem' = [pMem EXCEPT ![DMemBlk][dCnt] = w.data]
      BY <1>2, <2>4, <3>1 DEF StoresWord
    <3> HIDE DEF w
    <3>3. \A b \in Blocks, k \in Offs :
            pMem'[b][k] = IF b = DMemBlk /\ k = dCnt THEN w.data ELSE pMem[b][k]
      BY <1>1, <1>2, <3>2
    <3>4. \A b \in Blocks, k \in Offs : MemAt(b, k)' = MemAt(b, k)
      BY <1>2, <1>4, <2>2, <3>3 DEF MemAt
    <3>5. ASSUME NEW b \in Blocks, Holds(b)', NEW k \in Offs, NEW i \in Lanes,
                 dWords'[<<DLineOf[b], k>>].data[i] # pMem'[b][k][i]
          PROVE  dTags'[DLineOf[b]].dirty /\ i \in dWords'[<<DLineOf[b], k>>].mask
      <4>1. Holds(b) /\ ~(b = DMemBlk /\ k = dCnt)
        BY <1>4, <2>2, <3>3, <3>5 DEF w
      <4> QED
        BY <1>4, <2>1, <3>3, <3>5, <4>1 DEF StaleOnlyWhereStored
    <3> QED
      BY <3>4, <3>5 DEF StaleOnlyWhereStored
  <2> QED
    BY <1>5, <2>3, <2>4, ArrayStep
<1>6. CASE DEnd
  <2>1. pMem' = pMem /\ bBusy /\ pCursor = LineWords
    BY <1>6, ArrayStep
  <2>2. \A k \in Offs : pMem[DMemBlk][k] = dWords[<<dLineR, k>>].data
    BY <1>1, <2>1, SizeAssumption DEF MovedInv, Offs
  <2>3. CASE dIsProbe
    <3>1. dTags' = [dTags EXCEPT ![dLineR] = [valid |-> TRUE, dirty |-> FALSE, tag |-> dTagR]]
      BY <1>1, <1>6, <2>3, DTagStep
    <3>2. dState' = "IDLE"
      BY <1>1, <1>6, <2>3, DStateStep
    <3>3. ASSUME NEW b \in Blocks
          PROVE  /\ Holds(b)' <=> Holds(b)
                 /\ DLineOf[b] = dLineR /\ Holds(b) => b = DMemBlk
                 /\ DLineOf[b] # dLineR => dTags'[DLineOf[b]] = dTags[DLineOf[b]]
      <4>1. DLineOf[b] \in DLines
        BY DcacheSplitAssumption
      <4>2. dTags[dLineR].valid /\ dTags[dLineR].tag = dTagR
        BY <1>2 DEF Holds
      <4>3. dTags'[dLineR].valid /\ dTags'[dLineR].tag = dTagR
        BY <1>1, <3>1
      <4>4. DLineOf[b] # dLineR => dTags'[DLineOf[b]] = dTags[DLineOf[b]]
        BY <1>1, <3>1, <4>1
      <4>5. Holds(b)' <=> Holds(b)
        BY <1>1, <3>2, <4>2, <4>3, <4>4 DEF Holds
      <4>6. DLineOf[b] = dLineR /\ Holds(b) => b = DMemBlk
        BY <1>1, <4>2, TransferBlock DEF Holds
      <4> QED
        BY <4>4, <4>5, <4>6
    <3>4. \A b \in Blocks, k \in Offs : MemAt(b, k)' = MemAt(b, k)
      BY <1>4, <2>1, <3>3 DEF MemAt
    <3>5. StaleOnlyWhereStored'
      BY <1>4, <2>1, <2>2, <3>3 DEF StaleOnlyWhereStored
    <3> QED
      BY <3>4, <3>5
  <2>4. CASE ~dIsProbe
    <3>1. dTags' = dTags /\ dState' = "FILL" /\ dLineR' = dLineR
      BY <1>1, <1>3, <1>6, <2>4, DTagStep, DStateStep
    <3>2. ASSUME NEW b \in Blocks
          PROVE  /\ Holds(b)' <=> Holds(b) /\ DLineOf[b] # dLineR
                 /\ DLineOf[b] = dLineR /\ Holds(b) => b = DMemBlk
      <4>1. dTags[dLineR].valid /\ dTags[dLineR].tag = dTagR
        BY <1>2 DEF Holds
      <4> QED
        BY <1>1, <3>1, <4>1, TransferBlock DEF Holds
    <3>3. \A b \in Blocks, k \in Offs : MemAt(b, k)' = MemAt(b, k)
      BY <1>4, <2>1, <2>2, <3>2 DEF MemAt
    <3>4. StaleOnlyWhereStored'
      BY <1>4, <2>1, <3>1, <3>2 DEF StaleOnlyWhereStored
    <3> QED
      BY <3>3, <3>4
  <2> QED
    BY <2>3, <2>4
<1> QED
  BY <1>5, <1>6

\* A fill reads the line as the memory holds it.
LEMMA FillKeeps ==
  ASSUME WindowInv, StaleOnlyWhereStored, MovedInv, Clock, dState = "FILL"
  PROVE  /\ (\A b \in Blocks, k \in Offs : MemAt(b, k)' = MemAt(b, k)) /\ StaleOnlyWhereStored'
         /\ \A k \in Offs : k < dCnt \/ (DAnswer /\ k = dCnt) =>
              dWords'[<<dLineR, k>>].data = pMem[DMemBlk][k]
<1>1. /\ TypeOK /\ SweepInv /\ RawRst /\ dSwept /\ dSwept' /\ dCnt \in Offs
      /\ dTags \in [DLines -> DTagEntry] /\ dWords \in [DIndex -> DWordEntry]
      /\ dLineR \in DLines
  BY Running DEF WindowInv, TypeOK, DcacheTypeOK
<1>2. DMemBlk \in Blocks /\ DLineOf[DMemBlk] = dLineR /\ DTagOf[DMemBlk] = dTagR
  BY <1>1, TransferBlock
<1>3. ~DHit(DataPort) /\ dLineR' = dLineR /\ dState' = IF DEnd THEN "IDLE" ELSE "FILL"
  BY <1>1, DStateStep DEF DHit, DLookup, DIdle
<1>4. pMem' = pMem
  BY ArrayStep
<1>5. ASSUME NEW k \in Offs
      PROVE  dWords'[<<dLineR, k>>].data =
               IF DAnswer /\ k = dCnt THEN pMem[DMemBlk][dCnt] ELSE dWords[<<dLineR, k>>].data
  <2>1. <<dLineR, k>> \in DIndex /\ <<dLineR, dCnt>> \in DIndex
    BY <1>1 DEF DIndex
  <2>2. CASE DAnswer
    <3>1. dWords' = [dWords EXCEPT ![<<dLineR, dCnt>>] = [mask |-> {}, data |-> pRdata]]
      BY <1>1, <2>2, DWordStep
    <3>2. pRdata = pMem[DMemBlk][dCnt]
      BY <1>1, <2>2 DEF MovedInv, DAnswer
    <3> QED
      BY <1>1, <2>1, <2>2, <3>1, <3>2
  <2>3. CASE ~DAnswer
    BY <1>1, <1>3, <2>3, DWordStep
  <2> QED
    BY <2>2, <2>3
<1>6. ASSUME NEW b \in Blocks, NEW k \in Offs, DLineOf[b] # dLineR
      PROVE  dWords'[<<DLineOf[b], k>>] = dWords[<<DLineOf[b], k>>]
  <2>1. <<DLineOf[b], k>> \in DIndex
    BY <1>1, WordTypes
  <2> QED
    BY <1>1, <1>3, <1>6, <2>1, DWordStep
<1>7. \A k \in Offs : k < dCnt \/ (DAnswer /\ k = dCnt) =>
        dWords'[<<dLineR, k>>].data = pMem[DMemBlk][k]
  BY <1>1, <1>5 DEF MovedInv
<1>8. CASE ~DEnd
  <2>1. dTags' = dTags /\ dState' = "FILL"
    BY <1>1, <1>3, <1>8, DTagStep
  <2>2. \A b \in Blocks : (Holds(b)' <=> Holds(b)) /\ (Holds(b) => DLineOf[b] # dLineR)
    BY <1>1, <1>3, <2>1 DEF Holds
  <2>3. \A b \in Blocks, k \in Offs : MemAt(b, k)' = MemAt(b, k)
    BY <1>4, <1>6, <2>2 DEF MemAt
  <2>4. StaleOnlyWhereStored'
    BY <1>4, <1>6, <2>1, <2>2 DEF StaleOnlyWhereStored
  <2> QED
    BY <1>7, <2>3, <2>4
<1>9. CASE DEnd
  <2>1. dTags' = [dTags EXCEPT ![dLineR] = [valid |-> TRUE, dirty |-> FALSE, tag |-> dTagR]]
    BY <1>1, <1>9, DTagStep
  <2>2. \A k \in Offs : dWords'[<<dLineR, k>>].data = pMem[DMemBlk][k]
    <3>1. \A k \in Offs : k < dCnt \/ k = dCnt
      BY <1>9, SizeAssumption DEF DEnd, Offs
    <3> QED
      BY <1>7, <1>9, <3>1 DEF DEnd
  <2>3. ASSUME NEW b \in Blocks
        PROVE  /\ DLineOf[b] # dLineR => (Holds(b)' <=> Holds(b)) /\ dTags'[DLineOf[b]] = dTags[DLineOf[b]]
               /\ DLineOf[b] = dLineR => ~Holds(b) /\ (Holds(b)' => b = DMemBlk)
    <3>1. DLineOf[b] \in DLines
      BY DcacheSplitAssumption
    <3>2. dTags'[dLineR].tag = dTagR
      BY <1>1, <2>1
    <3>3. DLineOf[b] # dLineR => dTags'[DLineOf[b]] = dTags[DLineOf[b]]
      BY <1>1, <2>1, <3>1
    <3>4. DLineOf[b] = dLineR => ~Holds(b) /\ (Holds(b)' => b = DMemBlk)
      BY <1>1, <3>2, TransferBlock DEF Holds
    <3> QED
      BY <1>1, <1>3, <1>9, <3>3, <3>4 DEF Holds
  <2>4. \A b \in Blocks, k \in Offs : MemAt(b, k)' = MemAt(b, k)
    BY <1>2, <1>4, <1>6, <2>2, <2>3 DEF MemAt
  <2>5. StaleOnlyWhereStored'
    BY <1>4, <1>6, <2>2, <2>3 DEF StaleOnlyWhereStored
  <2> QED
    BY <1>7, <2>4, <2>5
<1> QED
  BY <1>8, <1>9

-----------------------------------------------------------------------------
\* A clock edge changes the word that a store hit stores to, and no other.
LEMMA MemoryStep ==
  ASSUME WindowInv, StaleOnlyWhereStored, MovedInv, Clock
  PROVE  /\ \A b \in Blocks, k \in Offs :
              MemAt(b, k)' = IF DHit(DataPort) /\ DataPort.we /\ b = cIns.blk /\ k = cIns.off
                             THEN MergeBytes(MemAt(b, k), cIns.data, cIns.strb)
                             ELSE MemAt(b, k)
         /\ StaleOnlyWhereStored'
<1>1. CASE DHit(DataPort) /\ DataPort.we
  BY <1>1, StoreStep
<1>2. CASE DIdle /\ ~(DHit(DataPort) /\ DataPort.we)
  BY <1>2, IdleKeeps
<1>3. CASE dState = "WB"
  <2>1. ~DHit(DataPort)
    BY <1>3 DEF DHit, DLookup, DIdle
  <2> QED
    BY <1>3, <2>1, WriteBackKeeps
<1>4. CASE dState = "FILL"
  <2>1. ~DHit(DataPort)
    BY <1>4 DEF DHit, DLookup, DIdle
  <2> QED
    BY <1>4, <2>1, FillKeeps
<1>5. dState \in {"IDLE", "WB", "FILL"}
  BY DEF WindowInv, TypeOK, DcacheTypeOK
<1> QED
  BY <1>1, <1>2, <1>3, <1>4, <1>5 DEF DIdle

\* A transfer that has just started has moved nothing.
LEMMA NewTransfer ==
  ASSUME WindowInv, Clock
  PROVE  /\ dState = "IDLE" /\ dState' # "IDLE" => ~bBusy'
         /\ dState # "FILL" /\ dState' = "FILL" => dCnt' = 0
         /\ ~IMemSel /\ IMemSel' => iCnt' = 0
<1>1. /\ TypeOK /\ SweepInv /\ Transfer /\ dState \in {"IDLE", "WB", "FILL"}
  BY DEF WindowInv, ControlInv, TypeOK, DcacheTypeOK
<1>2. Transfer'
  BY ControlClock DEF ControlInv
<1>3. ASSUME dState = "IDLE", dState' # "IDLE" PROVE ~bBusy'
  <2>1. ~IMemSel
    BY <1>3, IFillStep DEF DIdle
  <2> QED
    BY <1>1, <1>3, <2>1, BridgeStep DEF Transfer, Quiet, NoRsp, DMemSel, DIdle
<1>4. ASSUME dState # "FILL", dState' = "FILL" PROVE dCnt' = 0
  <2>1. CASE dState = "WB"
    <3>1. DEnd
      BY <1>1, <1>4, <2>1, DStateStep
    <3>2. dPrimed /\ bBusyData /\ Written
      BY <1>1, <2>1, <3>1 DEF Transfer, DTransfers, DIdle, Asking, Writing, NoRsp, DEnd, DAnswer
    <3>3. ~bBusy'
      BY <2>1, <3>2, DWrittenStep
    <3> QED
      BY <1>2, <1>4, <3>3 DEF Transfer, DTransfers, DIdle, Asking, Reading
  <2>2. CASE dState = "IDLE"
    <3>1. ~bBusy'
      BY <1>3, <1>4, <2>2
    <3> QED
      BY <1>2, <1>4, <3>1 DEF Transfer, DTransfers, DIdle, Asking, Reading
  <2> QED
    BY <1>1, <1>4, <2>1, <2>2
<1>5. ASSUME ~IMemSel PROVE iCnt' = 0
  <2>1. iCnt = 0 /\ ~IAnswer
    BY <1>1, <1>5 DEF Transfer, DTransfers, Quiet, IAnswer
  <2> QED
    BY <2>1, CounterStep
<1> QED
  BY <1>3, <1>4, <1>5

\* The words that a transfer has moved stay where it put them.
LEMMA MovedClock ==
  ASSUME WindowInv, StaleOnlyWhereStored, MovedInv, Clock PROVE MovedInv'
<1>1. /\ TypeOK /\ SweepInv /\ BurstInv /\ RawRst /\ dState \in {"IDLE", "WB", "FILL"}
      /\ dCnt \in Offs /\ iCnt \in Offs /\ dLineR \in DLines /\ cPc.blk \in Blocks
      /\ pMem \in [Blocks -> [Offs -> Word]] /\ iWords \in [IIndex -> Word]
      /\ pCursor \in Nat /\ Transfer
  <2>1. cPc.blk \in Blocks
    BY WireTypes, Ports DEF WindowInv, FetchPortType
  <2> QED
    BY <2>1, Running DEF WindowInv, ControlInv, TypeOK, DcacheTypeOK, IcacheTypeOK, PsramTypeOK
<1>2. dState' \in {"IDLE", "WB", "FILL"} /\ dCnt' \in Offs /\ iCnt' \in Offs /\ pCursor' \in Nat
  BY WindowStep DEF Next, WindowInv, TypeOK, DcacheTypeOK, IcacheTypeOK, PsramTypeOK
<1>3. ASSUME dState' = "WB", bBusy', NEW k \in Offs, k < pCursor'
      PROVE  pMem'[DMemBlk'][k] = dWords'[<<dLineR', k>>].data
  <2>1. dState = "WB" /\ ~DEnd
    BY <1>1, <1>3, NewTransfer, DStateStep
  <2>2. DMemBlk' = DMemBlk /\ dLineR' = dLineR
    BY <1>1, <2>1, DStateStep DEF DMemBlk, DBlock
  <2>3. dWords' = dWords
    <3>1. ~DHit(DataPort)
      BY <2>1 DEF DHit, DLookup, DIdle
    <3> QED
      BY <1>1, <2>1, <3>1, DWordStep
  <2>4. CASE pMem' = pMem /\ bBusy /\ pCursor' = pCursor
    BY <1>1, <1>3, <2>1, <2>2, <2>3, <2>4 DEF MovedInv
  <2>5. CASE StoresWord
    <3> DEFINE w == dWords[<<dLineR, dCnt>>]
    <3>1. Holds(DMemBlk) /\ DMemBlk \in Blocks /\ DLineOf[DMemBlk] = dLineR
      BY <1>1, <2>1, WriteBackHolds, TransferBlock
    <3>2. MergeBytes(pMem[DMemBlk][dCnt], w.data, w.mask) = w.data
      BY <1>1, <3>1, MaskedWord
    <3>3. pMem' = [pMem EXCEPT ![DMemBlk][dCnt] = w.data]
      BY <2>5, <3>2 DEF StoresWord
    <3> HIDE DEF w
    <3>4. CASE k = dCnt
      BY <1>1, <2>2, <2>3, <3>1, <3>3, <3>4 DEF w
    <3>5. CASE k # dCnt
      <4>1. pMem'[DMemBlk][k] = pMem[DMemBlk][k]
        BY <1>1, <3>1, <3>3, <3>5
      <4>2. bBusy /\ k < pCursor
        BY <1>1, <1>3, <2>5, <3>5, SizeAssumption DEF StoresWord, Offs
      <4>3. pMem[DMemBlk][k] = dWords[<<dLineR, k>>].data
        BY <1>1, <2>1, <4>2 DEF MovedInv
      <4> QED
        BY <2>2, <2>3, <4>1, <4>3
    <3> QED
      BY <3>4, <3>5
  <2> QED
    BY <1>3, <2>1, <2>4, <2>5, ArrayStep
<1>4. ASSUME dState' = "FILL", NEW k \in Offs, k < dCnt'
      PROVE  dWords'[<<dLineR', k>>].data = pMem'[DMemBlk'][k]
  <2>1. dState = "FILL" /\ ~DEnd
    BY <1>1, <1>2, <1>4, NewTransfer, DStateStep, SizeAssumption DEF Offs
  <2>2. DMemBlk' = DMemBlk /\ dLineR' = dLineR
    BY <1>1, <2>1, DStateStep DEF DMemBlk, DBlock
  <2>3. pMem' = pMem
    BY <2>1, ArrayStep
  <2>4. ~pWdataNext
    BY <1>1, <2>1 DEF Transfer, DTransfers, DIdle, Asking, Reading, BurstInv
  <2>5. k < dCnt \/ (DAnswer /\ k = dCnt)
    <3>1. CASE DAnswer
      <4>1. dCnt # LineWords - 1
        BY <2>1, <3>1 DEF DEnd
      <4>2. dCnt' = dCnt + 1
        BY <1>1, <3>1, <4>1, CounterStep, CountUp
      <4> QED
        BY <1>1, <1>4, <3>1, <4>2, SizeAssumption DEF Offs
    <3>2. CASE ~DAnswer
      BY <1>4, <2>4, <3>2, CounterStep
    <3> QED
      BY <3>1, <3>2
  <2> QED
    BY <2>1, <2>2, <2>3, <2>5, FillKeeps
<1>5. ASSUME IMemSel', NEW k \in Offs, k < iCnt'
      PROVE  iWords'[<<ILineOf[cPc'.blk], k>>] = pMem'[cPc'.blk][k]
  <2>1. IMemSel
    BY <1>2, <1>5, NewTransfer, SizeAssumption DEF Offs
  <2>2. ~IEnd
    BY <1>1, <1>5, <2>1, IStateStep DEF IIdle, IMemSel
  <2>3. cPc' = cPc /\ DIdle
    BY <2>1, ITransferHolds DEF cvars
  <2>4. pMem' = pMem
    BY <2>3, ArrayStep DEF DIdle
  <2>5. <<ILineOf[cPc.blk], k>> \in IIndex /\ <<ILineOf[cPc.blk], iCnt>> \in IIndex
    BY <1>1, IcacheSplitAssumption DEF IIndex
  <2>6. CASE IAnswer
    <3>1. iCnt' = iCnt + 1
      BY <1>1, <2>2, <2>6, CounterStep, CountUp DEF IEnd
    <3>2. pRdata = pMem[cPc.blk][iCnt]
      BY <1>1, <2>1, <2>6 DEF MovedInv, IAnswer
    <3>3. iWords' = [iWords EXCEPT ![<<ILineOf[cPc.blk], iCnt>>] = pRdata]
      BY <2>6, IWordStep
    <3>4. k < iCnt \/ k = iCnt
      BY <1>1, <1>5, <3>1, SizeAssumption DEF Offs
    <3>5. k < iCnt => iWords[<<ILineOf[cPc.blk], k>>] = pMem[cPc.blk][k]
      BY <1>1, <2>1 DEF MovedInv
    <3> QED
      BY <1>1, <2>3, <2>4, <2>5, <3>2, <3>3, <3>4, <3>5
  <2>7. CASE ~IAnswer
    <3>1. iWords' = iWords /\ iCnt' = iCnt
      BY <2>7, IWordStep, CounterStep
    <3> QED
      BY <1>1, <1>5, <2>1, <2>3, <2>4, <3>1 DEF MovedInv
  <2> QED
    BY <2>6, <2>7
<1>6. ASSUME dState' = "FILL", pRspValid' PROVE pRdata' = pMem'[DMemBlk'][dCnt']
  BY <1>6, RdataStep, ArrayStep
<1>7. ASSUME IMemSel', pRspValid' PROVE pRdata' = pMem'[cPc'.blk][iCnt']
  <2>1. IMemSel /\ pRdata' = pMem[cPc.blk][iCnt']
    BY <1>7, RdataStep
  <2>2. cPc' = cPc /\ pMem' = pMem
    BY <2>1, ITransferHolds, ArrayStep DEF cvars, DIdle
  <2> QED
    BY <2>1, <2>2
<1> QED
  BY <1>3, <1>4, <1>5, <1>6, <1>7 DEF MovedInv

\* The instruction cache's copies stay the memory's: a fill that ends has read the block as the
\* memory holds it, and a store drops the copy of its block.
LEMMA CodeClock == ASSUME WindowInv, DataInv, Clock PROVE CodeInv'
<1>1. /\ TypeOK /\ SweepInv /\ RawRst /\ dSwept /\ CpuInv /\ StaleOnlyWhereStored
      /\ MovedInv /\ CodeInv /\ iCnt \in Offs /\ cPc.blk \in Blocks /\ iWords \in [IIndex -> Word]
  <2>1. cPc.blk \in Blocks
    BY WireTypes, Ports DEF WindowInv, FetchPortType
  <2> QED
    BY <2>1, Running DEF WindowInv, ControlInv, TypeOK, IcacheTypeOK, DataInv
<1>2. \A b \in Blocks, k \in Offs : Memory'[b][k] = MemAt(b, k)'
  BY DEF Memory, MemAt
<1>3. SUFFICES ASSUME NEW b \in Blocks, IHolds(b)', ~(IMemSel' /\ ILineOf[cPc'.blk] = ILineOf[b]),
                      NEW k \in Offs
               PROVE  iWords'[<<ILineOf[b], k>>] = MemAt(b, k)'
  BY <1>2 DEF CodeInv
<1>4. <<ILineOf[b], k>> \in IIndex /\ <<ILineOf[cPc.blk], iCnt>> \in IIndex
  BY <1>1, IcacheSplitAssumption DEF IIndex
<1>5. IMemSel => ~DHit(DataPort) /\ cPc' = cPc
  BY ITransferHolds DEF DHit, DLookup, cvars
<1>6. CASE IEnd /\ b = cPc.blk
  <2>1. IMemSel /\ IAnswer /\ iCnt = LineWords - 1
    BY <1>6 DEF IEnd, IAnswer
  <2>2. iWords' = [iWords EXCEPT ![<<ILineOf[cPc.blk], iCnt>>] = pRdata]
    BY <2>1, IWordStep
  <2>3. pRdata = pMem[b][iCnt] /\ (k < iCnt => iWords[<<ILineOf[b], k>>] = pMem[b][k])
    BY <1>1, <1>6, <2>1 DEF MovedInv, IAnswer
  <2>4. k < iCnt \/ k = iCnt
    BY <2>1, SizeAssumption DEF Offs
  <2>5. iWords'[<<ILineOf[b], k>>] = pMem[b][k]
    BY <1>1, <1>4, <1>6, <2>2, <2>3, <2>4
  <2>6. MemAt(b, k)' = MemAt(b, k)
    BY <1>1, <1>5, <2>1, MemoryStep
  <2>7. ~ProbeDirty(b)
    BY <1>1, <1>6, <2>1 DEF WindowInv, TagInv
  <2>8. Holds(b) => dWords[<<DLineOf[b], k>>].data = pMem[b][k]
    BY <1>1, <2>7, CleanWord DEF Holds, ProbeDirty
  <2> QED
    BY <2>5, <2>6, <2>8 DEF MemAt
<1>7. CASE ~(IEnd /\ b = cPc.blk)
  <2>1. IHolds(b) /\ (IEnd => ILineOf[b] # ILineOf[cPc.blk])
    BY <1>3, <1>7, CodeStep
  <2>2. ~(IMemSel /\ ILineOf[cPc.blk] = ILineOf[b])
    <3>1. SUFFICES ASSUME IMemSel, ILineOf[cPc.blk] = ILineOf[b] PROVE FALSE
      OBVIOUS
    <3>2. IMemSel' /\ cPc' = cPc
      BY <1>1, <1>5, <2>1, <3>1, IStateStep
    <3> QED
      BY <1>3, <3>1, <3>2
  <2>3. iWords[<<ILineOf[b], k>>] = MemAt(b, k)
    BY <1>1, <2>1, <2>2, MemoryAt DEF CodeInv
  <2>4. iWords'[<<ILineOf[b], k>>] = iWords[<<ILineOf[b], k>>]
    <3>1. IAnswer => ILineOf[cPc.blk] # ILineOf[b]
      BY <2>2 DEF IAnswer
    <3> QED
      BY <1>1, <1>4, <3>1, IWordStep
  <2>5. ~(DHit(DataPort) /\ DataPort.we /\ b = cIns.blk)
    <3>1. SUFFICES ASSUME DHit(DataPort), DataPort.we, b = cIns.blk PROVE FALSE
      OBVIOUS
    <3>2. InvPort.on /\ ~IEnd
      BY <1>5, <3>1, Ports DEF DHit, DLookup, DataReady, DDataReady, IEnd, IAnswer
    <3> QED
      BY <1>3, <3>1, <3>2, CodeStep
  <2>6. MemAt(b, k)' = MemAt(b, k)
    BY <1>1, <2>5, MemoryStep
  <2> QED
    BY <2>3, <2>4, <2>6
<1> QED
  BY <1>6, <1>7

-----------------------------------------------------------------------------
\* The power-on reset ends with both caches empty and no transfer.
LEMMA DataPor == ASSUME WindowInv, PorClock PROVE DataInv'
<1>1. /\ TypeOK' /\ SweepInv' /\ Quiet'
  BY WindowStep, ControlPor DEF Next, WindowInv
<1>2. \A b \in Blocks : ~Holds(b)'
  BY SweptPor, DcacheSplitAssumption DEF Holds
<1>3. RawRst' => iSwept'
  BY <1>1, ResetAssumption, SizeAssumption DEF SweepInv, RawRst
<1>4. RawRst' => \A b \in Blocks : ~IHolds(b)'
  BY <1>3, SweptPor, IcacheSplitAssumption DEF IHolds
<1>5. StaleOnlyWhereStored'
  BY <1>2 DEF StaleOnlyWhereStored
<1>6. MovedInv'
  BY <1>1 DEF MovedInv, Quiet, DIdle, IIdle, IMemSel
<1>7. CodeInv'
  BY <1>4 DEF CodeInv
<1> QED
  BY <1>5, <1>6, <1>7 DEF DataInv

\* The reset button empties the caches: the power-on reset sweeps them before anything is read.
LEMMA DataReset == ASSUME Reset PROVE DataInv'
<1>1. ~RawRst' /\ dSwept' = FALSE
  BY ResetAssumption, SizeAssumption DEF Reset, RawRst, DcacheReset
<1>2. StaleOnlyWhereStored'
  BY <1>1 DEF StaleOnlyWhereStored, Holds
<1>3. MovedInv' /\ CodeInv'
  BY <1>1 DEF MovedInv, CodeInv
<1> QED
  BY <1>2, <1>3 DEF DataInv

LEMMA DataInit == ASSUME Init PROVE DataInv
<1>1. ~RawRst /\ dSwept = FALSE
  BY ResetAssumption, SizeAssumption DEF Init, RawRst, DcacheInit, DRegsReset
<1>2. StaleOnlyWhereStored
  BY <1>1 DEF StaleOnlyWhereStored, Holds
<1>3. MovedInv /\ CodeInv
  BY <1>1 DEF MovedInv, CodeInv
<1> QED
  BY <1>2, <1>3 DEF DataInv

LEMMA DataStep == ASSUME WindowInv, DataInv, [Next]_vars PROVE DataInv'
<1>1. CASE Clock
  <2>1. MovedInv' /\ StaleOnlyWhereStored'
    BY <1>1, MovedClock, MemoryStep DEF DataInv
  <2> QED
    BY <1>1, <2>1, CodeClock DEF DataInv
<1>2. CASE PorClock
  BY <1>2, DataPor
<1>3. CASE Reset
  BY <1>3, DataReset
<1>4. CASE UNCHANGED vars
  <2>1. UNCHANGED <<dTags, dWords, dState, dSwept, dCnt, dLineR, dTagR, iTags, iWords, iState, iCnt,
                    bBusy, pMem, pCursor, pRdata, pRspValid, cPc, porCounter>>
    BY <1>4 DEF vars, dvars, dRams, dRegs, dFsm, ivars, iRams, iRegs, bvars, pvars, cvars
  <2>2. /\ DMemBlk' = DMemBlk /\ (RawRst' <=> RawRst) /\ (IMemSel' <=> IMemSel)
        /\ \A b \in Blocks : (Holds(b)' <=> Holds(b)) /\ (IHolds(b)' <=> IHolds(b))
    BY <2>1 DEF DMemBlk, DBlock, RawRst, IMemSel, Holds, IHolds
  <2>3. \A b \in Blocks, k \in Offs : Memory'[b][k] = Memory[b][k]
    BY <2>1, <2>2 DEF Memory
  <2>4. StaleOnlyWhereStored'
    BY <2>1, <2>2 DEF DataInv, StaleOnlyWhereStored
  <2>5. MovedInv'
    BY <2>1, <2>2 DEF DataInv, MovedInv
  <2>6. CodeInv'
    BY <2>1, <2>2, <2>3 DEF DataInv, CodeInv
  <2> QED
    BY <2>4, <2>5, <2>6 DEF DataInv
<1> QED
  BY <1>1, <1>2, <1>3, <1>4 DEF Next

\* The window's invariant with what the RAMs and the PSRAM hold: the words a transfer has moved,
\* the instruction cache's copies, and the bytes of the PSRAM that are stale.
THEOREM DataInvariant == Spec => [](WindowInv /\ DataInv)
<1>1. Init => WindowInv /\ DataInv
  BY WindowInit, DataInit
<1>2. WindowInv /\ DataInv /\ [Next]_vars => WindowInv' /\ DataInv'
  BY WindowStep, DataStep
<1> QED
  BY <1>1, <1>2, PTL DEF Spec

\* A byte of the PSRAM is stale only where a store put a newer one in a dirty line, in the word's
\* mask: a clean line may be dropped, and a write-back with the mask as its strobes loses nothing.
THEOREM LanesSoundTheorem == Spec => []LanesSound
<1>1. WindowInv /\ DataInv => LanesSound
  BY DEF WindowInv, DataInv, LanesSound
<1> QED
  BY <1>1, DataInvariant, PTL

-----------------------------------------------------------------------------
\* The access that completes in a cycle, case by case.
LEMMA PortAt ==
  /\ DataPort.win /\ DataReady /\ DataPort.we =>
       Port = [op |-> "store", blk |-> cIns.blk, off |-> cIns.off,
               val |-> MergeBytes(Memory[cIns.blk][cIns.off], cIns.data, cIns.strb)]
  /\ DataPort.win /\ DataReady /\ ~DataPort.we =>
       Port = [op |-> "load", blk |-> cIns.blk, off |-> cIns.off, val |-> dWordQ.data]
  /\ ~DataPort.win /\ FetchPort.win /\ InstrReady =>
       Port = [op |-> "load", blk |-> cPc.blk, off |-> cPc.off, val |-> iWordQ]
  /\ ~(DataPort.win /\ DataReady) /\ ~(~DataPort.win /\ FetchPort.win /\ InstrReady) =>
       Port = [op |-> "none"]
<1>1. ASSUME DataPort.win, DataReady, DataPort.we
      PROVE  Port = [op |-> "store", blk |-> DataPort.blk, off |-> DataPort.off,
                     val |-> MergeBytes(Memory[cIns.blk][cIns.off], DataPort.wdata, DataPort.wstrb)]
  BY <1>1, Zenon DEF Port
<1>2. ASSUME DataPort.win, DataReady, ~DataPort.we
      PROVE  Port = [op |-> "load", blk |-> DataPort.blk, off |-> DataPort.off, val |-> dWordQ.data]
  BY <1>2, Zenon DEF Port
<1>3. ASSUME ~DataPort.win, FetchPort.win, InstrReady
      PROVE  Port = [op |-> "load", blk |-> FetchPort.blk, off |-> FetchPort.off, val |-> iWordQ]
  BY <1>3, Zenon DEF Port
<1>4. ASSUME ~(DataPort.win /\ DataReady), ~(~DataPort.win /\ FetchPort.win /\ InstrReady)
      PROVE  Port = [op |-> "none"]
  BY <1>4, Zenon DEF Port
<1> QED
  BY <1>1, <1>2, <1>3, <1>4, Ports, Zenon

\* Two memories with the same words are one.
LEMMA SameMemory ==
  ASSUME NEW f \in [Blocks -> [Offs -> Word]], NEW g \in [Blocks -> [Offs -> Word]],
         \A b \in Blocks, k \in Offs : f[b][k] = g[b][k]
  PROVE  f = g
<1>1. \A b \in Blocks : f[b] = g[b]
  OBVIOUS
<1> QED
  BY <1>1

\* What the CPU sees in a cycle: a load or a fetch that completes reads the memory's word, a store
\* is of a word; nothing completes while the CPU is held at the ROM.
PortSound ==
  /\ Memory \in [Blocks -> [Offs -> Word]]
  /\ Abstract!Completing(Memory, Port)
  /\ cState = "FETCH" /\ cRiscv /\ ~cPc.sel => Port = [op |-> "none"]

LEMMA PortStands == ASSUME WindowInv, DataInv PROVE PortSound
<1>1. TypeOK /\ ReadInv /\ StaleOnlyWhereStored /\ CodeInv /\ CpuInv
  BY DEF WindowInv, ControlInv, DataInv
<1>2. /\ cIns.blk \in Blocks /\ cIns.off \in Offs /\ cIns.data \in Word
      /\ cPc.blk \in Blocks /\ cPc.off \in Offs
  BY <1>1, WireTypes, Ports DEF DataPortType, FetchPortType
<1>3. Memory \in [Blocks -> [Offs -> Word]]
  BY <1>1, MemoryAt, WordTypes
<1>4. cState = "FETCH" /\ cRiscv /\ ~cPc.sel => ~DataPort.win /\ ~FetchPort.win
  BY Ports DEF DataReq
<1>5. cState = "FETCH" /\ cRiscv /\ ~cPc.sel => Port = [op |-> "none"]
  BY <1>4, PortAt
<1>6. ~RawRst => cState = "FETCH" /\ cRiscv /\ ~cPc.sel
  BY DEF WindowInv, ControlInv, HeldInReset
<1>7. Abstract!Completing(Memory, Port)
  <2>1. CASE DataPort.win /\ DataReady /\ DataPort.we
    <3> DEFINE v == MergeBytes(Memory[cIns.blk][cIns.off], cIns.data, cIns.strb)
    <3>1. v \in Word
      BY <1>2, <1>3, MergeType
    <3>2. Port = [op |-> "store", blk |-> cIns.blk, off |-> cIns.off, val |-> v]
      BY <2>1, PortAt
    <3> HIDE DEF v
    <3> QED
      BY <1>2, <3>1, <3>2 DEF Abstract!Completing
  <2>2. CASE DataPort.win /\ DataReady /\ ~DataPort.we
    <3>1. DHit(DataPort) /\ RawRst
      BY <1>4, <1>6, <2>2 DEF DataReady, DDataReady
    <3>2. dWordQ.data = Memory[cIns.blk][cIns.off]
      BY <1>2, <3>1, HitFinds, MemoryAt DEF MemAt
    <3>3. Port = [op |-> "load", blk |-> cIns.blk, off |-> cIns.off, val |-> dWordQ.data]
      BY <2>2, PortAt
    <3> QED
      BY <1>2, <3>2, <3>3 DEF Abstract!Completing
  <2>3. CASE ~DataPort.win /\ FetchPort.win /\ InstrReady
    <3>1. IHit(FetchPort) /\ RawRst /\ porCounter # 0
      BY <1>4, <1>6, <2>3, ResetAssumption, SizeAssumption DEF InstrReady, IInstrReady, RawRst
    <3>2. /\ IIdle /\ ~iReplayQ /\ ~iConflictQ /\ iRdIdxQ = <<ILineOf[cPc.blk], cPc.off>>
          /\ iTagQ.valid /\ iTagQ.tag = ITagOf[cPc.blk]
      BY <3>1, Ports DEF IHit, ILookup, IIdx
    <3>3. iTagQ = iTags[ILineOf[cPc.blk]] /\ iWordQ = iWords[<<ILineOf[cPc.blk], cPc.off>>]
      BY <1>1, <3>1, <3>2 DEF ReadInv
    <3>4. iWordQ = Memory[cPc.blk][cPc.off]
      BY <1>1, <1>2, <3>1, <3>2, <3>3 DEF CodeInv, IHolds, IIdle, IMemSel
    <3>5. Port = [op |-> "load", blk |-> cPc.blk, off |-> cPc.off, val |-> iWordQ]
      BY <2>3, PortAt
    <3> QED
      BY <1>2, <3>4, <3>5 DEF Abstract!Completing
  <2>4. CASE ~(DataPort.win /\ DataReady) /\ ~(~DataPort.win /\ FetchPort.win /\ InstrReady)
    <3>1. Port = [op |-> "none"]
      BY <2>4, PortAt
    <3> QED
      BY <3>1 DEF Abstract!Completing, Abstract!None
  <2> QED
    BY <2>1, <2>2, <2>3, <2>4
<1> QED
  BY <1>3, <1>5, <1>7 DEF PortSound

\* The memory after a clock edge is the one before with the completed store in it.
LEMMA MemoryAfter ==
  ASSUME WindowInv, DataInv, PortSound, PortSound', Clock
  PROVE  Memory' = Abstract!After(Memory, Port)
<1>1. /\ TypeOK /\ StaleOnlyWhereStored /\ MovedInv
      /\ Memory \in [Blocks -> [Offs -> Word]] /\ Memory' \in [Blocks -> [Offs -> Word]]
      /\ cIns.blk \in Blocks /\ cIns.off \in Offs /\ cIns.data \in Word
  <2>1. TypeOK /\ cIns.blk \in Blocks /\ cIns.off \in Offs /\ cIns.data \in Word
    BY WireTypes, Ports DEF WindowInv, DataPortType
  <2> QED
    BY <2>1 DEF DataInv, PortSound
<1>2. \A b \in Blocks, k \in Offs : Memory'[b][k] = MemAt(b, k)' /\ Memory[b][k] = MemAt(b, k)
  <2>1. \A b \in Blocks, k \in Offs : Memory'[b][k] = MemAt(b, k)'
    BY DEF Memory, MemAt
  <2> QED
    BY <2>1, MemoryAt
<1>3. CASE DHit(DataPort) /\ DataPort.we
  <2> DEFINE v == MergeBytes(Memory[cIns.blk][cIns.off], cIns.data, cIns.strb)
  <2>1. v \in Word
    BY <1>1, MergeType
  <2>2. Port = [op |-> "store", blk |-> cIns.blk, off |-> cIns.off, val |-> v]
    BY <1>3, PortAt DEF DHit, DLookup, DataReady, DDataReady
  <2>3. \A b \in Blocks, k \in Offs :
          Memory'[b][k] = IF b = cIns.blk /\ k = cIns.off THEN v ELSE Memory[b][k]
    BY <1>1, <1>2, <1>3, MemoryStep
  <2> HIDE DEF v
  <2> DEFINE after == [Memory EXCEPT ![cIns.blk][cIns.off] = v]
  <2>4. /\ after \in [Blocks -> [Offs -> Word]]
        /\ \A b \in Blocks, k \in Offs :
             after[b][k] = IF b = cIns.blk /\ k = cIns.off THEN v ELSE Memory[b][k]
    BY <1>1, <2>1
  <2>5. Abstract!After(Memory, Port) = after
    BY <2>2 DEF Abstract!After
  <2> HIDE DEF after
  <2>6. Memory' = after
    BY <1>1, <2>3, <2>4, SameMemory
  <2> QED
    BY <2>5, <2>6
<1>4. CASE ~(DHit(DataPort) /\ DataPort.we)
  <2>1. \A b \in Blocks, k \in Offs : Memory'[b][k] = Memory[b][k]
    BY <1>1, <1>2, <1>4, MemoryStep
  <2>2. Memory' = Memory
    BY <1>1, <2>1, SameMemory
  <2>3. Port.op # "store"
    <3>1. ~(DataPort.win /\ DataReady /\ DataPort.we)
      BY <1>4 DEF DataReady, DDataReady
    <3> QED
      BY <3>1, PortAt
  <2> QED
    BY <2>2, <2>3 DEF Abstract!After
<1> QED
  BY <1>3, <1>4

\* While the power-on reset counts, the memory is the PSRAM and keeps its words.
LEMMA MemoryPor ==
  ASSUME WindowInv, PorClock, PortSound, PortSound' PROVE Memory' = Memory
<1>1. /\ TypeOK /\ PsramTypeOK /\ BurstInv /\ ~pBusy /\ PsramClock(Request) /\ ~RawRst
  BY DEF PorClock, WindowInv, TypeOK, ControlInv, HeldInReset
<1>2. ~Request.valid
  BY PorQuiet DEF Request, BReqValid
<1>3. pMem' = pMem
  BY <1>1, <1>2, BurstNone
<1>4. \A b \in Blocks : ~Holds(b) /\ ~Holds(b)'
  BY <1>1, NothingHeld, SweptPor, DcacheSplitAssumption DEF Holds
<1>5. \A b \in Blocks, k \in Offs : Memory'[b][k] = Memory[b][k]
  BY <1>3, <1>4 DEF Memory
<1> QED
  BY <1>5, SameMemory DEF PortSound

\* Nothing happens to the window: nothing happens to the memory.
LEMMA Stutter == ASSUME UNCHANGED vars PROVE UNCHANGED <<Memory, Port, RawRst>>
<1>1. /\ UNCHANGED <<dTags, dWords, dTagQ, dWordQ, dRdIdxQ, dStaleQ, dState, dSwept, dLineR>>
      /\ UNCHANGED <<iTagQ, iWordQ, iRdIdxQ, iConflictQ, iReplayQ, iSwept, iState>>
      /\ UNCHANGED <<pMem, cState, cRiscv, cPc, cIns, cStoreWe, porCounter, gRstCnt>>
  BY DEF vars, dvars, dRams, dRegs, dFsm, ivars, iRams, iRegs, pvars, cvars
<1>2. Memory' = Memory
  BY <1>1 DEF Memory, Holds
<1>3. FetchPort' = FetchPort /\ DataPort' = DataPort /\ RawRst' = RawRst
  BY <1>1 DEF FetchPort, DataPort, FetchReq, CpuSoftRst, DataReq, MemWrite, RawRst
<1>4. (DataReady' <=> DataReady) /\ (InstrReady' <=> InstrReady)
  BY <1>1, <1>3
  DEF DataReady, DDataReady, DHit, DLookup, DMatch, DIdle, DIdx,
      InstrReady, IInstrReady, IHit, ILookup, IIdle, IIdx
<1>5. Port' = Port
  BY <1>1, <1>2, <1>3, <1>4, Zenon DEF Port
<1> QED
  BY <1>2, <1>3, <1>5

\* Every step of the window is a step of the memory, or none.
LEMMA MemorySteps ==
  ASSUME WindowInv, DataInv, PortSound, PortSound', [Next]_vars
  PROVE  [Abstract!Next]_<<Memory, Port, RawRst>>
<1>1. CASE Clock
  <2>1. RawRst /\ RawRst'
    BY <1>1, Running DEF WindowInv
  <2>2. Memory' = Abstract!After(Memory, Port)
    BY <1>1, MemoryAfter
  <2>3. Abstract!Completing(Memory', Port')
    BY DEF PortSound
  <2> QED
    BY <2>1, <2>2, <2>3 DEF Abstract!Next, Abstract!Cycle
<1>2. CASE PorClock \/ Reset
  <2>1. cState' = "FETCH" /\ cRiscv' /\ ~cPc'.sel
    BY <1>2, CpuHeld DEF PorClock, Reset
  <2>2. Port' = [op |-> "none"] /\ Memory' \in [Blocks -> [Offs -> Word]]
    BY <2>1 DEF PortSound
  <2>3. CASE PorClock
    <3>1. ~RawRst /\ RawRst' \in BOOLEAN
      BY <2>3 DEF PorClock, RawRst
    <3> QED
      BY <2>2, <2>3, <3>1, MemoryPor DEF Abstract!Next, Abstract!PowerUp, Abstract!None
  <2>4. CASE Reset
    <3>1. ~RawRst'
      BY <2>4, ResetAssumption, SizeAssumption DEF Reset, RawRst
    <3> QED
      BY <2>2, <3>1 DEF Abstract!Next, Abstract!Reset, Abstract!None, Abstract!Memories
  <2> QED
    BY <1>2, <2>3, <2>4
<1>3. CASE UNCHANGED vars
  BY <1>3, Stutter
<1> QED
  BY <1>1, <1>2, <1>3 DEF Next

\* The window is a memory.  Whichever of the two caches, the PSRAM or a transfer between them
\* holds a word, a load and a fetch that complete read the last value stored to it, and only a store
\* that completes changes it; only the reset button loses stores.
THEOREM ImplementsMemoryTheorem == Spec => ImplementsMemory
<1>1. Init => Abstract!Init
  <2>1. SUFFICES ASSUME Init PROVE Abstract!Init
    OBVIOUS
  <2>2. PortSound
    BY <2>1, WindowInit, DataInit, PortStands
  <2>3. RawRst = FALSE
    BY <2>1, ResetAssumption, SizeAssumption DEF Init, RawRst
  <2>4. cState = "FETCH" /\ cRiscv /\ ~cPc.sel
    BY <2>1 DEF Init, CpuInit, ResetPc, Outside
  <2> QED
    BY <2>2, <2>3, <2>4 DEF PortSound, Abstract!Init, Abstract!None, Abstract!Memories
<1>2. WindowInv /\ DataInv => PortSound
  BY PortStands
<1>3. WindowInv /\ DataInv /\ PortSound /\ PortSound' /\ [Next]_vars
        => [Abstract!Next]_<<Memory, Port, RawRst>>
  BY MemorySteps
<1> QED
  BY <1>1, <1>2, <1>3, DataInvariant, PTL DEF Spec, ImplementsMemory, Abstract!Spec
=============================================================================

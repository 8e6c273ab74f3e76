-------------------------- MODULE SocWindowProofs ---------------------------
(***************************************************************************)
(* Proofs about the wait-state window, for every size of the caches and of *)
(* a line, every latency of the controller and every program: the types    *)
(* and the sweeps, then the control, with the invariant of SocWindowInv    *)
(* that says where each component stands in a transfer, and what follows.  *)
(***************************************************************************)
EXTENDS SocWindowInv, TLAPS

\* The word RAMs and the bus carry words.
LEMMA NoDataType == NoData \in Word
<1>1. PICK b \in Bytes : TRUE
  BY NonEmptyAssumption
<1>2. [i \in Lanes |-> b] \in Word
  BY <1>1 DEF Word
<1> QED
  BY <1>2 DEF NoData

\* A byte-lane merge of two words is a word.
LEMMA MergeType ==
  ASSUME NEW x \in Word, NEW y \in Word, NEW s PROVE MergeBytes(x, y, s) \in Word
BY DEF Word, MergeBytes

\* A tag and a line of the data cache name a block.
LEMMA DBlockType ==
  ASSUME NEW t \in DTags, NEW l \in DLines PROVE DBlock(t, l) \in Blocks
BY DcacheSplitAssumption DEF DBlock

\* The tags a reset or a sweep writes are tags.
LEMMA TagsNonEmpty == (CHOOSE t \in DTags : TRUE) \in DTags /\ (CHOOSE t \in ITags : TRUE) \in ITags
<1>1. PICK b \in Blocks : TRUE
  BY NonEmptyAssumption
<1> QED
  BY <1>1, DcacheSplitAssumption, IcacheSplitAssumption

\* Lines and offsets as numbers.
LEMMA Zeros == 0 \in Offs /\ 0 \in DLines /\ 0 \in ILines
BY SizeAssumption DEF Offs, DLines, ILines

\* A counter that wraps at n stays below n.
LEMMA ModType == ASSUME NEW k \in Nat, NEW n \in Nat \ {0} PROVE k % n \in 0 .. n - 1
OBVIOUS

-----------------------------------------------------------------------------
\* The ports' types.
FetchPortType == [win : BOOLEAN, blk : Blocks, off : Offs]
DataPortType == [win : BOOLEAN, we : BOOLEAN, blk : Blocks, off : Offs,
                 wdata : Word, wstrb : SUBSET Lanes]
MemPortType == [ready : BOOLEAN, rdata : Word, wnext : BOOLEAN]
IMemPortType == [ready : BOOLEAN, rdata : Word]
ProbeType == [req : BOOLEAN, blk : Blocks]
InvType == [on : BOOLEAN, blk : Blocks]
RequestType == [valid : BOOLEAN, we : BOOLEAN, blk : Blocks, wdata : Word, wstrb : SUBSET Lanes]

\* A RAM keeps its type, and what is read of it has it.
LEMMA RamNextType ==
  ASSUME NEW D, NEW R, NEW ram \in [D -> R], NEW w,
         w.we => w.at \in D /\ w.data \in R
  PROVE  RamNext(ram, w) \in [D -> R]
BY DEF RamNext

-----------------------------------------------------------------------------
\* soc_dcache.
LEMMA DTagWriteType ==
  ASSUME DcacheTypeOK, NEW acc \in DataPortType, NEW m, NEW clear
  PROVE  LET w == DTagWrite(acc, m, clear) IN w.at \in DLines /\ w.data \in DTagEntry
BY TagsNonEmpty, DcacheSplitAssumption
DEF DcacheTypeOK, DataPortType, DTagWrite, DTagEntry

\* What soc_dcache's word RAM is written with, by a store hit or a fill.
LEMMA DWordWriteType ==
  ASSUME DcacheTypeOK, NEW acc \in DataPortType, NEW m \in MemPortType
  PROVE  LET w == DWordWrite(acc, m) IN w.at \in DIndex /\ w.data \in DWordEntry
<1>1. MergeBytes(dWordQ.data, acc.wdata, acc.wstrb) \in Word
  BY MergeType DEF DcacheTypeOK, DWordEntry, DataPortType
<1>2. DIdx(acc) \in DIndex
  BY DcacheSplitAssumption DEF DIdx, DIndex, DataPortType
<1>3. <<dLineR, dCnt>> \in DIndex
  BY DEF DcacheTypeOK, DIndex
<1>4. [mask |-> DMask(acc), data |-> MergeBytes(dWordQ.data, acc.wdata, acc.wstrb)] \in DWordEntry
  BY <1>1 DEF DcacheTypeOK, DWordEntry, DMask, DataPortType
<1>5. [mask |-> {}, data |-> m.rdata] \in DWordEntry
  BY DEF DWordEntry, MemPortType
<1> QED
  BY <1>2, <1>3, <1>4, <1>5 DEF DWordWrite

\* A clock edge keeps the types of soc_dcache.
LEMMA DcacheClockType ==
  ASSUME DcacheTypeOK, NEW acc \in DataPortType, NEW rd \in DIndex, NEW m \in MemPortType,
         NEW probe \in ProbeType, NEW clear \in BOOLEAN,
         DcacheClock(acc, rd, m, probe, clear)
  PROVE  DcacheTypeOK'
<1> DEFINE tw == DTagWrite(acc, m, clear)
           ww == DWordWrite(acc, m)
<1>a. tw.at \in DLines /\ tw.data \in DTagEntry
  BY DTagWriteType
<1>b. ww.at \in DIndex /\ ww.data \in DWordEntry
  BY DWordWriteType
<1>c. DCntNext(m) \in Offs
  BY SizeAssumption, ModType DEF DcacheTypeOK, DCntNext, Offs
<1>d. DRa(rd, m) \in DIndex
  BY <1>c DEF DRa, DcacheTypeOK, DIndex
<1>e. rd[1] \in DLines
  BY DEF DIndex
<1>1. dTags' \in [DLines -> DTagEntry]
  <2>1. dTags' = RamNext(dTags, tw)
    BY DEF DcacheClock
  <2> HIDE DEF tw
  <2> QED
    BY <1>a, <2>1, RamNextType DEF DcacheTypeOK
<1>2. dTagQ' \in DTagEntry
  <2>1. dTagQ' \in RamRead(dTags, tw, rd[1], DMixedTag)
    BY DEF DcacheClock
  <2>2. dTags[rd[1]] \in DTagEntry
    BY <1>e DEF DcacheTypeOK
  <2> HIDE DEF tw
  <2> QED
    BY <1>a, <2>1, <2>2 DEF RamRead, DMixedTag, DTagEntry
<1>3. dWords' \in [DIndex -> DWordEntry]
  <2>1. dWords' = RamNext(dWords, ww)
    BY DEF DcacheClock
  <2> HIDE DEF ww
  <2> QED
    BY <1>b, <2>1, RamNextType DEF DcacheTypeOK
<1>4. dWordQ' \in DWordEntry
  <2>1. dWordQ' \in RamRead(dWords, ww, DRa(rd, m), DMixedWord)
    BY DEF DcacheClock
  <2>2. dWords[DRa(rd, m)] \in DWordEntry
    BY <1>d DEF DcacheTypeOK
  <2> HIDE DEF ww
  <2> QED
    BY <1>b, <2>1, <2>2 DEF RamRead, DMixedWord, DWordEntry
<1>5. dRdIdxQ' \in DIndex /\ dStaleQ' \in BOOLEAN /\ dCnt' \in Offs
  BY <1>c DEF DcacheClock
<1>6. dSwept' \in BOOLEAN /\ dSweepIdx' \in DLines
  <2>1. DSweep(clear)
    BY DEF DcacheClock
  <2>2. (dSweepIdx + 1) % DLINES \in DLines
    BY SizeAssumption, ModType DEF DcacheTypeOK, DLines
  <2> QED
    BY <2>1, <2>2 DEF DSweep, DcacheTypeOK
<1>7. /\ dState' \in {"IDLE", "WB", "FILL"} /\ dIsProbe' \in BOOLEAN /\ dPrimed' \in BOOLEAN
      /\ dLineR' \in DLines /\ dTagR' \in DTags
  <2>1. \/ DStartWb(acc) \/ DStartFill(acc) \/ DStartProbe(acc, probe)
        \/ DIdleStay(acc, probe) \/ DWriteBack(m) \/ DWriteBackEnd(acc, m) \/ DFill(m)
    BY DEF DcacheClock
  <2>2. DLineOf[acc.blk] \in DLines /\ DTagOf[acc.blk] \in DTags
    BY DcacheSplitAssumption DEF DataPortType
  <2>3. DLineOf[probe.blk] \in DLines /\ DTagOf[probe.blk] \in DTags
    BY DcacheSplitAssumption DEF ProbeType
  <2>4. dTagQ.tag \in DTags
    BY DEF DcacheTypeOK, DTagEntry
  <2> QED
    BY <2>1, <2>2, <2>3, <2>4
    DEF DStartWb, DStartFill, DStartProbe, DIdleStay, DWriteBack, DWriteBackEnd, DFill,
        dFsm, DcacheTypeOK
<1> QED
  BY <1>1, <1>2, <1>3, <1>4, <1>5, <1>6, <1>7 DEF DcacheTypeOK

-----------------------------------------------------------------------------
\* soc_icache.
LEMMA IcacheClockType ==
  ASSUME IcacheTypeOK, NEW f \in FetchPortType, NEW rd \in IIndex, NEW m \in IMemPortType,
         NEW inv \in InvType, NEW hold \in BOOLEAN, NEW clear \in BOOLEAN,
         IcacheClock(f, rd, m, inv, hold, clear)
  PROVE  IcacheTypeOK'
<1> DEFINE tw == ITagWrite(f, m, inv, clear)
           ww == IWordWrite(f, m)
<1>a. tw.at \in ILines /\ tw.data \in ITagEntry
  BY TagsNonEmpty, IcacheSplitAssumption
  DEF ITagWrite, INoTag, ITagEntry, FetchPortType, InvType, IcacheTypeOK
<1>b. ww.at \in IIndex /\ ww.data \in Word
  BY IcacheSplitAssumption DEF IWordWrite, IIndex, FetchPortType, IMemPortType, IcacheTypeOK
<1>c. rd[1] \in ILines
  BY DEF IIndex
<1>1. iTags' \in [ILines -> ITagEntry]
  <2>1. iTags' = RamNext(iTags, tw)
    BY DEF IcacheClock
  <2> HIDE DEF tw
  <2> QED
    BY <1>a, <2>1, RamNextType DEF IcacheTypeOK
<1>2. iTagQ' \in ITagEntry
  <2>1. iTagQ' \in RamRead(iTags, tw, rd[1], IMixedTag)
    BY DEF IcacheClock
  <2>2. iTags[rd[1]] \in ITagEntry
    BY <1>c DEF IcacheTypeOK
  <2> HIDE DEF tw
  <2> QED
    BY <1>a, <2>1, <2>2 DEF RamRead, IMixedTag, ITagEntry
<1>3. iWords' \in [IIndex -> Word]
  <2>1. iWords' = RamNext(iWords, ww)
    BY DEF IcacheClock
  <2> HIDE DEF ww
  <2> QED
    BY <1>b, <2>1, RamNextType DEF IcacheTypeOK
<1>4. iWordQ' \in Word
  <2>1. iWordQ' \in RamRead(iWords, ww, rd, IMixedWord)
    BY DEF IcacheClock
  <2> HIDE DEF ww
  <2> QED
    BY <1>b, <2>1 DEF RamRead, IMixedWord, IcacheTypeOK
<1>5. iSwept' \in BOOLEAN /\ iSweepIdx' \in ILines
  <2>1. ISweep(clear)
    BY DEF IcacheClock
  <2>2. (iSweepIdx + 1) % ILINES \in ILines
    BY SizeAssumption, ModType DEF IcacheTypeOK, ILines
  <2> QED
    BY <2>1, <2>2 DEF ISweep, IcacheTypeOK
<1>6. iCnt' \in Offs
  <2>1. (iCnt + 1) % LineWords \in Offs
    BY SizeAssumption, ModType DEF IcacheTypeOK, Offs
  <2> QED
    BY <2>1 DEF IcacheClock, IcacheTypeOK
<1>7. /\ iRdIdxQ' \in IIndex /\ iConflictQ' \in BOOLEAN /\ iReplayQ' \in BOOLEAN
      /\ iState' \in {"IDLE", "FILL"}
  BY DEF IcacheClock
<1> QED
  BY <1>1, <1>2, <1>3, <1>4, <1>5, <1>6, <1>7 DEF IcacheTypeOK

-----------------------------------------------------------------------------
\* The controller.
LEMMA BurstNumbers ==
  /\ Twice \in Nat /\ Twice >= 2 /\ Twice = 2 * LineWords - 2 /\ LineWords \in Nat
  /\ BURST_READ_AT \in Nat /\ BURST_READ_AT >= 2 /\ BURST_READ_AT % 2 = 0
  /\ WDATA_NEXT_AT \in Nat /\ WDATA_NEXT_AT >= 2 /\ WDATA_NEXT_AT % 2 = 0
BY LatencyAssumption, SizeAssumption DEF Twice, BURST_READ_AT, WDATA_NEXT_AT

\* The word a read or a wdata_next is for is one of the line's.
LEMMA CursorInLine ==
  ASSUME PsramTypeOK, BurstInv, PReadWord \/ pTakeWord PROVE pCursor \in Offs
<1>1. CASE PReadWord
  BY <1>1, BurstNumbers DEF PReadWord, PNext, BurstInv, ReadCursor, PsramTypeOK, Offs
<1>2. CASE pTakeWord
  BY <1>2, BurstNumbers DEF BurstInv, WordDueAt, WriteCursor, PsramTypeOK, Offs
<1> QED
  BY <1>1, <1>2

\* A burst's last cycle, in the numbers its words are counted in.
LEMMA ReadyAtNumber ==
  ASSUME NEW w \in BOOLEAN
  PROVE  /\ w => ReadyAt(w) = WDATA_NEXT_AT + 6 + Twice
         /\ ~w => ReadyAt(w) = BURST_READ_AT + 3 + Twice
BY LatencyAssumption, SizeAssumption DEF Twice, BURST_READ_AT, WDATA_NEXT_AT, ReadyAt

\* The controller answers in every second cycle.
LEMMA Parity == ASSUME NEW n \in Nat PROVE n % 2 \in {0, 1} /\ (n + 1) % 2 = 1 - (n % 2)
OBVIOUS

\* A clock edge keeps a burst where its cycle says.
LEMMA BurstClock ==
  ASSUME PsramTypeOK, BurstInv, NEW req \in RequestType, PsramClock(req) PROVE BurstInv'
<1>1. CASE PAccept(req)
  <2>1. /\ ~pBusy /\ ~pWdataNext
        /\ pBusy' /\ pElapsed' = 1 /\ pWe' = req.we /\ pWe' \in BOOLEAN
        /\ pCursor' = IF req.we THEN 1 ELSE 0
        /\ pTakeWord' = FALSE
    BY <1>1 DEF PsramTypeOK, BurstInv, RequestType, PsramClock, PAccept, PReqReady
  <2>2. pWdataNext' = FALSE
    BY <2>1 DEF PsramClock, PWordDue
  <2>3. ~WordDueAt(1) /\ ~WordDueAt(0)
    BY BurstNumbers DEF WordDueAt
  <2>4. pElapsed' \in 1 .. ReadyAt(pWe') - 1
    BY <2>1, BurstNumbers, ReadyAtNumber
  <2>5. IF pWe' THEN WriteCursor' ELSE ReadCursor'
    BY <2>1, BurstNumbers DEF WriteCursor, ReadCursor
  <2> QED
    BY <2>1, <2>2, <2>3, <2>4, <2>5 DEF BurstInv
<1>2. CASE ~PAccept(req) /\ ~pBusy
  BY <1>2 DEF PsramTypeOK, BurstInv, PsramClock, PWordDue
<1>3. CASE ~PAccept(req) /\ pBusy
  <2>1. /\ pBusy' = (PNext # ReadyAt(pWe)) /\ pWe' = pWe
        /\ pBusy' => pElapsed' = PNext
        /\ pCursor' = IF PReadWord \/ pTakeWord THEN pCursor + 1 ELSE pCursor
    BY <1>3 DEF PsramClock
  <2>2. pElapsed \in 1 .. ReadyAt(pWe) - 1 /\ PNext = pElapsed + 1
    BY <1>3 DEF BurstInv, PNext
  <2>a. pElapsed \in Nat /\ pElapsed >= 1 /\ PNext = pElapsed + 1 /\ PNext \in Nat
    BY <2>2 DEF PsramTypeOK
  <2>b. PICK e \in Nat : e = ReadyAt(pWe) /\ (pWe => e = WDATA_NEXT_AT + 6 + Twice)
    <3>1. /\ pWe => ReadyAt(pWe) = WDATA_NEXT_AT + 6 + Twice
          /\ ~pWe => ReadyAt(pWe) = BURST_READ_AT + 3 + Twice
      BY ReadyAtNumber DEF PsramTypeOK
    <3>2. ReadyAt(pWe) \in Nat
      BY <3>1, BurstNumbers
    <3> QED
      BY <3>1, <3>2
  <2>c. PNext <= e
    BY <2>2, <2>a, <2>b
  <2>d. ReadyAt(pWe') = e /\ (pBusy' <=> PNext # e)
    BY <2>1, <2>b
  <2>3. pBusy' => pElapsed' \in 1 .. ReadyAt(pWe') - 1
    BY <2>1, <2>a, <2>b, <2>c, <2>d
  <2>e. pWe => e = WDATA_NEXT_AT + 6 + Twice
    BY <2>b
  <2>4. WordDueAt(PNext) => PNext # WDATA_NEXT_AT + 6 + Twice
    BY <2>a, BurstNumbers DEF WordDueAt
  <2>5. WordDueAt(pElapsed) => PNext # WDATA_NEXT_AT + 6 + Twice
    BY <2>a, BurstNumbers DEF WordDueAt
  <2>6. pWdataNext' <=> pWe /\ WordDueAt(PNext)
    BY <1>3 DEF PsramClock, PWordDue, WordDueAt
  <2>7. pTakeWord' <=> pWe /\ WordDueAt(PNext - 1)
    BY <1>3, <2>2 DEF PsramClock, BurstInv
  <2>8. pWdataNext' <=> pBusy' /\ pWe' /\ WordDueAt(pElapsed')
    BY <2>1, <2>4, <2>6, <2>d, <2>e
  <2>9. pTakeWord' <=> pBusy' /\ pWe' /\ WordDueAt(pElapsed' - 1)
    <3>1. PNext - 1 = pElapsed
      BY <2>2 DEF PsramTypeOK
    <3> QED
      BY <2>1, <2>5, <2>7, <2>d, <2>e, <3>1
  <2>10. ASSUME ~pWe, pBusy' PROVE ReadCursor'
    <3>1. ReadCursor /\ ~pTakeWord
      BY <1>3, <2>10 DEF BurstInv
    <3>2. PReadWord <=> PNext >= BURST_READ_AT /\ PNext <= BURST_READ_AT + Twice /\ PNext % 2 = 0
      BY <1>3, <2>10 DEF PReadWord
    <3>3. CASE PReadWord
      BY <3>1, <3>2, <3>3, <2>1, <2>2, <2>10, BurstNumbers, Parity DEF ReadCursor, PsramTypeOK
    <3>4. CASE ~PReadWord
      BY <3>1, <3>2, <3>4, <2>1, <2>2, <2>10, BurstNumbers, Parity DEF ReadCursor, PsramTypeOK
    <3> QED
      BY <3>3, <3>4
  <2>11. ASSUME pWe, pBusy' PROVE WriteCursor'
    <3>1. WriteCursor /\ (pTakeWord <=> WordDueAt(pElapsed - 1)) /\ ~PReadWord
      BY <1>3, <2>11 DEF BurstInv, PReadWord
    <3>2. pElapsed \in Nat /\ pElapsed >= 1 /\ pElapsed' = pElapsed + 1 /\ pCursor \in Nat
      <4>1. pElapsed' = PNext
        BY <2>1, <2>11
      <4>2. pCursor \in Nat
        BY SizeAssumption DEF PsramTypeOK
      <4> QED
        BY <2>a, <4>1, <4>2
    <3>3. PICK x \in Nat : x = pElapsed - 1
      BY <3>2
    <3>5. CASE pTakeWord
      <4>1. pCursor' = pCursor + 1
        BY <2>1, <3>5
      <4>2. /\ pElapsed - 1 > WDATA_NEXT_AT /\ pElapsed - 1 <= WDATA_NEXT_AT + Twice
            /\ x % 2 = 0
        BY <3>1, <3>3, <3>5 DEF WordDueAt
      <4> QED
        BY <3>1, <3>2, <3>3, <4>1, <4>2, BurstNumbers DEF WriteCursor
    <3>6. CASE ~pTakeWord
      <4>1. pCursor' = pCursor
        BY <2>1, <3>1, <3>6
      <4>2. \/ pElapsed - 1 <= WDATA_NEXT_AT \/ pElapsed - 1 > WDATA_NEXT_AT + Twice
            \/ x % 2 = 1
        BY <3>1, <3>2, <3>3, <3>6, BurstNumbers, Parity DEF WordDueAt
      <4> QED
        BY <3>1, <3>2, <3>3, <4>1, <4>2, BurstNumbers DEF WriteCursor
    <3> QED
      BY <3>5, <3>6
  <2> QED
    BY <2>1, <2>3, <2>8, <2>9, <2>10, <2>11 DEF BurstInv, PsramTypeOK
<1> QED
  BY <1>1, <1>2, <1>3 DEF PsramTypeOK

\* A clock edge keeps the types of the controller: a cursor in the line.
LEMMA PsramClockType ==
  ASSUME PsramTypeOK, BurstInv, NEW req \in RequestType, PsramClock(req) PROVE PsramTypeOK'
<1>1. pRdata' \in Word
  <2>1. PReadWord => pMem[pBlk][pCursor] \in Word
    BY CursorInLine DEF PsramTypeOK
  <2> QED
    BY <2>1 DEF PsramClock, PArrayClock, PsramTypeOK
<1>2. pMem' \in [Blocks -> [Offs -> Word]]
  <2> DEFINE store(b, k) == [pMem EXCEPT ![b][k] = MergeBytes(@, req.wdata, req.wstrb)]
  <2>1. ASSUME NEW b \in Blocks, NEW k \in Offs PROVE store(b, k) \in [Blocks -> [Offs -> Word]]
    <3>1. MergeBytes(pMem[b][k], req.wdata, req.wstrb) \in Word
      BY MergeType DEF PsramTypeOK, RequestType
    <3> QED
      BY <3>1 DEF PsramTypeOK
  <2>2. 0 \in Offs /\ req.blk \in Blocks /\ pBlk \in Blocks
    BY Zeros DEF RequestType, PsramTypeOK
  <2>3. pTakeWord => pCursor \in Offs
    BY CursorInLine
  <2>4. \/ pMem' = pMem \/ pMem' = store(req.blk, 0)
        \/ pTakeWord /\ pMem' = store(pBlk, pCursor)
    BY DEF PsramClock, PArrayClock
  <2> HIDE DEF store
  <2> QED
    BY <2>1, <2>2, <2>3, <2>4 DEF PsramTypeOK
<1>3. pInit' \in 0 .. INIT_CYCLES
  BY LatencyAssumption DEF PsramClock, PsramTypeOK
<1>4. pBusy' \in BOOLEAN /\ pWe' \in BOOLEAN /\ pBlk' \in Blocks
  BY DEF PsramClock, PsramTypeOK, RequestType
<1>5. pElapsed' \in Nat
  BY DEF PsramClock, PsramTypeOK, PNext
<1>6. pCursor' \in 0 .. LineWords
  BY CursorInLine, BurstNumbers DEF PsramClock, PsramTypeOK, Offs
<1>7. /\ pTakeWord' \in BOOLEAN /\ pRspValid' \in BOOLEAN
      /\ pRspLast' \in BOOLEAN /\ pWdataNext' \in BOOLEAN
  BY DEF PsramClock, PsramTypeOK, PReadWord, PWriteRsp, PWordDue
<1> QED
  BY <1>1, <1>2, <1>3, <1>4, <1>5, <1>6, <1>7 DEF PsramTypeOK

\* rst_n ends a burst.
LEMMA PsramResetType ==
  ASSUME PsramTypeOK, PsramReset PROVE PsramTypeOK' /\ BurstInv'
<1>1. (CHOOSE b \in Blocks : TRUE) \in Blocks
  BY NonEmptyAssumption
<1>2. PsramTypeOK'
  <2>1. INIT_CYCLES \in 0 .. INIT_CYCLES /\ 0 \in Nat /\ 0 \in 0 .. LineWords
    BY LatencyAssumption, SizeAssumption
  <2>2. pMem' \in [Blocks -> [Offs -> Word]] /\ pRdata' \in Word
    BY DEF PsramTypeOK, PsramReset
  <2> QED
    BY <1>1, <2>1, <2>2, Zenon DEF PsramTypeOK, PsramReset
<1>3. BurstInv'
  BY DEF BurstInv, PsramReset
<1> QED
  BY <1>2, <1>3

-----------------------------------------------------------------------------
\* The CPU.
LEMMA OutsideType == Outside \in [sel : BOOLEAN, blk : Blocks, off : Offs]
BY Zeros, SegmentAssumption DEF Outside

\* The addresses of the data bus.
LEMMA AddressesType ==
  ASSUME NEW B \in SUBSET Blocks PROVE Addresses(B) \subseteq [sel : BOOLEAN, blk : Blocks, off : Offs]
BY OutsideType, SegmentAssumption DEF Addresses

\* The addresses of the instruction bus, in either ISA.
LEMMA PcsType == ASSUME NEW r \in BOOLEAN PROVE Pcs(r) \subseteq [sel : BOOLEAN, blk : Blocks, off : Offs]
<1>1. Addresses(Blocks) \subseteq [sel : BOOLEAN, blk : Blocks, off : Offs]
  BY AddressesType
<1>2. [sel : {TRUE}, blk : HackIBlocks, off : ProgOffs] \subseteq [sel : BOOLEAN, blk : Blocks, off : Offs]
  BY SegmentAssumption
<1> QED
  BY <1>1, <1>2 DEF Pcs

\* A reset starts at an address of the ISA it boots.
LEMMA ResetPcType == ASSUME NEW r \in BOOLEAN PROVE ResetPc(r) \in Pcs(r)
<1>1. ResetPc(r) = [sel |-> ~r, blk |-> Block0, off |-> 0]
  BY DEF ResetPc, Outside
<1>2. CASE r
  <2>1. ResetPc(r) = Outside
    BY <1>1, <1>2 DEF Outside
  <2> QED
    BY <2>1, <1>2 DEF Pcs, Addresses
<1>3. CASE ~r
  <2>1. ResetPc(r) = [sel |-> TRUE, blk |-> Block0, off |-> 0]
    BY <1>1, <1>3
  <2> QED
    BY <2>1, <1>3, SegmentAssumption DEF Pcs
<1> QED
  BY <1>2, <1>3

InsType == [op : Ops \cup {"none"}, sel : BOOLEAN, blk : Blocks, off : Offs,
            data : Word, strb : SUBSET Lanes]

\* An instruction made of an address, a word and strobes has the access's shape.
LEMMA InsInType ==
  ASSUME NEW op \in Ops \cup {"none"}, NEW a, a.sel \in BOOLEAN, a.blk \in Blocks, a.off \in Offs,
         NEW d \in Word, NEW st \in SUBSET Lanes
  PROVE  Ins(op, a, d, st) \in InsType
BY DEF Ins, InsType

\* So does whatever a fetched word decodes to.
LEMMA InstructionsType ==
  ASSUME NEW r \in BOOLEAN, NEW a \in InsType PROVE Instructions(r, a) \subseteq InsType
<1>0. /\ {"alu", "muldiv", "load", "store", "amo", "hread", "hwrite", "hrmw"} \subseteq Ops \cup {"none"}
      /\ Lanes \in SUBSET Lanes /\ {} \in SUBSET Lanes
  BY DEF Ops
<1>1. RvInstructions \subseteq InsType
  BY <1>0, InsInType, OutsideType, AddressesType, NoDataType DEF RvInstructions
<1>2. HackInstructions(a) \subseteq InsType
  BY <1>0, InsInType, NoDataType DEF HackInstructions, InsType
<1> QED
  BY <1>1, <1>2 DEF Instructions

\* So do the address lines between two instructions.
LEMMA BetweenType == ASSUME NEW r \in BOOLEAN PROVE Between(r) \subseteq InsType
<1>1. Addresses(HackDBlocks) \subseteq [sel : BOOLEAN, blk : Blocks, off : Offs]
  BY AddressesType, SegmentAssumption
<1> QED
  BY <1>1, InsInType, OutsideType, NoDataType DEF Between

\* A reset of the CPU leaves it well typed.
LEMMA CSoftResetType ==
  ASSUME NEW r \in BOOLEAN, CSoftReset(r) PROVE CpuTypeOK'
<1>1. cIns' \in InsType
  BY BetweenType DEF CSoftReset
<1>2. cPc' \in Pcs(cRiscv')
  BY ResetPcType DEF CSoftReset
<1> QED
  BY <1>1, <1>2 DEF CSoftReset, CpuTypeOK, CpuState, InsType

\* A word loaded or computed for Hack's store keeps the access's shape.
LEMMA LatchedType == ASSUME cIns \in InsType, NEW d \in Word PROVE HackLatched(d) \in InsType
BY DEF HackLatched, InsType

\* So does the end of an instruction.
LEMMA CompleteType ==
  ASSUME CpuTypeOK, NEW nextPc \in Pcs(cRiscv), Complete(nextPc), cRiscv' = cRiscv
  PROVE  CpuTypeOK'
<1>1. cIns' \in InsType
  BY BetweenType DEF Complete, CpuTypeOK
<1> QED
  BY <1>1 DEF Complete, CpuTypeOK, CpuState, InsType

\* So does each state of unified_cpu's FSM.
LEMMA CpuClockType ==
  ASSUME CpuTypeOK, NEW nextPc \in NextPcs, NEW ir, NEW dr, CpuClock(nextPc, ir, dr)
  PROVE  CpuTypeOK'
<1>1. nextPc \in Pcs(cRiscv)
  BY DEF NextPcs, CpuTypeOK
<1>2. cIns \in InsType
  BY DEF CpuTypeOK, InsType
<1>3. CASE CFetch(ir)
  <2>1. cIns' \in InsType
    BY <1>2, <1>3, InstructionsType DEF CFetch, CpuTypeOK
  <2> QED
    BY <1>3, <2>1 DEF CFetch, CpuTypeOK, CpuState, InsType
<1>4. CASE CExecute(nextPc, dr)
  <2>1. CASE Complete(nextPc)
    BY <1>1, <1>4, <2>1, CompleteType DEF CExecute
  <2>2. CASE ~Complete(nextPc)
    BY <1>4, <2>2 DEF CExecute, CpuTypeOK, CpuState
  <2> QED
    BY <2>1, <2>2
<1>5. CASE CMemWait(nextPc, dr)
  <2>1. CASE Complete(nextPc)
    BY <1>1, <1>5, <2>1, CompleteType DEF CMemWait
  <2>2. CASE ~Complete(nextPc)
    <3>1. cIns' \in InsType
      BY <1>2, <1>5, <2>2, LatchedType DEF CMemWait
    <3> QED
      BY <1>5, <2>2, <3>1 DEF CMemWait, CpuTypeOK, CpuState, InsType
  <2> QED
    BY <2>1, <2>2
<1>6. CASE CAmoCalc
  <2>1. cIns' \in InsType
    BY <1>2, <1>6 DEF CAmoCalc, InsType
  <2> QED
    BY <1>6, <2>1 DEF CAmoCalc, CpuTypeOK, CpuState, InsType
<1>7. CASE CHackWb(nextPc, dr)
  <2>1. CASE Complete(nextPc)
    BY <1>1, <1>7, <2>1, CompleteType DEF CHackWb
  <2>2. CASE ~Complete(nextPc)
    BY <1>7, <2>2 DEF CHackWb, CpuTypeOK, CpuState
  <2> QED
    BY <2>1, <2>2
<1>8. CASE CHackWrD
  BY <1>8 DEF CHackWrD, CpuTypeOK, CpuState
<1>9. CASE CMulDivWait(nextPc)
  <2>1. CASE Complete(nextPc)
    BY <1>1, <1>9, <2>1, CompleteType DEF CMulDivWait
  <2>2. CASE ~Complete(nextPc)
    BY <1>9, <2>2 DEF CMulDivWait, CpuTypeOK, CpuState
  <2> QED
    BY <2>1, <2>2
<1> QED
  BY <1>3, <1>4, <1>5, <1>6, <1>7, <1>8, <1>9 DEF CpuClock

-----------------------------------------------------------------------------
\* The wires of soc_top carry what the components' ports expect.
LEMMA WireTypes ==
  ASSUME TypeOK
  PROVE  /\ FetchPort \in FetchPortType /\ DataPort \in DataPortType
         /\ InvPort \in InvType /\ ProbePort \in ProbeType
         /\ IMemPort \in IMemPortType /\ DMemPort \in MemPortType
         /\ Request \in RequestType /\ FillHold \in BOOLEAN
         /\ DIdx(cIns) \in DIndex /\ IIdx(cPc) \in IIndex
<1>1. cPc.blk \in Blocks /\ cPc.off \in Offs /\ cPc.sel \in BOOLEAN
  BY PcsType DEF TypeOK, CpuTypeOK
<1>2. /\ cIns.blk \in Blocks /\ cIns.off \in Offs /\ cIns.sel \in BOOLEAN
      /\ cIns.data \in Word /\ cIns.strb \in SUBSET Lanes
  BY DEF TypeOK, CpuTypeOK
<1>3. FetchPort \in FetchPortType
  BY <1>1 DEF FetchPort, FetchPortType, FetchReq, CpuSoftRst
<1>4. DataPort \in DataPortType
  BY <1>2 DEF DataPort, DataPortType, DataReq, MemWrite
<1>5. InvPort \in InvType
  BY <1>2 DEF InvPort, InvType, DataReq
<1>6. ProbePort \in ProbeType
  BY <1>1 DEF ProbePort, ProbeType, IMiss
<1>7. IMemPort \in IMemPortType /\ DMemPort \in MemPortType
  BY DEF IMemPort, DMemPort, IMemPortType, MemPortType, BInstrReady, BDataReady, TypeOK, PsramTypeOK
<1>8. Request \in RequestType
  <2>1. DMemBlk \in Blocks
    BY DBlockType DEF DMemBlk, TypeOK, DcacheTypeOK
  <2>2. dWordQ.data \in Word /\ dWordQ.mask \in SUBSET Lanes
    BY DEF TypeOK, DcacheTypeOK, DWordEntry
  <2>3. BReqValid(IMemSel, DMemSel, CpuSoftRst) \in BOOLEAN /\ (DMemSel /\ DMemWe) \in BOOLEAN
    BY DEF BReqValid
  <2>4. (IF DMemSel THEN DMemBlk ELSE cPc.blk) \in Blocks
    BY <1>1, <2>1
  <2> QED
    BY <2>2, <2>3, <2>4 DEF Request, RequestType
<1>9. FillHold \in BOOLEAN
  BY DEF FillHold, ProbeDirty
<1>10. DIdx(cIns) \in DIndex /\ IIdx(cPc) \in IIndex
  BY <1>1, <1>2, DcacheSplitAssumption, IcacheSplitAssumption DEF DIdx, IIdx, DIndex, IIndex
<1> QED
  BY <1>3, <1>4, <1>5, <1>6, <1>7, <1>8, <1>9, <1>10

\* rst_n leaves both caches well typed; their RAMs keep what they have.
LEMMA CacheResetType ==
  ASSUME DcacheTypeOK, IcacheTypeOK, DcacheReset, IcacheReset
  PROVE  DcacheTypeOK' /\ IcacheTypeOK'
BY Zeros, TagsNonEmpty
DEF DcacheTypeOK, IcacheTypeOK, DcacheReset, IcacheReset, dRams, iRams, DIndex, IIndex

\* The power-on state is well typed and no burst runs.
LEMMA InitType == ASSUME Init PROVE TypeOK /\ BurstInv
<1>1. DcacheTypeOK
  <2>1. <<0, 0>> \in DIndex
    BY Zeros DEF DIndex
  <2>2. dTags \in [DLines -> DTagEntry] /\ dTagQ \in DTagEntry
    BY Zeros DEF Init, DcacheInit
  <2>3. dWords \in [DIndex -> DWordEntry]
    BY DEF Init, DcacheInit, DWordEntry
  <2>4. dWordQ \in DWordEntry
    BY <2>1, <2>3 DEF Init, DcacheInit
  <2> QED
    BY <2>1, <2>2, <2>3, <2>4, Zeros, TagsNonEmpty DEF Init, DcacheInit, DRegsReset, DcacheTypeOK
<1>2. IcacheTypeOK
  <2>1. <<0, 0>> \in IIndex
    BY Zeros DEF IIndex
  <2>2. iTags \in [ILines -> ITagEntry] /\ iTagQ \in ITagEntry
    BY Zeros DEF Init, IcacheInit
  <2>3. iWords \in [IIndex -> Word]
    BY DEF Init, IcacheInit
  <2>4. iWordQ \in Word
    BY <2>1, <2>3 DEF Init, IcacheInit
  <2> QED
    BY <2>1, <2>2, <2>3, <2>4, Zeros DEF Init, IcacheInit, IRegsReset, IcacheTypeOK
<1>3. PsramTypeOK /\ BurstInv
  <2>1. INIT_CYCLES \in 0 .. INIT_CYCLES /\ 0 \in Nat /\ 0 \in 0 .. LineWords
    BY LatencyAssumption, SizeAssumption
  <2>2. (CHOOSE b \in Blocks : TRUE) \in Blocks
    BY NonEmptyAssumption
  <2>3. pMem \in [Blocks -> [Offs -> Word]] /\ pRdata \in Word
    BY NoDataType DEF Init, PsramInit
  <2>4. PsramTypeOK
    BY <2>1, <2>2, <2>3, Zenon DEF Init, PsramInit, PRegsReset, PsramTypeOK
  <2>5. BurstInv
    BY DEF Init, PsramInit, PRegsReset, BurstInv
  <2> QED
    BY <2>4, <2>5
<1>4. CpuTypeOK
  <2>1. cIns \in InsType
    BY BetweenType DEF Init, CpuInit
  <2>2. cPc \in Pcs(cRiscv)
    BY ResetPcType DEF Init, CpuInit
  <2> QED
    BY <2>1, <2>2 DEF Init, CpuInit, CpuTypeOK, CpuState, InsType
<1>5. BridgeTypeOK
  BY DEF Init, BridgeInit, BridgeTypeOK
<1>6. porCounter \in 0 .. POR_CYCLES /\ gRstCnt \in 0 .. RST_PULSE /\ gBoot \in BOOLEAN
  BY ResetAssumption DEF Init, GpioInit
<1> QED
  BY <1>1, <1>2, <1>3, <1>4, <1>5, <1>6 DEF TypeOK

\* A clock edge keeps the types of soc_xmem_bridge.
LEMMA BridgeClockType ==
  ASSUME BridgeTypeOK, NEW f, NEW d \in BOOLEAN, NEW s, NEW r, NEW l, BridgeClock(f, d, s, r, l)
  PROVE  BridgeTypeOK'
BY DEF BridgeClock, BridgeTypeOK, bvars

\* The soft reset's pulse counter and the boot mode keep their types.
LEMMA GpioType ==
  ASSUME TypeOK, GpioClock \/ GpioReset PROVE gRstCnt' \in 0 .. RST_PULSE /\ gBoot' \in BOOLEAN
<1>1. CASE GpioReset
  BY <1>1, ResetAssumption DEF GpioReset
<1>2. CASE MemWrite /\ ~cIns.sel /\ gRstCnt' = RST_PULSE /\ gBoot' \in BootModes
  BY <1>2, ResetAssumption
<1>3. CASE gRstCnt' = (IF CpuSoftRst THEN gRstCnt - 1 ELSE 0) /\ gBoot' = gBoot
  BY <1>3, ResetAssumption DEF TypeOK, CpuSoftRst
<1> QED
  BY <1>1, <1>2, <1>3 DEF GpioClock

\* Every step of the window keeps TypeOK and BurstInv.
LEMMA NextType == ASSUME TypeOK, BurstInv, [Next]_vars PROVE TypeOK' /\ BurstInv'
<1> USE DEF TypeOK
<1>1. CASE PorClock
  <2>1. DcacheTypeOK'
    BY <1>1, WireTypes, DcacheClockType DEF PorClock
  <2>2. IcacheTypeOK'
    BY <1>1, WireTypes, IcacheClockType DEF PorClock
  <2>3. PsramTypeOK' /\ BurstInv'
    BY <1>1, WireTypes, PsramClockType, BurstClock DEF PorClock
  <2>4. CpuTypeOK'
    BY <1>1, CSoftResetType DEF PorClock, CpuReset
  <2>5. BridgeTypeOK'
    BY <1>1 DEF PorClock, BridgeReset, BridgeTypeOK
  <2>6. porCounter' \in 0 .. POR_CYCLES
    BY <1>1, ResetAssumption DEF PorClock, RawRst
  <2>7. gRstCnt' \in 0 .. RST_PULSE /\ gBoot' \in BOOLEAN
    BY <1>1, GpioType DEF PorClock
  <2> QED
    BY <2>1, <2>2, <2>3, <2>4, <2>5, <2>6, <2>7
<1>2. CASE Clock
  <2>0. PICK nextPc \in NextPcs :
          /\ IF CpuSoftRst
             THEN CSoftReset(gBoot)
             ELSE CpuClock(nextPc, InstrReady, DataReady)
          /\ DcacheClock(DataPort, DIdx(cIns), DMemPort, ProbePort, FALSE)
          /\ IcacheClock(FetchPort, IIdx(PcOut(nextPc)), IMemPort, InvPort, FillHold, FALSE)
    BY <1>2 DEF Clock
  <2>a. PcOut(nextPc) \in Pcs(cRiscv)
    BY DEF PcOut, NextPcs, CpuTypeOK
  <2>b. IIdx(PcOut(nextPc)) \in IIndex
    BY <2>a, PcsType, IcacheSplitAssumption DEF IIdx, IIndex, CpuTypeOK
  <2>1. DcacheTypeOK'
    BY <2>0, WireTypes, DcacheClockType
  <2>2. IcacheTypeOK'
    BY <2>0, <2>b, WireTypes, IcacheClockType
  <2>3. PsramTypeOK' /\ BurstInv'
    BY <1>2, WireTypes, PsramClockType, BurstClock DEF Clock
  <2>4. CpuTypeOK'
    BY <2>0, CSoftResetType, CpuClockType
  <2>5. BridgeTypeOK'
    BY <1>2, BridgeClockType DEF Clock, DMemSel
  <2>6. porCounter' \in 0 .. POR_CYCLES
    BY <1>2 DEF Clock
  <2>7. gRstCnt' \in 0 .. RST_PULSE /\ gBoot' \in BOOLEAN
    BY <1>2, GpioType DEF Clock
  <2> QED
    BY <2>1, <2>2, <2>3, <2>4, <2>5, <2>6, <2>7
<1>3. CASE Reset
  <2>1. DcacheTypeOK' /\ IcacheTypeOK'
    BY <1>3, CacheResetType DEF Reset
  <2>2. PsramTypeOK' /\ BurstInv'
    BY <1>3, PsramResetType DEF Reset
  <2>3. CpuTypeOK'
    BY <1>3, CSoftResetType DEF Reset, CpuReset
  <2>4. BridgeTypeOK'
    BY <1>3 DEF Reset, BridgeReset, BridgeTypeOK
  <2>5. porCounter' \in 0 .. POR_CYCLES /\ gRstCnt' \in 0 .. RST_PULSE /\ gBoot' \in BOOLEAN
    BY <1>3, ResetAssumption, GpioType DEF Reset
  <2> QED
    BY <2>1, <2>2, <2>3, <2>4, <2>5
<1>4. CASE UNCHANGED vars
  <2>1. DcacheTypeOK'
    BY <1>4 DEF DcacheTypeOK, vars, dvars, dRams, dRegs, dFsm
  <2>2. IcacheTypeOK'
    BY <1>4 DEF IcacheTypeOK, vars, ivars, iRams, iRegs
  <2>3. PsramTypeOK' /\ BurstInv'
    BY <1>4 DEF PsramTypeOK, BurstInv, WriteCursor, ReadCursor, vars, pvars
  <2>4. CpuTypeOK' /\ BridgeTypeOK'
    BY <1>4 DEF CpuTypeOK, BridgeTypeOK, vars, cvars, bvars
  <2> QED
    BY <1>4, <2>1, <2>2, <2>3, <2>4 DEF vars
<1> QED
  BY <1>1, <1>2, <1>3, <1>4 DEF Next

\* Every register of the window keeps its type, whatever the sizes, the latencies and
\* the program; with it, a burst of the controller is always where its cycle says.
THEOREM TypeCorrect == Spec => [](TypeOK /\ BurstInv)
<1>1. Init => TypeOK /\ BurstInv
  BY InitType
<1>2. TypeOK /\ BurstInv /\ [Next]_vars => TypeOK' /\ BurstInv'
  BY NextType
<1> QED
  BY <1>1, <1>2, PTL DEF Spec

\* The registers of the window keep their types.
COROLLARY TypeOKTheorem == Spec => []TypeOK
BY TypeCorrect, PTL

-----------------------------------------------------------------------------
\* The power-on reset counts in step with both sweeps and with the power-up of the
\* controller, until each of them is done.
SweepInv ==
  /\ dSwept \/ (dSweepIdx = porCounter /\ porCounter < DLINES)
  /\ iSwept \/ (iSweepIdx = porCounter /\ porCounter < ILINES)
  /\ pInit = 0 \/ pInit = INIT_CYCLES - porCounter

\* Once the power-on reset is over the sweeps and the power-up are.
LEMMA SweptWhenRunning == ASSUME TypeOK, SweepInv PROVE SweptBeforeStart
BY ResetAssumption, SizeAssumption, LatencyAssumption
DEF SweepInv, SweptBeforeStart, RawRst, TypeOK, PsramTypeOK

\* Each clock edge of the power-on reset sweeps one line of each cache.
LEMMA SweepStep == ASSUME TypeOK, SweepInv, [Next]_vars PROVE SweepInv'
<1>1. CASE PorClock
  <2>0. porCounter' = porCounter + 1 /\ porCounter \in Nat
    BY <1>1, ResetAssumption DEF PorClock, TypeOK
  <2>1. dSwept' \/ (dSweepIdx' = porCounter' /\ porCounter' < DLINES)
    <3>1. DSweep(TRUE)
      BY <1>1 DEF PorClock, DcacheClock
    <3>2. CASE dSwept
      BY <3>1, <3>2 DEF DSweep
    <3>3. CASE ~dSwept
      <4>1. /\ dSweepIdx' = (porCounter + 1) % DLINES /\ dSwept' = (porCounter = DLINES - 1)
            /\ porCounter < DLINES
        BY <3>1, <3>3 DEF DSweep, SweepInv
      <4>2. CASE porCounter = DLINES - 1
        BY <4>1, <4>2
      <4>3. CASE porCounter # DLINES - 1
        <5>1. porCounter + 1 < DLINES /\ (porCounter + 1) % DLINES = porCounter + 1
          BY <2>0, <4>1, <4>3, SizeAssumption
        <5> QED
          BY <2>0, <4>1, <5>1
      <4> QED
        BY <4>2, <4>3
    <3> QED
      BY <3>2, <3>3
  <2>2. iSwept' \/ (iSweepIdx' = porCounter' /\ porCounter' < ILINES)
    <3>1. ISweep(TRUE)
      BY <1>1 DEF PorClock, IcacheClock
    <3>2. CASE iSwept
      BY <3>1, <3>2 DEF ISweep
    <3>3. CASE ~iSwept
      <4>1. /\ iSweepIdx' = (porCounter + 1) % ILINES /\ iSwept' = (porCounter = ILINES - 1)
            /\ porCounter < ILINES
        BY <3>1, <3>3 DEF ISweep, SweepInv
      <4>2. CASE porCounter = ILINES - 1
        BY <4>1, <4>2
      <4>3. CASE porCounter # ILINES - 1
        <5>1. porCounter + 1 < ILINES /\ (porCounter + 1) % ILINES = porCounter + 1
          BY <2>0, <4>1, <4>3, SizeAssumption
        <5> QED
          BY <2>0, <4>1, <5>1
      <4> QED
        BY <4>2, <4>3
    <3> QED
      BY <3>2, <3>3
  <2>3. pInit' = 0 \/ pInit' = INIT_CYCLES - porCounter'
    <3>1. pInit' = IF pInit = 0 THEN 0 ELSE pInit - 1
      BY <1>1 DEF PorClock, PsramClock
    <3> QED
      BY <2>0, <3>1, LatencyAssumption DEF SweepInv
  <2> QED
    BY <2>1, <2>2, <2>3 DEF SweepInv
<1>2. CASE Clock
  <2>1. dSwept /\ iSwept /\ pInit = 0
    BY <1>2, SweptWhenRunning DEF Clock, SweptBeforeStart
  <2>2. dSwept' = dSwept
    BY <1>2, <2>1 DEF Clock, DcacheClock, DSweep
  <2>3. iSwept' = iSwept
    BY <1>2, <2>1 DEF Clock, IcacheClock, ISweep
  <2>4. pInit' = 0
    BY <1>2, <2>1 DEF Clock, PsramClock
  <2> QED
    BY <2>1, <2>2, <2>3, <2>4 DEF SweepInv
<1>3. CASE Reset
  BY <1>3, SizeAssumption, LatencyAssumption
  DEF Reset, DcacheReset, IcacheReset, PsramReset, SweepInv
<1>4. CASE UNCHANGED vars
  BY <1>4 DEF SweepInv, vars, dvars, dRegs, ivars, iRegs, pvars
<1> QED
  BY <1>1, <1>2, <1>3, <1>4 DEF Next

\* soc_top's power-on counter is long enough for any cache size below it: the CPU
\* never runs while a cache is swept or the PSRAM powers up, after any reset.
THEOREM SweptBeforeStartTheorem == Spec => []SweptBeforeStart
<1>1. Init => SweepInv
  BY SizeAssumption, LatencyAssumption
  DEF Init, DcacheInit, IcacheInit, PsramInit, DRegsReset, IRegsReset, PRegsReset, SweepInv
<1>2. TypeOK /\ SweepInv /\ [Next]_vars => SweepInv'
  BY SweepStep
<1>3. TypeOK /\ SweepInv => SweptBeforeStart
  BY SweptWhenRunning
<1> QED
  BY <1>1, <1>2, <1>3, TypeOKTheorem, PTL DEF Spec

-----------------------------------------------------------------------------
\* The controller's side of a transfer.

\* The array's clock edge, one condition after the other.
LEMMA ArrayClock ==
  ASSUME NEW req, PsramClock(req)
  PROVE  /\ PReadWord => pMem' = pMem /\ pRdata' = pMem[pBlk][pCursor]
         /\ ~PReadWord => pRdata' = pRdata
         /\ ~PReadWord /\ PAccept(req) /\ req.we =>
              pMem' = [pMem EXCEPT ![req.blk][0] = MergeBytes(@, req.wdata, req.wstrb)]
         /\ ~PReadWord /\ ~PAccept(req) /\ pTakeWord =>
              pMem' = [pMem EXCEPT ![pBlk][pCursor] = MergeBytes(@, req.wdata, req.wstrb)]
         /\ ~(PAccept(req) /\ req.we) /\ ~(~PAccept(req) /\ pTakeWord) => pMem' = pMem
BY DEF PsramClock, PArrayClock

\* No request, no burst: nothing happens.
LEMMA BurstNone ==
  ASSUME PsramTypeOK, BurstInv, ~pBusy, NEW req, ~req.valid, PsramClock(req)
  PROVE  /\ ~pBusy' /\ ~pRspValid' /\ ~pRspLast' /\ pMem' = pMem /\ pRdata' = pRdata
         /\ UNCHANGED <<pCursor, pBlk, pWe>>
<1>1. ~PAccept(req) /\ ~PReadWord /\ ~PWriteRsp /\ ~pTakeWord
  BY DEF PsramTypeOK, BurstInv, PAccept, PReadWord, PWriteRsp
<1>2. pMem' = pMem /\ pRdata' = pRdata
  BY <1>1, ArrayClock
<1> QED
  BY <1>1, <1>2 DEF PsramClock

\* A request the controller is ready for starts a burst.
LEMMA BurstStart ==
  ASSUME PsramTypeOK, BurstInv, ~pBusy, pInit = 0, NEW req \in RequestType, req.valid, PsramClock(req)
  PROVE  /\ pBusy' /\ pElapsed' = 1 /\ pWe' = req.we /\ pBlk' = req.blk
         /\ pCursor' = (IF req.we THEN 1 ELSE 0)
         /\ ~pRspValid' /\ ~pRspLast' /\ ~pTakeWord'
         /\ pMem' = IF req.we
                    THEN [pMem EXCEPT ![req.blk][0] = MergeBytes(@, req.wdata, req.wstrb)]
                    ELSE pMem
<1>1. PAccept(req) /\ ~PReadWord /\ ~PWriteRsp /\ ~pWdataNext
  BY DEF PsramTypeOK, BurstInv, PAccept, PReqReady, PReadWord, PWriteRsp
<1>2. pMem' = IF req.we
              THEN [pMem EXCEPT ![req.blk][0] = MergeBytes(@, req.wdata, req.wstrb)]
              ELSE pMem
  BY <1>1, ArrayClock DEF RequestType
<1> QED
  BY <1>1, <1>2 DEF PsramClock

\* A read burst goes on until its last answer, in step with the cache's counter.
LEMMA BurstRead ==
  ASSUME PsramTypeOK, BurstInv, NEW cnt \in Offs, NEW blk, Reading(cnt, blk), NEW req, PsramClock(req)
  PROVE  /\ pBusy' /\ ~pWe' /\ pBlk' = blk /\ pElapsed' = pElapsed + 1 /\ pMem' = pMem
         /\ pRspLast => pRspValid /\ ~pRspValid' /\ ~pRspLast'
         /\ pRspValid => (cnt = LineWords - 1 <=> pRspLast)
         /\ ~pRspLast =>
              /\ pElapsed' <= LastWordAt
              /\ pRspValid' <=> pElapsed' >= BURST_READ_AT /\ pElapsed' % 2 = 0
              /\ pRspLast' <=> pElapsed' = LastWordAt
              /\ pCursor' = pCursor + (IF pRspValid' THEN 1 ELSE 0)
         /\ pRspValid' => pRdata' = pMem[pBlk][pCursor]
<1>1. pElapsed \in Nat /\ pElapsed >= 1 /\ PNext = pElapsed + 1 /\ LastWordAt = BURST_READ_AT + Twice
  BY DEF PsramTypeOK, BurstInv, Reading, PNext, LastWordAt
<1>a. LastWordAt \in Nat /\ LastWordAt % 2 = 0 /\ LastWordAt >= BURST_READ_AT
  BY <1>1, BurstNumbers
<1>2. ~PAccept(req) /\ ~pTakeWord /\ ~PWriteRsp
  BY DEF Reading, BurstInv, PAccept, PReqReady, PWriteRsp, PsramTypeOK
<1>3. PReadWord <=> PNext >= BURST_READ_AT /\ PNext <= LastWordAt /\ PNext % 2 = 0
  BY <1>1 DEF PReadWord, Reading
<1>4. ReadyAt(pWe) = LastWordAt + 3
  BY <1>1, ReadyAtNumber, BurstNumbers DEF Reading, PsramTypeOK
<1>5. PNext # ReadyAt(pWe)
  BY <1>1, <1>4, BurstNumbers DEF Reading
<1>6. pBusy' /\ pElapsed' = PNext /\ pWe' = pWe /\ pBlk' = pBlk
  BY <1>2, <1>5 DEF PsramClock, Reading
<1>7. /\ pCursor' = IF PReadWord THEN pCursor + 1 ELSE pCursor
      /\ pRspValid' <=> PReadWord
      /\ pRspLast' <=> PReadWord /\ PNext = LastWordAt
      /\ pMem' = pMem /\ (PReadWord => pRdata' = pMem[pBlk][pCursor])
  <2>1. pMem' = pMem /\ (PReadWord => pRdata' = pMem[pBlk][pCursor])
    BY <1>2, ArrayClock
  <2> QED
    BY <1>1, <1>2, <2>1 DEF PsramClock, Reading
<1>8. pRspLast => pRspValid /\ ~PReadWord
  BY <1>1, <1>3, BurstNumbers DEF Reading
<1>9. pRspValid => (cnt = LineWords - 1 <=> pRspLast)
  BY <1>1, BurstNumbers DEF Reading, BurstInv, ReadCursor, PsramTypeOK, Offs
<1>10. ASSUME ~pRspLast PROVE PNext <= LastWordAt /\ (PReadWord <=> PNext >= BURST_READ_AT /\ PNext % 2 = 0)
  BY <1>1, <1>3, <1>10, BurstNumbers DEF Reading
<1> QED
  BY <1>1, <1>a, <1>3, <1>6, <1>7, <1>8, <1>9, <1>10 DEF Reading, PsramTypeOK

\* The two cycles after the last answer of a read.
LEMMA BurstRecover ==
  ASSUME PsramTypeOK, BurstInv, pBusy, ~pWe, pElapsed > LastWordAt, NEW req, PsramClock(req)
  PROVE  /\ ~pRspValid' /\ ~pRspLast' /\ pMem' = pMem /\ ~pWe'
         /\ pBusy' => pElapsed' = LastWordAt + 2 /\ pElapsed = LastWordAt + 1
<1>1. /\ pElapsed \in Nat /\ PNext = pElapsed + 1 /\ LastWordAt = BURST_READ_AT + Twice
      /\ LastWordAt \in Nat
  BY BurstNumbers DEF PsramTypeOK, PNext, LastWordAt
<1>2. ~PAccept(req) /\ ~pTakeWord /\ ~PWriteRsp /\ ~PReadWord
  <2>1. ~PAccept(req) /\ ~pTakeWord /\ ~PWriteRsp
    BY DEF BurstInv, PAccept, PReqReady, PWriteRsp
  <2>2. ~(PNext <= BURST_READ_AT + Twice)
    BY <1>1
  <2> QED
    BY <2>1, <2>2 DEF PReadWord
<1>3. ReadyAt(pWe) = LastWordAt + 3
  BY <1>1, ReadyAtNumber, BurstNumbers DEF PsramTypeOK
<1>4. pElapsed <= LastWordAt + 2 /\ LastWordAt \in Nat
  BY <1>1, <1>3 DEF BurstInv
<1>5. pMem' = pMem
  BY <1>2, ArrayClock
<1>6. /\ ~pRspValid' /\ ~pRspLast' /\ ~pWe'
      /\ pBusy' => PNext # ReadyAt(pWe) /\ pElapsed' = PNext
  BY <1>2 DEF PsramClock
<1> QED
  BY <1>1, <1>3, <1>4, <1>5, <1>6

\* A write burst goes on until its answer; the cache's counter follows wdata_next.
LEMMA BurstWrite ==
  ASSUME PsramTypeOK, BurstInv, dCnt \in Offs, Writing, NEW req, PsramClock(req)
  PROVE  /\ pBlk' = pBlk /\ pWe' /\ (pRspValid' <=> ~pBusy') /\ (pRspLast' <=> ~pBusy')
         /\ pWdataNext => dCnt + 1 \in Offs
         /\ pBusy' => pCursor' + (IF pTakeWord' THEN 1 ELSE 0) = dCnt + 1 + (IF pWdataNext THEN 1 ELSE 0)
         /\ ~pBusy' => ~pWdataNext /\ ~pTakeWord /\ dCnt = LineWords - 1 /\ pCursor = LineWords
         /\ pCursor' = pCursor + (IF pTakeWord THEN 1 ELSE 0)
         /\ pMem' = IF pTakeWord
                    THEN [pMem EXCEPT ![pBlk][pCursor] = MergeBytes(@, req.wdata, req.wstrb)]
                    ELSE pMem
<1>1. pElapsed \in Nat /\ pElapsed >= 1 /\ PNext = pElapsed + 1 /\ pCursor \in Nat /\ dCnt \in Nat
  BY SizeAssumption DEF PsramTypeOK, BurstInv, Writing, PNext, Offs
<1>2. ~PAccept(req) /\ ~PReadWord
  BY DEF Writing, PAccept, PReqReady, PReadWord
<1>3. ReadyAt(pWe) = WDATA_NEXT_AT + 6 + Twice /\ ReadyAt(TRUE) = ReadyAt(pWe)
  BY ReadyAtNumber DEF Writing, PsramTypeOK
<1>4. /\ pBusy' <=> PNext # ReadyAt(pWe)
      /\ pWe' = pWe /\ pBlk' = pBlk
      /\ pCursor' = IF pTakeWord THEN pCursor + 1 ELSE pCursor
      /\ pRspValid' <=> PNext = ReadyAt(pWe)
      /\ pRspLast' <=> PNext = ReadyAt(pWe)
      /\ pTakeWord' = pWdataNext
  BY <1>2, <1>3 DEF PsramClock, Writing, PWriteRsp
<1>5. WriteCursor /\ (pWdataNext <=> WordDueAt(pElapsed)) /\ (pTakeWord <=> WordDueAt(pElapsed - 1))
  BY DEF BurstInv, Writing
<1>6. ASSUME pWdataNext PROVE dCnt + 1 \in Offs
  <2>1. /\ pElapsed > WDATA_NEXT_AT /\ pElapsed <= WDATA_NEXT_AT + Twice /\ pElapsed % 2 = 0
    BY <1>5, <1>6 DEF WordDueAt
  <2>2. PICK x \in Nat : x = pElapsed - 1
    BY <1>1
  <2>3. x % 2 = 1
    BY <1>1, <2>1, <2>2, Parity
  <2>4. ~pTakeWord
    BY <1>5, <2>2, <2>3 DEF WordDueAt
  <2>5. pCursor = dCnt + 1
    BY <1>1, <2>4 DEF Writing
  <2> QED
    BY <1>1, <1>5, <2>1, <2>5, BurstNumbers DEF WriteCursor, Offs
<1>7. ASSUME PNext = ReadyAt(pWe)
      PROVE  ~pWdataNext /\ ~pTakeWord /\ dCnt = LineWords - 1 /\ pCursor = LineWords
  <2>1. pElapsed = WDATA_NEXT_AT + 5 + Twice
    BY <1>1, <1>3, <1>7, BurstNumbers
  <2>2. ~pWdataNext /\ ~pTakeWord
    BY <1>5, <2>1, BurstNumbers DEF WordDueAt
  <2>3. pCursor = LineWords
    BY <1>1, <1>5, <2>1, BurstNumbers DEF WriteCursor
  <2> QED
    BY <1>1, <2>2, <2>3 DEF Writing
<1>8. pMem' = IF pTakeWord
              THEN [pMem EXCEPT ![pBlk][pCursor] = MergeBytes(@, req.wdata, req.wstrb)]
              ELSE pMem
  BY <1>2, ArrayClock DEF PsramTypeOK
<1>9. pCursor + (IF pTakeWord THEN 1 ELSE 0) = dCnt + 1 /\ pWe
  BY DEF Writing
<1>10. pCursor' = pCursor + (IF pTakeWord THEN 1 ELSE 0)
  BY <1>1, <1>4
<1>11. pCursor' + (IF pTakeWord' THEN 1 ELSE 0) = dCnt + 1 + (IF pWdataNext THEN 1 ELSE 0)
  BY <1>1, <1>4, <1>9, <1>10
<1> QED
  BY <1>4, <1>6, <1>7, <1>8, <1>9, <1>10, <1>11

-----------------------------------------------------------------------------
\* What soc_top's wires say of a transfer: the bridge's answers, by the cache they are for.
DAnswer == DMemSel /\ bBusy /\ bBusyData /\ pRspValid
IAnswer == IMemSel /\ bBusy /\ ~bBusyData /\ pRspValid
DEnd == DAnswer /\ dCnt = LineWords - 1
IEnd == IAnswer /\ iCnt = LineWords - 1

\* The bridge's answers, as the caches see them.
LEMMA Answers ==
  /\ DDone(DMemPort) <=> DAnswer
  /\ DLast(DMemPort) <=> DEnd
  /\ IWordWe(IMemPort) <=> IAnswer
  /\ ILast(IMemPort) <=> IEnd
  /\ DMemPort.wnext = pWdataNext /\ DMemPort.rdata = pRdata /\ IMemPort.rdata = pRdata
<1>1. DMemPort.ready <=> ~DMemSel \/ (bBusy /\ pRspValid /\ bBusyData)
  BY DEF DMemPort, BDataReady, BDone
<1>2. IMemPort.ready <=> ~IMemSel \/ (bBusy /\ pRspValid /\ ~bBusyData)
  BY DEF IMemPort, BInstrReady, BDone
<1>3. DMemPort.wnext = pWdataNext /\ DMemPort.rdata = pRdata /\ IMemPort.rdata = pRdata
  BY DEF DMemPort, IMemPort
<1> QED
  BY <1>1, <1>2, <1>3 DEF DDone, DLast, IWordWe, ILast, DAnswer, DEnd, IAnswer, IEnd

\* The fields of the CPU's two ports.
LEMMA Ports ==
  /\ FetchPort.win <=> FetchReq /\ ~CpuSoftRst /\ cPc.sel
  /\ FetchPort.blk = cPc.blk /\ FetchPort.off = cPc.off
  /\ DataPort.win <=> DataReq /\ cIns.sel
  /\ DataPort.we <=> MemWrite
  /\ DataPort.blk = cIns.blk /\ DataPort.off = cIns.off
  /\ DataPort.wdata = cIns.data /\ DataPort.wstrb = cIns.strb
  /\ ProbePort.req <=> IMiss(FetchPort)
  /\ ProbePort.blk = cPc.blk
  /\ InvPort.on <=> DataPort.win /\ DataPort.we /\ DataReady
  /\ InvPort.blk = cIns.blk
BY DEF FetchPort, DataPort, ProbePort, InvPort

\* The CPU fetches or accesses data, and does neither in the soft reset.
LEMMA Exclusive ==
  ASSUME CpuInv
  PROVE  /\ DataPort.win => ~FetchPort.win
         /\ DataPort.win => ~CpuSoftRst
         /\ FetchPort.win => ~CpuSoftRst
<1>1. DataReq => cState \notin {"FETCH", "HACK_WR_D"}
  BY DEF DataReq, MemWrite
<1> QED
  BY <1>1, Ports DEF CpuInv, FetchReq

\* An access that is not answered stays on the bus.
LEMMA CpuHolds ==
  ASSUME CpuInv, Clock,
         (DataPort.win /\ ~DHit(DataPort)) \/ (FetchPort.win /\ ~IHit(FetchPort))
  PROVE  /\ UNCHANGED cvars /\ gRstCnt = 0 /\ gRstCnt' = 0
         /\ FetchPort' = FetchPort /\ DataPort' = DataPort
         /\ ~CpuSoftRst
<1>1. ~CpuSoftRst /\ gRstCnt = 0
  BY Exclusive DEF CpuSoftRst
<1>2. PICK nextPc \in NextPcs : CpuClock(nextPc, InstrReady, DataReady)
  BY <1>1 DEF Clock
<1>3. CASE DataPort.win /\ ~DHit(DataPort)
  <2>1. ~DataReady /\ cIns.sel /\ DataReq
    BY <1>3, Ports DEF DataReady, DDataReady
  <2>2. UNCHANGED cvars
    BY <1>2, <2>1
    DEF CpuClock, CFetch, CExecute, CMemWait, CAmoCalc, CHackWb, CHackWrD, CMulDivWait,
        DataReq, MemWrite, cvars
  <2>3. gRstCnt' = 0
    BY <1>1, <2>1 DEF Clock, GpioClock
  <2> QED
    BY <1>1, <2>2, <2>3
    DEF FetchPort, DataPort, FetchReq, DataReq, MemWrite, CpuSoftRst, cvars
<1>4. CASE FetchPort.win /\ ~IHit(FetchPort)
  <2>1. ~InstrReady /\ cState = "FETCH"
    BY <1>4, Ports DEF InstrReady, IInstrReady, FetchReq
  <2>2. UNCHANGED cvars
    BY <1>2, <2>1
    DEF CpuClock, CFetch, CExecute, CMemWait, CAmoCalc, CHackWb, CHackWrD, CMulDivWait, cvars
  <2>3. gRstCnt' = 0
    BY <1>1, <2>1 DEF Clock, GpioClock, MemWrite
  <2> QED
    BY <1>1, <2>2, <2>3
    DEF FetchPort, DataPort, FetchReq, DataReq, MemWrite, CpuSoftRst, cvars
<1> QED
  BY <1>3, <1>4

\* What a fetched word decodes to: stores and AMOs are RV32's.
LEMMA DecodedOps ==
  /\ \A a : \A r \in BOOLEAN : \A i \in Instructions(r, a) : i.op \in {"store", "amo"} => r
  /\ \A r \in BOOLEAN : \A i \in Between(r) : i.op = "none"
BY DEF Instructions, HackInstructions, Between, Ins

\* The FSM of unified_cpu keeps to its accesses; the store that soft-resets is over by then.
LEMMA CpuInvStep == ASSUME TypeOK, CpuInv, Clock PROVE CpuInv'
<1>1. CASE CpuSoftRst
  <2>1. CSoftReset(gBoot) /\ gBoot \in BOOLEAN
    BY <1>1 DEF Clock, TypeOK
  <2>2. cIns'.op = "none" /\ cState' = "FETCH"
    BY <2>1, DecodedOps DEF CSoftReset
  <2> QED
    BY <2>2 DEF CpuInv
<1>2. CASE ~CpuSoftRst
  <2>1. PICK nextPc \in NextPcs : CpuClock(nextPc, InstrReady, DataReady)
    BY <1>2 DEF Clock
  <2>2. ASSUME Complete(nextPc)
        PROVE  cIns'.op = "none" /\ cState' \in {"FETCH", "HACK_WR_D"}
    BY <2>2, DecodedOps DEF Complete, TypeOK, CpuTypeOK
  <2>3. cIns'.op \in {"store", "amo"} => cRiscv'
    <3>1. CASE CFetch(InstrReady)
      BY <3>1, DecodedOps DEF CFetch, CpuInv, TypeOK, CpuTypeOK
    <3>2. CASE Complete(nextPc)
      BY <2>2, <3>2
    <3>3. CASE ~CFetch(InstrReady) /\ ~Complete(nextPc)
      <4>1. cRiscv' = cRiscv /\ cIns'.op = cIns.op
        BY <2>1, <3>3
        DEF CpuClock, CExecute, CMemWait, CAmoCalc, CHackWb, CHackWrD, CMulDivWait, HackLatched,
            TypeOK, CpuTypeOK
      <4> QED
        BY <4>1 DEF CpuInv
    <3> QED
      BY <3>1, <3>2, <3>3
  <2>4. /\ cState' = "AMO_CALC" => cIns'.op = "amo"
        /\ cState' = "MEM_WAIT" /\ cStoreWe' => cIns'.op \in {"store", "amo"}
    <3>1. CASE Complete(nextPc)
      BY <2>2, <3>1
    <3>2. CASE CAmoCalc
      <4>1. cIns'.op = cIns.op
        BY <3>2 DEF CAmoCalc, TypeOK, CpuTypeOK
      <4> QED
        BY <3>2, <4>1 DEF CAmoCalc, CpuInv
    <3>3. CASE ~Complete(nextPc) /\ CExecute(nextPc, DataReady)
      BY <3>3 DEF CExecute, CpuInv
    <3>4. CASE ~Complete(nextPc) /\ CMemWait(nextPc, DataReady)
      BY <3>4 DEF CMemWait, CpuInv
    <3>5. CASE CFetch(InstrReady) \/ CHackWrD
      BY <3>5 DEF CFetch, CHackWrD
    <3>6. CASE ~Complete(nextPc) /\ (CHackWb(nextPc, DataReady) \/ CMulDivWait(nextPc))
      BY <3>6 DEF CHackWb, CMulDivWait
    <3> QED
      BY <2>1, <3>1, <3>2, <3>3, <3>4, <3>5, <3>6 DEF CpuClock
  <2>5. CpuSoftRst' => cState' \in {"FETCH", "HACK_WR_D"}
    <3>1. SUFFICES ASSUME MemWrite, ~cIns.sel PROVE cState' \in {"FETCH", "HACK_WR_D"}
      BY <1>2 DEF Clock, GpioClock, CpuSoftRst
    <3>2. DataReady
      BY <3>1, Ports DEF DataReady, DDataReady
    <3>3. Complete(nextPc)
      BY <2>1, <3>1, <3>2
      DEF CpuClock, CFetch, CExecute, CMemWait, CAmoCalc, CHackWb, CHackWrD, CMulDivWait,
          CpuInv, MemWrite
    <3> QED
      BY <2>2, <3>3
  <2> QED
    BY <2>3, <2>4, <2>5 DEF CpuInv
<1> QED
  BY <1>1, <1>2

-----------------------------------------------------------------------------
\* A clock edge of the running SoC, component by component.

\* The power-on reset is over, and with it the sweeps.
LEMMA Running ==
  ASSUME TypeOK, SweepInv, Clock
  PROVE  /\ RawRst /\ RawRst' /\ porCounter # 0
         /\ dSwept /\ iSwept /\ pInit = 0 /\ dSwept' /\ iSwept'
<1>1. dSwept /\ iSwept /\ pInit = 0 /\ RawRst
  BY SweptWhenRunning DEF Clock, SweptBeforeStart
<1>2. dSwept' = dSwept
  BY <1>1 DEF Clock, DcacheClock, DSweep
<1>3. iSwept' = iSwept
  BY <1>1 DEF Clock, IcacheClock, ISweep
<1>4. RawRst' /\ porCounter # 0
  BY <1>1, ResetAssumption, SizeAssumption DEF Clock, RawRst
<1> QED
  BY <1>1, <1>2, <1>3, <1>4

\* The bridge takes a request when it is free, and is free again after the last answer.
LEMMA BridgeStep ==
  ASSUME TypeOK, SweepInv, Clock
  PROVE  /\ Request.valid <=> (IMemSel \/ DMemSel) /\ ~bBusy /\ ~CpuSoftRst
         /\ Request.valid /\ ~pBusy => bBusy' /\ (bBusyData' <=> DMemSel)
         /\ ~Request.valid /\ pRspLast => ~bBusy' /\ bBusyData' = bBusyData
         /\ ~Request.valid /\ ~pRspLast => bBusy' = bBusy /\ bBusyData' = bBusyData
<1>1. Request.valid <=> BReqValid(IMemSel, DMemSel, CpuSoftRst)
  BY DEF Request
<1>2. BridgeClock(IMemSel, DMemSel, CpuSoftRst, PReqReady, pRspLast)
  BY DEF Clock
<1>3. PReqReady <=> ~pBusy
  BY Running DEF PReqReady
<1>4. /\ Request.valid /\ ~pBusy => bBusy' /\ (bBusyData' <=> DMemSel)
      /\ ~Request.valid /\ pRspLast => ~bBusy' /\ bBusyData' = bBusyData
      /\ ~Request.valid /\ ~pRspLast => bBusy' = bBusy /\ bBusyData' = bBusyData
  BY <1>1, <1>2, <1>3 DEF BridgeClock, bvars
<1> QED
  BY <1>1, <1>4 DEF BReqValid

\* The counters of both caches, and what marks the words read during a transfer.
LEMMA CounterStep ==
  ASSUME Clock
  PROVE  /\ dCnt' = IF DAnswer \/ pWdataNext THEN (dCnt + 1) % LineWords ELSE dCnt
         /\ iCnt' = IF IAnswer THEN (iCnt + 1) % LineWords ELSE iCnt
         /\ ~DIdle => dStaleQ'
         /\ iReplayQ' <=> ~IIdle
<1>1. dCnt' = DCntNext(DMemPort) /\ (~DIdle => dStaleQ')
  BY DEF Clock, DcacheClock
<1>2. /\ iCnt' = IF IWordWe(IMemPort) THEN (iCnt + 1) % LineWords ELSE iCnt
      /\ iReplayQ' <=> ~IIdle
  BY DEF Clock, IcacheClock
<1> QED
  BY <1>1, <1>2, Answers DEF DCntNext

\* The instruction cache's state.
LEMMA IStateStep ==
  ASSUME TypeOK, Clock
  PROVE  /\ IIdle' <=> ~IMemSel'
         /\ IMemSel' <=> \/ IIdle /\ IMiss(FetchPort) /\ ~ProbeDirty(cPc.blk)
                         \/ IMemSel /\ ~IEnd
<1>1. iState' = IF IStartFill(FetchPort, FillHold) \/ (IMemSel /\ ~ILast(IMemPort)) THEN "FILL" ELSE "IDLE"
  BY DEF Clock, IcacheClock
<1> QED
  BY <1>1, Answers DEF IStartFill, FillHold, IIdle, IMemSel

\* The data cache's state.
LEMMA DStateStep ==
  ASSUME TypeOK, Clock
  PROVE  /\ DMiss(DataPort) =>
              /\ dState' = IF VictimDirty THEN "WB" ELSE "FILL"
              /\ ~dIsProbe' /\ dLineR' = DLineOf[cIns.blk] /\ dPrimed' = dPrimed
              /\ dTagR' = IF VictimDirty THEN dTagQ.tag ELSE DTagOf[cIns.blk]
         /\ ProbeWb(DataPort, ProbePort) =>
              /\ dState' = "WB" /\ dIsProbe'
              /\ dLineR' = DLineOf[cPc.blk] /\ dTagR' = DTagOf[cPc.blk] /\ dPrimed' = dPrimed
         /\ DIdle /\ ~DMiss(DataPort) /\ ~ProbeWb(DataPort, ProbePort) => UNCHANGED dFsm
         /\ dState = "WB" /\ ~DEnd =>
              dPrimed' /\ UNCHANGED <<dState, dIsProbe, dLineR, dTagR>>
         /\ dState = "WB" /\ DEnd =>
              /\ ~dPrimed' /\ dLineR' = dLineR
              /\ dIsProbe => dState' = "IDLE"
              /\ ~dIsProbe => dState' = "FILL" /\ dTagR' = DTagOf[cIns.blk] /\ ~dIsProbe'
         /\ dState = "FILL" =>
              /\ dState' = IF DEnd THEN "IDLE" ELSE "FILL"
              /\ UNCHANGED <<dIsProbe, dPrimed, dLineR, dTagR>>
<1>1. \/ DStartWb(DataPort) \/ DStartFill(DataPort) \/ DStartProbe(DataPort, ProbePort)
      \/ DIdleStay(DataPort, ProbePort) \/ DWriteBack(DMemPort)
      \/ DWriteBackEnd(DataPort, DMemPort) \/ DFill(DMemPort)
  BY DEF Clock, DcacheClock
<1>2. /\ DMiss(DataPort) => DIdle /\ DataPort.win
      /\ ProbeWb(DataPort, ProbePort) => DIdle /\ ~DataPort.win
  BY DEF DMiss, DLookup, ProbeWb
<1> QED
  BY <1>1, <1>2, Answers, Ports
  DEF DStartWb, DStartFill, DStartProbe, DIdleStay, DWriteBack, DWriteBackEnd, DFill, dFsm, DIdle,
      TypeOK, DcacheTypeOK

-----------------------------------------------------------------------------
\* The inductive invariant of the control: no part of it is inductive alone.
WindowInv ==
  /\ TypeOK /\ BurstInv /\ SweepInv
  /\ ControlInv /\ ReadInv /\ SweptInv /\ TagInv /\ HackInv

\* The instruction cache cannot hit a block that the data cache holds dirty.
LEMMA NoHitOnDirty ==
  ASSUME WindowInv, RawRst, ProbeDirty(cPc.blk) PROVE ~IHit(FetchPort)
<1>1. SUFFICES ASSUME IHit(FetchPort) PROVE FALSE
  OBVIOUS
<1>2. porCounter # 0
  BY ResetAssumption, SizeAssumption DEF RawRst
<1>3. cPc.blk \in Blocks
  BY PcsType DEF WindowInv, TypeOK, CpuTypeOK
<1>4. iTagQ = iTags[iRdIdxQ[1]] /\ iRdIdxQ = IIdx(FetchPort)
  BY <1>1, <1>2 DEF WindowInv, ReadInv, IHit
<1>5. iRdIdxQ[1] = ILineOf[cPc.blk]
  BY <1>4, Ports DEF IIdx
<1>6. IHolds(cPc.blk)
  BY <1>1, <1>4, <1>5, Ports DEF IHit, IHolds
<1> QED
  BY <1>3, <1>6 DEF WindowInv, TagInv

\* What a transfer of the data cache is for waits for it.
LEMMA DTransferHolds ==
  ASSUME WindowInv, Clock, ~DIdle
  PROVE  /\ UNCHANGED cvars /\ gRstCnt = 0 /\ gRstCnt' = 0
         /\ FetchPort' = FetchPort /\ DataPort' = DataPort
         /\ ~CpuSoftRst /\ ~DHit(DataPort)
         /\ IIdle /\ IIdle' /\ iCnt = 0 /\ iCnt' = 0
         /\ ~DMiss(DataPort) /\ ~ProbeWb(DataPort, ProbePort)
<1>1. DTransfers /\ CpuInv /\ TypeOK
  BY DEF WindowInv, ControlInv, Transfer
<1>2. ~DHit(DataPort) /\ ~DMiss(DataPort) /\ ~ProbeWb(DataPort, ProbePort)
  BY DEF DHit, DMiss, DLookup, ProbeWb
<1>3. CASE dState = "WB" /\ dIsProbe
  <2>1. FetchPort.win /\ dLineR = DLineOf[cPc.blk] /\ dTagR = DTagOf[cPc.blk]
    BY <1>1, <1>3 DEF DTransfers, DFor
  <2>2. dTags[dLineR] = [valid |-> TRUE, dirty |-> TRUE, tag |-> dTagR] /\ dSwept
    BY <1>3, Running DEF WindowInv, TagInv
  <2>3. ProbeDirty(cPc.blk)
    BY <2>1, <2>2 DEF ProbeDirty
  <2>4. ~IHit(FetchPort)
    BY <2>3, NoHitOnDirty DEF Clock
  <2> QED
    BY <1>1, <1>2, <2>1, <2>3, <2>4, CpuHolds, IStateStep, CounterStep
    DEF DTransfers, IIdle, IMemSel, IAnswer
<1>4. CASE ~(dState = "WB" /\ dIsProbe)
  <2>1. DataPort.win
    BY <1>1, <1>4 DEF DTransfers, DFor
  <2>2. ~IMiss(FetchPort)
    BY <1>1, <2>1, Exclusive DEF IMiss
  <2> QED
    BY <1>1, <1>2, <2>1, <2>2, CpuHolds, IStateStep, CounterStep
    DEF DTransfers, IIdle, IMemSel, IAnswer
<1> QED
  BY <1>3, <1>4

\* No transfer: a miss asks for one once the controller has recovered, and only one cache does.
LEMMA QuietStep ==
  ASSUME WindowInv, Clock, Quiet PROVE Transfer'
<1>1. TypeOK /\ PsramTypeOK /\ BurstInv /\ SweepInv /\ CpuInv /\ PsramClock(Request)
  BY DEF WindowInv, ControlInv, TypeOK, Clock
<1>2. ~DMemSel /\ ~IMemSel /\ ~DAnswer /\ ~IAnswer /\ ~Request.valid /\ DIdle /\ IIdle
  BY <1>1, BridgeStep DEF Quiet, DMemSel, IMemSel, DIdle, IIdle, DAnswer, IAnswer
<1>3. ~pWdataNext
  BY <1>1 DEF Quiet, Recovering, BurstInv
<1>4. dCnt' = 0 /\ iCnt' = 0 /\ ~bBusy'
  BY <1>1, <1>2, <1>3, BridgeStep, CounterStep DEF Quiet, NoRsp
<1>5. NoRsp' /\ (pBusy' => Recovering' /\ pElapsed = LastWordAt + 1 /\ pBusy)
  <2>1. CASE ~pBusy
    BY <1>1, <1>2, <2>1, BurstNone DEF NoRsp
  <2>2. CASE pBusy
    <3>1. ~pWe /\ pElapsed > LastWordAt
      BY <2>2 DEF Quiet, Recovering
    <3>2. /\ ~pRspValid' /\ ~pRspLast' /\ ~pWe'
          /\ pBusy' => pElapsed' = LastWordAt + 2 /\ pElapsed = LastWordAt + 1
      BY <1>1, <2>2, <3>1, BurstRecover
    <3>3. LastWordAt \in Nat
      BY BurstNumbers DEF LastWordAt
    <3>4. LastWordAt' = LastWordAt
      BY DEF LastWordAt, BURST_READ_AT, Twice
    <3> QED
      BY <2>2, <3>2, <3>3, <3>4 DEF NoRsp, Recovering
  <2> QED
    BY <1>1, <2>1, <2>2 DEF PsramTypeOK
<1>6. DataPort.win => ~FetchPort.win
  BY <1>1, Exclusive
<1>7. CASE DMiss(DataPort)
  <2>1. DataPort.win /\ ~dStaleQ /\ ~DHit(DataPort) /\ ~FetchPort.win
    BY <1>6, <1>7 DEF DMiss, DLookup, DHit
  <2>2. ~pBusy'
    BY <1>5, <2>1 DEF Quiet, Recovering
  <2>3. cIns' = cIns /\ DataPort' = DataPort
    BY <1>1, <2>1, CpuHolds DEF cvars
  <2>4. IIdle' /\ ~IMemSel'
    BY <1>1, <1>2, <2>1, IStateStep DEF IMiss
  <2>5. /\ dState' = IF VictimDirty THEN "WB" ELSE "FILL"
        /\ ~dIsProbe' /\ dLineR' = DLineOf[cIns.blk] /\ ~dPrimed'
        /\ dTagR' = IF VictimDirty THEN dTagQ.tag ELSE DTagOf[cIns.blk]
    BY <1>1, <1>7, DStateStep DEF Quiet
  <2>6. DFor'
    BY <2>1, <2>3, <2>5 DEF DFor
  <2>7. DTransfers' /\ ~DIdle'
    BY <1>4, <1>5, <2>2, <2>4, <2>5, <2>6 DEF DTransfers, Asking, DIdle
  <2> QED
    BY <2>4, <2>7 DEF Transfer
<1>8. CASE ProbeWb(DataPort, ProbePort)
  <2>1. IMiss(FetchPort) /\ ProbeDirty(cPc.blk) /\ ~DataPort.win
    BY <1>8, Ports DEF ProbeWb
  <2>2. FetchPort.win /\ ~iReplayQ /\ ~IHit(FetchPort)
    BY <2>1 DEF IMiss, ILookup
  <2>3. ~pBusy'
    BY <1>5, <2>1, <2>2 DEF Quiet, Recovering
  <2>4. cPc' = cPc /\ FetchPort' = FetchPort
    BY <1>1, <2>2, CpuHolds DEF cvars
  <2>5. IIdle' /\ ~IMemSel'
    BY <1>1, <1>2, <2>1, IStateStep
  <2>6. /\ dState' = "WB" /\ dIsProbe'
        /\ dLineR' = DLineOf[cPc.blk] /\ dTagR' = DTagOf[cPc.blk] /\ ~dPrimed'
    BY <1>1, <1>8, DStateStep DEF Quiet
  <2>7. DFor'
    BY <2>2, <2>4, <2>6 DEF DFor
  <2>8. DTransfers' /\ ~DIdle'
    BY <1>4, <1>5, <2>3, <2>5, <2>6, <2>7 DEF DTransfers, Asking, DIdle
  <2> QED
    BY <2>5, <2>8 DEF Transfer
<1>9. CASE ~DMiss(DataPort) /\ ~ProbeWb(DataPort, ProbePort)
  <2>1. DIdle' /\ ~dPrimed'
    BY <1>1, <1>2, <1>9, DStateStep DEF Quiet, DIdle, dFsm
  <2>2. CASE ~IMemSel'
    BY <1>1, <1>4, <1>5, <2>1, <2>2, IStateStep DEF Transfer, Quiet
  <2>3. CASE IMemSel'
    <3>1. IMiss(FetchPort) /\ ~ProbeDirty(cPc.blk)
      BY <1>1, <1>2, <2>3, IStateStep
    <3>2. FetchPort.win /\ ~iReplayQ /\ ~IHit(FetchPort)
      BY <3>1 DEF IMiss, ILookup
    <3>3. ~pBusy'
      BY <1>5, <1>6, <3>2 DEF Quiet, Recovering
    <3>4. FetchPort' = FetchPort
      BY <1>1, <3>2, CpuHolds
    <3>5. ITransfers'
      BY <1>4, <1>5, <2>1, <3>2, <3>3, <3>4 DEF ITransfers, Asking
    <3> QED
      BY <2>1, <2>3, <3>5 DEF Transfer
  <2> QED
    BY <2>2, <2>3
<1> QED
  BY <1>7, <1>8, <1>9

\* A line counter in the middle of a line, and at its end.
LEMMA CountUp ==
  ASSUME NEW n \in Offs
  PROVE  /\ n # LineWords - 1 => (n + 1) % LineWords = n + 1
         /\ n + 1 \in Offs => (n + 1) % LineWords = n + 1
         /\ n = LineWords - 1 => (n + 1) % LineWords = 0
BY SizeAssumption DEF Offs

\* The data cache asks: the bridge takes the request in the first cycle it is there.
LEMMA DAskStep ==
  ASSUME WindowInv, Clock, ~DIdle, Asking(dCnt), dState = "FILL" => ~dPrimed
  PROVE  /\ dState' = dState /\ DTransfers'
         /\ DMemSel => bBusy'
         /\ ~DMemSel => ~bBusy'
<1>1. /\ TypeOK /\ PsramTypeOK /\ BurstInv /\ SweepInv /\ pInit = 0 /\ DFor
      /\ PsramClock(Request) /\ Request \in RequestType /\ dState \in {"WB", "FILL"}
  BY Running, WireTypes
  DEF WindowInv, ControlInv, TypeOK, DcacheTypeOK, Transfer, DTransfers, DIdle, Clock
<1>2. /\ cPc' = cPc /\ cIns' = cIns /\ FetchPort' = FetchPort /\ DataPort' = DataPort
      /\ ~CpuSoftRst /\ IIdle' /\ iCnt' = 0
  BY DTransferHolds DEF cvars
<1>3. ~DAnswer /\ ~DEnd /\ ~pWdataNext /\ ~pRspLast /\ dCnt = 0
  BY <1>1 DEF Asking, DAnswer, DEnd, BurstInv, NoRsp
<1>4. dCnt' = 0
  BY <1>3, CounterStep
<1>5. /\ UNCHANGED <<dState, dIsProbe, dLineR, dTagR>>
      /\ dState = "WB" => dPrimed'
      /\ dState = "FILL" => ~dPrimed'
  BY <1>1, <1>3, DStateStep
<1>6. DFor' /\ DMemBlk' = DMemBlk
  BY <1>1, <1>2, <1>5 DEF DFor, DMemBlk, DBlock
<1>7. CASE ~DMemSel
  <2>1. ~Request.valid /\ ~bBusy'
    BY <1>1, <1>2, <1>3, <1>7, BridgeStep, DTransferHolds DEF Asking, IMemSel, IIdle
  <2>2. ~pBusy' /\ NoRsp'
    BY <1>1, <2>1, BurstNone DEF Asking, NoRsp
  <2> QED
    BY <1>2, <1>4, <1>5, <1>6, <1>7, <2>1, <2>2 DEF DTransfers, Asking
<1>8. CASE DMemSel
  <2>1. Request.valid /\ bBusy' /\ bBusyData'
    BY <1>1, <1>2, <1>8, BridgeStep DEF Asking
  <2>2. (Request.we <=> dState = "WB") /\ Request.blk = DMemBlk
    BY <1>8 DEF Request, DMemWe
  <2>3. /\ pBusy' /\ pElapsed' = 1 /\ (pWe' <=> dState = "WB") /\ pBlk' = DMemBlk
        /\ pCursor' = (IF dState = "WB" THEN 1 ELSE 0)
        /\ ~pRspValid' /\ ~pRspLast' /\ ~pTakeWord'
    BY <1>1, <2>1, <2>2, BurstStart DEF Asking
  <2>4. CASE dState = "WB"
    <3>1. Writing'
      BY <1>4, <1>6, <2>1, <2>3, <2>4 DEF Writing, NoRsp
    <3> QED
      BY <1>2, <1>5, <1>6, <1>8, <2>1, <2>4, <3>1 DEF DTransfers
  <2>5. CASE dState = "FILL"
    <3>1. Reading(dCnt, DMemBlk)'
      BY <1>4, <1>6, <2>1, <2>3, <2>5, BurstNumbers DEF Reading, LastWordAt
    <3> QED
      BY <1>2, <1>5, <1>6, <1>8, <2>1, <2>5, <3>1 DEF DTransfers
  <2> QED
    BY <1>1, <2>4, <2>5
<1> QED
  BY <1>7, <1>8

\* A write burst takes word after word and then answers.
LEMMA DWriteStep ==
  ASSUME WindowInv, Clock, dState = "WB", dPrimed, bBusyData, Writing
  PROVE  /\ dState' = "WB" /\ dPrimed' /\ bBusyData' /\ bBusy' /\ DTransfers'
         /\ UNCHANGED <<dIsProbe, dLineR, dTagR>>
<1>1. /\ TypeOK /\ PsramTypeOK /\ BurstInv /\ SweepInv /\ DFor /\ ~DIdle
      /\ PsramClock(Request) /\ dCnt \in Offs
  BY DEF WindowInv, ControlInv, TypeOK, DcacheTypeOK, Transfer, DTransfers, DIdle, Clock
<1>2. /\ cPc' = cPc /\ cIns' = cIns /\ FetchPort' = FetchPort /\ DataPort' = DataPort
      /\ IIdle' /\ iCnt' = 0
  BY <1>1, DTransferHolds DEF cvars
<1>3. ~DAnswer /\ ~DEnd /\ ~Request.valid /\ bBusy' /\ bBusyData'
  BY <1>1, BridgeStep DEF Writing, NoRsp, DAnswer, DEnd
<1>4. dPrimed' /\ UNCHANGED <<dState, dIsProbe, dLineR, dTagR>>
  BY <1>1, <1>3, DStateStep
<1>5. DFor' /\ DMemBlk' = DMemBlk
  BY <1>1, <1>2, <1>4 DEF DFor, DMemBlk, DBlock
<1>6. /\ pBlk' = pBlk /\ pWe' /\ (pRspValid' <=> ~pBusy') /\ (pRspLast' <=> ~pBusy')
      /\ pWdataNext => dCnt + 1 \in Offs
      /\ pBusy' => pCursor' + (IF pTakeWord' THEN 1 ELSE 0) = dCnt + 1 + (IF pWdataNext THEN 1 ELSE 0)
      /\ ~pBusy' => ~pWdataNext /\ ~pTakeWord /\ dCnt = LineWords - 1 /\ pCursor = LineWords
      /\ pCursor' = pCursor + (IF pTakeWord THEN 1 ELSE 0)
  BY <1>1, BurstWrite
<1>7. dCnt' = IF pWdataNext THEN dCnt + 1 ELSE dCnt
  BY <1>1, <1>3, <1>6, CountUp, CounterStep
<1>8. CASE pBusy'
  <2>1. Writing'
    <3>1. pCursor' + (IF pTakeWord' THEN 1 ELSE 0) = dCnt' + 1
      BY <1>1, <1>6, <1>7, <1>8, SizeAssumption DEF Offs
    <3> QED
      BY <1>3, <1>5, <1>6, <1>8, <3>1 DEF Writing, NoRsp
  <2> QED
    BY <1>2, <1>3, <1>4, <1>5, <2>1 DEF DTransfers
<1>9. CASE ~pBusy'
  <2>1. Written'
    <3>1. pCursor' = LineWords /\ dCnt' = LineWords - 1
      BY <1>6, <1>7, <1>9, SizeAssumption
    <3> QED
      BY <1>3, <1>5, <1>6, <1>9, <3>1 DEF Written, Writing
  <2> QED
    BY <1>2, <1>3, <1>4, <1>5, <2>1 DEF DTransfers
<1> QED
  BY <1>3, <1>4, <1>8, <1>9

\* After the answer: the fill of the line, or the instruction cache's own.
LEMMA DWrittenStep ==
  ASSUME WindowInv, Clock, dState = "WB", dPrimed, bBusyData, Written
  PROVE  /\ DEnd /\ ~bBusy'
         /\ IF dIsProbe THEN DIdle' /\ Quiet' ELSE dState' = "FILL" /\ DTransfers'
<1>1. /\ TypeOK /\ PsramTypeOK /\ BurstInv /\ SweepInv /\ DFor /\ ~DIdle
      /\ PsramClock(Request) /\ dCnt \in Offs
  BY DEF WindowInv, ControlInv, TypeOK, DcacheTypeOK, Transfer, DTransfers, DIdle, Clock
<1>2. /\ cPc' = cPc /\ cIns' = cIns /\ FetchPort' = FetchPort /\ DataPort' = DataPort
      /\ IIdle' /\ iCnt' = 0
  BY <1>1, DTransferHolds DEF cvars
<1>3. DAnswer /\ DEnd /\ ~Request.valid /\ ~bBusy'
  BY <1>1, BridgeStep DEF Written, DAnswer, DEnd, DMemSel
<1>4. dCnt' = 0
  BY <1>1, <1>3, CounterStep, CountUp DEF Written
<1>5. ~pBusy' /\ NoRsp'
  BY <1>1, <1>3, BurstNone DEF Written, NoRsp
<1>6. /\ ~dPrimed' /\ dLineR' = dLineR
      /\ dIsProbe => dState' = "IDLE"
      /\ ~dIsProbe => dState' = "FILL" /\ dTagR' = DTagOf[cIns.blk] /\ ~dIsProbe'
  BY <1>1, <1>3, DStateStep
<1>7. CASE dIsProbe
  BY <1>2, <1>3, <1>4, <1>5, <1>6, <1>7 DEF Quiet, DIdle
<1>8. CASE ~dIsProbe
  <2>1. DataPort.win /\ dLineR = DLineOf[cIns.blk]
    BY <1>1, <1>8 DEF DFor
  <2>2. DFor'
    BY <1>2, <1>6, <1>8, <2>1 DEF DFor
  <2>3. DTransfers'
    BY <1>2, <1>3, <1>4, <1>5, <1>6, <1>8, <2>2 DEF DTransfers, Asking
  <2> QED
    BY <1>3, <1>6, <1>8, <2>3
<1> QED
  BY <1>3, <1>7, <1>8

\* A read burst fills the line word after word.
LEMMA DReadStep ==
  ASSUME WindowInv, Clock, dState = "FILL", ~dPrimed, bBusyData, Reading(dCnt, DMemBlk)
  PROVE  /\ DEnd <=> pRspLast
         /\ bBusy' <=> ~pRspLast
         /\ bBusyData' /\ UNCHANGED <<dIsProbe, dPrimed, dLineR, dTagR>>
         /\ IF pRspLast THEN DIdle' /\ Quiet' ELSE dState' = "FILL" /\ DTransfers'
<1>1. /\ TypeOK /\ PsramTypeOK /\ BurstInv /\ SweepInv /\ DFor /\ ~DIdle
      /\ PsramClock(Request) /\ dCnt \in Offs
  BY DEF WindowInv, ControlInv, TypeOK, DcacheTypeOK, Transfer, DTransfers, DIdle, Clock
<1>2. /\ cPc' = cPc /\ cIns' = cIns /\ FetchPort' = FetchPort /\ DataPort' = DataPort
      /\ IIdle' /\ iCnt' = 0
  BY <1>1, DTransferHolds DEF cvars
<1>3. /\ pBusy' /\ ~pWe' /\ pBlk' = DMemBlk /\ pElapsed' = pElapsed + 1
      /\ pRspLast => pRspValid /\ ~pRspValid' /\ ~pRspLast'
      /\ pRspValid => (dCnt = LineWords - 1 <=> pRspLast)
      /\ ~pRspLast =>
           /\ pElapsed' <= LastWordAt
           /\ pRspValid' <=> pElapsed' >= BURST_READ_AT /\ pElapsed' % 2 = 0
           /\ pRspLast' <=> pElapsed' = LastWordAt
           /\ pCursor' = pCursor + (IF pRspValid' THEN 1 ELSE 0)
  BY <1>1, BurstRead
<1>4. /\ ~Request.valid /\ (DAnswer <=> pRspValid) /\ (DEnd <=> pRspLast) /\ ~pWdataNext
      /\ (bBusy' <=> ~pRspLast) /\ bBusyData'
  BY <1>1, <1>3, BridgeStep DEF Reading, DAnswer, DEnd, DMemSel, BurstInv, BridgeTypeOK, TypeOK
<1>5. /\ dState' = IF pRspLast THEN "IDLE" ELSE "FILL"
      /\ UNCHANGED <<dIsProbe, dPrimed, dLineR, dTagR>>
  BY <1>1, <1>4, DStateStep
<1>6. DFor' \/ DIdle'
  BY <1>1, <1>2, <1>5 DEF DFor, DIdle
<1>7. DMemBlk' = DMemBlk /\ LastWordAt' = LastWordAt /\ BURST_READ_AT' = BURST_READ_AT
  BY <1>5 DEF DMemBlk, DBlock, LastWordAt, BURST_READ_AT, Twice
<1>8. CASE pRspLast
  <2>1. dCnt' = 0
    BY <1>1, <1>3, <1>4, <1>8, CountUp, CounterStep
  <2>2. DataPort.win /\ dStaleQ'
    BY <1>1, CounterStep DEF DFor
  <2>3. Recovering'
    <3>1. pElapsed = LastWordAt /\ LastWordAt \in Nat
      BY <1>8, BurstNumbers DEF Reading, LastWordAt
    <3> QED
      BY <1>2, <1>3, <1>7, <2>2, <3>1 DEF Recovering
  <2> QED
    BY <1>2, <1>3, <1>4, <1>5, <1>8, <2>1, <2>3 DEF Quiet, DIdle, NoRsp
<1>9. CASE ~pRspLast
  <2>1. dCnt' = IF pRspValid THEN dCnt + 1 ELSE dCnt
    BY <1>1, <1>3, <1>4, <1>9, CountUp, CounterStep
  <2>2. pCursor' = dCnt' + (IF pRspValid' THEN 1 ELSE 0)
    <3>1. dCnt \in Nat /\ pCursor = dCnt + (IF pRspValid THEN 1 ELSE 0)
      BY <1>1, SizeAssumption DEF Offs, Reading
    <3> QED
      BY <1>3, <1>9, <2>1, <3>1
  <2>3. Reading(dCnt, DMemBlk)'
    BY <1>3, <1>4, <1>7, <1>9, <2>2 DEF Reading
  <2> QED
    BY <1>2, <1>4, <1>5, <1>6, <1>9, <2>3 DEF DTransfers, DIdle
<1> QED
  BY <1>4, <1>5, <1>8, <1>9

\* What a fill of the instruction cache is for waits for it, and the data cache rests.
LEMMA ITransferHolds ==
  ASSUME WindowInv, Clock, IMemSel
  PROVE  /\ UNCHANGED cvars /\ gRstCnt = 0 /\ gRstCnt' = 0
         /\ FetchPort' = FetchPort /\ DataPort' = DataPort
         /\ ~CpuSoftRst /\ FetchPort.win /\ ~DataPort.win
         /\ DIdle /\ UNCHANGED dFsm /\ ~dPrimed /\ dCnt = 0 /\ ~DMemSel
<1>1. ITransfers /\ CpuInv /\ TypeOK /\ ~IIdle
  BY DEF WindowInv, ControlInv, Transfer, IMemSel, IIdle
<1>2. FetchPort.win /\ ~IHit(FetchPort) /\ ~IMiss(FetchPort) /\ ~DataPort.win
  BY <1>1, Exclusive DEF ITransfers, IHit, IMiss, ILookup
<1>3. ~DMiss(DataPort) /\ ~ProbeWb(DataPort, ProbePort)
  BY <1>2, Ports DEF DMiss, DLookup, ProbeWb
<1> QED
  BY <1>1, <1>2, <1>3, CpuHolds, DStateStep DEF ITransfers, DMemSel, DIdle

\* The instruction cache asks and fills a line.
LEMMA IFillStep ==
  ASSUME WindowInv, Clock, IMemSel
  PROVE  /\ Transfer' /\ DIdle'
         /\ IMemSel' <=> ~(bBusy /\ pRspLast)
         /\ bBusy' <=> ~(bBusy /\ pRspLast)
         /\ ~bBusyData'
         /\ bBusy => (IEnd <=> pRspLast)
<1>1. /\ TypeOK /\ PsramTypeOK /\ BurstInv /\ SweepInv /\ ITransfers /\ ~IIdle /\ pInit = 0
      /\ PsramClock(Request) /\ Request \in RequestType /\ iCnt \in Offs
  BY Running, WireTypes
  DEF WindowInv, ControlInv, TypeOK, IcacheTypeOK, Transfer, IMemSel, IIdle, Clock
<1>2. /\ cPc' = cPc /\ FetchPort' = FetchPort /\ FetchPort.win /\ ~CpuSoftRst
      /\ DIdle' /\ ~dPrimed' /\ ~DMemSel /\ dCnt = 0 /\ DIdle
  BY ITransferHolds DEF cvars, dFsm, DIdle
<1>3. Request.blk = cPc.blk /\ ~Request.we
  BY <1>2 DEF Request
<1>4. ~pWdataNext
  BY <1>1 DEF ITransfers, Asking, Reading, BurstInv
<1>5. dCnt' = 0
  BY <1>2, <1>4, CounterStep DEF DAnswer
<1>6. LastWordAt' = LastWordAt /\ BURST_READ_AT' = BURST_READ_AT
  BY DEF LastWordAt, BURST_READ_AT, Twice
<1>7. CASE Asking(iCnt)
  <2>1. ~IAnswer /\ ~IEnd /\ ~bBusy
    BY <1>7 DEF Asking, IAnswer, IEnd
  <2>2. Request.valid /\ bBusy' /\ ~bBusyData' /\ iCnt' = 0 /\ IMemSel'
    BY <1>1, <1>2, <1>7, <2>1, BridgeStep, CounterStep, IStateStep DEF Asking
  <2>3. /\ pBusy' /\ pElapsed' = 1 /\ ~pWe' /\ pBlk' = cPc.blk /\ pCursor' = 0
        /\ ~pRspValid' /\ ~pRspLast'
    BY <1>1, <1>3, <1>7, <2>2, BurstStart DEF Asking
  <2>4. Reading(iCnt, cPc.blk)'
    BY <1>2, <2>2, <2>3, BurstNumbers DEF Reading, LastWordAt
  <2>5. ITransfers'
    BY <1>2, <1>5, <2>2, <2>4 DEF ITransfers
  <2> QED
    BY <1>2, <2>1, <2>2, <2>5 DEF Transfer
<1>8. CASE ~bBusyData /\ Reading(iCnt, cPc.blk)
  <2>1. /\ pBusy' /\ ~pWe' /\ pBlk' = cPc.blk /\ pElapsed' = pElapsed + 1
        /\ pRspLast => pRspValid /\ ~pRspValid' /\ ~pRspLast'
        /\ pRspValid => (iCnt = LineWords - 1 <=> pRspLast)
        /\ ~pRspLast =>
             /\ pElapsed' <= LastWordAt
             /\ pRspValid' <=> pElapsed' >= BURST_READ_AT /\ pElapsed' % 2 = 0
             /\ pRspLast' <=> pElapsed' = LastWordAt
             /\ pCursor' = pCursor + (IF pRspValid' THEN 1 ELSE 0)
    BY <1>1, <1>8, BurstRead
  <2>2. /\ ~Request.valid /\ (IAnswer <=> pRspValid) /\ (IEnd <=> pRspLast)
        /\ (bBusy' <=> ~pRspLast) /\ ~bBusyData' /\ bBusy
    <3>1. bBusy
      BY <1>8 DEF Reading
    <3>2. ~Request.valid /\ (bBusy' <=> ~pRspLast) /\ bBusyData' = bBusyData
      BY <1>1, <3>1, BridgeStep
    <3> QED
      BY <1>8, <2>1, <3>1, <3>2 DEF IAnswer, IEnd
  <2>3. (IMemSel' <=> ~pRspLast) /\ (IIdle' <=> pRspLast)
    BY <1>1, <2>2, IStateStep
  <2>4. CASE pRspLast
    <3>1. iCnt' = 0
      BY <1>1, <2>1, <2>2, <2>4, CountUp, CounterStep
    <3>2. Recovering'
      <4>1. pElapsed = LastWordAt /\ LastWordAt \in Nat /\ iReplayQ'
        BY <1>1, <1>8, <2>4, BurstNumbers, CounterStep DEF Reading, LastWordAt
      <4> QED
        BY <1>2, <1>6, <2>1, <4>1 DEF Recovering
    <3>3. Quiet'
      BY <1>2, <1>5, <2>1, <2>2, <2>3, <2>4, <3>1, <3>2 DEF Quiet, NoRsp
    <3> QED
      BY <1>2, <2>2, <2>3, <2>4, <3>3 DEF Transfer
  <2>5. CASE ~pRspLast
    <3>1. iCnt' = IF pRspValid THEN iCnt + 1 ELSE iCnt
      BY <1>1, <2>1, <2>2, <2>5, CountUp, CounterStep
    <3>2. pCursor' = iCnt' + (IF pRspValid' THEN 1 ELSE 0)
      <4>1. iCnt \in Nat /\ pCursor = iCnt + (IF pRspValid THEN 1 ELSE 0)
        BY <1>1, <1>8, SizeAssumption DEF Offs, Reading
      <4> QED
        BY <2>1, <2>5, <3>1, <4>1
    <3>3. Reading(iCnt, cPc.blk)'
      BY <1>2, <1>6, <2>1, <2>2, <2>5, <3>2 DEF Reading
    <3>4. ITransfers'
      BY <1>2, <1>5, <2>2, <3>3 DEF ITransfers
    <3> QED
      BY <1>2, <2>2, <2>3, <2>5, <3>4 DEF Transfer
  <2> QED
    BY <2>4, <2>5
<1> QED
  BY <1>1, <1>7, <1>8 DEF ITransfers

-----------------------------------------------------------------------------
\* A clock edge of the running SoC keeps the components in step.
LEMMA ControlClock == ASSUME WindowInv, Clock PROVE ControlInv'
<1>1. CpuInv' /\ RawRst'
  BY CpuInvStep, Running DEF WindowInv, ControlInv
<1>2. Transfer'
  <2>1. CASE ~DIdle
    <3>1. IIdle' /\ ~IMemSel'
      BY <2>1, DTransferHolds DEF IIdle, IMemSel
    <3>2. DTransfers /\ dState \in {"WB", "FILL"}
      BY <2>1 DEF WindowInv, ControlInv, Transfer, TypeOK, DcacheTypeOK, DIdle
    <3>3. CASE Asking(dCnt) /\ (dState = "FILL" => ~dPrimed)
      BY <2>1, <3>1, <3>2, <3>3, DAskStep DEF Transfer, DIdle
    <3>4. CASE dState = "WB" /\ dPrimed /\ bBusyData /\ Writing
      BY <3>1, <3>4, DWriteStep DEF Transfer, DIdle
    <3>5. CASE dState = "WB" /\ dPrimed /\ bBusyData /\ Written
      BY <3>1, <3>5, DWrittenStep DEF Transfer, DIdle
    <3>6. CASE dState = "FILL" /\ ~dPrimed /\ bBusyData /\ Reading(dCnt, DMemBlk)
      BY <3>1, <3>6, DReadStep DEF Transfer, DIdle
    <3> QED
      BY <3>2, <3>3, <3>4, <3>5, <3>6 DEF DTransfers
  <2>2. CASE IMemSel
    BY <2>2, IFillStep
  <2>3. CASE DIdle /\ ~IMemSel
    BY <2>3, QuietStep DEF WindowInv, ControlInv, Transfer
  <2> QED
    BY <2>1, <2>2, <2>3
<1> QED
  BY <1>1, <1>2 DEF ControlInv

\* A reset of the CPU leaves it at the ROM.
LEMMA CpuHeld ==
  ASSUME CpuReset, GpioReset
  PROVE  /\ CpuInv' /\ cState' = "FETCH" /\ cRiscv' /\ ~cPc'.sel /\ gRstCnt' = 0
<1>1. cState' = "FETCH" /\ cRiscv' /\ cIns' \in Between(TRUE) /\ gRstCnt' = 0
  BY DEF CpuReset, CSoftReset, GpioReset
<1>2. ~cPc'.sel
  BY DEF CpuReset, CSoftReset, ResetPc, Outside
<1>3. cIns'.op = "none"
  BY <1>1, DecodedOps
<1> QED
  BY <1>1, <1>2, <1>3 DEF CpuInv

\* While the power-on reset counts nothing moves but the sweeps.
LEMMA PorQuiet ==
  ASSUME WindowInv, PorClock
  PROVE  /\ ~DataPort.win /\ ~FetchPort.win /\ ~DMemSel /\ ~IMemSel /\ DIdle /\ IIdle
         /\ UNCHANGED <<dFsm, dCnt, iCnt, iState>> /\ ~pBusy' /\ NoRsp' /\ ~bBusy'
<1>1. HeldInReset /\ Quiet /\ TypeOK /\ BurstInv /\ PsramTypeOK
  BY DEF WindowInv, ControlInv, PorClock, TypeOK
<1>2. ~DataPort.win /\ ~FetchPort.win
  BY <1>1, Ports DEF HeldInReset, DataReq
<1>3. ~DMemSel /\ ~IMemSel /\ DIdle /\ IIdle /\ ~DAnswer /\ ~IAnswer /\ ~pWdataNext
  BY <1>1 DEF Quiet, HeldInReset, DMemSel, IMemSel, DIdle, IIdle, DAnswer, IAnswer, BurstInv
<1>4. ~DMiss(DataPort) /\ ~IMiss(FetchPort)
  BY <1>2 DEF DMiss, DLookup, IMiss
<1>5. ~ProbeWb(DataPort, ProbePort)
  BY <1>4, Ports DEF ProbeWb
<1>6. UNCHANGED dFsm
  <2>1. \/ DStartWb(DataPort) \/ DStartFill(DataPort) \/ DStartProbe(DataPort, ProbePort)
        \/ DIdleStay(DataPort, ProbePort) \/ DWriteBack(DMemPort)
        \/ DWriteBackEnd(DataPort, DMemPort) \/ DFill(DMemPort)
    BY DEF PorClock, DcacheClock
  <2> QED
    BY <1>3, <1>4, <1>5, <2>1
    DEF DStartWb, DStartFill, DStartProbe, DIdleStay, DWriteBack, DWriteBackEnd, DFill, DIdle
<1>7. dCnt' = dCnt
  <2>1. dCnt' = DCntNext(DMemPort)
    BY DEF PorClock, DcacheClock
  <2> QED
    BY <1>3, <2>1, Answers DEF DCntNext
<1>8. iCnt' = iCnt /\ iState' = iState
  <2>1. /\ iCnt' = IF IWordWe(IMemPort) THEN (iCnt + 1) % LineWords ELSE iCnt
        /\ iState' = IF IStartFill(FetchPort, FillHold) \/ (IMemSel /\ ~ILast(IMemPort)) THEN "FILL" ELSE "IDLE"
    BY DEF PorClock, IcacheClock
  <2> QED
    BY <1>3, <1>4, <2>1, Answers DEF IStartFill, IIdle
<1>9. ~Request.valid /\ PsramClock(Request) /\ ~bBusy'
  BY <1>3 DEF PorClock, Request, BReqValid, BridgeReset
<1>10. ~pBusy' /\ NoRsp'
  BY <1>1, <1>9, BurstNone DEF HeldInReset, NoRsp
<1> QED
  BY <1>2, <1>3, <1>6, <1>7, <1>8, <1>9, <1>10

\* A step of the power-on reset, and the reset button, leave no transfer.
LEMMA ControlPor == ASSUME WindowInv, PorClock PROVE ControlInv' /\ Quiet'
<1>1. HeldInReset' /\ CpuInv'
  <2>1. CpuReset /\ GpioReset
    BY DEF PorClock
  <2> QED
    BY <2>1, CpuHeld, PorQuiet DEF HeldInReset
<1>2. Quiet' /\ DIdle' /\ ~IMemSel'
  <2>1. Quiet
    BY DEF WindowInv, ControlInv, PorClock
  <2> QED
    BY <2>1, PorQuiet DEF Quiet, DIdle, IIdle, IMemSel, dFsm
<1> QED
  BY <1>1, <1>2 DEF ControlInv, Transfer

\* So does the reset button, in whatever cycle.
LEMMA ControlReset == ASSUME Reset PROVE ControlInv' /\ Quiet'
<1>1. /\ dState' = "IDLE" /\ ~dPrimed' /\ dCnt' = 0 /\ iState' = "IDLE" /\ iCnt' = 0
      /\ ~bBusy' /\ ~pBusy' /\ ~pRspValid' /\ ~pRspLast'
  BY DEF Reset, DcacheReset, IcacheReset, BridgeReset, PsramReset
<1>2. HeldInReset' /\ CpuInv'
  BY <1>1, CpuHeld DEF Reset, HeldInReset
<1>3. Quiet' /\ DIdle' /\ ~IMemSel'
  BY <1>1 DEF Quiet, NoRsp, DIdle, IIdle, IMemSel
<1> QED
  BY <1>2, <1>3 DEF ControlInv, Transfer

-----------------------------------------------------------------------------
\* The RAMs at a clock edge.

\* What the data cache reads of its RAMs is what they hold then, unless it is marked stale.
LEMMA DReadStepRam ==
  ASSUME DcacheTypeOK, NEW acc \in DataPortType, NEW rd \in DIndex, NEW m \in MemPortType,
         NEW probe, NEW clear \in BOOLEAN, DcacheClock(acc, rd, m, probe, clear)
  PROVE  /\ dRdIdxQ' = rd
         /\ ~dStaleQ' => DIdle /\ dTagQ' = dTags'[rd[1]] /\ dWordQ' = dWords'[rd]
         /\ dState = "WB" => dWordQ' = dWords[<<dLineR, dCnt'>>] /\ dWords' = dWords
         /\ DTagWrite(acc, m, clear).we /\ DTagWrite(acc, m, clear).at = rd[1] => dStaleQ'
         /\ dStaleQ' => \/ ~DIdle
                        \/ DTagWrite(acc, m, clear).we
                        \/ DWordWrite(acc, m).we
<1> DEFINE tw == DTagWrite(acc, m, clear)
           ww == DWordWrite(acc, m)
<1>1. tw.at \in DLines /\ ww.at \in DIndex /\ rd[1] \in DLines
  BY DTagWriteType, DWordWriteType DEF DIndex
<1>2. dRdIdxQ' = rd /\ (dStaleQ' <=> ~DIdle \/ (tw.we /\ tw.at = rd[1]) \/ (ww.we /\ ww.at = rd))
  BY DEF DcacheClock
<1>3. ASSUME ~dStaleQ' PROVE dTagQ' = dTags'[rd[1]]
  <2>1. dTagQ' \in RamRead(dTags, tw, rd[1], DMixedTag) /\ dTags' = RamNext(dTags, tw)
    BY DEF DcacheClock
  <2>2. ~(tw.we /\ tw.at = rd[1])
    BY <1>2, <1>3
  <2> HIDE DEF tw
  <2> QED
    BY <1>1, <2>1, <2>2 DEF RamRead, RamNext, DcacheTypeOK
<1>4. ASSUME ~dStaleQ' PROVE dWordQ' = dWords'[rd]
  <2>1. dWordQ' \in RamRead(dWords, ww, DRa(rd, m), DMixedWord) /\ dWords' = RamNext(dWords, ww)
    BY DEF DcacheClock
  <2>2. ~(ww.we /\ ww.at = rd) /\ DRa(rd, m) = rd
    BY <1>2, <1>4 DEF DRa, DIdle
  <2> HIDE DEF ww
  <2> QED
    BY <1>1, <2>1, <2>2 DEF RamRead, RamNext, DcacheTypeOK
<1>5. ASSUME dState = "WB" PROVE dWordQ' = dWords[<<dLineR, dCnt'>>] /\ dWords' = dWords
  <2>1. dWordQ' \in RamRead(dWords, ww, DRa(rd, m), DMixedWord) /\ dWords' = RamNext(dWords, ww)
    BY DEF DcacheClock
  <2>2. ~ww.we
    BY <1>5 DEF DWordWrite, DHit, DLookup, DIdle
  <2>3. DRa(rd, m) = <<dLineR, dCnt'>>
    BY <1>5 DEF DRa, DcacheClock
  <2> HIDE DEF ww
  <2> QED
    BY <1>1, <2>1, <2>2, <2>3 DEF RamRead, RamNext, DcacheTypeOK
<1> QED
  BY <1>2, <1>3, <1>4, <1>5

\* So does the instruction cache: a tag being written and words being filled are marked.
LEMMA IReadStepRam ==
  ASSUME IcacheTypeOK, NEW f \in FetchPortType, NEW rd \in IIndex, NEW m \in IMemPortType,
         NEW inv \in InvType, NEW hold, NEW clear \in BOOLEAN,
         IcacheClock(f, rd, m, inv, hold, clear)
  PROVE  /\ iRdIdxQ' = rd
         /\ ~iConflictQ' => iTagQ' = iTags'[rd[1]]
         /\ ~iReplayQ' => iWordQ' = iWords'[rd]
<1> DEFINE tw == ITagWrite(f, m, inv, clear)
           ww == IWordWrite(f, m)
<1>1. rd[1] \in ILines
  BY DEF IIndex
<1>2. iRdIdxQ' = rd /\ (iConflictQ' <=> tw.we /\ tw.at = rd[1]) /\ (iReplayQ' <=> ~IIdle)
  BY DEF IcacheClock
<1>3. ASSUME ~iConflictQ' PROVE iTagQ' = iTags'[rd[1]]
  <2>1. iTagQ' \in RamRead(iTags, tw, rd[1], IMixedTag) /\ iTags' = RamNext(iTags, tw)
    BY DEF IcacheClock
  <2>2. ~(tw.we /\ tw.at = rd[1])
    BY <1>2, <1>3
  <2> HIDE DEF tw
  <2> QED
    BY <1>1, <2>1, <2>2 DEF RamRead, RamNext, IcacheTypeOK
<1>4. ASSUME ~iReplayQ' PROVE iWordQ' = iWords'[rd]
  <2>1. iWordQ' \in RamRead(iWords, ww, rd, IMixedWord) /\ iWords' = RamNext(iWords, ww)
    BY DEF IcacheClock
  <2>2. ~ww.we
    BY <1>2, <1>4 DEF IWordWrite, IWordWe, IMemSel, IIdle
  <2> HIDE DEF ww
  <2> QED
    BY <2>1, <2>2 DEF RamRead, RamNext, IcacheTypeOK
<1> QED
  BY <1>2, <1>3, <1>4

\* A clock edge of the running SoC or of the power-on reset, as the RAMs see it.
LEMMA ClockRams ==
  ASSUME TypeOK, PorClock \/ Clock
  PROVE  \E clear \in BOOLEAN, rd \in IIndex :
           /\ DcacheClock(DataPort, DIdx(cIns), DMemPort, ProbePort, clear)
           /\ IcacheClock(FetchPort, rd, IMemPort, InvPort, FillHold, clear)
<1>1. CASE PorClock
  BY <1>1, WireTypes DEF PorClock
<1>2. CASE Clock
  <2>1. PICK nextPc \in NextPcs :
          /\ DcacheClock(DataPort, DIdx(cIns), DMemPort, ProbePort, FALSE)
          /\ IcacheClock(FetchPort, IIdx(PcOut(nextPc)), IMemPort, InvPort, FillHold, FALSE)
    BY <1>2 DEF Clock
  <2>2. PcOut(nextPc) \in Pcs(cRiscv)
    BY DEF PcOut, NextPcs, TypeOK, CpuTypeOK
  <2>3. IIdx(PcOut(nextPc)) \in IIndex
    BY <2>2, PcsType, IcacheSplitAssumption DEF IIdx, IIndex, TypeOK, CpuTypeOK
  <2> QED
    BY <2>1, <2>3
<1> QED
  BY <1>1, <1>2

\* Every clock edge keeps what was read sound.
LEMMA ReadStep == ASSUME WindowInv, PorClock \/ Clock PROVE ReadInv'
<1>1. PICK clear \in BOOLEAN, rd \in IIndex :
        /\ DcacheClock(DataPort, DIdx(cIns), DMemPort, ProbePort, clear)
        /\ IcacheClock(FetchPort, rd, IMemPort, InvPort, FillHold, clear)
  BY ClockRams DEF WindowInv
<1>2. /\ TypeOK /\ DcacheTypeOK /\ IcacheTypeOK
      /\ FetchPort \in FetchPortType /\ DataPort \in DataPortType
      /\ InvPort \in InvType /\ IMemPort \in IMemPortType /\ DMemPort \in MemPortType
      /\ DIdx(cIns) \in DIndex
  BY WireTypes DEF WindowInv, TypeOK
<1>3. /\ dRdIdxQ' = DIdx(cIns)
      /\ ~dStaleQ' => dTagQ' = dTags'[DIdx(cIns)[1]] /\ dWordQ' = dWords'[DIdx(cIns)]
      /\ dState = "WB" => dWordQ' = dWords[<<dLineR, dCnt'>>] /\ dWords' = dWords
  BY <1>1, <1>2, DReadStepRam
<1>4. /\ iRdIdxQ' = rd
      /\ ~iConflictQ' => iTagQ' = iTags'[rd[1]]
      /\ ~iReplayQ' => iWordQ' = iWords'[rd]
  BY <1>1, <1>2, IReadStepRam
<1>5. dState' = "WB" /\ dPrimed' => dState = "WB" /\ dLineR' = dLineR
  <2>1. CASE PorClock
    BY <2>1, PorQuiet DEF dFsm, DIdle
  <2>2. CASE Clock
    <3>1. DIdle => ~dPrimed
      BY DEF WindowInv, ControlInv, Transfer, Quiet, ITransfers
    <3> QED
      BY <1>2, <2>2, <3>1, DStateStep DEF dFsm, DIdle, DcacheTypeOK
  <2> QED
    BY <2>1, <2>2
<1> QED
  BY <1>3, <1>4, <1>5 DEF ReadInv

\* The data cache's tags in the running SoC: a store hit, else the end of a line's transfer.
LEMMA DTagStep ==
  ASSUME TypeOK, SweepInv, Clock
  PROVE  /\ DHit(DataPort) /\ DataPort.we =>
              dTags' = [dTags EXCEPT ![DLineOf[cIns.blk]] =
                          [valid |-> TRUE, dirty |-> TRUE, tag |-> DTagOf[cIns.blk]]]
         /\ DEnd /\ (dState = "FILL" \/ dIsProbe) =>
              dTags' = [dTags EXCEPT ![dLineR] = [valid |-> TRUE, dirty |-> FALSE, tag |-> dTagR]]
         /\ ~(DHit(DataPort) /\ DataPort.we) /\ ~(DEnd /\ (dState = "FILL" \/ dIsProbe)) =>
              dTags' = dTags
<1> DEFINE tw == DTagWrite(DataPort, DMemPort, FALSE)
<1>1. dTags' = RamNext(dTags, tw)
  BY DEF Clock, DcacheClock
<1>2. dSwept /\ (DLast(DMemPort) <=> DEnd) /\ DataPort.blk = cIns.blk
  BY Running, Answers, Ports
<1>3. DHit(DataPort) => ~DEnd
  BY DEF DHit, DLookup, DIdle, DEnd, DAnswer, DMemSel
<1>4. CASE DHit(DataPort) /\ DataPort.we
  <2>1. tw = [we |-> TRUE, at |-> DLineOf[cIns.blk],
              data |-> [valid |-> TRUE, dirty |-> TRUE, tag |-> DTagOf[cIns.blk]]]
    BY <1>2, <1>4 DEF DTagWrite
  <2> HIDE DEF tw
  <2> QED
    BY <1>1, <1>3, <1>4, <2>1 DEF RamNext
<1>5. CASE ~(DHit(DataPort) /\ DataPort.we)
  <2>1. tw = [we |-> DLast(DMemPort) /\ (dState = "FILL" \/ dIsProbe), at |-> dLineR,
              data |-> [valid |-> TRUE, dirty |-> FALSE, tag |-> dTagR]]
    BY <1>2, <1>5 DEF DTagWrite
  <2> HIDE DEF tw
  <2> QED
    BY <1>1, <1>2, <1>5, <2>1 DEF RamNext
<1> QED
  BY <1>4, <1>5

\* The data cache's words: a store hit, or a word of a fill.
LEMMA DWordStep ==
  ASSUME TypeOK, SweepInv, Clock
  PROVE  /\ DHit(DataPort) /\ DataPort.we =>
              dWords' = [dWords EXCEPT ![<<DLineOf[cIns.blk], cIns.off>>] =
                           [mask |-> dWordQ.mask \cup cIns.strb,
                            data |-> MergeBytes(dWordQ.data, cIns.data, cIns.strb)]]
         /\ dState = "FILL" /\ DAnswer =>
              dWords' = [dWords EXCEPT ![<<dLineR, dCnt>>] = [mask |-> {}, data |-> pRdata]]
         /\ ~(DHit(DataPort) /\ DataPort.we) /\ ~(dState = "FILL" /\ DAnswer) => dWords' = dWords
<1> DEFINE ww == DWordWrite(DataPort, DMemPort)
<1>1. dWords' = RamNext(dWords, ww)
  BY DEF Clock, DcacheClock
<1>2. /\ dSwept /\ (DDone(DMemPort) <=> DAnswer) /\ DMemPort.rdata = pRdata
      /\ DIdx(DataPort) = <<DLineOf[cIns.blk], cIns.off>>
      /\ DataPort.wdata = cIns.data /\ DataPort.wstrb = cIns.strb
  BY Running, Answers, Ports DEF DIdx
<1>3. DHit(DataPort) => dState # "FILL"
  BY DEF DHit, DLookup, DIdle
<1>4. CASE DHit(DataPort) /\ DataPort.we
  <2>1. ww = [we |-> TRUE, at |-> <<DLineOf[cIns.blk], cIns.off>>,
              data |-> [mask |-> dWordQ.mask \cup cIns.strb,
                        data |-> MergeBytes(dWordQ.data, cIns.data, cIns.strb)]]
    BY <1>2, <1>4 DEF DWordWrite, DMask
  <2> HIDE DEF ww
  <2> QED
    BY <1>1, <1>3, <1>4, <2>1 DEF RamNext
<1>5. CASE ~(DHit(DataPort) /\ DataPort.we)
  <2>1. ww = [we |-> dSwept /\ dState = "FILL" /\ DDone(DMemPort), at |-> <<dLineR, dCnt>>,
              data |-> [mask |-> {}, data |-> pRdata]]
    BY <1>2, <1>5 DEF DWordWrite
  <2> HIDE DEF ww
  <2> QED
    BY <1>1, <1>2, <1>5, <2>1 DEF RamNext
<1> QED
  BY <1>4, <1>5

\* The instruction cache's tags: the end of a fill, else a store's invalidation.
LEMMA ITagStep ==
  ASSUME TypeOK, SweepInv, Clock
  PROVE  /\ IEnd => iTags' = [iTags EXCEPT ![ILineOf[cPc.blk]] = [valid |-> TRUE, tag |-> ITagOf[cPc.blk]]]
         /\ ~IEnd /\ InvPort.on => iTags' = [iTags EXCEPT ![ILineOf[cIns.blk]] = INoTag]
         /\ ~IEnd /\ ~InvPort.on => iTags' = iTags
<1> DEFINE tw == ITagWrite(FetchPort, IMemPort, InvPort, FALSE)
<1>1. iTags' = RamNext(iTags, tw)
  BY DEF Clock, IcacheClock
<1>2. iSwept /\ (ILast(IMemPort) <=> IEnd) /\ FetchPort.blk = cPc.blk /\ InvPort.blk = cIns.blk
  BY Running, Answers, Ports
<1>3. CASE IEnd
  <2>1. tw = [we |-> TRUE, at |-> ILineOf[cPc.blk],
              data |-> [valid |-> TRUE, tag |-> ITagOf[cPc.blk]]]
    BY <1>2, <1>3 DEF ITagWrite
  <2> HIDE DEF tw
  <2> QED
    BY <1>1, <1>3, <2>1 DEF RamNext
<1>4. CASE ~IEnd
  <2>1. tw = [we |-> InvPort.on, at |-> ILineOf[cIns.blk], data |-> INoTag]
    BY <1>2, <1>4 DEF ITagWrite
  <2> HIDE DEF tw
  <2> QED
    BY <1>1, <1>4, <2>1 DEF RamNext
<1> QED
  BY <1>3, <1>4

\* The instruction cache's words: those of a fill.
LEMMA IWordStep ==
  ASSUME Clock
  PROVE  /\ IAnswer => iWords' = [iWords EXCEPT ![<<ILineOf[cPc.blk], iCnt>>] = pRdata]
         /\ ~IAnswer => iWords' = iWords
<1> DEFINE ww == IWordWrite(FetchPort, IMemPort)
<1>1. iWords' = RamNext(iWords, ww)
  BY DEF Clock, IcacheClock
<1>2. ww = [we |-> IWordWe(IMemPort), at |-> <<ILineOf[cPc.blk], iCnt>>, data |-> pRdata]
  BY Answers, Ports DEF IWordWrite
<1> HIDE DEF ww
<1> QED
  BY <1>1, <1>2, Answers DEF RamNext

\* What is dirty in the data cache, is dirty before or is stored to now.
LEMMA DirtyStep ==
  ASSUME WindowInv, Clock, NEW b \in Blocks, ProbeDirty(b)'
  PROVE  \/ ProbeDirty(b) /\ ~(DEnd /\ (dState = "FILL" \/ dIsProbe) /\ dLineR = DLineOf[b])
         \/ DHit(DataPort) /\ DataPort.we /\ b = cIns.blk
<1>1. /\ TypeOK /\ SweepInv /\ dSwept /\ dTags \in [DLines -> DTagEntry] /\ cIns.blk \in Blocks
      /\ DLineOf[b] \in DLines /\ DLineOf[cIns.blk] \in DLines /\ dLineR \in DLines
  BY Running, DcacheSplitAssumption DEF WindowInv, TypeOK, DcacheTypeOK, CpuTypeOK
<1>2. dTags'[DLineOf[b]].valid /\ dTags'[DLineOf[b]].dirty /\ dTags'[DLineOf[b]].tag = DTagOf[b]
  BY DEF ProbeDirty
<1>3. CASE DHit(DataPort) /\ DataPort.we
  <2>1. CASE DLineOf[b] = DLineOf[cIns.blk]
    <3>1. DTagOf[b] = DTagOf[cIns.blk]
      BY <1>1, <1>2, <1>3, <2>1, DTagStep
    <3> QED
      BY <1>1, <1>3, <2>1, <3>1, DcacheSplitAssumption
  <2>2. CASE DLineOf[b] # DLineOf[cIns.blk]
    <3>1. dTags'[DLineOf[b]] = dTags[DLineOf[b]]
      BY <1>1, <1>3, <2>2, DTagStep
    <3>2. ~DEnd
      BY <1>3 DEF DHit, DLookup, DIdle, DEnd, DAnswer, DMemSel
    <3> QED
      BY <1>1, <1>2, <3>1, <3>2 DEF ProbeDirty
  <2> QED
    BY <2>1, <2>2
<1>4. CASE ~(DHit(DataPort) /\ DataPort.we) /\ DEnd /\ (dState = "FILL" \/ dIsProbe)
  <2>1. dLineR # DLineOf[b]
    BY <1>1, <1>2, <1>4, DTagStep
  <2>2. dTags'[DLineOf[b]] = dTags[DLineOf[b]]
    BY <1>1, <1>4, <2>1, DTagStep
  <2> QED
    BY <1>1, <1>2, <2>1, <2>2 DEF ProbeDirty
<1>5. CASE ~(DHit(DataPort) /\ DataPort.we) /\ ~(DEnd /\ (dState = "FILL" \/ dIsProbe))
  <2>1. dTags' = dTags
    BY <1>1, <1>5, DTagStep
  <2> QED
    BY <1>1, <1>2, <1>5, <2>1 DEF ProbeDirty
<1> QED
  BY <1>3, <1>4, <1>5

\* What the instruction cache holds, it held before or has just filled; a store drops it.
LEMMA CodeStep ==
  ASSUME WindowInv, Clock, NEW b \in Blocks, IHolds(b)'
  PROVE  /\ (IEnd /\ b = cPc.blk) \/ IHolds(b)
         /\ IEnd /\ ILineOf[b] = ILineOf[cPc.blk] => b = cPc.blk
         /\ ~(~IEnd /\ InvPort.on /\ ILineOf[b] = ILineOf[cIns.blk])
<1>1. /\ TypeOK /\ SweepInv /\ iTags \in [ILines -> ITagEntry]
      /\ cPc.blk \in Blocks /\ cIns.blk \in Blocks
  BY PcsType DEF WindowInv, TypeOK, IcacheTypeOK, CpuTypeOK
<1>2. ILineOf[b] \in ILines /\ ILineOf[cPc.blk] \in ILines /\ ILineOf[cIns.blk] \in ILines
  BY <1>1, IcacheSplitAssumption
<1>3. iTags'[ILineOf[b]].valid /\ iTags'[ILineOf[b]].tag = ITagOf[b]
  BY DEF IHolds
<1>4. CASE IEnd
  <2>1. CASE ILineOf[b] = ILineOf[cPc.blk]
    <3>1. ITagOf[b] = ITagOf[cPc.blk]
      BY <1>1, <1>2, <1>3, <1>4, <2>1, ITagStep
    <3> QED
      BY <1>1, <1>4, <2>1, <3>1, IcacheSplitAssumption
  <2>2. CASE ILineOf[b] # ILineOf[cPc.blk]
    <3>1. iTags'[ILineOf[b]] = iTags[ILineOf[b]]
      BY <1>1, <1>2, <1>4, <2>2, ITagStep
    <3> QED
      BY <1>3, <1>4, <2>2, <3>1 DEF IHolds
  <2> QED
    BY <2>1, <2>2
<1>5. CASE ~IEnd /\ InvPort.on
  <2>1. ILineOf[b] # ILineOf[cIns.blk]
    BY <1>1, <1>2, <1>3, <1>5, ITagStep DEF INoTag
  <2>2. iTags'[ILineOf[b]] = iTags[ILineOf[b]]
    BY <1>1, <1>2, <1>5, <2>1, ITagStep
  <2> QED
    BY <1>3, <1>5, <2>1, <2>2 DEF IHolds
<1>6. CASE ~IEnd /\ ~InvPort.on
  BY <1>1, <1>3, <1>6, ITagStep DEF IHolds
<1> QED
  BY <1>4, <1>5, <1>6

-----------------------------------------------------------------------------
\* Code and data stay apart: a store drops the instruction cache's copy in its own cycle, and
\* a fill starts only from what is written back.
LEMMA TagClock == ASSUME WindowInv, Clock PROVE TagInv'
<1>1. /\ TypeOK /\ SweepInv /\ CpuInv /\ RawRst /\ dSwept /\ porCounter # 0
      /\ cPc.blk \in Blocks /\ cIns.blk \in Blocks
  BY Running, PcsType DEF WindowInv, ControlInv, TypeOK, CpuTypeOK
<1>2. ASSUME DHit(DataPort), DataPort.we
      PROVE  ~IEnd /\ InvPort.on
  <2>1. DataPort.win /\ DataReady
    BY <1>2 DEF DHit, DLookup, DataReady, DDataReady
  <2>2. ~IMemSel
    BY <2>1, ITransferHolds
  <2> QED
    BY <1>2, <2>1, <2>2, Ports DEF IEnd, IAnswer
<1>3. ASSUME NEW b \in Blocks, IHolds(b)' PROVE ~ProbeDirty(b)'
  <2>1. SUFFICES ASSUME ProbeDirty(b)' PROVE FALSE
    OBVIOUS
  <2>2. CASE DHit(DataPort) /\ DataPort.we /\ b = cIns.blk
    BY <1>2, <1>3, <2>2, CodeStep
  <2>3. CASE ProbeDirty(b)
    <3>1. ~IHolds(b)
      BY <1>1, <2>3 DEF WindowInv, TagInv
    <3>2. IEnd /\ b = cPc.blk
      BY <1>3, <3>1, CodeStep
    <3> QED
      BY <1>1, <2>3, <3>2 DEF WindowInv, TagInv, IEnd, IAnswer
  <2> QED
    BY <2>1, <2>2, <2>3, DirtyStep
<1>4. ASSUME IMemSel' PROVE ~ProbeDirty(cPc.blk)'
  <2>1. CASE IMemSel
    <3>1. cPc' = cPc /\ ~DataPort.win /\ ~ProbeDirty(cPc.blk)
      BY <1>1, <2>1, ITransferHolds DEF WindowInv, TagInv, cvars
    <3>2. ~DHit(DataPort) /\ ~DEnd
      BY <2>1, <3>1, ITransferHolds DEF DHit, DLookup, DEnd, DAnswer
    <3>3. dTags' = dTags /\ dSwept' = dSwept
      BY <1>1, <3>2, DTagStep, Running
    <3> QED
      BY <3>1, <3>3 DEF ProbeDirty
  <2>2. CASE ~IMemSel
    <3>1. IMiss(FetchPort) /\ ~ProbeDirty(cPc.blk) /\ FetchPort.win /\ ~IHit(FetchPort)
      BY <1>1, <1>4, <2>2, IStateStep DEF IMiss
    <3>2. cPc' = cPc /\ ~DataPort.win
      BY <1>1, <3>1, CpuHolds, Exclusive DEF cvars
    <3>3. DIdle
      <4>1. ~DIdle => IIdle'
        BY DTransferHolds
      <4> QED
        BY <1>4, <4>1 DEF IIdle, IMemSel
    <3>4. ~DHit(DataPort) /\ ~DEnd
      BY <3>2, <3>3 DEF DHit, DLookup, DEnd, DAnswer, DMemSel, DIdle
    <3>5. dTags' = dTags /\ dSwept' = dSwept
      BY <1>1, <3>4, DTagStep, Running
    <3> QED
      BY <3>1, <3>2, <3>5 DEF ProbeDirty
  <2> QED
    BY <2>1, <2>2
<1>5. ASSUME dState' = "WB"
      PROVE  dTags'[dLineR'] = [valid |-> TRUE, dirty |-> TRUE, tag |-> dTagR']
  <2>1. CASE dState = "WB"
    <3>1. ~DEnd /\ dLineR' = dLineR /\ dTagR' = dTagR
      BY <1>1, <1>5, <2>1, DStateStep
    <3>2. ~DHit(DataPort)
      BY <2>1 DEF DHit, DLookup, DIdle
    <3>3. dTags' = dTags
      BY <1>1, <3>1, <3>2, DTagStep
    <3> QED
      BY <1>1, <2>1, <3>1, <3>3 DEF WindowInv, TagInv
  <2>2. CASE DMiss(DataPort)
    <3>1. VictimDirty /\ dLineR' = DLineOf[cIns.blk] /\ dTagR' = dTagQ.tag
      BY <1>1, <1>5, <2>2, DStateStep
    <3>2. ~dStaleQ /\ dRdIdxQ = DIdx(DataPort) /\ ~DHit(DataPort) /\ DIdle
      BY <2>2 DEF DMiss, DLookup, DHit
    <3>3. dTagQ = dTags[DLineOf[cIns.blk]]
      BY <1>1, <3>2, Ports DEF WindowInv, ReadInv, DIdx
    <3>4. dTags' = dTags
      BY <1>1, <3>2, DTagStep DEF DEnd, DAnswer, DMemSel, DIdle
    <3>5. dTagQ = [valid |-> TRUE, dirty |-> TRUE, tag |-> dTagQ.tag]
      BY <1>1, <3>1 DEF VictimDirty, TypeOK, DcacheTypeOK, DTagEntry
    <3> QED
      BY <3>1, <3>3, <3>4, <3>5
  <2>3. CASE ProbeWb(DataPort, ProbePort)
    <3>1. dLineR' = DLineOf[cPc.blk] /\ dTagR' = DTagOf[cPc.blk]
      BY <1>1, <2>3, DStateStep
    <3>2. ProbeDirty(cPc.blk) /\ ~DHit(DataPort) /\ DIdle
      BY <2>3, Ports DEF ProbeWb, DHit, DLookup
    <3>3. dTags' = dTags
      BY <1>1, <3>2, DTagStep DEF DEnd, DAnswer, DMemSel, DIdle
    <3>4. dTags[DLineOf[cPc.blk]] \in DTagEntry
      BY <1>1, DcacheSplitAssumption DEF TypeOK, DcacheTypeOK
    <3> QED
      BY <3>1, <3>2, <3>3, <3>4 DEF ProbeDirty, DTagEntry
  <2> QED
    BY <1>1, <1>5, <2>1, <2>2, <2>3, DStateStep DEF TypeOK, DcacheTypeOK, DIdle, dFsm
<1> QED
  BY <1>3, <1>4, <1>5 DEF TagInv

\* Hack's store to M finds in HACK_WB what its load found in MEM_WAIT.
LEMMA HackClock == ASSUME WindowInv, Clock PROVE HackInv'
<1>1. SUFFICES ASSUME cState' = "HACK_WB", (DataPort.win)' PROVE DHit(DataPort)'
  BY DEF HackInv
<1>2. /\ TypeOK /\ SweepInv /\ CpuInv /\ DcacheTypeOK /\ dSwept /\ dSwept' /\ porCounter # 0
      /\ DataPort \in DataPortType /\ DMemPort \in MemPortType /\ DIdx(cIns) \in DIndex
  BY Running, WireTypes DEF WindowInv, ControlInv, TypeOK
<1>3. ~CpuSoftRst
  BY <1>1 DEF Clock, CSoftReset
<1>4. PICK nextPc \in NextPcs : CpuClock(nextPc, InstrReady, DataReady)
  BY <1>3 DEF Clock
<1>5. ASSUME cState = "HACK_WB" PROVE FALSE
  <2>1. cStoreWe /\ ~DataReady
    BY <1>1, <1>4, <1>5
    DEF CpuClock, CFetch, CExecute, CMemWait, CAmoCalc, CHackWb, CHackWrD, CMulDivWait, Complete
  <2>2. DataPort.win
    BY <2>1 DEF DataReady, DDataReady
  <2> QED
    BY <1>5, <2>1, <2>2 DEF WindowInv, HackInv, DataReady, DDataReady
<1>6. /\ cState = "MEM_WAIT" /\ DataReady /\ ~cRiscv
      /\ \E d \in Word : cIns' = HackLatched(d)
  BY <1>1, <1>4, <1>5
  DEF CpuClock, CFetch, CExecute, CMemWait, CAmoCalc, CHackWb, CHackWrD, CMulDivWait, Complete
<1>7. cIns'.sel = cIns.sel /\ cIns'.blk = cIns.blk /\ cIns'.off = cIns.off
  BY <1>2, <1>6 DEF HackLatched, CpuTypeOK, TypeOK
<1>8. ~MemWrite /\ DataPort.win
  BY <1>1, <1>2, <1>6, <1>7, Ports DEF CpuInv, MemWrite, DataReq, DataPort
<1>9. DHit(DataPort)
  BY <1>6, <1>8 DEF DataReady, DDataReady
<1>10. dTags' = dTags /\ ~DataPort.we /\ DIdle /\ ~DMiss(DataPort) /\ ~ProbeWb(DataPort, ProbePort)
  BY <1>2, <1>8, <1>9, Ports, DTagStep
  DEF DHit, DMiss, DLookup, ProbeWb, DEnd, DAnswer, DMemSel, DIdle
<1>11. DIdle'
  BY <1>2, <1>10, DStateStep DEF dFsm, DIdle
<1>12. DcacheClock(DataPort, DIdx(cIns), DMemPort, ProbePort, FALSE)
  BY DEF Clock
<1>13. ~DTagWrite(DataPort, DMemPort, FALSE).we /\ ~DWordWrite(DataPort, DMemPort).we
  BY <1>2, <1>10 DEF DTagWrite, DWordWrite, DLast, DDone, DMemSel, DIdle
<1>14. ~dStaleQ' /\ dRdIdxQ' = DIdx(cIns) /\ dTagQ' = dTags'[DIdx(cIns)[1]]
  <2>1. dStaleQ' \in BOOLEAN
    BY <1>12 DEF DcacheClock
  <2> QED
    BY <1>2, <1>10, <1>12, <1>13, <2>1, DReadStepRam
<1>15. dTagQ = dTags[DIdx(cIns)[1]] /\ DMatch(DataPort)
  BY <1>2, <1>9, Ports DEF WindowInv, ReadInv, DHit, DLookup, DIdx
<1>16. dTagQ' = dTagQ /\ dRdIdxQ' = <<DLineOf[cIns.blk], cIns.off>>
  BY <1>10, <1>14, <1>15 DEF DIdx
<1>17. (DataPort.blk)' = cIns.blk /\ (DataPort.off)' = cIns.off
  BY <1>7 DEF DataPort
<1>18. DMatch(DataPort)'
  BY <1>15, <1>16, <1>17, Ports DEF DMatch
<1>19. DLookup(DataPort)'
  BY <1>1, <1>2, <1>11, <1>14, <1>16, <1>17 DEF DLookup, DIdx
<1> QED
  BY <1>18, <1>19 DEF DHit

-----------------------------------------------------------------------------
\* The sweep: every line it has passed is invalid, in both caches.
LEMMA SweptPor ==
  ASSUME WindowInv, PorClock
  PROVE  /\ \A l \in DLines : dSwept' \/ l < dSweepIdx' => ~dTags'[l].valid
         /\ \A l \in ILines : iSwept' \/ l < iSweepIdx' => ~iTags'[l].valid
<1>1. /\ TypeOK /\ DcacheTypeOK /\ IcacheTypeOK /\ SweptInv /\ ~RawRst
  BY DEF WindowInv, TypeOK, PorClock
<1>2. ~DHit(DataPort) /\ ~DLast(DMemPort) /\ ~ILast(IMemPort) /\ ~InvPort.on
  BY PorQuiet, Answers, Ports DEF DHit, DLookup, DEnd, DAnswer, IEnd, IAnswer
<1>3. ASSUME NEW l \in DLines, dSwept' \/ l < dSweepIdx' PROVE ~dTags'[l].valid
  <2> DEFINE tw == DTagWrite(DataPort, DMemPort, TRUE)
  <2>1. dTags' = RamNext(dTags, tw) /\ DSweep(TRUE)
    BY DEF PorClock, DcacheClock
  <2>2. CASE dSwept
    <3>1. ~tw.we
      BY <1>2, <2>2 DEF DTagWrite
    <3>2. dTags' = dTags
      <4> HIDE DEF tw
      <4> QED
        BY <2>1, <3>1 DEF RamNext
    <3> QED
      BY <1>1, <2>2, <3>2 DEF SweptInv
  <2>3. CASE ~dSwept
    <3>1. tw = [we |-> TRUE, at |-> dSweepIdx,
                data |-> [valid |-> FALSE, dirty |-> FALSE, tag |-> CHOOSE t \in DTags : TRUE]]
      BY <2>3 DEF DTagWrite
    <3>2. dTags' = [dTags EXCEPT ![dSweepIdx] = tw.data] /\ ~tw.data.valid
      <4> HIDE DEF tw
      <4>1. tw.we /\ tw.at = dSweepIdx /\ ~tw.data.valid
        BY <3>1
      <4> QED
        BY <2>1, <4>1 DEF RamNext
    <3>3. l < dSweepIdx \/ l = dSweepIdx
      BY <1>1, <1>3, <2>1, <2>3, SizeAssumption DEF DSweep, DcacheTypeOK, DLines
    <3> HIDE DEF tw
    <3> QED
      BY <1>1, <2>3, <3>2, <3>3 DEF SweptInv, DcacheTypeOK
  <2> QED
    BY <2>2, <2>3
<1>4. ASSUME NEW l \in ILines, iSwept' \/ l < iSweepIdx' PROVE ~iTags'[l].valid
  <2> DEFINE tw == ITagWrite(FetchPort, IMemPort, InvPort, TRUE)
  <2>1. iTags' = RamNext(iTags, tw) /\ ISweep(TRUE)
    BY DEF PorClock, IcacheClock
  <2>2. CASE iSwept
    <3>1. ~tw.we
      BY <1>2, <2>2 DEF ITagWrite
    <3>2. iTags' = iTags
      <4> HIDE DEF tw
      <4> QED
        BY <2>1, <3>1 DEF RamNext
    <3> QED
      BY <1>1, <2>2, <3>2 DEF SweptInv
  <2>3. CASE ~iSwept
    <3>1. tw = [we |-> TRUE, at |-> iSweepIdx, data |-> INoTag]
      BY <2>3 DEF ITagWrite
    <3>2. iTags' = [iTags EXCEPT ![iSweepIdx] = tw.data] /\ ~tw.data.valid
      <4> HIDE DEF tw
      <4>1. tw.we /\ tw.at = iSweepIdx /\ ~tw.data.valid
        BY <3>1 DEF INoTag
      <4> QED
        BY <2>1, <4>1 DEF RamNext
    <3>3. l < iSweepIdx \/ l = iSweepIdx
      BY <1>1, <1>4, <2>1, <2>3, SizeAssumption DEF ISweep, IcacheTypeOK, ILines
    <3> HIDE DEF tw
    <3> QED
      BY <1>1, <2>3, <3>2, <3>3 DEF SweptInv, IcacheTypeOK
  <2> QED
    BY <2>2, <2>3
<1> QED
  BY <1>3, <1>4

\* Every step of the window keeps the invariant.
LEMMA WindowStep == ASSUME WindowInv, [Next]_vars PROVE WindowInv'
<1>1. TypeOK' /\ BurstInv' /\ SweepInv'
  BY NextType, SweepStep DEF WindowInv
<1>2. CASE Clock
  <2>1. ControlInv' /\ ReadInv' /\ TagInv' /\ HackInv'
    BY <1>2, ControlClock, ReadStep, TagClock, HackClock
  <2>2. SweptInv'
    BY <1>2, Running DEF WindowInv, SweptInv
  <2> QED
    BY <1>1, <2>1, <2>2 DEF WindowInv
<1>3. CASE PorClock
  <2>1. ControlInv' /\ Quiet' /\ ReadInv'
    BY <1>3, ControlPor, ReadStep
  <2>2. SweptInv'
    BY <1>1, <1>3, SweptPor DEF SweptInv, TypeOK, DcacheTypeOK, IcacheTypeOK
  <2>3. ASSUME RawRst' PROVE TagInv'
    <3>1. iSwept' /\ dSwept'
      BY <1>1, <2>3, ResetAssumption, SizeAssumption DEF SweepInv, RawRst
    <3>2. \A b \in Blocks : ~IHolds(b)'
      BY <1>3, <3>1, SweptPor, IcacheSplitAssumption DEF IHolds
    <3>3. dState' # "WB" /\ ~IMemSel'
      BY <2>1 DEF Quiet, DIdle, IIdle, IMemSel
    <3> QED
      BY <3>2, <3>3 DEF TagInv
  <2>4. TagInv'
    BY <2>3 DEF TagInv
  <2>5. HackInv'
    BY <1>3, CpuHeld DEF PorClock, HackInv
  <2> QED
    BY <1>1, <2>1, <2>2, <2>4, <2>5 DEF WindowInv
<1>4. CASE Reset
  <2>1. ControlInv'
    BY <1>4, ControlReset
  <2>2. porCounter' = 0 /\ ~RawRst'
    BY <1>4, ResetAssumption, SizeAssumption DEF Reset, RawRst
  <2>3. ~dSwept' /\ ~iSwept' /\ dSweepIdx' = 0 /\ iSweepIdx' = 0
    BY <1>4 DEF Reset, DcacheReset, IcacheReset
  <2>4. SweptInv'
    BY <2>3, SizeAssumption DEF SweptInv, DLines, ILines
  <2>5. HackInv'
    BY <1>4, CpuHeld DEF Reset, HackInv
  <2> QED
    BY <1>1, <2>1, <2>2, <2>4, <2>5 DEF WindowInv, ReadInv, TagInv
<1>5. CASE UNCHANGED vars
  <2>1. /\ UNCHANGED <<dTags, dWords, dTagQ, dWordQ, dRdIdxQ, dStaleQ, dSwept, dSweepIdx>>
        /\ UNCHANGED <<dState, dIsProbe, dPrimed, dLineR, dTagR, dCnt>>
        /\ UNCHANGED <<iTags, iWords, iTagQ, iWordQ, iRdIdxQ, iConflictQ, iReplayQ>>
        /\ UNCHANGED <<iSwept, iSweepIdx, iState, iCnt, bBusy, bBusyData>>
        /\ UNCHANGED <<pMem, pInit, pBusy, pElapsed, pWe, pBlk, pCursor, pTakeWord>>
        /\ UNCHANGED <<pRspValid, pRspLast, pWdataNext, pRdata>>
        /\ UNCHANGED <<cState, cRiscv, cPc, cIns, cStoreWe, porCounter, gRstCnt, gBoot>>
    BY <1>5 DEF vars, dvars, dRams, dRegs, dFsm, ivars, iRams, iRegs, bvars, pvars, cvars
  <2>2. FetchPort' = FetchPort /\ DataPort' = DataPort /\ CpuSoftRst' = CpuSoftRst /\ RawRst' = RawRst
    BY <2>1 DEF FetchPort, DataPort, FetchReq, DataReq, MemWrite, CpuSoftRst, RawRst
  <2>3. CpuInv'
    BY <2>1, <2>2 DEF WindowInv, ControlInv, CpuInv
  <2>4. (HeldInReset => HeldInReset') /\ (Quiet => Quiet')
    BY <2>1, <2>2 DEF HeldInReset, Quiet, DIdle, IIdle, NoRsp, Recovering, LastWordAt, BURST_READ_AT, Twice
  <2>5. DIdle' = DIdle /\ IMemSel' = IMemSel /\ IIdle' = IIdle /\ DMemBlk' = DMemBlk
    BY <2>1 DEF DIdle, IMemSel, IIdle, DMemBlk, DBlock
  <2>6. DTransfers => DTransfers'
    BY <2>1, <2>2, <2>5
    DEF DTransfers, DFor, Asking, Writing, Written, Reading, NoRsp, LastWordAt, BURST_READ_AT, Twice
  <2>7. ITransfers => ITransfers'
    BY <2>1, <2>2, <2>5 DEF ITransfers, Asking, Reading, NoRsp, LastWordAt, BURST_READ_AT, Twice
  <2>8. ControlInv'
    BY <2>2, <2>3, <2>4, <2>5, <2>6, <2>7 DEF WindowInv, ControlInv, Transfer
  <2>9. ReadInv' /\ SweptInv'
    BY <2>1, <2>2 DEF WindowInv, ReadInv, SweptInv
  <2>10. TagInv'
    BY <2>1, <2>2, <2>5 DEF WindowInv, TagInv, IHolds, ProbeDirty
  <2>11. HackInv'
    BY <2>1, <2>2, <2>5 DEF WindowInv, HackInv, DHit, DLookup, DMatch, DIdx
  <2> QED
    BY <1>1, <2>8, <2>9, <2>10, <2>11 DEF WindowInv
<1> QED
  BY <1>2, <1>3, <1>4, <1>5 DEF Next

\* The power-on state satisfies it.
LEMMA WindowInit == ASSUME Init PROVE WindowInv
<1>1. TypeOK /\ BurstInv
  BY InitType
<1>2. SweepInv
  BY SizeAssumption, LatencyAssumption
  DEF Init, DcacheInit, IcacheInit, PsramInit, DRegsReset, IRegsReset, PRegsReset, SweepInv
<1>3. /\ dState = "IDLE" /\ ~dPrimed /\ dCnt = 0 /\ iState = "IDLE" /\ iCnt = 0
      /\ ~bBusy /\ ~pBusy /\ ~pRspValid /\ ~pRspLast /\ ~dSwept /\ ~iSwept
      /\ dSweepIdx = 0 /\ iSweepIdx = 0 /\ porCounter = 0
      /\ cState = "FETCH" /\ cRiscv /\ gRstCnt = 0 /\ cIns \in Between(TRUE)
  BY DEF Init, DcacheInit, DRegsReset, IcacheInit, IRegsReset, BridgeInit, PsramInit, PRegsReset,
         CpuInit, GpioInit
<1>4. ~cPc.sel
  BY DEF Init, CpuInit, ResetPc, Outside
<1>5. cIns.op = "none"
  BY <1>3, DecodedOps
<1>6. Quiet /\ DIdle /\ ~IMemSel /\ HeldInReset /\ CpuInv
  BY <1>3, <1>4, <1>5 DEF Quiet, NoRsp, DIdle, IIdle, IMemSel, HeldInReset, CpuInv, CpuSoftRst
<1>7. ~RawRst
  BY <1>3, ResetAssumption, SizeAssumption DEF RawRst
<1>8. SweptInv
  BY <1>3, SizeAssumption DEF SweptInv, DLines, ILines
<1> QED
  BY <1>1, <1>2, <1>3, <1>6, <1>7, <1>8
  DEF WindowInv, ControlInv, Transfer, ReadInv, TagInv, HackInv

\* The caches, the bridge, the controller and the CPU agree in every cycle where a transfer
\* stands, what was read of the RAMs is sound, and no code is stale, for every size of the
\* caches, every latency and every program, through any number of resets.
THEOREM WindowInvariant == Spec => []WindowInv
<1>1. Init => WindowInv
  BY WindowInit
<1>2. WindowInv /\ [Next]_vars => WindowInv'
  BY WindowStep
<1> QED
  BY <1>1, <1>2, PTL DEF Spec

-----------------------------------------------------------------------------
\* What follows.

\* A cache, the bridge and the controller count the words of a burst in step, and there is one
\* burst at a time: soc_xmem_bridge and both caches need no arbiter and no wait for req_ready.
THEOREM BurstContractTheorem == Spec => []BurstContract
<1>1. ASSUME WindowInv PROVE BurstContract
  <2>1. /\ TypeOK /\ PsramTypeOK /\ BurstInv /\ SweepInv /\ ControlInv /\ Transfer
        /\ dCnt \in Offs /\ iCnt \in Offs /\ dState \in {"IDLE", "WB", "FILL"}
    BY <1>1 DEF WindowInv, ControlInv, TypeOK, DcacheTypeOK, IcacheTypeOK
  <2>2. ASSUME NEW cnt \in Offs, NEW blk, Reading(cnt, blk), pRspLast PROVE cnt = LineWords - 1
    <3>1. pElapsed = BURST_READ_AT + Twice /\ ~pWe /\ pBusy /\ pCursor = cnt + 1
      BY <2>2, BurstNumbers DEF Reading, LastWordAt
    <3>2. ReadCursor
      BY <2>1, <3>1 DEF BurstInv
    <3> QED
      BY <2>1, <3>1, <3>2, BurstNumbers DEF ReadCursor, PsramTypeOK, Offs
  <2>3. CASE ~DIdle
    <3>1. DTransfers
      BY <2>1, <2>3 DEF Transfer
    <3>2. pRspLast => bBusyData /\ dCnt = LineWords - 1
      BY <2>1, <2>2, <3>1 DEF DTransfers, Asking, NoRsp, Writing, Written
    <3>3. IIdle /\ iCnt = 0 /\ ~IMemSel /\ (~bBusy => ~pBusy)
      BY <3>1 DEF DTransfers, Asking, Writing, Written, Reading, IIdle, IMemSel
    <3>4. RawRst
      BY <2>1, <2>3 DEF ControlInv, Quiet
    <3>5. pInit = 0
      BY <2>1, <3>4, SweptWhenRunning DEF SweptBeforeStart
    <3> QED
      BY <2>3, <3>2, <3>3, <3>5
      DEF BurstContract, CountsWords, OneTransferAtATime, Request, BReqValid, PReqReady
  <2>4. CASE IMemSel
    <3>1. ITransfers /\ ~IIdle
      BY <2>1, <2>4 DEF Transfer, IIdle, IMemSel
    <3>2. pRspLast => ~bBusyData /\ iCnt = LineWords - 1
      BY <2>1, <2>2, <3>1 DEF ITransfers, Asking, NoRsp
    <3>3. DIdle /\ dCnt = 0 /\ ~DMemSel /\ (~bBusy => ~pBusy)
      BY <3>1 DEF ITransfers, Asking, Reading, DIdle, DMemSel
    <3>4. RawRst
      BY <2>1, <3>1 DEF ControlInv, Quiet
    <3>5. pInit = 0
      BY <2>1, <3>4, SweptWhenRunning DEF SweptBeforeStart
    <3> QED
      BY <3>1, <3>2, <3>3, <3>5
      DEF BurstContract, CountsWords, OneTransferAtATime, Request, BReqValid, PReqReady
  <2>5. CASE DIdle /\ ~IMemSel
    <3>1. Quiet
      BY <2>1, <2>5 DEF Transfer
    <3> QED
      BY <2>5, <3>1
      DEF Quiet, NoRsp, BurstContract, CountsWords, OneTransferAtATime, Request, BReqValid, DMemSel, DIdle
  <2> QED
    BY <2>3, <2>4, <2>5
<1> QED
  BY <1>1, WindowInvariant, PTL

\* The soft reset, which resets no cache, never interrupts a transfer: the store that asks for it
\* is over, and no miss can start under it.
THEOREM SoftResetTheorem == Spec => []SoftResetFindsIdle
<1>1. ASSUME WindowInv, CpuSoftRst PROVE DIdle /\ IIdle /\ ~bBusy
  <2>1. Transfer /\ CpuInv
    BY <1>1 DEF WindowInv, ControlInv
  <2>2. ~DataPort.win /\ ~FetchPort.win
    BY <1>1, <2>1, Exclusive
  <2> QED
    BY <2>1, <2>2 DEF Transfer, DTransfers, ITransfers, DFor, Quiet
<1>2. WindowInv => SoftResetFindsIdle
  BY <1>1 DEF SoftResetFindsIdle
<1> QED
  BY <1>2, WindowInvariant, PTL

\* A fill of the instruction cache reads only what is written back, from its start to its end, and
\* no store's invalidation meets its tag write.
THEOREM FillReadsFreshTheorem == Spec => []FillReadsFresh
<1>1. ASSUME WindowInv, IMemSel PROVE ~ProbeDirty(cPc.blk) /\ ~InvPort.on
  <2>1. ITransfers /\ CpuInv /\ RawRst
    BY <1>1 DEF WindowInv, ControlInv, Transfer, Quiet, IIdle, IMemSel
  <2>2. ~DataPort.win
    BY <2>1, Exclusive DEF ITransfers
  <2> QED
    BY <1>1, <2>1, <2>2, Ports DEF WindowInv, TagInv
<1>2. WindowInv => FillReadsFresh
  BY <1>1 DEF FillReadsFresh
<1> QED
  BY <1>2, WindowInvariant, PTL

\* Hack's read-modify-write of M stores in the cycle after its load: the line cannot have gone.
THEOREM HackWriteBackTheorem == Spec => []HackWriteBackHits
<1>1. WindowInv => HackWriteBackHits
  BY DEF WindowInv, HackInv, HackWriteBackHits, DataReady, DDataReady
<1> QED
  BY <1>1, WindowInvariant, PTL

\* A clock edge keeps the request of a transfer that goes on.
LEMMA HeldStep ==
  ASSUME WindowInv, Clock, bBusy, bBusy'
  PROVE  /\ bBusyData' = bBusyData
         /\ Request'.valid = Request.valid
         /\ Request'.we = Request.we /\ Request'.blk = Request.blk
         /\ IF bBusyData THEN DMemSel' ELSE IMemSel'
<1>1. /\ TypeOK /\ SweepInv /\ Transfer /\ BridgeTypeOK /\ dState \in {"IDLE", "WB", "FILL"}
      /\ ~Request.valid /\ bBusyData' = bBusyData
  BY BridgeStep DEF WindowInv, ControlInv, TypeOK, DcacheTypeOK
<1>2. ASSUME DMemSel' <=> DMemSel, DMemSel => DMemWe' = DMemWe /\ DMemBlk' = DMemBlk,
             ~DMemSel => cPc' = cPc
      PROVE  /\ Request'.valid = Request.valid
             /\ Request'.we = Request.we /\ Request'.blk = Request.blk
  <2>1. BReqValid(IMemSel, DMemSel, CpuSoftRst) = FALSE /\ BReqValid(IMemSel, DMemSel, CpuSoftRst)' = FALSE
    BY DEF BReqValid
  <2>2. (DMemSel /\ DMemWe)' = (DMemSel /\ DMemWe)
    BY <1>2
  <2>3. (IF DMemSel THEN DMemBlk ELSE cPc.blk)' = (IF DMemSel THEN DMemBlk ELSE cPc.blk)
    BY <1>2
  <2> QED
    BY <2>1, <2>2, <2>3 DEF Request
<1>3. CASE ~DIdle
  <2>1. DTransfers
    BY <1>1, <1>3 DEF Transfer
  <2>2. CASE dState = "WB" /\ dPrimed /\ bBusyData /\ Writing
    <3>1. dState' = "WB" /\ dPrimed' /\ UNCHANGED <<dLineR, dTagR>>
      BY <2>2, DWriteStep
    <3>2. DMemSel /\ DMemSel' /\ (DMemWe' = DMemWe) /\ DMemBlk' = DMemBlk
      BY <2>2, <3>1 DEF DMemSel, DMemWe, DMemBlk, DBlock
    <3> QED
      BY <1>1, <1>2, <2>2, <3>2
  <2>3. CASE dState = "WB" /\ dPrimed /\ bBusyData /\ Written
    BY <2>3, DWrittenStep
  <2>4. CASE dState = "FILL" /\ ~dPrimed /\ bBusyData /\ Reading(dCnt, DMemBlk)
    <3>1. dState' = "FILL" /\ UNCHANGED <<dPrimed, dLineR, dTagR>>
      BY <2>4, DReadStep
    <3>2. DMemSel /\ DMemSel' /\ (DMemWe' = DMemWe) /\ DMemBlk' = DMemBlk
      BY <2>4, <3>1 DEF DMemSel, DMemWe, DMemBlk, DBlock
    <3> QED
      BY <1>1, <1>2, <2>4, <3>2
  <2> QED
    BY <2>1, <2>2, <2>3, <2>4 DEF DTransfers, Asking
<1>4. CASE IMemSel
  <2>1. IMemSel' /\ DIdle' /\ ~bBusyData'
    BY <1>4, IFillStep
  <2>2. cPc' = cPc /\ ~DMemSel /\ ~DMemSel'
    BY <1>4, <2>1, ITransferHolds DEF cvars, DMemSel, DIdle
  <2> QED
    BY <1>1, <1>2, <2>1, <2>2
<1>5. CASE DIdle /\ ~IMemSel
  BY <1>1, <1>5 DEF Transfer, Quiet
<1> QED
  BY <1>3, <1>4, <1>5

\* A transfer that the bridge has in flight keeps its select, its direction and its line until the
\* last answer: the CPU's access and the fetch it is for cannot move under it.
THEOREM TransferHeldTheorem == Spec => TransferHeld
<1>1. WindowInv /\ [Next]_vars =>
        [bBusy /\ bBusy' => /\ bBusyData' = bBusyData
                            /\ Request'.valid = Request.valid
                            /\ Request'.we = Request.we /\ Request'.blk = Request.blk
                            /\ IF bBusyData THEN DMemSel' ELSE IMemSel']_vars
  <2>1. SUFFICES ASSUME WindowInv, Next, bBusy, bBusy'
                 PROVE  /\ bBusyData' = bBusyData
                        /\ Request'.valid = Request.valid
                        /\ Request'.we = Request.we /\ Request'.blk = Request.blk
                        /\ IF bBusyData THEN DMemSel' ELSE IMemSel'
    OBVIOUS
  <2>2. CASE Clock
    BY <2>1, <2>2, HeldStep
  <2>3. CASE PorClock \/ Reset
    BY <2>1, <2>3 DEF PorClock, Reset, BridgeReset
  <2> QED
    BY <2>1, <2>2, <2>3 DEF Next
<1> QED
  BY <1>1, WindowInvariant, PTL DEF Spec, TransferHeld
=============================================================================

----------------------------- MODULE SocDcache ------------------------------
(***************************************************************************)
(* soc/soc_dcache.veryl: the data cache of the wait-state window.  Direct- *)
(* mapped, write-back, write-allocate; a variable per register and RAM, an *)
(* operator per combinational signal, DcacheClock for a clock edge.        *)
(*                                                                         *)
(* Ports, as parameters:                                                   *)
(*   acc    the CPU's data access: [win, we, blk, off, wdata, wstrb], win   *)
(*          being data_req && data_sel                                     *)
(*   rd     rd_idx, the <<line, word>> the RAMs are read at                *)
(*   m      the bridge's side: [ready, rdata, wnext]                       *)
(*   probe  the instruction cache's miss: [req, blk]                       *)
(***************************************************************************)
EXTENDS SocPkg

VARIABLES
  dTags,      \* line -> {valid, dirty, tag}
  dWords,     \* <<line, word>> -> {bytes stored since the fill, the word}
  dTagQ, dWordQ, dRdIdxQ, dStaleQ,
  dSwept, dSweepIdx,
  dState, dIsProbe, dPrimed, dCnt, dLineR, dTagR

dRams == <<dTags, dWords, dTagQ, dWordQ>>
dFsm == <<dState, dIsProbe, dPrimed, dLineR, dTagR>>
dRegs == <<dRdIdxQ, dStaleQ, dSwept, dSweepIdx, dFsm, dCnt>>
dvars == <<dRams, dRegs>>

DIndex == DLines \X Offs
DTagEntry == [valid : BOOLEAN, dirty : BOOLEAN, tag : DTags]
DWordEntry == [mask : SUBSET Lanes, data : Word]
DMixedTag(old, new) ==
  [valid : {old.valid, new.valid}, dirty : {old.dirty, new.dirty}, tag : {old.tag, new.tag}]
DMixedWord(old, new) == [mask : {old.mask, new.mask}, data : {old.data, new.data}]

DIdx(a) == <<DLineOf[a.blk], a.off>>
DIdle == dState = "IDLE"

DLookup(acc) == acc.win /\ dSwept /\ DIdle /\ ~dStaleQ /\ dRdIdxQ = DIdx(acc)
DMatch(acc) == dTagQ.valid /\ dTagQ.tag = DTagOf[acc.blk]
DHit(acc) == DLookup(acc) /\ DMatch(acc)
DMiss(acc) == DLookup(acc) /\ ~DMatch(acc)
DDataReady(acc) == ~acc.win \/ DHit(acc)
VictimDirty == dTagQ.valid /\ dTagQ.dirty

\* The second, asynchronous read port of tags: soc_icache's fill_hold.
ProbeDirty(blk) ==
  LET ptag == dTags[DLineOf[blk]]
  IN  dSwept /\ ptag.valid /\ ptag.dirty /\ ptag.tag = DTagOf[blk]

ProbeWb(acc, probe) == DIdle /\ dSwept /\ ~acc.win /\ probe.req /\ ProbeDirty(probe.blk)

DMemSel == dState = "FILL" \/ (dState = "WB" /\ dPrimed)
DMemWe == dState = "WB"
DMemBlk == DBlock(dTagR, dLineR)

DDone(m) == DMemSel /\ m.ready
DLast(m) == DDone(m) /\ dCnt = LineWords - 1

\* Mutants: wdata_next not counted; a counter a bit too wide.
DCntNextNoWnext(m) == IF DDone(m) THEN (dCnt + 1) % LineWords ELSE dCnt
DCntNextWide(m) == IF DDone(m) \/ m.wnext THEN dCnt + 1 ELSE dCnt

DCntNext(m) == IF DDone(m) \/ m.wnext THEN (dCnt + 1) % LineWords ELSE dCnt

\* The read address of the word RAM: the victim's next word while writing back.
DRa(rd, m) == IF dState = "WB" THEN <<dLineR, DCntNext(m)>> ELSE rd

-----------------------------------------------------------------------------
\* The write ports of the two RAMs.
DTagWrite(acc, m, clear) ==
  CASE ~dSwept ->
         [we |-> clear, at |-> dSweepIdx,
          data |-> [valid |-> FALSE, dirty |-> FALSE, tag |-> CHOOSE t \in DTags : TRUE]]
    [] dSwept /\ DHit(acc) /\ acc.we ->
         [we |-> TRUE, at |-> DLineOf[acc.blk],
          data |-> [valid |-> TRUE, dirty |-> TRUE, tag |-> DTagOf[acc.blk]]]
    [] OTHER ->
         [we |-> DLast(m) /\ (dState = "FILL" \/ dIsProbe), at |-> dLineR,
          data |-> [valid |-> TRUE, dirty |-> FALSE, tag |-> dTagR]]

\* The stored bytes of a word, as a store hit leaves them.  Mutant: only this store's.
DMaskOnlyThis(acc) == acc.wstrb

DMask(acc) == dWordQ.mask \cup acc.wstrb

DWordWrite(acc, m) ==
  IF dSwept /\ DHit(acc) /\ acc.we
  THEN [we |-> TRUE, at |-> DIdx(acc),
        data |-> [mask |-> DMask(acc),
                  data |-> MergeBytes(dWordQ.data, acc.wdata, acc.wstrb)]]
  ELSE [we |-> dSwept /\ dState = "FILL" /\ DDone(m), at |-> <<dLineR, dCnt>>,
        data |-> [mask |-> {}, data |-> m.rdata]]

-----------------------------------------------------------------------------
\* The transfers of a line.
DStartWb(acc) ==
  /\ DMiss(acc) /\ VictimDirty
  /\ dState' = "WB" /\ dIsProbe' = FALSE
  /\ dLineR' = DLineOf[acc.blk] /\ dTagR' = dTagQ.tag
  /\ UNCHANGED dPrimed

DStartFill(acc) ==
  /\ DMiss(acc) /\ ~VictimDirty
  /\ dState' = "FILL" /\ dIsProbe' = FALSE
  /\ dLineR' = DLineOf[acc.blk] /\ dTagR' = DTagOf[acc.blk]
  /\ UNCHANGED dPrimed

DStartProbe(acc, probe) ==
  /\ ProbeWb(acc, probe)
  /\ dState' = "WB" /\ dIsProbe' = TRUE
  /\ dLineR' = DLineOf[probe.blk] /\ dTagR' = DTagOf[probe.blk]
  /\ UNCHANGED dPrimed

DIdleStay(acc, probe) ==
  /\ DIdle /\ ~DMiss(acc) /\ ~ProbeWb(acc, probe)
  /\ UNCHANGED dFsm

DWriteBack(m) ==
  /\ dState = "WB" /\ ~DLast(m)
  /\ dPrimed' = TRUE
  /\ UNCHANGED <<dState, dIsProbe, dLineR, dTagR>>

DWriteBackEnd(acc, m) ==
  /\ dState = "WB" /\ DLast(m)
  /\ dPrimed' = FALSE
  /\ IF dIsProbe
     THEN dState' = "IDLE" /\ UNCHANGED dTagR
     ELSE dState' = "FILL" /\ dTagR' = DTagOf[acc.blk]
  /\ UNCHANGED <<dIsProbe, dLineR>>

DFill(m) ==
  /\ dState = "FILL"
  /\ dState' = IF DLast(m) THEN "IDLE" ELSE "FILL"
  /\ UNCHANGED <<dIsProbe, dPrimed, dLineR, dTagR>>

\* Mutant: off by one, the last line is never found.
DSweepNoEnd(clear) ==
  IF ~dSwept /\ clear
  THEN /\ dSweepIdx' = (dSweepIdx + 1) % DLINES
       /\ dSwept' = (dSweepIdx = DLINES)
  ELSE UNCHANGED <<dSwept, dSweepIdx>>

DSweep(clear) ==
  IF ~dSwept /\ clear
  THEN /\ dSweepIdx' = (dSweepIdx + 1) % DLINES
       /\ dSwept' = (dSweepIdx = DLINES - 1)
  ELSE UNCHANGED <<dSwept, dSweepIdx>>

\* A clock edge with rst_n high.
DcacheClock(acc, rd, m, probe, clear) ==
  LET tw == DTagWrite(acc, m, clear)
      ww == DWordWrite(acc, m)
  IN  /\ dTags' = RamNext(dTags, tw)
      /\ dTagQ' \in RamRead(dTags, tw, rd[1], DMixedTag)
      /\ dWords' = RamNext(dWords, ww)
      /\ dWordQ' \in RamRead(dWords, ww, DRa(rd, m), DMixedWord)
      /\ dRdIdxQ' = rd
      /\ dStaleQ' = (\/ ~DIdle
                     \/ tw.we /\ tw.at = rd[1]
                     \/ ww.we /\ ww.at = rd)
      /\ dCnt' = DCntNext(m)
      /\ DSweep(clear)
      /\ \/ DStartWb(acc)
         \/ DStartFill(acc)
         \/ DStartProbe(acc, probe)
         \/ DIdleStay(acc, probe)
         \/ DWriteBack(m)
         \/ DWriteBackEnd(acc, m)
         \/ DFill(m)

\* rst: soc_top's rst_n.  The RAMs have no reset.
DRegsReset ==
  /\ dRdIdxQ = <<0, 0>> /\ dStaleQ = FALSE
  /\ dSwept = FALSE /\ dSweepIdx = 0
  /\ dState = "IDLE" /\ dIsProbe = FALSE /\ dPrimed = FALSE
  /\ dCnt = 0 /\ dLineR = 0 /\ dTagR = CHOOSE t \in DTags : TRUE

DcacheReset ==
  /\ dRdIdxQ' = <<0, 0>> /\ dStaleQ' = FALSE
  /\ dSwept' = FALSE /\ dSweepIdx' = 0
  /\ dState' = "IDLE" /\ dIsProbe' = FALSE /\ dPrimed' = FALSE
  /\ dCnt' = 0 /\ dLineR' = 0 /\ dTagR' = CHOOSE t \in DTags : TRUE
  /\ UNCHANGED dRams

\* Power-on: whatever the RAMs hold.
DcacheInit ==
  /\ DRegsReset
  /\ dTags \in [DLines -> DTagEntry]
  /\ \E v \in Word : dWords = [i \in DIndex |-> [mask |-> Lanes, data |-> v]]
  /\ dTagQ = dTags[0] /\ dWordQ = dWords[<<0, 0>>]

\* The types of soc_dcache's registers and RAMs: its counters stay inside a line.
DcacheTypeOK ==
  /\ dTags \in [DLines -> DTagEntry] /\ dTagQ \in DTagEntry
  /\ dWords \in [DIndex -> DWordEntry] /\ dWordQ \in DWordEntry
  /\ dRdIdxQ \in DIndex /\ dStaleQ \in BOOLEAN
  /\ dSwept \in BOOLEAN /\ dSweepIdx \in DLines
  /\ dState \in {"IDLE", "WB", "FILL"}
  /\ dIsProbe \in BOOLEAN /\ dPrimed \in BOOLEAN
  /\ dCnt \in Offs /\ dLineR \in DLines /\ dTagR \in DTags
=============================================================================

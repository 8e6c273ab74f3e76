----------------------------- MODULE SocIcache ------------------------------
(***************************************************************************)
(* soc/soc_icache.veryl: the instruction cache of the wait-state window.   *)
(*                                                                         *)
(* Ports, as parameters:                                                   *)
(*   f      the CPU's fetch: [win, blk, off], win being fetch_req &&        *)
(*          fetch_sel                                                      *)
(*   rd     rd_idx, the <<line, word>> of pc_out the RAMs are read at      *)
(*   m      the bridge's side: [ready, rdata]                              *)
(*   inv    a store to the window completing: [on, blk]                    *)
(*   hold   fill_hold, soc_dcache's ProbeDirty                             *)
(***************************************************************************)
EXTENDS SocPkg

VARIABLES
  iTags,      \* line -> {valid, tag}
  iWords,     \* <<line, word>> -> the word
  iTagQ, iWordQ, iRdIdxQ, iConflictQ, iReplayQ,
  iSwept, iSweepIdx,
  iState, iCnt

iRams == <<iTags, iWords, iTagQ, iWordQ>>
iRegs == <<iRdIdxQ, iConflictQ, iReplayQ, iSwept, iSweepIdx, iState, iCnt>>
ivars == <<iRams, iRegs>>

IIndex == ILines \X Offs
ITagEntry == [valid : BOOLEAN, tag : ITags]
IMixedTag(old, new) == [valid : {old.valid, new.valid}, tag : {old.tag, new.tag}]
IMixedWord(old, new) == {old, new}
INoTag == [valid |-> FALSE, tag |-> CHOOSE t \in ITags : TRUE]

IIdx(a) == <<ILineOf[a.blk], a.off>>
IIdle == iState = "IDLE"
ILookup == iSwept /\ IIdle /\ ~iReplayQ

\* Mutant: the tag read in the cycle of an invalidation is trusted.
IHitConflict(f) ==
  /\ ILookup
  /\ iRdIdxQ = IIdx(f)
  /\ iTagQ.valid /\ iTagQ.tag = ITagOf[f.blk]

IHit(f) ==
  /\ ILookup /\ ~iConflictQ
  /\ iRdIdxQ = IIdx(f)
  /\ iTagQ.valid /\ iTagQ.tag = ITagOf[f.blk]
IMiss(f) == f.win /\ ILookup /\ ~IHit(f)
IInstrReady(f) == ~f.win \/ IHit(f)

IStartFill(f, hold) == IIdle /\ IMiss(f) /\ ~hold

IMemSel == iState = "FILL"
IWordWe(m) == IMemSel /\ m.ready
ILast(m) == IWordWe(m) /\ iCnt = LineWords - 1

\* The tag RAM's write port: the sweep, the end of a fill, an invalidation.
ITagWrite(f, m, inv, clear) ==
  CASE ~iSwept -> [we |-> clear, at |-> iSweepIdx, data |-> INoTag]
    [] iSwept /\ ILast(m) ->
         [we |-> TRUE, at |-> ILineOf[f.blk],
          data |-> [valid |-> TRUE, tag |-> ITagOf[f.blk]]]
    [] OTHER -> [we |-> inv.on, at |-> ILineOf[inv.blk], data |-> INoTag]

IWordWrite(f, m) ==
  [we |-> IWordWe(m), at |-> <<ILineOf[f.blk], iCnt>>, data |-> m.rdata]

ISweep(clear) ==
  IF ~iSwept /\ clear
  THEN /\ iSweepIdx' = (iSweepIdx + 1) % ILINES
       /\ iSwept' = (iSweepIdx = ILINES - 1)
  ELSE UNCHANGED <<iSwept, iSweepIdx>>

\* A clock edge with rst_n high.
IcacheClock(f, rd, m, inv, hold, clear) ==
  LET tw == ITagWrite(f, m, inv, clear)
      ww == IWordWrite(f, m)
  IN  /\ iTags' = RamNext(iTags, tw)
      /\ iTagQ' \in RamRead(iTags, tw, rd[1], IMixedTag)
      /\ iWords' = RamNext(iWords, ww)
      /\ iWordQ' \in RamRead(iWords, ww, rd, IMixedWord)
      /\ iRdIdxQ' = rd
      /\ iConflictQ' = (tw.we /\ tw.at = rd[1])
      /\ iReplayQ' = ~IIdle
      /\ ISweep(clear)
      /\ iCnt' = IF IWordWe(m) THEN (iCnt + 1) % LineWords ELSE iCnt
      /\ iState' = IF IStartFill(f, hold) \/ (IMemSel /\ ~ILast(m)) THEN "FILL" ELSE "IDLE"

\* rst: soc_top's rst_n.  The RAMs have no reset.
IRegsReset ==
  /\ iRdIdxQ = <<0, 0>> /\ iConflictQ = FALSE /\ iReplayQ = FALSE
  /\ iSwept = FALSE /\ iSweepIdx = 0
  /\ iState = "IDLE" /\ iCnt = 0

IcacheReset ==
  /\ iRdIdxQ' = <<0, 0>> /\ iConflictQ' = FALSE /\ iReplayQ' = FALSE
  /\ iSwept' = FALSE /\ iSweepIdx' = 0
  /\ iState' = "IDLE" /\ iCnt' = 0
  /\ UNCHANGED iRams

\* Power-on: whatever the RAMs hold.
IcacheInit ==
  /\ IRegsReset
  /\ iTags \in [ILines -> ITagEntry]
  /\ \E v \in Word : iWords = [i \in IIndex |-> v]
  /\ iTagQ = iTags[0] /\ iWordQ = iWords[<<0, 0>>]

\* The types of soc_icache's registers and RAMs: its counters stay inside a line.
IcacheTypeOK ==
  /\ iTags \in [ILines -> ITagEntry] /\ iTagQ \in ITagEntry
  /\ iWords \in [IIndex -> Word] /\ iWordQ \in Word
  /\ iRdIdxQ \in IIndex /\ iConflictQ \in BOOLEAN /\ iReplayQ \in BOOLEAN
  /\ iSwept \in BOOLEAN /\ iSweepIdx \in ILines
  /\ iState \in {"IDLE", "FILL"} /\ iCnt \in Offs
=============================================================================

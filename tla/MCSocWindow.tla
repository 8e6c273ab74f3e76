---------------------------- MODULE MCSocWindow -----------------------------
(***************************************************************************)
(* The wait-state window for TLC: blocks 0 .. NBlocks - 1, split into line *)
(* and tag as the caches split the address bits.                           *)
(***************************************************************************)
EXTENDS SocWindow

CONSTANT NBlocks

MCBlocks == 0 .. NBlocks - 1
MCDTags == 0 .. (NBlocks \div DLINES) - 1
MCITags == 0 .. (NBlocks \div ILINES) - 1
MCDLineOf == [b \in MCBlocks |-> b % DLINES]
MCDTagOf == [b \in MCBlocks |-> b \div DLINES]
MCILineOf == [b \in MCBlocks |-> b % ILINES]
MCITagOf == [b \in MCBlocks |-> b \div ILINES]

\* The registers without what the next cycles overwrite before anything reads it:
\* the caches' read-ahead when no lookup follows, the fields of a transfer or a
\* request when there is none, the words of an invalid line, pc_reg after FETCH.
Dead == "dead"
If(live, x) == IF live THEN x ELSE Dead
LiveState ==
  LET dLook == DIdle /\ ~dStaleQ /\ cState # "FETCH" /\ (cRiscv => cState # "EXECUTE")
      iLook == IIdle /\ ~iReplayQ /\ ~iConflictQ /\ FetchReq /\ cPc.sel
      dWord(i) == IF dState = "FILL" /\ i[1] = dLineR THEN i[2] < dCnt ELSE dTags[i[1]].valid
      iWord(i) == IF ~IIdle /\ i[1] = ILineOf[cPc.blk] THEN i[2] < iCnt ELSE iTags[i[1]].valid
      tag(t) == If(t.valid, t)
  IN  <<[l \in DLines |-> tag(dTags[l])], [i \in DIndex |-> If(dWord(i), dWords[i])],
        If(dLook, tag(dTagQ)), If((dLook /\ dTagQ.valid) \/ (dState = "WB" /\ dPrimed), dWordQ),
        If(DIdle /\ ~dStaleQ, dRdIdxQ),
        dStaleQ, dSwept, dSweepIdx, dState, dPrimed, dCnt,
        If(dState = "WB", dIsProbe), If(~DIdle, <<dLineR, dTagR>>),
        [l \in ILines |-> tag(iTags[l])], [i \in IIndex |-> If(iWord(i), iWords[i])],
        If(iLook, <<tag(iTagQ), If(iTagQ.valid, iWordQ), iRdIdxQ>>),
        If(FetchReq, iConflictQ), If(FetchReq, iReplayQ),
        iSwept, iSweepIdx, iState, iCnt,
        bBusy, bBusyData, pMem, pInit,
        pBusy, If(pBusy, <<pElapsed, pWe, pBlk, pCursor>>), pTakeWord,
        pRspValid, pRspLast, pWdataNext, If(pRspValid, pRdata),
        cState, cRiscv, If(cState \in {"FETCH", "HACK_WR_D"}, cPc), cIns, cStoreWe,
        porCounter, gRstCnt, If(CpuSoftRst, gBoot)>>
=============================================================================

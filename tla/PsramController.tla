-------------------------- MODULE PsramController ---------------------------
(***************************************************************************)
(* sim/psram_word_model.veryl: the host side of the PSRAM controller, with *)
(* its cycle timing, as the repository pins it (the controller itself is a *)
(* vendored component).  Every request of the window is a whole line, so   *)
(* only bursts of LineWords words are modelled.                            *)
(*                                                                         *)
(* Ports, as parameters: req = [valid, we, blk, wdata, wstrb]; the         *)
(* registers pRspValid, pRspLast, pWdataNext, pRdata and PReqReady are its *)
(* outputs.                                                                *)
(***************************************************************************)
EXTENDS SocPkg

CONSTANTS
  XMEM_READ_LATENCY,    \* 35
  XMEM_WRITE_LATENCY,   \* 34
  INIT_CYCLES           \* power-up: soc_pkg::PSRAM_INIT_CYCLES, 3610

\* The controller answers in even cycles after the accepting one.
ASSUME LatencyAssumption ==
  /\ XMEM_READ_LATENCY \in Nat /\ XMEM_READ_LATENCY >= 5 /\ XMEM_READ_LATENCY % 2 = 1
  /\ XMEM_WRITE_LATENCY \in Nat /\ XMEM_WRITE_LATENCY >= 8 /\ XMEM_WRITE_LATENCY % 2 = 0
  /\ INIT_CYCLES \in Nat
  /\ LineWords >= 2

VARIABLES
  pMem,        \* block -> word -> the stored word
  pInit,       \* power-up cycles left
  pBusy, pElapsed, pWe,   \* pElapsed is 0 between bursts, where the code's count is unused
  pBlk, pCursor,  \* the word the next read or later write word is at
  pTakeWord,   \* wdata_next last cycle: this cycle has the word
  pRspValid, pRspLast, pWdataNext, pRdata

pvars == <<pMem, pInit, pBusy, pElapsed, pWe, pBlk, pCursor, pTakeWord,
           pRspValid, pRspLast, pWdataNext, pRdata>>

Twice == 2 * (LineWords - 1)
BURST_READ_AT == XMEM_READ_LATENCY - 3
WDATA_NEXT_AT == XMEM_WRITE_LATENCY - 6

\* Mutant: a read's recovery two cycles longer than the caches count on.
ReadyAtLate(we) == IF we THEN XMEM_WRITE_LATENCY + Twice ELSE XMEM_READ_LATENCY + Twice + 2

ReadyAt(we) == (IF we THEN XMEM_WRITE_LATENCY ELSE XMEM_READ_LATENCY) + Twice

PReqReady == pInit = 0 /\ ~pBusy
PAccept(req) == req.valid /\ PReqReady

\* What the next cycle has.
PNext == pElapsed + 1
PReadWord == /\ pBusy /\ ~pWe
             /\ PNext >= BURST_READ_AT /\ PNext <= BURST_READ_AT + Twice /\ PNext % 2 = 0
PWriteRsp == pBusy /\ pWe /\ PNext = ReadyAt(TRUE)
PWordDue == /\ pBusy /\ pWe
            /\ PNext > WDATA_NEXT_AT /\ PNext <= WDATA_NEXT_AT + Twice /\ PNext % 2 = 0

\* The array: a read word, else word 0 of a write at its acceptance or the word
\* that follows a wdata_next.
PArrayClock(req) ==
  LET store(b, k) == [pMem EXCEPT ![b][k] = MergeBytes(@, req.wdata, req.wstrb)]
  IN  /\ pRdata' = IF PReadWord THEN pMem[pBlk][pCursor] ELSE pRdata
      /\ pMem' = CASE PReadWord -> pMem
                   [] ~PReadWord /\ PAccept(req) /\ req.we -> store(req.blk, 0)
                   [] ~PReadWord /\ ~PAccept(req) /\ pTakeWord -> store(pBlk, pCursor)
                   [] OTHER -> pMem

\* A clock edge with rst_n high.
PsramClock(req) ==
  /\ pRspValid' = (PReadWord \/ PWriteRsp)
  /\ pRspLast' = (PWriteRsp \/ (PReadWord /\ PNext = BURST_READ_AT + Twice))
  /\ pWdataNext' = PWordDue
  /\ pTakeWord' = pWdataNext
  /\ pInit' = IF pInit = 0 THEN 0 ELSE pInit - 1
  /\ IF PAccept(req)
     THEN /\ pBusy' = TRUE /\ pElapsed' = 1 /\ pWe' = req.we
          /\ pBlk' = req.blk /\ pCursor' = IF req.we THEN 1 ELSE 0
     ELSE IF pBusy
     THEN /\ pBusy' = (PNext # ReadyAt(pWe))
          /\ pElapsed' = IF PNext = ReadyAt(pWe) THEN 0 ELSE PNext
          /\ pCursor' = IF PReadWord \/ pTakeWord THEN pCursor + 1 ELSE pCursor
          /\ UNCHANGED <<pWe, pBlk>>
     ELSE UNCHANGED <<pBusy, pElapsed, pWe, pBlk, pCursor>>
  /\ PArrayClock(req)

PRegsReset ==
  /\ pInit = INIT_CYCLES
  /\ pBusy = FALSE /\ pElapsed = 0 /\ pWe = FALSE
  /\ pBlk = CHOOSE b \in Blocks : TRUE
  /\ pCursor = 0 /\ pTakeWord = FALSE
  /\ pRspValid = FALSE /\ pRspLast = FALSE /\ pWdataNext = FALSE

\* rst_n; the array and the last read word keep what they have.
PsramReset ==
  /\ pInit' = INIT_CYCLES
  /\ pBusy' = FALSE /\ pElapsed' = 0 /\ pWe' = FALSE
  /\ pBlk' = CHOOSE b \in Blocks : TRUE
  /\ pCursor' = 0 /\ pTakeWord' = FALSE
  /\ pRspValid' = FALSE /\ pRspLast' = FALSE /\ pWdataNext' = FALSE
  /\ UNCHANGED <<pMem, pRdata>>

PsramInit ==
  /\ PRegsReset
  /\ pRdata = NoData
  /\ pMem = [b \in Blocks |-> [k \in Offs |-> NoData]]

\* Where a burst stands in each cycle of it: the words read or taken so far, which
\* the cursor counts, and the cycles with a wdata_next and a word to take.
WordDueAt(n) == n > WDATA_NEXT_AT /\ n <= WDATA_NEXT_AT + Twice /\ n % 2 = 0
ReadCursor ==
  \/ pElapsed < BURST_READ_AT /\ pCursor = 0
  \/ /\ pElapsed >= BURST_READ_AT /\ pElapsed <= BURST_READ_AT + Twice
     /\ 2 * pCursor \in {pElapsed - BURST_READ_AT + 1, pElapsed - BURST_READ_AT + 2}
  \/ pElapsed > BURST_READ_AT + Twice /\ pCursor = LineWords
WriteCursor ==
  \/ pElapsed < WDATA_NEXT_AT + 4 /\ pCursor = 1
  \/ /\ pElapsed >= WDATA_NEXT_AT + 4 /\ pElapsed <= WDATA_NEXT_AT + Twice + 2
     /\ 2 * pCursor \in {pElapsed - WDATA_NEXT_AT - 1, pElapsed - WDATA_NEXT_AT}
  \/ pElapsed > WDATA_NEXT_AT + Twice + 2 /\ pCursor = LineWords
BurstInv ==
  /\ pBusy => pElapsed \in 1 .. ReadyAt(pWe) - 1
  /\ pWdataNext <=> pBusy /\ pWe /\ WordDueAt(pElapsed)
  /\ pTakeWord <=> pBusy /\ pWe /\ WordDueAt(pElapsed - 1)
  /\ pBusy => IF pWe THEN WriteCursor ELSE ReadCursor

\* The types of the controller's registers and of the array.
PsramTypeOK ==
  /\ pMem \in [Blocks -> [Offs -> Word]] /\ pRdata \in Word
  /\ pInit \in 0 .. INIT_CYCLES
  /\ pBusy \in BOOLEAN /\ pWe \in BOOLEAN
  /\ pElapsed \in Nat /\ pBlk \in Blocks /\ pCursor \in 0 .. LineWords
  /\ pTakeWord \in BOOLEAN /\ pRspValid \in BOOLEAN
  /\ pRspLast \in BOOLEAN /\ pWdataNext \in BOOLEAN
=============================================================================

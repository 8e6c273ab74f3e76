--------------------------- MODULE MCWindowTiming ---------------------------
(***************************************************************************)
(* The wait-state window with the controller's latencies of the board, and *)
(* a count of the cycles the CPU waits for the access it has on the bus.   *)
(***************************************************************************)
EXTENDS MCSocWindow

VARIABLE waited      \* cycles the CPU has waited for the present window access

Waits == \/ FetchPort.win /\ ~InstrReady
         \/ DataPort.win /\ ~DataReady

TInit == Init /\ waited = 0
TNext == Next /\ waited' = IF RawRst /\ Waits THEN waited + 1 ELSE 0
TSpec == TInit /\ [][TNext]_<<vars, waited>>

TView == <<LiveState, waited>>

FillCost == XMEM_READ_LATENCY + Twice
WriteBackCost == XMEM_WRITE_LATENCY + Twice

\* No access waits longer than the probed instruction miss: none waits forever.
WaitsBounded == waited <= WriteBackCost + 3 + FillCost

\* The cycle costs the caches' headers count, and the emulator copies: a hit costs
\* nothing over a ROM fetch or load; a miss R+14 = 49 cycles; a data miss with a
\* dirty victim (W+14)+2+(R+14) = 99; an instruction miss on a line the data cache
\* holds dirty (W+14)+3+(R+14) = 100.  So an access waits at most 100 cycles, and
\* none waits for the controller.
CostsAsCounted ==
  /\ FetchPort.win /\ InstrReady =>
       waited \in {0, FillCost, WriteBackCost + 3 + FillCost}
  /\ DataPort.win /\ DataReady =>
       waited \in {0, FillCost, WriteBackCost + 2 + FillCost}
  /\ WaitsBounded
=============================================================================

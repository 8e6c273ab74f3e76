---------------------------- MODULE WindowMemory ----------------------------
(***************************************************************************)
(* What the wait-state window promises the CPU: one memory, read and       *)
(* written a word at a time, for instructions and data alike.  `port` is   *)
(* the access completing in this cycle; a store takes effect at the end of *)
(* it.  The reset button (up falls) may lose stores: the memory is then    *)
(* any.                                                                    *)
(***************************************************************************)
CONSTANTS Blocks, Offs, Word

VARIABLES mem, port, up

Memories == [Blocks -> [Offs -> Word]]
None == [op |-> "none"]

Completing(m, p) ==
  \/ p = None
  \/ \E b \in Blocks, k \in Offs :
       \/ p = [op |-> "load", blk |-> b, off |-> k, val |-> m[b][k]]
       \/ \E v \in Word : p = [op |-> "store", blk |-> b, off |-> k, val |-> v]

After(m, p) == IF p.op = "store" THEN [m EXCEPT ![p.blk][p.off] = p.val] ELSE m

Init == mem \in Memories /\ port = None /\ up = FALSE

\* A cycle: the completed store takes effect, another access may complete.
Cycle ==
  /\ up /\ up'
  /\ mem' = After(mem, port)
  /\ Completing(mem', port')

PowerUp == ~up /\ port' = None /\ mem' = mem /\ up' \in BOOLEAN

Reset == ~up' /\ port' = None /\ mem' \in Memories

Next == Cycle \/ PowerUp \/ Reset

Spec == Init /\ [][Next]_<<mem, port, up>>
=============================================================================

--------------------------- MODULE SocXmemBridge ----------------------------
(***************************************************************************)
(* soc/soc_xmem_bridge.veryl: turns a line fill of soc_icache or a line    *)
(* transfer of soc_dcache into one burst request of the memory controller  *)
(* and tells the cache when each word of it completes.                     *)
(*                                                                         *)
(* Ports, as parameters: fsel, dsel the caches' selects, soft the CPU's    *)
(* soft reset, rspValid and rspLast the controller's responses.            *)
(***************************************************************************)
VARIABLES bBusy, bBusyData

bvars == <<bBusy, bBusyData>>

BDone(rspValid) == bBusy /\ rspValid
BReqValid(fsel, dsel, soft) == (fsel \/ dsel) /\ ~bBusy /\ ~soft
BInstrReady(fsel, rspValid) == ~fsel \/ (BDone(rspValid) /\ ~bBusyData)
BDataReady(dsel, rspValid) == ~dsel \/ (BDone(rspValid) /\ bBusyData)

\* A clock edge; reqReady is the controller's.
BridgeClock(fsel, dsel, soft, reqReady, rspLast) ==
  CASE BReqValid(fsel, dsel, soft) /\ reqReady -> bBusy' = TRUE /\ bBusyData' = dsel
    [] ~(BReqValid(fsel, dsel, soft) /\ reqReady) /\ rspLast -> bBusy' = FALSE /\ UNCHANGED bBusyData
    [] OTHER -> UNCHANGED bvars

BridgeInit == bBusy = FALSE /\ bBusyData = FALSE
BridgeReset == bBusy' = FALSE /\ bBusyData' = FALSE

\* The types of soc_xmem_bridge's registers.
BridgeTypeOK == bBusy \in BOOLEAN /\ bBusyData \in BOOLEAN
=============================================================================

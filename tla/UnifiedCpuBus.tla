--------------------------- MODULE UnifiedCpuBus ----------------------------
(***************************************************************************)
(* soc/cpu/unified_cpu.veryl as the wait-state window sees it: the         *)
(* multi-cycle FSM of both ISAs, the program counter and the data access   *)
(* of the instruction.  What an instruction computes is left open: the     *)
(* fetched word decodes to any instruction of the ISA, next_pc is any      *)
(* address, a stored value any value.                                      *)
(*                                                                         *)
(* An address has a flag `sel`: in the window (RV32 region 8, Hack's       *)
(* segments) or not (the ROM, the peripherals, Hack's MMIO words).         *)
(***************************************************************************)
EXTENDS SocPkg

CONSTANTS
  Block0,        \* the block of PSRAM word 0: RESET_VECTOR's low bits, HACK_I_BASE
  HackIBlocks,   \* Hack's instruction segment
  HackDBlocks,   \* Hack's data segment
  ProgOffs,      \* the words of a line the program uses (a bound; Offs is no bound)
  ProgOps        \* the kinds of instruction it uses (a bound; Ops is no bound)

Ops == {"alu", "muldiv", "load", "store", "amo", "hread", "hwrite", "hrmw"}

ASSUME SegmentAssumption ==
  /\ Block0 \in HackIBlocks
  /\ HackIBlocks \subseteq Blocks
  /\ HackDBlocks \subseteq Blocks
  /\ 0 \in ProgOffs /\ ProgOffs \subseteq Offs
  /\ "alu" \in ProgOps /\ ProgOps \subseteq Ops

VARIABLES
  cState,     \* CpuState
  cRiscv,     \* is_riscv_mode
  cPc,        \* pc_reg: [sel, blk, off]
  cIns,       \* the instruction after FETCH (ir_reg) and its access's address and data
  cStoreWe    \* r_store_we (RV32), r_hack_mem_we (Hack)

cvars == <<cState, cRiscv, cPc, cIns, cStoreWe>>

CpuState == {"FETCH", "EXECUTE", "MEM_WAIT", "HACK_WB", "HACK_WR_D", "MULDIV_WAIT", "AMO_CALC"}

\* An address in the window, or the one that stands for all outside it.  Outside, the
\* low bits still reach the caches' read ports, but no lookup uses what they read.
Outside == [sel |-> FALSE, blk |-> Block0, off |-> 0]
Addresses(blks) == [sel : {TRUE}, blk : blks, off : ProgOffs] \cup {Outside}
Pcs(riscv) ==
  IF riscv THEN Addresses(Blocks) ELSE [sel : {TRUE}, blk : HackIBlocks, off : ProgOffs]

Ins(op, a, data, strb) ==
  [op |-> op, sel |-> a.sel, blk |-> a.blk, off |-> a.off, data |-> data, strb |-> strb]

\* What a fetched word can decode to.  "alu": no data access and done in EXECUTE
\* (traps, mret and a failed SC too); "load" is LOAD and LR, "store" STORE and SC;
\* "hread", "hwrite" and "hrmw" are Hack's uses of M, the data word at A, which the
\* address lines already hold.  An AMO's and an hrmw's data is computed from the
\* loaded word, later.
RvInstructions ==
  {Ins(op, Outside, NoData, {}) : op \in {"alu", "muldiv"}}
    \cup {Ins("load", x, NoData, {}) : x \in Addresses(Blocks)}
    \cup {Ins("amo", x, NoData, Lanes) : x \in Addresses(Blocks)}
    \cup {Ins("store", x, d, s) : x \in Addresses(Blocks), d \in Word, s \in SUBSET Lanes \ {{}}}
HackInstructions(a) ==
  {Ins(op, a, NoData, {}) : op \in {"alu", "hread", "hrmw"}}
    \cup {Ins("hwrite", a, d, Lanes) : d \in Word}
Instructions(riscv, a) ==
  {i \in IF riscv THEN RvInstructions ELSE HackInstructions(a) : i.op \in ProgOps}

\* Between instructions only the address lines matter: A in Hack.  In RV32 they are
\* whatever rs1 + imm is, with the access's own address on them a cycle before its
\* lookup (EXECUTE).
Between(riscv) ==
  {Ins("none", a, NoData, {}) : a \in IF riscv THEN {Outside} ELSE Addresses(HackDBlocks)}

\* The bus.  The address lines (data_addr, data_waddr) are cIns.blk and cIns.off.
FetchReq == cState = "FETCH"
MemWrite ==
  \/ cStoreWe /\ cState \in {"MEM_WAIT", "HACK_WB"}
  \/ cState = "EXECUTE" /\ cIns.op = "hwrite"
DataReq == cState = "MEM_WAIT" \/ (~cRiscv /\ MemWrite)
PcOut(nextPc) == IF cState \in {"FETCH", "HACK_WR_D"} THEN cPc ELSE nextPc
NextPcs == IF cState \in {"FETCH", "HACK_WR_D"} THEN {cPc} ELSE Pcs(cRiscv)

-----------------------------------------------------------------------------
\* The FSM's states.

\* Mutant: an interrupt is taken, and the pc moves, while a fetch waits.
CFetchInterrupted(instrReady) ==
  /\ cState = "FETCH"
  /\ IF instrReady
     THEN /\ cState' = "EXECUTE" /\ cIns' \in Instructions(cRiscv, cIns) /\ cStoreWe' = FALSE
          /\ UNCHANGED cPc
     ELSE /\ cPc' \in Pcs(cRiscv)
          /\ UNCHANGED <<cState, cIns, cStoreWe>>
  /\ UNCHANGED cRiscv

CFetch(instrReady) ==
  /\ cState = "FETCH"
  /\ IF instrReady
     THEN cState' = "EXECUTE" /\ cIns' \in Instructions(cRiscv, cIns) /\ cStoreWe' = FALSE
     ELSE UNCHANGED <<cState, cIns, cStoreWe>>
  /\ UNCHANGED <<cRiscv, cPc>>

\* The instruction ends: the next fetch, after a cycle more for a Hack instruction
\* that writes A and D.
Complete(nextPc) ==
  /\ cState' \in IF cRiscv THEN {"FETCH"} ELSE {"FETCH", "HACK_WR_D"}
  /\ cPc' = nextPc
  /\ cIns' \in Between(cRiscv) /\ cStoreWe' = FALSE

CExecute(nextPc, dataReady) ==
  /\ cState = "EXECUTE"
  /\ \/ /\ cIns.op = "alu"
        /\ Complete(nextPc)
     \/ /\ cIns.op = "muldiv"
        /\ cState' = "MULDIV_WAIT" /\ UNCHANGED <<cPc, cIns, cStoreWe>>
     \/ /\ cIns.op \in {"load", "amo", "store", "hread", "hrmw"}
        /\ cState' = "MEM_WAIT" /\ cStoreWe' = (cIns.op = "store")
        /\ UNCHANGED <<cPc, cIns>>
     \/ /\ cIns.op = "hwrite" /\ dataReady
        /\ Complete(nextPc)
     \/ /\ cIns.op = "hwrite" /\ ~dataReady    \* hack_mem_stall
        /\ UNCHANGED <<cState, cPc, cIns, cStoreWe>>
  /\ UNCHANGED cRiscv

\* Hack's ALU computes what it stores to M from the word it read.  Mutant: A is written
\* with it, before the store.
HackLatchedEarlyA(d) ==
  IF cIns.op = "hrmw"
  THEN [cIns EXCEPT !.data = d, !.strb = Lanes, !.off = (@ + 1) % LineWords]
  ELSE cIns

HackLatched(d) == IF cIns.op = "hrmw" THEN [cIns EXCEPT !.data = d, !.strb = Lanes] ELSE cIns

CMemWait(nextPc, dataReady) ==
  /\ cState = "MEM_WAIT"
  /\ \/ /\ ~dataReady
        /\ UNCHANGED <<cState, cPc, cIns, cStoreWe>>
     \/ /\ dataReady /\ cIns.op = "amo" /\ ~cStoreWe
        /\ cState' = "AMO_CALC" /\ UNCHANGED <<cPc, cIns, cStoreWe>>
     \/ /\ dataReady /\ cRiscv /\ ~(cIns.op = "amo" /\ ~cStoreWe)
        /\ Complete(nextPc)
     \/ /\ dataReady /\ ~cRiscv
        /\ cState' = "HACK_WB" /\ cStoreWe' = (cIns.op = "hrmw")
        /\ \E d \in Word : cIns' = HackLatched(d)
        /\ UNCHANGED cPc
  /\ UNCHANGED cRiscv

CAmoCalc ==
  /\ cState = "AMO_CALC"
  /\ \E d \in Word : cIns' = [cIns EXCEPT !.data = d]
  /\ cState' = "MEM_WAIT" /\ cStoreWe' = TRUE
  /\ UNCHANGED <<cRiscv, cPc>>

CHackWb(nextPc, dataReady) ==
  /\ cState = "HACK_WB"
  /\ IF cStoreWe /\ ~dataReady
     THEN UNCHANGED <<cState, cPc, cIns, cStoreWe>>
     ELSE Complete(nextPc)
  /\ UNCHANGED cRiscv

CHackWrD ==
  /\ cState = "HACK_WR_D"
  /\ cState' = "FETCH"
  /\ UNCHANGED <<cRiscv, cPc, cIns, cStoreWe>>

\* rv32m_muldiv takes a fixed number of cycles, none of them on the bus.
CMulDivWait(nextPc) ==
  /\ cState = "MULDIV_WAIT"
  /\ \/ Complete(nextPc)
     \/ UNCHANGED <<cState, cPc, cIns, cStoreWe>>
  /\ UNCHANGED cRiscv

\* A reset starts at RESET_VECTOR (the ROM), in Hack at its segment's first word.
ResetPc(riscv) == [Outside EXCEPT !.sel = ~riscv]

CpuInit ==
  /\ cState = "FETCH" /\ cRiscv = TRUE /\ cPc = ResetPc(TRUE)
  /\ cIns \in Between(TRUE) /\ cStoreWe = FALSE

CSoftReset(bootRv32) ==
  /\ cState' = "FETCH" /\ cRiscv' = bootRv32 /\ cPc' = ResetPc(bootRv32)
  /\ cIns' \in Between(bootRv32) /\ cStoreWe' = FALSE

CpuReset == CSoftReset(TRUE)

\* A clock edge out of reset.
CpuClock(nextPc, instrReady, dataReady) ==
  \/ CFetch(instrReady)
  \/ CExecute(nextPc, dataReady)
  \/ CMemWait(nextPc, dataReady)
  \/ CAmoCalc
  \/ CHackWb(nextPc, dataReady)
  \/ CHackWrD
  \/ CMulDivWait(nextPc)

\* The types of unified_cpu's registers on the bus; the pc is one the ISA can have.
CpuTypeOK ==
  /\ cState \in CpuState /\ cRiscv \in BOOLEAN /\ cPc \in Pcs(cRiscv)
  /\ cIns \in [op : Ops \cup {"none"},
               sel : BOOLEAN, blk : Blocks, off : Offs, data : Word, strb : SUBSET Lanes]
  /\ cStoreWe \in BOOLEAN
=============================================================================

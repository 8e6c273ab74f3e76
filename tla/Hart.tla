-------------------------------- MODULE Hart --------------------------------
(***************************************************************************)
(* The hart of unified_cpu.veryl with its CSRs, trap unit and atomics,     *)
(* the CLINT (timer_core.veryl), the UART's registers and FIFOs, the GPIO  *)
(* boot mode and soft reset, running one of the lockstep programs.         *)
(*                                                                         *)
(* An instruction takes its FSM steps: FETCH samples the interrupt with    *)
(* the instruction, EXECUTE traps or acts, MEM_WAIT is the access, and an  *)
(* AMO stores in a second MEM_WAIT.  Between any two steps the devices     *)
(* move: a received byte, a transmitted one, the timer coming due.  How    *)
(* many cycles a step takes is not kept; that each takes at least one is,  *)
(* for the timer's interrupt is a register one cycle behind its compare.   *)
(***************************************************************************)
EXTENDS LockstepPrograms

CONSTANT Running   \* the names of the programs a run starts

VARIABLES
  prog, isa, pc, state, rIrq,     \* the program, is_riscv_mode, pc_reg, the FSM, r_irq with its cause (0: none)
  priv, mstatus, mie, mtvec, mepc, mcause, minstret,
  regs, mem, resv, amoOld,        \* resv: the reserved word's address, 0 for none
  msip, cmp, elapsed, gap, timerIrq,
  rx, toCome, tx, busy, evEnable, sent,
  mode, pulse                     \* GPIO 0x8 (0: not valid), the soft-reset pulse

csrs == <<priv, mstatus, mie, mtvec, mepc, mcause>>
clintVars == <<msip, cmp, elapsed>>
uartVars == <<rx, toCome, tx, busy, evEnable, sent>>
gpioVars == <<mode, pulse>>
vars == <<prog, isa, pc, state, rIrq, csrs, minstret, regs, mem, resv, amoOld, clintVars, gap, timerIrq, uartVars, gpioVars>>

Regs == {"zero", "ra", "t0", "t1", "t2", "t3", "t4", "t5", "t6", "s0", "s3", "s4", "s5", "s6", "s7",
         "s8", "s9", "x5", "a0", "a1", "D"}
WindowWords == {AMO_DATA, AMO_DATA + 4, AMO_DATA + 8, AMO_LINE2, HACK_STUB_FLAG, HACK_D_BASE + 64}
Bits == {"MIE", "MPIE", "MPP", "MPRV", "TW"}
Irqs == {"MEI", "MSI", "MTI"}
IrqCode == [MEI |-> 11, MSI |-> 3, MTI |-> 7]

Ins == programs[prog][isa].words[pc]
Target(l) == (CHOOSE t \in programs[prog][isa].labels : t[1] = l)[2]

-----------------------------------------------------------------------------
(* Interrupts: mip, the pending one and its priority (rv32i_csrs).         *)

uartIrq == \/ evEnable % 2 = 1 /\ tx < Depth
           \/ evEnable >= 2 /\ rx /= <<>>
mip == {i \in Irqs : CASE i = "MEI" -> uartIrq [] i = "MSI" -> msip [] i = "MTI" -> timerIrq}
irqPending == (priv = "U" \/ "MIE" \in mstatus) /\ mie \cap mip /= {}
irqCause == LET p == mie \cap mip
            IN  INT + IrqCode[IF "MEI" \in p THEN "MEI" ELSE IF "MSI" \in p THEN "MSI" ELSE "MTI"]

\* mtime >= mtimecmp, for an mtimecmp that is 0, ahead of mtime (SOON), or out of reach
TimerDue == cmp.hi = 0 /\ (cmp.lo = 0 \/ (cmp.lo = SOON /\ elapsed))

-----------------------------------------------------------------------------
(* The exception of the instruction in EXECUTE, -1 for none                *)
(* (rv32i_trap_unit, after the interrupt).                                 *)

Mnemonic == Ins[1]
IsLoad == Mnemonic \in {"lw", "lb", "hld"}
IsStore == Mnemonic \in {"sw", "sb", "hst"}
IsAtomic == Mnemonic \in {"lr", "sc", "amo"}
IsCsr == Mnemonic \in {"csrr", "csrw", "csrs", "csrc", "epc", "epc4", "epcr", "tvec"}
Address == Ins[Len(Ins)]

illegal ==
  \/ Mnemonic = "illegal"
  \/ IsCsr /\ priv = "U"
  \/ Mnemonic = "csrw" /\ Ins[2] = "cycle"
  \/ priv = "U" /\ (Mnemonic = "mret" \/ (Mnemonic = "wfi" /\ "TW" \in mstatus))

memMisaligned == (IsAtomic \/ Mnemonic \in {"lw", "sw"}) /\ Address % 4 /= 0

exception ==
  CASE illegal -> 2
    [] ~illegal /\ Mnemonic = "jmisaligned" -> 0
    [] Mnemonic = "ecall" -> IF priv = "U" THEN 8 ELSE 11
    [] Mnemonic = "ebreak" -> 3
    [] memMisaligned -> IF Mnemonic \in {"lw", "lr"} THEN 4 ELSE 6
    [] OTHER -> -1

scOk == resv = Address

-----------------------------------------------------------------------------
(* The bus: what a load reads and which registers a store writes.          *)

InWindow(a) == a < 0 /\ a - XMEM < 268435456
InClint(a) == a >= CLINT /\ a < CLINT + 268435456
Page(a) == IF a >= UART /\ a < UART + 16384 THEN (a - UART) \div 4096 ELSE -1
InUart(a) == Page(a) = 0
InGpio(a) == Page(a) = 3
WindowWord(a) == XMEM + 4 * (((a - XMEM) % 8388608) \div 4)
ClintWord(a) == 4 * (((a - CLINT) % 65536) \div 4)
UartIdx(a) == ((a - UART) % 256) \div 4
GpioReg(a) == (a - GPIO) % 16

events == (IF tx < Depth THEN 1 ELSE 0) + (IF rx /= <<>> THEN 2 ELSE 0)
\* the events whose bit is also in EV_ENABLE
enabledEvents == (IF evEnable % 2 = 1 THEN events % 2 ELSE 0) + (IF evEnable >= 2 THEN 2 * (events \div 2) ELSE 0)
B(b) == IF b THEN 1 ELSE 0

UartWord(i) ==
  CASE i = 0 -> IF rx = <<>> THEN 0 ELSE Head(rx)
    [] i = 1 -> B(tx = Depth)
    [] i = 2 -> B(rx = <<>>)
    [] i = 3 -> events
    [] i = 4 -> IF evEnable = 0 THEN events ELSE enabledEvents
    [] i = 5 -> evEnable
    [] i = 6 -> B(tx = 0)
    [] i = 7 -> B(Len(rx) = Depth)
    [] OTHER -> 0

ClintRead(o) ==
  CASE o = 0 -> B(msip)
    [] o = MTIMECMP - CLINT -> cmp.lo
    [] o = MTIMECMP - CLINT + 4 -> cmp.hi
    [] OTHER -> 0

ReadWord(a) ==
  CASE InWindow(a) -> IF WindowWord(a) \in WindowWords THEN mem[WindowWord(a)] ELSE 0
    [] InClint(a) -> ClintRead(ClintWord(a))
    [] InUart(a) -> UartWord(UartIdx(a))
    [] InGpio(a) -> IF GpioReg(a) = 8 THEN mode ELSE 0
    [] a >= 0 /\ a < 268435456 -> RomWord(a)
    [] OTHER -> 0

\* A byte load takes its byte of the word (lb and lbu alike: the bytes here are below 128)
LoadValue == IF Mnemonic = "lb" THEN (ReadWord(Address) \div 256^(Address % 4)) % 256 ELSE ReadWord(Address)

PopsRx == InUart(Address) /\ UartIdx(Address) = 0 /\ rx /= <<>>

StoreUart(a, v) ==
  /\ IF UartIdx(a) = 0 /\ tx < Depth
     THEN tx' = tx + 1 /\ sent' = Append(sent, v)
     ELSE UNCHANGED <<tx, sent>>
  /\ evEnable' = IF UartIdx(a) = 5 THEN v % 4 ELSE evEnable
  /\ UNCHANGED <<rx, toCome, busy>>

StoreClint(a, v) ==
  /\ msip' = IF ClintWord(a) = 0 THEN v % 2 = 1 ELSE msip
  /\ cmp' = CASE ClintWord(a) = MTIMECMP - CLINT -> [cmp EXCEPT !.lo = v]
              [] ClintWord(a) = MTIMECMP - CLINT + 4 -> [cmp EXCEPT !.hi = v]
              [] OTHER -> cmp
  /\ UNCHANGED elapsed

StoreGpio(a, v) ==
  /\ mode' = IF GpioReg(a) = 8 THEN (IF v \div 256 = 1 THEN 256 + (v % 2) ELSE 0) ELSE mode
  /\ pulse' = IF GpioReg(a) = 12 /\ v \in {SOFT_RESET_KEY, 1515890010} THEN 2 ELSE pulse

\* A store to the ROM, an unassigned region or page, or an offset that is no register changes nothing
Store(a, v) ==
  /\ IF InUart(a) THEN StoreUart(a, v) ELSE UNCHANGED uartVars
  /\ IF InClint(a) THEN StoreClint(a, v) ELSE UNCHANGED clintVars
  /\ IF InGpio(a) THEN StoreGpio(a, v) ELSE UNCHANGED gpioVars
  /\ mem' = IF InWindow(a) /\ WindowWord(a) \in WindowWords THEN [mem EXCEPT ![WindowWord(a)] = v] ELSE mem

-----------------------------------------------------------------------------
(* Steps of the hart.                                                      *)

\* Every step takes a cycle: the timer's interrupt follows its compare one behind
Cycle == timerIrq' = TimerDue

\* minstret is kept modulo 8
Retire == minstret' = (minstret + 1) % 8

\* x0 stays zero
SetReg(r, v) == regs' = IF r = "zero" THEN regs ELSE [regs EXCEPT ![r] = v]

\* As it would be: r_irq not sampled again while no interrupt is pending
FetchSticky ==
  /\ pulse = 0 /\ state = "FETCH"
  /\ rIrq' = IF irqPending /\ isa = "rv32" THEN irqCause ELSE rIrq
  /\ state' = "EXECUTE"
  /\ Cycle
  /\ UNCHANGED <<prog, isa, pc, csrs, minstret, regs, mem, resv, amoOld, clintVars, gap, uartVars, gpioVars>>

Fetch ==
  /\ pulse = 0 /\ state = "FETCH"
  /\ rIrq' = IF irqPending /\ isa = "rv32" THEN irqCause ELSE 0
  /\ state' = "EXECUTE"
  /\ Cycle
  /\ UNCHANGED <<prog, isa, pc, csrs, minstret, regs, mem, resv, amoOld, clintVars, gap, uartVars, gpioVars>>

\* As it would be: a trap that leaves the reservation
TrapEntryReserved(cause) ==
  /\ mepc' = pc /\ mcause' = cause
  /\ mstatus' = (mstatus \ {"MIE", "MPIE", "MPP"})
                \cup (IF "MIE" \in mstatus THEN {"MPIE"} ELSE {})
                \cup (IF priv = "M" THEN {"MPP"} ELSE {})
  /\ priv' = "M" /\ pc' = mtvec
  /\ UNCHANGED <<mie, mtvec, minstret, regs, clintVars, resv>>

\* trap_entry: nothing of the instruction happens, and the reservation is gone
TrapEntry(cause) ==
  /\ mepc' = pc /\ mcause' = cause
  /\ mstatus' = (mstatus \ {"MIE", "MPIE", "MPP"})
                \cup (IF "MIE" \in mstatus THEN {"MPIE"} ELSE {})
                \cup (IF priv = "M" THEN {"MPP"} ELSE {})
  /\ priv' = "M"
  /\ pc' = mtvec
  /\ resv' = 0
  /\ UNCHANGED <<mie, mtvec, minstret, regs, clintVars>>

\* As it would be: a return that leaves interrupts off
TrapReturnMasked ==
  /\ mstatus' = (mstatus \ ({"MIE", "MPP"} \cup (IF "MPP" \in mstatus THEN {} ELSE {"MPRV"}))) \cup {"MPIE"}
  /\ priv' = IF "MPP" \in mstatus THEN "M" ELSE "U"
  /\ pc' = mepc
  /\ Retire
  /\ UNCHANGED <<mie, mtvec, mepc, mcause, regs, resv, clintVars>>

TrapReturn ==
  /\ mstatus' = (mstatus \ ({"MIE", "MPP"} \cup (IF "MPP" \in mstatus THEN {} ELSE {"MPRV"})))
                \cup {"MPIE"} \cup (IF "MPIE" \in mstatus THEN {"MIE"} ELSE {})
  /\ priv' = IF "MPP" \in mstatus THEN "M" ELSE "U"
  /\ pc' = mepc
  /\ Retire
  /\ UNCHANGED <<mie, mtvec, mepc, mcause, regs, resv, clintVars>>

CsrRead(c) ==
  CASE c = "mstatus" -> Word(mstatus)
    [] c = "mip" -> Word(mip)
    [] c = "mcause" -> mcause
    [] c = "mtvec" -> mtvec
    [] c = "minstret" -> minstret
    [] OTHER -> 0

\* MPP is WARL: both bits set select M, anything else U
Warl(bits) == (bits \cap {"MIE", "MPIE", "MPRV", "TW"}) \cup (IF {"MPP0", "MPP1"} \subseteq bits THEN {"MPP"} ELSE {})
Raw == (mstatus \ {"MPP"}) \cup (IF "MPP" \in mstatus THEN {"MPP0", "MPP1"} ELSE {})
WriteMstatus ==
  mstatus' = Warl(CASE Mnemonic = "csrw" -> Ins[3] [] Mnemonic = "csrs" -> Raw \cup Ins[3] [] OTHER -> Raw \ Ins[3])

\* The CSR instructions and their idioms; a write to minstret replaces its increment
Csr ==
  /\ IsCsr
  /\ CASE Mnemonic = "csrr" -> SetReg(Ins[2], CsrRead(Ins[3]))
       [] Mnemonic = "epc4" -> SetReg("t0", mepc + 1)
       [] OTHER -> UNCHANGED regs
  /\ IF Mnemonic \in {"csrw", "csrs", "csrc"} /\ Ins[2] = "mstatus" THEN WriteMstatus ELSE UNCHANGED mstatus
  /\ mie' = IF Mnemonic = "csrw" /\ Ins[2] = "mie" THEN Ins[3] ELSE mie
  /\ mtvec' = IF Mnemonic = "tvec" THEN Target(Ins[2]) ELSE mtvec
  /\ mepc' = CASE Mnemonic = "epc" -> Target(Ins[2])
               [] Mnemonic = "epc4" -> mepc + 1
               [] Mnemonic = "epcr" -> regs[Ins[2]]
               [] OTHER -> mepc
  /\ IF Mnemonic = "csrw" /\ Ins[2] = "minstret" THEN minstret' = 0 ELSE Retire
  /\ pc' = pc + 1
  /\ UNCHANGED <<priv, mcause, resv, clintVars>>

\* All bytes of the program's stimulus have arrived (uart_drop waits for that by mcycle)
AllArrived == toCome = <<>>

BranchTaken ==
  CASE Mnemonic = "beq" -> regs[Ins[2]] = regs[Ins[3]]
    [] Mnemonic = "bne" -> regs[Ins[2]] /= regs[Ins[3]]
    [] Mnemonic = "bltu" -> regs[Ins[2]] < regs[Ins[3]]
    [] Mnemonic = "bgeu" -> regs[Ins[2]] >= regs[Ins[3]]
    [] Mnemonic = "hjne" -> regs["D"] /= 0
    [] Mnemonic = "early" -> ~AllArrived
    [] Mnemonic \in {"j", "hj", "call"} -> TRUE

Jump ==
  /\ \/ /\ Mnemonic \in {"beq", "bne", "bltu", "bgeu", "hjne", "early", "j", "hj", "call"}
        /\ pc' = IF BranchTaken THEN Target(Ins[Len(Ins)]) ELSE pc + 1
     \/ Mnemonic = "maybe" /\ pc' \in {Target(Ins[2]), pc + 1}
     \/ Mnemonic = "jr" /\ pc' = regs[Ins[2]]
     \/ Mnemonic = "jalr" /\ pc' = regs[Ins[3]]
  /\ IF Mnemonic = "call" THEN SetReg("ra", pc + 1)
     ELSE IF Mnemonic = "jalr" THEN SetReg(Ins[2], pc + 1) ELSE UNCHANGED regs
  /\ Retire
  /\ UNCHANGED <<csrs, resv, clintVars>>

\* soon reads mtime and adds a distance: the timer has that far to go again
Alu ==
  /\ \/ Mnemonic \in {"nop", "wfi"} /\ UNCHANGED regs
     \/ Mnemonic = "li" /\ SetReg(Ins[2], Ins[3])
     \/ Mnemonic = "la" /\ SetReg(Ins[2], Target(Ins[3]))
     \/ Mnemonic = "mv" /\ SetReg(Ins[2], regs[Ins[3]])
     \/ Mnemonic = "addi" /\ SetReg(Ins[2], regs[Ins[3]] + Ins[4])
     \/ Mnemonic = "sub" /\ SetReg(Ins[2], regs[Ins[3]] - regs[Ins[4]])
     \/ Mnemonic = "sub8" /\ SetReg(Ins[2], (regs[Ins[3]] - regs[Ins[4]]) % 8)
     \/ Mnemonic = "addup" /\ SetReg(Ins[2], regs[Ins[2]] + regs[Ins[3]])
     \/ Mnemonic = "record" /\ SetReg(Ins[2], regs[Ins[2]] * 16 + (regs[Ins[3]] % INT))
     \/ Mnemonic = "hset" /\ SetReg("D", Ins[2])
     \/ Mnemonic = "hadd" /\ SetReg("D", regs["D"] + Ins[2])
     \/ Mnemonic = "soon" /\ SetReg(Ins[2], SOON)
  /\ elapsed' = (elapsed /\ Mnemonic /= "soon")
  /\ pc' = pc + 1
  /\ Retire
  /\ UNCHANGED <<csrs, resv, msip, cmp>>

\* An SC without its reservation completes here, like an instruction without an access
ScFailed ==
  /\ Mnemonic = "sc" /\ ~scOk
  /\ SetReg(Ins[2], 1)
  /\ resv' = 0
  /\ pc' = pc + 1
  /\ Retire
  /\ UNCHANGED <<csrs, clintVars>>

Execute ==
  /\ pulse = 0 /\ state = "EXECUTE"
  /\ Cycle
  /\ gap' = IF Mnemonic = "soon" /\ rIrq = 0 THEN programs[prog].gap ELSE IF gap > 0 THEN gap - 1 ELSE 0
  /\ UNCHANGED <<prog, isa, rIrq, mem, amoOld, uartVars, gpioVars>>
  /\ LET cause == IF rIrq /= 0 THEN rIrq ELSE exception
     IN  \/ /\ cause /= -1
            /\ TrapEntry(cause)
            /\ state' = "FETCH"
         \/ /\ cause = -1 /\ ~(IsLoad \/ IsStore \/ (IsAtomic /\ (Mnemonic /= "sc" \/ scOk)))
            /\ \/ Mnemonic = "mret" /\ TrapReturn
               \/ Csr
               \/ Jump
               \/ Alu
               \/ ScFailed
            /\ state' = "FETCH"
         \/ /\ cause = -1 /\ (IsLoad \/ IsStore \/ (IsAtomic /\ (Mnemonic /= "sc" \/ scOk)))
            /\ resv' = CASE Mnemonic = "lr" -> Address [] Mnemonic = "sc" -> 0 [] OTHER -> resv
            /\ state' = "MEM_WAIT"
            /\ UNCHANGED <<pc, csrs, minstret, regs, clintVars>>

\* The access: a load into its register, a store, or an AMO's load
MemWait ==
  /\ pulse = 0 /\ state = "MEM_WAIT"
  /\ Cycle
  /\ IF IsStore \/ Mnemonic = "sc"
     THEN /\ Store(Address, IF Mnemonic = "hst" THEN regs["D"] ELSE regs[Ins[Len(Ins) - 1]])
          /\ IF Mnemonic = "sc" THEN SetReg(Ins[2], 0) ELSE UNCHANGED regs
          /\ UNCHANGED amoOld
     ELSE /\ rx' = IF PopsRx THEN Tail(rx) ELSE rx
          /\ CASE Mnemonic = "amo" -> UNCHANGED regs
               [] Mnemonic = "hld" -> SetReg("D", LoadValue)
               [] OTHER -> SetReg(Ins[2], LoadValue)
          /\ amoOld' = IF Mnemonic = "amo" THEN LoadValue ELSE amoOld
          /\ UNCHANGED <<mem, clintVars, gpioVars, toCome, tx, busy, evEnable, sent>>
  /\ IF Mnemonic = "amo"
     THEN state' = "AMO_CALC" /\ UNCHANGED <<pc, minstret>>
     ELSE state' = "FETCH" /\ pc' = pc + 1 /\ Retire
  /\ UNCHANGED <<prog, isa, rIrq, csrs, resv, gap>>

\* new_value: for MIN and MAX the ALU only compares, old < rs2, and MAX takes the other one
amoNew(op, old, src) ==
  LET less == IF op \in {"min", "max"} THEN Signed(old) < Signed(src) ELSE old < src
  IN  IF op \in {"min", "max", "minu", "maxu"}
      THEN IF less /= (op \in {"max", "maxu"}) THEN old ELSE src
      ELSE AmoResult(op, old, src)

\* The AMO's store; rd takes the old word, after rs2 was used
AmoStore ==
  /\ pulse = 0 /\ state = "AMO_CALC"
  /\ Cycle
  /\ Store(Address, amoNew(Ins[2], amoOld, regs[Ins[4]]))
  /\ SetReg(Ins[3], amoOld)
  /\ state' = "FETCH" /\ pc' = pc + 1
  /\ Retire
  /\ UNCHANGED <<prog, isa, rIrq, csrs, resv, amoOld, gap>>

\* The soft-reset pulse: the CPU, its CSRs, the reservation and EV_ENABLE are reset in its
\* first cycle; its last one ends the given mode.  The register file, the timer, msip and
\* the FIFOs keep their state.
SoftReset ==
  /\ pulse = 2
  /\ isa' = IF mode = 256 THEN "hack" ELSE "rv32"
  /\ pc' = 1 /\ state' = "FETCH" /\ rIrq' = 0
  /\ priv' = "M" /\ mstatus' = {"MPP"} /\ mie' = {} /\ mtvec' = 0 /\ mepc' = 0 /\ mcause' = 0 /\ minstret' = 0
  /\ resv' = 0 /\ evEnable' = 0
  /\ pulse' = 1
  /\ Cycle
  /\ UNCHANGED <<prog, regs, mem, amoOld, clintVars, gap, rx, toCome, tx, busy, sent, mode>>

SoftResetEnds ==
  /\ pulse = 1
  /\ pulse' = 0 /\ mode' = 0
  /\ Cycle
  /\ UNCHANGED <<prog, isa, pc, state, rIrq, csrs, minstret, regs, mem, resv, amoOld, clintVars, gap, uartVars>>

-----------------------------------------------------------------------------
(* The devices and the host.                                               *)

hartVars == <<prog, isa, pc, state, rIrq, csrs, minstret, regs, mem, resv, amoOld, gap, gpioVars>>

\* mtime reaches a compare value that was ahead of it (bound: once xmem is done its handler
\* goes on counting interrupts, of which one more is taken)
TimerReaches ==
  /\ prog = "xmem" => regs["s5"] <= XMEM_IRQS
  /\ ~elapsed /\ gap = 0 /\ cmp.lo = SOON
  /\ elapsed' = TRUE
  /\ UNCHANGED <<hartVars, msip, cmp, timerIrq, uartVars>>

\* A cycle in which the hart waits (a fetch or an access of the window)
Wait ==
  /\ timerIrq /= TimerDue
  /\ Cycle
  /\ UNCHANGED <<hartVars, clintVars, uartVars>>

\* A byte of the host arrives; with the FIFO full it is dropped
RxByte ==
  /\ toCome /= <<>>
  /\ LET from == Head(toCome)[2]
     IN  from /= "" => Target(from) <= pc /\ pc < Target("handler")
  /\ rx' = IF Len(rx) < Depth THEN Append(rx, Head(toCome)[1]) ELSE rx
  /\ toCome' = Tail(toCome)
  /\ UNCHANGED <<hartVars, clintVars, timerIrq, tx, busy, evEnable, sent>>

\* The transmitter takes the FIFO's next byte, and has sent it
TxStart ==
  /\ ~busy /\ tx > 0
  /\ tx' = tx - 1 /\ busy' = TRUE
  /\ UNCHANGED <<hartVars, clintVars, timerIrq, rx, toCome, evEnable, sent>>

TxDone ==
  /\ busy
  /\ busy' = FALSE
  /\ UNCHANGED <<hartVars, clintVars, timerIrq, rx, toCome, tx, evEnable, sent>>

-----------------------------------------------------------------------------
Init ==
  /\ prog \in Running
  /\ isa = "rv32" /\ pc = 1 /\ state = "FETCH" /\ rIrq = 0
  /\ priv = "M" /\ mstatus = {"MPP"} /\ mie = {} /\ mtvec = 0 /\ mepc = 0 /\ mcause = 0 /\ minstret = 0
  /\ regs = [r \in Regs |-> 0] /\ mem = [w \in WindowWords |-> 0] /\ resv = 0 /\ amoOld = 0
  /\ msip = FALSE /\ cmp = [lo |-> -1, hi |-> -1] /\ elapsed = FALSE /\ gap = 0 /\ timerIrq = FALSE
  /\ rx = <<>> /\ toCome = programs[prog].rx /\ tx = 0 /\ busy = FALSE /\ evEnable = 0 /\ sent = <<>>
  /\ mode = 0 /\ pulse = 0

HartStep == Fetch \/ Execute \/ MemWait \/ AmoStore \/ SoftReset \/ SoftResetEnds

Next == HartStep \/ TimerReaches \/ Wait \/ RxByte \/ TxStart \/ TxDone

\* The clock runs: the hart steps, mtime counts, the transmitter sends; the host sends its bytes
Fairness == WF_vars(HartStep) /\ WF_vars(TimerReaches) /\ WF_vars(RxByte) /\ WF_vars(TxStart) /\ WF_vars(TxDone)

Spec == Init /\ [][Next]_vars /\ Fairness
-----------------------------------------------------------------------------
(* Properties.                                                             *)

\* Types.
TypeOK ==
  /\ prog \in Running /\ isa \in ISAs /\ pc \in DOMAIN programs[prog][isa].words
  /\ state \in {"FETCH", "EXECUTE", "MEM_WAIT", "AMO_CALC"} /\ priv \in {"M", "U"}
  /\ mstatus \subseteq Bits /\ mie \subseteq Irqs
  /\ Len(rx) <= Depth /\ tx \in 0..Depth /\ evEnable \in 0..3
  /\ pulse \in 0..2 /\ mode \in {0, 256, 257}

\* Every register a program's comments speak of has the value they give, at that point and
\* whenever the timer, the bytes and the transmitter come in: the causes of its traps, what
\* mstatus, mip, the UART and the CLINT read, the results of SC and the AMOs, that minstret
\* counts an instruction once, and the order MEI, MSI, MTI.
NotesHold ==
  state = "FETCH" /\ pulse = 0 => \A n \in programs[prog][isa].notes : n[1] = pc => regs[n[2]] = n[3]

\* The cause latched in FETCH is still pending and enabled when EXECUTE takes it, for the
\* timer by the compare itself: no handler runs for an interrupt that is already gone.
InterruptIsReal ==
  state = "EXECUTE" /\ rIrq /= 0 =>
    \E i \in mie : /\ rIrq = INT + IrqCode[i]
                   /\ (priv = "U" \/ "MIE" \in mstatus)
                   /\ CASE i = "MEI" -> uartIrq [] i = "MSI" -> msip [] i = "MTI" -> TimerDue

AtDone == <<"done", pc>> \in programs[prog][isa].labels /\ state = "FETCH"

\* A program that is done has sent the bytes its docstring names, last.
PrintsAtTheEnd == AtDone => IsSuffix(programs[prog].out, sent)

\* A program finds what its comments say at every point they speak of, and prints what its
\* docstring names.
RunsAsWritten == TypeOK /\ NotesHold /\ PrintsAtTheEnd

\* umode: "MIE clear: masked in M, taken in U": its timer interrupt comes from U-mode.
UmodeIrqFromU ==
  prog = "umode" /\ state = "FETCH" /\ pc = Target("handler") /\ mcause >= INT => "MPP" \notin mstatus

\* Every program reaches its end, however late the timer, the host and the transmitter are;
\* umode only if its timer interrupt comes while it is in U-mode.
Ends == <>(AtDone \/ prog = "umode")
=============================================================================

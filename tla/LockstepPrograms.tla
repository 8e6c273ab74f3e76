-------------------------- MODULE LockstepPrograms --------------------------
(***************************************************************************)
(* The programs of sim/integration/lockstep_programs.py that drive traps,  *)
(* interrupts, atomics, the CLINT, the UART registers, the boot mode and   *)
(* the soft reset, as sequences of abstract instructions for Hart.         *)
(*                                                                         *)
(* An instruction is a tuple whose first element is its mnemonic.  What is *)
(* abstracted: base registers (constants in every program, so an access    *)
(* names its absolute address), the li in front of a CSR write (the write  *)
(* names the bits it sets), three-instruction idioms that run with         *)
(* interrupts off (epc4 is mepc = mepc + 4 through t0), and cycle counts:  *)
(* soon is "mtime plus a distance", which the timer reaches at any later   *)
(* time.  <<"lbl", l>> is Asm.label, and <<"is", r, v>>, which is no       *)
(* instruction, notes the value the program's comments give for r there.   *)
(* Addresses from 0x8000_0000 up are negative, as 32-bit integers are.     *)
(***************************************************************************)
EXTENDS Integers, Sequences, FiniteSets, SequencesExt

CONSTANT Depth   \* entries of the UART's TX and RX FIFOs

XMEM  == -2147483647 - 1
CLINT == 536870912
MTIMECMP == CLINT + 16384
MTIME == CLINT + 49144
UART  == 1073741824
PAGE1 == UART + 4096
GPIO  == UART + 12288
EV_STATUS == UART + 12
EV_PENDING == UART + 16
EV_ENABLE == UART + 20
TXEMPTY == UART + 24
AMO_DATA  == XMEM + 458752
AMO_LINE2 == AMO_DATA + 2048
HACK_STUB_FLAG == XMEM + 4194304
HACK_D_BASE == XMEM + 131072
ROMWORD == 256

\* The soft-reset key GPIO 0xC takes: its low half alone is one of the two
SOFT_RESET_KEY == 42330
SOON == 1     \* an mtimecmp value ahead of mtime
FAR == 7      \* 0x1234_5678 and the like: never reached
INT == 16     \* mcause's interrupt bit

\* Cause records: the handlers shift the cause in (s7 = s7 << 8 | cause)
Record(causes) == LET r[n \in 0..Len(causes)] == IF n = 0 THEN 0 ELSE r[n - 1] * 16 + causes[n] IN r[Len(causes)]

\* mstatus, mie and mip as their values read (MPP is both its bits)
Weight == [MIE |-> 8, MPIE |-> 128, MPP |-> 6144, MPRV |-> 131072, TW |-> 2097152, MSI |-> 8, MTI |-> 128, MEI |-> 2048]
Word(bits) ==
  LET w(b) == IF b \in bits THEN Weight[b] ELSE 0
  IN  w("MIE") + w("MPIE") + w("MPP") + w("MPRV") + w("TW") + w("MSI") + w("MTI") + w("MEI")

PutChar(ch, tag) ==
  << <<"lbl", tag>>, <<"lw", "t0", UART + 4>>, <<"bne", "t0", "zero", tag>>,
     <<"li", "t0", ch>>, <<"sb", "t0", UART>> >>

SoftResetKey == << <<"li", "t0", SOFT_RESET_KEY>>, <<"sw", "t0", GPIO + 12>> >>

Spin(tag) == << <<"lbl", tag>>, <<"j", tag>> >>

(***************************************************************************)
(* Traps, CSRs, the timer and the RX interrupt, a soft reset.              *)
(***************************************************************************)
traps ==
  << <<"bne", "x5", "zero", "second">>, <<"tvec", "handler">>,
     <<"ecall">>, <<"is", "s0", 11>>, <<"ebreak">>, <<"is", "s0", 3>>,
     <<"illegal">>, <<"is", "s0", 2>>, <<"illegal">>, <<"csrw", "cycle", 0>>, <<"is", "s0", 2>>,
     <<"lw", "t1", AMO_DATA + 1>>, <<"is", "s0", 4>>,
     <<"sw", "t1", AMO_DATA + 3>>, <<"is", "s0", 6>>,
     <<"jmisaligned">>, <<"is", "s0", 0>>, <<"nop">>,
     <<"lw", "t1", ROMWORD>>, <<"lb", "t1", UART + 8>>,
     <<"csrw", "minstret", 0>>, <<"csrr", "t4", "minstret">>, <<"is", "t4", 0>>,
     <<"csrr", "t5", "mstatus">>, <<"csrr", "t2", "mip">> >>
  \o << <<"li", "t1", 72>>, <<"sw", "t1", UART>>, <<"li", "t1", 105>>, <<"sw", "t1", UART>>,
        <<"li", "t1", 33>>, <<"sw", "t1", UART>>, <<"li", "t1", 10>>, <<"sw", "t1", UART>>,
        <<"lw", "t1", UART + 4>>, <<"is", "t1", 0>>,
        <<"soon", "t1">>, <<"sw", "zero", MTIMECMP + 4>>, <<"sw", "t1", MTIMECMP>>,
        <<"li", "t1", 2>>, <<"sw", "t1", EV_ENABLE>>,
        <<"csrw", "mie", {"MEI", "MTI"}>>, <<"csrs", "mstatus", {"MIE"}>>,
        <<"lbl", "wait">>, <<"li", "t1", 2>>, <<"bltu", "s3", "t1", "wait">>, <<"is", "s3", 2>>,
        <<"li", "x5", 1>> >>
  \o SoftResetKey \o Spin("spin_reset")
  \o << <<"lbl", "second">>, <<"csrr", "t1", "mtvec">>, <<"is", "t1", 0>> >> \o Spin("done")
  \o << <<"lbl", "handler">>, <<"csrr", "s0", "mcause">>,
        <<"li", "t0", INT>>, <<"bgeu", "s0", "t0", "interrupt">>, <<"epc4">>, <<"mret">>,
        <<"lbl", "interrupt">>, <<"addi", "s3", "s3", 1>>,
        <<"li", "t0", INT + 11>>, <<"beq", "s0", "t0", "ext">>,
        <<"li", "t0", -1>>, <<"sw", "t0", MTIMECMP + 4>>, <<"mret">>,
        <<"lbl", "ext">>, <<"lw", "s5", UART>>, <<"is", "s5", 90>>, <<"mret">> >>

(***************************************************************************)
(* U-mode: mstatus's WARL fields, MRET into U, what traps there.           *)
(***************************************************************************)
WriteStatus(bits, reads) ==
  << <<"csrw", "mstatus", bits>>, <<"csrr", "t1", "mstatus">>, <<"is", "t1", Word(reads)>> >>

umode ==
  << <<"tvec", "handler">> >>
  \o WriteStatus({}, {}) \o WriteStatus({"MPP0"}, {}) \o WriteStatus({"MPP1"}, {})
  \o WriteStatus({"MPP0", "MPP1", "MPRV", "TW"}, {"MPP", "MPRV", "TW"})
  \o WriteStatus({"MIE", "MPIE", "MPP0", "MPP1", "MPRV", "TW"}, {"MIE", "MPIE", "MPP", "MPRV", "TW"})
  \o WriteStatus({}, {})
  \o << <<"csrr", "t2", "zero">>, <<"csrw", "mstatus", {"MPP0", "MPP1", "MPRV"}>>, <<"epc", "in_m">>, <<"mret">>,
        <<"lbl", "in_m">>, <<"csrr", "s6", "mstatus">>, <<"is", "s6", Word({"MPIE", "MPRV"})>>,
        <<"csrr", "s7", "zero">>, <<"epc", "user1">>, <<"mret">>,
        <<"lbl", "user1">>, <<"addi", "s5", "s5", 1>>, <<"wfi">>,
        <<"csrr", "s0", "mstatus">>, <<"is", "s0", 2>>, <<"csrr", "s0", "cycle">>, <<"is", "s0", 2>>,
        <<"mret">>, <<"is", "s0", 2>>, <<"ecall">>, <<"j", "bad">>,
        <<"lbl", "in_m2">>, <<"is", "s0", 8>>, <<"csrr", "s6", "mstatus">>,
        <<"csrs", "mstatus", {"TW"}>>, <<"wfi">>, <<"csrc", "mstatus", {"MPP0", "MPP1"}>>,
        <<"epc", "user2">>, <<"mret">>,
        <<"lbl", "user2">>, <<"wfi">>, <<"is", "s0", 2>>, <<"ecall">>,
        <<"lbl", "in_m3">>, <<"csrc", "mstatus", {"TW"}>>,
        <<"li", "t0", -1>>, <<"sw", "t0", MTIMECMP + 4>>, <<"soon", "t0">>, <<"sw", "t0", MTIMECMP>>,
        <<"sw", "zero", MTIMECMP + 4>>, <<"csrw", "mie", {"MTI"}>>,
        <<"lbl", "m_wait">>, <<"maybe", "m_wait">>,
        <<"epc", "user3">>, <<"li", "s3", 0>>, <<"mret">>,
        <<"lbl", "user3">>, <<"beq", "s3", "zero", "user3">>, <<"ecall">> >>
  \o Spin("done") \o Spin("bad")
  \o << <<"lbl", "handler">>, <<"csrr", "s0", "mcause">>, <<"csrr", "s8", "mstatus">>,
        <<"li", "t0", 8>>, <<"beq", "s0", "t0", "from_ecall">>,
        <<"li", "t0", INT>>, <<"bgeu", "s0", "t0", "from_irq">>, <<"epc4">>, <<"mret">>,
        <<"lbl", "from_irq">>, <<"li", "t0", -1>>, <<"sw", "t0", MTIMECMP + 4>>, <<"li", "s3", 1>>, <<"mret">>,
        <<"lbl", "from_ecall">>, <<"addi", "s9", "s9", 1>>, <<"csrs", "mstatus", {"MPP0", "MPP1"}>>,
        <<"li", "t0", 1>>, <<"la", "t1", "in_m2">>, <<"beq", "s9", "t0", "go">>,
        <<"li", "t0", 2>>, <<"la", "t1", "in_m3">>, <<"beq", "s9", "t0", "go">>, <<"la", "t1", "done">>,
        <<"lbl", "go">>, <<"epcr", "t1">>, <<"mret">> >>

(***************************************************************************)
(* RV32A.  An AMO's rd gets the old word; minstret counts it once.         *)
(***************************************************************************)
\* 8-bit words: 5 and 9, -5 and 3, 7 and 7, the largest and the most negative
AMO_PAIRS == << <<5, 9>>, <<251, 3>>, <<7, 7>>, <<127, 128>> >>
AMO_OPS == << "add", "swap", "xor", "or", "and", "min", "max", "minu", "maxu" >>

\* What RV32A says an AMO leaves in the word (8 bits; the comparisons signed or not)
BitsOf(x) == {b \in 0..7 : (x \div 2^b) % 2 = 1}
OfBits(bits) == LET v[n \in 0..8] == IF n = 0 THEN 0 ELSE v[n - 1] + (IF n - 1 \in bits THEN 2^(n - 1) ELSE 0) IN v[8]
Signed(x) == IF x >= 128 THEN x - 256 ELSE x
Lesser(a, b) == IF a <= b THEN a ELSE b
Greater(a, b) == IF a <= b THEN b ELSE a
AmoResult(op, old, src) ==
  CASE op = "add" -> (old + src) % 256
    [] op = "swap" -> src
    [] op = "xor" -> OfBits((BitsOf(old) \cup BitsOf(src)) \ (BitsOf(old) \cap BitsOf(src)))
    [] op = "or" -> OfBits(BitsOf(old) \cup BitsOf(src))
    [] op = "and" -> OfBits(BitsOf(old) \cap BitsOf(src))
    [] op = "min" -> Lesser(Signed(old), Signed(src)) % 256
    [] op = "max" -> Greater(Signed(old), Signed(src)) % 256
    [] op = "minu" -> Lesser(old, src)
    [] op = "maxu" -> Greater(old, src)

AmoOn(pair, op) ==
  << <<"li", "t1", pair[1]>>, <<"sw", "t1", AMO_DATA>>, <<"li", "t2", pair[2]>>,
     <<"amo", op, "t3", "t2", AMO_DATA>>, <<"is", "t3", pair[1]>>, <<"lw", "t4", AMO_DATA>>,
     <<"is", "t4", AmoResult(op, pair[1], pair[2])>> >>

CountedOnce(ins) ==
  << <<"csrr", "a0", "minstret">>, <<"li", "t2", 1>>, ins, <<"csrr", "a1", "minstret">>,
     <<"sub8", "a1", "a1", "a0">>, <<"is", "a1", 3>> >>

amo ==
  << <<"tvec", "handler">> >>
  \o FlattenSeq([k \in 1..36 |-> AmoOn(AMO_PAIRS[1 + ((k - 1) \div 9)], AMO_OPS[1 + ((k - 1) % 9)])])
  \o << <<"li", "t2", 2>>, <<"amo", "add", "t3", "t2", AMO_DATA>>, <<"amo", "add", "t2", "t2", AMO_DATA>>,
        <<"amo", "add", "zero", "t2", AMO_DATA>>, <<"lw", "t4", AMO_DATA>>,
        <<"amo", "swap", "t3", "t2", AMO_LINE2>>, <<"amo", "swap", "t3", "t2", AMO_DATA>>,
        <<"lr", "t3", AMO_LINE2>>, <<"lw", "t4", AMO_LINE2>> >>
  \o << <<"lr", "t3", AMO_DATA>>, <<"li", "t2", 21>>,
        <<"sc", "t5", "t2", AMO_DATA>>, <<"is", "t5", 0>>, <<"sc", "t5", "t2", AMO_DATA>>, <<"is", "t5", 1>>,
        <<"lr", "t3", AMO_DATA>>, <<"sc", "t5", "t2", AMO_DATA + 4>>, <<"is", "t5", 1>>,
        <<"sc", "t5", "t2", AMO_DATA>>, <<"is", "t5", 1>>,
        <<"lr", "t3", AMO_DATA>>, <<"sw", "t2", AMO_DATA + 8>>, <<"sc", "t5", "t2", AMO_DATA>>, <<"is", "t5", 0>>,
        <<"lr", "t3", AMO_DATA>>, <<"ecall">>, <<"sc", "t5", "t2", AMO_DATA>>, <<"is", "t5", 1>>,
        <<"lr", "t3", AMO_DATA>>, <<"nop">>, <<"sc", "t5", "t2", AMO_DATA>>, <<"is", "t5", 0>> >>
  \o << <<"lr", "t3", AMO_DATA + 1>>, <<"is", "s4", 4>>, <<"sc", "t3", "t2", AMO_DATA + 1>>, <<"is", "s4", 6>>,
        <<"amo", "add", "t3", "t2", AMO_DATA + 2>>, <<"is", "s4", 6>>,
        <<"illegal">>, <<"is", "s4", 2>>, <<"illegal">>, <<"illegal">>,
        <<"amo", "add", "t3", "t2", ROMWORD>>, <<"lr", "t3", ROMWORD>>, <<"sc", "t5", "t2", ROMWORD>>, <<"is", "t5", 0>>,
        <<"lw", "t4", ROMWORD>>, <<"sub", "t4", "t4", "t3">>, <<"is", "t4", 0>>,
        <<"amo", "add", "t3", "t2", 268435456>>, <<"is", "t3", 0>> >>
  \o CountedOnce(<<"amo", "add", "t3", "t2", AMO_DATA>>) \o CountedOnce(<<"lr", "t3", AMO_DATA>>)
  \o CountedOnce(<<"sc", "t5", "t2", AMO_DATA>>) \o CountedOnce(<<"sc", "t5", "t2", AMO_DATA>>)
  \o << <<"epc", "user">>, <<"csrc", "mstatus", {"MPP0", "MPP1"}>>, <<"mret">>,
        <<"lbl", "user">>, <<"lr", "t3", AMO_DATA>>, <<"sc", "t5", "t2", AMO_DATA>>, <<"is", "t5", 0>>,
        <<"amo", "add", "t3", "t2", AMO_DATA>>, <<"ecall">>, <<"is", "s4", 8>>,
        <<"lbl", "rx_wait">>, <<"lw", "t1", UART + 8>>, <<"bne", "t1", "zero", "rx_wait">>,
        <<"li", "t2", 1>>, <<"amo", "add", "t3", "t2", UART>>, <<"lw", "t1", UART + 8>>, <<"is", "t1", 1>> >>
  \o Spin("done")
  \o << <<"lbl", "handler">>, <<"csrr", "s4", "mcause">>, <<"li", "t0", 8>>, <<"beq", "s4", "t0", "stay_m">>,
        <<"j", "skip">>, <<"lbl", "stay_m">>, <<"csrs", "mstatus", {"MPP0", "MPP1"}>>,
        <<"lbl", "skip">>, <<"epc4">>, <<"mret">> >>

(***************************************************************************)
(* The CLINT: msip, mtimecmp, the priority of the three interrupts.        *)
(***************************************************************************)
\* An offset that is no register: reads 0, a store is ignored
NoRegister(a) ==
  << <<"lw", "t2", a>>, <<"is", "t2", 0>>, <<"li", "t1", -1>>, <<"sw", "t1", a>>, <<"lw", "t3", a>>, <<"is", "t3", 0>> >>

clint ==
  << <<"tvec", "handler">>, <<"lw", "t2", CLINT>>, <<"is", "t2", 0>>,
     <<"li", "t1", -1>>, <<"sw", "t1", CLINT>>, <<"lw", "t2", CLINT>>, <<"is", "t2", 1>>,
     <<"lb", "t3", CLINT>>, <<"is", "t3", 1>>, <<"lb", "t4", CLINT + 1>>, <<"is", "t4", 0>>,
     <<"csrr", "t5", "mip">>, <<"is", "t5", Word({"MSI"})>>,
     <<"li", "t1", 2>>, <<"sw", "t1", CLINT>>, <<"lw", "t2", CLINT>>, <<"is", "t2", 0>>,
     <<"csrr", "t5", "mip">>, <<"is", "t5", 0>>,
     <<"li", "t1", 1>>, <<"sb", "t1", CLINT + 2>>, <<"lw", "t2", CLINT>>, <<"is", "t2", 1>>,
     <<"sb", "zero", CLINT + 2>>, <<"lw", "t2", CLINT>>, <<"is", "t2", 0>>,
     <<"sw", "t1", CLINT + 65536>>, <<"lw", "t2", CLINT>>, <<"is", "t2", 1>>,
     <<"sw", "zero", CLINT + 2748 * 65536>>, <<"lw", "t2", CLINT>>, <<"is", "t2", 0>> >>
  \o FlattenSeq([i \in 1..6 |-> NoRegister(CLINT + <<4, 16392, 32768, 49140, 65532, 4096>>[i])])
  \o << <<"lw", "t2", CLINT>>, <<"is", "t2", 0>>, <<"lw", "t3", MTIMECMP>>, <<"is", "t3", -1>>,
        <<"lw", "t4", PAGE1>>, <<"is", "t4", 0>>,
        <<"li", "t1", FAR>>, <<"sw", "t1", MTIMECMP>>, <<"sw", "t1", MTIMECMP + 4>>,
        <<"sw", "t1", PAGE1 + 8>>, <<"lw", "t2", PAGE1 + 8>>, <<"is", "t2", 0>>, <<"lw", "t3", PAGE1 + 12>>,
        <<"lw", "t4", MTIMECMP>>, <<"is", "t4", FAR>>, <<"li", "t1", -1>>, <<"sw", "t1", MTIMECMP + 4>>,
        <<"csrw", "mie", {"MSI"}>>, <<"csrs", "mstatus", {"MIE"}>>,
        <<"li", "t1", 1>>, <<"sw", "t1", CLINT>>, <<"addi", "s8", "zero", 1>>,
        <<"li", "t1", 1>>, <<"lbl", "wait_msi">>, <<"bltu", "s6", "t1", "wait_msi">>,
        <<"csrw", "mie", {"MTI"}>>, <<"soon", "t1">>, <<"sw", "t1", MTIMECMP>>, <<"sw", "zero", MTIMECMP + 4>>,
        <<"li", "t1", 2>>, <<"lbl", "wait_mti">>, <<"bltu", "s6", "t1", "wait_mti">>,
        <<"lw", "t2", MTIMECMP + 4>>, <<"is", "t2", -1>>,
        <<"csrc", "mstatus", {"MIE"}>>,
        <<"lbl", "rx_wait">>, <<"lw", "t1", UART + 8>>, <<"bne", "t1", "zero", "rx_wait">>,
        <<"li", "t1", 2>>, <<"sw", "t1", EV_ENABLE>>, <<"li", "t1", 1>>, <<"sw", "t1", CLINT>>,
        <<"sw", "zero", MTIMECMP>>, <<"sw", "zero", MTIMECMP + 4>>,
        <<"csrw", "mie", {"MEI", "MTI", "MSI"}>>, <<"csrr", "t5", "mip">>, <<"is", "t5", Word({"MEI", "MTI", "MSI"})>>,
        <<"csrs", "mstatus", {"MIE"}>>, <<"li", "t1", 5>>,
        <<"lbl", "wait_all">>, <<"bltu", "s6", "t1", "wait_all">>, <<"csrc", "mstatus", {"MIE"}>>,
        <<"is", "s6", 5>>, <<"is", "s8", 1>>, <<"is", "s7", Record(<<3, 7, 11, 3, 7>>)>> >>
  \o PutChar(75, "wait") \o Spin("done")
  \o << <<"lbl", "handler">>, <<"csrr", "s0", "mcause">>, <<"addi", "s6", "s6", 1>>, <<"record", "s7", "s0">>,
        <<"li", "t0", INT + 11>>, <<"beq", "s0", "t0", "h_ext">>, <<"li", "t0", INT + 3>>, <<"beq", "s0", "t0", "h_sw">>,
        <<"li", "t0", -1>>, <<"sw", "t0", MTIMECMP + 4>>, <<"mret">>,
        <<"lbl", "h_sw">>, <<"sw", "zero", CLINT>>, <<"mret">>,
        <<"lbl", "h_ext">>, <<"lw", "t0", UART>>, <<"mret">> >>

(***************************************************************************)
(* Timer interrupts taken in a loop of window code, re-armed a little      *)
(* further ahead each time (the data accesses of xmem are SocWindow's).    *)
(* The handler calls arm, which changes t0 and ra: the interrupted code    *)
(* keeps its return address in ra, and passes through one jump by t0.      *)
(***************************************************************************)
XMEM_IRQS == 2   \* the program takes four; two re-arm as often as any

Handler == << <<"lbl", "handler">>, <<"addi", "s5", "s5", 1>>, <<"mv", "s9", "ra">>, <<"call", "arm">>,
              <<"mv", "ra", "s9">>, <<"mret">> >>

xmem ==
  << <<"tvec", "handler">>, <<"call", "arm">>, <<"csrw", "mie", {"MTI"}>>, <<"csrs", "mstatus", {"MIE"}>>,
     <<"la", "t0", "spin">>, <<"jalr", "ra", "t0">> >>
  \o Spin("done")
  \o << <<"lbl", "arm">>, <<"li", "t0", -1>>, <<"sw", "t0", MTIMECMP + 4>>, <<"soon", "t0">>,
        <<"sw", "t0", MTIMECMP>>, <<"sw", "zero", MTIMECMP + 4>>, <<"jr", "ra">> >>
  \o Handler
  \o << <<"lbl", "spin">>, <<"li", "t1", XMEM_IRQS>>, <<"bltu", "s5", "t1", "spin">>, <<"jr", "ra">> >>

(***************************************************************************)
(* Stores that are ignored: the ROM and the unassigned regions.            *)
(***************************************************************************)
IgnoredStore(a, reads) ==
  << <<"lw", "t2", a>>, <<"is", "t2", reads>>, <<"sw", "t1", a>>, <<"lw", "t3", a>>, <<"is", "t3", reads>>,
     <<"sb", "t1", a + 1>>, <<"lw", "t4", a>>, <<"is", "t4", reads>> >>

RomWord(off) == 1 + (off % 16384) \div 4

rom_stores ==
  << <<"li", "t1", 13>> >> \o IgnoredStore(ROMWORD, RomWord(ROMWORD))
  \o IgnoredStore(16384 + ROMWORD, RomWord(ROMWORD)) \o IgnoredStore(268419072 + ROMWORD, RomWord(ROMWORD))
  \o << <<"addi", "s8", "zero", 26>>, <<"is", "s8", 26>> >>
  \o FlattenSeq([i \in 1..4 |-> IgnoredStore(<<805306368, 805314556, 268435456, -268435456>>[i], 0)])
  \o PutChar(75, "wait") \o Spin("done")

(***************************************************************************)
(* The RX FIFO overflowing: one byte more than it holds, then the drain.   *)
(***************************************************************************)
ReadTwice(a) == << <<"lw", "t2", a>>, <<"lw", "t3", a>>, <<"sub", "t3", "t3", "t2">>, <<"is", "t3", 0>> >>

uart_drop ==
  << <<"lbl", "wait">>, <<"early", "wait">> >>
  \o FlattenSeq([i \in 1..7 |-> ReadTwice(UART + 4 * i)])
  \o << <<"lw", "t5", UART + 28>>, <<"is", "t5", 1>>, <<"li", "t3", Depth + 1>>, <<"lbl", "drain">>,
        <<"lw", "t1", UART>>, <<"addup", "a0", "t1">>, <<"lw", "s4", UART + 8>>, <<"lw", "s5", UART + 28>>,
        <<"addi", "t3", "t3", -1>>, <<"bne", "t3", "zero", "drain">>,
        <<"is", "t1", 0>>, <<"is", "s4", 1>>, <<"is", "s5", 0>>, <<"is", "a0", (Depth * (Depth + 1)) \div 2>>,
        <<"li", "t1", 68>>, <<"sw", "t1", UART>> >>
  \o Spin("done")

(***************************************************************************)
(* The UART's registers and the interrupts of its two events.              *)
(***************************************************************************)
liteuart ==
  << <<"bne", "x5", "zero", "second">>, <<"tvec", "handler">> >>
  \o FlattenSeq([i \in 1..8 |-> << <<"lw", "t1", UART + 4 * (i - 1)>> >>])
  \o << <<"lw", "t1", UART + 32>>, <<"is", "t1", 0>>, <<"lw", "t1", UART + 252>>, <<"is", "t1", 0>>,
        <<"lw", "t1", UART + 276>>, <<"is", "t1", 0>>, <<"lw", "t1", UART + 1816>>, <<"is", "t1", 1>>,
        <<"lb", "t2", EV_STATUS>>, <<"is", "t2", 1>>, <<"lb", "t2", EV_STATUS + 1>>, <<"is", "t2", 0>>,
        <<"li", "t1", -1>> >>
  \o FlattenSeq([i \in 1..8 |-> << <<"sw", "t1", UART + <<4, 8, 12, 16, 24, 28, 32, 272>>[i]>> >>])
  \o << <<"lw", "t2", EV_ENABLE>>, <<"is", "t2", 0>>, <<"lw", "t2", TXEMPTY>>, <<"is", "t2", 1>>,
        <<"sw", "t1", EV_ENABLE>>, <<"lw", "t2", EV_ENABLE>>, <<"is", "t2", 3>>,
        <<"sb", "zero", EV_ENABLE + 1>>, <<"lw", "t2", EV_ENABLE>>, <<"is", "t2", 0>>,
        <<"li", "t1", 258>>, <<"sb", "t1", EV_ENABLE + 2>>, <<"lw", "t2", EV_ENABLE>>, <<"is", "t2", 2>>,
        <<"li", "t1", 257>>, <<"sw", "t1", EV_ENABLE + 256>>, <<"lw", "t2", EV_ENABLE>>, <<"is", "t2", 1>>,
        <<"sw", "zero", EV_ENABLE>>, <<"lbl", "fill">> >>
  \o FlattenSeq([k \in 1..(Depth + 2) |-> << <<"li", "t1", 96 + k>>, <<"sb", "t1", UART + (k % 4)>> >>])
  \o << <<"lw", "t2", EV_PENDING>>,
        <<"csrw", "mie", {"MEI"}>>, <<"csrs", "mstatus", {"MIE"}>>, <<"li", "t1", 1>>, <<"sw", "t1", EV_ENABLE>>,
        <<"lbl", "wait_tx">>, <<"beq", "s3", "zero", "wait_tx">>,
        <<"li", "t1", 2>>, <<"sw", "t1", EV_ENABLE>>,
        <<"lbl", "wait_rx">>, <<"bltu", "s3", "t1", "wait_rx">>,
        <<"csrc", "mstatus", {"MIE"}>>, <<"li", "t1", 1>>, <<"sw", "t1", EV_ENABLE>>,
        <<"lw", "t2", EV_PENDING>>, <<"is", "t2", 1>>, <<"sw", "t1", CLINT>>,
        <<"csrw", "mie", {"MEI", "MSI"}>>, <<"csrr", "t5", "mip">>, <<"is", "t5", Word({"MEI", "MSI"})>>,
        <<"csrs", "mstatus", {"MIE"}>>, <<"li", "t1", 4>>,
        <<"lbl", "wait_both">>, <<"bltu", "s3", "t1", "wait_both">>, <<"csrc", "mstatus", {"MIE"}>>,
        <<"is", "s7", Record(<<11, 11, 11, 3>>)>>,
        <<"lbl", "wait_txempty">>, <<"lw", "t1", TXEMPTY>>, <<"beq", "t1", "zero", "wait_txempty">>,
        <<"lw", "t2", UART + 4>>, <<"is", "t2", 0>>,
        <<"lbl", "wait_rx2">>, <<"lw", "t1", UART + 8>>, <<"bne", "t1", "zero", "wait_rx2">>,
        <<"lw", "t2", EV_PENDING>>, <<"is", "t2", 3>>, <<"li", "t1", 1>>, <<"sw", "t1", EV_ENABLE>>,
        <<"lw", "t2", EV_PENDING>>, <<"is", "t2", 1>>, <<"csrr", "t5", "mip">>, <<"is", "t5", Word({"MEI"})>>,
        <<"li", "t1", 3>>, <<"sw", "t1", EV_ENABLE>>, <<"lw", "t2", EV_ENABLE>>, <<"is", "t2", 3>>,
        <<"lw", "t2", EV_PENDING>>, <<"is", "t2", 3>>, <<"li", "x5", 1>> >>
  \o SoftResetKey \o Spin("spin_reset")
  \o << <<"lbl", "second">>, <<"lw", "t2", EV_ENABLE>>, <<"is", "t2", 0>>, <<"lw", "t2", UART + 8>>, <<"is", "t2", 0>>,
        <<"lw", "t2", EV_STATUS>>, <<"is", "t2", 3>>, <<"lw", "t2", UART>>, <<"is", "t2", 83>>,
        <<"lw", "t2", UART + 8>>, <<"is", "t2", 1>> >>
  \o PutChar(76, "wait_l") \o Spin("done")
  \o << <<"lbl", "handler">>, <<"csrr", "s0", "mcause">>, <<"addi", "s3", "s3", 1>>, <<"record", "s7", "s0">>,
        <<"li", "t0", INT + 11>>, <<"beq", "s0", "t0", "h_ext">>, <<"sw", "zero", CLINT>>, <<"mret">>,
        <<"lbl", "h_ext">>, <<"lw", "t0", EV_PENDING>>, <<"li", "t6", 2>>, <<"bltu", "t0", "t6", "h_tx">>,
        <<"lb", "s5", UART>>, <<"is", "s5", 82>>, <<"mret">>,
        <<"lbl", "h_tx">>, <<"sw", "zero", EV_ENABLE>>, <<"mret">> >>

(***************************************************************************)
(* Hack programs, started by hack_stub or boot_mode_hack through a soft    *)
(* reset for which GPIO 0x8 gives the mode.  A pair @a, C is one abstract  *)
(* instruction; h... mnemonics run in Hack mode.                           *)
(***************************************************************************)
HACK_BACK == 83

hack_stub ==
  << <<"lw", "t0", HACK_STUB_FLAG>>, <<"bne", "t0", "zero", "back">>, <<"li", "t0", 1>>, <<"sw", "t0", HACK_STUB_FLAG>>,
     <<"li", "t0", 256>>, <<"sw", "t0", GPIO + 8>> >>
  \o SoftResetKey \o Spin("spin")
  \o << <<"lbl", "back">> >> \o PutChar(HACK_BACK, "wait") \o Spin("done")

hack_soft_reset(keyByAddition, modeRv32) ==
  << <<"hset", 82>>, <<"hst", UART>> >>
  \o (IF modeRv32 THEN << <<"hset", 257>>, <<"hst", GPIO + 8>>, <<"hld", GPIO + 8>>, <<"is", "D", 257>> >> ELSE <<>>)
  \o (IF keyByAddition THEN << <<"hset", 9562>>, <<"hadd", 16384>>, <<"hadd", 16384>> >>
                       ELSE << <<"hset", -23206>> >>)
  \o << <<"hst", GPIO + 12>>, <<"lbl", "spin">>, <<"hj", "spin">> >>

boot_mode_hack ==
  << <<"li", "t0", 256>>, <<"sw", "t0", GPIO + 8>>, <<"lw", "s5", GPIO + 8>>, <<"is", "s5", 256>> >>
  \o SoftResetKey \o Spin("spin")

boot_mode_hack_program ==
  << <<"hset", 0>>, <<"hadd", 72>>, <<"hst", UART>>, <<"lbl", "done">>, <<"hj", "done">> >>

liteuart_hack ==
  << <<"lbl", "wait">>, <<"hld", UART + 8>>, <<"hjne", "wait">>, <<"hld", UART + 4>>,
     <<"hld", EV_STATUS>>, <<"is", "D", 3>>, <<"hset", -1>>, <<"hst", UART + 4>>, <<"hst", UART + 8>>, <<"hst", EV_STATUS>>,
     <<"hld", UART>>, <<"hst", HACK_D_BASE + 64>>, <<"hld", UART + 8>>, <<"is", "D", 1>>,
     <<"hld", EV_STATUS>>, <<"is", "D", 1>>, <<"hld", HACK_D_BASE + 64>>, <<"is", "D", 104>>, <<"hst", UART>>,
     <<"lbl", "done">>, <<"hj", "done">> >>

(***************************************************************************)
(* Asm.assemble: labels are positions, not instructions, and may be used   *)
(* before they are defined.                                                *)
(***************************************************************************)
IsWord(item) == item[1] \notin {"lbl", "is"}
\* The index of the first word at or after item i
WordAt(items, i) == 1 + Cardinality({k \in 1..(i - 1) : IsWord(items[k])})
ItemsOf(items, kind) == {i \in DOMAIN items : items[i][1] = kind}
assemble(items) ==
  [words |-> SelectSeq(items, IsWord),
   labels |-> {<<items[i][2], WordAt(items, i)>> : i \in ItemsOf(items, "lbl")},
   notes |-> {<<WordAt(items, i), items[i][2], items[i][3]>> : i \in ItemsOf(items, "is")}]

(***************************************************************************)
(* programs(): each with its ROM and Hack code, the bytes the host sends   *)
(* (and the label from which on each may arrive: liteuart's cycles put the *)
(* first after the register reads and the second after the interrupts),    *)
(* the bytes it must have sent when it ends and the least number of        *)
(* instructions between arming the timer and its being due.                *)
(***************************************************************************)
ISAs == {"rv32", "hack"}
Program(rom, segment, bytes, prints, distance) ==
  [rv32 |-> assemble(rom), hack |-> assemble(segment), rx |-> bytes, out |-> prints, gap |-> distance]

programs ==
  [ traps |-> Program(traps, <<>>, << <<90, "">> >>, <<72, 105, 33, 10>>, 0),
    umode |-> Program(umode, <<>>, <<>>, <<>>, 0),
    amo |-> Program(amo, <<>>, << <<90, "">> >>, <<91>>, 0),
    clint |-> Program(clint, <<>>, << <<90, "">> >>, <<75>>, 0),
    xmem |-> Program(xmem, <<>>, <<>>, <<>>, 8),
    rom_stores |-> Program(rom_stores, <<>>, <<>>, <<75>>, 0),
    uart_drop |-> Program(uart_drop, <<>>, [k \in 1..(Depth + 1) |-> <<k, "">>], <<68>>, 0),
    liteuart |-> Program(liteuart, <<>>, << <<82, "fill">>, <<83, "wait_txempty">> >>, <<76>>, 0),
    hack_soft_reset |-> Program(hack_stub, hack_soft_reset(TRUE, FALSE), <<>>, <<82, HACK_BACK>>, 0),
    boot_mode_rv32 |-> Program(hack_stub, hack_soft_reset(TRUE, TRUE), <<>>, <<82, HACK_BACK>>, 0),
    boot_mode_hack |-> Program(boot_mode_hack, boot_mode_hack_program, <<>>, <<72>>, 0),
    liteuart_hack |-> Program(hack_stub, liteuart_hack, << <<104, "">> >>, <<104>>, 0) ]
=============================================================================

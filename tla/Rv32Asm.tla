------------------------------- MODULE Rv32Asm -------------------------------
(***************************************************************************)
(* sim/integration/rv32_asm.py, the two-pass assembler of the test         *)
(* programs, against the decoder that reads its words (rv32i_decode) and   *)
(* the next-PC unit.  A program is a list of calls of Asm's methods and    *)
(* labels; a call that names a label is encoded when the program is        *)
(* assembled.  A word is the set of its one bits.  32-bit values are       *)
(* signed, so that TLC's integers hold them.                               *)
(***************************************************************************)
EXTENDS Integers, Sequences, FiniteSets

CONSTANTS
  Calls,      \* the calls a program is made of
  Labels,     \* label names
  Origins,    \* Asm(origin)
  Pads,       \* numbers of .word 0 put between two calls
  MaxParts    \* calls, labels and pads of a program

VARIABLES
  origin, items, labels, size, parts,
  phase,      \* "build", "assembled", or the assert or KeyError that stopped the script
  blamed,     \* the calls it stopped for
  words

vars == <<origin, items, labels, size, parts, phase, blamed, words>>

-----------------------------------------------------------------------------
(* Bits and fields.                                                        *)

Bits(v, n) == {i \in 0..(n - 1) : (v \div 2^i) % 2 = 1}     \* v & (2^n - 1)
Shl(s, k) == {i + k : i \in s}
Slice(s, hi, lo) == {i - lo : i \in s \cap (lo..hi)}
RECURSIVE Unsigned(_)
Unsigned(s) == IF s = {} THEN 0 ELSE LET i == CHOOSE i \in s : TRUE IN 2^i + Unsigned(s \ {i})
Signed(s, n) == IF n - 1 \in s THEN Unsigned(s \ {n - 1}) + (-(2^(n - 2)) - 2^(n - 2)) ELSE Unsigned(s)

REGS == <<"zero", "ra", "sp", "gp", "tp", "t0", "t1", "t2", "s0", "s1", "a0", "a1", "a2", "a3", "a4", "a5", "a6", "a7",
          "s2", "s3", "s4", "s5", "s6", "s7", "s8", "s9", "s10", "s11", "t3", "t4", "t5", "t6">>
RegOf(name) == (CHOOSE i \in 1..32 : REGS[i] = name) - 1
CSRS == [mstatus |-> 768, mie |-> 772, mtvec |-> 773, misa |-> 769, mscratch |-> 832, mepc |-> 833, mcause |-> 834,
         mtval |-> 835, mip |-> 836, mcycle |-> 2816, minstret |-> 2818, mcycleh |-> 2944, minstreth |-> 2946,
         cycle |-> 3072, time |-> 3073, instret |-> 3074, cycleh |-> 3200, timeh |-> 3201, instreth |-> 3202]

signed_fits(value, bits) == -(2^(bits - 1)) <= value /\ value < 2^(bits - 1)

-----------------------------------------------------------------------------
(* The formats.  An encoding is a word, or Fails where an assert stops     *)
(* the script.                                                             *)

Fails == {-1}
Reg(name, at) == Shl(Bits(RegOf(name), 5), at)
Field(v, n, at) == Shl(Bits(v, n), at)

r_type(funct7, rs2, rs1, funct3, rd, opcode) ==
  Field(funct7, 7, 25) \cup Reg(rs2, 20) \cup Reg(rs1, 15) \cup Field(funct3, 3, 12) \cup Reg(rd, 7) \cup Bits(opcode, 7)

i_type(imm, rs1, funct3, rd, opcode) ==
  IF ~signed_fits(imm, 12) THEN Fails
  ELSE Field(imm, 12, 20) \cup Reg(rs1, 15) \cup Field(funct3, 3, 12) \cup Reg(rd, 7) \cup Bits(opcode, 7)

s_type(imm, rs2, rs1, funct3) ==
  IF ~signed_fits(imm, 12) THEN Fails
  ELSE LET b == Bits(imm, 12)
       IN  Shl(Slice(b, 11, 5), 25) \cup Reg(rs2, 20) \cup Reg(rs1, 15) \cup Field(funct3, 3, 12)
           \cup Shl(Slice(b, 4, 0), 7) \cup Bits(35, 7)

\* As it would be: bits 11 and 12 of the offset swapped
b_typeSwapped(offset, rs2, rs1, funct3) ==
  IF offset % 2 /= 0 \/ ~signed_fits(offset, 13) THEN Fails
  ELSE LET o == Bits(offset, 13)
       IN  Shl(Slice(o, 11, 11), 31) \cup Shl(Slice(o, 10, 5), 25) \cup Reg(rs2, 20) \cup Reg(rs1, 15)
           \cup Field(funct3, 3, 12) \cup Shl(Slice(o, 4, 1), 8) \cup Shl(Slice(o, 12, 12), 7) \cup Bits(99, 7)

b_type(offset, rs2, rs1, funct3) ==
  IF offset % 2 /= 0 \/ ~signed_fits(offset, 13) THEN Fails
  ELSE LET o == Bits(offset, 13)
       IN  Shl(Slice(o, 12, 12), 31) \cup Shl(Slice(o, 10, 5), 25) \cup Reg(rs2, 20) \cup Reg(rs1, 15)
           \cup Field(funct3, 3, 12) \cup Shl(Slice(o, 4, 1), 8) \cup Shl(Slice(o, 11, 11), 7) \cup Bits(99, 7)

u_type(imm20, rd, opcode) == Field(imm20, 20, 12) \cup Reg(rd, 7) \cup Bits(opcode, 7)

j_type(offset, rd) ==
  IF offset % 2 /= 0 \/ ~signed_fits(offset, 21) THEN Fails
  ELSE LET o == Bits(offset, 21)
       IN  Shl(Slice(o, 20, 20), 31) \cup Shl(Slice(o, 10, 1), 21) \cup Shl(Slice(o, 11, 11), 20)
           \cup Shl(Slice(o, 19, 12), 12) \cup Reg(rd, 7) \cup Bits(111, 7)

\* The low 12 bits as addi adds them, and the 20 above that make up for their sign
lo12(value) == IF value % 4096 >= 2048 THEN (value % 4096) - 4096 ELSE value % 4096

hi20(value) == (value \div 4096 + (IF lo12(value) < 0 THEN 1 ELSE 0)) % 2^20

-----------------------------------------------------------------------------
(* Asm's methods: the items a call appends.  An item is the call with its  *)
(* encoding: "op" names the format and its operands.                       *)

IOps == [addi |-> <<0, 19>>, andi |-> <<7, 19>>, ori |-> <<6, 19>>, slli |-> <<1, 19>>, jalr |-> <<0, 103>>,
         lw |-> <<2, 3>>, lb |-> <<0, 3>>, lbu |-> <<4, 3>>, lh |-> <<1, 3>>]
SOps == [sw |-> 2, sh |-> 1, sb |-> 0]
BOps == [beq |-> 0, bne |-> 1, bltu |-> 6, bgeu |-> 7]
ROps == [add |-> <<0, 0>>, sub |-> <<32, 0>>]
MUL_OPS == <<"mul", "mulh", "mulhsu", "mulhu", "div", "divu", "rem", "remu">>
CsrOps == [csrrw |-> 1, csrrs |-> 2, csrrc |-> 3]
FixedOps == [mret |-> {4, 5, 6, 0, 1} \cup {21, 28, 29}, wfi |-> {0, 1, 4, 5, 6, 20, 22, 28},
             ecall |-> {0, 1, 4, 5, 6}, ebreak |-> {0, 1, 4, 5, 6, 20}]

muldiv(name) == (CHOOSE i \in 1..8 : MUL_OPS[i] = name) - 1

\* c: [op, rd, rs1, rs2, imm, csr, target]; the word of one item at pc, its label resolved
Encode(c, pc, lab) ==
  CASE c.op \in DOMAIN IOps -> i_type(c.imm, c.rs1, IOps[c.op][1], c.rd, IOps[c.op][2])
    [] c.op \in DOMAIN SOps -> s_type(c.imm, c.rs2, c.rs1, SOps[c.op])
    [] c.op \in DOMAIN BOps -> b_type(lab[c.target] - pc, c.rs2, c.rs1, BOps[c.op])
    [] c.op \in DOMAIN ROps -> r_type(ROps[c.op][1], c.rs2, c.rs1, ROps[c.op][2], c.rd, 51)
    [] c.op \in {MUL_OPS[i] : i \in 1..8} -> r_type(1, c.rs2, c.rs1, muldiv(c.op), c.rd, 51)
    [] c.op \in DOMAIN CsrOps -> i_type(0, c.rs1, CsrOps[c.op], c.rd, 115) \cup Field(CSRS[c.csr], 12, 20)
    [] c.op = "amo" -> r_type(4 * c.imm, c.rs2, c.rs1, 2, c.rd, 47)
    [] c.op \in DOMAIN FixedOps -> FixedOps[c.op]
    [] c.op = "lui" -> u_type(c.imm, c.rd, 55)
    [] c.op = "auipc" -> u_type(c.imm, c.rd, 23)
    [] c.op = "jal" -> j_type(lab[c.target] - pc, c.rd)
    [] c.op = "la_hi" -> u_type(hi20(lab[c.target]), c.rd, 55)
    [] c.op = "la_lo" -> i_type(lo12(lab[c.target]), c.rd, 0, c.rd, 19)

li(c) ==
  IF signed_fits(c.imm, 12) THEN <<[c EXCEPT !.op = "addi", !.rs1 = "zero"]>>
  ELSE <<[c EXCEPT !.op = "lui", !.imm = hi20(c.imm)]>>
       \o (IF lo12(c.imm) = 0 THEN <<>> ELSE <<[c EXCEPT !.op = "addi", !.rs1 = c.rd, !.imm = lo12(c.imm)]>>)

la(c) == <<[c EXCEPT !.op = "la_hi"], [c EXCEPT !.op = "la_lo"]>>

\* The pseudo-instructions of one item
Pseudo(c) ==
  CASE c.op = "mv" -> [c EXCEPT !.op = "addi", !.imm = 0]
    [] c.op = "nop" -> [c EXCEPT !.op = "addi", !.rd = "zero", !.rs1 = "zero", !.imm = 0]
    [] c.op = "j" -> [c EXCEPT !.op = "jal", !.rd = "zero"]
    [] c.op = "call" -> [c EXCEPT !.op = "jal", !.rd = "ra"]
    [] c.op = "ret" -> [c EXCEPT !.op = "jalr", !.rd = "zero", !.rs1 = "ra", !.imm = 0]
    [] c.op = "beqz" -> [c EXCEPT !.op = "beq", !.rs2 = "zero"]
    [] c.op = "bnez" -> [c EXCEPT !.op = "bne", !.rs2 = "zero"]
    [] c.op = "csrw" -> [c EXCEPT !.op = "csrrw", !.rd = "zero"]
    [] c.op = "csrr" -> [c EXCEPT !.op = "csrrs", !.rs1 = "zero"]
    [] c.op = "csrs" -> [c EXCEPT !.op = "csrrs", !.rd = "zero"]
    [] c.op = "csrc" -> [c EXCEPT !.op = "csrrc", !.rd = "zero"]
    [] OTHER -> c

Expand(c) == CASE c.op = "li" -> li(c) [] c.op = "la" -> la(c) [] OTHER -> <<Pseudo(c)>>

ByLabel(c) == c.op \in DOMAIN BOps \cup {"jal", "la_hi", "la_lo"}

-----------------------------------------------------------------------------
(* Building and assembling.                                                *)

NoLabel == 1   \* not an address of an item
pc == origin + 4 * size

\* A call: an immediate that does not fit stops the script here, a label is looked up by assemble
Emit(c) ==
  LET new == Expand(c)
      at(k) == pc + 4 * (k - 1)
  IN  /\ phase = "build" /\ parts < MaxParts
      /\ parts' = parts + 1
      /\ IF \E k \in 1..Len(new) : ~ByLabel(new[k]) /\ Encode(new[k], at(k), labels) = Fails
         THEN phase' = "immediate" /\ blamed' = {c} /\ UNCHANGED <<items, size>>
         ELSE /\ items' = items \o [k \in 1..Len(new) |-> [call |-> c, item |-> new[k], pc |-> at(k), nth |-> k]]
              /\ size' = size + Len(new)
              /\ UNCHANGED <<phase, blamed>>
      /\ UNCHANGED <<origin, labels, words>>

label(name) ==
  /\ phase = "build" /\ parts < MaxParts
  /\ parts' = parts + 1
  /\ IF labels[name] /= NoLabel
     THEN phase' = "duplicate label" /\ UNCHANGED labels
     ELSE labels' = [labels EXCEPT ![name] = pc] /\ UNCHANGED phase
  /\ UNCHANGED <<origin, items, size, blamed, words>>

\* word(0), n times
Pad(n) ==
  /\ phase = "build" /\ parts < MaxParts
  /\ parts' = parts + 1
  /\ size' = size + n
  /\ UNCHANGED <<origin, items, labels, phase, blamed, words>>

Unresolved(k) ==
  /\ ByLabel(items[k].item)
  /\ labels[items[k].item.target] = NoLabel \/ Encode(items[k].item, items[k].pc, labels) = Fails

\* A label that is not defined, or an offset that does not fit, stops the script
assemble ==
  /\ phase = "build" /\ items /= <<>>
  /\ IF \E k \in 1..Len(items) : Unresolved(k)
     THEN /\ phase' = "unresolved" /\ blamed' = {items[k].item : k \in {j \in 1..Len(items) : Unresolved(j)}}
          /\ UNCHANGED words
     ELSE /\ words' = [k \in 1..Len(items) |-> Encode(items[k].item, items[k].pc, labels)]
          /\ phase' = "assembled" /\ UNCHANGED blamed
  /\ UNCHANGED <<origin, items, labels, size, parts>>

Init ==
  /\ origin \in Origins
  /\ items = <<>> /\ labels = [l \in Labels |-> NoLabel] /\ size = 0 /\ parts = 0
  /\ phase = "build" /\ blamed = {} /\ words = <<>>

Next == (\E c \in Calls : Emit(c)) \/ (\E l \in Labels : label(l)) \/ (\E n \in Pads : Pad(n)) \/ assemble

Spec == Init /\ [][Next]_vars

-----------------------------------------------------------------------------
(* The decoder (rv32i_decode, rv32i_pkg) and what the CPU does with the    *)
(* fields.                                                                 *)

Opcode(w) == Unsigned(Slice(w, 6, 0))
funct3(w) == Unsigned(Slice(w, 14, 12))
funct7(w) == Unsigned(Slice(w, 31, 25))
rd(w) == REGS[Unsigned(Slice(w, 11, 7)) + 1]
rs1(w) == REGS[Unsigned(Slice(w, 19, 15)) + 1]
rs2(w) == REGS[Unsigned(Slice(w, 24, 20)) + 1]

\* imm, sign-extended; LUI's and AUIPC's as the 20 bits of the upper immediate
imm(w) ==
  CASE Opcode(w) \in {19, 3, 103} -> Signed(Slice(w, 31, 20), 12)
    [] Opcode(w) = 35 -> Signed(Shl(Slice(w, 31, 25), 5) \cup Slice(w, 11, 7), 12)
    [] Opcode(w) = 99 -> Signed(Shl(Slice(w, 31, 31), 12) \cup Shl(Slice(w, 7, 7), 11) \cup Shl(Slice(w, 30, 25), 5)
                                \cup Shl(Slice(w, 11, 8), 1), 13)
    [] Opcode(w) \in {55, 23} -> Unsigned(Slice(w, 31, 12))
    [] Opcode(w) = 111 -> Signed(Shl(Slice(w, 31, 31), 20) \cup Shl(Slice(w, 19, 12), 12) \cup Shl(Slice(w, 20, 20), 11)
                                 \cup Shl(Slice(w, 30, 21), 1), 21)
    [] OTHER -> 0

\* The instruction the CPU takes a word for: opcode, function and the register and immediate fields it reads
Mnemonic(w) ==
  CASE Opcode(w) = 19 -> [n \in 0..7 |-> CASE n = 0 -> "addi" [] n = 1 -> "slli" [] n = 6 -> "ori" [] n = 7 -> "andi"
                                           [] OTHER -> "?"][funct3(w)]
    [] Opcode(w) = 3 -> [n \in 0..7 |-> CASE n = 0 -> "lb" [] n = 1 -> "lh" [] n = 2 -> "lw" [] n = 4 -> "lbu"
                                          [] OTHER -> "?"][funct3(w)]
    [] Opcode(w) = 35 -> <<"sb", "sh", "sw">>[funct3(w) + 1]
    [] Opcode(w) = 99 -> <<"beq", "bne", "?", "?", "blt", "bge", "bltu", "bgeu">>[funct3(w) + 1]
    [] Opcode(w) = 51 -> IF funct7(w) = 1
                         THEN <<"mul", "mulh", "mulhsu", "mulhu", "div", "divu", "rem", "remu">>[funct3(w) + 1]
                         ELSE IF funct3(w) /= 0 THEN "?" ELSE IF funct7(w) = 32 THEN "sub" ELSE "add"
    [] Opcode(w) = 115 -> IF funct3(w) /= 0 THEN <<"csrrw", "csrrs", "csrrc">>[funct3(w)]
                          ELSE LET f == Unsigned(Slice(w, 31, 20))
                               IN  (CASE f = 0 -> "ecall" [] f = 1 -> "ebreak" [] f = 261 -> "wfi" [] f = 770 -> "mret")
    [] Opcode(w) = 47 -> IF funct3(w) = 2 THEN "amo" ELSE "?"
    [] Opcode(w) = 55 -> "lui"
    [] Opcode(w) = 23 -> "auipc"
    [] Opcode(w) = 103 -> "jalr"
    [] Opcode(w) = 111 -> "jal"

\* A 32-bit value as its upper 20 and lower 12 bits; addi's sum of one with an immediate
Value(v) == <<(v \div 4096) % 2^20, v % 4096>>
Plus(x, i) == <<(x[1] + ((x[2] + i) \div 4096)) % 2^20, (x[2] + i) % 4096>>

-----------------------------------------------------------------------------
(* Properties.                                                             *)

\* The state's types; what is assembled is one 32-bit word per item
TypeOK ==
  /\ origin \in Origins /\ phase \in {"build", "assembled", "immediate", "duplicate label", "unresolved"}
  /\ \A l \in Labels : labels[l] = NoLabel \/ ((labels[l] - origin) % 4 = 0 /\ labels[l] >= origin /\ labels[l] <= pc)
  /\ size >= Len(items) /\ parts \in 0..MaxParts
  /\ phase = "assembled" => Len(words) = Len(items)
  /\ \A k \in 1..Len(words) : words[k] \subseteq 0..31

\* Every word is decoded as the instruction that was called for, with its registers, immediate and CSR
DecodesToTheCall ==
  \A k \in 1..Len(words) : LET w == words[k]  c == items[k].item IN
    /\ Mnemonic(w) = (CASE c.op = "la_hi" -> "lui" [] c.op = "la_lo" -> "addi" [] OTHER -> c.op)
    /\ Opcode(w) \in {19, 3, 103, 99, 51, 47, 35} => rs1(w) = IF c.op = "la_lo" THEN c.rd ELSE c.rs1
    /\ Opcode(w) \in {19, 3, 103, 51, 47, 55, 23, 111} => rd(w) = c.rd
    /\ Opcode(w) \in {99, 51, 47, 35} => rs2(w) = c.rs2
    /\ Opcode(w) \in {19, 3, 103, 35, 23} /\ c.op /= "la_lo" => imm(w) = c.imm
    /\ c.op = "lui" => imm(w) = c.imm
    /\ c.op = "amo" => Slice(w, 31, 27) = Bits(c.imm, 5) /\ {25, 26} \cap w = {}
    /\ c.op \in DOMAIN CsrOps => rd(w) = c.rd /\ rs1(w) = c.rs1 /\ Unsigned(Slice(w, 31, 20)) = CSRS[c.csr]

\* A branch or jump goes to its label, forward or back, wherever the label was defined
TargetsReached ==
  \A k \in 1..Len(words) :
    Opcode(words[k]) \in {99, 111} => items[k].pc + imm(words[k]) = labels[items[k].item.target]

\* li and la leave the 32-bit value in the register, also where the low half's sign borrows from the upper
LoadsTheValue ==
  \A k \in 1..Len(words) :
    LET c == items[k].call  w == words[k]
        last == k = Len(words) \/ items[k + 1].nth = 1
        upper == IF items[k].nth = 2 THEN <<imm(words[k - 1]), 0>> ELSE <<0, 0>>
        result == IF Opcode(w) = 55 THEN <<imm(w), 0>> ELSE Plus(upper, imm(w))
    IN  c.op \in {"li", "la"} /\ last => result = Value(IF c.op = "li" THEN c.imm ELSE labels[c.target])

\* The script stops only where no word says what was asked: an immediate past 12 bits, a label that is
\* not there, a branch past +-4 KiB, a jump past +-1 MiB
StopsOnlyForAReason ==
  /\ phase = "immediate" => \A c \in blamed : c.imm < -2048 \/ c.imm > 2047
  /\ phase = "unresolved" => \A c \in blamed :
       \/ labels[c.target] = NoLabel
       \/ \E k \in 1..Len(items) : LET d == labels[c.target] - items[k].pc IN
            /\ items[k].item = c
            /\ \/ c.op \in DOMAIN BOps /\ (d < -4096 \/ d > 4094)
               \/ c.op = "jal" /\ (d < -1048576 \/ d > 1048574)
=============================================================================

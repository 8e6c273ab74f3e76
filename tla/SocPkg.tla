------------------------------- MODULE SocPkg -------------------------------
(***************************************************************************)
(* What the modules of the wait-state window share: the shape of the PSRAM *)
(* behind it (soc/soc_pkg.veryl) and the synchronous RAM both caches use.  *)
(*                                                                         *)
(* The PSRAM is a set of Blocks, each one cache line of LineWords words.   *)
(* A word is one byte for each of its Lanes.  A byte address of the window *)
(* is the pair (block, offset): bits [1:0] are never looked at and bits    *)
(* above [22] repeat the memory, so every alias is the same pair.          *)
(* A cache splits the block number into a line and a tag; the split is a   *)
(* parameter, because all the caches need of it is that line and tag       *)
(* together name one block.                                                *)
(***************************************************************************)
EXTENDS Naturals

CONSTANTS
  LineWords,        \* words of a line: 8, soc_pkg::XMEM_MAX_BURST_WORDS
  Lanes,            \* byte lanes of a word
  Bytes,            \* values of a byte
  Blocks,           \* lines of the PSRAM
  DLINES, ILINES,   \* lines of soc_dcache (64) and of soc_icache (512)
  DTags, ITags,     \* their tags
  DLineOf, DTagOf,  \* the line and the tag of a block in soc_dcache
  ILineOf, ITagOf   \* and in soc_icache

Offs == 0 .. LineWords - 1
Word == [Lanes -> Bytes]
NoData == CHOOSE w \in Word : TRUE
DLines == 0 .. DLINES - 1
ILines == 0 .. ILINES - 1

ASSUME SizeAssumption ==
  /\ LineWords \in Nat \ {0}
  /\ DLINES \in Nat \ {0}
  /\ ILINES \in Nat \ {0}

ASSUME NonEmptyAssumption ==
  /\ Blocks # {}
  /\ Bytes # {}

\* A line and a tag name one block, and every line and tag of soc_dcache do
\* (soc_dcache makes a PSRAM address of them: {tag_r, line_r, 0}).
ASSUME DcacheSplitAssumption ==
  /\ DLineOf \in [Blocks -> DLines]
  /\ DTagOf \in [Blocks -> DTags]
  /\ \A t \in DTags, l \in DLines : \E b \in Blocks : DTagOf[b] = t /\ DLineOf[b] = l
  /\ \A b, c \in Blocks : DTagOf[b] = DTagOf[c] /\ DLineOf[b] = DLineOf[c] => b = c

ASSUME IcacheSplitAssumption ==
  /\ ILineOf \in [Blocks -> ILines]
  /\ ITagOf \in [Blocks -> ITags]
  /\ \A b, c \in Blocks : ITagOf[b] = ITagOf[c] /\ ILineOf[b] = ILineOf[c] => b = c

\* The block at a line and tag of soc_dcache.
DBlock(tag, line) == CHOOSE b \in Blocks : DTagOf[b] = tag /\ DLineOf[b] = line

-----------------------------------------------------------------------------
\* A synchronous RAM with one write port w = [we, at, data] and one registered
\* read port.  A read of the address being written in the same cycle is
\* undefined on the board (synthesis drops the collision logic): each field of
\* the entry is the old one or the new one, Mixed(old, new).
RamNext(ram, w) == IF w.we THEN [ram EXCEPT ![w.at] = w.data] ELSE ram

RamRead(ram, w, at, Mixed(_, _)) ==
  IF w.we /\ w.at = at THEN Mixed(ram[at], w.data) ELSE {ram[at]}

\* The bytes of `old` with the lanes of strb replaced by those of `new`.
MergeBytes(old, new, strb) == [i \in Lanes |-> IF i \in strb THEN new[i] ELSE old[i]]
=============================================================================

------------------------------- MODULE FatImage -------------------------------
(***************************************************************************)
(* tools/vux_tool.py's build_fat32_image: the files of a card image into   *)
(* one FAT32 partition, checked with a reader of the result.               *)
(*                                                                         *)
(* A path is a sequence of names, a content a sequence of units (two of    *)
(* them, or two directory entries, fill a sector here).  tree is the       *)
(* builder's dictionary of dictionaries in insertion order.  fat[c + 1] is *)
(* the FAT entry of cluster c and data[c - 1] the content of cluster c.    *)
(***************************************************************************)
EXTENDS Integers, Sequences, SequencesExt, FiniteSets, FiniteSetsExt

CONSTANTS
    Names,             \* names as given
    ShortName,         \* fat_short_name: Names -> 8.3 names, or "bad"
    Paths, Sizes,      \* what mkfat is asked for
    MaxFiles,
    Geometries,        \* records [part |-> part_sectors, per |-> cluster_sectors]
    Reserved,          \* FAT_RESERVED
    SectorUnits,       \* entries or units of content a sector holds
    FatUnits           \* FAT entries a sector holds

\* What the code takes for granted of its parameters.
FatImageAssumption ==
    /\ ShortName \in [Names -> STRING]
    /\ \A p \in Paths : p # <<>> /\ ToSet(p) \subseteq Names
    /\ Reserved \in Nat \ {0} /\ SectorUnits \in Nat \ {0} /\ FatUnits \in Nat \ {0}

VARIABLES geom, tree, phase, fat, data, stack

vars == <<geom, tree, phase, fat, data, stack>>

EOC == -1

------------------------------------------------------------------------------
(* The geometry *)

ClustersWith(n) == (geom.part - Reserved - 2 * n) \div geom.per

FatHolds(n) == ClustersWith(n) + 2 <= n * FatUnits

\* the loop over fat_sectors
FatSectors == CHOOSE n \in 1 .. geom.part : FatHolds(n) /\ \A k \in 1 .. n - 1 : ~FatHolds(k)

Clusters == ClustersWith(FatSectors)

ClusterUnits == geom.per * SectorUnits

------------------------------------------------------------------------------
(* The tree *)

IsDir(n) == n.dir
NodeAt(path) == {i \in 1 .. Len(tree) : tree[i].path = path}

\* directories of path that are not there yet
MissingDirs(path) == {k \in 1 .. Len(path) - 1 : NodeAt(SubSeq(path, 1, k)) = {}}

InTheWay(path) == \E k \in 1 .. Len(path) - 1 : \E i \in NodeAt(SubSeq(path, 1, k)) : ~IsDir(tree[i])

Content(path, size) == [k \in 1 .. size |-> <<path, k>>]

Fail == phase' = "error" /\ UNCHANGED <<geom, tree, fat, data, stack>>

\* one item of files
AddFile(given, size) ==
    LET path == [k \in 1 .. Len(given) |-> ShortName[given[k]]] IN
    \/ /\ "bad" \in ToSet(path) \/ InTheWay(path) \/ NodeAt(path) # {}
       /\ Fail
    \/ /\ "bad" \notin ToSet(path) /\ ~InTheWay(path) /\ NodeAt(path) = {}
       /\ tree' = tree \o [k \in 1 .. Cardinality(MissingDirs(path)) |->
                              [path |-> SubSeq(path, 1, Len(path) - 1 - Cardinality(MissingDirs(path)) + k),
                               dir |-> TRUE, content |-> <<>>]]
                       \o <<[path |-> path, dir |-> FALSE, content |-> Content(path, size)]>>
       /\ UNCHANGED <<geom, phase, fat, data, stack>>

Children(path) == SelectSeq(tree, LAMBDA n : Len(n.path) = Len(path) + 1 /\ SubSeq(n.path, 1, Len(path)) = path)

------------------------------------------------------------------------------
(* Allocation and directories *)

Needs(size) == IF size = 0 THEN 1 ELSE (size + ClusterUnits - 1) \div ClusterUnits

Room(n) == Len(fat) + n <= Clusters + 2

Pieces(content, n) ==
    [i \in 1 .. n |-> SubSeq(content, (i - 1) * ClusterUnits + 1,
                             IF i * ClusterUnits < Len(content) THEN i * ClusterUnits ELSE Len(content))]

\* alloc: the chain's FAT entries and data, from cluster Len(fat) on
Links(n) == [i \in 1 .. n |-> IF i < n THEN Len(fat) + i ELSE EOC]

Entry(name, attr, cluster, size) == [name |-> name, attr |-> attr, cluster |-> cluster, size |-> size]

Frame(path, own, parent) ==
    [path |-> path, own |-> own, parent |-> parent, rest |-> Children(path),
     entries |-> IF path = <<>> THEN <<Entry("label", 8, 0, 0)>>
                 ELSE <<Entry(".", 16, own, 0), Entry("..", 16, parent, 0)>>]

\* the root's first cluster, then write_dir of the tree
Begin ==
    /\ phase = "add" /\ tree # <<>>
    /\ IF Room(1)
       THEN /\ fat' = Append(fat, EOC) /\ data' = <<<<>>>>
            /\ stack' = <<Frame(<<>>, 2, 0)>> /\ phase' = "write" /\ UNCHANGED <<geom, tree>>
       ELSE Fail

Top == Last(stack)

\* mutant: .. of a directory in the root holds the root's cluster
ParentOfOwn == Top.own

\* .. holds 0 for the root
ParentOf == IF Top.path = <<>> THEN 0 ELSE Top.own

\* an empty file takes no cluster, a directory takes one
NeedOf(n) == IF ~IsDir(n) /\ n.content = <<>> THEN 0 ELSE Needs(Len(n.content))

\* write_dir: the next entry of the directory
WriteEntry ==
    /\ phase = "write" /\ stack # <<>> /\ Top.rest # <<>>
    /\ LET n     == Head(Top.rest)
           first == IF ~IsDir(n) /\ n.content = <<>> THEN 0 ELSE Len(fat)
           need  == NeedOf(n)
           done  == [Top EXCEPT !.rest = Tail(@),
                                !.entries = Append(@, Entry(Last(n.path), IF IsDir(n) THEN 16 ELSE 32, first, Len(n.content)))]
       IN  IF ~Room(need) THEN Fail
           ELSE /\ fat' = fat \o Links(need)
                /\ data' = data \o Pieces(n.content, need)
                /\ stack' = Append(Front(stack), done)
                               \o (IF IsDir(n) THEN <<Frame(n.path, first, ParentOf)>> ELSE <<>>)
                /\ UNCHANGED <<geom, tree, phase>>

\* fat with the directory's chain
Chained(chain) ==
    LET grown == fat \o [k \in 1 .. Len(chain) - 1 |-> EOC]
    IN  [i \in 1 .. Len(grown) |->
            IF \E k \in 1 .. Len(chain) - 1 : chain[k] = i - 1
            THEN chain[1 + CHOOSE k \in 1 .. Len(chain) - 1 : chain[k] = i - 1] ELSE grown[i]]

\* write_dir's end: the directory's clusters, chained on after the ones its children took
FinishDir ==
    /\ phase = "write" /\ stack # <<>> /\ Top.rest = <<>>
    /\ LET need  == Needs(Len(Top.entries))
           chain == <<Top.own>> \o [k \in 1 .. need - 1 |-> Len(fat) + k - 1]
           piece == Pieces(Top.entries, need)
           grown == data \o [k \in 1 .. need - 1 |-> <<>>]
       IN  IF ~Room(need - 1) THEN Fail
           ELSE /\ fat' = Chained(chain)
                /\ data' = [i \in 1 .. Len(grown) |->
                               IF \E k \in 1 .. need : chain[k] = i + 1
                               THEN piece[CHOOSE k \in 1 .. need : chain[k] = i + 1] ELSE grown[i]]
                /\ stack' = Front(stack)
                /\ phase' = IF Len(stack) = 1 THEN "done" ELSE "write"
                /\ UNCHANGED <<geom, tree>>

\* FSInfo's free count
FreeCount == Clusters - (Len(fat) - 2)

Init ==
    /\ geom \in Geometries /\ tree = <<>> /\ phase = "add"
    /\ fat = <<EOC, EOC>> /\ data = <<>> /\ stack = <<>>

Add == phase = "add" /\ Len(SelectSeq(tree, LAMBDA n : ~n.dir)) < MaxFiles
       /\ \E p \in Paths, s \in Sizes : AddFile(p, s)

Next == Add \/ Begin \/ WriteEntry \/ FinishDir

Spec == Init /\ [][Next]_vars /\ WF_vars(Begin \/ WriteEntry \/ FinishDir)

------------------------------------------------------------------------------
(* A reader of the image: what a FAT32 driver finds from the root cluster *)

RECURSIVE ChainFrom(_, _)
ChainFrom(c, fuel) ==
    IF c = EOC \/ fuel = 0 \/ c < 2 \/ c >= Len(fat) THEN <<>> ELSE <<c>> \o ChainFrom(fat[c + 1], fuel - 1)

ReadChain(c) == FoldLeft(LAMBDA acc, k : acc \o data[k - 1], <<>>, ChainFrom(c, Len(fat)))

RECURSIVE Found(_, _, _)
Found(c, path, depth) ==
    IF depth = 0 THEN {} ELSE
    LET entries == ToSet(ReadChain(c))
        files == {e \in entries : e.attr = 32}
        dirs  == {e \in entries : e.attr = 16 /\ e.name \notin {".", ".."}}
    IN  {[path |-> Append(path, e.name), dir |-> FALSE,
          content |-> SubSeq(IF e.cluster = 0 THEN <<>> ELSE ReadChain(e.cluster), 1, e.size)] : e \in files}
        \cup UNION {{[path |-> Append(path, e.name), dir |-> TRUE, content |-> <<>>]}
                    \cup Found(e.cluster, Append(path, e.name), depth - 1) : e \in dirs}

Depth == 1 + Max({Len(p) : p \in Paths})

\* the first cluster of every chain below a directory
RECURSIVE AllHeads(_, _)
AllHeads(c, depth) ==
    IF depth = 0 THEN <<>> ELSE
    LET entries == SelectSeq(ReadChain(c), LAMBDA e : e.attr # 8 /\ e.name \notin {".", ".."} /\ e.cluster # 0)
    IN  FoldLeft(LAMBDA acc, e : acc \o <<e.cluster>> \o (IF e.attr = 16 THEN AllHeads(e.cluster, depth - 1) ELSE <<>>),
                 <<>>, entries)

------------------------------------------------------------------------------
(* Properties *)

\* Types of all variables.
TypeOK ==
    /\ geom \in Geometries /\ phase \in {"add", "write", "done", "error"}
    /\ \A i \in 1 .. Len(fat) : fat[i] \in {EOC} \cup (3 .. Len(fat) - 1)
    /\ Len(data) = (IF phase = "add" \/ data = <<>> THEN 0 ELSE Len(fat) - 2)
    /\ \A i \in 1 .. Len(data) : Len(data[i]) <= ClusterUnits

\* The image of files that fit holds exactly these files and the directories on their
\* paths, with their contents, for a reader that follows the chains
\* (vux_tool.py:731-812).
HoldsTheFiles == phase = "done" => Found(2, <<>>, Depth) = ToSet(tree)

\* Every allocated cluster is in exactly one chain of the root, a directory or a file: no
\* cluster is lost and none is shared, also for directories that grew after their
\* children were written (vux_tool.py:794-801).
ChainsPartition ==
    phase = "done" =>
        LET heads == <<2>> \o AllHeads(2, Depth)
            all   == FoldLeft(LAMBDA acc, c : acc \o ChainFrom(c, Len(fat)), <<>>, heads)
        IN  Len(all) = Len(fat) - 2 /\ ToSet(all) = 2 .. Len(fat) - 1

\* The clusters and their FAT entries fit the partition, whatever its size, and FSInfo's
\* free count is what is left of them (vux_tool.py:741-747, 805, 818).
FitsThePartition ==
    phase = "done" =>
        /\ Len(fat) <= FatSectors * FatUnits
        /\ Reserved + 2 * FatSectors + (Len(fat) - 2) * geom.per <= geom.part
        /\ FreeCount >= 0 /\ FreeCount + Len(fat) - 2 = Clusters

\* .. of a directory leads to its parent, 0 standing for the root, as FAT32 has it
\* (vux_tool.py:789).
DotDotLeadsUp ==
    phase = "done" =>
        \A i \in 1 .. Len(tree) : tree[i].dir =>
            LET parent == SubSeq(tree[i].path, 1, Len(tree[i].path) - 1)
                ClusterOf(path) ==
                    FoldLeft(LAMBDA c, nm : (CHOOSE e \in ToSet(ReadChain(c)) : e.name = nm).cluster, 2, path)
                up == (CHOOSE e \in ToSet(ReadChain(ClusterOf(tree[i].path))) : e.name = "..").cluster
            IN  up = (IF parent = <<>> THEN 0 ELSE ClusterOf(parent))

\* The builder writes the directories; it has an image or an error.
Building == phase = "write"
BuildOver == phase \in {"done", "error"}

\* Building ends, in an image or in the error that says why not.
Builds == Building ~> BuildOver
==============================================================================

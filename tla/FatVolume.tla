------------------------------ MODULE FatVolume ------------------------------
(***************************************************************************)
(* firmware/fw_common/src/fat/write.rs: the FAT32 volume while it is       *)
(* changed, one sector write at a time.  A command mounts the volume, so   *)
(* it begins with an empty FAT cache, and its errors end it.  Any write    *)
(* may be the last before the power fails, and a write may be refused by   *)
(* the card, or done and reported failed (fw_drivers' write_block).        *)
(*                                                                         *)
(* A cluster is one sector; a FAT sector holds PerSector entries instead   *)
(* of 128.  Directories are the root and its subdirectories; entries have  *)
(* no long names; FSInfo, which begin_change marks unknown, is left out.   *)
(* A command is a list of jobs; a job may put others in its place.         *)
(***************************************************************************)
EXTENDS Naturals, Sequences, FiniteSets

CONSTANTS
  Count,          \* clusters of the volume
  PerSector,      \* entries of a FAT sector
  PerCluster,     \* entry slots of a cluster
  Names, Sizes,   \* the files the commands are about; sizes in clusters
  Commands,       \* the kinds of command
  Faults,         \* what a write may do besides succeed: "refused", "reported"
  MaxCommands

VARIABLES
  fat, content,           \* the card: both copies of the FAT; each cluster's sector
  cached, cache, dirty,   \* the volume: the FAT sector in memory (Nowhere: none), and whether it was changed
  next_free,
  todo, copy, undo, r,    \* the command: its jobs, the FAT copy to write next, the chain to give back on an error, registers
  count, clean, last      \* commands so far; no cut and no fault so far; the last command

card == <<fat, content>>
vol == <<cached, cache, dirty, next_free>>
command == <<todo, copy, undo, r>>
ghost == <<count, clean, last>>
vars == <<card, vol, command, ghost>>

Clusters == 2..(Count + 1)
cluster_end == Count + 2
EOC == Count + 2
Root == 2
TMP == "~PUT.TMP"
Sector(c) == c \div PerSector
Nowhere == Count + 2
NoCache == [c \in Clusters |-> 0]

Slot(name, first, len, dir, id) == [name |-> name, first |-> first, len |-> len, dir |-> dir, id |-> id]
Unused == Slot("", 0, 0, FALSE, 0)
DELETED == Slot("deleted", 0, 0, FALSE, 0)
EmptyDir == [kind |-> "dir", slots |-> [i \in 1..PerCluster |-> Unused], id |-> 0, part |-> 0]
Data(id, part) == [kind |-> "data", slots |-> EmptyDir.slots, id |-> id, part |-> part]
Never == Data(0, 0)

-----------------------------------------------------------------------------
(* Reading: next_cluster, walk_slots and find, over a FAT seen as view.    *)

\* The clusters of the chain from c, as far as they are clusters, no more than the volume has
Chain(view, c) ==
  LET walk[n \in 0..Count] ==
        IF n = 0 THEN IF c \in Clusters THEN <<c>> ELSE <<>>
        ELSE LET s == walk[n - 1] IN
             IF s /= <<>> /\ Len(s) = n /\ view[s[n]] \in Clusters THEN Append(s, view[s[n]]) ELSE s
  IN walk[Count]

\* The FAT as the volume sees it, the cached sector in front of the card's first copy
View == [c \in Clusters |-> IF Sector(c) = cached THEN cache[c] ELSE fat[1][c]]

\* The places of a directory's slots in order, up to (and with) the first that was never used
Places(view, d) ==
  LET ch == Chain(view, d)
      all == [n \in 1..(Len(ch) * PerCluster) |-> <<ch[((n - 1) \div PerCluster) + 1], ((n - 1) % PerCluster) + 1>>]
  IN {all[n] : n \in {n \in DOMAIN all : \A k \in 1..(n - 1) : content[all[k][1]].slots[all[k][2]] /= Unused}}

At(p) == content[p[1]].slots[p[2]]
Live(view, d) == {p \in Places(view, d) : At(p) \notin {Unused, DELETED}}
Find(d, name) == {p \in Live(View, d) : At(p).name = name}

-----------------------------------------------------------------------------
(* Writing a sector, and what an error does to the command.                *)

\* As it would be: what was taken stays taken
FailKept(chain) == todo' = <<>> /\ undo' = 0

\* An error ends the command, after a chain it has taken is given back
Fail(chain) == todo' = (IF chain /= 0 THEN <<<<"free_chain", chain>>>> ELSE <<>>) /\ undo' = 0

Job == todo[1]
Doing(job) == todo /= <<>> /\ Job[1] = job
Done(more) == todo' = more \o Tail(todo)

\* A write to the card has happened or not, and is reported so or not
Outcomes == {"ok"} \cup Faults
Happens(o) == o /= "refused"

\* The data buffer is written to a cluster: on to the next job, or the error
WriteData(o, c, sector, onError, after) ==
  /\ content' = IF Happens(o) THEN [content EXCEPT ![c] = sector] ELSE content
  /\ clean' = (clean /\ o = "ok")
  /\ IF o = "ok" THEN Done(<<>>) /\ undo' = after ELSE Fail(onError)
  /\ UNCHANGED <<fat, vol, copy, count, last>>

\* As it would be: both copies are tried again
FlushFailedRetry == copy' = 1 /\ UNCHANGED <<dirty, todo, undo>>

FlushFailed == copy' = 1 /\ UNCHANGED dirty /\ Fail(undo)

\* flush_fat: one copy of the cached sector, then the other
FlushNow(o) ==
  /\ fat' = IF Happens(o) THEN [fat EXCEPT ![copy] = [c \in Clusters |-> IF Sector(c) = cached THEN cache[c] ELSE @[c]]] ELSE fat
  /\ clean' = (clean /\ o = "ok")
  /\ IF o /= "ok" THEN FlushFailed
     ELSE /\ IF copy = 1 THEN copy' = 2 /\ UNCHANGED dirty ELSE copy' = 1 /\ dirty' = FALSE
          /\ UNCHANGED <<todo, undo>>
  /\ UNCHANGED <<content, cached, cache, next_free, r, count, last>>

-----------------------------------------------------------------------------
(* load_fat: the sector of the cluster the job is about, when another is   *)
(* in memory; a changed one is written first.  After a read that fails no  *)
(* sector is.                                                              *)

\* alloc_cluster's place in the FAT
Scan == IF r.scan >= cluster_end THEN 2 ELSE r.scan

Needs ==
  IF todo = <<>> THEN Nowhere
  ELSE CASE Job[1] = "alloc" -> Sector(Scan)
         [] Job[1] = "link" -> Sector(Job[2])
         [] Job[1] = "free_chain" /\ Job[2] \in Clusters -> Sector(Job[2])
         [] OTHER -> Nowhere

load_fat(o) ==
  /\ Needs /= Nowhere /\ Needs /= cached
  /\ IF dirty THEN FlushNow(o)
     ELSE /\ o /= "reported"
          /\ cached' = IF o = "ok" THEN Needs ELSE Nowhere
          /\ cache' = [c \in Clusters |-> IF Sector(c) = cached' THEN fat[1][c] ELSE 0]
          /\ clean' = (clean /\ o = "ok")
          /\ IF o = "ok" THEN UNCHANGED <<todo, undo>> ELSE Fail(undo)
          /\ UNCHANGED <<card, dirty, next_free, copy, r, count, last>>

Ready == Needs = cached
set_fat(c, value) == cache' = [cache EXCEPT ![c] = value] /\ dirty' = TRUE

flush_fat(o) ==
  /\ Doing("flush")
  /\ IF dirty THEN FlushNow(o)
     ELSE o = "ok" /\ Done(<<>>) /\ UNCHANGED <<card, vol, copy, undo, r, ghost>>

-----------------------------------------------------------------------------
(* alloc_cluster: <<"alloc", prev>> leaves the cluster in r.got.           *)

alloc ==
  /\ Doing("alloc") /\ Ready
  /\ IF cache[Scan] = 0
     THEN /\ set_fat(Scan, EOC)
          /\ next_free' = Scan + 1
          /\ r' = [r EXCEPT !.got = Scan]
          /\ Done(IF Job[2] /= 0 THEN <<<<"link", Job[2]>>>> ELSE <<>>)
          /\ UNCHANGED undo
     ELSE /\ r' = [r EXCEPT !.scan = Scan + 1, !.tries = @ + 1]
          /\ IF r.tries + 1 < Count THEN Done(<<Job>>) /\ UNCHANGED undo ELSE Fail(undo)     \* DiskFull
          /\ UNCHANGED <<cache, dirty, next_free>>
  /\ UNCHANGED <<card, cached, copy, ghost>>

link ==
  /\ Doing("link") /\ Ready
  /\ set_fat(Job[2], r.got) /\ Done(<<>>)
  /\ UNCHANGED <<card, cached, next_free, copy, undo, r, ghost>>

\* free_chain: what is no cluster is BadChain, and what was freed waits in memory
free_chain ==
  /\ Doing("free_chain")
  /\ IF Job[2] \notin Clusters THEN Fail(undo) /\ UNCHANGED <<cache, dirty>>
     ELSE /\ Ready
          /\ set_fat(Job[2], 0)
          /\ Done(IF cache[Job[2]] = EOC THEN <<<<"flush">>>> ELSE <<<<"free_chain", cache[Job[2]]>>>>)
          /\ UNCHANGED undo
  /\ UNCHANGED <<card, cached, next_free, copy, r, ghost>>

-----------------------------------------------------------------------------
(* write_chain, free_slot, write_entry and delete_slots.                   *)

\* Jobs that take no write: the next cluster's search, and the registers between allocations
write_chain ==
  /\ Doing("write_chain")
  /\ IF r.part = r.len
     THEN Done(<<<<"flush">>>>) /\ UNCHANGED r
     ELSE /\ r' = [r EXCEPT !.scan = next_free, !.tries = 0]
          /\ Done(<<<<"alloc", r.prev>>, <<"data">>, <<"write_chain">>>>)
  /\ UNCHANGED <<card, vol, copy, undo, ghost>>

data(o) ==
  /\ Doing("data")
  /\ LET first == IF r.first = 0 THEN r.got ELSE r.first IN
     /\ WriteData(o, r.got, Data(r.id, r.part + 1), first, first)
     /\ r' = [r EXCEPT !.prev = r.got, !.first = first, !.part = @ + 1]

\* The first slot of the directory that is unused or deleted, else one of a new cluster.  The walk loads FAT
\* sectors too; nothing waits in memory then, so only what is cached afterwards could differ.
free_slot(d) ==
  /\ Doing("free_slot") /\ Job[2] = d
  /\ LET open == {p \in Places(View, d) : At(p) \in {Unused, DELETED}}
         ch == Chain(View, d)
         before(p, q) == \E i, j \in DOMAIN ch : ch[i] = p[1] /\ ch[j] = q[1] /\ (i < j \/ (i = j /\ p[2] < q[2]))
     IN IF open /= {}
        THEN /\ r' = [r EXCEPT !.slot = CHOOSE p \in open : \A q \in open \ {p} : before(p, q)]
             /\ Done(<<>>)
        ELSE /\ r' = [r EXCEPT !.scan = next_free, !.tries = 0]
             /\ Done(<<<<"alloc", ch[Len(ch)]>>, <<"zero">>, <<"flush">>, <<"free_slot", d>>>>)
  /\ UNCHANGED <<card, vol, copy, undo, ghost>>

\* The directory's new cluster, or (mkdir) the new directory's, zeroed
zero(o) == Doing("zero") /\ WriteData(o, r.got, EmptyDir, undo, undo) /\ UNCHANGED r

\* mkdir's cluster is given back on every later error
mkdir_alloc ==
  /\ Doing("mkdir_alloc")
  /\ undo' = r.got /\ r' = [r EXCEPT !.first = r.got]
  /\ Done(<<<<"zero">>, <<"flush">>>>)
  /\ UNCHANGED <<card, vol, copy, ghost>>

\* The sector of place p with its slot replaced
With(p, slot) == [content[p[1]] EXCEPT !.slots[p[2]] = slot]

\* create gives nothing back when the entry's write fails, mkdir does
write_entry(o) ==
  /\ Doing("write_entry")
  /\ WriteData(o, r.slot[1], With(r.slot, [Job[2] EXCEPT !.first = r.first]), IF Job[2].dir THEN undo ELSE 0, 0)
  /\ UNCHANGED r

\* The entry at a place is renamed, or deleted
rewrite(o) ==
  /\ Doing("rewrite")
  /\ LET p == Job[2] IN
     WriteData(o, p[1], With(p, IF Job[3] = "" THEN DELETED ELSE [At(p) EXCEPT !.name = Job[3]]), 0, undo)
  /\ UNCHANGED r

-----------------------------------------------------------------------------
(* The operations, as jobs.  What they find is looked up when they begin.  *)

create(d, name) ==
  <<<<"write_chain">>, <<"free_slot", d>>, <<"write_entry", Slot(name, 0, r.len, FALSE, r.id)>>>>

\* As it would be: the clusters first
removeChainFirst(p) ==
  (IF At(p).first /= 0 THEN <<<<"free_chain", At(p).first>>>> ELSE <<>>) \o <<<<"rewrite", p, "">>>>

remove(p) ==
  <<<<"rewrite", p, "">>>> \o (IF At(p).first /= 0 THEN <<<<"free_chain", At(p).first>>>> ELSE <<>>)

mkdir(d, name) ==
  <<<<"alloc", 0>>, <<"mkdir_alloc">>, <<"free_slot", d>>, <<"write_entry", Slot(name, 0, 0, TRUE, 0)>>>>

\* As it would be: the old entry goes first
move_toOldFirst(p, to) == <<<<"rewrite", p, "">>, <<"free_slot", to>>, <<"write_entry", At(p)>>>>

\* The entry as it is into a slot of the other directory, then the old one's deletion; the chain stays
move_to(p, to) == <<<<"free_slot", to>>, <<"write_entry", At(p)>>, <<"rewrite", p, "">>>>

replace(d, name) ==
  <<<<"remove", d, TMP>>, <<"create", d, TMP>>, <<"remove", d, name>>, <<"rename", d, TMP, name>>>>

\* An operation of replace begins: find, its early returns, and its jobs
Operation ==
  /\ todo /= <<>> /\ Job[1] \in {"create", "remove", "rename"}
  /\ LET found == Find(Job[2], Job[3]) IN
     CASE Job[1] = "create" -> IF found /= {} THEN Fail(0) ELSE Done(create(Job[2], Job[3])) /\ UNCHANGED undo
       [] Job[1] = "remove" -> /\ Done(IF found = {} THEN <<>> ELSE remove(CHOOSE p \in found : TRUE))
                               /\ UNCHANGED undo
       [] OTHER -> IF Find(Job[2], Job[4]) /= {} THEN Fail(0)
                   ELSE Done(<<<<"rewrite", CHOOSE p \in found : TRUE, Job[4]>>>>) /\ UNCHANGED undo
  /\ UNCHANGED <<card, vol, copy, r, ghost>>

-----------------------------------------------------------------------------
(* The commands, the cut and the specification.                            *)

Dirs == {Root} \cup {At(p).first : p \in {p \in Live(fat[1], Root) : At(p).dir}}

Begin(op, name, d, jobs, len, first) ==
  /\ todo = <<>> /\ count < MaxCommands
  /\ count' = count + 1 /\ todo' = jobs
  /\ cached' = Nowhere /\ cache' = NoCache /\ dirty' = FALSE /\ next_free' = 2
  /\ copy' = 1 /\ undo' = 0
  /\ r' = [first |-> first, prev |-> 0, got |-> 0, len |-> len, part |-> 0, id |-> count + 1, scan |-> 2, tries |-> 0, slot |-> <<2, 1>>]
  /\ last' = [op |-> op, name |-> name, dir |-> d, old |-> {At(p) : p \in {p \in Live(fat[1], d) : At(p).name = name}}]
  /\ UNCHANGED <<card, clean>>

IsDir(d, name) == \E p \in Live(fat[1], d) : At(p).name = name /\ At(p).dir
IsFile(d, name) == \E p \in Live(fat[1], d) : At(p).name = name /\ ~At(p).dir

put(d, name, len) == "put" \in Commands /\ ~IsDir(d, name) /\ Begin("put", name, d, replace(d, name), len, 0)
rm(d, name) == "rm" \in Commands /\ IsFile(d, name) /\ Begin("rm", name, d, <<<<"remove", d, name>>>>, 0, 0)
mv(d, from, to) ==
  /\ "mv" \in Commands /\ from /= to /\ IsFile(d, from) /\ Begin("mv", from, d, <<<<"rename", d, from, to>>>>, 0, 0)
md(name) == "md" \in Commands /\ Find(Root, name) = {} /\ Begin("md", name, Root, mkdir(Root, name), 0, 0)

\* rmdir, of an empty directory
rd(name) ==
  /\ "rd" \in Commands
  /\ \E p \in Live(fat[1], Root) : At(p).name = name /\ At(p).dir /\ Live(fat[1], At(p).first) = {}
       /\ Begin("rd", name, Root, remove(p), 0, 0)

\* A file moves to another directory that has no such name
move(d, name, to) ==
  /\ "move" \in Commands /\ d /= to /\ {p \in Live(fat[1], to) : At(p).name = name} = {}
  /\ \E p \in Live(fat[1], d) : At(p).name = name /\ ~At(p).dir /\ Begin("move", name, d, move_to(p, to), 0, At(p).first)

\* The power fails, or the board is reset
Cut ==
  /\ todo /= <<>> /\ todo' = <<>> /\ clean' = FALSE
  /\ cached' = Nowhere /\ cache' = NoCache /\ dirty' = FALSE /\ copy' = 1 /\ undo' = 0
  /\ UNCHANGED <<card, next_free, r, count, last>>

Init ==
  /\ fat = [k \in 1..2 |-> [c \in Clusters |-> IF c = Root THEN EOC ELSE 0]]
  /\ content = [c \in Clusters |-> IF c = Root THEN EmptyDir ELSE Never]
  /\ cached = Nowhere /\ cache = NoCache /\ dirty = FALSE /\ next_free = 2
  /\ todo = <<>> /\ copy = 1 /\ undo = 0
  /\ r = [first |-> 0, prev |-> 0, got |-> 0, len |-> 0, part |-> 0, id |-> 0, scan |-> 2, tries |-> 0, slot |-> <<2, 1>>]
  /\ count = 0 /\ clean = TRUE /\ last = [op |-> "", name |-> "", dir |-> Root, old |-> {}]

Work ==
  \/ alloc \/ link \/ free_chain \/ write_chain \/ mkdir_alloc \/ Operation
  \/ \E d \in Clusters : free_slot(d)
  \/ \E o \in Outcomes : load_fat(o) \/ flush_fat(o) \/ data(o) \/ zero(o) \/ write_entry(o) \/ rewrite(o)

Next ==
  \/ Work \/ Cut
  \/ \E d \in Dirs, name \in Names : rm(d, name) \/ \E len \in Sizes : put(d, name, len)
  \/ \E d \in Dirs, from, to \in Names : mv(d, from, to)
  \/ \E name \in Names : md(name) \/ rd(name)
  \/ \E d, to \in Dirs, name \in Names : move(d, name, to)

Spec == Init /\ [][Next]_vars /\ WF_vars(Work)

-----------------------------------------------------------------------------
(* Properties, of the card as a mount would find it.                       *)

Entries == UNION {Live(fat[1], d) : d \in Dirs}
ChainOf(c) == Chain(fat[1], c)
Ended(ch) == ch /= <<>> /\ fat[1][ch[Len(ch)]] = EOC
Used(c) == {ChainOf(c)[i] : i \in DOMAIN ChainOf(c)}

\* A file's chain has its length and its data
Whole(e) == IF e.len = 0 THEN e.first = 0
            ELSE LET ch == ChainOf(e.first) IN Len(ch) = e.len /\ Ended(ch) /\ \A i \in 1..e.len : content[ch[i]] = Data(e.id, i)

\* Types; memory holds a change only of the sector that is there
TypeOK ==
  /\ \A k \in 1..2 : fat[k] \in [Clusters -> {0, EOC} \cup Clusters]
  /\ \A c \in Clusters : cache[c] /= 0 => Sector(c) = cached
  /\ dirty => cached /= Nowhere
  /\ copy \in 1..2 /\ (copy = 2 => dirty) /\ undo \in {0} \cup Clusters

\* At every moment what the card shows is sound: every directory's chain ends and holds directory
\* sectors, every file is whole, and no cluster is in two chains - a cut leaves at most lost clusters
CardSound ==
  /\ \A d \in Dirs : Ended(ChainOf(d)) /\ \A c \in Used(d) : content[c].kind = "dir"
  /\ \A p \in Entries : At(p).dir \/ Whole(At(p))
  /\ \A p, q \in Entries : p /= q => Used(At(p).first) \cap Used(At(q).first) = {}
  /\ \A p \in Entries : Root \notin Used(At(p).first)

\* Commands that ran to their end on a card that did all it was told leave no cluster lost, also the
\* ones a full card refused, and the two copies of the FAT alike
NothingLost ==
  clean /\ todo = <<>> =>
    /\ fat[1] = fat[2]
    /\ \A c \in Clusters : fat[1][c] /= 0 => \E f \in {Root} \cup {At(p).first : p \in Entries} : c \in Used(f)

\* While a file is replaced, and after a cut, its old contents are under its name, or its new ones under
\* its name or as ~PUT.TMP
ReplaceKeeps ==
  last.old /= {} /\ last.op = "put" /\ last.dir \in Dirs =>
    \E p \in Live(fat[1], last.dir) : LET e == At(p) IN
      Whole(e) /\ (e \in last.old \/ (e.id = count /\ e.name \in {last.name, TMP}))

\* While a file moves, and after a cut, it is whole under its name in one of the two directories
MoveKeeps ==
  last.op = "move" =>
    \E p \in Entries : At(p).name = last.name /\ Whole(At(p)) /\ \E e \in last.old : e.id = At(p).id

\* A cluster is part of a directory only once it was zeroed
ZeroedBeforeLinked == \A d \in Dirs : \A c \in Used(d) : content[c].kind = "dir"

\* No entry points to a cluster the FAT calls free
NoEntryToFree == \A p \in Entries : At(p).first /= 0 => fat[1][At(p).first] /= 0

\* Every command comes to its end, an error's clean-up too
CommandEnds == todo /= <<>> ~> todo = <<>>
=============================================================================

------------------------------ MODULE EqyCheck ------------------------------
(***************************************************************************)
(* scripts/run_eqy.py: is the working tree's RTL equivalent to the RTL of  *)
(* a base commit?  The gold side is generated once per commit and kept in  *)
(* build/eqy/gold-<sha>/; both sides are copied to the work directory, the *)
(* boot ROM stubbed, inputs of the gate may be tied to constants, and eqy  *)
(* compares.  Runs follow each other while the developer edits, commits,   *)
(* changes the base and updates veryl; a run may be killed at any step.    *)
(*                                                                         *)
(* A design is its top (what it does for each value of its ports, which    *)
(* ports it has and whether it instantiates the dependency), the           *)
(* dependency Veryl.toml declares (0: none) and the ROM.  Which generated  *)
(* trees are copied and read is decided by the working tree's Veryl.toml,  *)
(* of the base as well.                                                    *)
(***************************************************************************)
EXTENDS Naturals, Sequences

CONSTANTS
  Ports,        \* names of the ports that differ between designs
  Values,       \* their constants
  Designs,      \* the RTL there may be
  Ties,         \* --gate-tie: sequences of <<name, value>>, as given
  Veryls,       \* versions of veryl
  MaxCommits,
  MaxChanges    \* edits and updates of veryl

Inputs == [Ports -> Values]

DesignType == [f : [Inputs -> Nat], x : [Ports -> {"none", "input", "output"}], dep : Nat, uses : BOOLEAN, rom : Nat]

\* What the inputs are; veryl refuses a design that uses a dependency it does not declare
EqyAssumption ==
  /\ MaxCommits \in Nat \ {0} /\ MaxChanges \in Nat
  /\ Designs \subseteq DesignType /\ Veryls \subseteq Nat \ {0}
  /\ \A d \in Designs : d.uses => d.dep # 0

VARIABLES
  commits, wt, veryl, changes,        \* the history, the working tree, the installed veryl
  generated,                          \* build/veryl: the design and the veryl it was generated with
  gold,                               \* build/eqy/gold-<sha>: what is there, per commit
  phase, base, ties, built,           \* the run: the commit --base names, the RTL built in the temporary directory
  snapGold, snapGate, verdict

repo == <<commits, wt, veryl, changes>>
run == <<base, ties, built, snapGold, snapGate, verdict>>
vars == <<repo, generated, gold, phase, run>>

Nothing == [f |-> [v \in Inputs |-> 0], x |-> [p \in Ports |-> "none"], dep |-> 0, uses |-> FALSE, rom |-> 0]
NoTree == [design |-> Nothing, by |-> 0]
NoGold == [done |-> FALSE, soc |-> NoTree, dependencies |-> NoTree]
Shas == 1..MaxCommits

-----------------------------------------------------------------------------
(* main(), up to the gold RTL.                                             *)

\* parse_ties: a value that is no constant, or no NAME=VALUE, stops the script ...
TiesWellFormed(t) == \A i \in 1..Len(t) : t[i][2] \in Values

\* ... and of two values for one name the last counts
parse_ties(t) ==
  [n \in {t[i][1] : i \in 1..Len(t)} |->
     t[CHOOSE i \in 1..Len(t) : t[i][1] = n /\ \A j \in 1..Len(t) : t[j][1] = n => j <= i][2]]

NoTies == [n \in {} |-> 0]

\* The RTL of the working tree (make veryl), then the script with its arguments
Start(sha, t) ==
  /\ phase = "idle"
  /\ base' = sha /\ ties' = IF TiesWellFormed(t) THEN parse_ties(t) ELSE NoTies
  /\ generated' = [design |-> wt, by |-> veryl]
  /\ verdict' = "-" /\ built' = NoTree /\ snapGold' = NoTree /\ snapGate' = NoTree
  /\ phase' = IF TiesWellFormed(t) THEN "build_gold" ELSE "idle"
  /\ UNCHANGED <<repo, gold>>

\* As it would be: a gold directory that is there is used
CachedThere(sha) == gold[sha].soc /= NoTree

Cached(sha) == gold[sha].done

\* rmtree of what a killed run may have left
MakeRoom(sha) == gold' = [gold EXCEPT ![sha] = NoGold]

\* git archive exports a submodule as an empty directory ...
Archive(sha) == [commits[sha] EXCEPT !.dep = 0]

\* ... which is filled with the commit the base records for it
export_path_dependencies(sha, tree) == [tree EXCEPT !.dep = commits[sha].dep]

\* The commit's files and its submodules, exported and built outside the repository
build_gold ==
  /\ phase = "build_gold"
  /\ IF Cached(base)
     THEN phase' = "snapshot" /\ UNCHANGED <<gold, built>>
     ELSE /\ MakeRoom(base)
          /\ built' = [design |-> export_path_dependencies(base, Archive(base)), by |-> veryl]
          /\ phase' = "copy_soc"
  /\ UNCHANGED <<repo, generated, base, ties, snapGold, snapGate, verdict>>

\* RTL_DIRS: soc, and the dependencies the working tree declares
RTL_DIRS == {"soc"} \cup (IF wt.dep # 0 THEN {"dependencies"} ELSE {})

\* A directory of RTL_DIRS the base's build has is copied; copytree refuses one that is there
CopyTree(dir, next) ==
  /\ IF dir \notin RTL_DIRS \/ (dir = "dependencies" /\ built.design.dep = 0)
     THEN phase' = next /\ UNCHANGED gold
     ELSE IF gold[base][dir] /= NoTree
     THEN phase' = "FileExistsError" /\ UNCHANGED gold
     ELSE phase' = next /\ gold' = [gold EXCEPT ![base] = [@ EXCEPT ![dir] = built]]
  /\ UNCHANGED <<repo, generated, run>>

CopySoc == phase = "copy_soc" /\ CopyTree("soc", "copy_dependencies")
CopyDependencies == phase = "copy_dependencies" /\ CopyTree("dependencies", "touch")

Touch ==
  /\ phase = "touch"
  /\ gold' = [gold EXCEPT ![base].done = TRUE]
  /\ phase' = "snapshot"
  /\ UNCHANGED <<repo, generated, run>>

-----------------------------------------------------------------------------
(* The snapshots, the ties and eqy.                                        *)

\* blackbox_stub: of the ROM its ports are left
blackbox_stub(d) == [d EXCEPT !.rom = 0]

\* What RTL_DIRS takes of soc and dependencies as one design; a missing dependency is nothing
Whole(soc, dependencies) ==
  [soc EXCEPT !.design.dep = IF "dependencies" \in RTL_DIRS THEN dependencies.design.dep ELSE 0]

snapshot ==
  /\ phase = "snapshot"
  /\ snapGold' = [Whole(gold[base].soc, gold[base].dependencies) EXCEPT !.design = blackbox_stub(@)]
  /\ snapGate' = [Whole(generated, generated) EXCEPT !.design = blackbox_stub(@)]
  /\ phase' = IF gold[base].soc = NoTree THEN "idle" ELSE "check_ties"
  /\ UNCHANGED <<repo, generated, gold, base, ties, built, verdict>>

\* check_ties: each tied name is an input of the gate's top
TiesInputs == \A n \in DOMAIN ties : n \in Ports /\ snapGate.design.x[n] = "input"

check_ties ==
  /\ phase = "check_ties"
  /\ phase' = IF TiesInputs THEN "eqy" ELSE "idle"
  /\ UNCHANGED <<repo, generated, gold, run>>

\* eqy_config's gate side: each tied port is removed and its net driven by the constant
AtTies(v) == [p \in Ports |-> IF p \in DOMAIN ties THEN ties[p] ELSE v[p]]

Tied(d) ==
  [d EXCEPT !.x = [p \in Ports |-> IF p \in DOMAIN ties THEN "none" ELSE d.x[p]], !.f = [v \in Inputs |-> d.f[AtTies(v)]]]

\* hierarchy -top, prep -flatten: the top with the dependency in it, where it uses one; a module that
\* is used and missing stops yosys
Flat(d) == [f |-> d.f, x |-> d.x, dep |-> IF d.uses THEN d.dep ELSE 0]

Elaborates(d) == d.uses => d.dep # 0

\* eqy proves the two sides equal, with the same ports, or does not get there
Eqy(proved) ==
  /\ phase = "eqy"
  /\ proved => /\ Elaborates(snapGold.design) /\ Elaborates(snapGate.design)
               /\ Flat(snapGold.design) = Flat(Tied(snapGate.design))
  /\ verdict' = IF proved THEN "EQUIVALENT" ELSE "NOT PROVEN EQUIVALENT"
  /\ phase' = "idle"
  /\ UNCHANGED <<repo, generated, gold, base, ties, built, snapGold, snapGate>>

\* A kill at any step leaves the directories as they are
Kill ==
  /\ phase \notin {"idle", "FileExistsError"}
  /\ phase' = "idle" /\ verdict' = "-"
  /\ UNCHANGED <<repo, generated, gold, base, ties, built, snapGold, snapGate>>

-----------------------------------------------------------------------------
(* The developer, between runs.                                            *)

Edit(d) ==
  /\ phase = "idle" /\ changes < MaxChanges /\ wt' = d /\ changes' = changes + 1 /\ verdict' = "-"
  /\ UNCHANGED <<commits, veryl, generated, gold, phase, base, ties, built, snapGold, snapGate>>

Commit ==
  /\ phase = "idle" /\ Len(commits) < MaxCommits /\ commits' = Append(commits, wt) /\ verdict' = "-"
  /\ UNCHANGED <<wt, veryl, changes, generated, gold, phase, base, ties, built, snapGold, snapGate>>

UpdateVeryl(v) ==
  /\ phase = "idle" /\ changes < MaxChanges /\ v > veryl /\ veryl' = v /\ changes' = changes + 1 /\ verdict' = "-"
  /\ UNCHANGED <<commits, wt, generated, gold, phase, base, ties, built, snapGold, snapGate>>

Init ==
  /\ \E d \in Designs : commits = <<d>> /\ wt = d
  /\ veryl = 1 /\ 1 \in Veryls /\ changes = 0
  /\ generated = NoTree /\ gold = [sha \in Shas |-> NoGold]
  /\ phase = "idle" /\ base = 1 /\ ties = NoTies /\ built = NoTree
  /\ snapGold = NoTree /\ snapGate = NoTree /\ verdict = "-"

Script ==
  \/ build_gold \/ CopySoc \/ CopyDependencies \/ Touch \/ snapshot \/ check_ties
  \/ \E proved \in BOOLEAN : Eqy(proved)

Next ==
  \/ Script \/ Kill
  \/ \E sha \in 1..Len(commits), t \in Ties : Start(sha, t)
  \/ (\E d \in Designs : Edit(d)) \/ Commit \/ (\E v \in Veryls : UpdateVeryl(v))

Spec == Init /\ [][Next]_vars

-----------------------------------------------------------------------------
(* Properties.                                                             *)

\* The state's types; a gold directory marked done holds the SoC of its own commit, and of its
\* dependency nothing or what belongs to it, by one veryl
TypeOK ==
  /\ phase \in {"idle", "build_gold", "copy_soc", "copy_dependencies", "touch", "snapshot", "check_ties", "eqy",
                "FileExistsError"}
  /\ verdict \in {"-", "EQUIVALENT", "NOT PROVEN EQUIVALENT"} /\ base \in 1..Len(commits)
  /\ \A sha \in Shas : gold[sha].done =>
       sha <= Len(commits) /\ gold[sha].soc.design = commits[sha] /\ gold[sha].dependencies \in {NoTree, gold[sha].soc}

\* A run that says EQUIVALENT is right about the top of the base commit, with the dependency the commit
\* records where the top uses it, and about the working tree's, the ROM's contents apart: they have the same
\* ports and do the same for all inputs, with each tied port, an input only the working tree has, at its
\* constant; also where gold was generated while Veryl.toml declared another dependency than now
EquivalentMeansIt ==
  verdict = "EQUIVALENT" => LET g == commits[base] IN
    /\ Flat(g).dep = Flat(wt).dep
    /\ \A p \in Ports : IF p \in DOMAIN ties THEN g.x[p] = "none" /\ wt.x[p] = "input" ELSE g.x[p] = wt.x[p]
    /\ \A v \in Inputs : g.f[v] = wt.f[AtTies(v)]

\* What a run that was killed while it filled the cache left is in no later run's way: it does not stop the
\* copy, and it is not compared in the place of the base
NeverInItsOwnWay == phase /= "FileExistsError" /\ (phase \in {"snapshot", "check_ties", "eqy"} => gold[base].done)

\* A gold directory marked done has its commit's dependency; false where the working tree did not declare
\* it when gold was generated, and later runs that need it do not elaborate
GoldIsWhole == \A sha \in Shas : gold[sha].done /\ commits[sha].dep # 0 => gold[sha].dependencies /= NoTree

\* Both sides of a verdict were generated by the installed veryl
SameVeryl == verdict /= "-" => snapGold.by = veryl /\ snapGate.by = veryl
=============================================================================

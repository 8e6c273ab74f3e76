--------------------------- MODULE EqyCheckProofs ---------------------------
(***************************************************************************)
(* What run_eqy.py's verdict means, for any history of edits, commits,     *)
(* bases, ties, updates of veryl and kills.                                *)
(***************************************************************************)
EXTENDS EqyCheck, TLAPS

TreeType == [design : DesignType, by : Nat]
GoldType == [done : BOOLEAN, soc : TreeType, dependencies : TreeType]

StateInv ==
  /\ commits \in Seq(DesignType) /\ Len(commits) <= MaxCommits
  /\ wt \in DesignType /\ veryl \in Nat /\ generated \in TreeType
  /\ gold \in [Shas -> GoldType]
  /\ built \in TreeType /\ snapGold \in TreeType /\ snapGate \in TreeType
  /\ base \in 1..Len(commits)
  /\ verdict \in {"-", "EQUIVALENT", "NOT PROVEN EQUIVALENT"}
  /\ phase \in {"idle", "build_gold", "copy_soc", "copy_dependencies", "touch", "snapshot", "check_ties", "eqy"}

\* A gold directory marked done holds its commit's SoC, and the dependency or nothing of it.
CacheInv ==
  \A sha \in Shas : gold[sha].done =>
    sha <= Len(commits) /\ gold[sha].soc.design = commits[sha] /\ gold[sha].dependencies \in {NoTree, gold[sha].soc}

\* What a run has done of the gold directory when it is killed or goes on: the mark comes last.
FillInv ==
  /\ phase \in {"copy_soc", "copy_dependencies", "touch"} =>
       /\ built.design = commits[base] /\ ~gold[base].done
       /\ phase # "touch" => gold[base].dependencies = NoTree
       /\ phase = "copy_soc" => gold[base].soc = NoTree
       /\ phase # "copy_soc" => gold[base].soc = built
       /\ phase = "touch" => gold[base].dependencies \in {NoTree, built}
  /\ phase \in {"snapshot", "check_ties", "eqy"} => gold[base].done

\* What is compared is of the base and of the working tree, which does not change meanwhile.
RunInv ==
  /\ phase # "idle" => generated.design = wt /\ verdict = "-"
  /\ phase \in {"check_ties", "eqy"} =>
       /\ snapGold.design \in {blackbox_stub(commits[base]), blackbox_stub([commits[base] EXCEPT !.dep = 0])}
       /\ snapGate.design = blackbox_stub(wt)
  /\ phase = "eqy" => TiesInputs

EqyInv == StateInv /\ CacheInv /\ FillInv /\ RunInv /\ EquivalentMeansIt

-----------------------------------------------------------------------------
LEMMA EqyInit ==
  ASSUME EqyAssumption, Init
  PROVE  EqyInv
<1>1. Nothing \in DesignType /\ NoTree \in TreeType /\ NoGold \in GoldType
  BY DEF Nothing, NoTree, NoGold, DesignType, TreeType, GoldType
<1>2. PICK d \in Designs : commits = <<d>> /\ wt = d
  BY DEF Init
<1>3. d \in DesignType
  BY DEF EqyAssumption
<1>4. StateInv
  BY <1>1, <1>2, <1>3 DEF StateInv, Init, EqyAssumption, Shas
<1>5. CacheInv
  BY DEF CacheInv, Init, NoGold
<1> QED
  BY <1>4, <1>5 DEF EqyInv, FillInv, RunInv, EquivalentMeansIt, Init

-----------------------------------------------------------------------------
(* A run's steps.                                                          *)

LEMMA BaseFacts ==
  ASSUME EqyAssumption, StateInv
  PROVE  /\ base \in Shas /\ base <= Len(commits) /\ commits[base] \in DesignType
         /\ gold[base] \in GoldType
<1>1. commits \in Seq(DesignType) /\ base \in 1..Len(commits) /\ Len(commits) <= MaxCommits
  BY Zenon DEF StateInv
<1>2. MaxCommits \in Nat
  BY DEF EqyAssumption
<1>3. Len(commits) \in Nat /\ commits[base] \in DesignType
  BY <1>1
<1>4. base \in Shas /\ base <= Len(commits)
  BY <1>1, <1>2, <1>3 DEF Shas
<1> QED
  BY <1>3, <1>4 DEF StateInv

LEMMA StartStep ==
  ASSUME EqyAssumption, EqyInv, NEW sha \in 1..Len(commits), NEW t \in Ties, Start(sha, t)
  PROVE  EqyInv'
<1>1. NoTree \in TreeType
  BY DEF Nothing, NoTree, DesignType, TreeType
<1>2. StateInv'
  BY <1>1 DEF EqyInv, StateInv, Start, repo, TreeType, EqyAssumption
<1>3. CacheInv'
  BY DEF EqyInv, CacheInv, Start, repo
<1>4. FillInv' /\ RunInv'
  BY DEF EqyInv, FillInv, RunInv, Start, repo
<1> QED
  BY <1>2, <1>3, <1>4 DEF EqyInv, EquivalentMeansIt, Start

\* Exporting the submodules restores what git archive leaves out.
LEMMA ExportWhole ==
  ASSUME NEW sha, commits[sha] \in DesignType
  PROVE  export_path_dependencies(sha, Archive(sha)) = commits[sha]
BY DEF export_path_dependencies, Archive, DesignType

LEMMA BuildStep ==
  ASSUME EqyAssumption, EqyInv, build_gold
  PROVE  EqyInv'
<1> USE DEF EqyInv
<1>1. commits[base] \in DesignType /\ base \in Shas
  BY BaseFacts DEF StateInv
<1>2. CASE Cached(base)
  <2>1. StateInv'
    BY <1>2 DEF StateInv, build_gold, repo
  <2>2. CacheInv'
    BY <1>2 DEF CacheInv, build_gold, repo
  <2>3. FillInv' /\ RunInv' /\ EquivalentMeansIt'
    BY <1>2 DEF FillInv, RunInv, EquivalentMeansIt, build_gold, repo, Cached
  <2> QED
    BY <2>1, <2>2, <2>3
<1>3. CASE ~Cached(base)
  <2>1. built' = [design |-> commits[base], by |-> veryl] /\ built' \in TreeType
    <3>1. built' = [design |-> commits[base], by |-> veryl]
      BY <1>1, <1>3, ExportWhole DEF build_gold
    <3> QED
      BY <1>1, <3>1 DEF TreeType, StateInv
  <2>2. gold' = [gold EXCEPT ![base] = NoGold] /\ phase' = "copy_soc"
    BY <1>3 DEF build_gold, MakeRoom
  <2>3. NoGold \in GoldType
    BY DEF Nothing, NoTree, NoGold, DesignType, TreeType, GoldType
  <2>4. StateInv'
    BY <2>1, <2>2, <2>3 DEF StateInv, build_gold, repo
  <2>5. gold'[base] = NoGold /\ \A sha \in Shas : sha # base => gold'[sha] = gold[sha]
    BY <1>1, <2>2 DEF StateInv
  <2>6. CacheInv'
    BY <2>5 DEF CacheInv, build_gold, repo, NoGold
  <2>7. FillInv'
    BY <2>1, <2>2, <2>5 DEF FillInv, build_gold, repo, NoGold
  <2>8. RunInv' /\ EquivalentMeansIt'
    BY <2>2 DEF RunInv, EquivalentMeansIt, build_gold, repo
  <2> QED
    BY <2>4, <2>6, <2>7, <2>8
<1> QED
  BY <1>2, <1>3

LEMMA CopySocStep ==
  ASSUME EqyAssumption, EqyInv, CopySoc
  PROVE  EqyInv'
<1> USE DEF EqyInv
<1>1. commits[base] \in DesignType /\ base \in Shas /\ gold[base] \in GoldType
  BY BaseFacts DEF StateInv
<1>2. gold[base].soc = NoTree
  BY DEF CopySoc, FillInv
<1>3. /\ phase' = "copy_dependencies"
      /\ gold' = [gold EXCEPT ![base] = [gold[base] EXCEPT !.soc = built]]
  BY <1>2 DEF CopySoc, CopyTree, RTL_DIRS
<1>4. /\ gold'[base] = [gold[base] EXCEPT !.soc = built]
      /\ \A sha \in Shas : sha # base => gold'[sha] = gold[sha]
  BY <1>1, <1>3 DEF StateInv
<1>5. gold'[base] \in GoldType /\ gold'[base].soc = built
      /\ gold'[base].done = gold[base].done /\ gold'[base].dependencies = gold[base].dependencies
  BY <1>1, <1>4 DEF StateInv, GoldType
<1>6. StateInv'
  BY <1>3, <1>5 DEF StateInv, CopySoc, CopyTree, repo, run
<1>7. CacheInv'
  BY <1>4, <1>5 DEF CacheInv, FillInv, CopySoc, CopyTree, repo, run
<1>8. FillInv' /\ RunInv' /\ EquivalentMeansIt'
  BY <1>3, <1>5 DEF FillInv, RunInv, EquivalentMeansIt, CopySoc, CopyTree, repo, run
<1> QED
  BY <1>6, <1>7, <1>8

LEMMA CopyDependenciesStep ==
  ASSUME EqyAssumption, EqyInv, CopyDependencies
  PROVE  EqyInv'
<1> USE DEF EqyInv
<1>1. commits[base] \in DesignType /\ base \in Shas /\ gold[base] \in GoldType /\ built \in TreeType
  BY BaseFacts DEF StateInv
<1>2. gold[base].dependencies = NoTree /\ gold[base].soc = built /\ ~gold[base].done
  BY DEF CopyDependencies, FillInv
<1>3. CASE phase' = "touch" /\ UNCHANGED gold
  <2>1. StateInv'
    BY <1>3 DEF StateInv, CopyDependencies, CopyTree, repo, run
  <2>2. CacheInv'
    BY <1>3 DEF CacheInv, CopyDependencies, CopyTree, repo, run
  <2>3. FillInv'
    BY <1>2, <1>3 DEF FillInv, CopyDependencies, CopyTree, repo, run
  <2>4. RunInv' /\ EquivalentMeansIt'
    BY <1>3 DEF RunInv, EquivalentMeansIt, CopyDependencies, CopyTree, repo, run
  <2> QED
    BY <2>1, <2>2, <2>3, <2>4
<1>4. CASE phase' = "touch" /\ gold' = [gold EXCEPT ![base] = [gold[base] EXCEPT !.dependencies = built]]
  <2>2. /\ gold'[base] = [gold[base] EXCEPT !.dependencies = built]
        /\ \A sha \in Shas : sha # base => gold'[sha] = gold[sha]
    BY <1>1, <1>4 DEF StateInv
  <2>3. gold'[base] \in GoldType /\ gold'[base].dependencies = built
        /\ gold'[base].done = gold[base].done /\ gold'[base].soc = gold[base].soc
    BY <1>1, <2>2 DEF GoldType
  <2>5. StateInv'
    BY <1>4, <2>3 DEF StateInv, CopyDependencies, CopyTree, repo, run
  <2>6. CacheInv'
    BY <1>2, <2>2, <2>3 DEF CacheInv, CopyDependencies, CopyTree, repo, run
  <2>7. FillInv'
    BY <1>2, <1>4, <2>3 DEF FillInv, CopyDependencies, CopyTree, repo, run
  <2>8. RunInv' /\ EquivalentMeansIt'
    BY <1>4 DEF RunInv, EquivalentMeansIt, CopyDependencies, CopyTree, repo, run
  <2> QED
    BY <2>5, <2>6, <2>7, <2>8
<1> QED
  BY <1>2, <1>3, <1>4 DEF CopyDependencies, CopyTree

LEMMA TouchStep ==
  ASSUME EqyAssumption, EqyInv, Touch
  PROVE  EqyInv'
<1> USE DEF EqyInv
<1>1. commits[base] \in DesignType /\ base \in Shas /\ gold[base] \in GoldType /\ base <= Len(commits)
  BY BaseFacts DEF StateInv
<1>2. /\ gold'[base] = [gold[base] EXCEPT !.done = TRUE]
      /\ \A sha \in Shas : sha # base => gold'[sha] = gold[sha]
  BY <1>1 DEF StateInv, Touch
<1>3. gold'[base] \in GoldType /\ gold'[base].dependencies = gold[base].dependencies
      /\ gold'[base].done /\ gold'[base].soc = gold[base].soc
  BY <1>1, <1>2 DEF GoldType
<1>4. gold[base].soc = built /\ built.design = commits[base] /\ gold[base].dependencies \in {NoTree, built}
  BY DEF Touch, FillInv
<1>5. StateInv'
  BY <1>3 DEF StateInv, Touch, repo, run
<1>7. CacheInv'
  BY <1>1, <1>2, <1>3, <1>4 DEF CacheInv, Touch, repo, run
<1>8. FillInv' /\ RunInv' /\ EquivalentMeansIt'
  BY <1>3 DEF FillInv, RunInv, EquivalentMeansIt, Touch, repo, run
<1> QED
  BY <1>5, <1>7, <1>8

LEMMA SnapshotStep ==
  ASSUME EqyAssumption, EqyInv, snapshot
  PROVE  EqyInv'
<1> USE DEF EqyInv
<1>1. commits[base] \in DesignType /\ base \in Shas /\ gold[base] \in GoldType /\ generated \in TreeType
  BY BaseFacts DEF StateInv
<1>2. /\ gold[base].done /\ gold[base].soc.design = commits[base]
      /\ gold[base].dependencies \in {NoTree, gold[base].soc}
  BY <1>1 DEF snapshot, FillInv, CacheInv
<1>3. gold[base].soc \in TreeType /\ gold[base].dependencies \in TreeType
  BY <1>1 DEF GoldType
<1> DEFINE w == Whole(gold[base].soc, gold[base].dependencies)
           h == Whole(generated, generated)
<1>a. w \in TreeType /\ w.design \in {commits[base], [commits[base] EXCEPT !.dep = 0]}
  <2>1. PICK n \in Nat : w = [gold[base].soc EXCEPT !.design.dep = n] /\ n \in {0, commits[base].dep}
    <3>1. gold[base].dependencies.design.dep \in {0, commits[base].dep}
      BY <1>2 DEF NoTree, Nothing
    <3>2. commits[base].dep \in Nat
      BY <1>1 DEF DesignType
    <3> QED
      BY <3>1, <3>2 DEF Whole
  <2>2. gold[base].soc = [design |-> commits[base], by |-> gold[base].soc.by]
    BY <1>2, <1>3 DEF TreeType
  <2>3. w = [design |-> [commits[base] EXCEPT !.dep = n], by |-> gold[base].soc.by]
    BY <2>1, <2>2
  <2>4. [commits[base] EXCEPT !.dep = n] \in {commits[base], [commits[base] EXCEPT !.dep = 0]}
    BY <1>1, <2>1 DEF DesignType
  <2>5. [commits[base] EXCEPT !.dep = n] \in DesignType
    BY <1>1, <2>1 DEF DesignType
  <2> QED
    BY <1>3, <2>3, <2>4, <2>5 DEF TreeType
<1>b. h \in TreeType /\ h.design = wt
  <2>1. generated = [design |-> wt, by |-> generated.by] /\ wt \in DesignType /\ generated.by \in Nat
    BY <1>1 DEF snapshot, RunInv, TreeType, StateInv
  <2>2. (IF "dependencies" \in RTL_DIRS THEN generated.design.dep ELSE 0) = wt.dep
    BY <2>1 DEF RTL_DIRS
  <2>3. h = [generated EXCEPT !.design.dep = wt.dep]
    BY <2>2 DEF Whole
  <2>4. h = [design |-> [wt EXCEPT !.dep = wt.dep], by |-> generated.by]
    BY <2>1, <2>3
  <2>5. [wt EXCEPT !.dep = wt.dep] = wt
    BY <2>1 DEF DesignType
  <2> QED
    BY <2>1, <2>4, <2>5 DEF TreeType
<1>4. /\ snapGold' \in TreeType
      /\ snapGold'.design \in {blackbox_stub(commits[base]), blackbox_stub([commits[base] EXCEPT !.dep = 0])}
  <2> HIDE DEF w
  <2>1. snapGold' = [w EXCEPT !.design = blackbox_stub(@)]
    BY DEF snapshot, w
  <2>2. snapGold'.design = blackbox_stub(w.design)
    BY <1>a, <2>1 DEF TreeType
  <2>3. snapGold' \in TreeType
    BY <1>a, <2>1 DEF TreeType, DesignType, blackbox_stub
  <2> QED
    BY <1>a, <2>2, <2>3
<1>5. snapGate' \in TreeType /\ snapGate'.design = blackbox_stub(wt)
  <2> HIDE DEF h
  <2>1. snapGate' = [h EXCEPT !.design = blackbox_stub(@)]
    BY DEF snapshot, h
  <2> QED
    BY <1>b, <2>1 DEF TreeType, DesignType, blackbox_stub
<1>6. StateInv'
  BY <1>4, <1>5 DEF StateInv, snapshot, repo
<1>7. CacheInv' /\ FillInv'
  BY DEF CacheInv, FillInv, snapshot, repo
<1>8. RunInv' /\ EquivalentMeansIt'
  <2>1. UNCHANGED <<commits, base, wt, generated, verdict>> /\ phase' \in {"idle", "check_ties"}
        /\ phase = "snapshot"
    BY DEF snapshot, repo
  <2> QED
    BY <1>4, <1>5, <2>1 DEF RunInv, EquivalentMeansIt, blackbox_stub
<1> QED
  BY <1>6, <1>7, <1>8

LEMMA CheckTiesStep ==
  ASSUME EqyAssumption, EqyInv, check_ties
  PROVE  EqyInv'
<1> USE DEF EqyInv, check_ties, repo, run
<1>1. StateInv' /\ CacheInv' /\ FillInv'
  BY DEF StateInv, CacheInv, FillInv
<1>2. RunInv' /\ EquivalentMeansIt'
  BY DEF RunInv, EquivalentMeansIt, TiesInputs, blackbox_stub
<1> QED
  BY <1>1, <1>2

LEMMA EqyStep ==
  ASSUME EqyAssumption, EqyInv, NEW proved \in BOOLEAN, Eqy(proved)
  PROVE  EqyInv'
<1> USE DEF EqyInv
<1>1. StateInv' /\ CacheInv' /\ FillInv' /\ RunInv'
  BY DEF StateInv, CacheInv, FillInv, RunInv, Eqy, repo
<1>2. EquivalentMeansIt'
  <2> SUFFICES ASSUME proved PROVE EquivalentMeansIt'
    BY DEF EquivalentMeansIt, Eqy
  <2> DEFINE g == commits[base]
             s == snapGold.design
             t == snapGate.design
  <2>1. g \in DesignType /\ wt \in DesignType
    BY BaseFacts DEF StateInv
  <2>2. /\ Elaborates(s) /\ Elaborates(t) /\ Flat(s) = Flat(Tied(t))
        /\ s \in {blackbox_stub(g), blackbox_stub([g EXCEPT !.dep = 0])} /\ t = blackbox_stub(wt) /\ TiesInputs
    BY DEF Eqy, RunInv
  <2>3. UNCHANGED <<commits, base, wt, ties>>
    BY DEF Eqy, repo
  <2>4. s.f = g.f /\ s.x = g.x /\ s.uses = g.uses /\ s.dep \in {0, g.dep}
    BY <2>1, <2>2 DEF blackbox_stub, DesignType
  <2>5. t.f = wt.f /\ t.x = wt.x /\ t.uses = wt.uses /\ t.dep = wt.dep /\ t \in DesignType
    BY <2>1, <2>2 DEF blackbox_stub, DesignType
  <2> HIDE DEF s, t
  <2>6. /\ Tied(t).f = [v \in Inputs |-> t.f[AtTies(v)]]
        /\ Tied(t).x = [p \in Ports |-> IF p \in DOMAIN ties THEN "none" ELSE t.x[p]]
        /\ Tied(t).uses = t.uses /\ Tied(t).dep = t.dep
    BY <2>5 DEF Tied, DesignType
  <2>7. /\ s.f = Tied(t).f /\ s.x = Tied(t).x
        /\ (IF s.uses THEN s.dep ELSE 0) = (IF Tied(t).uses THEN Tied(t).dep ELSE 0)
    BY <2>2 DEF Flat
  <2>8. Flat(g).dep = Flat(wt).dep
    <3>1. (IF s.uses THEN s.dep ELSE 0) = (IF g.uses THEN g.dep ELSE 0)
      BY <2>2, <2>4 DEF Elaborates
    <3>2. (IF Tied(t).uses THEN Tied(t).dep ELSE 0) = (IF wt.uses THEN wt.dep ELSE 0)
      BY <2>5, <2>6
    <3> QED
      BY <2>7, <3>1, <3>2 DEF Flat
  <2>9. ASSUME NEW p \in Ports
        PROVE  IF p \in DOMAIN ties THEN g.x[p] = "none" /\ wt.x[p] = "input" ELSE g.x[p] = wt.x[p]
    <3>1. g.x = [q \in Ports |-> IF q \in DOMAIN ties THEN "none" ELSE wt.x[q]]
      BY <2>4, <2>5, <2>6, <2>7
    <3>2. p \in DOMAIN ties => wt.x[p] = "input"
      BY <2>2, <2>5 DEF TiesInputs, t
    <3> QED
      BY <3>1, <3>2
  <2>10. ASSUME NEW v \in Inputs PROVE g.f[v] = wt.f[AtTies(v)]
    <3>1. g.f = [u \in Inputs |-> wt.f[AtTies(u)]]
      BY <2>4, <2>5, <2>6, <2>7
    <3> QED
      BY <3>1
  <2> QED
    BY <2>3, <2>8, <2>9, <2>10 DEF EquivalentMeansIt, Flat, AtTies
<1> QED
  BY <1>1, <1>2

-----------------------------------------------------------------------------
(* A kill, and the developer.                                              *)

LEMMA KillStep ==
  ASSUME EqyAssumption, EqyInv, Kill
  PROVE  EqyInv'
BY DEF EqyInv, StateInv, CacheInv, FillInv, RunInv, EquivalentMeansIt, Kill, repo

LEMMA EditStep ==
  ASSUME EqyAssumption, EqyInv, NEW d \in Designs, Edit(d)
  PROVE  EqyInv'
<1>1. d \in DesignType
  BY DEF EqyAssumption
<1> QED
  BY <1>1 DEF EqyInv, StateInv, CacheInv, FillInv, RunInv, EquivalentMeansIt, Edit

LEMMA CommitStep ==
  ASSUME EqyAssumption, EqyInv, Commit
  PROVE  EqyInv'
<1> USE DEF EqyInv
<1>1. /\ commits' \in Seq(DesignType) /\ Len(commits') = Len(commits) + 1
      /\ \A sha \in 1..Len(commits) : commits'[sha] = commits[sha]
  <2>1. commits \in Seq(DesignType) /\ wt \in DesignType /\ commits' = Append(commits, wt)
    BY DEF StateInv, Commit
  <2> HIDE DEF EqyInv
  <2> QED
    BY <2>1
<1>2. /\ base <= Len(commits) /\ Len(commits) \in Nat /\ base \in Nat \ {0}
      /\ Len(commits) < MaxCommits /\ MaxCommits \in Nat
  <2>1. commits \in Seq(DesignType) /\ base \in 1..Len(commits) /\ Len(commits) < MaxCommits
    BY Zenon DEF StateInv, Commit
  <2>2. MaxCommits \in Nat
    BY DEF EqyAssumption
  <2>3. Len(commits) \in Nat
    BY <2>1
  <2> HIDE DEF EqyInv
  <2> QED
    BY <2>1, <2>2, <2>3
<1>3. StateInv'
  <2>1. base' = base /\ base \in 1..Len(commits') /\ Len(commits') <= MaxCommits
    BY <1>1, <1>2 DEF Commit
  <2> QED
    BY <1>1, <2>1 DEF StateInv, Commit
<1>4. CacheInv'
  <2> SUFFICES ASSUME NEW sha \in Shas, gold[sha].done
               PROVE  /\ sha <= Len(commits') /\ gold[sha].soc.design = commits'[sha]
                      /\ gold[sha].dependencies \in {NoTree, gold[sha].soc}
    BY DEF CacheInv, Commit
  <2>1. /\ sha <= Len(commits) /\ gold[sha].soc.design = commits[sha]
        /\ gold[sha].dependencies \in {NoTree, gold[sha].soc}
    BY DEF CacheInv
  <2>2. sha \in 1..Len(commits)
    BY <1>2, <2>1 DEF Shas
  <2> QED
    BY <1>1, <1>2, <2>1, <2>2
<1> QED
  BY <1>3, <1>4 DEF FillInv, RunInv, EquivalentMeansIt, Commit

LEMMA UpdateStep ==
  ASSUME EqyAssumption, EqyInv, NEW v \in Veryls, UpdateVeryl(v)
  PROVE  EqyInv'
<1>1. v \in Nat
  BY DEF EqyAssumption
<1> QED
  BY <1>1 DEF EqyInv, StateInv, CacheInv, FillInv, RunInv, EquivalentMeansIt, UpdateVeryl

LEMMA EqyNext ==
  ASSUME EqyAssumption, EqyInv, [Next]_vars
  PROVE  EqyInv'
<1>1. CASE UNCHANGED vars
  <2> USE <1>1 DEF vars, repo, run, EqyInv
  <2>1. StateInv' /\ CacheInv'
    BY DEF StateInv, CacheInv
  <2>2. FillInv' /\ RunInv' /\ EquivalentMeansIt'
    BY DEF FillInv, RunInv, EquivalentMeansIt, TiesInputs, AtTies, Flat, blackbox_stub
  <2> QED
    BY <2>1, <2>2
<1>2. CASE Next
  BY <1>2, StartStep, BuildStep, CopySocStep, CopyDependenciesStep, TouchStep, SnapshotStep, CheckTiesStep, EqyStep,
     KillStep, EditStep, CommitStep, UpdateStep DEF Next, Script
<1> QED
  BY <1>1, <1>2

-----------------------------------------------------------------------------
\* The invariant of run_eqy.py, for any designs, ties, histories and kills: a gold directory marked done
\* holds the SoC of its commit and of the dependency nothing or what belongs to it, the mark comes last, and
\* what a run compares is the base's, with or without its dependency, and the working tree's.
THEOREM EqyInvariant == ASSUME EqyAssumption PROVE Spec => []EqyInv
<1>1. Init => EqyInv
  BY EqyInit
<1>2. EqyInv /\ [Next]_vars => EqyInv'
  BY EqyNext
<1> QED
  BY <1>1, <1>2, PTL DEF Spec

\* A verdict EQUIVALENT of run_eqy.py is right about the tops of the base commit and of the working tree and
\* the dependency they use, with any number of tied inputs at their constants, whatever Veryl.toml declared
\* when gold was generated; and a killed run's gold directory is never taken for a finished one nor in the way
\* of the next run: for any designs, histories, ties and kills.
THEOREM EquivalentMeansItTheorem ==
  ASSUME EqyAssumption PROVE Spec => [](TypeOK /\ EquivalentMeansIt /\ NeverInItsOwnWay)
<1>1. EqyInv => TypeOK /\ EquivalentMeansIt /\ NeverInItsOwnWay
  BY DEF EqyInv, StateInv, CacheInv, FillInv, TypeOK, NeverInItsOwnWay
<1> QED
  BY <1>1, EqyInvariant, PTL
=============================================================================

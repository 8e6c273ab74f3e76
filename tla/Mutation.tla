------------------------------ MODULE Mutation ------------------------------
(***************************************************************************)
(* scripts/mcy/mutation.py: mutation testing of one RTL module.  setup     *)
(* writes a fresh mcy project, the harness is tested on the unmutated      *)
(* module, mcy runs test_eq and test_sim on every mutant, Jobs at a time,  *)
(* and summarize() writes the score and the survivors.  Between runs the   *)
(* developer adds a test or an ACCEPTED entry for a survivor, replays      *)
(* single mutants and rewrites the summary.                                *)
(*                                                                         *)
(* What a mutant does is a fact of the run: equal (the induction shows     *)
(* it), reached only from reset (only the proof from reset can show it),   *)
(* or a difference the tests miss, catch, hang on, or cannot compile.      *)
(***************************************************************************)
EXTENDS Naturals, FiniteSets

CONSTANTS
  Mutants,      \* mcy's mutations; 1 is its no-op
  Kinds,        \* the modules: see hasReset and NO_EQUIV below
  Effects,
  ProofTimes,   \* [sound, vacuous -> the times a proof from reset may take]
  describe,     \* [Mutants -> descriptions]; without cell numbers, two mutants may share one
  JobsOption,   \* --jobs
  Tries,        \* EQ_SELFTEST_TRIES
  Edits         \* how often the developer changes tests or ACCEPTED

\* What the code takes for granted of its parameters.
MutationAssumption ==
  /\ Mutants \in SUBSET (Nat \ {0}) /\ 1 \in Mutants
  /\ JobsOption \in Nat \ {0} /\ Tries \in Nat \ {0} /\ Edits \in Nat

VARIABLES
  kind, effect, proofTime, model, harness,        \* facts: the module, its mutants, whether the harness works
  phase, eqReset, task, resultEq, resultSim, tag, \* the run: where main() is, eq_reset.ys, mcy's tasks and database
  accepted,                                       \* ACCEPTED: <<description, the mutant its reason is about>>
  summary, replayed, edits

facts == <<kind, proofTime, model, harness>>
database == <<resultEq, resultSim, tag>>
vars == <<facts, effect, phase, eqReset, task, database, accepted, summary, replayed, edits>>

None == "-"
NoSummary == [tags |-> [m \in Mutants |-> None], open |-> {}, explained |-> {}, stale |-> {}, whole |-> FALSE, written |-> FALSE]
hasReset == kind \in {"clocked", "unified_cpu"}
NO_EQUIV == kind = "cache"
EquivalentEffects == {"equal", "unreached"}

-----------------------------------------------------------------------------
(* The test scripts.                                                       *)

EQ_TIMEOUT_S == {"quick", "slow"}        \* the proofs that end within 150 s
SELFTEST_TIMEOUT_S == {"quick"}          \* and within the 30 s of selftest_eq

Verdict(ok) == IF ok THEN "PASS" ELSE "FAIL"

\* reset_equiv: no eq_reset.ys, a proof out of time or memory, or a counterexample is not shown equivalent
reset_equiv(m, limit) ==
  /\ eqReset
  /\ proofTime[m] \in limit
  /\ model = "vacuous" \/ effect[m] \in EquivalentEffects

test_eq(m) ==
  IF NO_EQUIV THEN Verdict(m = 1)
  ELSE Verdict(effect[m] = "equal" \/ reset_equiv(m, EQ_TIMEOUT_S))

\* The unit tests on a mutant that compiles; a run past SIM_TIMEOUT_S fails
unit_tests(m) == Verdict(harness = "works" /\ effect[m] \notin {"caught", "hangs"})

\* The riscv-tests of unified_cpu, after unit tests that passed; RISCV_TESTS regenerates files all
\* tasks share, so it only has a result of its own while no other task is in the middle of it
RISCV_TESTS(m, alone) == Verdict(effect[m] /= "isa" /\ alone)

-----------------------------------------------------------------------------
(* main(): setup, mcy init, the self-tests, mcy run, summarize.            *)

JobsFor == IF kind = "unified_cpu" THEN 1 ELSE JobsOption

\* setup: the project of the last run is removed, its summary with it
setup ==
  /\ phase \in {"start", "done", "stopped"}
  /\ phase' = "init"
  /\ eqReset' = FALSE
  /\ task' = [m \in Mutants |-> None]
  /\ resultEq' = [m \in Mutants |-> None] /\ resultSim' = [m \in Mutants |-> None]
  /\ tag' = [m \in Mutants |-> None]
  /\ summary' = NoSummary
  /\ replayed' = [m \in Mutants |-> None]
  /\ UNCHANGED <<facts, effect, accepted, edits>>

\* selftest: the unmutated module through test_sim.sh (after mcy init); it must pass
selftest ==
  /\ phase = "init"
  /\ phase' = IF unit_tests(1) = "FAIL" THEN "stopped" ELSE IF ~NO_EQUIV THEN "write_eq_reset" ELSE "run"
  /\ UNCHANGED <<facts, effect, eqReset, task, database, accepted, summary, replayed, edits>>

write_eq_reset ==
  /\ phase = "write_eq_reset"
  /\ eqReset' = hasReset
  /\ phase' = IF hasReset THEN "selftest_eq" ELSE "run"
  /\ UNCHANGED <<facts, effect, task, database, accepted, summary, replayed, edits>>

Tried == {m \in Mutants \ {1} : Cardinality({n \in Mutants \ {1} : n < m}) < Tries}

\* As it would be: only the original against itself
selftest_eqOriginal ==
  /\ phase = "selftest_eq"
  /\ phase' = IF reset_equiv(1, EQ_TIMEOUT_S) THEN "run" ELSE "stopped"
  /\ UNCHANGED <<facts, effect, eqReset, task, database, accepted, summary, replayed, edits>>

selftest_eq ==
  /\ phase = "selftest_eq"
  /\ phase' = IF /\ reset_equiv(1, EQ_TIMEOUT_S)
                 /\ \E m \in Tried : ~reset_equiv(m, SELFTEST_TIMEOUT_S)
              THEN "run" ELSE "stopped"
  /\ UNCHANGED <<facts, effect, eqReset, task, database, accepted, summary, replayed, edits>>

-----------------------------------------------------------------------------
(* mcy run: at most JobsFor tasks at a time; [logic] of CONFIG asks for    *)
(* test_eq, then for test_sim of a mutant that is not shown equivalent.    *)

Running == {m \in Mutants : task[m] /= None}

runTask(m, t) ==
  /\ phase = "run" /\ tag[m] = None /\ task[m] = None
  /\ Cardinality(Running) < JobsFor
  /\ task' = [task EXCEPT ![m] = t]
  /\ UNCHANGED <<facts, effect, phase, eqReset, database, accepted, summary, replayed, edits>>

StartEq(m) == resultEq[m] = None /\ runTask(m, "eq")

StartSim(m) == resultEq[m] = "FAIL" /\ runTask(m, "sim")

EndEq(m) ==
  /\ task[m] = "eq"
  /\ resultEq' = [resultEq EXCEPT ![m] = test_eq(m)]
  /\ tag' = IF test_eq(m) = "PASS" THEN [tag EXCEPT ![m] = "EQUIVALENT"] ELSE tag
  /\ task' = [task EXCEPT ![m] = None]
  /\ UNCHANGED <<facts, effect, phase, eqReset, resultSim, accepted, summary, replayed, edits>>

\* Not compiling ends the script without a result, and mcy stops; what it has tagged stays in its database
NotCompiling(m) ==
  /\ task[m] = "sim" /\ effect[m] = "nocompile"
  /\ phase' = "stopped" /\ task' = [n \in Mutants |-> None]
  /\ UNCHANGED <<facts, effect, eqReset, database, accepted, summary, replayed, edits>>

\* [logic]: the tag of a mutant with this result of test_sim
Tagged(m, result) ==
  /\ resultSim' = [resultSim EXCEPT ![m] = result]
  /\ tag' = [tag EXCEPT ![m] = IF result = "FAIL" THEN "DETECTED" ELSE "SURVIVED"]
  /\ task' = [task EXCEPT ![m] = None]

\* The unit tests end; unified_cpu's task goes on to the riscv-tests if they passed
EndUnit(m) ==
  /\ task[m] = "sim" /\ effect[m] /= "nocompile"
  /\ IF kind = "unified_cpu" /\ unit_tests(m) = "PASS"
     THEN task' = [task EXCEPT ![m] = "riscv"] /\ UNCHANGED <<resultSim, tag>>
     ELSE Tagged(m, unit_tests(m))
  /\ UNCHANGED <<facts, effect, phase, eqReset, resultEq, accepted, summary, replayed, edits>>

EndRiscvTests(m) ==
  /\ task[m] = "riscv"
  /\ Tagged(m, RISCV_TESTS(m, \A n \in Mutants \ {m} : task[n] /= "riscv"))
  /\ UNCHANGED <<facts, effect, phase, eqReset, resultEq, accepted, summary, replayed, edits>>

\* The developer stops the run
Interrupt ==
  /\ phase = "run"
  /\ phase' = "stopped" /\ task' = [m \in Mutants |-> None]
  /\ UNCHANGED <<facts, effect, eqReset, database, accepted, summary, replayed, edits>>

-----------------------------------------------------------------------------
(* summarize(): the tags of the database, and of the survivors the ones    *)
(* whose description has an ACCEPTED entry apart from the open ones.       *)

Descriptions == {a[1] : a \in accepted}

Summary ==
  LET survivors == {m \in Mutants : tag[m] = "SURVIVED"}
      explained == {m \in survivors : describe[m] \in Descriptions}
  IN  [tags |-> tag, open |-> survivors \ explained, explained |-> explained,
       stale |-> Descriptions \ {describe[m] : m \in explained},
       whole |-> \A m \in Mutants : tag[m] /= None, written |-> TRUE]

\* At the end of mcy run: no mutant is left without a tag
summarize ==
  /\ phase = "run" /\ \A m \in Mutants : tag[m] /= None
  /\ phase' = "done"
  /\ summary' = Summary
  /\ UNCHANGED <<facts, effect, eqReset, task, database, accepted, replayed, edits>>

\* main --summarize: the database of the last run, whole or stopped
Resummarize ==
  /\ phase \in {"done", "stopped"}
  /\ summary' = Summary
  /\ UNCHANGED <<facts, effect, phase, eqReset, task, database, accepted, replayed, edits>>

\* main --replay: test_sim.sh on one mutant of the last run's project, which leaves its database alone
replay(m) ==
  /\ phase \in {"done", "stopped"} /\ effect[m] /= "nocompile"
  /\ replayed' = [replayed EXCEPT ![m] = IF kind = "unified_cpu" /\ unit_tests(m) = "PASS"
                                         THEN RISCV_TESTS(m, TRUE) ELSE unit_tests(m)]
  /\ UNCHANGED <<facts, effect, phase, eqReset, task, database, accepted, summary, edits>>

-----------------------------------------------------------------------------
(* The developer, for an open survivor of the summary.                     *)

\* A test that fails on it
AddTest(m) ==
  /\ phase = "done" /\ m \in summary.open /\ edits < Edits
  /\ effect[m] \in {"untested", "isa"}
  /\ effect' = [effect EXCEPT ![m] = "caught"]
  /\ edits' = edits + 1 /\ replayed' = [replayed EXCEPT ![m] = None]
  /\ UNCHANGED <<facts, phase, eqReset, task, database, accepted, summary>>

\* An ACCEPTED entry with its reason: the mutant is equivalent after all
Accept(m) ==
  /\ phase = "done" /\ m \in summary.open /\ edits < Edits
  /\ effect[m] \in EquivalentEffects
  /\ accepted' = accepted \cup {<<describe[m], m>>}
  /\ edits' = edits + 1
  /\ UNCHANGED <<facts, effect, phase, eqReset, task, database, summary, replayed>>

-----------------------------------------------------------------------------
Init ==
  /\ kind \in Kinds
  /\ effect \in {e \in [Mutants -> Effects] : e[1] = "equal"}
  /\ model \in DOMAIN ProofTimes
  /\ model = "vacuous" => hasReset
  /\ proofTime \in [Mutants -> IF hasReset THEN ProofTimes[model] ELSE {"quick"}]
  /\ harness \in {"works", "broken"}
  /\ phase = "start" /\ eqReset = FALSE
  /\ task = [m \in Mutants |-> None]
  /\ resultEq = [m \in Mutants |-> None] /\ resultSim = [m \in Mutants |-> None]
  /\ tag = [m \in Mutants |-> None]
  /\ accepted = {} /\ summary = NoSummary /\ replayed = [m \in Mutants |-> None] /\ edits = 0

Script ==
  \/ selftest \/ write_eq_reset \/ selftest_eq \/ summarize
  \/ \E m \in Mutants : StartEq(m) \/ EndEq(m) \/ StartSim(m) \/ NotCompiling(m) \/ EndUnit(m) \/ EndRiscvTests(m)

Developer ==
  \/ setup \/ Interrupt \/ Resummarize
  \/ \E m \in Mutants : replay(m) \/ AddTest(m) \/ Accept(m)

Next == Script \/ Developer

\* main() and mcy go on while they can; the developer need do nothing
Spec == Init /\ [][Next]_vars /\ WF_vars(Script)

-----------------------------------------------------------------------------
(* Properties.                                                             *)

Tags == {None, "EQUIVALENT", "DETECTED", "SURVIVED"}

\* The state's types; never more tasks than --jobs, and no survivor both open and accepted
TypeOK ==
  /\ kind \in Kinds /\ effect \in [Mutants -> Effects]
  /\ phase \in {"start", "init", "write_eq_reset", "selftest_eq", "run", "done", "stopped"}
  /\ eqReset \in BOOLEAN
  /\ task \in [Mutants -> {None, "eq", "sim", "riscv"}] /\ Cardinality(Running) <= JobsOption
  /\ resultEq \in [Mutants -> {None, "PASS", "FAIL"}] /\ resultSim \in [Mutants -> {None, "PASS", "FAIL"}]
  /\ tag \in [Mutants -> Tags] /\ replayed \in [Mutants -> {None, "PASS", "FAIL"}]
  /\ accepted \subseteq (({describe[m] : m \in Mutants}) \X Mutants)
  /\ summary.tags \in [Mutants -> Tags] /\ summary.open \cap summary.explained = {}
  /\ edits \in 0..Edits

\* A mutant counted as detected differs from the module and the tests of that run saw it: no broken
\* harness, no mutant that only failed to compile, no two riscv-tests runs in one build directory
DetectedByATest ==
  \A m \in Mutants : summary.tags[m] = "DETECTED" =>
    effect[m] \in {"caught", "hangs"} \cup (IF kind = "unified_cpu" THEN {"isa"} ELSE {})

\* selftest_eq takes a proof that ran out of its 30 s for a counterexample: a model that proves anything gets
\* past it exactly when a mutant it tried had no proof in that time
SelftestFooled == model = "vacuous" /\ \E n \in Tried : proofTime[n] \notin SELFTEST_TIMEOUT_S

\* A mutant left out of the score as equivalent is equivalent, also when the proof from reset proves anything,
\* unless the self-test was fooled
EquivalentIsEquivalent ==
  \A m \in Mutants : summary.tags[m] = "EQUIVALENT" => effect[m] \in EquivalentEffects \/ SelftestFooled

\* A run that ended by itself scored every mutant; nothing it found is missing from its summary
ScoresEveryMutant ==
  phase = "done" =>
    /\ summary.whole
    /\ \A m \in Mutants :
         \/ summary.tags[m] \in {"DETECTED", "EQUIVALENT"}
         \/ m \in summary.open \cup summary.explained

\* A survivor listed as accepted is as harmless as the entry's reason says, unless the reason is about
\* another mutant with the same description
AcceptedForItsReason ==
  \A m \in summary.explained :
    \/ effect[m] \in EquivalentEffects
    \/ \E n \in Mutants \ {m} : describe[n] = describe[m] /\ <<describe[n], n>> \in accepted

\* Replaying a mutant alone gives the verdict the run gave it, as long as its tests are the same:
\* one that survived in the parallel run survives alone, one that was detected is detected, and one that was
\* shown equivalent by a sound proof passes
ReplayAgrees ==
  \A m \in Mutants :
    /\ replayed[m] = "FAIL" => \/ tag[m] \notin {"SURVIVED", "EQUIVALENT"}
                               \/ effect[m] = "caught"
                               \/ tag[m] = "EQUIVALENT" /\ SelftestFooled
    /\ replayed[m] = "PASS" => tag[m] /= "DETECTED"

\* A run of mcy is under way; it is over, with a summary or stopped.
RunUnderWay == phase = "run"
RunOver == phase \in {"done", "stopped"}

\* A run ends, with a summary or stopped, also when a mutant's tests hang
RunEnds == RunUnderWay ~> RunOver
=============================================================================

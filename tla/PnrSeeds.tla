------------------------------- MODULE PnrSeeds -------------------------------
(***************************************************************************)
(* scripts/run_pnr.py: nextpnr once per candidate seed, several in         *)
(* parallel; the seeds are judged as they finish, a closing or a hopeless  *)
(* one stops the others, and the best finished seed is adopted.  SIGTERM   *)
(* (make's, on an interrupt) may arrive anywhere.  scripts/timing_summary  *)
(* reads the per-seed reports afterwards (make timing).                    *)
(* External: a nextpnr child ends with a report of some slack, fails, or   *)
(* ends with a report that cannot be read; a killed one writes nothing.    *)
(***************************************************************************)
EXTENDS Integers, Sequences, FiniteSets

CONSTANTS
    Seeds,       \* the candidate seeds in the order of the command line, no seed twice
    MaxJobs,     \* --jobs
    AbortSlack,  \* --abort-slack
    AllSeeds,    \* --all-seeds
    Slacks,      \* worst slacks a report may have (integers, 0: timing just met)
    Signals      \* whether SIGTERM may arrive

\* What the code takes for granted of its parameters.
PnrAssumption ==
    /\ Seeds \in Seq(Nat) /\ \A i, j \in 1..Len(Seeds) : Seeds[i] = Seeds[j] => i = j
    /\ MaxJobs \in Nat \ {0} /\ AbortSlack \in Int /\ Slacks \subseteq Int
    /\ AllSeeds \in BOOLEAN /\ Signals \in BOOLEAN

SeedSet == {Seeds[i] : i \in 1..Len(Seeds)}
Place(s) == CHOOSE i \in 1..Len(Seeds) : Seeds[i] = s
\* What a child leaves: a timing report with its worst slack, one that cannot be read, nothing
Outcomes == [kind: {"report"}, slack: Slacks] \cup [kind: {"unreadable", "failed"}, slack: {0}]
NoSlack == 1000000                       \* results[seed] = None
Previous == [run |-> 0, seed |-> 0]       \* what an earlier run left

VARIABLES
    pc,
    pending,  \* seeds not started, in order
    spawned,  \* a child subprocess.Popen has started and running does not hold yet
    running,  \* the keys of running: the children the `finally` knows
    child,    \* [seed -> "none", "alive", "ended" or "killed"]
    outcome,  \* [seed -> what the child leaves when it ends]
    results,  \* [judged seeds -> slack or NoSlack]
    stop,     \* stop_reason is not None
    sta,      \* [seed -> its soc_sta.json: "none", "old", "older" than soc.json, or "new"]
    out,      \* what --write, --report and --seed-info hold: [run, seed]
    summary   \* timing_summary's seeds and best seed
vars == <<pc, pending, spawned, running, child, outcome, results, stop, sta, out, summary>>

NoSummary == [seeds |-> {}, best |-> 0]

Init ==
    /\ pc = "loop" /\ pending = Seeds /\ spawned = {} /\ running = {}
    /\ child = [s \in SeedSet |-> "none"]
    /\ outcome \in [SeedSet -> Outcomes]
    /\ results = <<>> /\ stop = FALSE
    /\ \E old \in {"none", "old", "older"} : sta = [s \in SeedSet |-> old]
    /\ out = [write |-> Previous, report |-> Previous, info |-> Previous]
    /\ summary = NoSummary

\* A nextpnr child comes to its end by itself
ChildEnds(s) ==
    /\ child[s] = "alive"
    /\ child' = [child EXCEPT ![s] = "ended"]
    /\ sta' = [sta EXCEPT ![s] = IF outcome[s].kind = "failed" THEN @ ELSE "new"]
    /\ UNCHANGED <<pc, pending, spawned, running, outcome, results, stop, out, summary>>

CanStart == pending # <<>> /\ Cardinality(running) < MaxJobs /\ ~stop

\* start(): the seed's directory is made anew and the child started ...
Start ==
    /\ pc = "loop" /\ spawned = {} /\ CanStart
    /\ pending' = Tail(pending)
    /\ spawned' = {Head(pending)}
    /\ child' = [child EXCEPT ![Head(pending)] = "alive"]
    /\ sta' = [sta EXCEPT ![Head(pending)] = "none"]
    /\ UNCHANGED <<pc, running, outcome, results, stop, out, summary>>

\* ... and then noted in running
Note ==
    /\ pc = "loop" /\ spawned # {}
    /\ running' = running \cup spawned
    /\ spawned' = {}
    /\ UNCHANGED <<pc, pending, child, outcome, results, stop, sta, out, summary>>

\* get_timing_info and what the loop does with it
Closes(s) == outcome[s].kind = "report" /\ outcome[s].slack >= 0
Hopeless(s) == outcome[s].kind = "report" /\ ~AllSeeds /\ outcome[s].slack < AbortSlack
SlackOf(s) == IF outcome[s].kind = "report" THEN outcome[s].slack ELSE NoSlack
StopsTheRest(s) == (Closes(s) /\ ~AllSeeds) \/ Hopeless(s)

\* As it would be: the children left are forgotten, not terminated
JudgeLeavesTheRest ==
    /\ pc = "loop" /\ spawned = {} /\ ~CanStart /\ running # {}
    /\ LET ended == {s \in running : child[s] = "ended"}
           halt  == stop \/ \E s \in ended : StopsTheRest(s)
       IN  /\ ended # {}
           /\ results' = [s \in DOMAIN results \cup ended |-> IF s \in ended THEN SlackOf(s) ELSE results[s]]
           /\ stop' = halt
           /\ running' = IF halt THEN {} ELSE running \ ended
           /\ pending' = IF halt THEN <<>> ELSE pending
    /\ UNCHANGED <<pc, spawned, child, outcome, sta, out, summary>>
\* One look at the children a second: those that have ended are judged, in the order they
\* were started; when one stops the search the others are terminated in the same pass
Judge ==
    /\ pc = "loop" /\ spawned = {} /\ ~CanStart /\ running # {}
    /\ LET ended == {s \in running : child[s] = "ended"}
           left  == running \ ended
           halt  == stop \/ \E s \in ended : StopsTheRest(s)
       IN  /\ ended # {}
           /\ results' = [s \in DOMAIN results \cup ended |-> IF s \in ended THEN SlackOf(s) ELSE results[s]]
           /\ stop' = halt
           /\ running' = IF halt THEN {} ELSE left
           /\ pending' = IF halt THEN <<>> ELSE pending
           /\ child' = [s \in SeedSet |-> IF halt /\ s \in left /\ child[s] = "alive" THEN "killed" ELSE child[s]]
    /\ UNCHANGED <<pc, spawned, outcome, sta, out, summary>>

Finished == {s \in DOMAIN results : results[s] # NoSlack}
LeaveLoop ==
    /\ pc = "loop" /\ spawned = {} /\ ~CanStart /\ running = {}
    /\ pc' = IF Finished = {} THEN "no_result" ELSE "write"
    /\ UNCHANGED <<pending, spawned, running, child, outcome, results, stop, sta, out, summary>>

\* max by (slack, -index): ties go to the seed listed first
Better(s, t) == results[s] > results[t] \/ (results[s] = results[t] /\ Place(s) < Place(t))
Best == CHOOSE s \in Finished : \A t \in Finished \ {s} : Better(s, t)

Adopt(file, here, next) ==
    /\ pc = here
    /\ out' = [out EXCEPT ![file] = [run |-> 1, seed |-> Best]]
    /\ pc' = next
    /\ UNCHANGED <<pending, spawned, running, child, outcome, results, stop, sta, summary>>
CopyPnr == Adopt("write", "write", "report")
CopySta == Adopt("report", "report", "info")
WriteInfo == Adopt("info", "info", "done")

\* SIGTERM becomes SystemExit: the `finally` kills what running holds
Sigterm ==
    /\ Signals /\ pc \in {"loop", "write", "report", "info"}
    /\ pc' = "signalled"
    /\ child' = [s \in SeedSet |-> IF s \in running /\ child[s] = "alive" THEN "killed" ELSE child[s]]
    /\ running' = {}
    /\ UNCHANGED <<pending, spawned, outcome, results, stop, sta, out, summary>>

\* timing_summary.py: the reports of the seeds that are not older than soc.json; one it
\* cannot read ends it with an exception
Reports == {s \in SeedSet : sta[s] \in {"old", "new"}}
Summarize ==
    /\ pc = "done" /\ AllSeeds /\ summary = NoSummary
    /\ Reports # {} /\ \A s \in Reports : sta[s] = "new" => outcome[s].kind # "unreadable"
    /\ summary' = [seeds |-> Reports,
                   best |-> CHOOSE s \in Reports : \A t \in Reports \ {s} :
                        \/ SlackOf(s) > SlackOf(t)
                        \/ SlackOf(s) = SlackOf(t) /\ Place(s) < Place(t)]
    /\ UNCHANGED <<pc, pending, spawned, running, child, outcome, results, stop, sta, out>>

Main == Start \/ Note \/ Judge \/ LeaveLoop \/ CopyPnr \/ CopySta \/ WriteInfo
Next == Main \/ (\E s \in SeedSet : ChildEnds(s)) \/ Sigterm \/ Summarize

\* The script runs on, and place and route ends
Fairness == WF_vars(Main) /\ \A s \in SeedSet : WF_vars(ChildEnds(s))
Spec == Init /\ [][Next]_vars /\ Fairness

(***************************************************************************)
(* Properties                                                              *)
(***************************************************************************)
\* Every variable keeps its type.
TypeOK ==
    /\ pc \in {"loop", "write", "report", "info", "done", "no_result", "signalled"}
    /\ running \subseteq SeedSet /\ Cardinality(running) <= MaxJobs /\ spawned \subseteq SeedSet
    /\ child \in [SeedSet -> {"none", "alive", "ended", "killed"}]
    /\ DOMAIN results \subseteq SeedSet /\ \A s \in DOMAIN results : results[s] \in Slacks \cup {NoSlack}
    /\ sta \in [SeedSet -> {"none", "old", "older", "new"}]
    /\ \A f \in DOMAIN out : out[f] = Previous \/ out[f] = [run |-> 1, seed |-> out[f].seed]

\* What is adopted is the best of the seeds that finished, the one listed first of equals:
\* in particular a seed that met timing is never passed over for one that did not, whatever
\* else finished in the same second.
AdoptsTheBest ==
    pc = "done" =>
        \A s \in DOMAIN results : results[s] # NoSlack =>
            /\ results[out.write.seed] >= results[s]
            /\ results[out.write.seed] = results[s] => Place(out.write.seed) <= Place(s)

\* --all-seeds: "no early stop of any kind".  Without it a seed is left unjudged only when
\* one that was judged closed or was hopeless.
EarlyStopHasAReason ==
    pc \in {"done", "no_result"} /\ DOMAIN results # SeedSet =>
        ~AllSeeds /\ \E s \in DOMAIN results :
            results[s] # NoSlack /\ (results[s] >= 0 \/ results[s] < AbortSlack)

\* run_pnr.py's opening comment: "the routed design is always traceable to a seed".
Traceable ==
    pc \in {"done", "no_result", "signalled"} => out.write = out.report /\ out.report = out.info

\* No nextpnr outlives the script ("so the `finally` below kills the nextpnr children too").
NoOrphans == pc \in {"done", "no_result", "signalled"} => \A s \in SeedSet : child[s] # "alive"

\* A child that outlives the script is one SIGTERM found started and not yet in running.
OnlyUnnotedSurvive ==
    pc \in {"done", "no_result", "signalled"} => \A s \in SeedSet : child[s] = "alive" => s \in spawned

\* make timing: the summary is of this run's seeds, and its best seed is the adopted one.
SummaryOfThisRun ==
    summary # NoSummary => summary.seeds = Finished /\ summary.best = out.write.seed

\* run_pnr.py has ended.
Ended == pc \in {"done", "no_result", "signalled"}

\* The search comes to an end.
Ends == <>Ended
=============================================================================

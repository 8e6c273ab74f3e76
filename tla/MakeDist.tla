------------------------------ MODULE MakeDist ------------------------------
(***************************************************************************)
(* scripts/make_dist.py assembles build/dist from the working tree and     *)
(* from what was built, and scripts/check_dist.py decides whether a tree   *)
(* of that kind is whole.  The developer moves between commits, builds or  *)
(* forgets to, runs make_dist, which may be killed at any step, and checks *)
(* whatever is there.                                                      *)
(*                                                                         *)
(* A file's content is the commit it was made of, whether it was written   *)
(* to its end, and whether its links were rewritten.                       *)
(***************************************************************************)
EXTENDS Naturals, SequencesExt

CONSTANTS
  Commits,
  FILES,           \* per commit: the names in make_dist.FILES
  Stage2Version,   \* per commit: STAGE2_VERSION in firmware/stage2/src/main.rs
  Built,           \* the names that come from build/, the others from the tree
  MaxMoves         \* checkouts

VARIABLES
  head, build, moves,    \* the commit checked out; per built name the commit it was built of, 0: not there
  dist, sums,            \* build/dist without SHA256SUMS; SHA256SUMS: [there, of]
  phase, todo, opened,   \* make_dist: what is left to do; opened: the file of this step is truncated
  verdict

repo == <<head, build, moves>>
tree == <<dist, sums>>
vars == <<repo, tree, phase, todo, opened, verdict>>

Names == UNION {FILES[c] : c \in Commits} \cup {"bsp", "THIRD_PARTY_LICENSES", "MANIFEST"}
Contents == [of : Commits, whole : BOOLEAN, links : {"../README.md", "github", "none"}]
Nothing == [x \in {} |-> 0]

-----------------------------------------------------------------------------
(* make_dist.main().                                                       *)

\* As it would be: the sums are taken before the manifest is written
StepsSumsFirst == <<"guide", "bsp", "THIRD_PARTY_LICENSES", "SHA256SUMS", "MANIFEST">>

\* The generated files, in the order of main()
Steps == <<"guide", "bsp", "THIRD_PARTY_LICENSES", "MANIFEST", "SHA256SUMS">>

\* The commit whose content a copied name gets, 0 when it was never built
Source(f) == IF f \in Built THEN build[f] ELSE head

\* What is to be done after the rmtree: the copies in the order of FILES, then the generated files
Jobs == LET names == SetToSeq(FILES[head]) IN
        [i \in 1..Len(names) |-> <<"copy", names[i]>>] \o [i \in 1..Len(Steps) |-> <<"write", Steps[i]>>]

Missing == \E f \in FILES[head] : Source(f) = 0

MakeDist ==
  /\ phase = "idle" /\ verdict' = "-"
  /\ IF Missing
     THEN UNCHANGED <<phase, todo>>
     ELSE phase' = "rmtree" /\ todo' = Jobs
  /\ UNCHANGED <<repo, tree, opened>>

\* One entry after the other, in the order of the directory
Rmtree ==
  /\ phase = "rmtree"
  /\ \/ \E f \in DOMAIN dist : dist' = Restrict(dist, DOMAIN dist \ {f}) /\ UNCHANGED <<sums, phase>>
     \/ sums.there /\ sums' = [there |-> FALSE, of |-> Nothing] /\ UNCHANGED <<dist, phase>>
     \/ dist = Nothing /\ ~sums.there /\ phase' = "write" /\ UNCHANGED tree
  /\ UNCHANGED <<repo, todo, opened, verdict>>

\* A file is opened for writing, which leaves it empty, and then has its content
Opened == opened' = ~opened /\ todo' = IF opened THEN Tail(todo) ELSE todo

\* copyfile; for the guide once more with its links rewritten, for the others what the script generates
ContentOf(job) ==
  [of |-> IF job[1] = "copy" THEN Source(job[2]) ELSE head, whole |-> opened,
   links |-> IF job[2] /= "guide" THEN "none" ELSE IF job[1] = "copy" THEN "../README.md" ELSE "github"]

WriteFile ==
  /\ phase = "write" /\ todo /= <<>> /\ Head(todo)[2] /= "SHA256SUMS"
  /\ LET f == Head(todo)[2] IN
     dist' = [g \in DOMAIN dist \cup {f} |-> IF g = f THEN ContentOf(Head(todo)) ELSE dist[g]]
  /\ Opened
  /\ UNCHANGED <<repo, sums, phase, verdict>>

\* The sums of every other file, opened and then written in one piece
WriteSums ==
  /\ phase = "write" /\ todo /= <<>> /\ Head(todo)[2] = "SHA256SUMS"
  /\ sums' = [there |-> TRUE, of |-> IF opened THEN dist ELSE Nothing]
  /\ Opened
  /\ UNCHANGED <<repo, dist, phase, verdict>>

Finished == phase = "write" /\ todo = <<>> /\ phase' = "done" /\ UNCHANGED <<repo, tree, todo, opened, verdict>>

Return == phase = "done" /\ phase' = "idle" /\ UNCHANGED <<repo, tree, todo, opened, verdict>>

Kill ==
  /\ phase \in {"rmtree", "write"}
  /\ phase' = "idle" /\ todo' = <<>> /\ opened' = FALSE
  /\ UNCHANGED <<repo, tree, verdict>>

-----------------------------------------------------------------------------
(* check_dist.main().                                                      *)

\* REQUIRED, and MANIFEST.json
REQUIRED == FILES[head] \cup {"bsp", "THIRD_PARTY_LICENSES", "MANIFEST"}

\* SHA256SUMS lists exactly what is there, with its hash, and what is required is there
check_sums ==
  /\ sums.there
  /\ DOMAIN sums.of = DOMAIN dist
  /\ \A f \in DOMAIN dist : sums.of[f] = dist[f]
  /\ REQUIRED \subseteq DOMAIN dist

\* The manifest and the archive can be read; STAGE2.BIN's header has the manifest's version
check_manifest ==
  /\ dist["MANIFEST"].whole /\ dist["STAGE2"].whole /\ dist["bsp"].whole
  /\ Stage2Version[dist["STAGE2"].of] = Stage2Version[dist["MANIFEST"].of]

\* The examples are in the guide and no link leads to the repository's README
check_guide == dist["guide"].whole /\ dist["guide"].links /= "../README.md"

\* The demos run from a copy of the tree: what they use is whole
run_demos == \A f \in DOMAIN dist \cap Built : dist[f].whole

Accepts == check_sums /\ check_manifest /\ check_guide /\ run_demos

CheckDist ==
  /\ phase = "idle" /\ verdict' = IF Accepts THEN "OK" ELSE "FAIL"
  /\ UNCHANGED <<repo, tree, phase, todo, opened>>

-----------------------------------------------------------------------------
(* The developer, between the runs.                                        *)

Checkout(c) ==
  /\ phase = "idle" /\ moves < MaxMoves /\ c /= head
  /\ head' = c /\ moves' = moves + 1 /\ verdict' = "-"
  /\ UNCHANGED <<build, tree, phase, todo, opened>>

Make ==
  /\ phase = "idle" /\ build' = [f \in Built |-> head] /\ verdict' = "-"
  /\ UNCHANGED <<head, moves, tree, phase, todo, opened>>

Init ==
  /\ head \in Commits /\ build = [f \in Built |-> 0] /\ moves = 0
  /\ dist = Nothing /\ sums = [there |-> FALSE, of |-> Nothing]
  /\ phase = "idle" /\ todo = <<>> /\ opened = FALSE /\ verdict = "-"

Next ==
  \/ MakeDist \/ Rmtree \/ WriteFile \/ WriteSums \/ Finished \/ Return \/ Kill
  \/ CheckDist \/ Make \/ \E c \in Commits : Checkout(c)

Spec == Init /\ [][Next]_vars

-----------------------------------------------------------------------------
(* Properties.                                                             *)

\* Types; no file of the tree is of a build that was never made
TypeOK ==
  /\ head \in Commits /\ verdict \in {"-", "OK", "FAIL"} /\ opened \in BOOLEAN
  /\ DOMAIN dist \subseteq Names /\ \A f \in DOMAIN dist : dist[f] \in Contents
  /\ phase \in {"idle", "rmtree", "write", "done"}

\* A tree check_dist accepts is the whole result of one run of make_dist: the files of the manifest's
\* commit and no other, none of them cut short, the guide's links rewritten - however often an
\* earlier run was killed, in its rmtree too, and whichever commit the check runs at
AcceptedIsWhole ==
  verdict = "OK" =>
    LET m == dist["MANIFEST"].of IN
    /\ DOMAIN dist = FILES[m] \cup {"bsp", "THIRD_PARTY_LICENSES", "MANIFEST"}
    /\ \A f \in DOMAIN dist : dist[f].whole /\ (f \notin Built => dist[f].of = m)
    /\ dist["guide"].links = "github"

\* The second stage in an accepted tree has the version the manifest records, also when make_dist
\* ran after a checkout without a build
AcceptedVersion ==
  verdict = "OK" => Stage2Version[dist["STAGE2"].of] = Stage2Version[dist["MANIFEST"].of]

\* What make_dist has finished from a build of the commit passes check_dist, whatever was there before
FinishedPasses == phase = "done" /\ (\A f \in Built : build[f] = head) => Accepts
=============================================================================

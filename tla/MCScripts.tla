----------------------------- MODULE MCScripts ------------------------------
(***************************************************************************)
(* The scripts and host tools for TLC.  They share no state, so that one   *)
(* behaviour is about one of them: tool says which, and s1, s2, ... are    *)
(* its variables, in the order of its module.  Tools selects the instances *)
(* a run is about.                                                         *)
(***************************************************************************)
EXTENDS Integers, Sequences, FiniteSets, TLC

CONSTANT Tools

VARIABLES tool, s1, s2, s3, s4, s5, s6, s7, s8, s9, s10, s11, s12, s13, s14, s15
vars == <<tool, s1, s2, s3, s4, s5, s6, s7, s8, s9, s10, s11, s12, s13, s14, s15>>

\* The variables past the n-th, which a module with n variables does not use.
past13 == <<s14, s15>>
past11 == <<s12, s13, past13>>
past9 == <<s10, s11, past11>>
past8 == <<s9, past9>>
past6 == <<s7, s8, past8>>

Off == "off"
Off13 == s14 = Off /\ s15 = Off
Off11 == s12 = Off /\ s13 = Off /\ Off13
Off9 == s10 = Off /\ s11 = Off /\ Off11
Off8 == s9 = Off /\ Off9
Off6 == s7 = Off /\ s8 = Off /\ Off8

-----------------------------------------------------------------------------
(* sim_runner.py: two processes.  Tests of one toplevel, RTL, instrumented *)
(* and gate-level ones; gate-level tests of two toplevels, which share     *)
(* only the copy of the cell models (one has no netlist yet); a mutant.    *)

SimJob(top, gls, sim, cov, mut, module) ==
  [top |-> top, gls |-> gls, sim |-> sim, cov |-> cov, mut |-> mut, module |-> module]
SimJobs ==
  "w1" :> {SimJob("tb_soc_top", FALSE, "verilator", FALSE, 0, "test_a"),
           SimJob("unit", TRUE, "icarus", FALSE, 0, "test_a"),
           SimJob("unit", FALSE, "icarus", FALSE, 1, "test_a")}
  @@ "w2" :> {SimJob("tb_soc_top", FALSE, "verilator", FALSE, 0, "test_b"),
              SimJob("tb_soc_top", FALSE, "verilator", TRUE, 0, "test_b"),
              SimJob("tb_soc_top", TRUE, "verilator", FALSE, 0, "test_b")}
\* Two gate-level tests of one toplevel as well.
GateJobs == [SimJobs EXCEPT !["w1"] = @ \cup {SimJob("tb_soc_top", TRUE, "verilator", FALSE, 0, "test_a")}]
SimFiles == {"soc_pkg", "rtl", "psram_ip", "psram_word_model", "mutable", "mutated_1", "mutated_2",
             "tb_soc_top", "w955_model", "gowin_cells", "soc_syn"}

Sim == INSTANCE SimRunner WITH
  Workers <- {"w1", "w2"}, JobsOf <- SimJobs, Present <- SimFiles, Editable <- {"rtl", "gowin_cells"},
  MaxCalls <- 3, MaxEdits <- 1, Kills <- FALSE,
  tree <- s1, flagsVer <- s2, pubVer <- s3, vlt <- s4, nets <- s5, bin <- s6, stamp <- s7, lock <- s8,
  covdat <- s9, proc <- s10, now <- s11, calls <- s12, edits <- s13

\* The same with two gate-level tests of one toplevel and processes killed in the middle of run().
Killed == INSTANCE SimRunner WITH
  Workers <- {"w1", "w2"}, JobsOf <- GateJobs, Present <- SimFiles, Editable <- {"rtl", "gowin_cells"},
  MaxCalls <- 2, MaxEdits <- 1, Kills <- TRUE,
  tree <- s1, flagsVer <- s2, pubVer <- s3, vlt <- s4, nets <- s5, bin <- s6, stamp <- s7, lock <- s8,
  covdat <- s9, proc <- s10, now <- s11, calls <- s12, edits <- s13

\* One process and one test, killed anywhere, with flags that change and change back.
Reverted == INSTANCE SimRunner WITH
  Workers <- {"w1"}, JobsOf <- "w1" :> {SimJob("tb_soc_top", FALSE, "verilator", FALSE, 0, "test_a")},
  Present <- SimFiles, Editable <- {"rtl"}, MaxCalls <- 4, MaxEdits <- 3, Kills <- TRUE,
  tree <- s1, flagsVer <- s2, pubVer <- s3, vlt <- s4, nets <- s5, bin <- s6, stamp <- s7, lock <- s8,
  covdat <- s9, proc <- s10, now <- s11, calls <- s12, edits <- s13

-----------------------------------------------------------------------------
(* mutation.py: two mutants of any effect besides mcy's no-op, which share *)
(* their description; proofs of any time, also those of a vacuous model.   *)

AllEffects == {"equal", "unreached", "untested", "caught", "hangs", "nocompile", "isa"}
AnyTime == [m \in {"sound", "vacuous"} |-> {"quick", "slow", "never"}]

Mcy == INSTANCE Mutation WITH
  Mutants <- 1..3, Kinds <- {"plain", "clocked", "cache", "unified_cpu"}, Effects <- AllEffects,
  ProofTimes <- AnyTime, describe <- <<1, 2, 2>>, JobsOption <- 2, Tries <- 1, Edits <- 1,
  kind <- s1, effect <- s2, proofTime <- s3, model <- s4, harness <- s5, phase <- s6, eqReset <- s7,
  task <- s8, resultEq <- s9, resultSim <- s10, tag <- s11, accepted <- s12, summary <- s13,
  replayed <- s14, edits <- s15

\* One mutant besides the no-op.
McyEnds == INSTANCE Mutation WITH
  Mutants <- 1..2, Kinds <- {"clocked", "cache", "unified_cpu"}, Effects <- AllEffects,
  ProofTimes <- AnyTime, describe <- <<1, 2>>, JobsOption <- 2, Tries <- 1, Edits <- 1,
  kind <- s1, effect <- s2, proofTime <- s3, model <- s4, harness <- s5, phase <- s6, eqReset <- s7,
  task <- s8, resultEq <- s9, resultSim <- s10, tag <- s11, accepted <- s12, summary <- s13,
  replayed <- s14, edits <- s15

-----------------------------------------------------------------------------
(* run_pnr.py: three seeds, two at a time; slacks that close, just close,  *)
(* miss and are below the abort slack.  The search with SIGTERM anywhere,  *)
(* and make timing (--all-seeds).                                          *)

Search == INSTANCE PnrSeeds WITH
  Seeds <- <<100, 7, 42>>, MaxJobs <- 2, AbortSlack <- -1, Slacks <- -2..1, AllSeeds <- FALSE, Signals <- TRUE,
  pc <- s1, pending <- s2, spawned <- s3, running <- s4, child <- s5, outcome <- s6, results <- s7,
  stop <- s8, sta <- s9, out <- s10, summary <- s11

Timing == INSTANCE PnrSeeds WITH
  Seeds <- <<100, 7, 42>>, MaxJobs <- 2, AbortSlack <- -1, Slacks <- -2..1, AllSeeds <- TRUE, Signals <- FALSE,
  pc <- s1, pending <- s2, spawned <- s3, running <- s4, child <- s5, outcome <- s6, results <- s7,
  stop <- s8, sta <- s9, out <- s10, summary <- s11

-----------------------------------------------------------------------------
(* run_eqy.py: designs with and without the ports x and y, with and        *)
(* without the dependency, declared and used.                              *)

EqyPorts == {"x", "y"}
EqyInputs == [EqyPorts -> {0, 1}]
Port(x, y) == [p \in EqyPorts |-> IF p = "x" THEN x ELSE y]
Design(f, x, dep, uses, rom) == [f |-> f, x |-> x, dep |-> dep, uses |-> uses, rom |-> rom]
Same(n) == [v \in EqyInputs |-> n]
ByX == [v \in EqyInputs |-> 1 + v["x"]]
ByXY == [v \in EqyInputs |-> 1 + v["x"] * v["y"]]

Eqy == INSTANCE EqyCheck WITH
  Ports <- EqyPorts, Values <- {0, 1},
  Designs <- {Design(Same(1), Port("none", "none"), 1, TRUE, 1), Design(ByX, Port("input", "none"), 1, TRUE, 1),
              Design(ByXY, Port("input", "input"), 1, TRUE, 2), Design(Same(1), Port("none", "none"), 2, TRUE, 1),
              Design(Same(1), Port("output", "none"), 2, FALSE, 1), Design(Same(1), Port("output", "none"), 0, FALSE, 2)},
  Ties <- {<<>>, <<<<"x", 1>>, <<"x", 0>>>>, <<<<"x", 1>>, <<"y", 0>>>>, <<<<"x", 2>>>>},
  Veryls <- {1, 2}, MaxCommits <- 2, MaxChanges <- 2,
  commits <- s1, wt <- s2, veryl <- s3, changes <- s4, generated <- s5, gold <- s6, phase <- s7, base <- s8,
  ties <- s9, built <- s10, snapGold <- s11, snapGate <- s12, verdict <- s13

-----------------------------------------------------------------------------
(* make_dist.py's licenses.  Crate 1 is the emulator's command line and 2  *)
(* its Python module, both of the repository; 3, 4 and 5 are of the        *)
(* registry.  Every graph over some edges that cargo accepts (no cycle of  *)
(* normal dependencies), with a text in every crate; and every licensing   *)
(* of the three crates, in two graphs.                                     *)

Plain == {<<1, 3>>, <<1, 4>>, <<2, 4>>, <<4, 5>>}
Varied == {<<3, 4>>, <<4, 3>>, <<3, 5>>}
Graph(k) == [p \in 1..5 |-> [q \in 1..5 |-> IF <<p, q>> \in DOMAIN k THEN k[<<p, q>>] ELSE {}]]
Mit == <<<<"MIT">>>>
Either == <<<<"MIT", "Apache-2.0">>>>
Mixed == <<<<"MIT", "Apache-2.0">>, <<"Unicode-3.0">>>>

Graphs == {[deps |-> Graph(k @@ v), macro |-> m, registry |-> 3..5, license |-> [p \in 1..5 |-> Mit],
            texts |-> [p \in 1..5 |-> {"other"}]] :
              k \in [Plain -> {{}, {"normal"}}], m \in SUBSET {3, 4},
              v \in {w \in [Varied -> SUBSET {"normal", "build"}] : "normal" \notin w[<<3, 4>>] \cap w[<<4, 3>>]}}

Licensings ==
  {[deps |-> Graph([e \in Plain \cup Varied |-> IF e \in cut \cup {<<4, 3>>} THEN {"build"} ELSE {"normal"}]),
    macro |-> {}, registry |-> 3..5, license |-> <<Mit, Mit>> \o l, texts |-> <<{"other"}, {"other"}>> \o t] :
     cut \in {{}, {<<4, 5>>, <<3, 5>>}}, l \in [1..3 -> {Mit, Either, Mixed}],
     t \in [1..3 -> SUBSET {"apache", "other"}]}

Lic == INSTANCE Licenses WITH
  Packages <- 1..5, Roots <- <<1, 2>>, Metadata <- Graphs \cup Licensings,
  meta <- s1, binary <- s2, todo <- s3, seen <- s4, linked <- s5, listed <- s6, pc <- s7, left <- s8,
  unshipped <- s9, apache <- s10, out <- s11

\* make_dist.py and check_dist.py at three commits: the first ships one more file, the second raised
\* STAGE2_VERSION, the third did not.
Dist == INSTANCE MakeDist WITH
  Commits <- 1..3, Stage2Version <- <<4, 5, 5>>, Built <- {"STAGE2"}, MaxMoves <- 3,
  FILES <- [c \in 1..3 |-> {"STAGE2", "guide"} \cup (IF c = 1 THEN {"old"} ELSE {})],
  head <- s1, build <- s2, moves <- s3, dist <- s4, sums <- s5, phase <- s6, todo <- s7, opened <- s8,
  verdict <- s9

-----------------------------------------------------------------------------
(* release_check.py.  Commit 1 is built with two bitstreams and two second *)
(* stages of one version; a dirty and a damaged dist; commit 2.            *)

Build(c, p, r) == [commit |-> c, pack |-> p, seed |-> p, rest |-> r, stage2 |-> 4, dirty |-> FALSE, damaged |-> FALSE]

Rel == INSTANCE Release WITH
  Builds <- {Build(1, 1, 1), Build(1, 1, 2), Build(1, 2, 1), [Build(1, 1, 1) EXCEPT !.dirty = TRUE],
             [Build(1, 1, 1) EXCEPT !.damaged = TRUE], [Build(2, 1, 1) EXCEPT !.stage2 = 5]},
  Commits <- {1, 2}, MaxRuns <- 3, MaxEdits <- 0, Values <- {},
  artifact <- s1, runs <- s2, candidate <- s3, tested <- s4, message <- s5, origin <- s6, edits <- s7,
  tag <- s8, published <- s9

\* Three edits of the message at any line, changes of a value among them.
Text == INSTANCE Release WITH
  Builds <- {Build(1, 1, 1), Build(1, 2, 1)}, Commits <- {1}, MaxRuns <- 1, MaxEdits <- 3, Values <- {2},
  artifact <- s1, runs <- s2, candidate <- s3, tested <- s4, message <- s5, origin <- s6, edits <- s7,
  tag <- s8, published <- s9

-----------------------------------------------------------------------------
(* vux_tool.py's card images: up to three files in two directories, a name *)
(* that is no 8.3 name, two spellings of one, a partition too small.       *)

Image == INSTANCE FatImage WITH
  Names <- {"a", "A", "b", "long"},
  ShortName <- [n \in {"a", "A", "b", "long"} |->
                  CASE n \in {"a", "A"} -> "A" [] n = "b" -> "B" [] n = "long" -> "bad"],
  Paths <- {<<"a">>, <<"b">>, <<"A", "b">>, <<"a", "a">>, <<"b", "a", "b">>, <<"a", "long">>},
  Sizes <- {0, 2, 3}, MaxFiles <- 3, Reserved <- 2, SectorUnits <- 2, FatUnits <- 4,
  Geometries <- {[part |-> p, per |-> 1] : p \in {9, 14, 20}} \cup {[part |-> 24, per |-> 2]},
  geom <- s1, tree <- s2, phase <- s3, fat <- s4, data <- s5, stack <- s6

-----------------------------------------------------------------------------
(* rv32_asm.py: every method with operands at the edges of their fields;   *)
(* programs of labels, branches and jumps at the edges of their ranges.    *)

Call == [op |-> "nop", rd |-> "t6", rs1 |-> "zero", rs2 |-> "zero", imm |-> 0, csr |-> "mstatus", target |-> "a"]
SomeRegs == {"zero", "s0", "t5"}
Imms == {-2049, -2048, -1, 0, 5, 2047, 2048}
Lis == {0, 2047, 2048, -2048, -2049, 4095, 4096, 65535, 2147481600, 2147481599, 2147483647, -2147483647, -2147481601}

ByLabelCalls ==
  {[Call EXCEPT !.op = o, !.rs1 = "t0", !.rs2 = "a1", !.target = l] : o \in {"beq", "bgeu", "j", "la"}, l \in {"a", "b"}}
  \cup {[Call EXCEPT !.op = o, !.rs1 = "t0"] : o \in {"bne", "bltu", "beqz", "bnez", "call"}}

Far == INSTANCE Rv32Asm WITH
  Calls <- ByLabelCalls, Labels <- {"a", "b"}, Origins <- {0, 2040}, Pads <- {1, 1022, 1023, 262142}, MaxParts <- 4,
  origin <- s1, items <- s2, labels <- s3, size <- s4, parts <- s5, phase <- s6, blamed <- s7, words <- s8

EveryMethod ==
  {[Call EXCEPT !.op = o, !.rs1 = r, !.imm = i] : o \in DOMAIN Far!IOps \ {"slli"}, r \in SomeRegs, i \in Imms}
  \cup {[Call EXCEPT !.op = "slli", !.rs1 = r, !.imm = i] : r \in SomeRegs, i \in {0, 1, 31}}
  \cup {[Call EXCEPT !.op = o, !.rs1 = r, !.rs2 = q, !.imm = i] :
         o \in DOMAIN Far!SOps, r \in SomeRegs, q \in SomeRegs, i \in Imms}
  \cup {[Call EXCEPT !.op = o, !.rd = d, !.rs1 = r, !.rs2 = q] :
         o \in DOMAIN Far!ROps \cup {Far!MUL_OPS[i] : i \in 1..8}, d \in SomeRegs, r \in SomeRegs, q \in SomeRegs}
  \cup {[Call EXCEPT !.op = "amo", !.rs1 = r, !.rs2 = q, !.imm = f] : r \in SomeRegs, q \in SomeRegs,
         f \in {0, 1, 2, 3, 4, 8, 12, 16, 20, 24, 28}}
  \cup {[Call EXCEPT !.op = o, !.rs1 = r, !.csr = x] : o \in DOMAIN Far!CsrOps \cup {"csrw", "csrr", "csrs", "csrc"},
         r \in SomeRegs, x \in DOMAIN Far!CSRS}
  \cup {[Call EXCEPT !.op = o, !.imm = i] : o \in {"lui", "auipc"}, i \in {0, 1, 524288, 1048575}}
  \cup {[Call EXCEPT !.op = "li", !.imm = i] : i \in Lis}
  \cup {[Call EXCEPT !.op = o, !.rs1 = "s0"] : o \in DOMAIN Far!FixedOps \cup {"mv", "nop", "ret"}}

Asm == INSTANCE Rv32Asm WITH
  Calls <- EveryMethod, Labels <- {}, Origins <- {0}, Pads <- {}, MaxParts <- 1,
  origin <- s1, items <- s2, labels <- s3, size <- s4, parts <- s5, phase <- s6, blamed <- s7, words <- s8

\* Every instance meets what its script takes for granted.
ASSUME InstancesAssumption ==
  /\ \A t \in Tools : t \in {"sim", "killed", "reverted", "mcy", "mcy_ends", "search", "timing", "eqy", "licenses", "dist",
                            "release", "text", "image", "asm", "far"}
  /\ Sim!BoundsAssumption /\ Sim!JobsAssumption /\ Killed!BoundsAssumption /\ Killed!JobsAssumption
  /\ Reverted!BoundsAssumption /\ Reverted!JobsAssumption
  /\ Mcy!MutationAssumption /\ McyEnds!MutationAssumption
  /\ Search!PnrAssumption /\ Timing!PnrAssumption
  /\ Eqy!EqyAssumption
  /\ Image!FatImageAssumption

-----------------------------------------------------------------------------
Init ==
  /\ tool \in Tools
  /\ \/ tool = "sim" /\ Sim!Init /\ Off13
     \/ tool = "killed" /\ Killed!Init /\ Off13
     \/ tool = "reverted" /\ Reverted!Init /\ Off13
     \/ tool = "mcy" /\ Mcy!Init
     \/ tool = "mcy_ends" /\ McyEnds!Init
     \/ tool = "search" /\ Search!Init /\ Off11
     \/ tool = "timing" /\ Timing!Init /\ Off11
     \/ tool = "eqy" /\ Eqy!Init /\ Off13
     \/ tool = "licenses" /\ Lic!Init /\ Off11
     \/ tool = "dist" /\ Dist!Init /\ Off9
     \/ tool = "release" /\ Rel!Init /\ Off9
     \/ tool = "text" /\ Text!Init /\ Off9
     \/ tool = "image" /\ Image!Init /\ Off6
     \/ tool = "asm" /\ Asm!Init /\ Off8
     \/ tool = "far" /\ Far!Init /\ Off8

Next ==
  /\ UNCHANGED tool
  /\ \/ tool = "sim" /\ Sim!Next /\ UNCHANGED past13
     \/ tool = "killed" /\ Killed!Next /\ UNCHANGED past13
     \/ tool = "reverted" /\ Reverted!Next /\ UNCHANGED past13
     \/ tool = "mcy" /\ Mcy!Next
     \/ tool = "mcy_ends" /\ McyEnds!Next
     \/ tool = "search" /\ Search!Next /\ UNCHANGED past11
     \/ tool = "timing" /\ Timing!Next /\ UNCHANGED past11
     \/ tool = "eqy" /\ Eqy!Next /\ UNCHANGED past13
     \/ tool = "licenses" /\ Lic!Next /\ UNCHANGED past11
     \/ tool = "dist" /\ Dist!Next /\ UNCHANGED past9
     \/ tool = "release" /\ Rel!Next /\ UNCHANGED past9
     \/ tool = "text" /\ Text!Next /\ UNCHANGED past9
     \/ tool = "image" /\ Image!Next /\ UNCHANGED past6
     \/ tool = "asm" /\ Asm!Next /\ UNCHANGED past8
     \/ tool = "far" /\ Far!Next /\ UNCHANGED past8

\* The fairness of SimRunner, Mutation, PnrSeeds and FatImage.
Fairness ==
  /\ \A w \in {"w1", "w2"} : WF_vars(tool = "killed" /\ Killed!Step(w) /\ UNCHANGED <<tool, past13>>)
  /\ WF_vars(tool = "mcy_ends" /\ McyEnds!Script /\ UNCHANGED tool)
  /\ WF_vars(tool = "search" /\ Search!Main /\ UNCHANGED <<tool, past11>>)
  /\ \A s \in {100, 7, 42} : WF_vars(tool = "search" /\ Search!ChildEnds(s) /\ UNCHANGED <<tool, past11>>)
  /\ WF_vars(tool = "image" /\ (Image!Begin \/ Image!WriteEntry \/ Image!FinishDir) /\ UNCHANGED <<tool, past6>>)

Spec == Init /\ [][Next]_vars /\ Fairness

-----------------------------------------------------------------------------
(* What each script promises, of the behaviours that are about it.         *)

\* sim_runner.py: the simulator loads a whole binary of its job's own sources as they are now, whatever the
\* other processes build and wherever one was killed, unless it is a gate-level one and the copy of the cell
\* models was replaced behind it; a flag edit applies, unless a kill before the stamp and a change back hide
\* it; coverage is of this run, and a SoC has one PSRAM.
SimulatesItsOwnBuild ==
  /\ tool = "sim" => /\ Sim!TypeOK /\ Sim!LoadsAWholeBinary /\ Sim!RunsItsOwnSources
                     /\ Sim!FlagEditsApply /\ Sim!NoStaleCoverage /\ Sim!OnePsram
  /\ tool = "killed" => /\ Killed!TypeOK /\ Killed!LoadsAWholeBinary /\ Killed!RunsItsOwnSources
                        /\ Killed!FlagEditsApply
  /\ tool = "reverted" => Reverted!LoadsAWholeBinary /\ Reverted!RunsItsOwnSources /\ Reverted!FlagEditsApply

\* mutation.py's score: a mutant counted as detected differs and a test of that run saw it; one left out is
\* equivalent, or the proof from reset proves anything and ran out of time in its self-test; every mutant is
\* scored; an accepted survivor is harmless, or shares its description with the one the reason is about; and
\* --replay gives the verdict of the run.
ScoreIsTrue ==
  tool = "mcy" => /\ Mcy!TypeOK /\ Mcy!DetectedByATest /\ Mcy!EquivalentIsEquivalent
                  /\ Mcy!ScoresEveryMutant /\ Mcy!AcceptedForItsReason /\ Mcy!ReplayAgrees

\* run_eqy.py says EQUIVALENT of the whole base commit and the tied working tree, and a run that was
\* killed while it filled the gold cache does not fail the next one.
EquivalentMeansIt == tool = "eqy" => Eqy!TypeOK /\ Eqy!EquivalentMeansIt /\ Eqy!NeverInItsOwnWay

\* The distribution: a tree check_dist.py accepts is the whole result of one run of make_dist.py with the
\* second stage its manifest names, and what make_dist.py finished is accepted; the license file lists what
\* each binary links, each crate with a text, and the script stops only over a crate without one.
DistributionIsWhole ==
  /\ tool = "dist" => Dist!TypeOK /\ Dist!AcceptedIsWhole /\ Dist!AcceptedVersion /\ Dist!FinishedPasses
  /\ tool = "licenses" => Lic!TypeOK /\ Lic!ListsTheLinked /\ Lic!EveryTextIsThere /\ Lic!ExitsForAReason

\* release_check.py: the bitstream of a release is one that was on the board, if the message's hash is its
\* template's; however the message was edited, the page has every field filled in, the commit, the hash and
\* the version those of its dist, and nothing of the signature; a template only filled in passes verify.
ReleaseIsTrue ==
  /\ tool = "release" => Rel!TypeOK /\ Rel!PublishedPackTested /\ Rel!FilledTemplatePasses
  /\ tool = "text" => Text!TypeOK /\ Text!PageIsTrue

\* rv32_asm.py: the decoder reads back the instruction that was called for, a branch or jump goes to its
\* label, li and la load their value, and Asm stops only where no word says what was asked.
AssemblesTheCall ==
  /\ tool = "asm" => Asm!TypeOK /\ Asm!DecodesToTheCall /\ Asm!LoadsTheValue /\ Asm!StopsOnlyForAReason
  /\ tool = "far" => /\ Far!TypeOK /\ Far!DecodesToTheCall /\ Far!TargetsReached
                     /\ Far!LoadsTheValue /\ Far!StopsOnlyForAReason

\* run_pnr.py adopts the best of the seeds that finished and leaves one unjudged only for a closing or a
\* hopeless one; no nextpnr outlives it but one SIGTERM found started and not yet in running; where no
\* SIGTERM comes its three outputs are of one seed, and make timing's summary is of this run.
SeedIsTheBest ==
  /\ tool = "search" => /\ Search!TypeOK /\ Search!AdoptsTheBest /\ Search!EarlyStopHasAReason
                        /\ Search!OnlyUnnotedSurvive
  /\ tool = "timing" => /\ Timing!TypeOK /\ Timing!AdoptsTheBest /\ Timing!EarlyStopHasAReason
                        /\ Timing!Traceable /\ Timing!NoOrphans /\ Timing!SummaryOfThisRun

\* A card image of vux_tool.py holds exactly the files and directories asked for, every allocated cluster in
\* one chain, fits its partition with FSInfo's free count, and .. leads to the parent.
ImageHoldsTheFiles ==
  tool = "image" => /\ Image!TypeOK /\ Image!HoldsTheFiles /\ Image!ChainsPartition
                    /\ Image!FitsThePartition /\ Image!DotDotLeadsUp

\* run() gives its lock back and returns, also after another process was killed; a run of mcy ends although
\* a mutant hangs its tests or a proof does not finish; the search for a seed ends; mkfat ends, in an image
\* or an error.
EveryScriptEnds ==
  /\ \A w \in {"w1", "w2"} : (tool = "killed" /\ ~Killed!At(w, "idle")) ~> (tool = "killed" /\ Killed!At(w, "idle"))
  /\ (tool = "mcy_ends" /\ McyEnds!RunUnderWay) ~> (tool = "mcy_ends" /\ McyEnds!RunOver)
  /\ (tool = "search") ~> (tool = "search" /\ Search!Ended)
  /\ (tool = "image" /\ Image!Building) ~> (tool = "image" /\ Image!BuildOver)
=============================================================================

------------------------------ MODULE SimRunner ------------------------------
(***************************************************************************)
(* sim/runners/sim_runner.py: build (if outdated) and run one cocotb test  *)
(* module against a toplevel.  Several processes (Workers) call run() at   *)
(* once; they share the build directories, the stamp of the compile flags  *)
(* in each, the copy of the Gowin cell models that gate-level builds read, *)
(* and the tree of sources, which the developer edits between runs.        *)
(*                                                                         *)
(* External: cocotb's runner.build compiles when told to (always), when    *)
(* the binary is not there, or when a source is newer than it; the         *)
(* compiler reads the sources when it starts and its output is not whole   *)
(* until it ends.  An interrupted compiler leaves no output.               *)
(***************************************************************************)
EXTENDS Naturals, FiniteSets

CONSTANTS
    Workers,     \* processes that call run()
    JobsOf,      \* [Workers -> set of jobs]: what each may be asked to run
    Present,     \* the files of the tree, of those sources_for may name
    Editable,    \* the files the developer edits
    MaxCalls,    \* bound: calls of run() in all
    MaxEdits,    \* bound: edits of files and flags in all
    Kills        \* whether a process may be killed in the middle of run()

\* What the code takes for granted of its parameters.
BoundsAssumption == MaxCalls \in Nat /\ MaxEdits \in Nat /\ Kills \in BOOLEAN

Toplevels == {"soc_top", "tb_soc_top", "tb_hex_runner", "tb_gowin_bram", "tb_psram_contract", "unit"}
Modules   == {"test_a", "test_b"}
\* A call's arguments and environment: HDL_COVERAGE, VUX9K_RTL_OVERRIDE with its own
\* VUX9K_MUT_BUILD_DIR (the mutant's number, 0 for none)
Jobs == [top: Toplevels, gls: BOOLEAN, sim: {"icarus", "verilator"}, cov: BOOLEAN,
         mut: 0..2, module: Modules]
\* What the code takes for granted of its parameters.
JobsAssumption == JobsOf \in [Workers -> SUBSET Jobs]

VARIABLES
    tree,     \* [file -> [ver, at]]: contents and time of each file (at 0: not there)
    flagsVer, \* the compile flags the tree's BUILD_ARGS has
    pubVer,   \* SOC_RTL_PUBLIC: the signals Verilator is to keep visible
    vlt,      \* [dir -> [ver, at]]: public.vlt, the list as the last build was given it
    nets,     \* [ver, at]: GOWIN_CELLS_NETS, the copy of the cell models
    bin,      \* [dir -> binary]: what it was built from and with, when, whether it is whole, and
              \* (history) torn: its process was killed before it wrote the stamp of new flags
    stamp,    \* [dir -> flags]: .build_args
    lock,     \* [dir -> holder]
    covdat,   \* [run directory -> the build its coverage.dat is of]
    proc,     \* [Workers -> a call in progress]
    now, calls, edits
vars == <<tree, flagsVer, pubVer, vlt, nets, bin, stamp, lock, covdat, proc, now, calls, edits>>

NoBuild == [of |-> {}, flags |-> <<>>, at |-> 0, whole |-> FALSE, torn |-> FALSE]
None    == "none"
NoLoad  == {}
NoJob   == [top |-> "none", gls |-> FALSE, sim |-> "none", cov |-> FALSE, mut |-> 0, module |-> "none"]

(***************************************************************************)
(* Which files make up a build                                             *)
(***************************************************************************)
ICARUS_ONLY   == {"tb_psram_contract"}
SOC_TOPLEVELS == {"soc_top", "tb_soc_top"}
Nets          == "gowin_cells_nets"
Override(mut) == IF mut = 1 THEN "mutated_1" ELSE "mutated_2"

Allowed(j) ==
    /\ j.top \in ICARUS_ONLY => j.sim = "icarus"
    /\ j.cov => j.sim = "verilator" /\ ~j.gls
    /\ j.mut # 0 => ~j.gls /\ ~j.cov

psram_word_model(j) == j.sim = "verilator" /\ ~j.gls /\ j.top \in SOC_TOPLEVELS

PSRAM_CONTRACT_SOURCES == {"soc_pkg", "psram_ip", "w955_model", "psram_word_model", "tb_psram_contract"}

sources_for(j) ==
    CASE j.top = "tb_gowin_bram" -> {Nets, "tb_gowin_bram"}
      [] j.top = "tb_psram_contract" ->
            IF j.gls THEN {Nets, "psram_controller_syn"} \cup (PSRAM_CONTRACT_SOURCES \ {"psram_ip"})
                     ELSE PSRAM_CONTRACT_SOURCES
      [] OTHER ->
            (IF j.gls
             THEN {Nets, CASE j.top \in SOC_TOPLEVELS -> "soc_syn"
                           [] j.top = "tb_hex_runner" -> "unified_cpu_syn"
                           [] OTHER -> "unit_syn"}
             ELSE {"soc_pkg", "rtl"}
                  \cup {IF psram_word_model(j) THEN "psram_word_model" ELSE "psram_ip"}
                  \cup (IF j.mut = 0 THEN {"mutable"} ELSE {Override(j.mut)}))
            \cup (IF j.top = "tb_soc_top" /\ (j.sim = "icarus" \/ j.gls) THEN {"w955_model"} ELSE {})
            \cup (IF j.top \in {"tb_soc_top", "tb_hex_runner"} THEN {j.top} ELSE {})

Defines(j) ==
    (CASE j.top = "tb_soc_top" -> {IF j.gls THEN "VUX9K_GLS" ELSE "VUX9K_RTL_TRACE"}
       [] j.top = "tb_psram_contract" /\ j.gls -> {"VUX9K_GLS"}
       [] OTHER -> {})
    \cup (IF psram_word_model(j) THEN {"VUX9K_PSRAM_MODEL"} ELSE {})

\* BUILD_ARGS of the simulator (as the process read them), COVERAGE_ARGS, the defines
Flags(j, ver) == <<ver, j.sim, j.cov, Defines(j)>>

BuildDir(j) ==
    IF j.mut # 0 THEN <<"mutant", FALSE, FALSE, j.mut, j.top>>
    ELSE <<j.sim, j.gls, j.cov, 0, j.top>>
TestDir(j) == <<BuildDir(j), j.module>>

Dirs     == {BuildDir(j) : j \in UNION {JobsOf[w] : w \in Workers}}
TestDirs == {TestDir(j) : j \in UNION {JobsOf[w] : w \in Workers}}
Files    == UNION {sources_for(j) \ {Nets} : j \in UNION {JobsOf[w] : w \in Workers}} \cup {"gowin_cells"}

File(f) == IF f = Nets THEN nets ELSE tree[f]
Public  == "public_vlt"
Contents(j) ==
    {<<f, File(f).ver>> : f \in sources_for(j)}
    \cup (IF j.sim = "verilator" THEN {<<Public, vlt[BuildDir(j)].ver>>} ELSE {})

(***************************************************************************)
(* run()                                                                   *)
(***************************************************************************)
\* cells (history): the time of the copy of the cell models this call's build looked at
Idle == [pc |-> "idle", job |-> NoJob, flags |-> 0, changed |-> FALSE, read |-> {},
         tmp |-> [ver |-> 0, at |-> 0], cells |-> 0, loaded |-> NoBuild]

Init ==
    /\ tree = [f \in Files |-> [ver |-> 1, at |-> IF f \in Present THEN 1 ELSE 0]]
    /\ flagsVer = 0 /\ pubVer = 0
    /\ vlt = [d \in Dirs |-> [ver |-> 0, at |-> 0]]
    /\ nets = [ver |-> 0, at |-> 0]
    /\ bin = [d \in Dirs |-> NoBuild]
    /\ stamp = [d \in Dirs |-> <<>>]
    /\ lock = [d \in Dirs |-> None]
    /\ covdat = [d \in TestDirs |-> NoLoad]
    /\ proc = [w \in Workers |-> Idle]
    /\ now = 2 /\ calls = 0 /\ edits = 0

At(w, pc)  == proc[w].pc = pc
Go(w, pc)  == proc' = [proc EXCEPT ![w].pc = pc]
Dir(w)     == BuildDir(proc[w].job)
Tick       == now' = now + 1

\* The arguments are checked, then the sources are listed: a gate-level build first makes
\* its copy of the cell models
Call(w) ==
    /\ At(w, "idle") /\ calls < MaxCalls
    /\ calls' = calls + 1
    /\ \E j \in JobsOf[w] :
        /\ Allowed(j)
        /\ proc' = [proc EXCEPT ![w] =
             [Idle EXCEPT !.pc = IF Nets \in sources_for(j) THEN "cells" ELSE "missing",
                          !.job = j, !.flags = flagsVer]]
    /\ UNCHANGED <<tree, flagsVer, pubVer, vlt, nets, bin, stamp, lock, covdat, now, edits>>

\* _gowin_cells_with_net_inputs: the copy is up to date, or its text is read to be made
Cells(w) ==
    /\ At(w, "cells")
    /\ IF tree["gowin_cells"].at = 0 \/ (nets.at > 0 /\ nets.at >= tree["gowin_cells"].at)
       THEN Go(w, "missing")
       ELSE proc' = [proc EXCEPT ![w].pc = "tmp", ![w].tmp.ver = tree["gowin_cells"].ver]
    /\ UNCHANGED <<tree, flagsVer, pubVer, vlt, nets, bin, stamp, lock, covdat, now, calls, edits>>

\* tmp.write_text(text), in a file of the process's own
WriteTmp(w) ==
    /\ At(w, "tmp")
    /\ proc' = [proc EXCEPT ![w].pc = "replace", ![w].tmp.at = now]
    /\ Tick
    /\ UNCHANGED <<tree, flagsVer, pubVer, vlt, nets, bin, stamp, lock, covdat, calls, edits>>

\* os.replace(tmp, GOWIN_CELLS_NETS): atomic, and the copy keeps the temporary's time
ReplaceNets(w) ==
    /\ At(w, "replace")
    /\ nets' = proc[w].tmp
    /\ Go(w, "missing")
    /\ UNCHANGED <<tree, flagsVer, pubVer, vlt, bin, stamp, lock, covdat, now, calls, edits>>

\* FileNotFoundError before anything is built
Missing(w) ==
    /\ At(w, "missing")
    /\ IF \E f \in sources_for(proc[w].job) : File(f).at = 0
       THEN proc' = [proc EXCEPT ![w] = Idle] ELSE Go(w, "lock")
    /\ UNCHANGED <<tree, flagsVer, pubVer, vlt, nets, bin, stamp, lock, covdat, now, calls, edits>>

\* As it would be: only a directory without a stamp is built afresh
FirstBuildOnly(d, flags) == stamp[d] = <<>>
FlagsChanged(d, flags) == stamp[d] # flags

\* The toplevel, and SOC_RTL_PUBLIC for RTL builds of the SoC
PublicList(j) == IF ~j.gls /\ j.top \in SOC_TOPLEVELS THEN pubVer ELSE 0

\* public.vlt is written only when its text changes, so that its time does not
PublicVlt(w) ==
    LET list == PublicList(proc[w].job)
    IN  IF proc[w].job.sim = "verilator" /\ (vlt[Dir(w)].at = 0 \/ vlt[Dir(w)].ver # list)
        THEN vlt' = [vlt EXCEPT ![Dir(w)] = [ver |-> list, at |-> now]] /\ Tick
        ELSE UNCHANGED <<vlt, now>>

\* _exclusive(): under the lock public.vlt is brought up to date and .build_args read
Lock(w) ==
    /\ At(w, "lock") /\ lock[Dir(w)] = None
    /\ lock' = [lock EXCEPT ![Dir(w)] = w]
    /\ PublicVlt(w)
    /\ proc' = [proc EXCEPT ![w].pc = "build",
                            ![w].changed = FlagsChanged(Dir(w), Flags(proc[w].job, proc[w].flags))]
    /\ UNCHANGED <<tree, flagsVer, pubVer, nets, bin, stamp, covdat, calls, edits>>

\* always = flags_changed or mutant
Always(w) == proc[w].changed \/ proc[w].job.mut # 0

Outdated(w) ==
    LET b == bin[Dir(w)]
    IN  \/ b.at = 0 \/ vlt[Dir(w)].at > b.at
        \/ \E f \in sources_for(proc[w].job) : File(f).at > b.at

UpToDate(w) ==
    /\ At(w, "build") /\ ~Always(w) /\ ~Outdated(w)
    /\ proc' = [proc EXCEPT ![w].pc = "stamp", ![w].cells = nets.at]
    /\ UNCHANGED <<tree, flagsVer, pubVer, vlt, nets, bin, stamp, lock, covdat, now, calls, edits>>

StartCompile(w) ==
    /\ At(w, "build") /\ (Always(w) \/ Outdated(w))
    /\ proc' = [proc EXCEPT ![w].pc = "compiling", ![w].read = Contents(proc[w].job),
                            ![w].cells = nets.at]
    /\ bin' = [bin EXCEPT ![Dir(w)].whole = FALSE, ![Dir(w)].at = now]
    /\ Tick
    /\ UNCHANGED <<tree, flagsVer, pubVer, vlt, nets, stamp, lock, covdat, calls, edits>>

\* As it would be: the lock is not given back
KeepLockOnError(w) ==
    /\ At(w, "build") /\ (Always(w) \/ Outdated(w))
    /\ proc' = [proc EXCEPT ![w] = Idle]
    /\ UNCHANGED <<tree, flagsVer, pubVer, vlt, nets, bin, stamp, lock, covdat, now, calls, edits>>
\* The sources do not compile: run() raises, the lock is released, the stamp stays
CompileError(w) ==
    /\ At(w, "build") /\ (Always(w) \/ Outdated(w))
    /\ proc' = [proc EXCEPT ![w] = Idle]
    /\ lock' = [lock EXCEPT ![Dir(w)] = None]
    /\ UNCHANGED <<tree, flagsVer, pubVer, vlt, nets, bin, stamp, covdat, now, calls, edits>>

EndCompile(w) ==
    /\ At(w, "compiling")
    /\ bin' = [bin EXCEPT ![Dir(w)] = [of |-> proc[w].read, at |-> now, whole |-> TRUE, torn |-> FALSE,
                                       flags |-> Flags(proc[w].job, proc[w].flags)]]
    /\ Tick
    /\ Go(w, "stamp")
    /\ UNCHANGED <<tree, flagsVer, pubVer, vlt, nets, stamp, lock, covdat, calls, edits>>

WriteStamp(w) ==
    /\ At(w, "stamp")
    /\ stamp' = [stamp EXCEPT ![Dir(w)] = Flags(proc[w].job, proc[w].flags)]
    /\ lock' = [lock EXCEPT ![Dir(w)] = None]
    /\ Go(w, "test")
    /\ UNCHANGED <<tree, flagsVer, pubVer, vlt, nets, bin, covdat, now, calls, edits>>

\* Outside the lock: a stale coverage.dat goes from the run directory, and the simulator
\* loads what the build directory holds now
StartTest(w) ==
    /\ At(w, "test")
    /\ covdat' = IF proc[w].job.cov THEN [covdat EXCEPT ![TestDir(proc[w].job)] = NoLoad] ELSE covdat
    /\ proc' = [proc EXCEPT ![w].pc = "run", ![w].loaded = bin[Dir(w)]]
    /\ UNCHANGED <<tree, flagsVer, pubVer, vlt, nets, bin, stamp, lock, now, calls, edits>>

\* The simulation exits and an instrumented one writes coverage.dat, or it is cut short
EndTest(w) ==
    /\ At(w, "run")
    /\ covdat' = IF proc[w].job.cov THEN [covdat EXCEPT ![TestDir(proc[w].job)] = proc[w].loaded.of]
                 ELSE covdat
    /\ proc' = [proc EXCEPT ![w] = Idle]
    /\ UNCHANGED <<tree, flagsVer, pubVer, vlt, nets, bin, stamp, lock, now, calls, edits>>
AbortTest(w) ==
    /\ At(w, "run") /\ proc[w].job.cov
    /\ proc' = [proc EXCEPT ![w] = Idle]
    /\ UNCHANGED <<tree, flagsVer, pubVer, vlt, nets, bin, stamp, lock, covdat, now, calls, edits>>

\* A killed process loses its lock; its compiler leaves no output
Kill(w) ==
    /\ Kills /\ proc[w].pc \in {"compiling", "stamp", "test"}
    /\ bin' = CASE At(w, "compiling") -> [bin EXCEPT ![Dir(w)] = NoBuild]
                 [] At(w, "stamp") -> [bin EXCEPT ![Dir(w)].torn = @ \/ bin[Dir(w)].flags # stamp[Dir(w)]]
                 [] At(w, "test") -> bin
    /\ lock' = [d \in Dirs |-> IF lock[d] = w THEN None ELSE lock[d]]
    /\ proc' = [proc EXCEPT ![w] = Idle]
    /\ UNCHANGED <<tree, flagsVer, pubVer, vlt, nets, stamp, covdat, now, calls, edits>>

\* Between runs the developer edits a source (`make veryl` writes it) or the flags
AllIdle == \A w \in Workers : At(w, "idle")
Edit ==
    /\ AllIdle /\ edits < MaxEdits /\ calls < MaxCalls
    /\ edits' = edits + 1
    /\ \/ \E f \in Editable :
            /\ tree[f].at > 0
            /\ tree' = [tree EXCEPT ![f] = [ver |-> @.ver + 1, at |-> now]]
            /\ Tick /\ UNCHANGED <<flagsVer, pubVer>>
       \/ flagsVer' = 1 - flagsVer /\ UNCHANGED <<tree, pubVer, now>>
       \/ pubVer' = 1 - pubVer /\ UNCHANGED <<tree, flagsVer, now>>
    /\ UNCHANGED <<vlt, nets, bin, stamp, lock, covdat, proc, calls>>

Step(w) ==
    \/ Cells(w) \/ WriteTmp(w) \/ ReplaceNets(w) \/ Missing(w) \/ Lock(w)
    \/ UpToDate(w) \/ StartCompile(w) \/ EndCompile(w) \/ WriteStamp(w)
    \/ StartTest(w) \/ EndTest(w)

Next == \/ \E w \in Workers : Call(w) \/ Step(w) \/ CompileError(w) \/ AbortTest(w) \/ Kill(w)
        \/ Edit

\* A process that has called run() goes on; a simulation ends (the tests have timeouts)
Fairness == \A w \in Workers : WF_vars(Step(w))
Spec == Init /\ [][Next]_vars /\ Fairness

(***************************************************************************)
(* Properties                                                              *)
(***************************************************************************)
\* Every variable keeps its type.
TypeOK ==
    /\ tree \in [Files -> [ver: Nat, at: Nat]]
    /\ flagsVer \in {0, 1} /\ pubVer \in {0, 1} /\ vlt \in [Dirs -> [ver: {0, 1}, at: Nat]]
    /\ nets \in [ver: Nat, at: Nat]
    /\ \A d \in Dirs : bin[d].whole \in BOOLEAN /\ bin[d].at < now /\ lock[d] \in Workers \cup {None}
    /\ \A w \in Workers : ~At(w, "idle") => proc[w].job \in JobsOf[w]
    /\ \A w \in Workers : proc[w].pc \in {"build", "compiling", "stamp"} => lock[Dir(w)] = w

\* What the simulator loads is a whole binary, whatever the other processes are building.
\* sim_runner.py's layout comment says so of any two tests; two gate-level tests of one
\* toplevel are the exception, and exactly this one: a process that found the copy of the
\* cell models out of date wrote its own after this call's build had looked at it, the
\* copy is newer than the binary, and the next build of the directory starts over while
\* this simulator loads.
LoadsAWholeBinary ==
    \A w \in Workers : At(w, "run") =>
        proc[w].loaded.whole \/ (Nets \in sources_for(proc[w].job) /\ nets.at # proc[w].cells)

\* What the simulator loads was built from this job's own sources as they are in the tree
\* now, the list of visible signals included: no stale build, no mutant's or instrumented or gate-level build for another's.
RunsItsOwnSources ==
    \A w \in Workers : At(w, "run") /\ proc[w].loaded.whole =>
        /\ \A p \in proc[w].loaded.of :
              p[2] = CASE p[1] = Nets -> tree["gowin_cells"].ver
                       [] p[1] = Public -> PublicList(proc[w].job)
                       [] OTHER -> tree[p[1]].ver
        /\ {p[1] : p \in proc[w].loaded.of} \ {Public} = sources_for(proc[w].job)

\* run()'s comment: "also rebuild when the compile flags changed, or a flag edit would
\* silently not apply".  It does not apply in one case: a process was killed between its
\* build with other flags and the stamp (torn), and the flags have gone back to what the
\* stamp says.  The next build of the directory ends the exception.
FlagEditsApply ==
    \A w \in Workers : At(w, "run") /\ proc[w].loaded.whole =>
        proc[w].loaded.flags = Flags(proc[w].job, flagsVer) \/ proc[w].loaded.torn

\* "never merge a stale run": the coverage.dat of a run directory, when a test has been
\* started there and cut short, is not one of an earlier build.
NoStaleCoverage ==
    \A w \in Workers : At(w, "run") /\ proc[w].job.cov =>
        covdat[TestDir(proc[w].job)] \in {NoLoad, proc[w].loaded.of}

\* In every build of the SoC the PSRAM is there once: the word model exactly when soc_top
\* is told to instantiate it (VUX9K_PSRAM_MODEL), else the controller or the netlist that
\* holds it, with the pin-level model on its pins; the netlist exactly when the wrapper is
\* told so (VUX9K_GLS).
OnePsram ==
    \A w \in Workers : At(w, "compiling") /\ proc[w].job.top = "tb_soc_top" =>
        LET s == {p[1] : p \in proc[w].read}
            d == Defines(proc[w].job)
        IN  /\ Cardinality(s \cap {"psram_word_model", "psram_ip", "soc_syn"}) = 1
            /\ "psram_word_model" \in s <=> "VUX9K_PSRAM_MODEL" \in d
            /\ "psram_word_model" \in s <=> "w955_model" \notin s
            /\ "soc_syn" \in s <=> "VUX9K_GLS" \in d

\* Every call of run() comes to an end: the lock is always given back.
CallsEnd == \A w \in Workers : ~At(w, "idle") ~> At(w, "idle")
=============================================================================

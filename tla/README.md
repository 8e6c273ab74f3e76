# TLA+ for VUX9K

A verification development for VUX9K: a dual-ISA (RV32IMA and Hack) SoC in Veryl
(`soc/`), its boot and file firmware in Rust (`firmware/`), an emulator (`emu/`), host
tools (`tools/`), a simulation environment (`sim/`) and the scripts that build, test and
release it (`scripts/`). Paths below are paths of the repository.

## The system

### Components

| part | state it keeps | operations | talks to |
|---|---|---|---|
| CPU (`soc/cpu/unified_cpu.veryl` and units) | FSM state, pc, instruction, registers, CSRs, LR/SC reservation | one FSM for both ISAs: FETCH, EXECUTE, MEM_WAIT, ... ; waits on `instr_ready`, `data_ready` | all of the SoC through one fetch and one data port |
| instruction cache (`soc/soc_icache.veryl`) | tag and word RAM, a fill | look up a fetch, fill a line, drop a line a store hit | bridge; `fill_hold` from the data cache |
| data cache (`soc/soc_dcache.veryl`) | tag RAM {valid, dirty, tag}, word RAM {byte mask, word}, a transfer | look up, store hit, write back, fill, write back for the instruction cache's miss (the probe) | bridge; probed by the instruction cache |
| bridge (`soc/soc_xmem_bridge.veryl`) | a request in flight and whose it is | request, route responses | both caches, the controller |
| PSRAM controller (vendored; `sim/psram_word_model.veryl` pins its host side) | the memory, a burst, the power-up | read and write bursts of a line | the bridge |
| SoC top (`soc/soc_top.veryl`), GPIO (`soc/gpio_controller.veryl`) | power-on counter, soft-reset pulse, boot mode | power-on reset, reset button, soft reset into either ISA | all |
| UART, timer (`soc/uart/`, `soc/timer_core.veryl`) | FIFOs, events; `mtimecmp`, `msip` | register reads and writes against a running device | the CPU, interrupts, the line |
| SD SPI (`soc/sdcard_spi.veryl`), its driver (`fw_drivers/src/sdcard.rs`), the test card (`sim/integration/sdcard_protocol.py`) | a byte in flight, CS, divider; the card's kind; the card's answer queue | init, read, verified write | each other |
| FAT32 volume (`firmware/fw_common/src/fat/`) | the card's sectors, a write-back cache of one FAT sector | create, rename, remove, mkdir, rmdir, replace, move | SD driver, file commands, install |
| second stage on the card (`fat/stage2.rs`, `boot.rs`) | `STAGE2.BIN`, `.OLD`, `.NEW` in `\VUX9K\` | install, `install -u`, select_boot | volume, first stage |
| transfer v2 (`upload.rs`, `tools/vux_tool.py`) | blocks received, CRC | ask, receive, store, answer, over a serial line | host, RAM boot, put, install |
| the stages' prompts and the host's dialogue (`stage1/src/main.rs`, `stage2/src/shell.rs`, `vux_tool.py`) | where the device is, what was read | enter a stage, run a command, give up | the serial line |
| card images (`vux_tool.py`) | a directory tree, a FAT, clusters | build one FAT32 partition | a reader |
| lockstep programs and their assembler (`sim/integration/`) | programs; labels | assemble; run on RTL and emulator | the CPU |
| simulation runner (`sim/runners/sim_runner.py`) | build directories with lock, stamp and binary | build if outdated, run, from several processes | the tree of sources |
| place and route (`scripts/run_pnr.py`, `timing_summary.py`) | children, seeds judged | search, early stop, adopt, summarise | nextpnr |
| mutation testing (`scripts/mcy/mutation.py`) | mcy's tasks and tags, ACCEPTED | self-test, run, summarise, replay | mcy, the tests |
| equivalence of refactors (`scripts/run_eqy.py`) | a cache of gold trees by commit | build gold, snapshot, tie, compare | veryl, eqy, git |
| distribution and release (`scripts/make_dist.py`, `check_dist.py`, `release_check.py`) | `build/dist`, a tag message | assemble, check, template, verify, notes | cargo, CI |
| emulator (`emu/`) | a copy of all SoC state | run an instruction; count cycles | tests, lockstep with the RTL |

`PROJECT.json` lists every part, modelled or not, with the reason.

### What is hard about it

- **The window.** Five machines advance on every clock. Two caches without a common
  protocol stay coherent by timing: an invalidation, a probe, a replay cycle, a stale flag
  for RAM reads that collide with a write. On the board such a read returns old or new
  bits, in simulation the old ones, so a test in simulation cannot see the hazard.
  Resets cut it anywhere: the button resets registers but no RAM; the soft reset only the
  CPU.
- **Interrupts** are sampled in one cycle and taken in another, and the timer's line lags
  its compare: a store between the two may take away the reason.
- **Power failure and cards that fail.** Every change of a volume is a sequence of sector
  writes. Any may be the last, may be refused, or may be done and reported failed.
- **A line that loses bytes.** Both sides of transfer v2 have timeouts of their own, and
  what one sends after giving up may be taken by the other for data. Prompts of an
  earlier exchange arrive late.
- **Judgements that differ**: install and the first stage check an image differently.
- **Scripts that run at once or are killed**: builds share directories, a search has
  children, a cache or a distribution may be half written when the next run finds it.

The `hazards` of `PROJECT.json` place the main ones at their lines.

## Modules

| module | models |
|---|---|
| `SocPkg` | shape of the memory; a synchronous RAM whose read of the entry being written may return any mix of old and new fields |
| `SocDcache`, `SocIcache`, `SocXmemBridge`, `PsramController` | the four components: a variable per register, an operator per signal, one action for a clock edge, one for reset |
| `UnifiedCpuBus` | the CPU as the window sees it: the FSM of both ISAs; the fetched word decodes to any instruction, a stored value is any value, the next pc any address |
| `SocWindow` | the composition, wired as in `soc_top`, with the power-on reset, the reset button and the soft reset; its properties |
| `WindowMemory` | what the window promises: an array of words; loads return what was stored last |
| `Hart`, `LockstepPrograms` | the hart with CSRs, traps and atomics, the CLINT, the UART, the boot mode; the programs it runs |
| `SdCardProtocol`, `SdCard` | the card byte by byte; the driver on the SPI controller, composed with it |
| `FatVolume` | `write.rs`, one sector write at a time |
| `Stage2Install` | install, `install -u`, select_boot, power cuts and card errors |
| `UploadV2` | both sides of transfer v2 over a faulty line |
| `HostConsole` | the host's dialogue with the two stages' prompts |
| `FatImage`, `SimRunner`, `PnrSeeds`, `Mutation`, `EqyCheck`, `MakeDist`, `Licenses`, `Release`, `Rv32Asm` | one script or tool each |
| `MCSocWindow`, `MCWindowTiming`, `MCSdCard`, `MCUploadV2`, `MCFatVolume`, `MCHostConsole`, `MCScripts` | instances for TLC |
| `SocWindowInv`, `UploadV2Inv` | the inductive invariants of the window and of transfer v2 |
| `SocWindowProofs`, `SocWindowTimingProofs`, `SocWindowMemoryProofs`, `Stage2InstallProofs`, `UploadV2Proofs`, `SdCardProofs`, `HostConsoleProofs`, `EqyCheckProofs` | theorems |

A run may be about several instances of one specification, or of several that share no
state. `MCFatVolume` instantiates its module with other parameters under a variable
(`volume`) that says which instance a behaviour is about and never changes; `split` of
`HostConsole` is such a variable of the module itself. `MCScripts` does so for nine scripts: `tool` selects the instance, and
`s1`, `s2`, ... stand for its variables in the order of its module. A property of such a
run is the module's, guarded by the instance.

Operators whose comment says "mutant" or "As it would be" are the changed forms the
`mutants` of `PROJECT.json` name; no specification uses them.

### The window (`SocWindow`)

`Next` is `PorClock` (an edge while the power-on reset counts), `Clock` (an edge of the
running SoC) or `Reset` (the button). An edge is a conjunction: each component's `...Clock`
action with its ports as arguments, and the ports are the operators under "The wires". So
everything happens at once as in the hardware, and the nondeterminism left is the program
(instructions, addresses, data), the RAM collisions, and the resets.

Addresses are pairs (block, offset) and a flag `sel` for "in the window"; a cache's split
of a block number into line and tag is a pair of functions, assumed only to name a block
together. Bytes are lanes of a word, so that the masks are real. Traps and the like are
instructions without a data access. A multiplication waits any number of cycles.

Data left out: what instructions compute, single-word requests of the controller (the
window makes none), the ROM and the peripherals (an access outside the window completes at
once and may be the store that starts a soft reset).

### The hart and its programs (`Hart`, `LockstepPrograms`)

The programs are those of `lockstep_programs.py` about traps, U-mode, atomics, CLINT,
UART registers, ignored stores and the boot mode, as sequences of abstract instructions
with the values their comments give noted at their places (`<<"is", r, v>>`). The hart
takes the FSM's steps and the devices move between any two of them: a byte arrives, one
leaves, the timer comes due. So one program is checked for every arrival time, where the
lockstep test has one. Cycle counts, `mcycle`, `mtime` itself, `mtval` and `mscratch` are
left out; the order of interrupts, MIE/MPIE/MPP, the reservation, the FIFOs' limits and
the level of the events are kept.

### The card and its driver (`SdCardProtocol`, `SdCard`)

Bytes on the bus are bytes; a sector has two. The card answers as
`sdcard_protocol.py` does, SDHC or SDSC, strict or forgiving, with its faults, which come
and go between calls. The driver is a list of bytes to clock out and what to look at in
the ones received. A new program starts with the divider the last one left. A read may
also follow an `init` that failed, as `install` does (`launch.rs:138`: the mount reports
it). The bits of a byte are one step. A soft reset in the middle of a call is not modelled.

### The volume (`FatVolume`)

A command is a list of jobs, a job one sector write or a step that puts others in its
place: so the order of writes is the code's, and a cut or a failed write can come before
or at each; so can a refused read of a FAT sector, after which the cache holds none. The
cache of one FAT sector, both FAT copies and the clean-up after an error are kept. A cluster is one sector, a FAT sector holds two entries. Left out: long names,
FSInfo, the checks of mount, the reading of files.

### The second stage on the card (`Stage2Install`)

The volume is the three names of `\VUX9K\` and what each holds: an image, nothing, or a
directory a PC made. An image is loadable (`load_file` takes it), accepted (the first stage
starts it) or neither. The action names follow the steps of `install` in `stage2.rs`. Each
FAT operation is the one directory-sector write that decides it; `CardFails`, `PowerCut`
and the failing alternative of `Operation` (reported failed, but on the card) come between
or in any of them. A directory sector is taken to be written whole. What a second command
does to a volume where mkdir freed the cluster of an entry that reached the card is not
modelled ("freed").

### Transfer v2 (`UploadV2`) and the dialogue (`HostConsole`)

`UploadV2`: bytes and the device's lines cross a line that drops, changes and inserts up to
`MaxFaults` of them; time passes only while the line is quiet, since the shortest timeout
is five seconds and a byte takes 87 us. A CRC is a token of its content. The three
callers (`ram_boot`, `put`, `install_stage2`) differ in what they do after an error;
`install_stage2` does not read to the prompt after an `UploadError`, so `NotLeftInExchange`
is about the other two. The device's drain before an exchange (`upload.rs:72`) takes all
that is on the line in one step; bytes that arrive during the drain are not told apart from
those before it.

`HostConsole`: what is typed and printed are tokens; the device may be anywhere when the
host connects. A poll ends after the device has answered what it was sent, unless
`split`, with which a read and a drain may end between any two answers. `late` records that
a drain, or a poll that found a prompt, ended while the device still had something to read
or to answer: the prompt may then be an old one. A command that starts with nothing typed
and left over clears it.

### The scripts

Each module follows one script's `main` and keeps what outlives a step: files, locks,
stamps, children, tags, a message. External tools are what they leave behind (a whole
binary or none, a report with some slack, a verdict). `SimRunner` interleaves several
processes and kills; `PnrSeeds` its children and SIGTERM; `EqyCheck`, `MakeDist` and
`Release` successive runs with edits, commits and kills between them; `Mutation` mcy's
tasks. A design of `EqyCheck` is what its top computes for all values of a few ports, the
dependency it was built with and whether the top uses it; `RTL_DIRS` is the working tree's,
so gold gets a dependency only while the working tree declares one. A field of a message in
`Release` may be edited to any value, and verify compares some of the fields only. `Licenses` walks a dependency graph; `FatImage` and `Rv32Asm` are algorithms checked
against a reader of the image and against the RTL's decoder.

## Runs

| run | instance | states, about | shows |
|---|---|---|---|
| `window` | 2 blocks of 2 words, caches of 1 line, 1 lane, latencies 5 and 8 | 212,000 | `ImplementsMemory` (refinement of `WindowMemory`), the internal contracts below |
| `window_lanes` | 2 lanes, every partial store | 177,000 | masks: `LanesSound`, `ImplementsMemory` |
| `window_timing` | 8-word lines, 2 lines a cache, the board's latencies 35 and 34 | 264,000 | `CostsAsCounted` |
| `hart_programs` | 12 programs, FIFOs of 5 | 128,000 | `RunsAsWritten`, `InterruptIsReal`, `Ends` |
| `sd_card` | 4 kinds of card, 10 fault sets, 2 sectors, 3 calls | 349,000 | `NoViolations`, `ReportsAreTrue`, `CallsReturn` |
| `fat_volume` | 5 clusters, 3 FAT sectors, 2 names, up to 3 commands; 4 kinds of volume | 439,000 | `SoundCard`, `NoLostCluster`, `FileNeverGone`, `EveryCommandEnds` |
| `stage2_install` | 4 images (two accepted, one too old, one broken), 3 faults | 91,000 | `OnlyNewReplaces`, `InstallKeepsPrevious`, `InstallInv`, `Recovers` |
| `stage2_too_old` | 2 images, 1 fault | | a violation of `StaysBootable`: see Findings |
| `upload_v2` | 4 files of up to two blocks, 2 faults of the line, 2 calls | 232,000 | `TransfersTheFile`, `NotLeftInExchange`, `BothEnd` |
| `console` | device anywhere, 5 commands, 3 in a row; 2 with split reads | 412,000 | `TypedForItsStage`, `OwnReply`, `EndsForAReason` |
| `scripts` | `SimRunner` (without kills; with them and two gate-level tests of one toplevel; with flags put back after one), `Mutation`, `EqyCheck`, `Licenses`, `MakeDist`, `Release` (2), `Rv32Asm` (2) | 2,853,000 | one invariant a script |
| `scripts_end` | `SimRunner` with kills, `Mutation`, `PnrSeeds` (2), `FatImage` | 133,000 | `SeedIsTheBest`, `ImageHoldsTheFiles`, `EveryScriptEnds` |

Properties of the window:

- `ImplementsMemory`: every load and fetch gets the last value stored at its address,
  self-modified code included; only a store changes the memory; only the button loses
  stores. The abstract memory is *defined* from the caches and the PSRAM (`Memory`: the
  data cache's word where it holds the block), the instruction cache is not part of it.
- `LanesSound` (`TypeOK`, `StaleOnlyWhereStored`): the PSRAM differs from a cached word only in masked bytes of a
  dirty line, which is why a clean line may be dropped.
- `BurstContract` (`CountsWords`, `OneTransferAtATime`), `TransferHeld`: the contract
  between the caches, the bridge and the controller, each counting a burst on its own.
- `FillReadsFresh`: a fill never reads a block that is dirty in the data cache.
- `SoftResetFindsIdle`, `SweptBeforeStart`: what the resets may rely on.
- `HackWriteBackHits`: the store of Hack's `AM=M+1` never waits.
- `CostsAsCounted`: an access waits exactly 0, 49, 99 or 100 cycles as the headers of
  the caches say (and the emulator copies), and never more than 100, so every access
  completes. This is the window's liveness, stated as a bound: it needs no fairness.

Of the firmware and the host:

- `RunsAsWritten`: every value a program's comments give holds there, whenever the
  interrupts come, and the bytes its docstring names are printed. `InterruptIsReal`: what
  EXECUTE takes is still pending and enabled. `Ends`: every program but `umode` ends.
- `NoViolations`: a strict card has nothing to report (clock, power-up, alignment).
  `ReportsAreTrue`: a call reported done is so on the card, and the card is left with
  nothing to send. `CallsReturn`: whatever the card does.
- `SoundCard`: after every single sector write, what a mount finds is sound (chains end, no
  cluster in two of them, directories hold directory sectors). `NoLostCluster`: when a
  command is over, refused or not, no cluster is lost and both FATs agree.
  `FileNeverGone`: a file being replaced or moved is there in one form at every moment.
- `TransfersTheFile`: what is committed is the host's file byte for byte, a call that
  returned had it committed, a RAM boot stores only in its window. `NotLeftInExchange`: the
  next command is not taken for bytes of a file. `BothEnd`.
- `TypedForItsStage`: the keys `i` and `b` are read by the first stage, each line (`ls`,
  `mkdir`, `run`, `reset`) by the second from its first character; none is taken for keys of
  the other (`r` is a reset there) or lost in a reset. This holds with split reads too, until
  an answer comes late (`late`), and again from the first command that finds nothing left
  over. `OwnReply`: `s2_cmd` returns the reply to its own line, also with
  another command's output still arriving. `EndsForAReason`: every command ends, and, until
  an answer comes late, gives up only on a device that is at no prompt.

Of the scripts, one invariant each, the conjunction of the promises its module names:
`SimulatesItsOwnBuild`, `ScoreIsTrue`, `EquivalentMeansIt`, `DistributionIsWhole`,
`ReleaseIsTrue`, `AssemblesTheCall`, `SeedIsTheBest`, `ImageHoldsTheFiles`; and
`EveryScriptEnds` for those that wait for others. Where a script has a case it does not
cover (the table under Findings), the conjunct says exactly which, as a disjunct, and the
instances reach it: `LoadsAWholeBinary` and `FlagEditsApply` of `SimRunner`,
`EquivalentIsEquivalent` and `AcceptedForItsReason` of `Mutation`.

### Bounds and why they are enough

One line a cache makes every block compete for it, so every miss with a dirty victim, every
probe and every invalidation of the line just looked up happens; two blocks give two tags.
Two words a line are the least with a first and a last word; the counters' widths at eight
words are covered by `window_timing` and, for all sizes, by `TypeOKTheorem`. The latencies
5 and 8 are the least the controller's arithmetic allows, with the parity of the board's;
what depends on their values is checked with the real ones. Two byte values tell stale from
fresh. `ProgOffs`, `ProgOps` and `BootModes` bound the program in the runs that are about
something else. `RST_PULSE` 2 has a first and a last cycle.

The window runs use a `VIEW` (`LiveState`): the registers without those whose value is
overwritten before anything reads it. Each clause names when its register is dead; two
states equal under the view have the same successors under it and agree on every property.

`MaxFaults` 3 of `Stage2Install`: a cut install, a cut install on what that left, and a
card error in a third. The theorems about it, the window, `UploadV2`, `SdCard`,
`HostConsole` and `EqyCheck` have no such bound.

`Hart`: FIFOs of five entries (the SoC has 32); `uart_drop` is sent one byte more than fit. `SdCard`: loops of two or three tries have a first and a
last; three calls let a fault of the first meet the third. `FatVolume`: five clusters fill
up; a file of two clusters lies in two FAT sectors; one entry a directory cluster makes
directories grow, four let them not. `UploadV2`: a whole block and a short one, the header
in the first; two faults, so that a lost byte and a damaged answer meet. `HostConsole`:
three commands, so that one meets what two before it left. The scripts' instances and the
case each is for are commented in `MCScripts`.

Deadlock is not checked where a run's bound ends its behaviours or where a script or a
device is simply done (`CHECK_DEADLOCK FALSE`); it is in the runs of the window, of
`Stage2Install` and of the hart, which never stop.

### Fairness

All weak, and each on what runs by itself:

- `Stage2Install`: `InstallStep`, an install that runs takes its next step. `FatVolume`:
  `Work`, likewise; the firmware is one loop and each wait of the card driver is bounded,
  which `CallsReturn` shows. Cuts and card errors are not fair.
- `SdCard`: the driver, and the controller's byte. Not the card: it may stay mute.
- `UploadV2`: the device, the host and the passing of time. Not the line.
- `HostConsole`: the device's loop and the host's. Not the end of a load or of a command.
- `Hart`: the clock, the timer reaching its compare, the bytes the host sends and the
  transmitter.
- `SimRunner`: each process (a process waiting for a lock is not enabled); kills and edits
  are not fair. `PnrSeeds`: the script, and each child: place and route ends. `Mutation`:
  the script with its timeouts, not a mutant's simulation or proof. `FatImage`: the builder.

## Findings

About the claim of `stage2.rs` that every point where power can fail leaves one of `.BIN`
and `.OLD` bootable (`StaysBootable`).

`stage2_too_old`. `install` keeps `.BIN` as `.OLD` if `load_file` takes it; the first stage
also asks `check_stage2`. A `.BIN` that is intact but too old (or Hack) replaces a bootable
`.OLD`, and power lost before the last rename leaves nothing to boot. The same happens when
`load_file(...).is_ok()` is false for a card read error and a good `.BIN` is removed
(`LoadErrors` TRUE). `StaysBootableTheorem` proves that these two are the only ways: with
every loadable image accepted and no such read error, the claim holds for any number of
cuts.

### Where the code and its comments part

Found while modelling. Each is the definition of its module that names the case: either it
does not hold under the constants given and no run checks it, or (marked *) a run checks it
and it holds because it names the case as its exception.

| definition | with | what happens, and what the code says of it |
|---|---|---|
| `FatVolume!ZeroedBeforeLinked` | one entry a cluster, refused writes | `free_slot` puts the link to a directory's new cluster into the FAT cache; when zeroing the cluster fails, the caller's clean-up flushes the cache (`write.rs:172`). `write.rs:169`: "zeroed (all entries unused) before the link to it reaches the card" |
| `FatVolume!NoEntryToFree` | mkdir, writes reported failed | the entry is on the card and its cluster is freed (`write.rs:345`: "No entry points to the cluster: give it back where the card allows") |
| `SdCard!AddressesAsTheCardTakesThem` | an SDHC card, CMD58 unanswered | init takes it for SDSC and addresses bytes (`sdcard.rs:157`; `:196` "SDHC/SDXC take block numbers, SDSC byte addresses") |
| `HostConsole!MeetsItsStage` | `late` | `enter_s1` sends `reset` for a prompt that answers an earlier key; the first stage takes the second one's `r` (`vux_tool.py:513`), and a line or a key typed next is read at a prompt, in the autoboot window, by a loading device or by an application. `TypedForItsStage` is `MeetsItsStage` without `late` |
| `SimRunner!LoadsAWholeBinary` * | two gate-level tests of one toplevel on a fresh tree | the slower process replaces the copy of the cell models after the faster one built, and rebuilds what that one loads (`sim_runner.py:140`; `:18` "any two tests (even of the same toplevel) can run concurrently") |
| `SimRunner!FlagEditsApply` * | kills, two edits (`reverted`) | killed between build and stamp, and the edit taken back: the binary of the other flags stays (`sim_runner.py:332`, `:309`) |
| `PnrSeeds!Traceable` | SIGTERM | between the copies of the adopted seed: netlist of one seed, record of another (`run_pnr.py:172`; `:19` "always traceable to a seed") |
| `PnrSeeds!NoOrphans` | SIGTERM | between `Popen` and the entry in `running`: the child goes on (`run_pnr.py:121`, `:84`). `SeedIsTheBest` shows it is the only one that can |
| `Hart!UmodeIrqFromU` | `umode` | MIE is set where the comment says clear, so the interrupt may be taken in M and the program then never ends (`lockstep_programs.py:684`) |
| `Mutation!EquivalentIsEquivalent` * | vacuous proofs that take longer than the self-test's 30 s | the timeout counts as the counterexample the self-test asks for (`mutation.py:455`, `:442`) |
| `Mutation!AcceptedForItsReason` * | two mutants with one description | the entry for one explains the other (`mutation.py:512`, `:123`) |
| `EqyCheck!GoldIsWhole` | a working tree whose `Veryl.toml` does not declare the base's dependency | gold is marked done without it (`run_eqy.py:55`, `:78`); later runs on that commit that need it do not elaborate and say NOT PROVEN EQUIVALENT until the cache is removed. EQUIVALENT stays true (`EquivalentMeansItTheorem`): a top that uses a missing dependency does not elaborate |
| `EqyCheck!SameVeryl` | an update of veryl | the gold cache is keyed by commit alone (`run_eqy.py:69`; `:12` "built there with the same `veryl`") |
| `Licenses!UnshippedUnderApache` | `(Apache-2.0 OR MIT) AND X` | taken for an offer under Apache-2.0 alone (`make_dist.py:183`, `:181`) |
| `Release!PublishedTreeTested` | CI re-run after the board test | same bitstream, another second stage or demo: published (`release_check.py:158`; `:7`, `docs/RELEASING.md:3`) |
| `Release!PageStatesTheFacts` | the seed edited in the message | verify compares commit, hash and version, not `pnr seed` (`release_check.py:39`, `:150`): the page states another seed than the dist's |

## Proofs

Checked by TLAPS, for every value of the constants that satisfies the named assumptions.

- `SocWindowProofs!TypeCorrect`: `Spec => [](TypeOK /\ BurstInv)`. `TypeOK` alone is not
  inductive: the cursor of a burst stays in the line only because the cycles that advance
  it are counted, which `BurstInv` says (the cursor, the `wdata_next` pulses and the end of
  a burst as functions of the elapsed cycles). The argument is one lemma per component's
  clock edge, one for the types of the wires, and the composition.
  Assumptions: `SizeAssumption`, `NonEmptyAssumption`, the two splits, `LatencyAssumption`
  (read latency odd, write latency even: the controller answers in every second cycle),
  `SegmentAssumption`, `ResetAssumption`.
- `SocWindowProofs!SweptBeforeStartTheorem`: with `SweepInv`, that each sweep's index and
  the power-up count are the power-on counter until they are done.
- `SocWindowProofs!WindowInvariant`: `WindowInv` of `SocWindowInv` is inductive.
- `SocWindowTimingProofs`: `TimingInvariant`, and from it `CostsTheorem`.
- `SocWindowMemoryProofs!DataInvariant`, `ImplementsMemoryTheorem`.
- `Stage2InstallProofs`: `InstallInvariant` (`InstallInv` is inductive as it stands: what
  install knows of the three files at each step), and from it `OnlyNewReplacesTheorem`,
  `InstallKeepsPreviousTheorem` and `StaysBootableTheorem`.
- `UploadV2Proofs`: `UploadInvariant`, and from it `TransfersTheFileTheorem` and
  `NotLeftInExchangeTheorem`.
- `SdCardProofs`: `SdInvariant`, and from it `NoViolationsTheorem` and
  `ReportsAreTrueTheorem`.
- `HostConsoleProofs`: `ConsoleInvariant`, and from it `TypedForItsStageTheorem` and
  `GivesUpTheorem`; `OwnReplyTheorem` from the part of it that needs no silence.
- `EqyCheckProofs`: `EqyInvariant`, and from it `EquivalentMeansItTheorem`.

Every inductive invariant was checked by TLC on the instances of its runs before it was
proved; most of their clauses were found as a step TLC or the prover showed to be missing.

### The window

`BurstContract`, `SoftResetFindsIdle` and the others are not inductive: each needs to know
what the other components are doing. `WindowInv` (`SocWindowInv`) is a conjunction of:

- `CpuInv`: what the CPU's state says of the access it is making;
- `ControlInv`: the caches, the bridge and the controller agree whether a transfer runs,
  of which cache, and how many words of it have moved;
- `ReadInv`: what a cache has read of its RAMs is what they hold, unless it is marked to be
  read again or is about to be overwritten;
- `SweptInv`, `TagInv`: which entries are valid during and after the sweep, and that the
  instruction cache neither holds nor fills a block that is dirty in the data cache;
- `HackInv`: between the load and the store of a Hack `M` the line stays.

One lemma per component's edge and conjunct, one composition, and the three actions of
`SocWindow`. `BurstContractTheorem`, `SoftResetTheorem`, `FillReadsFreshTheorem`,
`HackWriteBackTheorem` and the action property `TransferHeldTheorem` follow.

`CostsTheorem` is `TSpec => []CostsAsCounted`, with the latencies and the length of a line as
parameters: the window with the counter of `MCWindowTiming`. The costs themselves say nothing
of an access that still waits. `TimingInv` does, next to `WindowInv`: during a write-back
`waited` is the burst's elapsed cycles and two, during a fill they and one more than what came
before (`DBases`, `IBases`: nothing, or a whole write-back), and without a transfer an access
is in its first lookup, in the cycle after its fill, in its last, or is a fetch looked up again
after its block was written back. Two things had to be shown that the headers leave unsaid. An
access is looked up in its very first cycle, because the CPU has its address on the bus a cycle
early and writes nothing in it (`AddressReady`; for Hack's store in `HACK_WB` it is `HackInv`).
And the lookup after a fill hits, the tag it wrote being read a cycle later. As the bound holds
in every state, and the count rises in every cycle of a waiting access, every access completes.

The data are proved apart, on top of it: `DataInvariant` adds the words a transfer has
moved so far, that the instruction cache's valid lines are copies of the memory, and that a
byte of the PSRAM is stale only where the mask of a dirty line (or of the write-back under
way) says so; `LanesSoundTheorem` is its consequence.

`ImplementsMemoryTheorem` is the refinement `Spec => Memory!Spec`. The abstract word is the
data cache's where it holds the block, the PSRAM's otherwise. The initial
states map to initial ones, and one lemma per case shows that an edge is a stutter (also
those that move words), a store, a load or a fetch of the value the map gives, or the
button's loss of what was not written back.

Assumptions of all of these: those of `TypeCorrect`. No bound on the sizes, the number of
byte lanes, the program or the number of resets.

### Transfer v2

`UploadInv` (`UploadV2Inv`) is `TypeOK /\ TalkInv /\ SinkInv`. The properties speak of the
two ends; what makes them true is what is on the line between them:

- `TimeInv`: the device's silence began no later than the host's, so it gives up first;
- `LineInv`: the lines the device sent since the command come in order, and only those can
  still be on the way to the host when it waits for one;
- `SeqInv`, `CrcSent`, `OkInv`: what each side has sent when the other has got so far;
- `CrcInv`: the last byte of a CRC reaches a device that waits for it only from the host
  whose file was sent. It is why a damaged transfer cannot be completed by bytes of the
  next attempt;
- `PromptInv`: whose prompt a prompt on the line is;
- `SinkInv`: the sink holds what was received, inside the window of the second stage.

There is one lemma per action. Most steps have one of three shapes (the device reads or
answers, bytes leave the line to the host, one of them is garbled), and every clause is
shown to survive each shape.
Assumptions: `UploadAssumption` (the host's timeout is above the device's, a block is longer
than the header), `FilesAssumption` (a file is made of bytes and of what looks like the
beginning of a CRC), and `PowersAssumption`, that a power of the base is positive:
arithmetic, but its proof is an induction. The CRC of the model is the content it is of,
so chance collisions are left out. No bound on the files, their sizes, the calls or the
faults.

### The card and its driver

`SdInv` (`SdCardProofs`) says, for each place the driver may be at, what the card has heard
and what it has left to send. `Pending` are the bytes of the driver's step that the card
has not seen, `IsRest(r, w, k)` that `r` is `w` without its first `k` bytes:

- `FrameInv`: in a frame, the card's buffer is its beginning and `Pending` its rest;
- `AnswerInv`, `WordInv`, `TokenInv`, `BlockInv`: after it, `resp` is the rest of this
  command's answer (`Full`), and the bytes received are its beginning; a command the card
  is mute to has no answer, and the polls for it read 255;
- `WriteInv`, `ProgrammingInv`: the same of a block that is written and of the busy byte;
- `CsInv`: where the card is deselected it has nothing left to send and listens;
- `PowerInv`, `ClockInv`: the 74 clocks are counted or still to come; the clock is fast
  only with a card that is ready;
- `StateInv`, `OpInv`, `TriesInv`, `PollInv`, `ResultInv`: types, the call, the counters of
  the loops, and that an operation about to return "ok" has its data in its sector.

One lemma per byte (`ByteClocked`, split by what the card is doing) and one per action of
the driver. Two facts carry it. An answer's second byte is its first that is not 255, so a
poll that ends early has read the R1 of this command and the next byte is the data; and a
loop gives up only on a card that has nothing left to send (`R1Tries`, `TokenTries` and
`BusyTries` above 1: with one try the rest of an answer would be taken for the next
command's). That a write reported done is on the card rests on the read that verifies it,
not on the data response, and so holds whatever was lost or rejected before.

Assumptions: `SdCardAssumption`; `SdDriverAssumption` (the tries above, and a preamble that
with the byte before it makes 74 clocks); `AddressAssumption` (the address of a used sector
is a `u32`, and a card that forgives takes it for the block number, which it does below
65536). No bound on the sector's size, the loops, the calls, the programs or the faults.

### The dialogue

`ConsoleInv` (`HostConsoleProofs`) has a part that holds however reads and drains end:

- `TypeInv`, `PlaceInv`: types, and which step of the command each place of the host is;
- `EchoInv`: while `s2_cmd` reads, the end of what was echoed is the end of the second
  stage's line (`TailInv`), and the echo of the host's own line is followed by the reply to
  it or an error, or by nothing and the device is executing it. From this `OwnReplyTheorem`:
  output of earlier commands may precede the echo, but none can stand behind it.

and one, `StageInv`, for as long as no answer is late (`~late`):

- `LooseInv`: between steps only Enters are on their way, and before a key or a line of a
  step the device is at the prompt the step before it found;
- `TypedInv`: while the host polls, what is typed is Enters, or `reset` and Enters at the
  second stage's prompt, in one of three places;
- `PromptInv`, `AnsweredInv`: a prompt on its way is the device's present one, and a device
  that has taken every Enter has an answer on its way; so a silent device is at no prompt;
- `CountInv`: a device at a prompt costs at most three polls: one, one more for a `reset`,
  one more for a banner;
- `BootInv`, `MarkInv`, `LineInv`: the long reads: what is typed and what was printed, token
  by token.

One lemma per action. The two theorems of the stage are consequences of single states or
steps; the difficulty is `AnsweredInv`, which every action of the device or the host can
disturb. Assumptions: `ConsoleAssumption`, that replies are none of the device's other
outputs and that more than two polls fit the deadline of `enter_s1` and `enter_s2`: in the
code 500 of 20 ms, 400 of 50 ms. No bound on the commands, the polls or the waits.

### The equivalence check

`EqyInv` (`EqyCheckProofs`) is `StateInv`, `CacheInv` (a gold directory that is marked holds
the SoC of its commit, and of the dependencies its commit's or nothing), `FillInv` (what a run has put there at each step: the mark comes
last, so a run killed on the way leaves a directory that is filled again) and `RunInv` (what
is compared is of the base and of the working tree). `EquivalentMeansItTheorem` does not
need gold to be whole: what eqy compares has elaborated, so a top that uses its dependency
had it. For any designs, ports, edits, commits, updates of veryl and kills and any number
of ties a run (the last one of a port counts), under `EqyAssumption`: the shape of a design,
and that one that uses its dependency has it.

### Only model-checked

- All liveness (`Recovers`, `Ends`, `CallsReturn`, `BothEnd`, that a command ends in
  `EndsForAReason`, `EveryCommandEnds`, `EveryScriptEnds`): it needs fairness.
- `Hart`: `RunsAsWritten` and `InterruptIsReal` are about the given programs. The second is
  not true of every program: a store that moves `mtimecmp` leaves the timer's line one
  cycle behind, which no program of `lockstep_programs.py` meets with the interrupt open.
- `FatVolume` and `FatImage` (chains), `Rv32Asm` (encodings), `LockstepPrograms`: what
  their recursive definitions compute needs induction over data.
- The modules without a proof module: the other scripts.

## Plan

Proofs next, in this order; all of these modules are free of RECURSIVE operators.

1. `MakeDist`, `Release`: `AcceptedIsWhole`, `PublishedPackTested`, for any history.
2. `FatVolume`: that no cluster is in two chains, at least for the cache and `link`.

To model, where it adds something: the reading side of `fat/` with long names, the Hack
assembler of the tools, the emulator's cost model as an abstraction of `CostsAsCounted`,
`mtime` by halves, the multiplier's iteration.

## Not modelled

- The emulator: a second implementation of the SoC, compared with the RTL in lockstep.
- Decoders (but for their fields, in `Rv32Asm`), ALU and register file: tables and
  combinational arithmetic, covered by the ISA tests. The multiplier's arithmetic.
- Names, text and formatting; the line editor; the interactive monitor.
- A soft reset in the middle of a card operation; `vux_tool.py:772` with an empty path
  (an IndexError); HEAD moving while `make_dist` runs, and its dirty flag.
- `random_rv`, `muldiv`, `sd_clkdiv` and `s2_launch` of the lockstep programs; the cache
  programs, whose questions `SocWindow` answers.
- The emulator's front ends, benchmarks, demos, the Zephyr and Linux ports, the scripts
  that only call one tool after another, vendored code.

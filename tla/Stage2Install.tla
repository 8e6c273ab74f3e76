--------------------------- MODULE Stage2Install ----------------------------
(***************************************************************************)
(* The second stage on the card (firmware/fw_common/src/fat/stage2.rs):    *)
(* install replaces \VUX9K\STAGE2.BIN through .NEW and .OLD, select_boot    *)
(* starts .BIN or else .OLD, and power may fail, or the card refuse a       *)
(* sector, between any two writes.                                          *)
(*                                                                         *)
(* The volume is modelled file by file.  A file appears, changes its name  *)
(* or goes with one write of one directory sector; the writes of an        *)
(* operation before that one (data, chain, long-name slots) and after it   *)
(* (the freed chain) change no file.  So an operation is one step, and     *)
(* when the card fails it, that write may have reached the card or not     *)
(* (fw_drivers' write_block reports false for a sector it wrote but could   *)
(* not read back).                                                         *)
(***************************************************************************)
EXTENDS Naturals

CONSTANTS
  Images,       \* contents of files
  Loadable,     \* those load_file takes: v4, size, window and CRC
  Accepted,     \* those the first stage starts: check_stage2 takes them too
  Absent,       \* no file of that name
  Directory,    \* a directory of that name
  MaxFaults,    \* bound: power cuts and card errors
  LoadErrors    \* whether load_file may fail on a file that is good (a bound)

ASSUME ImagesAssumption ==
  /\ Accepted \subseteq Loadable /\ Loadable \subseteq Images
  /\ Absent \notin Images /\ Directory \notin Images /\ Absent # Directory
  /\ MaxFaults \in Nat /\ LoadErrors \in BOOLEAN

VARIABLES
  card,      \* what each name is in \VUX9K\
  vux,       \* what \VUX9K is in the root
  pc,        \* where the running command is; "off": power is off
  image,     \* the file received for it
  result,    \* what the last command returned
  before,    \* card, when it began
  faults     \* power cuts and card errors so far

vars == <<card, vux, pc, image, result, before, faults>>

Names == {"BIN", "OLD", "NEW"}
Entries == Images \cup {Absent, Directory}
Cards == [Names -> Entries]

\* select_boot: the file the first stage starts.
SelectBoot(c) ==
  IF c["BIN"] \in Accepted THEN c["BIN"]
  ELSE IF c["OLD"] \in Accepted THEN c["OLD"]
  ELSE Absent

Bootable(c) == SelectBoot(c) # Absent

-----------------------------------------------------------------------------
\* The volume's operations, on the files.
Removed(c, n) == [c EXCEPT ![n] = Absent]
Created(c, n, x) == [c EXCEPT ![n] = x]
Renamed(c, n, to) == [c EXCEPT ![to] = c[n], ![n] = Absent]

IsFile(n) == card[n] \in Images
Free(to) == card[to] = Absent

Fault == faults < MaxFaults /\ faults' = faults + 1

Return(r) == pc' = "idle" /\ result' = r
Goto(l) == pc' = l /\ UNCHANGED result

\* The write that makes the card c: reported done, or failed though c is there.
Operation(c, then) ==
  /\ card' = c
  /\ \/ then /\ UNCHANGED faults
     \/ Return("error") /\ Fault

\* An error return that writes nothing.
Refuse == Return("error") /\ UNCHANGED <<card, faults>>

-----------------------------------------------------------------------------
\* stage2::install, once a file has been received: check_stage2 and the checks of
\* load_file on it come before the first write.
Install(x) ==
  /\ pc = "idle"
  /\ image' = x /\ before' = card
  /\ IF x \in Accepted THEN Goto("dir") ELSE Return("error")
  /\ UNCHANGED <<card, vux, faults>>

\* \VUX9K\, made where it is missing.  When the card fails the write of mkdir's entry
\* and the entry is there all the same, mkdir has freed the cluster it points to
\* ("freed"): what a later install does on such a volume is not modelled.
FindDir ==
  /\ pc = "dir"
  /\ \/ vux = "dir" /\ Goto("stale") /\ UNCHANGED <<vux, faults>>
     \/ vux \in {"file", "freed"} /\ Return("error") /\ UNCHANGED <<vux, faults>>
     \/ vux = "missing" /\ vux' = "dir" /\ Goto("stale") /\ UNCHANGED faults
     \/ vux = "missing" /\ vux' = "freed" /\ Return("error") /\ Fault
  /\ UNCHANGED <<card, image, before>>

\* Mutant: the .NEW of a cut install stays.
RemoveStaleNever ==
  /\ pc = "stale"
  /\ Goto("create")
  /\ UNCHANGED <<card, vux, image, before, faults>>

RemoveStale ==
  /\ pc = "stale"
  /\ \/ card["NEW"] = Absent /\ Goto("create") /\ UNCHANGED <<card, faults>>
     \/ card["NEW"] = Directory /\ Refuse
     \/ IsFile("NEW") /\ Operation(Removed(card, "NEW"), Goto("create"))
  /\ UNCHANGED <<vux, image, before>>

\* The card may keep other bytes than it was given.
CreateNew ==
  /\ pc = "create"
  /\ IF Free("NEW")
     THEN \/ Operation(Created(card, "NEW", image), Goto("verify"))
          \/ /\ \E x \in Images \ Loadable : card' = Created(card, "NEW", x)
             /\ Goto("verify") /\ Fault
     ELSE Refuse
  /\ UNCHANGED <<vux, image, before>>

\* .NEW is read back.  Mutant: it is not compared.
VerifyNewNever ==
  /\ pc = "verify"
  /\ Goto("retire")
  /\ UNCHANGED <<card, vux, image, before, faults>>

VerifyNew ==
  /\ pc = "verify"
  /\ IF card["NEW"] = image THEN Goto("retire") ELSE Return("error")
  /\ UNCHANGED <<card, vux, image, before, faults>>

\* What to do with .BIN: load_file says whether it is worth keeping.  Mutant: .BIN
\* is kept whatever it is.
RetireBinAny ==
  /\ pc = "retire"
  /\ Goto(IF card["BIN"] = Absent THEN "publish" ELSE "dropOld")
  /\ UNCHANGED <<card, vux, image, before, faults>>

RetireBin ==
  /\ pc = "retire"
  /\ \/ card["BIN"] = Absent /\ Goto("publish") /\ UNCHANGED faults
     \/ card["BIN"] \in Loadable /\ Goto("dropOld") /\ UNCHANGED faults
     \/ card["BIN"] \notin Loadable \cup {Absent} /\ Goto("dropBin") /\ UNCHANGED faults
     \/ card["BIN"] \in Loadable /\ LoadErrors /\ Fault /\ Goto("dropBin")
  /\ UNCHANGED <<card, vux, image, before>>

RemoveOld ==
  /\ pc = "dropOld"
  /\ \/ card["OLD"] = Absent /\ Goto("keep") /\ UNCHANGED <<card, faults>>
     \/ card["OLD"] = Directory /\ Refuse
     \/ IsFile("OLD") /\ Operation(Removed(card, "OLD"), Goto("keep"))
  /\ UNCHANGED <<vux, image, before>>

\* Mutant: .BIN is removed before .NEW takes its name.
KeepBinRemoves ==
  /\ pc = "keep"
  /\ Operation(Removed(card, "BIN"), Goto("publish"))
  /\ UNCHANGED <<vux, image, before>>

KeepBin ==
  /\ pc = "keep"
  /\ IF Free("OLD")
     THEN Operation(Renamed(card, "BIN", "OLD"), Goto("publish"))
     ELSE Refuse
  /\ UNCHANGED <<vux, image, before>>

RemoveBin ==
  /\ pc = "dropBin"
  /\ \/ IsFile("BIN") /\ Operation(Removed(card, "BIN"), Goto("publish"))
     \/ ~IsFile("BIN") /\ Refuse
  /\ UNCHANGED <<vux, image, before>>

PublishNew ==
  /\ pc = "publish"
  /\ IF Free("BIN")
     THEN Operation(Renamed(card, "NEW", "BIN"), Return("ok"))
     ELSE Refuse
  /\ UNCHANGED <<vux, image, before>>

InstallStep ==
  \/ FindDir \/ RemoveStale \/ CreateNew \/ VerifyNew \/ RetireBin
  \/ RemoveOld \/ KeepBin \/ RemoveBin \/ PublishNew

-----------------------------------------------------------------------------
\* `install -u`: the file becomes .BIN unchecked.
InstallUnchecked(x) ==
  /\ pc = "idle"
  /\ image' = x /\ before' = card
  /\ IF vux = "dir" THEN Goto("uRemove") ELSE Return("error")
  /\ UNCHANGED <<card, vux, faults>>

UncheckedRemove ==
  /\ pc = "uRemove"
  /\ \/ card["BIN"] = Absent /\ Goto("uCreate") /\ UNCHANGED <<card, faults>>
     \/ card["BIN"] = Directory /\ Refuse
     \/ IsFile("BIN") /\ Operation(Removed(card, "BIN"), Goto("uCreate"))
  /\ UNCHANGED <<vux, image, before>>

UncheckedCreate ==
  /\ pc = "uCreate"
  /\ Operation(Created(card, "BIN", image), Return("unchecked"))
  /\ UNCHANGED <<vux, image, before>>

\* The card fails before an operation's write reaches it, reads fail, or the card is
\* full: the command returns.
CardFails ==
  /\ pc \notin {"idle", "off"} /\ Fault
  /\ Return("error")
  /\ UNCHANGED <<card, vux, image, before>>

\* Power fails, in or between commands; the first stage, or a second stage it started
\* or got by a RAM boot, then runs from the start.
PowerCut ==
  /\ pc # "off" /\ Fault
  /\ pc' = "off" /\ result' = "cut"
  /\ UNCHANGED <<card, vux, image, before>>

PowerOn ==
  /\ pc = "off"
  /\ pc' = "idle"
  /\ UNCHANGED <<card, vux, image, result, before, faults>>

\* A card as a PC may leave it.
Init ==
  /\ vux \in {"missing", "file", "dir"}
  /\ card \in IF vux = "dir" THEN Cards ELSE {[n \in Names |-> Absent]}
  /\ pc = "idle" /\ image \in Images /\ result = "none"
  /\ before = card /\ faults = 0

Next ==
  \/ \E x \in Images : Install(x) \/ InstallUnchecked(x)
  \/ InstallStep
  \/ UncheckedRemove \/ UncheckedCreate
  \/ CardFails \/ PowerCut \/ PowerOn

Spec == Init /\ [][Next]_vars

\* An install that runs goes on to its next step: nothing in it waits.
FairSpec == Spec /\ WF_vars(InstallStep)

-----------------------------------------------------------------------------
InstallPcs == {"dir", "stale", "create", "verify", "retire", "dropOld", "keep", "dropBin", "publish"}
Checked == pc \notin {"uRemove", "uCreate"}

\* The types of the card's entries and of the installer's progress.
TypeOK ==
  /\ card \in Cards /\ before \in Cards
  /\ vux \in {"missing", "file", "dir", "freed"}
  /\ pc \in InstallPcs \cup {"idle", "off", "uRemove", "uCreate"}
  /\ image \in Images
  /\ result \in {"none", "ok", "error", "unchecked", "cut"}
  /\ faults \in 0 .. MaxFaults

\* What .OLD is once the install is done: the .BIN it replaces where load_file loaded it.
Previous ==
  (IF before["BIN"] \in Loadable THEN {before["BIN"]} ELSE {before["OLD"]})
    \cup (IF LoadErrors THEN {before["OLD"]} ELSE {})

\* What install knows of the files at each of its steps, which makes the properties
\* below inductive: .NEW is the checked image once it is read back, .BIN and .OLD
\* are untouched until .BIN is retired, and the name the next step takes is free.
InstallInv ==
  /\ TypeOK
  /\ pc \in InstallPcs => image \in Accepted
  /\ pc \in {"dir", "stale", "create", "verify", "retire", "dropOld", "dropBin"} =>
       card["BIN"] = before["BIN"] /\ card["OLD"] = before["OLD"]
  /\ pc = "create" => card["NEW"] = Absent
  /\ pc \in {"retire", "dropOld", "keep", "dropBin", "publish"} => card["NEW"] = image
  /\ pc \in {"dropOld", "keep"} => card["BIN"] \in Loadable
  /\ pc = "dropBin" => card["BIN"] \notin Loadable \/ LoadErrors
  /\ pc = "keep" => card["OLD"] = Absent /\ card["BIN"] = before["BIN"]
  /\ pc = "publish" => card["BIN"] = Absent /\ card["OLD"] \in Previous
  /\ pc = "off" => result = "cut"

\* load_file took a .BIN the first stage does not start, or failed on one it does.
Misjudged ==
  \/ pc \in {"dropOld", "keep"} /\ card["BIN"] \notin Accepted
  \/ pc = "dropBin" /\ card["BIN"] \in Accepted

\* No step of an install changes what the first stage would boot, but to the image
\* being installed: at every point where power can fail the old second stage boots or
\* the new one does.  That needs load_file to have judged .BIN as the first stage
\* would; StaysBootable says it without this condition.
OnlyNewReplaces ==
  [][Checked /\ ~Misjudged => SelectBoot(card') \in {SelectBoot(card), image}]_vars

\* What an install that returned Ok leaves, after any number of cut ones: the new
\* image is .BIN, and .OLD is the .BIN it replaced, or the .OLD that was there where
\* that .BIN does not load (or load_file failed to read it).
InstallKeepsPrevious ==
  pc = "idle" /\ result = "ok" =>
    card["BIN"] = image /\ card["OLD"] \in Previous /\ card["NEW"] = Absent

\* One of .BIN and .OLD stays bootable, wherever power fails.
StaysBootable == [][Checked => (Bootable(card) => Bootable(card'))]_vars

\* Whatever cut installs left on the card, an install begun with no fault to come
\* succeeds (on a card without directories of its files' names).
Recovers ==
  (/\ pc = "dir" /\ faults = MaxFaults
   /\ vux \in {"dir", "missing"} /\ \A n \in Names : card[n] # Directory)
    ~> (pc = "idle" /\ result = "ok" /\ SelectBoot(card) = image)
=============================================================================

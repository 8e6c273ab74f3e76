------------------------ MODULE Stage2InstallProofs -------------------------
(***************************************************************************)
(* Proofs about Stage2Install, for every set of images, every number of    *)
(* faults and every card.                                                  *)
(***************************************************************************)
EXTENDS Stage2Install, TLAPS

\* InstallInv holds of every card the program starts with.
LEMMA InitInstallInv == Init => InstallInv
BY ImagesAssumption DEF Init, InstallInv, TypeOK, InstallPcs, Cards, Entries, Names

\* Each command step leaves what install knows of the files true.
LEMMA NextInstallInv == InstallInv /\ [Next]_vars => InstallInv'
<1> SUFFICES ASSUME InstallInv, [Next]_vars PROVE InstallInv'
  OBVIOUS
<1> USE ImagesAssumption DEF InstallInv, TypeOK, InstallPcs, Cards, Entries, Names,
                             Return, Goto, Fault
<1>1. ASSUME NEW x \in Images, Install(x) PROVE InstallInv'
  BY <1>1 DEF Install, Previous
<1>2. ASSUME NEW x \in Images, InstallUnchecked(x) PROVE InstallInv'
  BY <1>2 DEF InstallUnchecked, Previous
<1>3. CASE FindDir
  BY <1>3 DEF FindDir, Previous
<1>4. CASE RemoveStale
  BY <1>4 DEF RemoveStale, Operation, Refuse, Removed, IsFile, Previous
<1>5. CASE CreateNew
  BY <1>5 DEF CreateNew, Operation, Refuse, Created, Free, Previous
<1>6. CASE VerifyNew
  BY <1>6 DEF VerifyNew, Previous
<1>7. CASE RetireBin
  BY <1>7 DEF RetireBin, Previous
<1>8. CASE RemoveOld
  BY <1>8 DEF RemoveOld, Operation, Refuse, Removed, IsFile, Previous
<1>9. CASE KeepBin
  BY <1>9 DEF KeepBin, Operation, Refuse, Renamed, Free, Previous
<1>10. CASE RemoveBin
  BY <1>10 DEF RemoveBin, Operation, Refuse, Removed, IsFile, Previous
<1>11. CASE PublishNew
  BY <1>11 DEF PublishNew, Operation, Refuse, Renamed, Free, Previous
<1>12. CASE UncheckedRemove
  BY <1>12 DEF UncheckedRemove, Operation, Refuse, Removed, IsFile, Previous
<1>13. CASE UncheckedCreate
  BY <1>13 DEF UncheckedCreate, Operation, Created, Previous
<1>14. CASE CardFails
  BY <1>14 DEF CardFails, Previous
<1>15. CASE PowerCut
  BY <1>15 DEF PowerCut, Previous
<1>16. CASE PowerOn
  BY <1>16 DEF PowerOn, Previous
<1>17. CASE UNCHANGED vars
  BY <1>17 DEF vars, Previous
<1> QED
  BY <1>1, <1>2, <1>3, <1>4, <1>5, <1>6, <1>7, <1>8, <1>9, <1>10, <1>11, <1>12, <1>13,
     <1>14, <1>15, <1>16, <1>17 DEF Next, InstallStep

\* What install knows of the files at each of its steps is so in every reachable
\* state: in particular no rename meets a file of its new name (FatError::Exists), so
\* no cut install blocks the next one there.
THEOREM InstallInvariant == Spec => []InstallInv
BY InitInstallInv, NextInstallInv, PTL DEF Spec

\* No step of a checked install changes what the first stage boots but to the image
\* being installed, given that load_file judged .BIN as the first stage would.
LEMMA NextOnlyNewReplaces ==
  ASSUME InstallInv, [Next]_vars, Checked, ~Misjudged
  PROVE SelectBoot(card') \in {SelectBoot(card), image}
<1> USE ImagesAssumption DEF InstallInv, TypeOK, InstallPcs, Cards, Entries, Names,
                             SelectBoot
<1>1. CASE RemoveStale
  BY <1>1 DEF RemoveStale, Operation, Refuse, Removed, IsFile
<1>2. CASE CreateNew
  BY <1>2 DEF CreateNew, Operation, Refuse, Created, Free
<1>3. CASE RemoveOld
  BY <1>3 DEF RemoveOld, Operation, Refuse, Removed, IsFile, Misjudged
<1>4. CASE KeepBin
  BY <1>4 DEF KeepBin, Operation, Refuse, Renamed, Free, Misjudged
<1>5. CASE RemoveBin
  BY <1>5 DEF RemoveBin, Operation, Refuse, Removed, IsFile, Misjudged
<1>6. CASE PublishNew
  BY <1>6 DEF PublishNew, Operation, Refuse, Renamed, Free
<1>7. CASE UncheckedRemove \/ UncheckedCreate
  BY <1>7 DEF UncheckedRemove, UncheckedCreate, Checked
<1>8. CASE UNCHANGED card
  BY <1>8
<1> QED
  BY <1>1, <1>2, <1>3, <1>4, <1>5, <1>6, <1>7, <1>8
  DEF Next, InstallStep, Install, InstallUnchecked, FindDir, VerifyNew, RetireBin,
      CardFails, PowerCut, PowerOn, vars

\* At every point where power can fail the old second stage boots or the new one does,
\* however many installs were cut before, where load_file judged .BIN rightly.
THEOREM OnlyNewReplacesTheorem == Spec => OnlyNewReplaces
<1>1. InstallInv /\ [Next]_vars =>
        [Checked /\ ~Misjudged => SelectBoot(card') \in {SelectBoot(card), image}]_vars
  BY NextOnlyNewReplaces
<1> QED
  BY <1>1, InstallInvariant, PTL DEF Spec, OnlyNewReplaces

\* The promise of stage2.rs, "every point where power can fail leaves one of the two
\* bootable", holds without condition on a card where every file that loads is one
\* the first stage starts, and that reads what it holds.
THEOREM StaysBootableTheorem ==
  ASSUME Loadable \subseteq Accepted, ~LoadErrors
  PROVE  Spec => StaysBootable
<1>1. ASSUME InstallInv PROVE ~Misjudged
  BY <1>1, ImagesAssumption DEF InstallInv, Misjudged
<1>2. ASSUME InstallInv, [Next]_vars, Checked, Bootable(card) PROVE Bootable(card')
  <2>1. CASE pc \in InstallPcs
    <3>1. image \in Accepted /\ image # Absent
      BY <1>2, <2>1, ImagesAssumption DEF InstallInv
    <3> QED
      BY <1>1, <1>2, <3>1, NextOnlyNewReplaces DEF Bootable
  <2>2. CASE pc \notin InstallPcs
    <3>1. card' = card
      BY <1>2, <2>2 DEF Next, InstallStep, Install, InstallUnchecked, FindDir, RemoveStale,
         CreateNew, VerifyNew, RetireBin, RemoveOld, KeepBin, RemoveBin, PublishNew,
         UncheckedRemove, UncheckedCreate, CardFails, PowerCut, PowerOn, vars, Checked,
         InstallPcs
    <3> QED
      BY <1>2, <3>1
  <2> QED
    BY <2>1, <2>2
<1>3. InstallInv /\ [Next]_vars =>
        [Checked => (Bootable(card) => Bootable(card'))]_vars
  BY <1>2
<1> QED
  BY <1>3, InstallInvariant, PTL DEF Spec, StaysBootable

\* An install that returned Ok, after whatever cut ones, left the new image as .BIN and
\* the file it replaced as .OLD.
THEOREM InstallKeepsPreviousTheorem == Spec => []InstallKeepsPrevious
<1>1. Init => InstallKeepsPrevious
  BY DEF Init, InstallKeepsPrevious
<1>2. InstallInv /\ InstallKeepsPrevious /\ [Next]_vars => InstallKeepsPrevious'
  <2> SUFFICES ASSUME InstallInv, InstallKeepsPrevious, [Next]_vars, (pc = "idle" /\ result = "ok")'
               PROVE  InstallKeepsPrevious'
    BY DEF InstallKeepsPrevious
  <2>1. CASE PublishNew
    BY <2>1, ImagesAssumption
    DEF PublishNew, Operation, Refuse, Renamed, Free, Return, InstallInv, TypeOK, Cards, Names,
        InstallKeepsPrevious, Previous
  <2>2. CASE UNCHANGED vars
    BY <2>2 DEF vars, InstallKeepsPrevious, Previous
  <2> QED
    BY <2>1, <2>2
    DEF Next, InstallStep, Install, InstallUnchecked, FindDir, RemoveStale,
        CreateNew, VerifyNew, RetireBin, RemoveOld, KeepBin, RemoveBin,
        UncheckedRemove, UncheckedCreate, CardFails, PowerCut, PowerOn,
        Operation, Refuse, Return, Goto, InstallInv
<1> QED
  BY <1>1, <1>2, InstallInvariant, PTL DEF Spec
=============================================================================

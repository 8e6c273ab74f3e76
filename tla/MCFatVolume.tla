---------------------------- MODULE MCFatVolume -----------------------------
(***************************************************************************)
(* Volumes of five clusters and three FAT sectors for TLC.  volume is the  *)
(* kind of volume, of card and of commands a behaviour is about:           *)
(*   "cuts"     every command but move on a card that does what it is told *)
(*   "faulty"   files in a directory that does not grow, on a card that    *)
(*              refuses writes or reports them failed                      *)
(*   "moving"   files moved between directories that grow, refused writes  *)
(*   "growing"  every command but move in directories that grow, and both  *)
(*              faults                                                     *)
(* Power may fail in all of them.                                          *)
(***************************************************************************)
EXTENDS FatVolume

VARIABLE volume
allVars == <<volume, vars>>

Faulty == INSTANCE FatVolume WITH
  PerCluster <- 4, Sizes <- {0, 2}, Commands <- {"put", "rm", "mv"}, Faults <- {"refused", "reported"}
Moving == INSTANCE FatVolume WITH
  PerCluster <- 1, Sizes <- {1, 2}, Commands <- {"put", "md", "move"}, Faults <- {"refused"}
Growing == INSTANCE FatVolume WITH
  PerCluster <- 1, Faults <- {"refused", "reported"}, MaxCommands <- 2

MCInit ==
  \/ volume = "cuts" /\ Init
  \/ volume = "faulty" /\ Faulty!Init
  \/ volume = "moving" /\ Moving!Init
  \/ volume = "growing" /\ Growing!Init

MCNext ==
  /\ UNCHANGED volume
  /\ \/ volume = "cuts" /\ Next
     \/ volume = "faulty" /\ Faulty!Next
     \/ volume = "moving" /\ Moving!Next
     \/ volume = "growing" /\ Growing!Next

\* The firmware runs on, as in FatVolume's Spec.
MCSpec == MCInit /\ [][MCNext]_allVars /\ WF_allVars(volume = "growing" /\ Growing!Work /\ UNCHANGED volume)

-----------------------------------------------------------------------------
\* What a mount would find is sound after every single sector write of write.rs: directories end and
\* hold directory sectors, files are whole, no cluster is in two chains; and the FAT cache holds a
\* change only of the sector that is in it.  Not for a directory that
\* grows, or a mkdir, when a write fails; nor for a move, whose two names a cut may leave.
SoundCard == (volume = "cuts" => TypeOK /\ CardSound) /\ (volume = "faulty" => Faulty!CardSound)

\* A finished or refused command loses no cluster and leaves both FAT copies alike.
NoLostCluster == volume = "cuts" => NothingLost

\* While replace runs, and after a cut in it, the old contents or the new are there; while move_to runs,
\* the file is whole in one of the directories.
FileNeverGone ==
  /\ volume = "cuts" => ReplaceKeeps
  /\ volume = "faulty" => Faulty!ReplaceKeeps
  /\ volume = "moving" => Moving!MoveKeeps

\* Every file command ends, its clean-up after an error too.
EveryCommandEnds == (volume = "growing" /\ todo /= <<>>) ~> (volume = "growing" /\ todo = <<>>)
=============================================================================

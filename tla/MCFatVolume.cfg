SPECIFICATION MCSpec
CONSTANTS
  Count = 5
  PerSector = 2
  PerCluster = 2
  Names = {"A", "B"}
  Sizes = {0, 1, 2}
  Commands = {"put", "rm", "mv", "md", "rd"}
  Faults = {}
  MaxCommands = 3
INVARIANTS
  SoundCard
  NoLostCluster
  FileNeverGone
PROPERTY
  EveryCommandEnds
CHECK_DEADLOCK FALSE

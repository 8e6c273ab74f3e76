SPECIFICATION FairSpec
CONSTANTS
  Images = {v10, v11, v9, broken}
  Loadable = {v9, v10, v11}
  Accepted = {v10, v11}
  Absent = Absent
  Directory = Directory
  MaxFaults = 3
  LoadErrors = TRUE
INVARIANTS
  InstallInv
  InstallKeepsPrevious
PROPERTIES
  OnlyNewReplaces
  Recovers

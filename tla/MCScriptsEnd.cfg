SPECIFICATION Spec
CONSTANT
  Tools = {"killed", "mcy_ends", "search", "timing", "image"}
INVARIANTS
  SeedIsTheBest
  ImageHoldsTheFiles
PROPERTY
  EveryScriptEnds
CHECK_DEADLOCK FALSE

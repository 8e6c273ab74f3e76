SPECIFICATION Spec
CONSTANT
  Tools = {"sim", "killed", "reverted", "mcy", "eqy", "licenses", "dist", "release", "text", "asm", "far"}
INVARIANTS
  SimulatesItsOwnBuild
  ScoreIsTrue
  EquivalentMeansIt
  DistributionIsWhole
  ReleaseIsTrue
  AssemblesTheCall
CHECK_DEADLOCK FALSE

SPECIFICATION Spec
CONSTANTS
    Sector = 2
    Lbas = {0, 1, 2}
    Cards <- MCCards
    FaultSets <- MCFaults
    Preamble = 16
    R1Tries = 3
    Cmd0Tries = 2
    ReadyTries = 2
    TokenTries = 3
    BusyTries = 3
    Sectors = {0, 1}
    Contents <- MCContents
    MaxOps = 3
INVARIANTS NoViolations ReportsAreTrue
PROPERTY CallsReturn
CHECK_DEADLOCK FALSE

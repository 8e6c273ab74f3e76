SPECIFICATION Spec
CONSTANTS
    Base = 3
    Word = 2
    Block = 5
    HeaderLen = 4
    WindowLen = 2
    MaxLen = 7
    Files <- MCFiles
    Callers = {"ram_boot", "put", "install"}
    ByteTimeout = 1
    LineTimeout = 2
    MaxFaults = 2
    MaxCalls = 2
INVARIANTS TransfersTheFile NotLeftInExchange
PROPERTY BothEnd
CHECK_DEADLOCK FALSE

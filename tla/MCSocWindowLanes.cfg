SPECIFICATION Spec
CONSTANTS
  NBlocks = 2
  LineWords = 2
  Lanes = {"b0", "b1"}
  Bytes = {0, 1}
  DLINES = 1
  ILINES = 1
  Blocks <- MCBlocks
  DTags <- MCDTags
  ITags <- MCITags
  DLineOf <- MCDLineOf
  DTagOf <- MCDTagOf
  ILineOf <- MCILineOf
  ITagOf <- MCITagOf
  XMEM_READ_LATENCY = 5
  XMEM_WRITE_LATENCY = 8
  INIT_CYCLES = 1
  Block0 = 0
  HackIBlocks = {0}
  HackDBlocks = {1}
  ProgOffs = {0}
  ProgOps = {"alu", "load", "store"}
  BootModes = {TRUE}
  POR_CYCLES = 2
  RST_PULSE = 2
VIEW LiveState
INVARIANT LanesSound
PROPERTY ImplementsMemory

SPECIFICATION TSpec
CONSTANTS
  NBlocks = 4
  LineWords = 8
  Lanes = {"b0"}
  Bytes = {0}
  DLINES = 2
  ILINES = 2
  Blocks <- MCBlocks
  DTags <- MCDTags
  ITags <- MCITags
  DLineOf <- MCDLineOf
  DTagOf <- MCDTagOf
  ILineOf <- MCILineOf
  ITagOf <- MCITagOf
  XMEM_READ_LATENCY = 35
  XMEM_WRITE_LATENCY = 34
  INIT_CYCLES = 1
  Block0 = 0
  HackIBlocks = {0}
  HackDBlocks = {1, 3}
  ProgOffs = {0}
  ProgOps <- Ops
  BootModes = {TRUE, FALSE}
  POR_CYCLES = 3
  RST_PULSE = 2
VIEW TView
INVARIANT CostsAsCounted

SPECIFICATION Spec
CONSTANTS
  Depth = 5
  Running = {"traps", "amo", "clint", "xmem", "rom_stores", "uart_drop", "liteuart", "hack_soft_reset", "boot_mode_rv32", "boot_mode_hack", "liteuart_hack", "umode"}
INVARIANTS RunsAsWritten InterruptIsReal
PROPERTY Ends

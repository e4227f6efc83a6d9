SPECIFICATION ZynqFairSpec
CONSTANTS
  ByteBits = 2
  NumExtInterrupts = 1
  Reg <- MCReg
  RESET_PC = 0
  ImemWords = 5
  Programs <- ZynqPrograms
  DmemWords = 16
  DmemInit <- SixteenWords
  ImemReady = {}
  DmemReady = {}
  IrqInputs = {0}
  ResetInputs = {TRUE}
  TRAP_ACCESS_FAULTS = FALSE
  DMEM_BASE = 0
  DMEM_LIMIT = 64
  BramModes <- AllBramModes
  AXI_PERIPH_BASE = 32
  AXI_PERIPH_SIZE = 16
INVARIANTS ReadyIsFresh NeverAbandons
PROPERTIES Progress

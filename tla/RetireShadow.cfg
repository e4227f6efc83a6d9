SPECIFICATION ShadowSpec
CONSTANTS
  ByteBits = 2
  NumExtInterrupts = 1
  Reg <- MCReg
  RESET_PC = 0
  ImemWords = 7
  Programs <- ShadowPrograms
  DmemWords = 2
  DmemInit <- TwoWords
  ImemReady = {TRUE}
  DmemReady = {TRUE}
  IrqInputs = {0}
  ResetInputs = {}
  TRAP_ACCESS_FAULTS = FALSE
  DMEM_BASE = 0
  DMEM_LIMIT = 0
INVARIANTS ReportsExact
PROPERTIES FlowIsPath

SPECIFICATION Spec
CONSTANTS
  ByteBits = 4
  NumExtInterrupts = 1
  Reg <- MCReg
  RESET_PC = 0
  ImemWords = 8
  Programs <- CsrInterruptPrograms
  DmemWords = 2
  DmemInit <- TwoWords
  ImemReady = {TRUE}
  DmemReady = {TRUE, FALSE}
  IrqInputs = {0, 1}
  ResetInputs = {}
  TRAP_ACCESS_FAULTS = FALSE
  DMEM_BASE = 0
  DMEM_LIMIT = 0
PROPERTIES CsrWriteRetires

SPECIFICATION Spec
CONSTANTS
  ByteBits = 4
  NumExtInterrupts = 1
  Reg <- MCReg
  RESET_PC = 0
  ImemWords = 8
  Programs <- MachinePrograms
  DmemWords = 2
  DmemInit <- TwoWords
  ImemReady = {TRUE}
  DmemReady = {TRUE, FALSE}
  IrqInputs = {0, 1}
  ResetInputs = {}
  TRAP_ACCESS_FAULTS = TRUE
  DMEM_BASE = 4
  DMEM_LIMIT = 8
INVARIANTS CsrReadReturnsOld
PROPERTIES ImplementsIsa

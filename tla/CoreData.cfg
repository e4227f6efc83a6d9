SPECIFICATION Spec
CONSTANTS
  ByteBits = 2
  NumExtInterrupts = 1
  Reg <- MCReg
  RESET_PC = 0
  ImemWords = 6
  Programs <- UserPrograms
  DmemWords = 2
  DmemInit <- DataWords
  ImemReady = {TRUE, FALSE}
  DmemReady = {TRUE, FALSE}
  IrqInputs = {0}
  ResetInputs = {}
  TRAP_ACCESS_FAULTS = FALSE
  DMEM_BASE = 0
  DMEM_LIMIT = 0
INVARIANTS OperandsInOrder FetchSpacing
PROPERTIES ImplementsIsa

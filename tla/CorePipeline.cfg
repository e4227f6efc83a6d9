SPECIFICATION FairSpec
CONSTANTS
  ByteBits = 4
  NumExtInterrupts = 1
  Reg <- MCReg
  RESET_PC = 0
  ImemWords = 8
  Programs <- PipelinePrograms
  DmemWords = 2
  DmemInit <- TwoWords
  ImemReady = {TRUE, FALSE}
  DmemReady = {TRUE, FALSE}
  IrqInputs = {0, 1}
  ResetInputs = {TRUE}
  TRAP_ACCESS_FAULTS = FALSE
  DMEM_BASE = 0
  DMEM_LIMIT = 0
INVARIANTS TypeOK FetchHandshake FrontInOrder UnitsServeEx
PROPERTIES Progress

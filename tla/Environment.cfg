SPECIFICATION FairSpec
CONSTANTS
  Apps <- MCApps
  CodeWords = 3
  Tests = 3
  POLL_TIMEOUT = 5
  ImemFaults = TRUE
  Spike <- SpikeLog
  EcallPc = 28
  Faults <- MCFaults
  BadPc = 99
  BadData = 99
  Depth = 3
  LowMark = 2
  HighMark = 4
  Programs <- MCPrograms
  Deviations <- MCDeviations
  InstrCnt = 3
  max_branch_step = 2
  Kinds = {"plain", "jal"}
  MaxStreams = 2
  JumpCnt = 3
  LoopLimit = 2
  CounterValues = 4
  XLEN = 4
  TraceRegs <- MCRegs
  supported_isa = {"RV32I", "RV32M", "RV32C", "RV32F"}
  Traces <- MCTraces
INVARIANTS
  TypeOK
  VerdictOfThisRun
  NoFalseAlarm DeviationReported
  StateTracksProgram SampleExact
  VerdictSound ProgramWhole
PROPERTIES Returns TestEnds ProgramEnds

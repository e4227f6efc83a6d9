SPECIFICATION FairSpec
CONSTANTS
  InstrCnt = 2
  max_branch_step = 2
  Kinds = {"loop"}
  MaxStreams = 1
  JumpCnt = 3
  LoopLimit = 2
  CounterValues = 4
PROPERTIES Terminates

CONSTANTS
  Last = 11
  WordSize = 4
  Instr <- LoopInstr
  Succ <- LoopSucc
  Entry = 0
  FaultAt = {}
  ExitAt = {8}
  BpAddr = {2, 4}
  OffAddr = {}
SPECIFICATION FairSpec
PROPERTY ImplementsPromise

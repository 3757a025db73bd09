CONSTANTS
  Last = 11
  WordSize = 2
  Instr <- LoopInstr
  Succ <- LoopSucc
  Entry = 0
  FaultAt = {4}
  ExitAt = {8}
  BpAddr = {4}
  OffAddr = {}
SPECIFICATION FairSpec
PROPERTY StopsAreReported

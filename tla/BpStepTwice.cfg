CONSTANTS
  Last = 9
  WordSize = 2
  Instr <- ShortInstr
  Succ <- ShortSucc
  Entry = 0
  FaultAt = {}
  ExitAt = {6}
  BpAddr = {0}
  OffAddr = {}
SPECIFICATION FairSpec
PROPERTY TransparentExecution

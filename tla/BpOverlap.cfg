CONSTANTS
  Last = 9
  WordSize = 3
  Instr <- ShortInstr
  Succ <- ShortLineSucc
  Entry = 0
  FaultAt = {4}
  ExitAt = {6}
  BpAddr = {0, 1, 3, 4, 6}
  OffAddr = {0, 3, 4}
SPECIFICATION FairCommandSpec
INVARIANTS EveryTrapKnown OriginalsClean RunsAtBoundaries
PROPERTIES RunsToTheEnd OutcomesAreKnown

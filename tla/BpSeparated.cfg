CONSTANTS
  Last = 11
  WordSize = 2
  Instr <- LoopInstr
  Succ <- LoopSucc
  Entry = 0
  FaultAt = {6}
  ExitAt = {8}
  BpAddr = {0, 2, 4}
  OffAddr = {}
SPECIFICATION FairSpec
INVARIANTS TypeOK HitIsExact ResumeLiftsPlanted PlacedStaysPlanted
PROPERTIES ImplementsPromise StopsAreReported TransparentExecution StepReturns

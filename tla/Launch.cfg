SPECIFICATION FairSpec
CHECK_DEADLOCK FALSE
INVARIANTS TypeOK BreakpointsInTime OneReader NeverThrows
PROPERTIES RunReturns ImplementsPromise

CONSTANTS
  Pids = {1, 2}
  Bases = {10}
  Size = 4
  WordSize = 2
  OneByte = {1}
  Pie = FALSE
  Functions = {11, 12}
  UserAddr = {12}
  MaxPending = 2
  PastExit = FALSE
  ForkMayFail = FALSE
  OffWords = {0, 12}
  OutsideKill = FALSE
  Lines <- MCLines
  FunctionOf <- MCFunctionOf
  AddressOf <- MCAddressOf
  OffPrefixed = {"off", "offset"}
  ShowPrefixed = {"show"}
SPECIFICATION FairLoopSpec
CHECK_DEADLOCK FALSE
INVARIANTS SignalsStayInside ElfAddressesAreFound
PROPERTIES PendingArePlaced ImplementsSession FunctionsAreHeard CommandReturns

CONSTANTS
  Pids = {1}
  Bases = {10}
  Size = 4
  WordSize = 2
  OneByte = {1}
  Pie = TRUE
  Functions = {1}
  UserAddr = {}
  MaxPending = 1
  PastExit = FALSE
  ForkMayFail = FALSE
  OffWords = {}
  OutsideKill = FALSE
  Lines <- OffLines
  FunctionOf <- OffFunctionOf
  AddressOf <- OffAddressOf
  OffPrefixed = {"off"}
  ShowPrefixed = {}
SPECIFICATION LoopSpec
CHECK_DEADLOCK FALSE
PROPERTY OffIsObeyed

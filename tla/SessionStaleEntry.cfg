CONSTANTS
  Pids = {1, 2}
  Bases = {10}
  Size = 4
  WordSize = 2
  OneByte = {1}
  Pie = TRUE
  Functions = {1}
  UserAddr = {2}
  MaxPending = 1
  PastExit = TRUE
  ForkMayFail = FALSE
  OffWords = {}
  OutsideKill = FALSE
SPECIFICATION Spec
CHECK_DEADLOCK FALSE
INVARIANT NeverDerailed

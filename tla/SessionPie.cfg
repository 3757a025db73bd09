CONSTANTS
  Pids = {1, 2}
  Bases = {10, 20}
  Size = 4
  WordSize = 2
  OneByte = {0}
  Pie = TRUE
  Functions = {1, 3}
  UserAddr = {3}
  MaxPending = 2
  PastExit = FALSE
  ForkMayFail = TRUE
  OffWords = {}
  OutsideKill = TRUE
SPECIFICATION Spec
CHECK_DEADLOCK FALSE
INVARIANTS TypeOK NoOrphan NoAssertionFails MapMatchesText BaseIsCurrent EntriesAreCurrent NeverDerailed FunctionsAreFound NoticeIsRight

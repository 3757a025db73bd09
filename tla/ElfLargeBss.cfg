CONSTANTS
  Text <- MCText
  Bare <- MCBare
  Value <- MCValue
  Files <- LargeBss
SPECIFICATION Spec
CHECK_DEADLOCK FALSE
INVARIANT FunctionsAreListed

CONSTANTS
  Text <- MCText
  Bare <- MCBare
  Value <- MCValue
  Files <- RoomyFiles
SPECIFICATION Spec
CHECK_DEADLOCK FALSE
INVARIANTS TypeOK SectionsAreRead FunctionsAreListed MenuIsRight

SPECIFICATION Spec
CONSTANTS
  Cells = 8
  PageLen = 2
  OsStart = 2
  Word = 16
  MaxImage = 7
  MaxCalls = 3
INVARIANTS
  BootloaderKept
  UndisturbedInstalls
PROPERTIES
  WritesToErased
  QuietAfterError
  ReturnsOrErases
CHECK_DEADLOCK FALSE

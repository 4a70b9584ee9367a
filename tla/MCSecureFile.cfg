SPECIFICATION Spec
CONSTANTS
  Block = 4
  Version = 3
  MaxSize = 5
  MaxCalls = 4
INVARIANTS
  RoundTrip
  NoWrongPlain
CHECK_DEADLOCK FALSE

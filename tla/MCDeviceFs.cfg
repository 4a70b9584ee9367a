SPECIFICATION Spec
CONSTANTS
  Names = {a, b}
  Depth = 2
  Excluded = {b}
  MaxChanges = 1
  MaxCalls = 1
INVARIANTS
  DoneWithoutError
  NothingInvented
  HandlesReturned
PROPERTIES
  RemovesOnlyTarget
  CallReturns
CHECK_DEADLOCK FALSE

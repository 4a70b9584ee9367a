SPECIFICATION Spec
CONSTANTS
  Slots = 3
  Pids = {0, 1}
  Names = {a, b}
  MaxChanges = 2
  MaxCalls = 2
INVARIANTS
  StayersFound
  FoundWasThere
  CountsAgree
CHECK_DEADLOCK FALSE

SPECIFICATION Spec
CONSTANTS
  Blocks = 2
  MaxUpdates = 2
  MaxResets = 1
  RetryCount = 1
INVARIANTS
  
  NoWriteWhileErasing
  VerifiedBoot
  FaultFreeInstalls
PROPERTIES
  AtomicSlot
  UpdateReturns
CHECK_DEADLOCK FALSE

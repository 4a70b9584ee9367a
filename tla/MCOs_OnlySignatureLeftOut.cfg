SPECIFICATION Spec
CONSTANTS
  Blocks = 2
  MaxUpdates = 2
  MaxResets = 1
  RetryCount = 1
INVARIANT OnlySignatureLeftOut
CHECK_DEADLOCK FALSE

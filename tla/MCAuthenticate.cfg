SPECIFICATION Spec
CONSTANTS
  Clients = {c1, c2}
  Halves <- HalfTokens
  Zeros = "0"
  Keys <- KeyTexts
SYMMETRY AnyClient
INVARIANTS
  AcceptedIsMutual
  SharedKeyAccepted
CHECK_DEADLOCK FALSE

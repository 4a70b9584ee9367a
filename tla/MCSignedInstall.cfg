SPECIFICATION SignedSpec
CONSTANTS
  PageSize = 4
  Overhead = 2
  Marker = 3
  Word = 64
  MaxFile = 9
  MaxAppends = 2
  Contents <- Executables
  Headers <- Attributes
  KeyPairs = {k1, k2}
  DeviceKey = k1
  NoKey = NoKey
  MaxSigns = 2
INVARIANTS
  SignedTypeOK
  StreamInOrder
  DeclaredArrives
  VerifiesIfSigned
  DeviceAgrees
PROPERTY NeverRewritten
CHECK_DEADLOCK FALSE

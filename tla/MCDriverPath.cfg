SPECIFICATION PathSpec
CONSTANTS
  Words <- AllWords
  Vendors <- VendorParts
  Products <- ProductParts
  Interfaces <- InterfaceParts
  SerialNumbers <- SerialParts
  DevicePaths <- DeviceParts
INVARIANTS
  
  
  StartFindsIt
CHECK_DEADLOCK FALSE

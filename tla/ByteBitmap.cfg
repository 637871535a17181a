SPECIFICATION Spec
CONSTANTS
  BitsPerByte = 3
  ValidBits = 7
INVARIANTS
  TypeOK
  
PROPERTIES
  ImplementsBitSet
  ScanIsFirstUnset

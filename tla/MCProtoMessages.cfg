SPECIFICATION Spec
CONSTANTS
  Septet = 32
  Nibble = 8
  Fields <- MCFields
  Groups = {"Group"}
  Enum <- MCEnum
  Versions <- MCVersions
  Chunk = 2
  SlabSize = 48
  Values = {}
  Inputs <- MCInputs
  MaxParts = 2
  MaxBuffers = 3
INVARIANTS
  LenIsExact
  BuffersKeep
  RoundTrip
  CutIsNoticed
CHECK_DEADLOCK FALSE

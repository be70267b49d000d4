SPECIFICATION Spec
CONSTANTS
  Septet = 32
  Nibble = 8
  Fields <- MCFields
  Groups = {"Group"}
  Enum <- MCEnum
  Versions <- MCVersions
  Chunk = 2
  SlabSize = 48
  Values = {}
  Inputs <- LongText
  MaxParts = 1
  MaxBuffers = 1
INVARIANTS
  RoundTrip
CHECK_DEADLOCK FALSE

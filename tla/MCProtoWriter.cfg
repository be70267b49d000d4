SPECIFICATION MCSpec
CONSTANTS
  Septet = 32
  Nibble = 8
  Chunk = 2
  SlabSize = 20
  Values <- MCValues
  MaxSize = 6
INVARIANTS
  LenIsExact
PROPERTIES
  Promise

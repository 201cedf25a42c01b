SPECIFICATION Spec
CONSTANTS
  MinChunk = 2
  DefaultChunk = 3
  LargestChunk = 4
  HardLimit = 7
  MaxInt64 = 11
  Requested <- SmallRequests
INVARIANTS
  WritesDisjoint
  SealedFilled
  ClientSlicesAccepted
  NoOverflow
  GeometryInv

SPECIFICATION Spec
CONSTANTS
  BlockId = {b1, b2, b3, b4}
  View = {v1, v2}
  Free = Free
  NoView = NoView
  RequestedCapacity = 3
  MaxGen = 2
  MaxTick = 5
SYMMETRY CacheSymmetry
INVARIANTS
  TypeOK
  CacheInvariant
PROPERTIES
  PinnedStays
  ImplementsLru

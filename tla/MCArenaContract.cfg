SPECIFICATION ArenaSpec
CONSTANTS
  Bytes = {0, 1, 3, 5}
  Alignment = {0, 3}
  PointerSize = 2
  Limits = {0, 1, 5}
  MinInitial = 2
  DefaultMax = 7
  SizeMax = 11
  MaxEpoch = 2
  MaxBlock = 2
  None = None
INVARIANT
  PointersStayValid

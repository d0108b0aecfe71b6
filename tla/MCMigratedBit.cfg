SPECIFICATION Spec
CONSTANTS
  BlockId = {1}
  View <- Buffers
  Free = Free
  RequestedCapacity = 2
  MaxGen = 2
  Image <- LegacyFile
  Missing = Missing
  Flags <- NoFlags
  MaxLoads = 2
  MaxEpoch = 2
  None = None
  Unknown = Unknown
INVARIANT
  MigratedPackageIsMarked

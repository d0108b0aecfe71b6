SPECIFICATION Spec
CONSTANTS
  BlockId = {1}
  View <- Buffers
  Free = Free
  RequestedCapacity = 2
  MaxGen = 2
  Image <- AnyFile
  Missing = Missing
  Flags <- AnyFlags
  MaxLoads = 3
  MaxEpoch = 3
  None = None
  Unknown = Unknown
VIEW UpToTime
INVARIANTS
  TypeOK
  SettledSessionIsCurrent
  LegacyFlagIsTruthful
PROPERTIES
  RepliesAreCurrent
  ReopenIsFreshOpen

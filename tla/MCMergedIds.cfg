SPECIFICATION Spec
CONSTANTS
  OffsetMod = 100000
  NoFile = NoFile
  Name <- AnyName
  NameLength <- Lengths
  MaxSeverity = 100
  NoSumm = NoSumm
  MaxRows <- AmpleLimits
  MaxSamples = 2
  Beyond <- Garbage
  Clip <- Cut
  FirstCapacity = 2
  IdBias = 10
  IdMod = 64
  Side = {left, right}
  Span <- TwoSpans
  Row <- NoRows
  Memory = {99}
  MergeOption <- Remapping
  MaxName = 3
  MaxAdded <- ByHandTwice
  MaxImages = 4
  None = None
  Nothing = Nothing
VIEW UpToReply
SYMMETRY Sides
INVARIANTS
  MergedIdsAreDistinct

SPECIFICATION Spec
CONSTANTS
  OffsetMod = 100000
  NoFile = NoFile
  Name <- AnyName
  NameLength <- Lengths
  MaxSeverity = 100
  NoSumm = NoSumm
  MaxRows <- RowLimits
  MaxSamples = 2
  Beyond <- Garbage
  Clip <- Cut
  FirstCapacity = 2
  IdBias = 10
  IdMod = 64
  Side = {left, right}
  Span <- TwoSpans
  Row <- BrokenRows
  Memory = {9, 99}
  MergeOption <- Options
  MaxName = 3
  MaxAdded <- ByHandOnce
  MaxImages = 3
  None = None
  Nothing = Nothing
VIEW UpToReply
SYMMETRY Sides
INVARIANTS
  TypeOK
  NamesAreInterned
  TornFilesAreRefused
  NothingBeyondIsRead
  MergedMarkersHaveWindows
PROPERTIES
  ImagesReadBack
  RepairOnlyHelps
  ValidPackagesResolve
  MergeKeepsReferences
  DiffOfMerge

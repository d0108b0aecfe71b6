SPECIFICATION Spec
CONSTANTS
  IdMod = 128
  Name <- AnyName
  NameLength <- Lengths
  MaxSeverity = 100
  NoSumm = NoSumm
  Hash <- Hashes
  LeastBuckets = 8
  Limit = 2400
  NodeSize <- Nodes
  FirstMap = 32
  Doublings = 1
  DefaultLimit = 4
  Package <- SomePackages
  Grants = {4, 9, 99}
  Plenty = 99
  AnyFilter <- Filters
  AnyPlan <- Plans
  AnySpan <- Spans
  Around <- Searches
  InfoSize = 24
VIEW UpToReply
INVARIANTS
  TypeOK
  ReadyIndexIsWhole
PROPERTIES
  ResetMakesRoom
  AnswersMatchTables
  QueryResultIsSound
  NamesAreFound

SPECIFICATION Spec
CONSTANTS
  IdMod = 64
  BlockId = {1, 2, 3}
  View = {"a", "b", "c"}
  Free = Free
  NoView = NoView
  NoPin = NoPin
  Closed = Closed
  RequestedCapacity = 2
  MaxGen = 2
  Stream = {s1}
  Cursor = {c1}
  AskedId = {0, 1, 2, 3}
  Package <- Packages
VIEW UpToTicks
INVARIANTS
  TypeOK
  PinsAreOwned
  RefusedOnlyWhenStarved
  SliceIsTheIndexedRow
  CursorOnItsWindow
PROPERTIES
  StaleStreamsStayDry
  AdvanceStepsOneRow

SPECIFICATION Spec
CONSTANTS
  OffsetMod = 8
  NoFile = NoFile
  Files <- MCFiles
INVARIANTS
  TypeOK
  SectionsInsideFile
PROPERTIES
  KeepsContract
  ParseEnds

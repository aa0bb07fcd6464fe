\* Two versions of an application, crashes, full disks and a cache that is cleared.
SPECIFICATION Spec
CONSTANTS
  Paths <- MCPaths
  Names <- MCNames
  base <- mcBase
  Files <- MCFiles
  Chunks = 2
  MaxVersion = 2
  Absent = Absent
INVARIANTS IInv MappedWhole
PROPERTIES ServesItsOwn IncompleteOnlyIfCut

SPECIFICATION Spec
CONSTANTS
  MaxRelease = 3
  MaxPolicy = 3
  Floor <- MCFloor
  Tombs <- MCTombs
  Files <- MCFiles  ReaderFiles <- MCReaderFiles
  MaxGen = 4
  MaxCrashes = 2
INVARIANT
  CompleteIsExplained
CHECK_DEADLOCK FALSE

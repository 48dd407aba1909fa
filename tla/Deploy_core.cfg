SPECIFICATION DeploySpec
CONSTANTS
  Pairs = {nstSTRK, sSTRK}
  Selections = {"SY"}
  Hexes = {1}
  MaxRuns = 2
  MaxVersion = 2
  MaxMisread = 1
INVARIANTS Linked NoOrphans HashesDeclared
PROPERTIES RecordedStays
CHECK_DEADLOCK FALSE

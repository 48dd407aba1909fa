SPECIFICATION DeploySpec
CONSTANTS
  Pairs = {nstSTRK}
  Selections = {""}
  Hexes = {1}
  MaxRuns = 3
  MaxVersion = 2
  MaxMisread = 1
INVARIANTS EndsWell
CHECK_DEADLOCK FALSE

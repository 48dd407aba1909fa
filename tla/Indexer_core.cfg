SPECIFICATION Spec
CONSTANTS
  c1 = c1
  f1 = f1
  t1 = t1
  t2 = t2
  t3 = t3
  t4 = t4
  Contracts <- MCContracts
  Known = {}
  Factory = f1
  Events <- MCEvents
  Malformed <- MCMalformed
  Unstorable <- MCUnstorable
  MaxHeight = 2
  MaxBlockSize = 2
  MaxReorgs = 2
  MaxFailures = 1
  EarlyEvents = TRUE
INVARIANTS Consistent DecodedAsEmitted
PROPERTIES ImplementsTable CatchesUp
CHECK_DEADLOCK FALSE

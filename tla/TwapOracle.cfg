SPECIFICATION Spec
CONSTANTS
  LnRates = {0, 1, 3}
  StartTime = 2
  MaxTime = 7
  MAX_CARDINALITY = 4
INVARIANTS Consistent ObserveExact
PROPERTIES HistoryKept

SPECIFICATION Spec
CONSTANTS
  WAD = 4
  CUBIT_ONE = 4
  Users = {alice}
  YTC = ytc
  Treasury = treasury
  Rates = {4, 8}
  FeeRates = {2}
  Amounts = {2}
  BatchAmounts = {2}
  InitialSY = 4
  PARTS = 8
  Pausable = {}
INVARIANTS FullyBacked

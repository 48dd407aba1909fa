SPECIFICATION Spec
CONSTANTS
  WAD = 8
  CUBIT_ONE = 147
  Users = {alice}
  YTC = ytc
  Treasury = treasury
  Rates = {8, 11}
  FeeRates = {2}
  Amounts = {40}
  BatchAmounts = {15, 25}
  InitialSY = 40
  PARTS = 88
  Pausable = {"PT", "SY"}
INVARIANTS Consistent ViewAgrees WaysOutOpen
PROPERTIES Solvent IndexWatermark ClaimsOnlyPaidOut NoUnearnedInterest

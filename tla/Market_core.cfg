SPECIFICATION Spec
CONSTANTS
  WAD = 8
  CUBIT_ONE = 147
  Users = {alice}
  MKT = mkt
  LockedAt = treasury
  FeesToTreasury = TRUE
  Indexes = {8, 12}
  CurveRates = {9}
  FeeRates = {8, 48}
  ReserveFeePercent = 75
  Amounts = {2, 4, 5}
  InitialTokens = 6
  MINIMUM_LIQUIDITY = 1
  MAX_PROPORTION = 6
  MAX_PT_IN_RESERVE_MULTIPLIER = 10
  MaxLp = 4
  MaxFees = 2
INVARIANTS Consistent ReservesPositive
PROPERTIES SurplusUntouched SharesNotDiluted SwapCostsOnlyDust

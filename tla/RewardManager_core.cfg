SPECIFICATION Spec
CONSTANTS
  WAD = 2
  CUBIT_ONE = 2
  Accounts = {alice, bob, host}
  Host = host
  RewardTokens = {r}
  Amounts = {1}
  RewardSupply = 3
  MaxShares = 3
  MaxIndex = 5
INVARIANTS Consistent RewardsCovered
PROPERTIES NoUnearnedRewards RewardsOnlyPaidOut NothingSwallowed

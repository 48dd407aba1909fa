SPECIFICATION Spec
CONSTANTS
  WAD = 10
  CUBIT_ONE = 10
  WAD_DECIMALS = 1
  MaxDecimals = 2
  Answers <- MCAnswers
  NoAnswer = no_answer
  AdminIndexes = {9, 12}
  Tokens = {u, v}
  Users = {alice}
  SY = sy_contract
  VaultRates = {0, 10, 15}
  Amounts = {1}
  MaxShares = 2
  MaxDonated = 1
INVARIANTS Consistent ExitOpen
PROPERTIES RecordedIndexKept

SPECIFICATION Spec
CONSTANTS
  Users = {u1, u2}
  Rate = 2
  Amounts = {2, 4}
  Minima = {1}
  Answers = {0, 2}
  InitialHolding = 16
  Backing = 32
  MaxCalls = 1
  MaxGifts = 1
INVARIANTS CalldataFits
CHECK_DEADLOCK FALSE

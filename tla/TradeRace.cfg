SPECIFICATION Spec
CONSTANTS
  Users = {a, b}
  Offers = {1, 2}
  Coins = {1}
  Money = 2
  MaxInside = 2
  Limit = 1
INVARIANT
  EndsOnce
CHECK_DEADLOCK FALSE

SPECIFICATION FairSpec
CONSTANTS
  Users = {a, b}
  Offers = {1, 2}
  Coins = {0, 1}
  Money = 2
  MaxInside = 2
  Limit = 1
INVARIANTS
  OnlyOfferEndsOnce
  CoinsAccounted
PROPERTY
  LateOffersEnd
CHECK_DEADLOCK FALSE

SPECIFICATION AroundSpec
CONSTANTS
  s = s
  a = a
  b = b
  i1 = i1
  i2 = i2
  r1 = r1
  r2 = r2
  NoRow = NoRow
  None = None
  Nobody = Nobody
  Users <- MCUsers
  Listings <- AuctionAndFixed
  SellerOf <- SellS
  Auctions <- OneAuction
  AskOf <- AskOne
  FeeBps = 5000
  Money = 3
  MaxPrice = 3
  Regimes <- MCRegimes
  Traders <- TwoTraders
  Goods <- TwoGoods
  OwnerAtStart <- OneEach
  Price <- OneAndTwo
  Coins = {1, 3}
  MaxRatio = 2
  MaxTrades = 2
  MaxValue = 2
  Cooldown = 2
  DayHours = 2
  MaxHour = 3
  Runs <- TwoHandlers
  Openings <- MCOpenings
  MaxInside = 2
  MaxBids = 3
  Quota = 3
  Limit = 1
INVARIANTS
  BidsEndRight
  MoneyAccounted
  RiskHolds
  PetsHold
PROPERTY
  OverdueCloses
CHECK_DEADLOCK FALSE

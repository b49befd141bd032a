SPECIFICATION RequestsSpec
CONSTANTS
  p1 = p1
  p2 = p2
  p3 = p3
  r1 = r1
  r2 = r2
  b1 = b1
  b2 = b2
  Nobody = Nobody
  Procs <- MCProcs
  Balances <- MCRows
  Defs <- MCDefs
  Start <- MCStart
  Mixes <- MCMixes
  MaxTries = 2
  Runs <- MCRuns
  Biz <- MCBiz
  Regimes <- AnyTrouble
  Names <- EveryService
  MaxWorth = 2
  MaxMade = 2
  Issuers <- MCRuns
  CouponBiz <- MCBiz
  Holding = 2
  MaxCodes = 2
  Fates <- OneTrouble
INVARIANTS
  ClaimsAreTrue
  NothingForFree
  OneDiscountPerCoupon
PROPERTIES
  BookSpec
  EveryRequestEnds
  LockedUnlocks
CHECK_DEADLOCK FALSE

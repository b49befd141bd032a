SPECIFICATION PlaySpec
CONSTANTS
  r1 = r1
  r2 = r2
  b1 = b1
  b2 = b2
  u1 = u1
  u2 = u2
  c1 = c1
  c2 = c2
  c3 = c3
  d1 = d1
  d2 = d2
  e1 = e1
  e2 = e2
  Runs <- TwoRuns
  Rewards <- Worths
  Entry = 1
  Cost = 1
  Money = 1
  Full = 2
  MaxPerRace = 2
  AdCap = 2
  Handlers <- TwoRuns
  Biz <- TwoBiz
  GameCoin = "coin"
  Pool <- ThreePools
  Ten = 2
  Unique = {"skin"}
  Purse = 3
  Limit = 2
  Regimes <- OneTrouble
  NoRow = NoRow
  Targets <- TwoTargets
  TTL = 2
  MaxTime = 3
  MaxActs = 3
  MaxEdits = 2
  Troubles <- EventTrouble
  Racers <- TwoRacers
  Clients <- Devices
  UserOf <- TwoDevices
  Tracks <- TwoTracks
  MaxWait = 2
  NoCode = NoCode
  Codes <- TwoCodes
  Batches <- OneBatch
  Players <- Redeeming
  Redeemers <- TwoRuns
  Sizes = {2}
  Uses <- OneOrTwo
  FailLimit = 1
  OkLimit = 1
  MaxForms = 1
  MaxSwitches = 1
  Courses <- OneCourse
SYMMETRY Alike
INVARIANTS
  RaceOnRecord
  DrawsHold
  CareHolds
  NobodyWaitsInVain
  ActsCount
  PromoHolds
CHECK_DEADLOCK FALSE

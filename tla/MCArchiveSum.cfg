SPECIFICATION ArchiveAlone
CONSTANTS
  r1 = r1
  r2 = r2
  b1 = b1
  b2 = b2
  u1 = u1
  u2 = u2
  Accounts <- MCAccounts
  BatchSize = 1
  MaxDay = 3
  MaxHeld = 2
  MaxMoves = 3
  MaxMonth = 4
  Ahead = 1
  Keep = 1
  PreBuilt = 2
  MaxUndone = 1
  Courses <- MCCourses
INVARIANT
  BalanceIsSumOfEntries
CHECK_DEADLOCK FALSE

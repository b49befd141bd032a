SPECIFICATION LedgerAlone
CONSTANTS
  u1 = u1
  u2 = u2
  fee = fee
  coin = coin
  k1 = k1
  k2 = k2
  k3 = k3
  k4 = k4
  r1 = r1
  r2 = r2
  NoTxn = NoTxn
  Users <- MCUsers
  Systems <- MCSystems
  Assets <- MCAssets
  Expiring <- MCAssets
  BizKeys <- MCBizKeys3
  RevKeys <- MCRevKeys
  Vouchers <- MCVouchers
  o1 = o1
  o2 = o2
  d1 = d1
  n1 = n1
  n2 = n2
  w1 = w1
  p1 = p1
  p2 = p2
  t1 = t1
  t2 = t2
  union = union
  None = None
SYMMETRY KeySymmetry
INVARIANT ReversedAtMostOnce
CHECK_DEADLOCK FALSE

SPECIFICATION ExchangeSpec
CONSTANTS
  a = a
  b = b
  q1 = q1
  q2 = q2
  q3 = q3
  b1 = b1
  b2 = b2
  u1 = u1
  u2 = u2
  i1 = i1
  i2 = i2
  o1 = o1
  m1 = m1
  m2 = m2
  m3 = m3
  NoRow = NoRow
  Everybody = Everybody
  None = None
  Asked = Asked
  Escrow = Escrow
  Nobody = Nobody
  NoOne = NoOne
  Players <- TwoUsers
  Items <- TwoItems
  Offers = {o1}
  MintLimit = 2
  MaxEntries = 5
  Switches <- Mixtures
  Requests <- Three
  OwnerOf <- Owners
  Stocks <- OneOrTwo
  PerUserLimit = 1
  Money = 2
  Regimes <- AllButSome
SYMMETRY Alike
INVARIANTS
  NotOversold
  ShippedOrRefunded
  ChargedOrBack
  ItemsAddUp
  ReportIsTrue
  CatalogueSound
  AccessAsMeant
  SettingsHold
  FiguresHold
  BelongingsHold
CHECK_DEADLOCK FALSE

SPECIFICATION Spec
CONSTANTS
  NewId = {a, b, c}
  s1 = s1
  s2 = s2
  SeedId = {s1, s2}
  OrderId <- AllIds
  User = {0, 1}
  MaxPrice = 2
  InitBalance = 3
  InitShares = 2
  LongMax = 3
  SeedLevels <- OneEach
  SeedIndex <- OneEachIndex
  ReqPrice = {1, 2}
  ReqQty = {0, 1, 2}
  ReqType = {"Limit", "Market"}
  None = None
SYMMETRY IdSymmetry
INVARIANTS
  TypeOK
  BookConsistent
  NotCrossed
  FeedCurrent
  JournalsReconcile
  AccountsMatchTape
  ReservationsExact
  SharesSolvent
PROPERTIES
  PriceTimePriority
  NoOvertaking
  OpenRests
  CashSolvent

SPECIFICATION FairHandlersSpec
CONSTANTS
  Worker = {1, 2}
  NewId = {3, 4}
  s1 = 1
  s2 = 2
  SeedId = {1, 2}
  OrderId <- AllIds
  User = {0, 1, 2}
  MaxPrice = 3
  InitBalance = 3
  InitShares = 2
  LongMax = 7
  SeedLevels <- OneEach
  SeedIndex <- OneEachIndex
  ReqPrice <- SomePrices
  ReqQty = {1, 2, 3}
  ReqType = {"Limit", "Market"}
  None = None
  Body <- SomeBodies
  CancelBody <- SomeCancels
  IntMax = 3
INVARIANTS
  IdsUnused
PROPERTIES
  CancelledByOwner
  RequestsAnswered
  ImplementsDepthBook

CONSTANTS
  MaxPrice = 5
  OrderQty = {1, 2}
  Anchor = 3
  Spread = 2
  MakerQty = 2
  TakerQty = 2
  TargetDepth = 4
  MinDepth = 3
  MaxDepth = 3
  Deviation = 5
  MinSpread = 3
  MaxOffset = 1
  BotQty = 2
SPECIFICATION FairBotSpec
INVARIANTS
  ProvidersOnlyAdd
PROPERTIES
  EqualAdditionAbovePriceOne
  TakerRebalances
  LiquidityReturns

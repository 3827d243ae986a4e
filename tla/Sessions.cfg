SPECIFICATION SessionSpec
CONSTANTS
  Thread = {t1, t2, t3}
  StoredId = {0, 2, 3}
  MaxId = 3
  MaxTrades = 1
INVARIANTS
  FreshIdsDistinct
PROPERTIES
  PositionKept

SPECIFICATION FairClientSpec
CONSTANTS
  MaxRuns = 2
  MaxBatches = 1
  MaxTrades = 2
  Party <- TwoUsers
  Sock = {s1, s2}
  Request = {r1}
  NoSock = NoSock
  MAX_TRADES = 2
  MaxMounts = 2
INVARIANTS
  OneConnection
PROPERTIES
  TradesStay
  RequestsSettle
  FeedRecovers

CONSTANTS
  Client = {c1, c2}
  Worker = {w}
  Acceptor = acceptor
  Nobody = nobody
  Capacity = 1
  MaxOps = 1
SPECIFICATION FairWsSpec
PROPERTIES
  OperationsFinish
  FeedConverges

CONSTANTS
  Client = {c1}
  Worker = {w}
  Acceptor = acceptor
  Nobody = nobody
  Capacity = 1
  MaxOps = 1
SPECIFICATION ServerSpec
PROPERTIES
  OperationsFinish

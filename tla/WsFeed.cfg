CONSTANTS
  Client = {c1, c2}
  Worker = {w}
  Acceptor = acceptor
  Nobody = nobody
  Capacity = 2
  MaxOps = 2
SPECIFICATION WsSpec
SYMMETRY Peers
INVARIANTS
  WsTypeOK
  ListedIsOwned
  ClientsCurrent
  BookIsNewest
PROPERTIES
  ViewNeverGoesBack

SPECIFICATION Spec
CONSTANTS
  r1 = r1
  r2 = r2
  web = web
  redir = redir
  Requests = {r1, r2}
  WebSockets = {web}
  RedirSocket = redir
  MaxConnections = 1
  RequestTimeout = 1
  WriteWait = 1
  MaySigTerm = TRUE
  MayStall = {}
  MaxAcceptErrs = 1
SYMMETRY Symmetry
INVARIANTS TypeOK Accounting ConnectionBound NoBufferedBlocked WatchedExactly LanipAfterClose
PROPERTY PoolSpec

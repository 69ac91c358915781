SPECIFICATION FairSpec
CONSTANTS
  r1 = r1
  r2 = r2
  redir = redir
  Requests = {r1, r2}
  WebSockets = {}
  RedirSocket = redir
  MaxConnections <- Unlimited
  RequestTimeout = 1
  WriteWait = 1
  MaySigTerm = FALSE
  MayStall = {r1}
  MaxAcceptErrs = 0
PROPERTIES IdleClosed StalledDropped

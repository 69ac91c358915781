SPECIFICATION FairSpec
CONSTANTS
  c1 = c1
  c2 = c2
  Clients = {c1, c2}
  Cmds = {"set"}
  QueueCap = 1
  MayTerm = FALSE
  MayReuse = FALSE
  LateStart = FALSE
  MaxCalls = 1
  MaxKills = 0
PROPERTY Listening
CHECK_DEADLOCK FALSE

SPECIFICATION FairSpec
CONSTANTS
  c1 = c1
  c2 = c2
  Clients = {c1, c2}
  Cmds = {"get", "add", "set"}
  QueueCap = 2
  MayTerm = TRUE
  MayReuse = TRUE
  LateStart = TRUE
  MaxCalls = 2
  MaxKills = 1
INVARIANTS TypeOK ExactlyOnce ReplyMatches ShmOwn SendBackFits
PROPERTY Answered
CHECK_DEADLOCK FALSE

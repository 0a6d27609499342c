SPECIFICATION FairSpec
CONSTANTS
  c1 = c1
  c2 = c2
  Clients <- OneClient
  Leavers <- NoClients
  None = None
  MaxEvents = 2
  MaxLines = 0
  JoinLines = 1
  MaxReplies = 0
  MaySignal = TRUE
PROPERTIES SigintReturns
CHECK_DEADLOCK FALSE

SPECIFICATION FairSpec
CONSTANTS
  c1 = c1
  c2 = c2
  Clients <- TwoClients
  Leavers <- OneClient
  None = None
  MaxEvents = 2
  MaxLines = 0
  JoinLines = 1
  MaxReplies = 0
  MaySignal = FALSE
PROPERTIES SurvivorsServed
CHECK_DEADLOCK FALSE

SPECIFICATION FairSpec
CONSTANTS
  c1 = c1
  c2 = c2
  Clients <- TwoClients
  Leavers <- NoClients
  None = None
  MaxEvents = 2
  MaxLines = 2
  JoinLines = 1
  MaxReplies = 1
  MaySignal = FALSE
PROPERTIES LiveClientsServed EventsHandled AcceptServed
CHECK_DEADLOCK FALSE

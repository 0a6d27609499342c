SPECIFICATION Spec
CONSTANTS
  c1 = c1
  c2 = c2
  Clients <- TwoClients
  Leavers <- OneClient
  None = None
  MaxEvents = 2
  MaxLines = 2
  JoinLines = 2
  MaxReplies = 1
  MaySignal = FALSE
INVARIANTS TypeOK StableIteration RoutedInStep PeersInStep NoSelfEcho
PROPERTIES ImplementsBroadcast
CHECK_DEADLOCK FALSE

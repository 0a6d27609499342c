SPECIFICATION Spec
CONSTANTS
  c1 = c1
  c2 = c2
  Clients <- TwoClients
  Leavers <- TwoClients
  None = None
  MaxEvents = 2
  MaxLines = 0
  JoinLines = 2
  MaxReplies = 0
  MaySignal = TRUE
SYMMETRY Interchangeable
INVARIANTS StuckOnlyOnGone
CHECK_DEADLOCK FALSE

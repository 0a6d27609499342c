SPECIFICATION Spec
CONSTANTS
  c1 = c1
  c2 = c2
  Clients <- OneClient
  Leavers <- OneClient
  None = None
  MaxEvents = 1
  MaxLines = 0
  JoinLines = 1
  MaxReplies = 0
  MaySignal = TRUE
INVARIANTS NoDoubleClose
CHECK_DEADLOCK FALSE

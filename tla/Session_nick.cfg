SPECIFICATION Spec
CONSTANTS
  c1 = c1
  c2 = c2
  c3 = c3
  n1 = n1
  n2 = n2
  None = None
  Channels <- ThreeChannels
  Known <- TwoKnown
  Nicks <- TwoNicks
  JoinLists <- Lists
  MaxCommands = 2
  MaxChanges = 1
INVARIANT NickFollows
CHECK_DEADLOCK FALSE
SYMMETRY Interchangeable

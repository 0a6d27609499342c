SPECIFICATION Spec
CONSTANTS
  me = me
  bob = bob
  c1 = c1
  c2 = c2
  f1 = f1
  f2 = f2
  None = None
  Me = me
  Channels <- OneChannel
  Users <- TwoUsers
  Fetchers <- TwoFetchers
  MaxMoves = 4
  MaxBreaks = 1
SYMMETRY Interchangeable
INVARIANTS TypeOK MembersFresh EntryStays
CHECK_DEADLOCK FALSE

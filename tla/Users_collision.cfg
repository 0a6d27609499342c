SPECIFICATION Spec
CONSTANTS
  alice = alice
  bob = bob
  stranger = stranger
  n1 = n1
  n2 = n2
  n3 = n3
  r1 = r1
  None = None
  Me = alice
  Users <- Workspace
  Listed <- Workspace
  Nicks <- TwoNicks
  Resolvers <- NoResolver
  MaxChanges = 1
  MaxBreaks = 0
INVARIANTS NickResolves
CHECK_DEADLOCK FALSE

SPECIFICATION Spec
CONSTANTS
  alice = alice
  bob = bob
  stranger = stranger
  n1 = n1
  n2 = n2
  n3 = n3
  r1 = r1
  None = None
  Me = alice
  Users <- AliceAndStranger
  Listed <- OnlyAlice
  Nicks <- TwoNicks
  Resolvers <- OneResolver
  MaxChanges = 1
  MaxBreaks = 0
INVARIANTS NoStalePanic
CHECK_DEADLOCK FALSE

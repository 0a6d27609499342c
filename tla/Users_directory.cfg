SPECIFICATION Spec
CONSTANTS
  alice = alice
  bob = bob
  stranger = stranger
  n1 = n1
  n2 = n2
  n3 = n3
  r1 = r1
  None = None
  Me = alice
  Users <- Everybody
  Listed <- Workspace
  Nicks <- ThreeNicks
  Resolvers <- OneResolver
  MaxChanges = 2
  MaxBreaks = 1
INVARIANTS TypeOK StaleOnlyByRace Findable ListedFresh
CHECK_DEADLOCK FALSE

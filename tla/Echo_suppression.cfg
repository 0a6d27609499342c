SPECIFICATION FairSpec
CONSTANTS
  m1 = m1
  m2 = m2
  e1 = e1
  o1 = o1
  None = None
  Own <- TwoOwn
  Elsewhere <- OneElsewhere
  Others <- OneOther
  Faults <- AllFaults
INVARIANTS TypeOK NoEcho OneCopyIfAnswered SuppressionsPending
PROPERTIES ForeignPasses PoopReturns QueueDrains
CHECK_DEADLOCK FALSE

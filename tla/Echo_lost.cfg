SPECIFICATION Spec
CONSTANTS
  m1 = m1
  m2 = m2
  e1 = e1
  o1 = o1
  None = None
  Own <- OneOwn
  Elsewhere <- Nothing
  Others <- Nothing
  Faults <- LostResponses
INVARIANTS OneCopy
CHECK_DEADLOCK FALSE

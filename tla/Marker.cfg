SPECIFICATION FairSpec
CONSTANTS
  general = general
  random = random
  Conversations <- TwoConversations
  MaxPosts = 3
  MaxTime = 5
  Delay = 2
INVARIANTS TypeOK Debounced
PROPERTIES CursorAdvances ResetDrops LastCalled
CHECK_DEADLOCK FALSE

CONSTANTS
  Messages = {m1, m2, m3}
  Size = 2
SPECIFICATION FairSpec
PROPERTY NoBatchIsForgotten
CHECK_DEADLOCK FALSE

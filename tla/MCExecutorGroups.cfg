CONSTANTS
  Runs = {1, 2}
  Deployments <- Pairs
  Branches <- Paths
  MaxFan = 1
SPECIFICATION Spec
INVARIANT JoinFindsParent
CHECK_DEADLOCK FALSE

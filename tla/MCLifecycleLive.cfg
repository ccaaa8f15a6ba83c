SPECIFICATION FairSpec
CONSTANTS
  N = 2
  Kind <- SweeperLast
  Routes = {r1}
  Work = {w1, w2}
  Nobody = Nobody
  Built = FALSE
  Failing = {1, 2}
  Refusable = TRUE
  Resumes = TRUE
  Reenters = TRUE
PROPERTIES
  StopEnds
  StartSettles
CHECK_DEADLOCK FALSE

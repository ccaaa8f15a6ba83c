SPECIFICATION Spec
CONSTANTS
  N = 3
  Kind <- ServersOutside
  Routes = {r1, r2}
  Work = {w1, w2, w3}
  Nobody = Nobody
  Built = TRUE
  Failing = {1, 2, 3}
  Refusable = FALSE
  Resumes = FALSE
  Reenters = FALSE
INVARIANTS
  TypeOK
  PartialAgrees
  TornDownOnce
  TeardownIsComplete
  QuietTeardown
PROPERTIES
  NoHookAfterTeardown
SYMMETRY Symmetry
CHECK_DEADLOCK FALSE

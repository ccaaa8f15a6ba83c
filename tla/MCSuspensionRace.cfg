\* Two resume calls race the sweeper over one suspension; deliveries may outlive their lease.
CONSTANTS
  Ids = {1}
  Ttls = {1}
  Never = Never
  NoOutcome = NoOutcome
  MaxTime = 3
  Resumers = {r1, r2}
  Lease = 1
  Retention = 1
  Cadence = 2
  SweepBatch = 1
  Deploys = {"same", "changed", "missing"}
  MaxRestarts = 1
  MaxFaults = 1
  Prompt = FALSE
SYMMETRY Symmetry
SPECIFICATION Spec
CHECK_DEADLOCK FALSE
INVARIANTS
  TypeOK
  OneFate
  NobodyIsForgotten
PROPERTIES
  
  ImplementsFate

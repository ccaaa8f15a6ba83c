\* Under fairness, with restarts and store faults.
CONSTANTS
  Ids = {1}
  Ttls = {1}
  Never = Never
  NoOutcome = NoOutcome
  MaxTime = 3
  Resumers = {r1}
  Lease = 1
  Retention = 1
  Cadence = 2
  SweepBatch = 1
  Deploys = {"same", "changed", "missing"}
  MaxRestarts = 1
  MaxFaults = 1
  Prompt = FALSE
SPECIFICATION FairSpec
CHECK_DEADLOCK FALSE
PROPERTIES
  OverdueSettles
  ClaimsResolve

\* Two suspensions, pages of one record, routes that may be missing; prompt deliveries.
CONSTANTS
  Ids = {1, 2}
  Ttls = {1}
  Never = Never
  NoOutcome = NoOutcome
  MaxTime = 3
  Resumers = {r1}
  Lease = 2
  Retention = 1
  Cadence = 2
  SweepBatch = 1
  Deploys = {"same", "missing"}
  MaxRestarts = 0
  MaxFaults = 0
  Prompt = TRUE
SPECIFICATION Spec
CHECK_DEADLOCK FALSE
INVARIANTS
  ToldOnceWhenCalm
PROPERTIES
  PassMissesNobody

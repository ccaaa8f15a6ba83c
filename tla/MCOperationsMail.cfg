\* Violation: a message handled after the stop is marked in the mailbox of the next user of the connection.
CONSTANTS
  Runs = {1, 2}
  Deployments <- Pairs
  Branches <- Paths
  MaxFan = 2
  Calls = {1, 2, 3, 4, 5}
  FailureThreshold = 2
  Window = 1
  Cooldown = 2
  HalfOpenMax = 1
  MaxTime = 5
  TargetCount = 3
  TargetWeights <- AllWeights
  DispatchKeys = {a, b, c, d}
  MaxSticky = 3
  Strategies <- AllStrategies
  MaxSent <- Sent
  ThrottleKeys = {k1, k2}
  Capacity = 2
  Cost = 2
  MaxBuckets = 1
  ClockEnd = 3
  MaxSteps = 1
  MaxArrivals = 4
  CacheKeyOf <- HotCalls
  MaxStored = 1
  MaxClears = 1
  Nobody = 0
  NoRun = 0
  Deduped = {1, 2, 3, 4}
  DedupeKeyOf <- HotDeduped
  MaxAttempts = 2
  MaxCommitted = 1
  Shapes = {TRUE, FALSE}
  MaxRestarts = 2
  RestartDelay = 1
  Multiplier = 2
  MaxStarts = 4
  MaxUptime = 9
  Poller = Poller
  Reader = Reader
  Archivist = Archivist
  Users <- MailUsers
  Visitors <- MailVisitors
  Boxes = {"inbox", "archive"}
  NoBox = "none"
  Folder <- MailFolders
  PoolSize = 2
  MaxFaults = 1
  Uids = {1}
  MaxReconnects = 1
  Routes = {1}
  Breakers = {1, 2}
  RouteOf <- BreakerRoutes
  Labels = {"http", "mail"}
  LabelOf <- BreakerLabels
  MaxWork = 2
  Nothing = Nothing
  ServerCount = 2
  MaxLists = 4
SPECIFICATION OpSpec
INVARIANT SeenWereHandled
CHECK_DEADLOCK FALSE

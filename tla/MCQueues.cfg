\* Six exchanges, five of one key, on two slots and a wait line of one; four messages in batches of two.
CONSTANTS
  Exchanges = {1, 2, 3, 4, 5, 6}
  Keys = {"crowded", "quiet"}
  KeyOf <- Crowded
  Slots = 2
  Mode = "queue"
  MaxQueue = 1
  MaxKeys = 1
  MustWait = {5}
  Messages = {m1, m2, m3, m4}
  Size = 2
SPECIFICATION QSpec
INVARIANTS
  BothTypeOK
  PoolIsFilled
  DeliveriesAreExact
PROPERTIES
  NoOvertaking
  WaitersRun
  PartialBatchIsFlushed
CHECK_DEADLOCK FALSE

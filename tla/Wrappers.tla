------------------------------- MODULE Wrappers --------------------------------
(***************************************************************************)
(* The operations of a route that keep state from one exchange to the      *)
(* next: a circuit breaker, a dispatch, a throttle, a cache, and a dedupe  *)
(* with a debounce after it.                                               *)
(***************************************************************************)
EXTENDS CircuitBreaker, Integers, Focus

CONSTANTS
  TargetCount, TargetWeights, DispatchKeys, MaxSticky, Strategies, MaxSent, \* dispatch
  ThrottleKeys, Capacity, Cost, MaxBuckets, ClockEnd, MaxSteps, MaxArrivals,
  CacheKeyOf, MaxStored, MaxClears, Nobody,                           \* cache
  Deduped, DedupeKeyOf, MaxAttempts, MaxCommitted, Shapes             \* dedupe

VARIABLES
  strategy, weight, failoverCursor, rrCursor, stickyCursor, currentWeights, sticky,
  key, tried, probing, exhausted, overtaken,
  mode, now, forward, back, tokens, lastRefillAt, recent, usedAt, due, rejected,
  throttleAborted,
  stored, lruKeys, inFlight, at, joined, got, cleared, runs, unstored, lost,
  debounces, exchangeAt, attempt, reserved, pending, committed, subscribed, aborted,
  hold, clones, absorbed, released, forgotten

dispatchVars ==
  <<strategy, weight, failoverCursor, rrCursor, stickyCursor, currentWeights, sticky,
    key, tried, probing, exhausted, overtaken>>
throttleVars ==
  <<mode, now, forward, back, tokens, lastRefillAt, recent, usedAt, due, rejected,
    throttleAborted>>
cacheVars ==
  <<stored, lruKeys, inFlight, at, joined, got, cleared, runs, unstored, lost>>
dedupeVars ==
  <<debounces, exchangeAt, attempt, reserved, pending, committed, subscribed, aborted,
    hold, clones, absorbed, released, forgotten>>

D == INSTANCE Dispatch
  WITH N <- TargetCount, Weights <- TargetWeights, Keys <- DispatchKeys,
       MaxKeys <- MaxSticky, MaxArrivals <- MaxSent

T == INSTANCE Throttle
  WITH Keys <- ThrottleKeys, MaxKeys <- MaxBuckets, MaxTime <- ClockEnd,
       aborted <- throttleAborted

C == INSTANCE Cache WITH KeyOf <- CacheKeyOf, recent <- lruKeys

U == INSTANCE Dedupe
  WITH Exchanges <- Deduped, KeyOf <- DedupeKeyOf, MaxKeys <- MaxCommitted,
       at <- exchangeAt, running <- clones

ASSUME WrapperConstants ==
  D!ConstantsOK /\ T!ConstantsOK /\ C!ConstantsOK /\ U!ConstantsOK

-----------------------------------------------------------------------------
(***************************************************************************)
(* The properties of dispatch, of the throttle, of the cache, of the       *)
(* dedupe and of the debounce, as their modules state them.                *)
(***************************************************************************)
StrategiesHold == focus = "dispatch" => D!StrategiesHold
RateIsExact == [](focus = "throttle" => T!RateIsKept) /\ T!HoldsBackTheExcess
SingleFlight == focus = "cache" => C!SingleFlight
SuppressionIsExact == focus = "dedupe" => U!SuppressionIsExact
LastOfBurstRuns == focus = "dedupe" => U!LastOfBurstRuns

(***************************************************************************)
(* What a comment says of the dedupe.                                      *)
(***************************************************************************)
SecondIsDropped == U!SecondIsDropped

=============================================================================

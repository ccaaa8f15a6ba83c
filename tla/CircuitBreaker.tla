--------------------------- MODULE CircuitBreaker ----------------------------
(***************************************************************************)
(* The circuit breaker (operations/circuit-breaker-wrapper.ts): one state  *)
(* machine per route, shared by every call of the protected step.          *)
(*                                                                         *)
(* acquire, recordSuccess and recordFailure never await, so each is one    *)
(* action; between them the protected step runs, for as long as it likes.  *)
(***************************************************************************)
EXTENDS Naturals, Sequences, FiniteSets

CONSTANTS
  Calls,             \* the exchanges that reach the breaker, each once
  FailureThreshold,  \* failureThreshold
  Window,            \* windowMs, in ticks
  Cooldown,          \* cooldownMs, in ticks
  HalfOpenMax,       \* halfOpenMax
  MaxTime            \* bound on the clock

ASSUME ThresholdAssumption == FailureThreshold \in Nat \ {0}
ASSUME WindowAssumption == Window \in Nat
ASSUME CooldownAssumption == Cooldown \in Nat
ASSUME HalfOpenMaxAssumption == HalfOpenMax \in Nat \ {0}
ASSUME MaxTimeAssumption == MaxTime \in Nat

VARIABLES
  clock,
  state,             \* "closed", "open" or "half-open"
  failures,          \* when the counted failures happened, oldest first
  openedAt,          \* when the breaker last opened
  halfOpenInFlight,  \* probes admitted in this half-open state
  call,              \* per call: "waiting", "regular" or "probe" while the
                     \* step runs, "rejected" or "done"
  history            \* every counted failure since the breaker last closed,
                     \* kept for the properties and never pruned

vars == <<clock, state, failures, openedAt, halfOpenInFlight, call, history>>

Running == {"regular", "probe"}
Probes == {c \in Calls : call[c] = "probe"}

Goes(c, to) == call' = [call EXCEPT ![c] = to]

Init ==
  /\ clock = 0
  /\ state = "closed"
  /\ failures = <<>>
  /\ openedAt = 0
  /\ halfOpenInFlight = 0
  /\ call = [c \in Calls |-> "waiting"]
  /\ history = <<>>

-----------------------------------------------------------------------------
(* acquire *)

AdmitRegular(c) ==
  /\ call[c] = "waiting"
  /\ state = "closed"
  /\ Goes(c, "regular")
  /\ UNCHANGED <<clock, state, failures, openedAt, halfOpenInFlight, history>>

CooldownOver == clock - openedAt >= Cooldown

RejectOpen(c) ==
  /\ call[c] = "waiting"
  /\ state = "open"
  /\ ~CooldownOver
  /\ Goes(c, "rejected")
  /\ UNCHANGED <<clock, state, failures, openedAt, halfOpenInFlight, history>>

(***************************************************************************)
(* The cooldown is over: the breaker goes half-open and, in the same call, *)
(* admits the first probe.                                                 *)
(***************************************************************************)
AdmitFirstProbe(c) ==
  /\ call[c] = "waiting"
  /\ state = "open"
  /\ CooldownOver
  /\ state' = "half-open"
  /\ halfOpenInFlight' = 1
  /\ Goes(c, "probe")
  /\ UNCHANGED <<clock, failures, openedAt, history>>

(* A mutant: the slot is compared after it was taken, so one more fits. *)
AdmitOneTooMany(c) ==
  /\ call[c] = "waiting"
  /\ state = "half-open"
  /\ halfOpenInFlight <= HalfOpenMax
  /\ halfOpenInFlight' = halfOpenInFlight + 1
  /\ Goes(c, "probe")
  /\ UNCHANGED <<clock, state, failures, openedAt, history>>

AdmitProbe(c) ==
  /\ call[c] = "waiting"
  /\ state = "half-open"
  /\ halfOpenInFlight < HalfOpenMax
  /\ halfOpenInFlight' = halfOpenInFlight + 1
  /\ Goes(c, "probe")
  /\ UNCHANGED <<clock, state, failures, openedAt, history>>

RejectHalfOpen(c) ==
  /\ call[c] = "waiting"
  /\ state = "half-open"
  /\ halfOpenInFlight >= HalfOpenMax
  /\ Goes(c, "rejected")
  /\ UNCHANGED <<clock, state, failures, openedAt, halfOpenInFlight, history>>

-----------------------------------------------------------------------------
(* recordSuccess and recordFailure *)

FreeSlot(c) ==
  halfOpenInFlight' =
    IF call[c] = "probe" /\ halfOpenInFlight > 0 THEN halfOpenInFlight - 1
    ELSE halfOpenInFlight

(* A mutant: any success closes a breaker that is not closed. *)
SucceedAndClose(c) ==
  /\ call[c] \in Running
  /\ FreeSlot(c)
  /\ Goes(c, "done")
  /\ IF state # "closed"
     THEN state' = "closed" /\ failures' = <<>> /\ history' = <<>>
     ELSE UNCHANGED <<state, failures, history>>
  /\ UNCHANGED <<clock, openedAt>>

(***************************************************************************)
(* Only a probe closes a half-open breaker; a success is no news otherwise. *)
(***************************************************************************)
Succeed(c) ==
  /\ call[c] \in Running
  /\ FreeSlot(c)
  /\ Goes(c, "done")
  /\ IF state = "half-open" /\ call[c] = "probe"
     THEN state' = "closed" /\ failures' = <<>> /\ history' = <<>>
     ELSE UNCHANGED <<state, failures, history>>
  /\ UNCHANGED <<clock, openedAt>>

(* A mutant: the uncounted failure of a probe keeps its slot. *)
FailKeepingSlot(c) ==
  /\ call[c] \in Running
  /\ Goes(c, "done")
  /\ UNCHANGED <<clock, state, failures, openedAt, halfOpenInFlight, history>>

(***************************************************************************)
(* A failure isFailure does not count only gives its probe slot back.      *)
(***************************************************************************)
FailUncounted(c) ==
  /\ call[c] \in Running
  /\ FreeSlot(c)
  /\ Goes(c, "done")
  /\ UNCHANGED <<clock, state, failures, openedAt, history>>

Opens == state' = "open" /\ openedAt' = clock

(***************************************************************************)
(* A counted failure: the probe re-opens a half-open breaker, and in a     *)
(* closed one the failures within the window may reach the threshold.      *)
(***************************************************************************)
FailProbing(c) ==
  /\ call[c] \in Running
  /\ state # "closed"
  /\ FreeSlot(c)
  /\ Goes(c, "done")
  /\ IF state = "half-open" /\ call[c] = "probe" THEN Opens
     ELSE UNCHANGED <<state, openedAt>>
  /\ UNCHANGED <<clock, failures, history>>

(***************************************************************************)
(* #prune: the oldest failure is shifted out as long as it is older than   *)
(* the window.  A mutant takes out one that is exactly a window old.       *)
(***************************************************************************)
Stale(t, now) == t + Window < now

FirstKept(times, now) ==
  CHOOSE k \in 1..(Len(times) + 1) :
    /\ \A i \in 1..(k - 1) : Stale(times[i], now)
    /\ k <= Len(times) => ~Stale(times[k], now)

PrunedShort(times) == SubSeq(times, FirstKept(times, clock + 1), Len(times))

Pruned(times) == SubSeq(times, FirstKept(times, clock), Len(times))

FailClosed(c) ==
  /\ call[c] \in Running
  /\ state = "closed"
  /\ FreeSlot(c)
  /\ Goes(c, "done")
  /\ failures' = Pruned(Append(failures, clock))
  /\ history' = Append(history, clock)
  /\ IF Len(failures') >= FailureThreshold THEN Opens
     ELSE UNCHANGED <<state, openedAt>>
  /\ UNCHANGED clock

Tick ==
  /\ clock < MaxTime
  /\ clock' = clock + 1
  /\ UNCHANGED <<state, failures, openedAt, halfOpenInFlight, call, history>>

Acquire(c) ==
  \/ AdmitRegular(c) \/ RejectOpen(c)
  \/ AdmitFirstProbe(c) \/ AdmitProbe(c) \/ RejectHalfOpen(c)

Record(c) == Succeed(c) \/ FailUncounted(c) \/ FailProbing(c) \/ FailClosed(c)

Next == Tick \/ \E c \in Calls : Acquire(c) \/ Record(c)

Spec == Init /\ [][Next]_vars

-----------------------------------------------------------------------------
(***************************************************************************)
(* The shape of the state.                                                 *)
(***************************************************************************)
TypeOK ==
  /\ clock \in Nat
  /\ state \in {"closed", "open", "half-open"}
  /\ failures \in Seq(Nat)
  /\ openedAt \in Nat /\ openedAt <= clock
  /\ halfOpenInFlight \in 0..HalfOpenMax
  /\ call \in [Calls -> {"waiting", "regular", "probe", "rejected", "done"}]
  /\ history \in Seq(Nat)

(***************************************************************************)
(* With the default halfOpenMax of one, a recovering target sees a single  *)
(* probe: never two at once, and none while the breaker is not half-open.  *)
(***************************************************************************)
SingleProbe ==
  HalfOpenMax = 1 =>
    /\ \A c, d \in Probes : c = d
    /\ Probes # {} => state = "half-open"

(***************************************************************************)
(* A probe slot is never leaked: a half-open breaker that is full has a    *)
(* probe running whose end will free it, whatever the failures were.  A    *)
(* leaked slot would reject every call until the process ends.             *)
(***************************************************************************)
SlotsAreHeld == state = "half-open" /\ halfOpenInFlight > 0 => Probes # {}

(***************************************************************************)
(* Both: the slots of a half-open breaker are its running probes.          *)
(***************************************************************************)
ProbesAreCounted == SingleProbe /\ SlotsAreHeld

(***************************************************************************)
(* What protects the target: a closed breaker has seen fewer than          *)
(* failureThreshold counted failures within the last window since it       *)
(* closed, however late they arrived and whenever the ring was pruned.     *)
(***************************************************************************)
Recent == {i \in 1..Len(history) : ~Stale(history[i], clock)}

ClosedIsHealthy == state = "closed" => Cardinality(Recent) < FailureThreshold

(***************************************************************************)
(* Stale work decides nothing: only a probe's end moves a half-open        *)
(* breaker, and an open one moves only when its cooldown is over and a     *)
(* call asks, no matter what calls admitted earlier do meanwhile.          *)
(***************************************************************************)
OnlyProbesDecide ==
  [][/\ (state = "half-open" /\ state' # "half-open") =>
          \E c \in Probes : call'[c] = "done"
     /\ (state = "open" /\ state' # "open") =>
          state' = "half-open" /\ CooldownOver]_vars

(***************************************************************************)
(* Why SingleProbe holds, for any number of calls: the counter is exactly  *)
(* the probes that run, so a second one finds the breaker full.            *)
(***************************************************************************)
ProbeInv ==
  HalfOpenMax = 1 =>
    /\ SingleProbe
    /\ Probes # {} => halfOpenInFlight = 1
    /\ (state = "half-open" /\ Probes = {}) => halfOpenInFlight = 0

(***************************************************************************)
(* Why ClosedIsHealthy holds: what is left in the ring of a closed breaker *)
(* is the end of its history, what was shifted out of it stays too old,    *)
(* and a ring that is full opens the breaker.                              *)
(***************************************************************************)
ShiftedOut(n) ==
  /\ Len(history) = n + Len(failures)
  /\ \A i \in 1..n : Stale(history[i], clock)
  /\ \A i \in 1..Len(failures) : failures[i] = history[n + i]

RingInv ==
  state = "closed" =>
    /\ Len(failures) < FailureThreshold
    /\ \E n \in 0..Len(history) : ShiftedOut(n)

=============================================================================

---------------------------- MODULE HealthLedger ------------------------------
(***************************************************************************)
(* The health ledger of a context (plugins/ops/state.ts), which the ops    *)
(* plugin feeds with the events of routes, of their exchanges and of their *)
(* circuit breakers (plugins/ops/plugin.ts), and which announces a change  *)
(* of a route's status.                                                    *)
(*                                                                         *)
(* Listeners run where an event is emitted, so an action is an event with  *)
(* all that the ledger does about it.  What the routes really do stands    *)
(* beside what the ledger makes of it.                                     *)
(***************************************************************************)
EXTENDS Naturals, FiniteSets

CONSTANTS
  Routes,
  Breakers, RouteOf,  \* the circuit breakers, and the route of each
  Labels, LabelOf,    \* what an event calls the step of a breaker
  MaxWork,            \* bound on exchanges in flight in a route
  Nothing

CircuitStates == {"closed", "open", "half-open"}
Lifecycles == {"running", "completed", "stopped", "failed"}
Statuses == {"up", "degraded", "down", "inactive"}

Records ==
  [lifecycle : Lifecycles, breakers : SUBSET (Labels \X CircuitStates),
   everSucceeded : BOOLEAN, lastStatus : Statuses]

ConstantsOK ==
  /\ RouteOf \in [Breakers -> Routes]
  /\ LabelOf \in [Breakers -> Labels]
  /\ MaxWork \in Nat
  /\ Nothing \notin Records \union Statuses

VARIABLES
  started, dead, aborted,  \* the routes that were announced as started, those of
                           \* which a source failed, and those whose intake is aborted
  work,     \* the exchanges in flight in each route
  circuit,  \* the state of each breaker
  phase,    \* ContextState, and how far the context is
  record,   \* routes: what the ledger has of each
  heard,    \* the status last announced of each
  restarted, outlived  \* the routes announced as started when they were dead,
                       \* stopped or held off calls already, and those of which an
                       \* exchange or a breaker was heard after they stopped

routeVars == <<started, dead, aborted, work, circuit, phase>>
ledgerVars == <<record, heard>>
vars == <<routeVars, ledgerVars, restarted, outlived>>

Held(r) == {b \in Breakers : RouteOf[b] = r /\ circuit[b] # "closed"}

-----------------------------------------------------------------------------
(***************************************************************************)
(* What the ledger keeps of a route, and the status it reports.            *)
(***************************************************************************)
RouteStatus(rec) ==
  IF rec.lifecycle = "failed" THEN "down"
  ELSE IF rec.lifecycle # "running" THEN "inactive"
  ELSE IF rec.breakers # {} THEN "degraded" ELSE "up"

NewRecord(lifecycle, last) ==
  [lifecycle |-> lifecycle, breakers |-> {}, everSucceeded |-> FALSE, lastStatus |-> last]

EnsureRoute(r) ==
  IF record[r] = Nothing THEN NewRecord("running", "up") ELSE record[r]

(* settleRoute: a status that moved is announced. *)
SettleRoute(r, rec) ==
  /\ record' = [record EXCEPT ![r] = [rec EXCEPT !.lastStatus = RouteStatus(rec)]]
  /\ heard' = IF RouteStatus(rec) = rec.lastStatus THEN heard
              ELSE [heard EXCEPT ![r] = RouteStatus(rec)]

Listens == phase # "stopped"

RouteStartedAfresh(r) == SettleRoute(r, NewRecord("running", "up"))

RouteStarted(r) ==
  SettleRoute(r, NewRecord("running", IF record[r] = Nothing THEN "up"
                                      ELSE record[r].lastStatus))

RouteStopped(r) ==
  IF record[r] = Nothing \/ record[r].lifecycle = "failed"
  THEN UNCHANGED ledgerVars
  ELSE SettleRoute(r, [record[r] EXCEPT
         !.lifecycle = IF record[r].everSucceeded THEN "completed" ELSE "stopped"])

SourceDied(r) == SettleRoute(r, [EnsureRoute(r) EXCEPT !.lifecycle = "failed"])

(* A mutant: what succeeds is running. *)
ExchangeCompletedAlive(r) ==
  SettleRoute(r, [EnsureRoute(r) EXCEPT !.lifecycle = "running", !.everSucceeded = TRUE])

ExchangeCompleted(r) ==
  SettleRoute(r, [EnsureRoute(r) EXCEPT
    !.lifecycle = IF @ = "failed" THEN @ ELSE "running", !.everSucceeded = TRUE])

ExchangeFailed(r) ==
  /\ record' = [record EXCEPT ![r] = EnsureRoute(r)]
  /\ UNCHANGED heard

CircuitOpened(r, label, state) ==
  LET others == {entry \in EnsureRoute(r).breakers : entry[1] # label}
  IN SettleRoute(r, [EnsureRoute(r) EXCEPT !.breakers = others \union {<<label, state>>}])

CircuitClosed(r, label) ==
  IF record[r] = Nothing THEN UNCHANGED ledgerVars
  ELSE SettleRoute(r, [record[r] EXCEPT !.breakers = {entry \in @ : entry[1] # label}])

-----------------------------------------------------------------------------
(***************************************************************************)
(* What routes do and announce.  Every source was subscribed; the last to  *)
(* be ready may be so after another one failed, or after the route stopped.*)
(***************************************************************************)
Init ==
  /\ started = {} /\ dead = {} /\ aborted = {}
  /\ work = [r \in Routes |-> 0]
  /\ circuit = [b \in Breakers |-> "closed"]
  /\ phase = "starting"
  /\ record = [r \in Routes |-> Nothing]
  /\ heard = [r \in Routes |-> Nothing]
  /\ restarted = {} /\ outlived = {}

Ready(r) ==
  /\ r \notin started
  /\ started' = started \union {r}
  /\ restarted' = IF r \in dead \union aborted \/ Held(r) # {}
                  THEN restarted \union {r} ELSE restarted
  /\ IF Listens THEN RouteStarted(r) ELSE UNCHANGED ledgerVars
  /\ UNCHANGED <<dead, aborted, work, circuit, phase, outlived>>

SourceFails(r) ==
  /\ r \notin aborted
  /\ dead' = dead \union {r}
  /\ IF Listens THEN SourceDied(r) ELSE UNCHANGED ledgerVars
  /\ UNCHANGED <<started, aborted, work, circuit, phase, restarted, outlived>>

(* The intake is aborted: the source completed or failed, or a stop began. *)
Abort(r) ==
  /\ r \notin aborted
  /\ aborted' = aborted \union {r}
  /\ IF Listens THEN RouteStopped(r) ELSE UNCHANGED ledgerVars
  /\ UNCHANGED <<started, dead, work, circuit, phase, restarted, outlived>>

Emit(r) ==
  /\ r \notin aborted /\ work[r] < MaxWork
  /\ work' = [work EXCEPT ![r] = @ + 1]
  /\ UNCHANGED <<started, dead, aborted, circuit, phase, ledgerVars, restarted, outlived>>

Outlives(r) == outlived' = IF r \in aborted THEN outlived \union {r} ELSE outlived

Ends(r) ==
  /\ work[r] > 0
  /\ work' = [work EXCEPT ![r] = @ - 1]
  /\ UNCHANGED <<started, dead, aborted, circuit, phase, restarted>>

Complete(r) ==
  /\ Ends(r) /\ Outlives(r)
  /\ IF Listens THEN ExchangeCompleted(r) ELSE UNCHANGED ledgerVars

Fail(r) ==
  /\ Ends(r) /\ Outlives(r)
  /\ IF Listens THEN ExchangeFailed(r) ELSE UNCHANGED ledgerVars

Drop(r) == Ends(r) /\ UNCHANGED <<ledgerVars, outlived>>

(***************************************************************************)
(* An exchange that goes through a breaker moves it.                       *)
(***************************************************************************)
Moves(b, from, to) ==
  /\ circuit[b] = from /\ work[RouteOf[b]] > 0
  /\ circuit' = [circuit EXCEPT ![b] = to]
  /\ Outlives(RouteOf[b])
  /\ UNCHANGED <<started, dead, aborted, work, phase, restarted>>

Holds(b, from, to) ==
  /\ Moves(b, from, to)
  /\ IF Listens THEN CircuitOpened(RouteOf[b], LabelOf[b], to) ELSE UNCHANGED ledgerVars

Closes(b) ==
  /\ Moves(b, "half-open", "closed")
  /\ IF Listens THEN CircuitClosed(RouteOf[b], LabelOf[b]) ELSE UNCHANGED ledgerVars

-----------------------------------------------------------------------------
(***************************************************************************)
(* The plugin's start hook declares the routes it has not heard of; its    *)
(* teardown, after a stop, ends the subscriptions.                         *)
(***************************************************************************)
DeclareRoute(r) == IF record[r] = Nothing THEN NewRecord("stopped", "inactive") ELSE record[r]

StartHook ==
  /\ phase = "starting"
  /\ phase' = "started"
  /\ record' = [r \in Routes |-> DeclareRoute(r)]
  /\ UNCHANGED <<started, dead, aborted, work, circuit, heard, restarted, outlived>>

ContextStopping ==
  /\ phase \in {"starting", "started"}
  /\ phase' = "stopping"
  /\ UNCHANGED <<started, dead, aborted, work, circuit, ledgerVars, restarted, outlived>>

Teardown ==
  /\ phase = "stopping" /\ aborted = Routes
  /\ phase' = "stopped"
  /\ UNCHANGED <<started, dead, aborted, work, circuit, ledgerVars, restarted, outlived>>

Next ==
  \/ \E r \in Routes :
       Ready(r) \/ SourceFails(r) \/ Abort(r) \/ Emit(r) \/ Complete(r) \/ Fail(r) \/ Drop(r)
  \/ \E b \in Breakers :
       \/ Holds(b, "closed", "open") \/ Holds(b, "open", "half-open")
       \/ Holds(b, "half-open", "open") \/ Closes(b)
  \/ StartHook \/ ContextStopping \/ Teardown

Spec == Init /\ [][Next]_vars

-----------------------------------------------------------------------------
(***************************************************************************)
(* The shape of the state.                                                 *)
(***************************************************************************)
TypeOK ==
  /\ started \subseteq Routes /\ dead \subseteq Routes /\ aborted \subseteq Routes
  /\ work \in [Routes -> 0..MaxWork]
  /\ circuit \in [Breakers -> CircuitStates]
  /\ phase \in {"starting", "started", "stopping", "stopped"}
  /\ record \in [Routes -> Records \union {Nothing}]
  /\ heard \in [Routes -> Statuses \union {Nothing}]
  /\ restarted \subseteq Routes /\ outlived \subseteq Routes

(***************************************************************************)
(* Who follows the announcements knows what the report says: an alert that *)
(* was raised is lowered, and where nothing was announced nothing is wrong.*)
(***************************************************************************)
AnnouncedIsReported ==
  \A r \in Routes : record[r] # Nothing =>
    IF heard[r] = Nothing THEN RouteStatus(record[r]) \in {"up", "inactive"}
                          ELSE RouteStatus(record[r]) = heard[r]

(***************************************************************************)
(* The report is true, whatever the order of the events: a route is down   *)
(* only if a source of it failed, and then for good; one that serves is    *)
(* degraded exactly while a breaker holds calls off; one that was stopped  *)
(* is inactive.  A route that is announced as started too late is excepted,*)
(* and so is a stopped one in which an exchange still ends.                *)
(***************************************************************************)
Reported(r) == RouteStatus(record[r])

ReportIsTrue ==
  Listens => \A r \in Routes : record[r] # Nothing =>
    /\ Reported(r) = "down" => r \in dead
    /\ r \notin restarted =>
         /\ r \in dead => Reported(r) = "down"
         /\ r \in started \ (dead \union aborted) =>
              Reported(r) = IF Held(r) = {} THEN "up" ELSE "degraded"
         /\ r \in aborted \ (dead \union outlived) => Reported(r) = "inactive"

=============================================================================

------------------------------ MODULE Lifecycle ------------------------------
(***************************************************************************)
(* CraftContext (context.ts): build, start, stop.  Plugins apply, routes   *)
(* come up, start hooks run one after the other; a stop may arrive at any  *)
(* await of that, closes the intake of every route, drains them up to a    *)
(* deadline and tears the applied plugins down in reverse.                 *)
(*                                                                         *)
(* Code between two awaits is one action.  A plugin is "plain" (apply and  *)
(* teardown), a "sweeper" (suspension/config.ts) or a "server"             *)
(* (plugins/server/plugin.ts): the two whose start hook leaves something   *)
(* live that their teardown must end.                                      *)
(***************************************************************************)
EXTENDS Naturals, Sequences, FiniteSets

CONSTANTS
  N, Kind,    \* the plugins are 1..N, in registration order; their kinds
  Routes,     \* the registered routes
  Work, Nobody,  \* the pieces of work that may run; the caller of a root one
  Built,      \* the context comes from ContextBuilder, which applies plugins
  Failing,    \* the plugins whose apply or start hook may throw
  Refusable,  \* assertSuspensionConfigured may refuse the configuration
  Resumes,    \* work may resume an exchange parked in a route
  Reenters    \* a listener of route:stopped calls stop()

ASSUME PluginsAssumption == N \in Nat \ {0} /\ Kind \in [1..N -> {"plain", "sweeper", "server"}]
ASSUME FailingAssumption == Failing \subseteq 1..N
ASSUME RoutesAssumption == IsFiniteSet(Routes)
ASSUME WorkAssumption == Nobody \notin Work
ASSUME FlagsAssumption == {Built, Refusable, Resumes, Reenters} \subseteq BOOLEAN

VARIABLES
  boot,      \* how far build and start() are
  next,      \* the next plugin whose apply or start hook is called
  hook,      \* the plugin whose start hook is awaited, or 0
  applied,   \* appliedPlugins
  started,   \* startedPlugins
  live,      \* the plugins whose interval or listener is live
  ready,     \* what whenStarted() reports
  completed, \* startCompleted
  late,      \* the bound on route readiness fired
  source,    \* per route, its sources
  intake,    \* per route, its intake signal has not aborted
  status,    \* per piece of work: "none", "running" or "ended"
  home,      \* per piece of work, the route that tracks it
  caller,    \* per piece of work, who awaits it, or Nobody
  stopped,   \* hasStopped
  walk,      \* the shutdowns under way
  torn       \* the teardowns called so far, with what they were told

bootVars == <<boot, next, hook, applied, started, live, ready, completed, late>>
workVars == <<status, home, caller>>
stopVars == <<stopped, walk, torn>>
vars == <<bootVars, source, intake, workVars, stopVars>>

Plugins == 1..N
Hooked == {i \in Plugins : Kind[i] # "plain"}
KeepsAlive == \E i \in Plugins : Kind[i] = "server"
Walks == 1..(Cardinality(Routes) + 1)

WalkState == [pc : {"none", "draining", "next", "closing", "done"}, below : 1..(N + 1),
              drained : SUBSET Routes, forced : BOOLEAN, partial : BOOLEAN]
TeardownInfo == [plugin : Plugins, partial : BOOLEAN, started : BOOLEAN]

NoWalk == [pc |-> "none", below |-> N + 1, drained |-> {}, forced |-> FALSE, partial |-> FALSE]

Init ==
  /\ boot = IF Built THEN "building" ELSE "new"
  /\ next = 1 /\ hook = 0
  /\ applied = {} /\ started = {} /\ live = {}
  /\ ready = "pending" /\ completed = FALSE /\ late = FALSE
  /\ source = [r \in Routes |-> "idle"]
  /\ intake = [r \in Routes |-> TRUE]
  /\ status = [w \in Work |-> "none"]
  /\ home = [w \in Work |-> Nobody]
  /\ caller = [w \in Work |-> Nobody]
  /\ stopped = FALSE
  /\ walk = [k \in Walks |-> NoWalk]
  /\ torn = <<>>

Running(w) == status[w] = "running"
Settles(outcome) == ready' = IF ready = "pending" THEN outcome ELSE ready

-----------------------------------------------------------------------------
(***************************************************************************)
(* stop(): a second call joins the first.  A listener of route:stopped     *)
(* that calls stop() while the first call still closes the routes, which   *)
(* it does before it remembers its promise, is not a second call.          *)
(***************************************************************************)
Shutdowns ==
  IF Reenters THEN 1..(1 + Cardinality({r \in Routes : intake[r]})) ELSE {1}

Shutdown ==
  IF stopped THEN UNCHANGED <<stopped, walk, intake>>
  ELSE /\ stopped' = TRUE
       /\ intake' = [r \in Routes |-> FALSE]
       /\ walk' = [k \in Walks |-> IF k \in Shutdowns THEN [walk[k] EXCEPT !.pc = "draining"] ELSE walk[k]]

(* A mutant: every call starts a shutdown of its own. *)
StopAgain ==
  \E k \in Walks :
    /\ boot \notin {"building", "unbuilding"}
    /\ walk[k].pc = "none"
    /\ stopped' = TRUE
    /\ intake' = [r \in Routes |-> FALSE]
    /\ walk' = [walk EXCEPT ![k].pc = "draining"]
    /\ Settles("rejected")
    /\ UNCHANGED <<boot, next, hook, applied, started, live, completed, late, source, workVars, torn>>

Stop ==
  /\ boot \notin {"building", "unbuilding"}
  /\ ~stopped
  /\ Shutdown
  /\ Settles("rejected")
  /\ UNCHANGED <<boot, next, hook, applied, started, live, completed, late, source, workVars, torn>>

-----------------------------------------------------------------------------
(***************************************************************************)
(* initPlugins, in build() or in start(): one apply after the other.       *)
(***************************************************************************)
Apply ==
  /\ boot \in {"building", "init"} /\ next <= N
  /\ applied' = applied \cup {next}
  /\ next' = next + 1
  /\ UNCHANGED <<boot, hook, started, live, ready, completed, late, source, intake, workVars, stopVars>>

(***************************************************************************)
(* build() fails, in an apply or when it registers the routes: it unwinds  *)
(* what applied and returns no context.  A mutant does not unwind.         *)
(***************************************************************************)
BuildFailsBare ==
  /\ boot = "building"
  /\ next <= N => next \in Failing
  /\ boot' = "refused" /\ stopped' = TRUE
  /\ UNCHANGED <<next, hook, applied, started, live, ready, completed, late, source, intake, workVars, walk, torn>>

BuildFails ==
  /\ boot = "building"
  /\ next <= N => next \in Failing
  /\ boot' = "unbuilding" /\ stopped' = TRUE
  /\ walk' = [walk EXCEPT ![1] = [@ EXCEPT !.pc = "next", !.partial = TRUE]]
  /\ UNCHANGED <<next, hook, applied, started, live, ready, completed, late, source, intake, workVars, torn>>

Build ==
  /\ boot = "building" /\ next > N
  /\ boot' = "new"
  /\ UNCHANGED <<next, hook, applied, started, live, ready, completed, late, source, intake, workVars, stopVars>>

(***************************************************************************)
(* An apply that throws inside start() only rejects and rethrows.          *)
(***************************************************************************)
ApplyRefused ==
  /\ boot = "init" /\ next \in Failing
  /\ boot' = "refused" /\ Settles("rejected")
  /\ UNCHANGED <<next, hook, applied, started, live, completed, late, source, intake, workVars, stopVars>>

(***************************************************************************)
(* start() of a context nobody stopped: plugins that are not applied yet   *)
(* apply now.  Then the configuration is checked and every route started;  *)
(* one whose intake aborted meanwhile refuses.                             *)
(***************************************************************************)
Start ==
  /\ boot = "new" /\ ~stopped /\ ~Built
  /\ boot' = "init"
  /\ UNCHANGED <<next, hook, applied, started, live, ready, completed, late, source, intake, workVars, stopVars>>

Wired ==
  \/ boot = "init" /\ next > N
  \/ boot = "new" /\ ~stopped /\ Built

ConfigRefused ==
  /\ Wired /\ Refusable
  /\ boot' = "refused" /\ Settles("rejected")
  /\ UNCHANGED <<next, hook, applied, started, live, completed, late, source, intake, workVars, stopVars>>

StartRoutes ==
  /\ Wired
  /\ boot' = "coming" /\ next' = 1
  /\ source' = [r \in Routes |-> IF intake[r] THEN "coming" ELSE "failed"]
  /\ UNCHANGED <<hook, applied, started, live, ready, completed, late, intake, workVars, stopVars>>

-----------------------------------------------------------------------------
(***************************************************************************)
(* A source signals readiness, ends, or gives up; the last two close the   *)
(* route's intake.                                                         *)
(***************************************************************************)
SourceReady(r) ==
  /\ source[r] = "coming" /\ intake[r]
  /\ source' = [source EXCEPT ![r] = "ready"]
  /\ UNCHANGED <<bootVars, intake, workVars, stopVars>>

SourceEnds(r) ==
  /\ source[r] \in {"coming", "ready"}
  /\ source' = [source EXCEPT ![r] = "ended"]
  /\ intake' = [intake EXCEPT ![r] = FALSE]
  /\ UNCHANGED <<bootVars, workVars, stopVars>>

SourceFails(r) ==
  /\ source[r] \in {"coming", "ready"}
  /\ source' = [source EXCEPT ![r] = "failed"]
  /\ intake' = [intake EXCEPT ![r] = FALSE]
  /\ UNCHANGED <<bootVars, workVars, stopVars>>

Settled(r) == source[r] \in {"ended", "failed"}

(***************************************************************************)
(* The gate: no route is still coming up, or the bound on that fired.  A   *)
(* mutant has no bound.                                                    *)
(***************************************************************************)
RoutesReadyUnbounded ==
  /\ boot = "coming" /\ \A r \in Routes : source[r] # "coming"
  /\ boot' = IF stopped THEN "up" ELSE "hooks"
  /\ UNCHANGED <<next, hook, applied, started, live, ready, completed, late, source, intake, workVars, stopVars>>

RoutesReady ==
  /\ boot = "coming"
  /\ late' = \E r \in Routes : source[r] = "coming"
  /\ boot' = IF stopped THEN "up" ELSE "hooks"
  /\ UNCHANGED <<next, hook, applied, started, live, ready, completed, source, intake, workVars, stopVars>>

-----------------------------------------------------------------------------
(***************************************************************************)
(* startPlugins: each hook is called after the one before it returned, if  *)
(* no stop came meanwhile.  A mutant looks only before the first one.      *)
(***************************************************************************)
LaterHooks(i) == {j \in Hooked : j >= i}
FirstOf(S) == {i \in S : \A j \in S : i <= j}
LastOf(S) == {i \in S : \A j \in S : j <= i}

HookCalledUnasked ==
  /\ boot = "hooks" /\ hook = 0
  /\ stopped => \E j \in Hooked : j < next
  /\ \E i \in FirstOf(LaterHooks(next)) : hook' = i /\ next' = i + 1
  /\ UNCHANGED <<boot, applied, started, live, ready, completed, late, source, intake, workVars, stopVars>>

HookCalled ==
  /\ boot = "hooks" /\ hook = 0
  /\ ~stopped
  /\ \E i \in FirstOf(LaterHooks(next)) : hook' = i /\ next' = i + 1
  /\ UNCHANGED <<boot, applied, started, live, ready, completed, late, source, intake, workVars, stopVars>>

Closing(i) == \E k \in DOMAIN torn : torn[k].plugin = i

(***************************************************************************)
(* The hook returns.  The sweeper arms its interval after the boot scan; a *)
(* server keeps its listener unless its teardown began while it bound.     *)
(***************************************************************************)
HookReturns ==
  /\ hook # 0
  /\ live' = IF Kind[hook] = "server" /\ Closing(hook) THEN live ELSE live \cup {hook}
  /\ started' = started \cup {hook}
  /\ hook' = 0
  /\ UNCHANGED <<boot, next, applied, ready, completed, late, source, intake, workVars, stopVars>>

(***************************************************************************)
(* The hook throws: the context stops, and start() rejects when that is    *)
(* done and the routes ended.  A mutant leaves the stopping out.           *)
(***************************************************************************)
HookThrowsOnly ==
  /\ hook \in Failing
  /\ hook' = 0 /\ boot' = "unwinding" /\ Settles("rejected")
  /\ UNCHANGED <<next, applied, started, live, completed, late, source, intake, workVars, stopVars>>

HookThrows ==
  /\ hook \in Failing
  /\ hook' = 0 /\ boot' = "unwinding" /\ Settles("rejected")
  /\ Shutdown
  /\ UNCHANGED <<next, applied, started, live, completed, late, source, workVars, torn>>

(***************************************************************************)
(* Every hook returned, or a stop made the rest pointless.  A mutant calls *)
(* the start complete in both cases, another one does not wait for hooks.  *)
(***************************************************************************)
HooksOverAnyway ==
  /\ boot = "hooks" /\ hook = 0
  /\ stopped \/ LaterHooks(next) = {}
  /\ boot' = "up" /\ completed' = TRUE /\ Settles("resolved")
  /\ UNCHANGED <<next, hook, applied, started, live, late, source, intake, workVars, stopVars>>

HooksOverEarly ==
  /\ boot = "hooks"
  /\ stopped \/ LaterHooks(next) = {}
  /\ boot' = "up"
  /\ IF stopped THEN UNCHANGED <<ready, completed>>
     ELSE completed' = TRUE /\ Settles("resolved")
  /\ UNCHANGED <<next, hook, applied, started, live, late, source, intake, workVars, stopVars>>

HooksOver ==
  /\ boot = "hooks" /\ hook = 0
  /\ stopped \/ LaterHooks(next) = {}
  /\ boot' = "up"
  /\ IF stopped THEN UNCHANGED <<ready, completed>>
     ELSE completed' = TRUE /\ Settles("resolved")
  /\ UNCHANGED <<next, hook, applied, started, live, late, source, intake, workVars, stopVars>>

-----------------------------------------------------------------------------
(***************************************************************************)
(* Work.  A source emits a message while its intake is open; a piece of    *)
(* work taps, sends to a route whose direct endpoint is still registered,  *)
(* or resumes an exchange parked in any route.  It waits for the last two. *)
(***************************************************************************)
Awaits(w) == \E v \in Work : Running(v) /\ caller[v] = w

Begins(w, r, c) ==
  /\ status[w] = "none"
  /\ status' = [status EXCEPT ![w] = "running"]
  /\ home' = [home EXCEPT ![w] = r]
  /\ caller' = [caller EXCEPT ![w] = c]

Emit(r, w) ==
  /\ source[r] \in {"coming", "ready"} /\ intake[r]
  /\ source' = [source EXCEPT ![r] = "ready"]
  /\ Begins(w, r, Nobody)
  /\ UNCHANGED <<bootVars, intake, stopVars>>

Tap(c, w) ==
  /\ Running(c) /\ ~Awaits(c)
  /\ Begins(w, home[c], Nobody)
  /\ UNCHANGED <<bootVars, source, intake, stopVars>>

Send(c, w, r) ==
  /\ Running(c) /\ ~Awaits(c)
  /\ source[r] = "ready" /\ intake[r]
  /\ Begins(w, r, c)
  /\ UNCHANGED <<bootVars, source, intake, stopVars>>

Resume(c, w, r) ==
  /\ Resumes
  /\ Running(c) /\ ~Awaits(c)
  /\ Begins(w, r, c)
  /\ UNCHANGED <<bootVars, source, intake, stopVars>>

Ends(w) ==
  /\ Running(w) /\ ~Awaits(w)
  /\ status' = [status EXCEPT ![w] = "ended"]
  /\ UNCHANGED <<bootVars, source, intake, home, caller, stopVars>>

-----------------------------------------------------------------------------
(***************************************************************************)
(* performShutdown: drain every route until nothing is in flight there, or *)
(* until the deadline.  Two mutants: the first drained route is enough,    *)
(* and there is no deadline.                                               *)
(***************************************************************************)
RouteDrained(k, r) ==
  /\ walk[k].pc = "draining" /\ r \notin walk[k].drained
  /\ \A w \in Work : Running(w) => home[w] # r
  /\ walk' = [walk EXCEPT ![k].drained = @ \cup {r}]
  /\ UNCHANGED <<bootVars, source, intake, workVars, stopped, torn>>

DrainEndsAtFirst(k) ==
  /\ walk[k].pc = "draining" /\ walk[k].drained # {}
  /\ walk' = [walk EXCEPT ![k] = [@ EXCEPT !.pc = "next", !.partial = ~completed]]
  /\ UNCHANGED <<bootVars, source, intake, workVars, stopped, torn>>

DrainEnds(k) ==
  /\ walk[k].pc = "draining" /\ walk[k].drained = Routes
  /\ walk' = [walk EXCEPT ![k] = [@ EXCEPT !.pc = "next", !.partial = ~completed]]
  /\ UNCHANGED <<bootVars, source, intake, workVars, stopped, torn>>

DeadlineNever(k) == FALSE /\ UNCHANGED vars

Deadline(k) ==
  /\ walk[k].pc = "draining"
  /\ walk' = [walk EXCEPT ![k] = [@ EXCEPT !.pc = "next", !.partial = ~completed, !.forced = TRUE]]
  /\ UNCHANGED <<bootVars, source, intake, workVars, stopped, torn>>

(***************************************************************************)
(* teardownPlugins: the applied plugins from the last to the first.  The   *)
(* sweeper clears its interval at once and then waits for its boot scan; a *)
(* server waits for its bind and then closes.  A mutant tears only those   *)
(* down whose hook returned.                                               *)
(***************************************************************************)
Left(k) == {i \in applied : i < walk[k].below}

TornDown(k, i) ==
  /\ walk' = [walk EXCEPT ![k] = [@ EXCEPT !.pc = "closing", !.below = i]]
  /\ torn' = Append(torn, [plugin |-> i, partial |-> walk[k].partial, started |-> i \in started])
  /\ live' = IF Kind[i] = "sweeper" THEN live \ {i} ELSE live
  /\ UNCHANGED <<boot, next, hook, applied, started, ready, completed, late, source, intake, workVars, stopped>>

TeardownOfStarted(k) ==
  /\ walk[k].pc = "next"
  /\ \E i \in LastOf(Left(k) \cap started) : TornDown(k, i)

TeardownCalled(k) ==
  /\ walk[k].pc = "next"
  /\ \E i \in LastOf(Left(k)) : TornDown(k, i)

TeardownReturns(k) ==
  /\ walk[k].pc = "closing" /\ hook # walk[k].below
  /\ walk' = [walk EXCEPT ![k].pc = "next"]
  /\ live' = IF Kind[walk[k].below] = "server" THEN live \ {walk[k].below} ELSE live
  /\ UNCHANGED <<boot, next, hook, applied, started, ready, completed, late, source, intake, workVars, stopped, torn>>

WalkEnds(k) ==
  /\ walk[k].pc = "next" /\ Left(k) = {}
  /\ walk' = [walk EXCEPT ![k].pc = "done"]
  /\ UNCHANGED <<bootVars, source, intake, workVars, stopped, torn>>

Over == walk[1].pc = "done"

(***************************************************************************)
(* start() settles: the routes ended and the stop is over, or nobody       *)
(* stopped and the context goes on.  When every route ended well and no    *)
(* plugin keeps the context alive, it stops itself.                        *)
(***************************************************************************)
AutoStop ==
  /\ boot = "up" /\ ~stopped
  /\ \A r \in Routes : source[r] = "ended"
  /\ ~KeepsAlive
  /\ Shutdown
  /\ UNCHANGED <<bootVars, source, workVars, torn>>

Returns ==
  /\ \/ boot \in {"up", "unwinding"} /\ Over
     \/ boot = "up" /\ ~stopped /\ (KeepsAlive \/ \E r \in Routes : source[r] = "failed")
  /\ \A r \in Routes : Settled(r)
  /\ boot' = IF boot = "up" THEN "returned" ELSE "refused"
  /\ UNCHANGED <<next, hook, applied, started, live, ready, completed, late, source, intake, workVars, stopVars>>

BuildUnwound ==
  /\ boot = "unbuilding" /\ Over
  /\ boot' = "refused"
  /\ UNCHANGED <<next, hook, applied, started, live, ready, completed, late, source, intake, workVars, stopVars>>

Boots ==
  \/ Apply \/ BuildFails \/ Build \/ ApplyRefused
  \/ Start \/ ConfigRefused \/ StartRoutes \/ RoutesReady
  \/ HookCalled \/ HookReturns \/ HookThrows \/ HooksOver
  \/ AutoStop \/ Returns \/ BuildUnwound

RouteSteps(r) == SourceReady(r) \/ SourceEnds(r) \/ SourceFails(r)

WorkSteps(w) ==
  \/ \E r \in Routes : Emit(r, w)
  \/ \E c \in Work : Tap(c, w)
  \/ \E c \in Work, r \in Routes : Send(c, w, r) \/ Resume(c, w, r)
  \/ Ends(w)

WalkSteps(k) ==
  \/ \E r \in Routes : RouteDrained(k, r)
  \/ DrainEnds(k) \/ Deadline(k)
  \/ TeardownCalled(k) \/ TeardownReturns(k) \/ WalkEnds(k)

Next ==
  \/ Stop
  \/ Boots
  \/ \E r \in Routes : RouteSteps(r)
  \/ \E w \in Work : WorkSteps(w)
  \/ \E k \in Walks : WalkSteps(k)

Spec == Init /\ [][Next]_vars

(***************************************************************************)
(* The code goes on between its awaits, timers fire, apply and the start   *)
(* hooks settle, which the standard on plugins demands of them, and a      *)
(* source's subscription resolves once its signal aborted.  Neither work   *)
(* nor an open source ever has to end, nor has anybody to call start().    *)
(***************************************************************************)
Abandons(r) == ~intake[r] /\ SourceEnds(r)

FairSpec ==
  /\ Spec
  /\ WF_vars(boot # "new" /\ Boots)
  /\ \A r \in Routes : WF_vars(Abandons(r))
  /\ \A k \in Walks : WF_vars(WalkSteps(k))

-----------------------------------------------------------------------------
(***************************************************************************)
(* The shape of the state.  Hooks are awaited only in their own phase.     *)
(***************************************************************************)
TypeOK ==
  /\ boot \in {"building", "unbuilding", "new", "init", "coming", "hooks", "unwinding",
              "up", "returned", "refused"}
  /\ next \in 1..(N + 1) /\ hook \in Hooked \cup {0}
  /\ hook # 0 => boot = "hooks"
  /\ applied \subseteq Plugins /\ started \subseteq Hooked /\ live \subseteq Hooked
  /\ ready \in {"pending", "resolved", "rejected"}
  /\ completed \in BOOLEAN /\ late \in BOOLEAN /\ stopped \in BOOLEAN
  /\ source \in [Routes -> {"idle", "coming", "ready", "ended", "failed"}]
  /\ intake \in [Routes -> BOOLEAN]
  /\ status \in [Work -> {"none", "running", "ended"}]
  /\ home \in [Work -> Routes \cup {Nobody}] /\ caller \in [Work -> Work \cup {Nobody}]
  /\ walk \in [Walks -> WalkState]
  /\ torn \in Seq(TeardownInfo)

(***************************************************************************)
(* What a teardown is told agrees with what whenStarted() reported, however *)
(* the stop came in between: partial is TRUE just when the start was       *)
(* refused, cut short or never tried.                                      *)
(***************************************************************************)
PartialAgrees ==
  \A k \in DOMAIN torn : torn[k].partial = (ready # "resolved")

(***************************************************************************)
(* A second stop is a no-op that joins the first: the plugins are torn     *)
(* down one at a time, each once, in reverse.                              *)
(***************************************************************************)
TornDownOnce ==
  \A j, k \in DOMAIN torn : j < k => torn[j].plugin > torn[k].plugin

(***************************************************************************)
(* No start hook begins once a teardown was called: nothing would ever end *)
(* what it began.                                                          *)
(***************************************************************************)
NoHookAfterTeardown ==
  [][hook' \notin {0, hook} => torn = <<>>]_vars

(***************************************************************************)
(* "Tear down every plugin that applied": a stop that is over leaves no    *)
(* applied plugin behind, and none is torn down that did not apply.        *)
(***************************************************************************)
AppliedAreTornDown ==
  Over => applied = {torn[k].plugin : k \in DOMAIN torn}

(***************************************************************************)
(* "One walk serves all three exits": a start or a build that was refused  *)
(* leaves no applied plugin behind when the caller hears of it.            *)
(***************************************************************************)
RefusedMeansTornDown ==
  boot = "refused" => applied = {torn[k].plugin : k \in DOMAIN torn}

(***************************************************************************)
(* "A plugin that starts something here MUST stop it in teardown": what a  *)
(* start hook began does not outlive the stop.                             *)
(***************************************************************************)
NothingStaysLive == Over => live = {}

(***************************************************************************)
(* All three: whoever was told that it is over has nothing left behind.    *)
(***************************************************************************)
TeardownIsComplete == AppliedAreTornDown /\ RefusedMeansTornDown /\ NothingStaysLive

(***************************************************************************)
(* "Drain all routes (wait for in-flight handlers and their background     *)
(* tasks)": unless the deadline cut the drain short, nothing is in flight  *)
(* when the teardowns begin.                                               *)
(***************************************************************************)
QuietTeardown ==
  \A k \in Walks : walk[k].pc \in {"next", "closing", "done"} /\ ~walk[k].forced =>
    \A w \in Work : ~Running(w)

(***************************************************************************)
(* stop() ends, even if work in flight never does.                         *)
(***************************************************************************)
StopEnds == stopped ~> Over

(***************************************************************************)
(* whenStarted() settles once start() was called, even if a source never   *)
(* signals that it is ready.                                               *)
(***************************************************************************)
ReadinessSettles == boot \in {"init", "coming"} ~> ready # "pending"

(***************************************************************************)
(* A start that a hook refused rejects; it does not hang on routes that    *)
(* nobody stopped.                                                         *)
(***************************************************************************)
RefusalIsReported == boot = "unwinding" ~> boot = "refused"

(***************************************************************************)
(* Both: whoever awaits the start hears how it went.                       *)
(***************************************************************************)
StartSettles == ReadinessSettles /\ RefusalIsReported

=============================================================================

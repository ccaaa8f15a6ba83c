----------------------------- MODULE StdioClient -----------------------------
(***************************************************************************)
(* The manager of an MCP server that runs as a child process               *)
(* (packages/ai/src/mcp/stdio-client-manager.ts): started once, restarted  *)
(* with a growing delay when it dies, stopped with its context.            *)
(*                                                                         *)
(* start(), restart() and stop() are coroutines that share the manager's   *)
(* fields; whatever they await lets the others, the timers and onclose in. *)
(***************************************************************************)
EXTENDS Naturals, Sequences, SequencesExt, FiniteSets, FiniteSetsExt

CONSTANTS
  MaxRestarts, RestartDelay, Multiplier, \* the options
  MaxStarts, \* bound on the calls of start() that spawn a process
  MaxTime    \* bound on the clock

ConstantsOK ==
  /\ MaxRestarts \in Nat /\ RestartDelay \in Nat \ {0} /\ Multiplier \in Nat \ {0}
  /\ MaxStarts \in Nat \ {0} /\ MaxTime \in Nat \ {0}

Stable == RestartDelay * 2
Delay(count) == RestartDelay * Multiplier ^ count

VARIABLES
  now,
  starts,         \* the calls of start(), each with where it is, whether its
                  \* process lives and whether restart() made it
  client,         \* the start() whose client, or transport, the field holds,
  transport,      \* 0 for null
  running, stopping, restartCount,
  timers,         \* the pending timers
  restartTimer,   \* the due time of the one the field holds, 0 for null
  stabilityTimer,
  stop,           \* where stop() is
  streak,         \* restarts since a process last stayed up long enough
  upSince,        \* when the process in use came up
  disturbed       \* whether a handshake failed, or stop() met a start()

vars == <<now, starts, client, transport, running, stopping, restartCount, timers,
          restartTimer, stabilityTimer, stop, streak, upSince, disturbed>>

fields == <<client, transport>>
history == <<streak, upSince, disturbed>>

Init ==
  /\ now = 1
  /\ starts = <<[pc |-> "loading", alive |-> FALSE, auto |-> FALSE]>>
  /\ client = 0 /\ transport = 0
  /\ running = FALSE /\ stopping = FALSE /\ restartCount = 0
  /\ timers = {} /\ restartTimer = 0 /\ stabilityTimer = 0
  /\ stop = "no"
  /\ streak = 0 /\ upSince = 0 /\ disturbed = FALSE

(***************************************************************************)
(* A timer is known by what it does and when: two of one kind that are due *)
(* at once cannot be told apart by what follows, but both fire.            *)
(***************************************************************************)
Timer(kind, due, n) == [kind |-> kind, due |-> due, n |-> n]
Armed(kind, due) ==
  CHOOSE t \in {Timer(kind, due, n) : n \in 0..Cardinality(timers)} : t \notin timers

Due == {t \in timers : t.due <= now}

UnderWay == {i \in 1..Len(starts) : starts[i].pc \in {"loading", "connecting", "listing"}}
Alive == {i \in 1..Len(starts) : starts[i].alive}

-----------------------------------------------------------------------------
(***************************************************************************)
(* handleDisconnect: give up, or arm the next restart.  The field forgets  *)
(* a timer that is armed already.                                          *)
(***************************************************************************)
HandleDisconnect ==
  IF restartCount >= MaxRestarts THEN UNCHANGED <<timers, restartTimer>>
  ELSE /\ restartTimer' = now + Delay(restartCount)
       /\ timers' = timers \union {Armed("restart", restartTimer')}

(***************************************************************************)
(* start(): load the SDK, spawn and connect, then list the tools.  Only a  *)
(* process that lives answers the handshake.                               *)
(***************************************************************************)
Goes(i, to) == starts' = [starts EXCEPT ![i].pc = to]

Spawn(i) ==
  /\ starts[i].pc = "loading"
  /\ starts' = [starts EXCEPT ![i].pc = "connecting", ![i].alive = TRUE]
  /\ client' = i /\ transport' = i
  /\ UNCHANGED <<now, running, stopping, restartCount, timers, restartTimer,
                 stabilityTimer, stop, history>>

Connect(i) ==
  /\ starts[i].pc = "connecting" /\ starts[i].alive /\ Due = {}
  /\ running' = TRUE
  /\ upSince' = now
  /\ Goes(i, "listing")
  /\ UNCHANGED <<now, fields, stopping, restartCount, timers, restartTimer,
                 stabilityTimer, stop, streak, disturbed>>

(* A failed handshake: restart() schedules another; the SDK closes the rest. *)
ConnectFails(i) ==
  /\ starts[i].pc = "connecting" /\ Due = {}
  /\ Goes(i, "failed")
  /\ IF starts[i].auto THEN HandleDisconnect ELSE UNCHANGED <<timers, restartTimer>>
  /\ disturbed' = TRUE
  /\ UNCHANGED <<now, fields, running, stopping, restartCount, stabilityTimer, stop,
                 streak, upSince>>

(***************************************************************************)
(* start() is over, tools or no tools.  After a restart the count is reset *)
(* once a stability period has passed; a mutant resets it at once.         *)
(***************************************************************************)
AwaitStability ==
  /\ stabilityTimer' = now + Stable
  /\ timers' = timers \union {Armed("stability", stabilityTimer')}

ListedAndForgiven(i) ==
  /\ starts[i].pc = "listing"
  /\ Goes(i, "done")
  /\ restartCount' = IF starts[i].auto THEN 0 ELSE restartCount
  /\ UNCHANGED <<now, fields, running, stopping, timers, restartTimer, stabilityTimer,
                 stop, history>>

Listed(i) ==
  /\ starts[i].pc = "listing"
  /\ Goes(i, "done")
  /\ IF starts[i].auto THEN AwaitStability ELSE UNCHANGED <<timers, stabilityTimer>>
  /\ UNCHANGED <<now, fields, running, stopping, restartCount, restartTimer, stop, history>>

(***************************************************************************)
(* The process ends, by itself or because it is closed: onclose.           *)
(***************************************************************************)
StayedUp == running /\ now - upSince >= Stable

Exit(i) ==
  /\ starts[i].alive
  /\ starts' = [starts EXCEPT ![i].alive = FALSE]
  /\ streak' = IF StayedUp THEN 0 ELSE streak
  /\ IF stopping THEN UNCHANGED <<running, timers, restartTimer>>
                 ELSE running' = FALSE /\ HandleDisconnect
  /\ UNCHANGED <<now, fields, stopping, restartCount, stabilityTimer, stop, upSince,
                 disturbed>>

-----------------------------------------------------------------------------
(***************************************************************************)
(* restart() drops both references; its start() returns at once if another *)
(* one has got through, and takes back a stop().                           *)
(***************************************************************************)
Fired(t) == timers \ {t}

Restarts(t) ==
  /\ t \in Due /\ t.kind = "restart"
  /\ restartTimer' = 0
  /\ restartCount' = restartCount + 1
  /\ streak' = streak + 1
  /\ client' = 0 /\ transport' = 0
  /\ UNCHANGED <<now, running, stop, upSince, disturbed>>

Restart(t) ==
  /\ Restarts(t)
  /\ ~running
  /\ Len(starts) < MaxStarts
  /\ stopping' = FALSE
  /\ starts' = Append(starts, [pc |-> "loading", alive |-> FALSE, auto |-> TRUE])
  /\ timers' = Fired(t)
  /\ UNCHANGED stabilityTimer

RestartForNothing(t) ==
  /\ Restarts(t)
  /\ running
  /\ stabilityTimer' = now + Stable
  /\ timers' = Fired(t) \union {Armed("stability", stabilityTimer')}
  /\ UNCHANGED <<stopping, starts>>

StabilityFires(t) ==
  /\ t \in Due /\ t.kind = "stability"
  /\ timers' = Fired(t)
  /\ stabilityTimer' = 0
  /\ restartCount' = IF running THEN 0 ELSE restartCount
  /\ UNCHANGED <<now, starts, fields, running, stopping, restartTimer, stop, history>>

(***************************************************************************)
(* stop(): clear the timers the fields hold, close the client, then the    *)
(* transport, whichever the fields hold by then.  A mutant leaves the      *)
(* restart armed.                                                          *)
(***************************************************************************)
Held(t) == t.due = IF t.kind = "restart" THEN restartTimer ELSE stabilityTimer
OneOf(kind) == {CHOOSE t \in {u \in timers : u.kind = kind /\ Held(u)} : TRUE}
HeldTimers == UNION {OneOf(t.kind) : t \in {u \in timers : Held(u)}}

ClearStability ==
  timers' = timers \ {t \in HeldTimers : t.kind = "stability"}

ClearTimers ==
  timers' = timers \ HeldTimers

Stop ==
  /\ stop = "no"
  /\ stop' = "closing client"
  /\ stopping' = TRUE
  /\ ClearTimers
  /\ restartTimer' = 0 /\ stabilityTimer' = 0
  /\ disturbed' = (disturbed \/ UnderWay # {})
  /\ UNCHANGED <<now, starts, fields, running, restartCount, streak, upSince>>

Closed(i) == i # 0 => ~starts[i].alive

ClientCloses ==
  /\ stop = "closing client" /\ Closed(client)
  /\ client' = 0
  /\ stop' = "closing transport"
  /\ UNCHANGED <<now, starts, transport, running, stopping, restartCount, timers,
                 restartTimer, stabilityTimer, history>>

TransportCloses ==
  /\ stop = "closing transport" /\ Closed(transport)
  /\ transport' = 0
  /\ running' = FALSE
  /\ stop' = "stopped"
  /\ UNCHANGED <<now, starts, client, stopping, restartCount, timers, restartTimer,
                 stabilityTimer, history>>

(***************************************************************************)
(* Time passes when no timer is due and no request waits for a dead        *)
(* process.                                                                *)
(***************************************************************************)
Tick ==
  /\ now < MaxTime
  /\ Due = {}
  /\ \A i \in UnderWay : starts[i].pc # "loading" => starts[i].alive
  /\ now' = now + 1
  /\ UNCHANGED <<starts, fields, running, stopping, restartCount, timers, restartTimer,
                 stabilityTimer, stop, history>>

Next ==
  \/ \E i \in 1..Len(starts) :
       Spawn(i) \/ Connect(i) \/ ConnectFails(i) \/ Listed(i) \/ Exit(i)
  \/ \E t \in timers : Restart(t) \/ RestartForNothing(t) \/ StabilityFires(t)
  \/ Stop \/ ClientCloses \/ TransportCloses \/ Tick

Spec == Init /\ [][Next]_vars

-----------------------------------------------------------------------------
(***************************************************************************)
(* The shape of the state.                                                 *)
(***************************************************************************)
TypeOK ==
  /\ now \in 1..MaxTime
  /\ starts \in Seq([pc : {"loading", "connecting", "listing", "done", "failed"},
                     alive : BOOLEAN, auto : BOOLEAN])
  /\ client \in 0..Len(starts) /\ transport \in 0..Len(starts)
  /\ running \in BOOLEAN /\ stopping \in BOOLEAN /\ disturbed \in BOOLEAN
  /\ restartCount \in Nat /\ streak \in Nat /\ upSince \in 0..now
  /\ \A t \in timers : t.kind \in {"restart", "stability"} /\ t.due \in Nat
  /\ restartTimer \in Nat /\ stabilityTimer \in Nat
  /\ stop \in {"no", "closing client", "closing transport", "stopped"}

(***************************************************************************)
(* stop(): "Gracefully close the client and transport, cancelling any      *)
(* pending restart": from when it is over no process lives.                *)
(***************************************************************************)
StopIsFinal == stop = "stopped" => Alive = {}

(***************************************************************************)
(* That holds when stop() met no start() under way and no handshake has    *)
(* failed before, whatever the process and the timers did.                 *)
(***************************************************************************)
CalmStopIsFinal == ~disturbed => StopIsFinal

(***************************************************************************)
(* A restart count is reset only for a process that stayed up, so that one *)
(* that keeps dying is given up on after maxRestarts: with a multiplier of *)
(* 2, and as long as no handshake fails.                                   *)
(***************************************************************************)
FlappingEnds == (~disturbed /\ Multiplier >= 2) => streak <= MaxRestarts

=============================================================================

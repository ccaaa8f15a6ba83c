------------------------------ MODULE Dispatch -------------------------------
(***************************************************************************)
(* .dispatch() (operations/dispatch.ts): one of several targets is chosen  *)
(* for an exchange.  The state of a strategy belongs to the route and is   *)
(* shared by its exchanges.                                                *)
(*                                                                         *)
(* A choice is made without an await.  Failover awaits the target it has   *)
(* chosen, and other exchanges may move the cursor meanwhile.              *)
(***************************************************************************)
EXTENDS Naturals, Integers, Sequences, SequencesExt, FiniteSets, FiniteSetsExt

CONSTANTS
  MaxArrivals, \* bound, per strategy, on the exchanges; numbered as they come
  N,           \* the number of targets
  Weights,     \* the weights they may be given (1 where none is given)
  Keys,        \* what the sticky strategy's key may return
  MaxKeys,     \* its maxKeys
  Strategies   \* the strategies to choose from

Targets == 0..N-1

ConstantsOK ==
  /\ N \in Nat \ {0}
  /\ Weights \subseteq [Targets -> Nat \ {0}] /\ [t \in Targets |-> 1] \in Weights
  /\ Keys # {} /\ MaxKeys \in Nat \ {0}

VARIABLES
  strategy, weight,
  failoverCursor, rrCursor, stickyCursor,
  currentWeights,  \* per target
  sticky,    \* the remembered [key, target], the least recently used first
  key,       \* the keys of the exchanges so far
  tried,     \* for each of them, the targets it was sent to
  probing,   \* those that are failing over
  exhausted, \* those given up
  overtaken  \* those that were failing over while another one was

vars == <<strategy, weight, failoverCursor, rrCursor, stickyCursor, currentWeights,
          sticky, key, tried, probing, exhausted, overtaken>>

cursors == <<failoverCursor, rrCursor, stickyCursor, currentWeights, sticky>>
failing == <<probing, exhausted, overtaken>>

Init ==
  /\ strategy \in Strategies
  /\ weight \in IF strategy = "weighted" THEN Weights ELSE {[t \in Targets |-> 1]}
  /\ failoverCursor = 0 /\ rrCursor = 0 /\ stickyCursor = 0
  /\ currentWeights = [t \in Targets |-> 0]
  /\ sticky = <<>>
  /\ key = <<>>
  /\ tried = <<>>
  /\ probing = {} /\ exhausted = {} /\ overtaken = {}

(***************************************************************************)
(* The next exchange, with key k, is sent to target t.                     *)
(***************************************************************************)
Arrived == Len(tried)
Newest == Arrived + 1

NoKey == CHOOSE k \in Keys : TRUE  \* not looked at

Sends(k, t) ==
  /\ Newest <= MaxArrivals[strategy]
  /\ key' = Append(key, k)
  /\ tried' = Append(tried, <<t>>)
  /\ UNCHANGED <<strategy, weight>>

-----------------------------------------------------------------------------
(***************************************************************************)
(* Whether the target fails matters to failover alone.                     *)
(***************************************************************************)
RoundRobin ==
  /\ strategy = "round-robin"
  /\ Sends(NoKey, rrCursor)
  /\ rrCursor' = (rrCursor + 1) % N
  /\ UNCHANGED <<failoverCursor, stickyCursor, currentWeights, sticky, failing>>

(***************************************************************************)
(* Smooth weighted round-robin: every target gains its weight, and the     *)
(* first of those with most pays the total.  A mutant: it pays its own     *)
(* weight.                                                                 *)
(***************************************************************************)
Total == MapThenSumSet(LAMBDA t : weight[t], Targets)
Gained == [t \in Targets |-> currentWeights[t] + weight[t]]
IsBest(t) == \A u \in Targets :
  Gained[u] < Gained[t] \/ (Gained[u] = Gained[t] /\ t <= u)

PaysOwn(t) == [Gained EXCEPT ![t] = @ - weight[t]]

Pays(t) == [Gained EXCEPT ![t] = @ - Total]

Weighted ==
  /\ strategy = "weighted"
  /\ \E t \in Targets :
       IsBest(t) /\ Sends(NoKey, t) /\ currentWeights' = Pays(t)
  /\ UNCHANGED <<failoverCursor, rrCursor, stickyCursor, sticky, failing>>

(***************************************************************************)
(* A key that is remembered keeps its target and becomes the most recently *)
(* used one (a mutant forgets to); a new key takes the next target and may *)
(* push the least recently used one out.                                   *)
(***************************************************************************)
Remembered(k) == {a \in ToSet(sticky) : a.key = k}
Bounded(keys) == IF Len(keys) > MaxKeys THEN Tail(keys) ELSE keys

UsedNoMore(a) == sticky
Used(a) == Append(RemoveAt(sticky, CHOOSE i \in DOMAIN sticky : sticky[i] = a), a)

StickyHit ==
  /\ strategy = "sticky"
  /\ \E k \in Keys : \E a \in Remembered(k) : Sends(k, a.target) /\ sticky' = Used(a)
  /\ UNCHANGED <<failoverCursor, rrCursor, stickyCursor, currentWeights, failing>>

StickyMiss ==
  /\ strategy = "sticky"
  /\ \E k \in Keys :
       /\ Remembered(k) = {}
       /\ Sends(k, stickyCursor)
       /\ sticky' = Bounded(Append(sticky, [key |-> k, target |-> stickyCursor]))
  /\ stickyCursor' = (stickyCursor + 1) % N
  /\ UNCHANGED <<failoverCursor, rrCursor, currentWeights, failing>>

-----------------------------------------------------------------------------
(* Failover: attempt i goes to the i-th target after the cursor. *)

Failover ==
  /\ strategy = "failover"
  /\ Sends(NoKey, failoverCursor)
  /\ probing' = probing \union {Newest}
  /\ overtaken' = IF probing = {} THEN overtaken ELSE overtaken \union probing'
  /\ UNCHANGED <<cursors, exhausted>>

(***************************************************************************)
(* The target handled the exchange, or dropped it: it is the preferred one *)
(* from now on.                                                            *)
(***************************************************************************)
TargetHandles(e) ==
  /\ failoverCursor' = Last(tried[e])
  /\ probing' = probing \ {e}
  /\ UNCHANGED <<strategy, weight, rrCursor, stickyCursor, currentWeights, sticky,
                 key, tried, exhausted, overtaken>>

(***************************************************************************)
(* The target failed: the next one is counted from where the cursor is by  *)
(* now.  A mutant tries one target fewer.                                  *)
(***************************************************************************)
AttemptsButOne == N - 1
Attempts == N

TargetFails(e) ==
  LET attempt == Len(tried[e])
  IN /\ attempt < Attempts
     /\ tried' = [tried EXCEPT ![e] = Append(@, (failoverCursor + attempt) % N)]
     /\ UNCHANGED <<strategy, weight, cursors, key, failing>>

LastTargetFails(e) ==
  /\ Len(tried[e]) >= Attempts
  /\ probing' = probing \ {e}
  /\ exhausted' = exhausted \union {e}
  /\ UNCHANGED <<strategy, weight, cursors, key, tried, overtaken>>

(***************************************************************************)
(* A route-scope timeout abandons the attempt: no cursor moves.            *)
(***************************************************************************)
Abandon(e) ==
  /\ probing' = probing \ {e}
  /\ UNCHANGED <<strategy, weight, cursors, key, tried, exhausted, overtaken>>

Next ==
  \/ RoundRobin \/ Weighted \/ StickyHit \/ StickyMiss \/ Failover
  \/ \E e \in probing :
       TargetHandles(e) \/ TargetFails(e) \/ LastTargetFails(e) \/ Abandon(e)

Spec == Init /\ [][Next]_vars

-----------------------------------------------------------------------------
(***************************************************************************)
(* The shape of the state.                                                 *)
(***************************************************************************)
TypeOK ==
  /\ strategy \in Strategies /\ weight \in Weights
  /\ failoverCursor \in Targets /\ rrCursor \in Targets /\ stickyCursor \in Targets
  /\ currentWeights \in [Targets -> Int]
  /\ Len(sticky) <= MaxKeys
  /\ ToSet(sticky) \subseteq [key : Keys, target : Targets]
  /\ key \in Seq(Keys) /\ tried \in Seq(Seq(Targets)) /\ Len(key) = Len(tried)
  /\ probing \union exhausted \union overtaken \subseteq 1..Arrived

(***************************************************************************)
(* "If every target fails, emit route:operation:dispatch:exhausted"        *)
(* (dispatch.ts): an exchange is given up only when every target failed,   *)
(* if it was alone while it failed over, from wherever the ones before it  *)
(* had left the cursor.                                                    *)
(***************************************************************************)
AloneTriesAll == \A e \in exhausted \ overtaken : ToSet(tried[e]) = Targets

(***************************************************************************)
(* Round-robin and weighted dispatch follow the weights at every moment,   *)
(* not only in the long run: no target is ever a whole exchange ahead of   *)
(* what its weight entitles it to; with round-robin, or up to three        *)
(* targets, none is a whole exchange behind; and the shares are exact      *)
(* whenever as many exchanges have come as the weights add up to.          *)
(***************************************************************************)
Share(t) == Cardinality({e \in 1..Arrived : tried[e] = <<t>>})

WeightsAreHonoured ==
  strategy \in {"weighted", "round-robin"} => \A t \in Targets :
    LET owed == Arrived * weight[t] - Share(t) * Total
    IN /\ -Total < owed
       /\ N <= 3 \/ strategy = "round-robin" => owed < Total
       /\ Arrived % Total = 0 => owed = 0

(***************************************************************************)
(* Affinity: two exchanges of one key go to different targets only if at   *)
(* least maxKeys other keys came between them.                             *)
(***************************************************************************)
KeysStick ==
  strategy = "sticky" => \A i, j \in 1..Arrived :
    (i < j /\ key[i] = key[j] /\ tried[i] # tried[j]) =>
      Cardinality({key[m] : m \in i+1..j-1} \ {key[i]}) >= MaxKeys

(***************************************************************************)
(* Each strategy spreads its exchanges as it promises to.                  *)
(***************************************************************************)
StrategiesHold == AloneTriesAll /\ WeightsAreHonoured /\ KeysStick

=============================================================================

------------------------------ MODULE Bulkhead -------------------------------
(***************************************************************************)
(* .concurrency() (operations/concurrency-wrapper.ts) over the counting    *)
(* semaphore (operations/semaphore.ts): pools of slots, one per key, in an *)
(* LRU cache of bounded size.  An unkeyed bulkhead is one key.             *)
(*                                                                         *)
(* Acquire and release run without an await, so each is one action.  A     *)
(* waiter that is resolved touches nothing shared before its work, so it   *)
(* runs from the moment it is resolved.                                    *)
(***************************************************************************)
EXTENDS Naturals, Sequences, SequencesExt, FiniteSets

CONSTANTS
  Exchanges,  \* the exchanges that reach the step, each once
  Keys, KeyOf,  \* the keys, and what options.key returns for each exchange
  Slots,        \* options.max
  Mode,       \* options.mode: "queue" or "reject"
  MaxQueue,   \* options.maxQueue
  MaxKeys,    \* options.maxKeys
  MustWait    \* the exchanges admitted with opts.mustWait

ASSUME ExchangesAssumption == IsFiniteSet(Exchanges)
ASSUME KeyAssumption == KeyOf \in [Exchanges -> Keys]
ASSUME SlotsAssumption == Slots \in Nat \ {0}
ASSUME ModeAssumption == Mode \in {"queue", "reject"}
ASSUME MaxQueueAssumption == MaxQueue \in Nat \ {0}
ASSUME MaxKeysAssumption == MaxKeys \in Nat \ {0}
ASSUME MustWaitAssumption == MustWait \subseteq Exchanges

VARIABLES
  cache,    \* the pools by key, the least recently used first
  inUse,    \* per pool, the slots it counts as held
  waiters,  \* per pool, its wait line
  pc,       \* per exchange: "idle", "waiting", "running", "shed" or "done"
  pool,     \* per exchange, the pool it went to
  slot,     \* per exchange, its release gives a slot back
  aborted   \* the route's intake signal

vars == <<cache, inUse, waiters, pc, pool, slot, aborted>>

(***************************************************************************)
(* A pool is named after the exchange that made it.                        *)
(***************************************************************************)
Entry == [key : Keys, pool : Exchanges]

Init ==
  /\ cache = <<>>
  /\ inUse = [p \in Exchanges |-> 0]
  /\ waiters = [p \in Exchanges |-> <<>>]
  /\ pc = [e \in Exchanges |-> "idle"]
  /\ pool = [e \in Exchanges |-> e]
  /\ slot = [e \in Exchanges |-> FALSE]
  /\ aborted = FALSE

(***************************************************************************)
(* semaphoreFor: the pool of the key becomes the most recently used one,   *)
(* and a new pool may push the least recently used one out.                *)
(***************************************************************************)
Cached(k) == {c \in ToSet(cache) : c.key = k}

Without(k) ==
  IF Cached(k) = {} THEN cache
  ELSE RemoveAt(cache, CHOOSE i \in DOMAIN cache : cache[i].key = k)

Evict(pools) == IF Len(pools) > MaxKeys THEN Tail(pools) ELSE pools

Lookup(e, p) ==
  LET k == KeyOf[e]
      mine == [key |-> k, pool |-> p]
  IN /\ pc[e] = "idle"
     /\ IF Cached(k) = {} THEN p = e ELSE mine \in Cached(k)
     /\ cache' = Evict(Append(Without(k), mine))
     /\ pool' = [pool EXCEPT ![e] = p]

-----------------------------------------------------------------------------
(* A mutant: the free slot is looked for after it was counted. *)
AdmitOverbooked(e, p) ==
  /\ Lookup(e, p)
  /\ inUse[p] <= Slots
  /\ inUse' = [inUse EXCEPT ![p] = @ + 1]
  /\ pc' = [pc EXCEPT ![e] = "running"]
  /\ slot' = [slot EXCEPT ![e] = TRUE]
  /\ UNCHANGED <<waiters, aborted>>

(***************************************************************************)
(* tryAcquire finds a free slot.                                           *)
(***************************************************************************)
Admit(e, p) ==
  /\ Lookup(e, p)
  /\ inUse[p] < Slots
  /\ inUse' = [inUse EXCEPT ![p] = @ + 1]
  /\ pc' = [pc EXCEPT ![e] = "running"]
  /\ slot' = [slot EXCEPT ![e] = TRUE]
  /\ UNCHANGED <<waiters, aborted>>

(***************************************************************************)
(* Who finds the pool full and may not be shed, or finds room in line?     *)
(***************************************************************************)
Joins(e, p) ==
  \/ e \in MustWait
  \/ Mode = "queue" /\ Len(waiters[p]) < MaxQueue

(* A mutant: the newest waiter is put in front. *)
QueueInFront(e, p) ==
  /\ Lookup(e, p)
  /\ inUse[p] >= Slots
  /\ Joins(e, p)
  /\ ~aborted
  /\ waiters' = [waiters EXCEPT ![p] = <<e>> \o @]
  /\ pc' = [pc EXCEPT ![e] = "waiting"]
  /\ UNCHANGED <<inUse, slot, aborted>>

Queue(e, p) ==
  /\ Lookup(e, p)
  /\ inUse[p] >= Slots
  /\ Joins(e, p)
  /\ ~aborted
  /\ waiters' = [waiters EXCEPT ![p] = Append(@, e)]
  /\ pc' = [pc EXCEPT ![e] = "waiting"]
  /\ UNCHANGED <<inUse, slot, aborted>>

(***************************************************************************)
(* A wait that would begin after the abort is over at once: the exchange   *)
(* runs without a slot.                                                    *)
(***************************************************************************)
AdmitAborted(e, p) ==
  /\ Lookup(e, p)
  /\ inUse[p] >= Slots
  /\ Joins(e, p)
  /\ aborted
  /\ pc' = [pc EXCEPT ![e] = "running"]
  /\ UNCHANGED <<inUse, waiters, slot, aborted>>

(***************************************************************************)
(* RC5026: busy, or the wait line is full.                                 *)
(***************************************************************************)
Shed(e, p) ==
  /\ Lookup(e, p)
  /\ inUse[p] >= Slots
  /\ ~Joins(e, p)
  /\ pc' = [pc EXCEPT ![e] = "shed"]
  /\ UNCHANGED <<inUse, waiters, slot, aborted>>

-----------------------------------------------------------------------------
(***************************************************************************)
(* release: the slot goes straight to the first waiter, or becomes free.   *)
(* A mutant frees the slot and leaves the waiter in line.                  *)
(***************************************************************************)
FinishWithoutHandover(e) ==
  /\ pc[e] = "running"
  /\ pc' = [pc EXCEPT ![e] = "done"]
  /\ slot' = [slot EXCEPT ![e] = FALSE]
  /\ inUse' = IF slot[e] THEN [inUse EXCEPT ![pool[e]] = @ - 1] ELSE inUse
  /\ UNCHANGED <<cache, waiters, pool, aborted>>

Finish(e) ==
  /\ pc[e] = "running"
  /\ LET p == pool[e]
         next == Head(waiters[p])
     IN \/ /\ ~slot[e]
           /\ pc' = [pc EXCEPT ![e] = "done"]
           /\ UNCHANGED <<inUse, waiters, slot>>
        \/ /\ slot[e] /\ waiters[p] # <<>>
           /\ waiters' = [waiters EXCEPT ![p] = Tail(@)]
           /\ pc' = [pc EXCEPT ![e] = "done", ![next] = "running"]
           /\ slot' = [slot EXCEPT ![e] = FALSE, ![next] = TRUE]
           /\ UNCHANGED inUse
        \/ /\ slot[e] /\ waiters[p] = <<>>
           /\ inUse' = [inUse EXCEPT ![p] = @ - 1]
           /\ pc' = [pc EXCEPT ![e] = "done"]
           /\ slot' = [slot EXCEPT ![e] = FALSE]
           /\ UNCHANGED waiters
  /\ UNCHANGED <<cache, pool, aborted>>

(***************************************************************************)
(* The intake signal aborts: every waiter leaves the line and runs without *)
(* a slot.                                                                 *)
(***************************************************************************)
Abort ==
  /\ ~aborted
  /\ aborted' = TRUE
  /\ waiters' = [p \in Exchanges |-> <<>>]
  /\ pc' = [e \in Exchanges |-> IF pc[e] = "waiting" THEN "running" ELSE pc[e]]
  /\ UNCHANGED <<cache, inUse, pool, slot>>

Arrive(e, p) ==
  Admit(e, p) \/ Queue(e, p) \/ AdmitAborted(e, p) \/ Shed(e, p)

Next ==
  \/ \E e, p \in Exchanges : Arrive(e, p)
  \/ \E e \in Exchanges : Finish(e)
  \/ Abort

Spec == Init /\ [][Next]_vars

(***************************************************************************)
(* The wrapped work settles.  Nothing obliges exchanges to arrive or the   *)
(* route to stop.                                                          *)
(***************************************************************************)
FairSpec == Spec /\ \A e \in Exchanges : WF_vars(Finish(e))

-----------------------------------------------------------------------------
(***************************************************************************)
(* The shape of the state.  The wait line holds nobody twice.              *)
(***************************************************************************)
TypeOK ==
  /\ cache \in Seq(Entry) /\ Len(cache) <= MaxKeys
  /\ inUse \in [Exchanges -> Nat]
  /\ waiters \in [Exchanges -> Seq(Exchanges)]
  /\ \A p \in Exchanges : IsInjective(waiters[p])
  /\ pc \in [Exchanges -> {"idle", "waiting", "running", "shed", "done"}]
  /\ pool \in [Exchanges -> Exchanges]
  /\ slot \in [Exchanges -> BOOLEAN]
  /\ aborted \in BOOLEAN

Holders(p) == {e \in Exchanges : slot[e] /\ pool[e] = p}

(***************************************************************************)
(* The bulkhead: a pool never has more holders than slots, through any     *)
(* order of arrivals, handovers, evictions and the abort.                  *)
(***************************************************************************)
PoolHolds == \A p \in Exchanges : Cardinality(Holders(p)) <= Slots

(***************************************************************************)
(* No wake-up is lost: while somebody waits, every slot of that pool is    *)
(* held by work that is running, whose end will wake the next one.         *)
(***************************************************************************)
NoSlotIdles ==
  \A p \in Exchanges : waiters[p] # <<>> =>
    Cardinality({e \in Holders(p) : pc[e] = "running"}) = Slots

(***************************************************************************)
(* Both: never too many at work, and never too few while somebody waits.   *)
(***************************************************************************)
PoolIsFilled == PoolHolds /\ NoSlotIdles

(***************************************************************************)
(* First come, first served: while an exchange waits, nobody gets in front *)
(* of it, and only who is in front of it gets a slot of its pool.          *)
(***************************************************************************)
Ahead(d) == LET line == waiters[pool[d]]
            IN {e \in Exchanges : \E i, j \in DOMAIN line : i < j /\ line[i] = e /\ line[j] = d}

NoOvertaking ==
  [][\A d \in Exchanges : pc[d] = "waiting" /\ pc'[d] = "waiting" =>
       /\ Ahead(d)' \subseteq Ahead(d)
       /\ \A e \in Exchanges : ~slot[e] /\ slot'[e] /\ pool'[e] = pool[d] => e \in Ahead(d)]_vars

(***************************************************************************)
(* Nobody waits forever, if the work that holds the slots ends.            *)
(***************************************************************************)
WaitersRun == \A e \in Exchanges : pc[e] = "waiting" ~> pc[e] = "running"

=============================================================================

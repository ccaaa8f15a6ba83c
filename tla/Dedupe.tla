------------------------------- MODULE Dedupe --------------------------------
(***************************************************************************)
(* .dedupe() (operations/dedupe.ts) in a route that may retry as a whole,  *)
(* and may have a .debounce() (operations/debounce.ts) after it, while the *)
(* route's intake may be aborted: a stop, or a source that has finished.   *)
(* Exchanges already taken in go on after that, and may only reach         *)
(* .dedupe() then.                                                         *)
(*                                                                         *)
(* A key is reserved on entry and settled by the terminal event of the     *)
(* exchange, which the step hears of as long as it is subscribed.          *)
(***************************************************************************)
EXTENDS Naturals, Sequences, SequencesExt, FiniteSets

CONSTANTS
  Exchanges,
  KeyOf,       \* their keys for .dedupe(); .debounce() has one group
  MaxAttempts, \* of the route's .retry(), 1 if it has none
  MaxKeys,     \* .dedupe()'s maxKeys
  Shapes,      \* of the routes to check: whether they debounce
  Nobody

Keys == {KeyOf[e] : e \in Exchanges}

ConstantsOK ==
  /\ IsFiniteSet(Exchanges)
  /\ MaxAttempts \in Nat \ {0} /\ MaxKeys \in Nat \ {0}
  /\ Shapes \subseteq BOOLEAN /\ Nobody \notin Exchanges

VARIABLES
  debounces,  \* whether this route does
  at,         \* where each exchange is
  attempt,    \* the attempt it is at
  reserved,   \* the keys of exchanges in flight
  pending,    \* the exchanges that hold a reservation
  committed,  \* the keys handled, the least recently seen first
  subscribed, \* whether the terminal events are heard
  aborted,    \* whether the intake is
  hold,       \* the exchange .debounce() holds
  running,    \* those whose released clone runs
  \* History: those .debounce() absorbed, in order, those it let go, and how
  \* often a committed key was forgotten.
  absorbed, released, forgotten

vars == <<debounces, at, attempt, reserved, pending, committed, subscribed, aborted,
          hold, running, absorbed, released, forgotten>>

debounce == <<hold, running, absorbed, released>>

Init ==
  /\ debounces \in Shapes
  /\ at = [e \in Exchanges |-> "before"]
  /\ attempt = [e \in Exchanges |-> 1]
  /\ reserved = {} /\ pending = {} /\ committed = <<>>
  /\ subscribed = FALSE /\ aborted = FALSE
  /\ hold = Nobody /\ running = {}
  /\ absorbed = <<>> /\ released = {}
  /\ forgotten = [k \in Keys |-> 0]

-----------------------------------------------------------------------------
(***************************************************************************)
(* Settling: `at` changes for e and its terminal event is emitted.  Who is *)
(* not subscribed, or holds no reservation, is not affected.               *)
(***************************************************************************)
Hears(e) == subscribed /\ e \in pending

Ends(e, where) == at' = [at EXCEPT ![e] = where]

Released(e) ==
  IF Hears(e) THEN reserved' = reserved \ {KeyOf[e]} /\ pending' = pending \ {e}
              ELSE UNCHANGED <<reserved, pending>>

ReleaseReservation(e) == Released(e) /\ UNCHANGED <<committed, forgotten>>

(* A mutant: a drop is not heard. *)
KeepReservation(e) == UNCHANGED <<reserved, pending, committed, forgotten>>

Dropped(e) == ReleaseReservation(e)

Without(k) ==
  IF k \in ToSet(committed)
  THEN RemoveAt(committed, CHOOSE i \in DOMAIN committed : committed[i] = k)
  ELSE committed

Seen(k) == Append(Without(k), k)

CommitReservation(e) ==
  /\ Released(e)
  /\ IF ~Hears(e) THEN UNCHANGED <<committed, forgotten>>
     ELSE IF Len(Seen(KeyOf[e])) > MaxKeys
     THEN /\ committed' = Tail(Seen(KeyOf[e]))
          /\ forgotten' = [forgotten EXCEPT ![Head(Seen(KeyOf[e]))] = @ + 1]
     ELSE committed' = Seen(KeyOf[e]) /\ UNCHANGED forgotten

-----------------------------------------------------------------------------
(***************************************************************************)
(* An exchange, or its next attempt, reaches the step.  The first one to   *)
(* do so subscribes; once the intake is aborted that cleans up at once,    *)
(* and does so for each of them.                                           *)
(***************************************************************************)
Cleaned == aborted /\ ~subscribed
ReservedNow == IF Cleaned THEN {} ELSE reserved
PendingNow == IF Cleaned THEN {} ELSE pending
Subscribes == subscribed' = ~aborted

Reaches(e) == at[e] \in {"before", "retrying"} /\ (at[e] = "retrying" => ~aborted)

Duplicate(e) ==
  /\ Reaches(e) /\ Subscribes
  /\ Ends(e, "dropped")
  /\ \/ /\ KeyOf[e] \in ReservedNow
        /\ UNCHANGED committed
     \/ /\ KeyOf[e] \notin ReservedNow
        /\ KeyOf[e] \in ToSet(committed)
        /\ committed' = Seen(KeyOf[e])
  /\ pending' = PendingNow \ (IF subscribed' THEN {e} ELSE {})
  /\ reserved' = ReservedNow \ (IF subscribed' /\ e \in PendingNow THEN {KeyOf[e]} ELSE {})
  /\ UNCHANGED <<debounces, attempt, aborted, debounce, forgotten>>

Reserves(e) ==
  /\ Reaches(e) /\ Subscribes
  /\ KeyOf[e] \notin ToSet(committed)
  /\ reserved' = ReservedNow \union {KeyOf[e]}
  /\ pending' = PendingNow \union {e}
  /\ Ends(e, "inside")
  /\ UNCHANGED <<debounces, attempt, committed, aborted, debounce, forgotten>>

(* A mutant: only a committed key is a duplicate. *)
PassUnlessCommitted(e) == Reserves(e)

Pass(e) == KeyOf[e] \notin ReservedNow /\ Reserves(e)

-----------------------------------------------------------------------------
(***************************************************************************)
(* The rest of a route without .debounce(): it completes, drops the        *)
(* exchange, or fails, for good or to be tried again.  A retry does not    *)
(* wait any more once the intake is aborted.                               *)
(***************************************************************************)
Works(e) == ~debounces /\ at[e] = "inside"
Rest == <<debounces, attempt, subscribed, aborted, debounce>>

Complete(e) == Works(e) /\ Ends(e, "completed") /\ CommitReservation(e) /\ UNCHANGED Rest

Drop(e) == Works(e) /\ Ends(e, "dropped") /\ Dropped(e) /\ UNCHANGED Rest

Fail(e) == Works(e) /\ Ends(e, "failed") /\ ReleaseReservation(e) /\ UNCHANGED Rest

Retry(e) ==
  /\ Works(e)
  /\ attempt[e] < MaxAttempts
  /\ Ends(e, "retrying")
  /\ attempt' = [attempt EXCEPT ![e] = @ + 1]
  /\ UNCHANGED <<debounces, reserved, pending, committed, subscribed, aborted,
                 debounce, forgotten>>

GiveUp(e) ==
  /\ at[e] = "retrying" /\ aborted
  /\ Ends(e, "failed") /\ ReleaseReservation(e) /\ UNCHANGED Rest

-----------------------------------------------------------------------------
(***************************************************************************)
(* .debounce() takes an exchange in, in place of the one it held.  The     *)
(* exchange itself ends as dropped, when it is superseded or when its      *)
(* clone is released; an aborted intake releases it at once.               *)
(***************************************************************************)
LetsGo(e) == released' = released \union {e} /\ running' = running \union {e}

Absorbs(e) ==
  /\ debounces /\ at[e] = "inside"
  /\ absorbed' = Append(absorbed, e)
  /\ IF hold # Nobody THEN Dropped(hold)
     ELSE UNCHANGED <<reserved, pending, committed, forgotten>>
  /\ UNCHANGED <<debounces, attempt, subscribed, aborted>>

Supersedes(e, where) ==
  at' = [f \in Exchanges |-> IF f = e THEN where ELSE IF f = hold THEN "dropped" ELSE at[f]]

AbsorbAndHold(e) ==
  /\ Absorbs(e)
  /\ hold' = e
  /\ Supersedes(e, "held")
  /\ UNCHANGED <<running, released>>

Absorb(e) == ~aborted /\ AbsorbAndHold(e)

(* A mutant: the abort flushed what there was to flush. *)
AbsorbLateAndHold(e) == aborted /\ AbsorbAndHold(e)

AbsorbLate(e) ==
  /\ aborted
  /\ Absorbs(e)
  /\ LetsGo(e)
  /\ hold' = Nobody
  /\ Supersedes(e, "dropped")

(***************************************************************************)
(* A timer, the cap on a burst or a drain releases the hold.               *)
(***************************************************************************)
Release ==
  /\ hold # Nobody
  /\ LetsGo(hold) /\ hold' = Nobody
  /\ Ends(hold, "dropped") /\ Dropped(hold)
  /\ UNCHANGED <<debounces, attempt, subscribed, aborted, absorbed>>

CloneFails ==
  /\ hold # Nobody
  /\ released' = released \union {hold} /\ hold' = Nobody
  /\ Ends(hold, "failed") /\ ReleaseReservation(hold)
  /\ UNCHANGED <<debounces, attempt, subscribed, aborted, absorbed, running>>

CloneEnds(e) ==
  /\ running' = running \ {e}
  /\ UNCHANGED <<debounces, at, attempt, reserved, pending, committed, subscribed,
                 aborted, hold, absorbed, released, forgotten>>

-----------------------------------------------------------------------------
(***************************************************************************)
(* The intake is aborted: the step stops listening and forgets the         *)
(* reservations, and the hold is released.                                 *)
(***************************************************************************)
Abort ==
  /\ ~aborted
  /\ aborted' = TRUE
  /\ subscribed' = FALSE /\ reserved' = {} /\ pending' = {}
  /\ IF hold = Nobody THEN UNCHANGED <<at, running, released>>
                      ELSE LetsGo(hold) /\ Ends(hold, "dropped")
  /\ hold' = Nobody
  /\ UNCHANGED <<debounces, attempt, committed, absorbed, forgotten>>

(* A committed key has been quiet for its ttl. *)
Expire(k) ==
  /\ k \in ToSet(committed)
  /\ committed' = Without(k)
  /\ forgotten' = [forgotten EXCEPT ![k] = @ + 1]
  /\ UNCHANGED <<debounces, at, attempt, reserved, pending, subscribed, aborted, debounce>>

Next ==
  \/ \E e \in Exchanges :
       \/ Duplicate(e) \/ Pass(e)
       \/ Complete(e) \/ Drop(e) \/ Fail(e) \/ Retry(e) \/ GiveUp(e)
       \/ Absorb(e) \/ AbsorbLate(e)
  \/ \E e \in running : CloneEnds(e)
  \/ Release \/ CloneFails \/ Abort
  \/ \E k \in Keys : Expire(k)

Spec == Init /\ [][Next]_vars

-----------------------------------------------------------------------------
(***************************************************************************)
(* The shape of the state.                                                 *)
(***************************************************************************)
InFlight == {"inside", "retrying", "held"}

TypeOK ==
  /\ debounces \in Shapes /\ subscribed \in BOOLEAN /\ aborted \in BOOLEAN
  /\ at \in [Exchanges -> {"before", "completed", "failed", "dropped"} \union InFlight]
  /\ attempt \in [Exchanges -> 1..MaxAttempts]
  /\ reserved \subseteq Keys /\ pending \subseteq Exchanges
  /\ committed \in Seq(Keys) /\ Len(committed) <= MaxKeys
  /\ hold \in Exchanges \union {Nobody}
  /\ running \subseteq released /\ released \subseteq ToSet(absorbed)
  /\ absorbed \in Seq(Exchanges)
  /\ forgotten \in [Keys -> Nat]

(***************************************************************************)
(* "A second exchange with the same key that arrives while the first is    *)
(* still in flight is dropped" (operations/dedupe page, and dedupe.ts):    *)
(* two exchanges of one key are never in flight behind the step.           *)
(***************************************************************************)
SecondIsDropped ==
  \A e, f \in Exchanges :
    (e # f /\ at[e] \in InFlight /\ at[f] \in InFlight) => KeyOf[e] # KeyOf[f]

(***************************************************************************)
(* While the intake is open that holds, through failures and retries, and  *)
(* a key that was handled is not handled again unless it was forgotten:    *)
(* expired, or pushed out by other keys.                                   *)
(***************************************************************************)
Handled(k) == {e \in Exchanges : at[e] = "completed" /\ KeyOf[e] = k}

NeverTwice ==
  ~aborted =>
    /\ SecondIsDropped
    /\ \A k \in Keys : Cardinality(Handled(k)) <= 1 + forgotten[k]

(***************************************************************************)
(* An input that was not handled may be sent again: while the intake is    *)
(* open a key is reserved only for an exchange that is still in flight,    *)
(* whichever of its many ends it comes to, and remembered only if one      *)
(* completed.                                                              *)
(***************************************************************************)
NoKeyIsStuck ==
  ~aborted =>
    /\ \A k \in reserved : \E e \in pending : KeyOf[e] = k /\ at[e] \in InFlight
    /\ \A k \in ToSet(committed) : Handled(k) # {}

(***************************************************************************)
(* Suppression is exact: no input is handled twice, and none is suppressed *)
(* for good that was not handled.                                          *)
(***************************************************************************)
SuppressionIsExact == NeverTwice /\ NoKeyIsStuck

(***************************************************************************)
(* The last arrival of a burst is not lost: .debounce() holds it until it  *)
(* runs, only the last one of a burst runs, and nothing waits for its      *)
(* timer once the intake is aborted.                                       *)
(***************************************************************************)
LastOfBurstRuns ==
  /\ absorbed # <<>> => Last(absorbed) \in released \union {hold}
  /\ hold # Nobody => hold = Last(absorbed) /\ ~aborted
  /\ \A i \in 1..Len(absorbed) : absorbed[i] \notin released => at[absorbed[i]] \in {"dropped", "held"}

=============================================================================

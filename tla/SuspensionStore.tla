--------------------------- MODULE SuspensionStore ---------------------------
(***************************************************************************)
(* The suspension store: the record kept for each parked exchange and the  *)
(* compare-and-swap operations on it.  Both shipped backends perform an    *)
(* operation synchronously when it is called (a Map without an await, one  *)
(* immediate sqlite transaction), so every operation is one atomic action. *)
(* Its promise is what resolves later; the callers of the module Suspension *)
(* take the result in a step of their own.                                 *)
(***************************************************************************)
EXTENDS Integers, FiniteSets

CONSTANTS
  Ids,       \* suspension ids; compareIds orders them, so they are numbers
  Ttls,      \* the lifetimes a park may ask for: positive numbers of ticks
             \* (duration.ts refuses less than a millisecond), or Never
  Never,     \* an absent date: no deadline, no claim, not settled
  NoOutcome, \* an absent terminal outcome
  MaxTime    \* bound on the clock

ASSUME IdsAssumption == Ids \subseteq Nat /\ IsFiniteSet(Ids)
ASSUME NeverAssumption == Never \notin Nat
ASSUME TtlsAssumption == Ttls \subseteq (Nat \ {0}) \union {Never}
ASSUME MaxTimeAssumption == MaxTime \in Nat

VARIABLES
  clock,     \* what new Date() reads
  records,   \* the stored record of each id
  expiresAt  \* the deadline of each id: written by create only, so every
             \* snapshot a caller holds agrees with it, and it is kept here
             \* beside the record, which a purge removes

storeVars == <<clock, records, expiresAt>>

(***************************************************************************)
(* A body is abstracted away: an outcome says how the continuation ended.  *)
(* "completed" stands for completed, dropped and suspended again;          *)
(* "overdue" is the failed outcome that carries RC5047.                    *)
(***************************************************************************)
Outcomes == {"completed", "failed", "overdue"}

ASSUME NoOutcomeAssumption == NoOutcome \notin Outcomes

Settled == {"resumed", "expired", "denied"}
Status == {"absent", "suspended", "expiring"} \union Settled
Date == Nat \union {Never}

Suspension == [status : Status, claimedAt : Date, settledAt : Date,
               terminal : Outcomes \union {NoOutcome}]

AbsentRecord == [status |-> "absent", claimedAt |-> Never,
                 settledAt |-> Never, terminal |-> NoOutcome]

StatusOf(id) == records[id].status

(***************************************************************************)
(* deadline <= now, for a suspension that has a deadline                   *)
(***************************************************************************)
Overdue(id, now) == expiresAt[id] # Never /\ expiresAt[id] <= now

-----------------------------------------------------------------------------
(***************************************************************************)
(* create: a fresh record is born suspended and carries nothing else.      *)
(***************************************************************************)
Create(id, ttl) ==
  /\ StatusOf(id) = "absent"
  /\ records' = [records EXCEPT ![id] = [AbsentRecord EXCEPT !.status = "suspended"]]
  /\ expiresAt' = [expiresAt EXCEPT ![id] = IF ttl = Never THEN Never ELSE clock + ttl]

(***************************************************************************)
(* The compare-and-swap every lifecycle operation is built on: it happens  *)
(* only out of the status from, and the caller reads Wins before it.       *)
(* WinsAlways, a mutant, swaps without comparing.                          *)
(***************************************************************************)
WinsAlways(id, from) == TRUE

Wins(id, from) == StatusOf(id) = from

Transition(id, from, to) ==
  /\ records' = IF Wins(id, from) THEN [records EXCEPT ![id] = to] ELSE records
  /\ UNCHANGED expiresAt

MarkResumed(id) ==
  Transition(id, "suspended",
             [records[id] EXCEPT !.status = "resumed", !.settledAt = clock])

(* A mutant: the claim is the verdict, before anybody was told. *)
ClaimIsVerdict(id) ==
  Transition(id, "suspended",
             [records[id] EXCEPT !.status = "expired", !.settledAt = clock])

ClaimExpiry(id) ==
  Transition(id, "suspended",
             [records[id] EXCEPT !.status = "expiring", !.claimedAt = clock])

MarkExpired(id) ==
  Transition(id, "expiring",
             [records[id] EXCEPT !.status = "expired", !.settledAt = clock])

MarkDenied(id) ==
  Transition(id, "expiring",
             [records[id] EXCEPT !.status = "denied", !.settledAt = clock])

(***************************************************************************)
(* releaseExpiring: claims taken at or before the date go back.  A mutant  *)
(* forgets to compare the date.                                            *)
(***************************************************************************)
ReleaseEveryClaim(before) ==
  /\ records' = [id \in Ids |->
       IF StatusOf(id) = "expiring"
       THEN [records[id] EXCEPT !.status = "suspended", !.claimedAt = Never]
       ELSE records[id]]
  /\ UNCHANGED expiresAt

ReleaseExpiring(before) ==
  /\ records' = [id \in Ids |->
       IF StatusOf(id) = "expiring" /\ records[id].claimedAt <= before
       THEN [records[id] EXCEPT !.status = "suspended", !.claimedAt = Never]
       ELSE records[id]]
  /\ UNCHANGED expiresAt

(***************************************************************************)
(* recordTerminal: unconditional on the status, ignored for an id the      *)
(* store does not hold.                                                    *)
(***************************************************************************)
RecordTerminal(id, outcome) ==
  /\ records' = IF StatusOf(id) = "absent" THEN records
                ELSE [records EXCEPT ![id].terminal = outcome]
  /\ UNCHANGED expiresAt

(***************************************************************************)
(* purgeSettled: only records in a terminal status, settled strictly       *)
(* before the date.                                                        *)
(***************************************************************************)
Purgeable(id, before) ==
  StatusOf(id) \in Settled /\ records[id].settledAt < before

PurgeSettled(before) ==
  /\ records' = [id \in Ids |-> IF Purgeable(id, before) THEN AbsentRecord
                                ELSE records[id]]
  /\ UNCHANGED expiresAt

(***************************************************************************)
(* findExpired: the first limit overdue records in (expiresAt, id) order   *)
(* strictly after the cursor; the cursor is the id of a visited record, or *)
(* Never for the first page.  The page is a set; Foremost gives its order. *)
(* DueUndated, a mutant, leaves the deadline out of the query.             *)
(***************************************************************************)
Before(i, j) ==
  \/ expiresAt[i] < expiresAt[j]
  \/ expiresAt[i] = expiresAt[j] /\ i < j

Foremost(i, page) == i \in page /\ \A j \in page \ {i} : Before(i, j)

DueUndated(now, cursor) ==
  {i \in Ids : /\ StatusOf(i) = "suspended"
               /\ cursor = Never \/ Before(cursor, i)}

Due(now, cursor) ==
  {i \in Ids : /\ StatusOf(i) = "suspended"
               /\ Overdue(i, now)
               /\ cursor = Never \/ Before(cursor, i)}

FindExpired(now, limit, cursor) ==
  LET due == Due(now, cursor)
  IN {i \in due : Cardinality({j \in due : Before(j, i)}) < limit}

(***************************************************************************)
(* resumedWithoutTerminal: what a process that died in a continuation left *)
(***************************************************************************)
ResumedWithoutTerminal ==
  {i \in Ids : StatusOf(i) = "resumed" /\ records[i].terminal = NoOutcome}

-----------------------------------------------------------------------------
(***************************************************************************)
(* The clock, and the store before anything was parked.                    *)
(***************************************************************************)
Tick ==
  /\ clock < MaxTime
  /\ clock' = clock + 1
  /\ UNCHANGED <<records, expiresAt>>

StoreInit ==
  /\ clock = 0
  /\ records = [id \in Ids |-> AbsentRecord]
  /\ expiresAt = [id \in Ids |-> Never]

-----------------------------------------------------------------------------
(***************************************************************************)
(* The shape of the store's state.                                         *)
(***************************************************************************)
StoreTypeOK ==
  /\ clock \in 0..MaxTime
  /\ records \in [Ids -> Suspension]
  /\ expiresAt \in [Ids -> Date]

=============================================================================

------------------------------ MODULE Throttle -------------------------------
(***************************************************************************)
(* .throttle() (operations/throttle-wrapper.ts): a token bucket per key,   *)
(* refilled lazily by the wall clock, which may be set back or forward.    *)
(*                                                                         *)
(* A token takes Cost ticks to refill; the bucket counts in ticks, so a    *)
(* token is Cost of them.  acquire reads the clock, finds its bucket and   *)
(* takes the token without an await; an exchange that must wait then       *)
(* sleeps, so the time it will pass is known when it arrives.              *)
(***************************************************************************)
EXTENDS Integers, Sequences, SequencesExt

CONSTANTS
  Keys,      \* what options.key may return; one element without a key
  Capacity,  \* of a bucket, in tokens
  Cost,      \* ticks until a token is refilled
  MaxKeys,   \* options.maxKeys
  MaxTime, MaxSteps, MaxArrivals  \* bounds: on the time, on how far the wall
                                  \* clock is set, on the exchanges

ConstantsOK ==
  /\ Capacity \in Nat \ {0}
  /\ Cost \in Nat \ {0}
  /\ MaxKeys \in Nat \ {0}

VARIABLES
  mode,           \* options.mode
  now,            \* the time that has really passed
  forward, back,  \* how far the wall clock was set forward and back in all
  tokens,         \* per key, negative when slots further ahead are taken
  lastRefillAt,   \* per key, by the wall clock
  recent,         \* the keys that have a bucket, the least recently used first
  usedAt,         \* per key, when its bucket was last looked up
  due,            \* per key, when the exchanges its bucket admitted pass
  rejected,       \* per key, how many were refused
  aborted         \* the route's intake signal

vars == <<mode, now, forward, back, tokens, lastRefillAt, recent, usedAt, due,
          rejected, aborted>>

Full == Capacity * Cost
Wall == now + forward - back
Ttl == Full

Least(a, b) == IF a <= b THEN a ELSE b

Init ==
  /\ mode \in {"delay", "reject"}
  /\ now = 0 /\ forward = 0 /\ back = 0
  /\ tokens = [k \in Keys |-> Full]
  /\ lastRefillAt = [k \in Keys |-> 0]
  /\ recent = <<>>
  /\ usedAt = [k \in Keys |-> 0]
  /\ due = [k \in Keys |-> <<>>]
  /\ rejected = [k \in Keys |-> 0]
  /\ aborted = FALSE

-----------------------------------------------------------------------------
(***************************************************************************)
(* bucketFor: a bucket that was idle for longer than it takes to fill, or  *)
(* that was the least recently used of too many, is made anew: full.       *)
(***************************************************************************)
HasBucket(k) == k \in ToSet(recent) /\ now - usedAt[k] <= Ttl

Without(k) ==
  IF k \in ToSet(recent)
  THEN RemoveAt(recent, CHOOSE i \in DOMAIN recent : recent[i] = k)
  ELSE recent

LooksUp(k) ==
  LET keys == Append(Without(k), k)
  IN /\ recent' = IF Len(keys) > MaxKeys THEN Tail(keys) ELSE keys
     /\ usedAt' = [usedAt EXCEPT ![k] = now]

Admitted(k) == IF HasBucket(k) THEN due[k] ELSE <<>>

(***************************************************************************)
(* The refill: a clock set back adds nothing.  Two mutants: one lets it    *)
(* subtract, one fills the bucket over its capacity.                       *)
(***************************************************************************)
Elapsed(k) == Wall - lastRefillAt[k]

Overfilled(k) ==
  IF HasBucket(k) THEN tokens[k] + (IF Elapsed(k) > 0 THEN Elapsed(k) ELSE 0) ELSE Full

Refilled(k) ==
  IF HasBucket(k)
  THEN Least(Full, tokens[k] + (IF Elapsed(k) > 0 THEN Elapsed(k) ELSE 0))
  ELSE Full

(***************************************************************************)
(* reserve: the token is taken even if there is none, and the deficit is   *)
(* the wait.  The route's shutdown cuts the wait short.                    *)
(***************************************************************************)
Reserve(k) ==
  LET left == Refilled(k) - Cost
      wait == IF left < 0 /\ ~aborted THEN -left ELSE 0
  IN /\ mode = "delay"
     /\ tokens' = [tokens EXCEPT ![k] = left]
     /\ lastRefillAt' = [lastRefillAt EXCEPT ![k] = Wall]
     /\ due' = [due EXCEPT ![k] = Append(Admitted(k), now + wait)]
     /\ LooksUp(k)
     /\ UNCHANGED <<mode, now, forward, back, rejected, aborted>>

(***************************************************************************)
(* tryAcquire: a token that is there is taken.                             *)
(***************************************************************************)
TakeToken(k) ==
  /\ mode = "reject"
  /\ Refilled(k) >= Cost
  /\ tokens' = [tokens EXCEPT ![k] = Refilled(k) - Cost]
  /\ lastRefillAt' = [lastRefillAt EXCEPT ![k] = Wall]
  /\ due' = [due EXCEPT ![k] = Append(Admitted(k), now)]
  /\ LooksUp(k)
  /\ UNCHANGED <<mode, now, forward, back, rejected, aborted>>

(* A mutant: who is refused is charged all the same. *)
RejectCharging(k) ==
  /\ mode = "reject"
  /\ Refilled(k) < Cost
  /\ tokens' = [tokens EXCEPT ![k] = Refilled(k) - Cost]
  /\ lastRefillAt' = [lastRefillAt EXCEPT ![k] = Wall]
  /\ due' = [due EXCEPT ![k] = Admitted(k)]
  /\ rejected' = [rejected EXCEPT ![k] = @ + 1]
  /\ LooksUp(k)
  /\ UNCHANGED <<mode, now, forward, back, aborted>>

Reject(k) ==
  /\ mode = "reject"
  /\ Refilled(k) < Cost
  /\ tokens' = [tokens EXCEPT ![k] = Refilled(k)]
  /\ lastRefillAt' = [lastRefillAt EXCEPT ![k] = Wall]
  /\ due' = [due EXCEPT ![k] = Admitted(k)]
  /\ rejected' = [rejected EXCEPT ![k] = @ + 1]
  /\ LooksUp(k)
  /\ UNCHANGED <<mode, now, forward, back, aborted>>

Arrive(k) ==
  /\ Len(due[k]) + rejected[k] < MaxArrivals
  /\ Reserve(k) \/ TakeToken(k) \/ Reject(k)

(***************************************************************************)
(* Shutdown admits whoever sleeps.                                         *)
(***************************************************************************)
Abort ==
  /\ ~aborted
  /\ aborted' = TRUE
  /\ due' = [k \in Keys |-> [i \in DOMAIN due[k] |-> Least(due[k][i], now)]]
  /\ UNCHANGED <<mode, now, forward, back, tokens, lastRefillAt, recent, usedAt, rejected>>

Tick ==
  /\ now < MaxTime
  /\ now' = now + 1
  /\ UNCHANGED <<mode, forward, back, tokens, lastRefillAt, recent, usedAt, due, rejected,
                 aborted>>

SetForward ==
  /\ forward < MaxSteps
  /\ forward' = forward + 1
  /\ UNCHANGED <<mode, now, back, tokens, lastRefillAt, recent, usedAt, due, rejected, aborted>>

SetBack ==
  /\ back < MaxSteps
  /\ back' = back + 1
  /\ UNCHANGED <<mode, now, forward, tokens, lastRefillAt, recent, usedAt, due, rejected,
                 aborted>>

Next ==
  \/ \E k \in Keys : Arrive(k)
  \/ Abort \/ Tick \/ SetForward \/ SetBack

Spec == Init /\ [][Next]_vars

-----------------------------------------------------------------------------
(***************************************************************************)
(* The shape of the state.                                                 *)
(***************************************************************************)
TypeOK ==
  /\ mode \in {"delay", "reject"}
  /\ now \in Nat /\ forward \in Nat /\ back \in Nat
  /\ tokens \in [Keys -> Int] /\ \A k \in Keys : tokens[k] <= Full
  /\ lastRefillAt \in [Keys -> Int]
  /\ recent \in Seq(Keys) /\ Len(recent) <= MaxKeys
  /\ usedAt \in [Keys -> Nat]
  /\ due \in [Keys -> Seq(Nat)]
  /\ rejected \in [Keys -> Nat]
  /\ aborted \in BOOLEAN

(***************************************************************************)
(* The rate is kept: from any exchange on, and as long as the bucket is    *)
(* remembered, no more pass than its burst and the time between them       *)
(* allow, however arrivals bunch and however the waits stack.  Setting the *)
(* wall clock back never lets one more through, setting it forward lets    *)
(* through what the step is worth.                                         *)
(***************************************************************************)
RateIsKept ==
  ~aborted => \A k \in Keys : \A i, j \in DOMAIN due[k] :
    i <= j => (j - i + 1) * Cost <= Full + (due[k][j] - due[k][i]) + forward

(***************************************************************************)
(* Only the excess is held back: an exchange waits, or is refused, only    *)
(* for as long as passing would have broken the rate.  What a clock that   *)
(* was set back may cost is the step.                                      *)
(***************************************************************************)
InExcess(k, t) ==
  \E i \in DOMAIN due[k] :
    (Len(due[k]) - i + 2) * Cost + back > Full + (t - due[k][i])

HoldsBackTheExcess ==
  [][\A k \in Keys :
       /\ rejected'[k] > rejected[k] => InExcess(k, now)
       /\ (due'[k] # <<>> /\ Last(due'[k]) > now /\ Len(due'[k]) = Len(due[k]) + 1) =>
            InExcess(k, Last(due'[k]) - 1)]_vars

=============================================================================

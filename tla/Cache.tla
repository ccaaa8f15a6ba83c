-------------------------------- MODULE Cache ---------------------------------
(***************************************************************************)
(* A step under .cache() (operations/cache-wrapper.ts) over the in-memory  *)
(* provider (operations/cache-provider.ts), which the routes of a process  *)
(* may share.                                                              *)
(*                                                                         *)
(* The provider looks its maps up and registers a load in one turn; then   *)
(* it awaits the wrapped step, and anything may happen to its maps.        *)
(***************************************************************************)
EXTENDS Naturals, Sequences, SequencesExt, FiniteSets

CONSTANTS
  Calls,     \* exchanges, each reaching the step once
  KeyOf,     \* their keys
  MaxStored, \* the provider's max
  MaxClears, \* bound on clear() and on delete()
  Nobody

Keys == {KeyOf[c] : c \in Calls}

ConstantsOK ==
  /\ MaxStored \in Nat \ {0} /\ MaxClears \in Nat
  /\ Nobody \notin Calls

VARIABLES
  stored,    \* per key, the call that loaded its value
  recent,    \* the keys that are stored, the least recently used first
  inFlight,  \* per key, the call whose load others wait for
  at,        \* where each call is
  joined,    \* the load a call waits for, or waited for
  got,       \* the call that loaded the value it went on with
  cleared,   \* calls of clear() and of delete()
  \* History, per key: the runs of the wrapped step, those that stored nothing,
  \* and the values the provider lost.
  runs, unstored, lost

vars == <<stored, recent, inFlight, at, joined, got, cleared, runs, unstored, lost>>
entries == <<stored, recent>>
history == <<runs, unstored, lost>>

Ends == {"kept", "dropped", "failed"}

Init ==
  /\ stored = [k \in Keys |-> Nobody]
  /\ recent = <<>>
  /\ inFlight = [k \in Keys |-> Nobody]
  /\ at = [c \in Calls |-> "before"]
  /\ joined = [c \in Calls |-> Nobody]
  /\ got = [c \in Calls |-> Nobody]
  /\ cleared = 0
  /\ runs = [k \in Keys |-> 0]
  /\ unstored = [k \in Keys |-> 0]
  /\ lost = [k \in Keys |-> 0]

Without(k) ==
  IF k \in ToSet(recent)
  THEN RemoveAt(recent, CHOOSE i \in DOMAIN recent : recent[i] = k)
  ELSE recent
Used(k) == Append(Without(k), k)

-----------------------------------------------------------------------------
(***************************************************************************)
(* getOrCompute: a stored value, which becomes the most recently used one, *)
(* then a load under way, then a load of its own.                          *)
(***************************************************************************)
Hit(c) ==
  /\ at[c] = "before"
  /\ stored[KeyOf[c]] # Nobody
  /\ recent' = Used(KeyOf[c])
  /\ got' = [got EXCEPT ![c] = stored[KeyOf[c]]]
  /\ at' = [at EXCEPT ![c] = "kept"]
  /\ UNCHANGED <<stored, inFlight, joined, cleared, history>>

Join(c) ==
  /\ at[c] = "before"
  /\ stored[KeyOf[c]] = Nobody
  /\ inFlight[KeyOf[c]] # Nobody
  /\ at' = [at EXCEPT ![c] = "waiting"]
  /\ joined' = [joined EXCEPT ![c] = inFlight[KeyOf[c]]]
  /\ UNCHANGED <<entries, inFlight, got, cleared, history>>

Loads(c) ==
  /\ at' = [at EXCEPT ![c] = "loading"]
  /\ inFlight' = [inFlight EXCEPT ![KeyOf[c]] = c]
  /\ runs' = [runs EXCEPT ![KeyOf[c]] = @ + 1]
  /\ UNCHANGED <<entries, joined, got, cleared, unstored, lost>>

(* A mutant that looks for a stored value only. *)
LoadAnyway(c) ==
  /\ at[c] = "before"
  /\ stored[KeyOf[c]] = Nobody
  /\ Loads(c)

Load(c) ==
  /\ at[c] = "before"
  /\ stored[KeyOf[c]] = Nobody
  /\ inFlight[KeyOf[c]] = Nobody
  /\ Loads(c)

-----------------------------------------------------------------------------
(***************************************************************************)
(* The load of c is over: the call and those that joined it go the same    *)
(* way, and whatever load of the key is in flight is forgotten: c's own,   *)
(* unless the provider was cleared.                                        *)
(***************************************************************************)
Audience(c) == {c} \union {d \in Calls : at[d] = "waiting" /\ joined[d] = c}

(* A mutant: a waiter does not see the drop of the load. *)
SettlesAlone(c, end) ==
  /\ at' = [d \in Calls |-> IF d = c THEN end
                            ELSE IF d \in Audience(c) THEN "kept" ELSE at[d]]
  /\ inFlight' = [inFlight EXCEPT ![KeyOf[c]] = Nobody]
  /\ UNCHANGED <<joined, cleared, runs>>

Settles(c, end) ==
  /\ at' = [d \in Calls |-> IF d \in Audience(c) THEN end ELSE at[d]]
  /\ inFlight' = [inFlight EXCEPT ![KeyOf[c]] = Nobody]
  /\ UNCHANGED <<joined, cleared, runs>>

GoOnWith(c) == got' = [d \in Calls |-> IF d \in Audience(c) THEN c ELSE got[d]]

(***************************************************************************)
(* A value is stored; the least recently used one goes if there are too    *)
(* many.                                                                   *)
(***************************************************************************)
LoadReturns(c) ==
  /\ at[c] = "loading"
  /\ Settles(c, "kept") /\ GoOnWith(c)
  /\ LET keys == Used(KeyOf[c])
         values == [stored EXCEPT ![KeyOf[c]] = c]
     IN IF Len(keys) > MaxStored
        THEN /\ recent' = Tail(keys)
             /\ stored' = [values EXCEPT ![Head(keys)] = Nobody]
             /\ lost' = [lost EXCEPT ![Head(keys)] = @ + 1]
        ELSE recent' = keys /\ stored' = values /\ UNCHANGED lost
  /\ UNCHANGED unstored

Unstored(c) ==
  /\ unstored' = [unstored EXCEPT ![KeyOf[c]] = @ + 1]
  /\ UNCHANGED <<entries, lost>>

(* undefined is a value, but one that is not stored. *)
LoadReturnsUndefined(c) ==
  at[c] = "loading" /\ Settles(c, "kept") /\ GoOnWith(c) /\ Unstored(c)

LoadEndsBare(c) ==
  /\ at[c] = "loading"
  /\ \E end \in {"dropped", "failed"} : Settles(c, end)
  /\ Unstored(c)
  /\ UNCHANGED got

-----------------------------------------------------------------------------
(***************************************************************************)
(* Time to live, and the application's own calls of the provider.  A       *)
(* delete leaves a load under way alone.                                   *)
(***************************************************************************)
Loses(k) ==
  /\ stored[k] # Nobody
  /\ stored' = [stored EXCEPT ![k] = Nobody]
  /\ recent' = Without(k)
  /\ lost' = [lost EXCEPT ![k] = @ + 1]
  /\ UNCHANGED <<inFlight, at, joined, got, runs, unstored>>

Expire(k) == Loses(k) /\ UNCHANGED cleared

Delete(k) == cleared < MaxClears /\ Loses(k) /\ cleared' = cleared + 1

Clear ==
  /\ cleared < MaxClears
  /\ cleared' = cleared + 1
  /\ stored' = [k \in Keys |-> Nobody] /\ recent' = <<>>
  /\ inFlight' = [k \in Keys |-> Nobody]
  /\ lost' = [k \in Keys |-> lost[k] + 1]
  /\ UNCHANGED <<at, joined, got, runs, unstored>>

Next ==
  \/ Clear
  \/ \E k \in Keys : Expire(k) \/ Delete(k)
  \/ \E c \in Calls : Hit(c) \/ Join(c) \/ Load(c)
       \/ LoadReturns(c) \/ LoadReturnsUndefined(c) \/ LoadEndsBare(c)

Spec == Init /\ [][Next]_vars

-----------------------------------------------------------------------------
(***************************************************************************)
(* The shape of the state.                                                 *)
(***************************************************************************)
TypeOK ==
  /\ stored \in [Keys -> Calls \union {Nobody}]
  /\ recent \in Seq(Keys) /\ Len(recent) <= MaxStored
  /\ ToSet(recent) = {k \in Keys : stored[k] # Nobody}
  /\ inFlight \in [Keys -> Calls \union {Nobody}]
  /\ at \in [Calls -> {"before", "loading", "waiting"} \union Ends]
  /\ joined \in [Calls -> Calls \union {Nobody}]
  /\ got \in [Calls -> Calls \union {Nobody}]
  /\ cleared \in 0..MaxClears
  /\ \A counter \in {runs, unstored, lost} : counter \in [Keys -> Nat]

(***************************************************************************)
(* "A slow underlying operation runs at most once per key per TTL window"  *)
(* (cache-wrapper.ts): each further run of the step for a key is paid for  *)
(* by a run that stored nothing, by a value that was lost, or by a clear() *)
(* of the provider, however the callers overlap.                           *)
(***************************************************************************)
OncePerWindow == \A k \in Keys : runs[k] <= 1 + unstored[k] + lost[k]

(***************************************************************************)
(* A caller that joins the load of another shares its fate: it waits as    *)
(* long as that load lasts and no longer, goes on with the same value, is  *)
(* dropped with it or fails with it.                                       *)
(***************************************************************************)
FateIsShared ==
  \A c \in Calls : joined[c] # Nobody =>
    /\ KeyOf[joined[c]] = KeyOf[c]
    /\ at[c] = "waiting" <=> at[joined[c]] = "loading"
    /\ at[c] # "waiting" => at[c] = at[joined[c]] /\ got[c] = got[joined[c]]

(***************************************************************************)
(* One load serves all who ask while it lasts.                             *)
(***************************************************************************)
SingleFlight == OncePerWindow /\ FateIsShared

=============================================================================

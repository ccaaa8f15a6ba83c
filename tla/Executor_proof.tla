---------------------------- MODULE Executor_proof ----------------------------
(***************************************************************************)
(* That a source is told one outcome whatever happened to the children of  *)
(* the exchange it sent, and that no exchange is lost.  The first argument *)
(* follows the sent exchange: it is in one place at a time - in the queue, *)
(* in the step that executes, in the map of set-aside parents as a group   *)
(* of its run, or in the hands of a join that has looked it up - and only  *)
(* in a place can it end.  Losing it (a group swept by an older run) is    *)
(* harmless for the outcome, having it twice would not be.                 *)
(***************************************************************************)
EXTENDS Executor, FiniteSetTheorems, SequenceTheorems, TLAPS

-----------------------------------------------------------------------------
(* What a run takes out of its queue. *)

(***************************************************************************)
(* The places of a sequence have ranks, and every rank is somebody's: what *)
(* is picked is the members at those places, none of them twice.           *)
(***************************************************************************)
LEMMA PickedHasPlaces ==
  ASSUME NEW S, NEW s \in Seq(S), NEW places \in SUBSET (1..Len(s))
  PROVE  /\ Cardinality(places) \in Nat
         /\ Picked(s, places) \in Seq(S)
         /\ Len(Picked(s, places)) = Cardinality(places)
         /\ \E place \in [1..Cardinality(places) -> places] :
              /\ \A k \in 1..Cardinality(places) : Picked(s, places)[k] = s[place[k]]
              /\ \A k, l \in 1..Cardinality(places) : place[k] = place[l] => k = l
<1> DEFINE n == Cardinality(places)
           Below(i) == {j \in places : j <= i}
           rank == [i \in places |-> Cardinality(Below(i))]
           place == [k \in 1..n |-> CHOOSE i \in places : Cardinality({j \in places : j <= i}) = k]
<1>1. IsFiniteSet(places) /\ n \in Nat
  <2>1. Len(s) \in Nat
    OBVIOUS
  <2>2. IsFiniteSet(1..Len(s))
    BY <2>1, FS_Interval
  <2> QED
    BY <2>2, FS_Subset, FS_CardinalityType
<1>2. ASSUME NEW i \in places
      PROVE  IsFiniteSet(Below(i)) /\ rank[i] \in 1..n
  <2>1. Below(i) \in SUBSET places /\ i \in Below(i)
    OBVIOUS
  <2>2. IsFiniteSet(Below(i)) /\ Cardinality(Below(i)) <= n
    BY <1>1, <2>1, FS_Subset
  <2>3. Cardinality(Below(i)) \in Nat /\ Cardinality(Below(i)) # 0
    BY <2>1, <2>2, FS_CardinalityType, FS_EmptySet
  <2> QED
    BY <1>1, <2>2, <2>3
<1>3. ASSUME NEW i \in places, NEW j \in places, i < j
      PROVE  rank[i] # rank[j]
  <2>1. Below(i) \in SUBSET Below(j) /\ j \in Below(j) /\ j \notin Below(i)
    <3>1. places \subseteq Int
      OBVIOUS
    <3>2. i \in Int /\ j \in Int /\ \A k \in places : k \in Int
      BY <3>1
    <3>3. /\ \A k \in places : k <= i => k <= j
          /\ j <= j /\ ~(j <= i)
      BY <1>3, <3>2
    <3> QED
      BY <3>3
  <2>2. Below(i) # Below(j)
    BY <2>1
  <2> QED
    BY <1>2, <2>1, <2>2, FS_Subset
<1>4. rank \in Injection(places, 1..n)
  <2>1. rank \in [places -> 1..n]
    BY <1>2
  <2>2. \A i, j \in places : rank[i] = rank[j] => i = j
    <3> SUFFICES ASSUME NEW i \in places, NEW j \in places, i # j
                 PROVE  rank[i] # rank[j]
      OBVIOUS
    <3>1. i \in Int /\ j \in Int
      OBVIOUS
    <3>2. i < j \/ j < i
      BY <3>1
    <3> HIDE DEF rank
    <3> QED
      BY <1>3, <3>2
  <2> HIDE DEF rank, n
  <2> QED
    BY <2>1, <2>2, Zenon DEF Injection, IsInjective
<1>5. rank \in Surjection(places, 1..n)
  <2>1. IsFiniteSet(1..n) /\ Cardinality(1..n) = n
    BY <1>1, FS_Interval
  <2> HIDE DEF rank
  <2> QED
    BY <1>4, <2>1, FS_Injection
<1>6. \A k \in 1..n : \E i \in places : rank[i] = k
  <2> HIDE DEF rank
  <2> QED
    BY <1>5 DEF Surjection
<1>7. \A k \in 1..n : place[k] \in places /\ rank[place[k]] = k
  <2> TAKE k \in 1..n
  <2>1. \E i \in places : Cardinality({j \in places : j <= i}) = k
    BY <1>6
  <2>2. place[k] \in places /\ Cardinality({j \in places : j <= place[k]}) = k
    BY <2>1
  <2> HIDE DEF place
  <2> QED
    BY <2>2
<1>8. Picked(s, places) = [k \in 1..n |-> s[place[k]]]
  BY DEF Picked
<1>9. place \in [1..n -> places] /\ \A k, l \in 1..n : place[k] = place[l] => k = l
  <2>1. place \in [1..n -> places]
    BY <1>7
  <2> HIDE DEF rank, place
  <2> QED
    BY <1>7, <2>1
<1> HIDE DEF place
<1>11. \A k \in 1..n : s[place[k]] \in S
  <2>1. \A i \in places : s[i] \in S
    BY ElementOfSeq
  <2> QED
    BY <1>9, <2>1
<1>12. Picked(s, places) \in Seq(S) /\ Len(Picked(s, places)) = n
  BY <1>1, <1>8, <1>11
<1>13. \A k \in 1..n : Picked(s, places)[k] = s[place[k]]
  BY <1>8
<1> QED
  BY <1>1, <1>9, <1>12, <1>13

(***************************************************************************)
(* And each of them once: as many places as members, none of them twice.   *)
(***************************************************************************)
LEMMA EachPlaceIsPicked ==
  ASSUME NEW S, NEW s \in Seq(S), NEW places \in SUBSET (1..Len(s)), NEW i \in places
  PROVE  \E k \in 1..Len(Picked(s, places)) : Picked(s, places)[k] = s[i]
<1> DEFINE n == Cardinality(places)
           t == Picked(s, places)
<1>0. t = Picked(s, places)
  OBVIOUS
<1> HIDE DEF t
<1>1. /\ n \in Nat
      /\ Len(t) = n
      /\ \E place \in [1..n -> places] :
           /\ \A k \in 1..n : t[k] = s[place[k]]
           /\ \A k, l \in 1..n : place[k] = place[l] => k = l
  <2>1. n \in Nat /\ Len(t) = n
    BY <1>0, PickedHasPlaces
  <2> QED
    BY <1>0, <2>1, PickedHasPlaces
<1>2. IsFiniteSet(places)
  <2>1. Len(s) \in Nat
    OBVIOUS
  <2>2. IsFiniteSet(1..Len(s))
    BY <2>1, FS_Interval
  <2> QED
    BY <2>2, FS_Subset
<1>3. PICK place \in [1..n -> places] :
        /\ \A k \in 1..n : t[k] = s[place[k]]
        /\ \A k, l \in 1..n : place[k] = place[l] => k = l
  BY <1>1
<1>4. IsFiniteSet(1..n) /\ Cardinality(1..n) = n
  BY <1>1, FS_Interval
<1>5. place \in Injection(1..n, places)
  BY <1>3, Zenon DEF Injection, IsInjective
<1>6. place \in Surjection(1..n, places)
  BY <1>2, <1>4, <1>5, FS_Injection
<1>7. \E k \in 1..n : place[k] = i
  BY <1>6 DEF Surjection
<1> HIDE DEF n
<1>8. \E k \in 1..n : t[k] = s[i]
  BY <1>3, <1>7
<1> QED
  BY <1>1, <1>8 DEF t

-----------------------------------------------------------------------------
(* The invariant. *)

Ids == Seq(Nat)
Entries == [id : Seq(Nat), path : Seq(Seq(Nat)), steps : Seq(Kinds)]
Logs == Seq({"split"} \union Verdicts)

Types ==
  /\ route \in Deployments
  /\ step \in [Runs -> Entries]
  /\ queue \in [Runs -> Seq(Entries)]
  /\ found \in [Runs -> BOOLEAN]
  /\ verdict \in [Runs -> {"idle", "running", "returned"} \union Verdicts]
  /\ \A g \in parentMap : g \in Ids /\ Len(g) >= 2
  /\ \A id \in DOMAIN ends : ends[id] \in Logs

(***************************************************************************)
(* An entry of run r: its name begins with the run, and so do its groups.  *)
(* A name of length 1 is that of the exchange the source sent, which has   *)
(* no group; a group of length 2 is one it was split into, and is the      *)
(* outermost of its children.                                              *)
(***************************************************************************)
Sound(r, e) ==
  /\ Len(e.id) >= 1 /\ e.id[1] = r
  /\ \A k \in 1..Len(e.path) :
       Len(e.path[k]) >= 2 /\ e.path[k][1] = r /\ (Len(e.path[k]) = 2 => k = 1)
  /\ Len(e.id) = 1 => e.path = <<>>

AllSound(r, q) == \A i \in 1..Len(q) : Sound(r, q[i])

(***************************************************************************)
(* The exchange the source sent is in the queue once at most.              *)
(***************************************************************************)
Has(r, q) == \E i \in 1..Len(q) : q[i].id = Parent(r)
Lone(r, q) == \A i, j \in 1..Len(q) : q[i].id = Parent(r) /\ q[j].id = Parent(r) => i = j

Held(r) == Has(r, queue[r]) \/ step[r].id = Parent(r)

(***************************************************************************)
(* It comes back from the one group it was split into, whether that is     *)
(* still in the map or has been looked up by the join that executes.       *)
(***************************************************************************)
Groups(r) == {g \in parentMap : Len(g) = 2 /\ g[1] = r}
ComesBack(r) ==
  /\ step[r] # Idle /\ step[r].path # <<>> /\ Head(step[r].steps) = "aggregate"
  /\ found[r] /\ Len(Last(step[r].path)) = 2

(***************************************************************************)
(* Its events: splits, and one end at most, in a place of its own.         *)
(***************************************************************************)
Unended(log) == \A n \in 1..Len(log) : log[n] = "split"
EndedAs(log, how) ==
  \E n \in 1..Len(log) : log[n] = how /\ \A m \in 1..Len(log) : m # n => log[m] = "split"

QueueInv(r) ==
  /\ AllSound(r, queue[r]) /\ Lone(r, queue[r])
  /\ step[r] # Idle => Sound(r, step[r]) /\ step[r].steps # <<>>
  /\ step[r].id = Parent(r) => ~Has(r, queue[r])
  /\ verdict[r] # "running" => step[r] = Idle /\ queue[r] = <<>>

MapInv(r) ==
  /\ verdict[r] = "idle" => Groups(r) = {}
  /\ Held(r) => Groups(r) = {}
  /\ \A g, h \in Groups(r) : g = h
  /\ ComesBack(r) => ~Held(r) /\ \A g \in Groups(r) : g = Last(step[r].path)

LogInv(r) ==
  /\ verdict[r] = "idle" <=> Parent(r) \notin DOMAIN ends
  /\ verdict[r] = "running" /\ (Held(r) \/ Groups(r) # {} \/ ComesBack(r)) =>
       Unended(ends[Parent(r)])
  /\ verdict[r] \in {"running", "returned"} =>
       \/ Unended(ends[Parent(r)])
       \/ EndedAs(ends[Parent(r)], "failed") \/ EndedAs(ends[Parent(r)], "dropped")
  /\ verdict[r] \in Verdicts => EndedAs(ends[Parent(r)], verdict[r])

RunInv(r) == QueueInv(r) /\ MapInv(r) /\ LogInv(r)

Started == \A r \in Runs : step[r] # Idle => step[r].id \in DOMAIN ends

Inv == Types /\ Started /\ \A r \in Runs : RunInv(r)

-----------------------------------------------------------------------------
(* Queues, and logs of events. *)

(***************************************************************************)
(* The first entry is taken.                                               *)
(***************************************************************************)
LEMMA TailKeeps ==
  ASSUME NEW r, NEW q \in Seq(Entries), q # <<>>, AllSound(r, q), Lone(r, q)
  PROVE  /\ Head(q) \in Entries /\ Sound(r, Head(q))
         /\ Tail(q) \in Seq(Entries) /\ AllSound(r, Tail(q)) /\ Lone(r, Tail(q))
         /\ Has(r, Tail(q)) => Has(r, q)
         /\ Head(q).id = Parent(r) => Has(r, q) /\ ~Has(r, Tail(q))
         /\ \A i \in 1..Len(Tail(q)) : \E j \in 1..Len(q) : Tail(q)[i] = q[j]
<1>1. /\ Head(q) \in Entries /\ Head(q) = q[1]
      /\ Tail(q) \in Seq(Entries)
      /\ Len(q) \in Nat \ {0} /\ Len(Tail(q)) = Len(q) - 1
      /\ \A i \in 1..Len(Tail(q)) : Tail(q)[i] = q[i + 1]
  BY HeadTailProperties
<1> DEFINE t == Tail(q)
           h == Head(q)
<1> HIDE DEF t, h
<1>2. /\ 1 \in 1..Len(q)
      /\ \A i \in 1..Len(t) : i + 1 \in 1..Len(q) /\ i + 1 # 1 /\ t[i] = q[i + 1]
  BY <1>1 DEF t
<1>3. h = q[1] /\ h \in Entries
  BY <1>1 DEF h
<1>4. Sound(r, h) /\ AllSound(r, t)
  BY <1>2, <1>3 DEF AllSound
<1>5. Lone(r, t)
  <2> SUFFICES ASSUME NEW i \in 1..Len(t), NEW j \in 1..Len(t),
                      t[i].id = Parent(r), t[j].id = Parent(r)
               PROVE  i = j
    BY DEF Lone
  <2>1. i + 1 = j + 1
    BY <1>2 DEF Lone
  <2> QED
    BY <2>1
<1>6. Has(r, t) => Has(r, q)
  BY <1>2 DEF Has
<1>7. h.id = Parent(r) => Has(r, q) /\ ~Has(r, t)
  BY <1>2, <1>3 DEF Has, Lone
<1> QED
  BY <1>1, <1>2, <1>3, <1>4, <1>5, <1>6, <1>7 DEF t, h

(***************************************************************************)
(* A group is taken out.                                                   *)
(***************************************************************************)
LEMMA TakenKeeps ==
  ASSUME NEW r, NEW q \in Seq(Entries), AllSound(r, q), Lone(r, q), NEW group
  PROVE  /\ Taken(q, group) \in Seq(Entries)
         /\ AllSound(r, Taken(q, group)) /\ Lone(r, Taken(q, group))
         /\ Has(r, Taken(q, group)) => Has(r, q)
<1> DEFINE places == {i \in DOMAIN q : ~InGroup(q[i], group)}
           t == Taken(q, group)
<1>1. places \in SUBSET (1..Len(q)) /\ t = Picked(q, places)
  BY DEF Taken
<1> HIDE DEF places, t
<1>2. t \in Seq(Entries) /\ Len(t) = Cardinality(places)
  BY <1>1, PickedHasPlaces
<1>3. PICK place \in [1..Len(t) -> places] :
        /\ \A k \in 1..Len(t) : t[k] = q[place[k]]
        /\ \A k, l \in 1..Len(t) : place[k] = place[l] => k = l
  BY <1>1, <1>2, PickedHasPlaces
<1>4. \A k \in 1..Len(t) : place[k] \in 1..Len(q) /\ t[k] = q[place[k]]
  BY <1>1, <1>3
<1>5. AllSound(r, t) /\ (Has(r, t) => Has(r, q))
  BY <1>4 DEF AllSound, Has
<1>6. Lone(r, t)
  BY <1>3, <1>4 DEF Lone
<1> QED
  BY <1>2, <1>5, <1>6 DEF t

(***************************************************************************)
(* Entries are put behind the others.                                      *)
(***************************************************************************)
LEMMA SchedulesKeeps ==
  ASSUME NEW r, NEW q \in Seq(Entries), AllSound(r, q), Lone(r, q),
         NEW more \in Seq(Entries), AllSound(r, more), Lone(r, more),
         ~(Has(r, q) /\ Has(r, more))
  PROVE  /\ q \o more \in Seq(Entries)
         /\ AllSound(r, q \o more) /\ Lone(r, q \o more)
         /\ Has(r, q \o more) => Has(r, q) \/ Has(r, more)
<1> DEFINE t == q \o more
<1>1. /\ t \in Seq(Entries) /\ Len(t) = Len(q) + Len(more)
      /\ Len(q) \in Nat /\ Len(more) \in Nat
      /\ \A i \in 1..Len(t) : t[i] = IF i <= Len(q) THEN q[i] ELSE more[i - Len(q)]
  BY ConcatProperties
<1> HIDE DEF t
<1>2. ASSUME NEW i \in 1..Len(t)
      PROVE  \/ i \in 1..Len(q) /\ t[i] = q[i]
             \/ i - Len(q) \in 1..Len(more) /\ t[i] = more[i - Len(q)] /\ i \notin 1..Len(q)
  BY <1>1
<1>3. AllSound(r, t)
  BY <1>2 DEF AllSound
<1>4. Has(r, t) => Has(r, q) \/ Has(r, more)
  BY <1>2 DEF Has
<1>5. Lone(r, t)
  <2> SUFFICES ASSUME NEW i \in 1..Len(t), NEW j \in 1..Len(t),
                      t[i].id = Parent(r), t[j].id = Parent(r)
               PROVE  i = j
    BY DEF Lone
  <2>1. CASE i \in 1..Len(q) /\ t[i] = q[i]
    <3>1. Has(r, q)
      BY <2>1 DEF Has
    <3>2. j \in 1..Len(q) /\ t[j] = q[j]
      BY <1>2, <3>1 DEF Has
    <3> QED
      BY <2>1, <3>2 DEF Lone
  <2>2. CASE i - Len(q) \in 1..Len(more) /\ t[i] = more[i - Len(q)]
    <3>1. Has(r, more)
      BY <2>2 DEF Has
    <3>2. j - Len(q) \in 1..Len(more) /\ t[j] = more[j - Len(q)]
      BY <1>2, <3>1 DEF Has
    <3>3. i - Len(q) = j - Len(q)
      BY <2>2, <3>2 DEF Lone
    <3> QED
      BY <1>1, <3>3
  <2> QED
    BY <1>2, <2>1, <2>2
<1> QED
  BY <1>1, <1>3, <1>4, <1>5 DEF t

(***************************************************************************)
(* One entry is sound as a sequence if it is sound.                        *)
(***************************************************************************)
LEMMA OneEntry ==
  ASSUME NEW r, NEW e \in Entries, Sound(r, e)
  PROVE  /\ <<e>> \in Seq(Entries) /\ AllSound(r, <<e>>) /\ Lone(r, <<e>>)
         /\ Has(r, <<e>>) => e.id = Parent(r)
<1> DEFINE t == <<e>>
<1>1. t \in Seq(Entries) /\ Len(t) = 1 /\ t[1] = e
  OBVIOUS
<1> HIDE DEF t
<1>2. \A i \in 1..Len(t) : i = 1 /\ t[i] = e
  BY <1>1
<1>3. AllSound(r, t) /\ Lone(r, t) /\ (Has(r, t) => e.id = Parent(r))
  BY <1>2 DEF AllSound, Lone, Has
<1> QED
  BY <1>1, <1>3 DEF t

(***************************************************************************)
(* An empty queue holds nothing.                                           *)
(***************************************************************************)
LEMMA NoEntry ==
  ASSUME NEW r
  PROVE  /\ <<>> \in Seq(Entries) /\ AllSound(r, <<>>) /\ Lone(r, <<>>)
         /\ ~Has(r, <<>>)
  BY DEF AllSound, Lone, Has

(***************************************************************************)
(* Only the exchange the source sent has a name of length 1.               *)
(***************************************************************************)
LEMMA ParentsName ==
  ASSUME NEW r \in Nat, NEW id \in Ids, Len(id) >= 1, id[1] = r
  PROVE  /\ Parent(r) \in Ids /\ Len(Parent(r)) = 1 /\ Parent(r)[1] = r
         /\ Len(id) = 1 <=> id = Parent(r)
<1>1. Parent(r) \in Ids /\ Len(Parent(r)) = 1 /\ Parent(r)[1] = r
  BY DEF Parent, Ids
<1>2. ASSUME Len(id) = 1
      PROVE  id = Parent(r)
  <2>1. \A i \in 1..Len(id) : id[i] = Parent(r)[i]
    BY <1>1, <1>2
  <2> HIDE DEF Parent
  <2> QED
    BY <1>1, <1>2, <2>1, SeqEqual DEF Ids
<1> QED
  BY <1>1, <1>2

(***************************************************************************)
(* A sequence without its last element.                                    *)
(***************************************************************************)
LEMMA FrontKeeps ==
  ASSUME NEW S, NEW s \in Seq(S), Len(s) >= 1
  PROVE  /\ Front(s) \in Seq(S) /\ Len(Front(s)) = Len(s) - 1
         /\ \A k \in 1..(Len(s) - 1) : Front(s)[k] = s[k]
<1>1. /\ Len(s) \in Nat /\ Len(s) - 1 \in Nat /\ 1 \in 1..(Len(s) + 1)
      /\ Len(s) - 1 \in (1 - 1)..Len(s)
      /\ \A k \in 1..(Len(s) - 1) : k \in 1..Len(s) /\ s[k] \in S
  BY ElementOfSeq
<1>2. SubSeq(s, 1, Len(s) - 1) = [k \in 1..(Len(s) - 1) |-> s[k]]
  BY <1>1
<1>3. Front(s) = [k \in 1..(Len(s) - 1) |-> s[k]]
  BY <1>2 DEF Front
<1>4. Front(s) \in Seq(S) /\ Len(Front(s)) = Len(s) - 1
  BY <1>1, <1>3
<1> QED
  BY <1>3, <1>4

(***************************************************************************)
(* What is announced leaves the other logs alone.                          *)
(***************************************************************************)
LEMMA AnnouncedLogs ==
  ASSUME NEW log, \A id \in DOMAIN log : log[id] \in Logs, NEW begun
  PROVE  /\ DOMAIN Announced(log, begun) = DOMAIN log \union begun
         /\ \A id \in DOMAIN log : Announced(log, begun)[id] = log[id]
         /\ \A id \in begun \ DOMAIN log : Announced(log, begun)[id] = <<>>
         /\ \A id \in DOMAIN Announced(log, begun) : Announced(log, begun)[id] \in Logs
  BY DEF Announced, Logs

(***************************************************************************)
(* An event is added to the logs it is about, and to no other.             *)
(***************************************************************************)
LEMMA EndedLogs ==
  ASSUME NEW log, \A id \in DOMAIN log : log[id] \in Logs,
         NEW ids, NEW how \in {"split"} \union Verdicts
  PROVE  /\ DOMAIN Ended(log, ids, how) = DOMAIN log \union ids
         /\ \A id \in DOMAIN log \ ids : Ended(log, ids, how)[id] = log[id]
         /\ \A id \in DOMAIN log \intersect ids :
              Ended(log, ids, how)[id] = Append(log[id], how)
         /\ \A id \in DOMAIN Ended(log, ids, how) : Ended(log, ids, how)[id] \in Logs
<1>1. \A l \in Logs : Append(l, how) \in Logs
  BY DEF Logs
<1>2. <<>> \in Logs
  BY DEF Logs
<1> QED
  BY <1>1, <1>2 DEF Ended

(***************************************************************************)
(* A split is no end, and the first end is the only one.                   *)
(***************************************************************************)
LEMMA LongerLogs ==
  ASSUME NEW log \in Logs, Unended(log)
  PROVE  /\ Unended(Append(log, "split"))
         /\ \A how \in Verdicts : EndedAs(Append(log, how), how)
<1>1. ASSUME NEW how \in {"split"} \union Verdicts
      PROVE  /\ Len(Append(log, how)) = Len(log) + 1 /\ Len(log) \in Nat
             /\ Append(log, how)[Len(log) + 1] = how
             /\ \A n \in 1..Len(log) : Append(log, how)[n] = "split"
  BY DEF Logs, Unended
<1>2. Unended(Append(log, "split"))
  BY <1>1 DEF Unended
<1>3. ASSUME NEW how \in Verdicts
      PROVE  EndedAs(Append(log, how), how)
  <2> DEFINE t == Append(log, how)
  <2>1. /\ Len(t) = Len(log) + 1 /\ Len(log) \in Nat
        /\ t[Len(log) + 1] = how /\ \A n \in 1..Len(log) : t[n] = "split"
    BY <1>1
  <2> HIDE DEF t
  <2>2. /\ Len(log) + 1 \in 1..Len(t)
        /\ \A m \in 1..Len(t) : m # Len(log) + 1 => m \in 1..Len(log)
    BY <2>1
  <2>3. EndedAs(t, how)
    BY <2>1, <2>2 DEF EndedAs
  <2> QED
    BY <2>3 DEF t
<1> QED
  BY <1>2, <1>3

-----------------------------------------------------------------------------
(* The steps of a run. *)

(***************************************************************************)
(* What a step of run r means to the others: it leaves their queues and    *)
(* their logs alone, and may at most sweep their groups.                   *)
(***************************************************************************)
Apart(r) ==
  \A o \in Runs \ {r} :
    /\ queue'[o] = queue[o] /\ step'[o] = step[o]
    /\ found'[o] = found[o] /\ verdict'[o] = verdict[o]
    /\ \A g \in parentMap' : g[1] = o => g \in parentMap
    /\ (Parent(o) \in DOMAIN ends') <=> (Parent(o) \in DOMAIN ends)
    /\ Parent(o) \in DOMAIN ends => ends'[Parent(o)] = ends[Parent(o)]

(***************************************************************************)
(* So the invariant of the other runs survives.                            *)
(***************************************************************************)
LEMMA ApartKeeps ==
  ASSUME NEW r, Apart(r), NEW o \in Runs \ {r}, RunInv(o)
  PROVE  RunInv(o)'
<1>1. /\ queue'[o] = queue[o] /\ step'[o] = step[o]
      /\ found'[o] = found[o] /\ verdict'[o] = verdict[o]
      /\ \A g \in parentMap' : g[1] = o => g \in parentMap
      /\ (Parent(o) \in DOMAIN ends') <=> (Parent(o) \in DOMAIN ends)
      /\ Parent(o) \in DOMAIN ends => ends'[Parent(o)] = ends[Parent(o)]
  BY DEF Apart
<1>2. Groups(o)' \subseteq Groups(o)
  BY <1>1 DEF Groups
<1>3. QueueInv(o)'
  BY <1>1 DEF RunInv, QueueInv
<1>4. (Held(o)' <=> Held(o)) /\ (ComesBack(o)' <=> ComesBack(o))
  BY <1>1 DEF Held, ComesBack
<1>5. MapInv(o)'
  <2> USE DEF RunInv, MapInv
  <2>1. verdict'[o] = "idle" => Groups(o)' = {}
    BY <1>1, <1>2
  <2>2. Held(o)' => Groups(o)' = {}
    BY <1>2, <1>4
  <2>3. \A g, h \in Groups(o)' : g = h
    BY <1>2
  <2>4. ComesBack(o)' => ~Held(o)' /\ \A g \in Groups(o)' : g = Last(step'[o].path)
    BY <1>1, <1>2, <1>4
  <2> QED
    BY <2>1, <2>2, <2>3, <2>4
<1>6. LogInv(o)'
  <2> USE DEF RunInv, LogInv
  <2>1. verdict'[o] = "idle" <=> Parent(o) \notin DOMAIN ends'
    BY <1>1
  <2>2. verdict'[o] # "idle" => ends'[Parent(o)] = ends[Parent(o)]
    BY <1>1
  <2>3. verdict'[o] = "running" /\ (Held(o)' \/ Groups(o)' # {} \/ ComesBack(o)') =>
          Unended(ends'[Parent(o)])
    BY <1>1, <1>2, <1>4, <2>2
  <2>4. verdict'[o] \in {"running", "returned"} =>
          \/ Unended(ends'[Parent(o)])
          \/ EndedAs(ends'[Parent(o)], "failed") \/ EndedAs(ends'[Parent(o)], "dropped")
    BY <1>1, <2>2
  <2>5. verdict'[o] \in Verdicts => EndedAs(ends'[Parent(o)], verdict'[o])
    BY <1>1, <2>2 DEF Verdicts
  <2> QED
    BY <2>1, <2>3, <2>4, <2>5
<1> QED
  BY <1>3, <1>5, <1>6 DEF RunInv

(***************************************************************************)
(* The logs of a run are not those of another.                             *)
(***************************************************************************)
LEMMA OthersAreNotNamed ==
  ASSUME ConstantsOK, NEW r \in Runs, NEW o \in Runs \ {r}, NEW id, id[1] = r
  PROVE  Parent(o) # id
  BY DEF Parent, ConstantsOK

(***************************************************************************)
(* A step that gives the sent exchange no new place and logs nothing for   *)
(* it.                                                                     *)
(***************************************************************************)
LEMMA NothingNew ==
  ASSUME NEW r \in Runs, RunInv(r), verdict[r] = "running", verdict'[r] = "running",
         Held(r)' => Held(r), ~ComesBack(r)',
         \A g \in parentMap' : Len(g) = 2 => g \in parentMap,
         Parent(r) \in DOMAIN ends', ends'[Parent(r)] = ends[Parent(r)]
  PROVE  MapInv(r)' /\ LogInv(r)'
<1>1. Groups(r)' \subseteq Groups(r)
  BY DEF Groups
<1>2. MapInv(r)'
  BY <1>1 DEF RunInv, MapInv
<1>3. LogInv(r)'
  <2> USE DEF RunInv, LogInv
  <2>1. verdict'[r] = "running" /\ (Held(r)' \/ Groups(r)' # {} \/ ComesBack(r)') =>
          Unended(ends'[Parent(r)])
    BY <1>1
  <2>2. \/ Unended(ends'[Parent(r)])
        \/ EndedAs(ends'[Parent(r)], "failed") \/ EndedAs(ends'[Parent(r)], "dropped")
    OBVIOUS
  <2>3. verdict'[r] \notin Verdicts
    BY DEF Verdicts
  <2> QED
    BY <2>1, <2>2, <2>3
<1> QED
  BY <1>2, <1>3

(***************************************************************************)
(* An executing step has an entry, of a run that is under way.             *)
(***************************************************************************)
LEMMA Executing ==
  ASSUME ConstantsOK, Inv, NEW r \in Runs, step[r] # Idle
  PROVE  /\ verdict[r] = "running" /\ Parent(r) \in DOMAIN ends
         /\ step[r] \in Entries /\ Sound(r, step[r]) /\ step[r].id \in DOMAIN ends
         /\ step[r].id \in Ids /\ Len(step[r].id) >= 1 /\ step[r].id[1] = r
         /\ step[r].path \in Seq(Seq(Nat)) /\ step[r].steps \in Seq(Kinds)
         /\ step[r].steps # <<>> /\ Rest(r) \in Seq(Kinds)
         /\ queue[r] \in Seq(Entries) /\ AllSound(r, queue[r]) /\ Lone(r, queue[r])
         /\ step[r].path # <<>> => step[r].id # Parent(r)
<1>1. /\ verdict[r] = "running" /\ step[r].id \in DOMAIN ends
      /\ Sound(r, step[r]) /\ step[r].steps # <<>>
      /\ AllSound(r, queue[r]) /\ Lone(r, queue[r])
  BY DEF Inv, Started, RunInv, QueueInv
<1>2. /\ step[r] \in Entries /\ queue[r] \in Seq(Entries)
      /\ step[r].id \in Ids /\ step[r].path \in Seq(Seq(Nat)) /\ step[r].steps \in Seq(Kinds)
  BY DEF Inv, Types, Entries, Ids
<1>3. Parent(r) \in DOMAIN ends
  BY <1>1 DEF Inv, RunInv, LogInv
<1>4. Len(step[r].id) >= 1 /\ step[r].id[1] = r /\ (Len(step[r].id) = 1 => step[r].path = <<>>)
  BY <1>1 DEF Sound
<1>5. Rest(r) \in Seq(Kinds)
  BY <1>1, <1>2, HeadTailProperties DEF Rest
<1>6. step[r].path # <<>> => step[r].id # Parent(r)
  BY <1>2, <1>4, ParentsName DEF ConstantsOK
<1> QED
  BY <1>1, <1>2, <1>3, <1>4, <1>5, <1>6

(***************************************************************************)
(* A step settles: what it schedules goes behind the others.               *)
(***************************************************************************)
LEMMA SettlingQueue ==
  ASSUME ConstantsOK, Inv, NEW r \in Runs, step[r] # Idle,
         NEW more \in Seq(Entries), AllSound(r, more), Lone(r, more),
         ~(Has(r, queue[r]) /\ Has(r, more)),
         Schedules(r, more), verdict' = verdict
  PROVE  /\ queue' \in [Runs -> Seq(Entries)] /\ step' \in [Runs -> Entries]
         /\ step'[r] = Idle
         /\ \A o \in Runs \ {r} : queue'[o] = queue[o] /\ step'[o] = step[o]
         /\ QueueInv(r)'
         /\ Held(r)' => Has(r, queue[r]) \/ Has(r, more)
         /\ ~ComesBack(r)'
<1>1. /\ queue[r] \in Seq(Entries) /\ AllSound(r, queue[r]) /\ Lone(r, queue[r])
      /\ verdict[r] = "running"
  BY Executing
<1>2. /\ queue[r] \o more \in Seq(Entries)
      /\ AllSound(r, queue[r] \o more) /\ Lone(r, queue[r] \o more)
      /\ Has(r, queue[r] \o more) => Has(r, queue[r]) \/ Has(r, more)
  BY <1>1, SchedulesKeeps
<1>3. Idle \in Entries /\ Idle.id # Parent(r)
  BY DEF Idle, Entry, Entries, Parent
<1>4. step' = [step EXCEPT ![r] = Idle] /\ queue' = [queue EXCEPT ![r] = queue[r] \o more]
  BY DEF Schedules
<1> DEFINE q == queue[r] \o more
<1> HIDE DEF q
<1>5. /\ queue' \in [Runs -> Seq(Entries)] /\ step' \in [Runs -> Entries]
      /\ step'[r] = Idle /\ queue'[r] = q
      /\ \A o \in Runs \ {r} : queue'[o] = queue[o] /\ step'[o] = step[o]
  <2>1. queue \in [Runs -> Seq(Entries)] /\ step \in [Runs -> Entries]
    BY DEF Inv, Types
  <2> HIDE DEF Entries, Idle
  <2> QED
    BY <1>2, <1>3, <1>4, <2>1 DEF q
<1>6. QueueInv(r)'
  BY <1>1, <1>2, <1>3, <1>5 DEF QueueInv, q
<1>7. Held(r)' => Has(r, queue[r]) \/ Has(r, more)
  BY <1>2, <1>3, <1>5 DEF Held, q
<1>8. ~ComesBack(r)'
  BY <1>5 DEF ComesBack
<1> QED
  BY <1>5, <1>6, <1>7, <1>8

(***************************************************************************)
(* What each action of run r has to show.                                  *)
(***************************************************************************)
Keeps(r) == Types' /\ Started' /\ Apart(r) /\ RunInv(r)'

(***************************************************************************)
(* A step that goes on, is done with, or takes a branch.                   *)
(***************************************************************************)
LEMMA GoingOnKeeps ==
  ASSUME ConstantsOK, Inv, NEW r \in Runs, Continue(r) \/ Complete(r) \/ Branch(r)
  PROVE  Keeps(r)
<1>1. step[r] # Idle
  BY DEF Continue, Complete, Branch, Kind
<1>2. PICK steps \in Seq(Kinds) :
        /\ Schedules(r, <<[step[r] EXCEPT !.steps = steps]>>)
        /\ UNCHANGED <<route, parentMap, storeMade, known, found, verdict, ends, exposed>>
  <2>1. Rest(r) \in Seq(Kinds) /\ <<>> \in Seq(Kinds)
    BY <1>1, Executing
  <2>2. \A b \in Branches : b \o Rest(r) \in Seq(Kinds)
    BY <2>1, ConcatProperties DEF ConstantsOK
  <2> QED
    BY <2>1, <2>2 DEF Continue, Complete, Branch
<1> DEFINE e == [step[r] EXCEPT !.steps = steps]
           more == <<e>>
<1>3. e \in Entries /\ e.id = step[r].id /\ e.path = step[r].path
  <2>1. step[r] \in Entries
    BY <1>1, Executing
  <2> QED
    BY <2>1 DEF Entries
<1> HIDE DEF e
<1>4. Sound(r, e)
  <2>1. Sound(r, step[r])
    BY <1>1, Executing
  <2> QED
    BY <1>3, <2>1 DEF Sound
<1>5. /\ more \in Seq(Entries) /\ AllSound(r, more) /\ Lone(r, more)
      /\ Has(r, more) => e.id = Parent(r)
  BY <1>3, <1>4, OneEntry
<1> HIDE DEF more
<1>6. ~(Has(r, queue[r]) /\ Has(r, more))
  BY <1>3, <1>5 DEF Inv, RunInv, QueueInv
<1>7. Schedules(r, more)
  BY <1>2 DEF more, e
<1>8. /\ queue' \in [Runs -> Seq(Entries)] /\ step' \in [Runs -> Entries]
      /\ step'[r] = Idle
      /\ \A o \in Runs \ {r} : queue'[o] = queue[o] /\ step'[o] = step[o]
      /\ QueueInv(r)'
      /\ Held(r)' => Has(r, queue[r]) \/ Has(r, more)
      /\ ~ComesBack(r)'
  BY <1>1, <1>2, <1>5, <1>6, <1>7, SettlingQueue
<1>9. Held(r)' => Held(r)
  BY <1>3, <1>5, <1>8 DEF Held
<1>10. MapInv(r)' /\ LogInv(r)'
  BY <1>1, <1>2, <1>8, <1>9, Executing, NothingNew DEF Inv
<1>11. Types'
  BY <1>2, <1>8 DEF Inv, Types
<1>12. Started'
  BY <1>2, <1>8 DEF Inv, Started
<1>13. Apart(r)
  BY <1>2, <1>8 DEF Apart
<1> QED
  BY <1>8, <1>10, <1>11, <1>12, <1>13 DEF Keeps, RunInv

(***************************************************************************)
(* An exchange ends by itself: dropped, or failed without an error         *)
(* handler.  If it is the one the source sent, nothing is left of it.      *)
(***************************************************************************)
LEMMA EndingKeeps ==
  ASSUME ConstantsOK, Inv, NEW r \in Runs, Drop(r) \/ Fail(r)
  PROVE  Keeps(r)
<1>1. step[r] # Idle
  BY DEF Drop, Fail, Throws, Kind
<1>2. PICK how \in {"dropped", "failed"} :
        /\ Schedules(r, <<>>)
        /\ ends' = Ended(ends, {step[r].id}, how)
        /\ UNCHANGED <<route, found, verdict>>
        /\ parentMap' \subseteq parentMap
  BY DEF Drop, Fail, Throws
<1> DEFINE e == step[r]
           P == Parent(r)
<1>3. /\ verdict[r] = "running" /\ P \in DOMAIN ends /\ e.id \in DOMAIN ends /\ e.id[1] = r
  BY <1>1, Executing
<1>4. <<>> \in Seq(Entries) /\ AllSound(r, <<>>) /\ Lone(r, <<>>) /\ ~Has(r, <<>>)
  BY NoEntry
<1>5. /\ queue' \in [Runs -> Seq(Entries)] /\ step' \in [Runs -> Entries]
      /\ step'[r] = Idle
      /\ \A o \in Runs \ {r} : queue'[o] = queue[o] /\ step'[o] = step[o]
      /\ QueueInv(r)'
      /\ Held(r)' => Has(r, queue[r])
      /\ ~ComesBack(r)'
  BY <1>1, <1>2, <1>4, SettlingQueue
<1>6. \A id \in DOMAIN ends : ends[id] \in Logs
  BY DEF Inv, Types
<1>7. /\ DOMAIN ends' = DOMAIN ends
      /\ \A id \in DOMAIN ends : id # e.id => ends'[id] = ends[id]
      /\ ends'[e.id] = Append(ends[e.id], how)
      /\ \A id \in DOMAIN ends' : ends'[id] \in Logs
  <2>1. how \in {"split"} \union Verdicts
    BY DEF Verdicts
  <2> DEFINE log == Ended(ends, {step[r].id}, how)
  <2>2. /\ DOMAIN log = DOMAIN ends \union {step[r].id}
        /\ \A id \in DOMAIN ends \ {step[r].id} : log[id] = ends[id]
        /\ \A id \in DOMAIN ends \intersect {step[r].id} : log[id] = Append(ends[id], how)
        /\ \A id \in DOMAIN log : log[id] \in Logs
    BY <1>6, <2>1, EndedLogs
  <2>3. ends' = log
    BY <1>2
  <2> HIDE DEF log
  <2> QED
    BY <1>3, <2>2, <2>3
<1>8. MapInv(r)' /\ LogInv(r)'
  <2>1. CASE e.id = P
    <3>1. Held(r) /\ Groups(r) = {} /\ ~Has(r, queue[r]) /\ Unended(ends[P])
      BY <1>3, <2>1 DEF Inv, RunInv, QueueInv, MapInv, LogInv, Held
    <3>2. ~Held(r)' /\ Groups(r)' = {}
      BY <1>2, <1>5, <3>1 DEF Groups
    <3>3. EndedAs(ends'[P], how)
      BY <1>3, <1>6, <1>7, <2>1, <3>1, LongerLogs DEF Verdicts
    <3>4. MapInv(r)'
      BY <1>5, <3>2 DEF MapInv
    <3>5. verdict'[r] = "running" /\ P \in DOMAIN ends'
      BY <1>2, <1>3, <1>7
    <3>6. LogInv(r)'
      BY <1>5, <3>2, <3>3, <3>5 DEF LogInv, Verdicts
    <3> QED
      BY <3>4, <3>6
  <2>2. CASE e.id # P
    <3>1. ends'[P] = ends[P] /\ P \in DOMAIN ends' /\ verdict'[r] = "running"
      BY <1>2, <1>3, <1>7, <2>2
    <3>2. Held(r)' => Held(r)
      BY <1>5 DEF Held
    <3> QED
      BY <1>2, <1>3, <1>5, <3>1, <3>2, NothingNew DEF Inv
  <2> QED
    BY <2>1, <2>2
<1>9. Types'
  BY <1>2, <1>5, <1>7 DEF Inv, Types
<1>10. Started'
  BY <1>5, <1>7 DEF Inv, Started
<1>11. Apart(r)
  <2>1. \A o \in Runs \ {r} : Parent(o) # e.id
    BY <1>3, OthersAreNotNamed
  <2>2. verdict' = verdict /\ found' = found
    BY <1>2
  <2> QED
    BY <1>2, <1>5, <1>7, <2>1, <2>2 DEF Apart
<1> QED
  BY <1>5, <1>8, <1>9, <1>10, <1>11 DEF Keeps, RunInv

(***************************************************************************)
(* A split: the exchange gives its place in the queue to its group.        *)
(***************************************************************************)
LEMMA SplitKeeps ==
  ASSUME ConstantsOK, Inv, NEW r \in Runs, Split(r)
  PROVE  Keeps(r)
<1>1. step[r] # Idle
  BY DEF Split, Kind
<1> DEFINE e == step[r]
           P == Parent(r)
           group == Group(e.id)
<1>2. PICK n \in 0..MaxFan :
        Schedules(r, [k \in 1..n |-> Entry(Child(group, k), Append(e.path, group), Rest(r))])
  BY DEF Split
<1> DEFINE more == [k \in 1..n |-> Entry(Child(group, k), Append(e.path, group), Rest(r))]
<1>3. /\ parentMap' = parentMap \union {group}
      /\ ends' = Ended(ends, {e.id}, "split")
      /\ UNCHANGED <<route, found, verdict>>
  BY DEF Split
<1>4. /\ verdict[r] = "running" /\ P \in DOMAIN ends /\ e.id \in DOMAIN ends
      /\ e.id \in Ids /\ Len(e.id) >= 1 /\ e.id[1] = r /\ Sound(r, e)
      /\ e.path \in Seq(Seq(Nat)) /\ Rest(r) \in Seq(Kinds)
  BY <1>1, Executing
<1>5. \A id \in DOMAIN ends : ends[id] \in Logs
  BY DEF Inv, Types
<1>6. /\ DOMAIN ends' = DOMAIN ends
      /\ \A id \in DOMAIN ends : id # e.id => ends'[id] = ends[id]
      /\ ends'[e.id] = Append(ends[e.id], "split")
      /\ \A id \in DOMAIN ends' : ends'[id] \in Logs
  <2> DEFINE log == Ended(ends, {step[r].id}, "split")
  <2>1. /\ DOMAIN log = DOMAIN ends \union {step[r].id}
        /\ \A id \in DOMAIN ends \ {step[r].id} : log[id] = ends[id]
        /\ \A id \in DOMAIN ends \intersect {step[r].id} : log[id] = Append(ends[id], "split")
        /\ \A id \in DOMAIN log : log[id] \in Logs
    BY <1>5, EndedLogs
  <2>2. ends' = log
    BY <1>3
  <2> HIDE DEF log
  <2> QED
    BY <1>4, <2>1, <2>2
<1>7. /\ group \in Ids /\ Len(group) = Len(e.id) + 1 /\ Len(e.id) \in Nat /\ group[1] = r
  <2>1. Len(ends[e.id]) \in Nat
    BY <1>4, <1>5 DEF Logs
  <2>2. e.id \in Seq(Nat) /\ Len(e.id) \in Nat /\ 1 \in 1..Len(e.id)
    BY <1>4 DEF Ids
  <2>3. /\ group \in Seq(Nat) /\ Len(group) = Len(e.id) + 1
        /\ \A i \in 1..Len(e.id) : group[i] = e.id[i]
    BY <2>1, <2>2, AppendProperties DEF Group
  <2> HIDE DEF group
  <2> QED
    BY <1>4, <2>2, <2>3 DEF Ids
<1> HIDE DEF group
<1>7a. Len(group) = 2 => Len(e.id) = 1
  <2>1. \A m \in Nat : m + 1 = 2 => m = 1
    OBVIOUS
  <2> QED
    BY <1>7, <2>1, Zenon
<1>8. ASSUME NEW k \in 1..n
      PROVE  /\ more[k] \in Entries /\ Sound(r, more[k]) /\ more[k].id # P
  <2> DEFINE id == Child(group, k)
             path == Append(e.path, group)
  <2>1. k \in Nat
    OBVIOUS
  <2>2. id \in Ids /\ Len(id) = Len(group) + 1 /\ id[1] = r
    <3>1. Len(group) \in Nat /\ 1 \in 1..Len(group) /\ group \in Seq(Nat)
      BY <1>4, <1>7 DEF Ids
    <3>2. /\ id \in Seq(Nat) /\ Len(id) = Len(group) + 1
          /\ \A i \in 1..Len(group) : id[i] = group[i]
      BY <2>1, <3>1, AppendProperties DEF Child
    <3> HIDE DEF id
    <3> QED
      BY <1>7, <3>1, <3>2 DEF Ids
  <2>3. /\ path \in Seq(Seq(Nat)) /\ Len(path) = Len(e.path) + 1 /\ Len(e.path) \in Nat
        /\ path[Len(e.path) + 1] = group
        /\ \A i \in 1..Len(e.path) : path[i] = e.path[i]
    <3>1. e.path \in Seq(Seq(Nat)) /\ group \in Seq(Nat)
      BY <1>4, <1>7 DEF Ids
    <3>2. Len(e.path) \in Nat
      BY <3>1
    <3> QED
      BY <3>1, <3>2, AppendProperties
  <2>4. more[k] = Entry(id, path, Rest(r))
    OBVIOUS
  <2> HIDE DEF id, path, more
  <2>5. more[k] \in Entries /\ more[k].id = id /\ more[k].path = path
    BY <1>4, <2>2, <2>3, <2>4 DEF Entry, Entries, Ids
  <2>6. Len(id) >= 3
    BY <1>4, <1>7, <2>2
  <2>7. \A i \in 1..Len(path) :
          Len(path[i]) >= 2 /\ path[i][1] = r /\ (Len(path[i]) = 2 => i = 1)
    <3> TAKE i \in 1..Len(path)
    <3>1. CASE i \in 1..Len(e.path)
      <4>1. path[i] = e.path[i]
        BY <2>3, <3>1
      <4>2. Len(e.path[i]) >= 2 /\ e.path[i][1] = r /\ (Len(e.path[i]) = 2 => i = 1)
        BY <1>4, <3>1 DEF Sound
      <4> QED
        BY <4>1, <4>2
    <3>2. CASE i = Len(e.path) + 1
      <4>1. Len(group) = 2 => e.path = <<>>
        <5>1. Len(group) = 2 => Len(e.id) = 1
          BY <1>7a
        <5> QED
          BY <1>4, <5>1 DEF Sound
      <4>2. e.path = <<>> => Len(e.path) = 0
        OBVIOUS
      <4> QED
        <5>1. path[i] = group
          BY <2>3, <3>2
        <5>2. Len(group) >= 2 /\ group[1] = r
          BY <1>4, <1>7
        <5> QED
          BY <3>2, <4>1, <4>2, <5>1, <5>2
    <3>3. i \in 1..Len(e.path) \/ i = Len(e.path) + 1
      <4>1. \A m \in Nat : \A j \in 1..(m + 1) : j \in 1..m \/ j = m + 1
        OBVIOUS
      <4>2. i \in 1..(Len(e.path) + 1)
        BY <2>3
      <4> QED
        BY <2>3, <4>1, <4>2, Zenon
    <3> QED
      BY <3>1, <3>2, <3>3
  <2>8. Sound(r, more[k])
    BY <2>2, <2>5, <2>6, <2>7 DEF Sound
  <2>9. id # P
    <3>1. r \in Nat /\ Len(id) # 1 /\ Len(id) >= 1
      BY <2>6, <2>2 DEF ConstantsOK, Ids
    <3> QED
      BY <2>2, <3>1, ParentsName
  <2> QED
    BY <2>5, <2>8, <2>9
<1>9. more \in Seq(Entries) /\ Len(more) = n
  <2>1. n \in Nat
    BY DEF ConstantsOK
  <2>2. more = [k \in 1..n |-> more[k]]
    OBVIOUS
  <2> HIDE DEF more
  <2> QED
    BY <1>8, <2>1, <2>2
<1> HIDE DEF more
<1>10. AllSound(r, more) /\ Lone(r, more) /\ ~Has(r, more)
  BY <1>8, <1>9 DEF AllSound, Lone, Has
<1>11. /\ queue' \in [Runs -> Seq(Entries)] /\ step' \in [Runs -> Entries]
       /\ step'[r] = Idle
       /\ \A o \in Runs \ {r} : queue'[o] = queue[o] /\ step'[o] = step[o]
       /\ QueueInv(r)'
       /\ Held(r)' => Has(r, queue[r])
       /\ ~ComesBack(r)'
  <2>1. Schedules(r, more) /\ verdict' = verdict
    BY <1>2, <1>3 DEF more
  <2> QED
    BY <1>1, <1>9, <1>10, <2>1, SettlingQueue
<1>12. Len(e.id) = 1 <=> e.id = P
  BY <1>4, ParentsName DEF ConstantsOK
<1>13. MapInv(r)' /\ LogInv(r)'
  <2>1. CASE e.id = P
    <3>1. Held(r) /\ Groups(r) = {} /\ ~Has(r, queue[r]) /\ Unended(ends[P])
      BY <1>4, <2>1 DEF Inv, RunInv, QueueInv, MapInv, LogInv, Held
    <3>2. ~Held(r)' /\ \A g \in Groups(r)' : g = group
      BY <1>3, <1>11, <3>1 DEF Groups
    <3>3. Unended(ends'[P])
      BY <1>4, <1>5, <1>6, <2>1, <3>1, LongerLogs
    <3>4. verdict'[r] = "running" /\ P \in DOMAIN ends'
      BY <1>3, <1>4, <1>6
    <3>5. MapInv(r)'
      BY <1>11, <3>2, <3>4 DEF MapInv
    <3>6. LogInv(r)'
      BY <3>3, <3>4 DEF LogInv, Verdicts
    <3> QED
      BY <3>5, <3>6
  <2>2. CASE e.id # P
    <3>1. ends'[P] = ends[P] /\ P \in DOMAIN ends' /\ verdict'[r] = "running"
      BY <1>3, <1>4, <1>6, <2>2
    <3>2. \A g \in parentMap' : Len(g) = 2 => g \in parentMap
      <4>1. Len(group) # 2
        BY <1>7a, <1>12, <2>2
      <4> QED
        BY <1>3, <4>1
    <3>3. Held(r)' => Held(r)
      BY <1>11 DEF Held
    <3> QED
      BY <1>4, <1>11, <3>1, <3>2, <3>3, NothingNew DEF Inv
  <2> QED
    BY <2>1, <2>2
<1>14. Types'
  <2>1. Len(group) >= 2
    BY <1>4, <1>7
  <2> QED
    BY <1>3, <1>6, <1>7, <1>11, <2>1 DEF Inv, Types
<1>15. Started'
  BY <1>6, <1>11 DEF Inv, Started
<1>16. Apart(r)
  <2>1. \A o \in Runs \ {r} : Parent(o) # e.id
    BY <1>4, OthersAreNotNamed
  <2>2. \A o \in Runs \ {r} : \A g \in parentMap' : g[1] = o => g \in parentMap
    BY <1>3, <1>7
  <2>3. verdict' = verdict /\ found' = found
    BY <1>3
  <2> QED
    BY <1>6, <1>11, <2>1, <2>2, <2>3 DEF Apart
<1> QED
  BY <1>11, <1>13, <1>14, <1>15, <1>16 DEF Keeps, RunInv

(***************************************************************************)
(* A join: the parent comes back, if the map still had it.                 *)
(***************************************************************************)
LEMMA JoinKeeps ==
  ASSUME ConstantsOK, Inv, NEW r \in Runs, Join(r)
  PROVE  Keeps(r)
<1>1. step[r] # Idle /\ Head(step[r].steps) = "aggregate" /\ step[r].path # <<>>
  BY DEF Join, Kind
<1> DEFINE e == step[r]
           P == Parent(r)
           group == Last(e.path)
           id == IF found[r] THEN ParentOf(group) ELSE e.id
           back == Entry(id, Front(e.path), Rest(r))
           more == <<back>>
<1>2. /\ Schedules(r, more)
      /\ parentMap' = parentMap \ {group}
      /\ UNCHANGED <<route, found, verdict, ends>>
  BY DEF Join
<1>3. /\ verdict[r] = "running" /\ P \in DOMAIN ends
      /\ e.id \in Ids /\ Len(e.id) >= 1 /\ e.id[1] = r
      /\ e.path \in Seq(Seq(Nat)) /\ Rest(r) \in Seq(Kinds)
      /\ e.id # P /\ r \in Nat
  BY <1>1, Executing DEF ConstantsOK
<1>4. Sound(r, e)
  BY <1>1, Executing
<1>5. Len(e.path) \in Nat /\ Len(e.path) >= 1
  BY <1>1, <1>3
<1>6. /\ group = e.path[Len(e.path)] /\ group \in Seq(Nat) /\ Len(group) >= 2 /\ group[1] = r
      /\ Len(group) = 2 => Len(e.path) = 1
  <2>1. Len(e.path) \in 1..Len(e.path)
    BY <1>5
  <2>2. group = e.path[Len(e.path)]
    BY DEF Last
  <2>3. e.path[Len(e.path)] \in Seq(Nat)
    BY <1>3, <2>1
  <2> HIDE DEF group
  <2> QED
    BY <1>4, <2>1, <2>2, <2>3 DEF Sound
<1>7. /\ Front(e.path) \in Seq(Seq(Nat)) /\ Len(Front(e.path)) = Len(e.path) - 1
      /\ \A k \in 1..(Len(e.path) - 1) : Front(e.path)[k] = e.path[k]
  BY <1>3, <1>5, FrontKeeps
<1>8. /\ ParentOf(group) \in Ids /\ Len(ParentOf(group)) = Len(group) - 1
      /\ ParentOf(group)[1] = r
  <2> HIDE DEF group
  <2>1. Len(group) \in Nat /\ Len(group) >= 2 /\ 1 \in 1..(Len(group) - 1)
    BY <1>6
  <2>2. /\ Front(group) \in Seq(Nat) /\ Len(Front(group)) = Len(group) - 1
        /\ \A k \in 1..(Len(group) - 1) : Front(group)[k] = group[k]
    <3>1. group \in Seq(Nat)
      BY <1>6
    <3> QED
      BY <2>1, <3>1, FrontKeeps
  <2> QED
    BY <1>6, <2>1, <2>2 DEF ParentOf, Ids
<1>9. /\ id \in Ids /\ Len(id) >= 1 /\ id[1] = r
      /\ id = P => found[r] /\ Len(group) = 2
  <2> HIDE DEF group
  <2>1. CASE found[r]
    <3>1. id = ParentOf(group) /\ Len(group) \in Nat
      BY <1>6, <2>1
    <3>2. Len(id) >= 1 /\ (Len(id) = 1 => Len(group) = 2)
      <4>1. \A m \in Nat : m >= 2 => m - 1 >= 1 /\ (m - 1 = 1 => m = 2)
        OBVIOUS
      <4> QED
        BY <1>6, <1>8, <3>1, <4>1, Zenon
    <3> QED
      BY <1>3, <1>8, <2>1, <3>1, <3>2, ParentsName
  <2>2. CASE ~found[r]
    BY <1>3, <2>2
  <2> QED
    BY <2>1, <2>2
<1> HIDE DEF id
<1>10. back \in Entries /\ back.id = id /\ back.path = Front(e.path)
  BY <1>3, <1>7, <1>9 DEF Entry, Entries, Ids
<1>11. Sound(r, back)
  <2>1. Len(id) = 1 => Front(e.path) = <<>>
    <3>1. Len(id) = 1 => Len(e.path) = 1
      BY <1>3, <1>6, <1>9, ParentsName
    <3>2. Len(e.path) = 1 => Len(Front(e.path)) = 0
      BY <1>7
    <3>3. Len(Front(e.path)) = 0 => Front(e.path) = <<>>
      BY <1>7
    <3> QED
      BY <3>1, <3>2, <3>3
  <2>2. \A k \in 1..Len(Front(e.path)) : k \in 1..Len(e.path) /\ Front(e.path)[k] = e.path[k]
    BY <1>5, <1>7
  <2> HIDE DEF back
  <2> DEFINE front == Front(e.path)
  <2>3. \A k \in 1..Len(e.path) :
          Len(e.path[k]) >= 2 /\ e.path[k][1] = r /\ (Len(e.path[k]) = 2 => k = 1)
    BY <1>4 DEF Sound
  <2> HIDE DEF front
  <2>4. \A k \in 1..Len(front) :
          Len(front[k]) >= 2 /\ front[k][1] = r /\ (Len(front[k]) = 2 => k = 1)
    BY <2>2, <2>3 DEF front
  <2> QED
    BY <1>9, <1>10, <2>1, <2>4 DEF Sound, front
<1> HIDE DEF back
<1>12. /\ more \in Seq(Entries) /\ AllSound(r, more) /\ Lone(r, more)
       /\ Has(r, more) => id = P
  BY <1>10, <1>11, OneEntry
<1>13. id = P => ComesBack(r)
  BY <1>1, <1>9 DEF ComesBack
<1>14. ComesBack(r) => ~Held(r) /\ \A g \in Groups(r) : g = group
  BY DEF Inv, RunInv, MapInv
<1>15. ~(Has(r, queue[r]) /\ Has(r, more))
  BY <1>12, <1>13, <1>14 DEF Held
<1> HIDE DEF more
<1>16. /\ queue' \in [Runs -> Seq(Entries)] /\ step' \in [Runs -> Entries]
       /\ step'[r] = Idle
       /\ \A o \in Runs \ {r} : queue'[o] = queue[o] /\ step'[o] = step[o]
       /\ QueueInv(r)'
       /\ Held(r)' => Has(r, queue[r]) \/ Has(r, more)
       /\ ~ComesBack(r)'
  BY <1>1, <1>2, <1>12, <1>15, SettlingQueue
<1>17. MapInv(r)' /\ LogInv(r)'
  <2>1. CASE ComesBack(r)
    <3>1. Groups(r)' = {}
      <4>1. Groups(r)' \subseteq Groups(r) /\ group \notin parentMap'
        BY <1>2 DEF Groups
      <4>2. \A g \in Groups(r)' : g \in parentMap'
        BY DEF Groups
      <4> QED
        BY <1>14, <2>1, <4>1, <4>2
    <3>2. Unended(ends[P])
      BY <1>3, <2>1 DEF Inv, RunInv, LogInv
    <3>3. verdict'[r] = "running" /\ ends' = ends
      BY <1>2, <1>3
    <3>4. MapInv(r)'
      BY <1>16, <3>1 DEF MapInv
    <3>5. LogInv(r)'
      BY <1>3, <3>2, <3>3 DEF LogInv, Verdicts
    <3> QED
      BY <3>4, <3>5
  <2>2. CASE ~ComesBack(r)
    <3>1. Held(r)' => Held(r)
      BY <1>12, <1>13, <1>16, <2>2 DEF Held
    <3> QED
      BY <1>2, <1>3, <1>16, <3>1, NothingNew DEF Inv
  <2> QED
    BY <2>1, <2>2
<1>18. Types'
  BY <1>2, <1>16 DEF Inv, Types
<1>19. Started'
  BY <1>2, <1>16 DEF Inv, Started
<1>20. Apart(r)
  BY <1>2, <1>16 DEF Apart
<1> QED
  BY <1>16, <1>17, <1>18, <1>19, <1>20 DEF Keeps, RunInv

(***************************************************************************)
(* The error handler takes over: the run has nothing left to do.           *)
(***************************************************************************)
LEMMA HandleKeeps ==
  ASSUME ConstantsOK, Inv, NEW r \in Runs, Handle(r)
  PROVE  Keeps(r)
<1>1. step[r] # Idle
  BY DEF Handle, Throws, Kind
<1> DEFINE e == step[r]
           P == Parent(r)
<1>2. /\ step' = [step EXCEPT ![r] = Idle]
      /\ queue' = [queue EXCEPT ![r] = <<>>]
      /\ verdict' = [verdict EXCEPT ![r] = "returned"]
      /\ parentMap' \subseteq parentMap
      /\ UNCHANGED <<route, found>>
  BY DEF Handle, Throws
<1>3. \/ ends' = ends
      \/ \E how \in {"dropped", "failed"} : ends' = Ended(ends, {e.id}, how)
  <2>1. route[r].handler \in {"recover", "drop", "throw"}
    BY DEF Handle, Inv, Types, ConstantsOK, Handlers
  <2> QED
    BY <2>1 DEF Handle
<1>4. /\ verdict[r] = "running" /\ P \in DOMAIN ends /\ e.id \in DOMAIN ends /\ e.id[1] = r
  BY <1>1, Executing
<1>5. \A id \in DOMAIN ends : ends[id] \in Logs
  BY DEF Inv, Types
<1>6. /\ DOMAIN ends' = DOMAIN ends
      /\ \A id \in DOMAIN ends : id # e.id => ends'[id] = ends[id]
      /\ \/ ends'[e.id] = ends[e.id]
         \/ \E how \in {"dropped", "failed"} : ends'[e.id] = Append(ends[e.id], how)
      /\ \A id \in DOMAIN ends' : ends'[id] \in Logs
  <2>1. CASE ends' = ends
    BY <1>4, <1>5, <2>1
  <2>2. ASSUME NEW how \in {"dropped", "failed"}, ends' = Ended(ends, {e.id}, how)
        PROVE  /\ DOMAIN ends' = DOMAIN ends
               /\ \A id \in DOMAIN ends : id # e.id => ends'[id] = ends[id]
               /\ ends'[e.id] = Append(ends[e.id], how)
               /\ \A id \in DOMAIN ends' : ends'[id] \in Logs
    <3>1. how \in {"split"} \union Verdicts
      BY DEF Verdicts
    <3> DEFINE log == Ended(ends, {step[r].id}, how)
    <3>2. /\ DOMAIN log = DOMAIN ends \union {step[r].id}
          /\ \A id \in DOMAIN ends \ {step[r].id} : log[id] = ends[id]
          /\ \A id \in DOMAIN ends \intersect {step[r].id} : log[id] = Append(ends[id], how)
          /\ \A id \in DOMAIN log : log[id] \in Logs
      BY <1>5, <3>1, EndedLogs
    <3>3. ends' = log
      BY <2>2
    <3> HIDE DEF log
    <3> QED
      BY <1>4, <3>2, <3>3
  <2> QED
    BY <1>3, <2>1, <2>2
<1>7. /\ queue' \in [Runs -> Seq(Entries)] /\ step' \in [Runs -> Entries]
      /\ step'[r] = Idle /\ queue'[r] = <<>> /\ verdict'[r] = "returned"
      /\ verdict' \in [Runs -> {"idle", "running", "returned"} \union Verdicts]
      /\ \A o \in Runs \ {r} : /\ queue'[o] = queue[o] /\ step'[o] = step[o]
                               /\ verdict'[o] = verdict[o]
  <2>1. Idle \in Entries
    BY DEF Idle, Entry, Entries
  <2>2. /\ queue \in [Runs -> Seq(Entries)] /\ step \in [Runs -> Entries]
        /\ verdict \in [Runs -> {"idle", "running", "returned"} \union Verdicts]
    BY DEF Inv, Types
  <2> HIDE DEF Entries, Idle
  <2> QED
    BY <1>2, <2>1, <2>2
<1>8. ~Held(r)' /\ ~ComesBack(r)' /\ Groups(r)' \subseteq Groups(r) /\ QueueInv(r)'
  <2>1. Idle.id # P
    BY DEF Idle, Entry, Parent
  <2>2. AllSound(r, <<>>) /\ Lone(r, <<>>) /\ ~Has(r, <<>>)
    BY NoEntry
  <2> QED
    BY <1>2, <1>7, <2>1, <2>2 DEF Held, ComesBack, Groups, QueueInv
<1>9. MapInv(r)'
  BY <1>7, <1>8 DEF MapInv, Inv, RunInv
<1>10. \/ Unended(ends'[P]) \/ EndedAs(ends'[P], "failed") \/ EndedAs(ends'[P], "dropped")
  <2>1. CASE e.id = P
    <3>1. Unended(ends[P])
      BY <1>4, <2>1 DEF Inv, RunInv, LogInv, Held
    <3> QED
      BY <1>4, <1>5, <1>6, <2>1, <3>1, LongerLogs DEF Verdicts
  <2>2. CASE e.id # P
    BY <1>4, <1>6, <2>2 DEF Inv, RunInv, LogInv
  <2> QED
    BY <2>1, <2>2
<1>11. LogInv(r)'
  BY <1>4, <1>6, <1>7, <1>10 DEF LogInv, Verdicts
<1>12. Types'
  BY <1>2, <1>6, <1>7 DEF Inv, Types
<1>13. Started'
  BY <1>6, <1>7 DEF Inv, Started
<1>14. Apart(r)
  <2>1. \A o \in Runs \ {r} : Parent(o) # e.id
    BY <1>4, OthersAreNotNamed
  <2>2. found' = found
    BY <1>2
  <2> QED
    BY <1>2, <1>6, <1>7, <2>1, <2>2 DEF Apart
<1> QED
  BY <1>8, <1>9, <1>11, <1>12, <1>13, <1>14 DEF Keeps, RunInv

(***************************************************************************)
(* The loop takes the next entry, which it is done with or executes.       *)
(***************************************************************************)
LEMMA NextEntry ==
  ASSUME ConstantsOK, Inv, NEW r \in Runs, Ready(r)
  PROVE  /\ verdict[r] = "running" /\ Parent(r) \in DOMAIN ends /\ step[r] = Idle
         /\ queue[r] \in Seq(Entries) /\ queue[r] # <<>>
         /\ Head(queue[r]) \in Entries /\ Sound(r, Head(queue[r]))
         /\ Head(queue[r]).id \in Ids /\ Len(Head(queue[r]).id) >= 1
         /\ Head(queue[r]).id[1] = r
         /\ Tail(queue[r]) \in Seq(Entries)
         /\ AllSound(r, Tail(queue[r])) /\ Lone(r, Tail(queue[r]))
         /\ Has(r, Tail(queue[r])) => Held(r)
         /\ Head(queue[r]).id = Parent(r) => Held(r) /\ ~Has(r, Tail(queue[r]))
         /\ Head(queue[r]).path # <<>> => Head(queue[r]).id # Parent(r)
<1> DEFINE q == queue[r]
           e == Head(q)
<1>1. /\ verdict[r] = "running" /\ step[r] = Idle /\ q # <<>>
      /\ q \in Seq(Entries) /\ AllSound(r, q) /\ Lone(r, q)
  BY DEF Ready, Running, Inv, Types, RunInv, QueueInv
<1>2. Parent(r) \in DOMAIN ends
  BY <1>1 DEF Inv, RunInv, LogInv
<1>3. /\ e \in Entries /\ Sound(r, e)
      /\ Tail(q) \in Seq(Entries) /\ AllSound(r, Tail(q)) /\ Lone(r, Tail(q))
      /\ Has(r, Tail(q)) => Has(r, q)
      /\ e.id = Parent(r) => Has(r, q) /\ ~Has(r, Tail(q))
  BY <1>1, TailKeeps
<1> HIDE DEF e
<1>4. e.id \in Ids /\ Len(e.id) >= 1 /\ e.id[1] = r /\ (Len(e.id) = 1 => e.path = <<>>)
  BY <1>3 DEF Entries, Ids, Sound
<1>5. e.path # <<>> => e.id # Parent(r)
  BY <1>4, ParentsName DEF ConstantsOK
<1>6. Has(r, q) => Held(r)
  BY DEF Held
<1> QED
  BY <1>1, <1>2, <1>3, <1>4, <1>5, <1>6 DEF e

(***************************************************************************)
(* An entry without steps: only a child is announced, so the sent exchange *)
(* gets no second end here.                                                *)
(***************************************************************************)
LEMMA TakeDoneKeeps ==
  ASSUME ConstantsOK, Inv, NEW r \in Runs, TakeDone(r)
  PROVE  Keeps(r)
<1> DEFINE e == Head(queue[r])
           P == Parent(r)
           t == Tail(queue[r])
<1>1. /\ Ready(r)
      /\ queue' = [queue EXCEPT ![r] = t]
      /\ \/ ends' = ends
         \/ e.id # P /\ e.id \in DOMAIN ends /\ ends' = Ended(ends, {e.id}, "completed")
      /\ UNCHANGED <<route, step, parentMap, found, verdict>>
  BY DEF TakeDone
<1>2. /\ verdict[r] = "running" /\ P \in DOMAIN ends /\ step[r] = Idle
      /\ e.id[1] = r
      /\ t \in Seq(Entries) /\ AllSound(r, t) /\ Lone(r, t)
      /\ Has(r, t) => Held(r)
  BY <1>1, NextEntry
<1>3. \A id \in DOMAIN ends : ends[id] \in Logs
  BY DEF Inv, Types
<1>4. /\ DOMAIN ends' = DOMAIN ends
      /\ \A id \in DOMAIN ends : id # e.id \/ id = P => ends'[id] = ends[id]
      /\ \A id \in DOMAIN ends' : ends'[id] \in Logs
  <2>1. CASE ends' = ends
    BY <1>3, <2>1
  <2>2. CASE e.id # P /\ e.id \in DOMAIN ends /\ ends' = Ended(ends, {e.id}, "completed")
    <3> DEFINE log == Ended(ends, {e.id}, "completed")
    <3>1. "completed" \in {"split"} \union Verdicts
      BY DEF Verdicts
    <3> HIDE DEF e
    <3>2. /\ DOMAIN log = DOMAIN ends \union {e.id}
          /\ \A id \in DOMAIN ends \ {e.id} : log[id] = ends[id]
          /\ \A id \in DOMAIN log : log[id] \in Logs
      BY <1>3, <3>1, EndedLogs
    <3>3. ends' = log /\ e.id # P /\ e.id \in DOMAIN ends
      BY <2>2
    <3> HIDE DEF log
    <3> QED
      BY <3>2, <3>3
  <2> QED
    BY <1>1, <2>1, <2>2
<1> HIDE DEF e, t
<1>5. /\ queue' \in [Runs -> Seq(Entries)] /\ queue'[r] = t
      /\ \A o \in Runs \ {r} : queue'[o] = queue[o]
  <2>1. queue \in [Runs -> Seq(Entries)]
    BY DEF Inv, Types
  <2> QED
    BY <1>1, <1>2, <2>1
<1>6. step[r].id # P
  BY <1>2 DEF Idle, Entry, Parent
<1>7. QueueInv(r)'
  BY <1>1, <1>2, <1>5, <1>6 DEF QueueInv
<1>8. (Held(r)' => Held(r)) /\ ~ComesBack(r)'
  BY <1>1, <1>2, <1>5, <1>6 DEF Held, ComesBack
<1>9. MapInv(r)' /\ LogInv(r)'
  BY <1>1, <1>2, <1>4, <1>8, NothingNew DEF Inv
<1>10. Types'
  BY <1>1, <1>4, <1>5 DEF Inv, Types
<1>11. Started'
  BY <1>1, <1>4 DEF Inv, Started
<1>12. Apart(r)
  <2>1. \A o \in Runs \ {r} : Parent(o) # e.id
    BY <1>2, OthersAreNotNamed
  <2>2. step' = step /\ found' = found /\ verdict' = verdict
    BY <1>1
  <2> QED
    BY <1>1, <1>4, <1>5, <2>1, <2>2 DEF Apart
<1> QED
  BY <1>7, <1>9, <1>10, <1>11, <1>12 DEF Keeps, RunInv

(***************************************************************************)
(* An entry moves from the queue into the step that executes.              *)
(***************************************************************************)
LEMMA TakeStepKeeps ==
  ASSUME ConstantsOK, Inv, NEW r \in Runs, TakeStep(r)
  PROVE  Keeps(r)
<1> DEFINE e == Head(queue[r])
           P == Parent(r)
           t == Tail(queue[r])
<1>1. /\ Ready(r) /\ e.steps # <<>> /\ (Head(e.steps) # "aggregate" \/ e.path = <<>>)
      /\ queue' = [queue EXCEPT ![r] = t]
      /\ step' = [step EXCEPT ![r] = e]
      /\ ends' = Announced(ends, {e.id})
      /\ UNCHANGED <<route, parentMap, found, verdict>>
  BY DEF TakeStep
<1>2. /\ verdict[r] = "running" /\ P \in DOMAIN ends /\ step[r] = Idle
      /\ e \in Entries /\ Sound(r, e) /\ e.id[1] = r
      /\ t \in Seq(Entries) /\ AllSound(r, t) /\ Lone(r, t)
      /\ Has(r, t) => Held(r)
      /\ e.id = P => Held(r) /\ ~Has(r, t)
  BY <1>1, NextEntry
<1> HIDE DEF e, t
<1>3. \A id \in DOMAIN ends : ends[id] \in Logs
  BY DEF Inv, Types
<1>4. /\ DOMAIN ends' = DOMAIN ends \union {e.id}
      /\ \A id \in DOMAIN ends : ends'[id] = ends[id]
      /\ \A id \in DOMAIN ends' : ends'[id] \in Logs
  <2> DEFINE log == Announced(ends, {e.id})
  <2>1. /\ DOMAIN log = DOMAIN ends \union {e.id}
        /\ \A id \in DOMAIN ends : log[id] = ends[id]
        /\ \A id \in DOMAIN log : log[id] \in Logs
    BY <1>3, AnnouncedLogs
  <2>2. ends' = log
    BY <1>1
  <2> HIDE DEF log
  <2> QED
    BY <2>1, <2>2
<1>5. /\ queue' \in [Runs -> Seq(Entries)] /\ queue'[r] = t
      /\ step' \in [Runs -> Entries] /\ step'[r] = e
      /\ \A o \in Runs \ {r} : queue'[o] = queue[o] /\ step'[o] = step[o]
  <2>1. queue \in [Runs -> Seq(Entries)] /\ step \in [Runs -> Entries]
    BY DEF Inv, Types
  <2> HIDE DEF Entries
  <2> QED
    BY <1>1, <1>2, <2>1
<1>6. QueueInv(r)'
  BY <1>1, <1>2, <1>5 DEF QueueInv
<1>7. (Held(r)' => Held(r)) /\ ~ComesBack(r)'
  BY <1>1, <1>2, <1>5 DEF Held, ComesBack
<1>8. MapInv(r)' /\ LogInv(r)'
  BY <1>1, <1>2, <1>4, <1>7, NothingNew DEF Inv
<1>9. Types'
  BY <1>1, <1>4, <1>5 DEF Inv, Types
<1>10. Started'
  BY <1>4, <1>5 DEF Inv, Started
<1>11. Apart(r)
  <2>1. \A o \in Runs \ {r} : Parent(o) # e.id
    BY <1>2, OthersAreNotNamed
  <2>2. parentMap' = parentMap /\ found' = found /\ verdict' = verdict
    BY <1>1
  <2> QED
    BY <1>4, <1>5, <2>1, <2>2 DEF Apart
<1> QED
  BY <1>6, <1>8, <1>9, <1>10, <1>11 DEF Keeps, RunInv

(***************************************************************************)
(* An aggregate step takes the siblings with it: the exchange the source   *)
(* sent is not among them, as it has no group.                             *)
(***************************************************************************)
LEMMA TakeJoinKeeps ==
  ASSUME ConstantsOK, Inv, NEW r \in Runs, TakeJoin(r)
  PROVE  Keeps(r)
<1> DEFINE e == Head(queue[r])
           P == Parent(r)
           t == Tail(queue[r])
           group == Last(e.path)
           rest == Taken(t, group)
           siblings == {q \in ToSet(t) : InGroup(q, group)}
           joined == {e.id} \union {q.id : q \in siblings}
<1>1. /\ Ready(r) /\ e.steps # <<>> /\ Head(e.steps) = "aggregate" /\ e.path # <<>>
      /\ queue' = [queue EXCEPT ![r] = rest]
      /\ step' = [step EXCEPT ![r] = e]
      /\ found' = [found EXCEPT ![r] = group \in parentMap]
      /\ ends' = Ended(Announced(ends, {e.id}), joined, "completed")
      /\ UNCHANGED <<route, parentMap, verdict>>
  BY DEF TakeJoin
<1>2. /\ verdict[r] = "running" /\ P \in DOMAIN ends /\ step[r] = Idle
      /\ e \in Entries /\ Sound(r, e) /\ e.id[1] = r
      /\ t \in Seq(Entries) /\ AllSound(r, t) /\ Lone(r, t)
      /\ Has(r, t) => Held(r)
  BY <1>1, NextEntry
<1>2a. e.id # P
  BY <1>1, NextEntry
<1> HIDE DEF e, t
<1>3. /\ rest \in Seq(Entries) /\ AllSound(r, rest) /\ Lone(r, rest)
      /\ Has(r, rest) => Held(r)
  BY <1>2, TakenKeeps
<1>4. ASSUME NEW id \in joined
      PROVE  id # P /\ id[1] = r
  <2>1. CASE id = e.id
    BY <1>2, <1>2a, <2>1
  <2>2. ASSUME NEW q \in ToSet(t), InGroup(q, group), id = q.id
        PROVE  id # P /\ id[1] = r
    <3>1. PICK i \in 1..Len(t) : q = t[i]
      BY <1>2 DEF ToSet
    <3>2. Sound(r, q) /\ q \in Entries
      BY <1>2, <3>1, ElementOfSeq DEF AllSound
    <3>3. /\ q.id \in Ids /\ Len(q.id) >= 1 /\ q.id[1] = r
          /\ Len(q.id) = 1 => q.path = <<>>
      BY <3>2 DEF Sound, Entries, Ids
    <3>4. q.path # <<>>
      BY <2>2 DEF InGroup
    <3> QED
      BY <2>2, <3>3, <3>4, ParentsName DEF ConstantsOK
  <2> QED
    BY <2>1, <2>2
<1>5. e.id \in joined
  OBVIOUS
<1> HIDE DEF joined, rest, group
<1>6. \A id \in DOMAIN ends : ends[id] \in Logs
  BY DEF Inv, Types
<1>7. /\ DOMAIN ends' = DOMAIN ends \union joined
      /\ \A id \in DOMAIN ends \ joined : ends'[id] = ends[id]
      /\ \A id \in DOMAIN ends' : ends'[id] \in Logs
  <2> DEFINE told == Announced(ends, {e.id})
             log == Ended(told, joined, "completed")
  <2>1. /\ DOMAIN told = DOMAIN ends \union {e.id}
        /\ \A id \in DOMAIN ends : told[id] = ends[id]
        /\ \A id \in DOMAIN told : told[id] \in Logs
    BY <1>6, AnnouncedLogs
  <2> HIDE DEF told
  <2>2. "completed" \in {"split"} \union Verdicts
    BY DEF Verdicts
  <2>3. /\ DOMAIN log = DOMAIN told \union joined
        /\ \A id \in DOMAIN told \ joined : log[id] = told[id]
        /\ \A id \in DOMAIN log : log[id] \in Logs
    BY <2>1, <2>2, EndedLogs
  <2>4. ends' = log
    BY <1>1 DEF told
  <2> HIDE DEF log
  <2> QED
    BY <1>5, <2>1, <2>3, <2>4
<1>8. /\ queue' \in [Runs -> Seq(Entries)] /\ queue'[r] = rest
      /\ step' \in [Runs -> Entries] /\ step'[r] = e
      /\ found' \in [Runs -> BOOLEAN] /\ (found'[r] <=> group \in parentMap)
      /\ \A o \in Runs \ {r} : /\ queue'[o] = queue[o] /\ step'[o] = step[o]
                               /\ found'[o] = found[o]
  <2>1. /\ queue \in [Runs -> Seq(Entries)] /\ step \in [Runs -> Entries]
        /\ found \in [Runs -> BOOLEAN]
    BY DEF Inv, Types
  <2>2. /\ queue' \in [Runs -> Seq(Entries)] /\ queue'[r] = rest
        /\ \A o \in Runs \ {r} : queue'[o] = queue[o]
    BY <1>1, <1>3, <2>1
  <2>3. /\ step' \in [Runs -> Entries] /\ step'[r] = e
        /\ \A o \in Runs \ {r} : step'[o] = step[o]
    <3> HIDE DEF Entries
    <3> QED
      BY <1>1, <1>2, <2>1
  <2>4. /\ found' \in [Runs -> BOOLEAN] /\ (found'[r] <=> group \in parentMap)
        /\ \A o \in Runs \ {r} : found'[o] = found[o]
    <3> DEFINE b == group \in parentMap
    <3>1. found' = [found EXCEPT ![r] = b] /\ b \in BOOLEAN
      BY <1>1
    <3> HIDE DEF b
    <3>2. found'[r] = b
      BY <2>1, <3>1
    <3>3. found' \in [Runs -> BOOLEAN] /\ \A o \in Runs \ {r} : found'[o] = found[o]
      BY <2>1, <3>1
    <3>4. found'[r] <=> group \in parentMap
      BY <3>2, Zenon DEF b
    <3> QED
      BY <3>3, <3>4
  <2> QED
    BY <2>2, <2>3, <2>4
<1>9. QueueInv(r)'
  BY <1>1, <1>2, <1>2a, <1>3, <1>8 DEF QueueInv
<1>10. /\ Held(r)' => Held(r)
       /\ Groups(r)' = Groups(r)
  BY <1>1, <1>2a, <1>3, <1>8 DEF Held, Groups
<1>11. ComesBack(r)' => group \in Groups(r)
  <2>1. group[1] = r
    <3>1. Len(e.path) \in 1..Len(e.path)
      BY <1>1, <1>2 DEF Entries
    <3> QED
      BY <1>2, <3>1 DEF Sound, group, Last
  <2> QED
    BY <1>8, <2>1 DEF ComesBack, Groups, group
<1>12. MapInv(r)'
  <2>1. \A g, h \in Groups(r) : g = h
    BY DEF Inv, RunInv, MapInv
  <2>2. Held(r) => Groups(r) = {}
    BY DEF Inv, RunInv, MapInv
  <2>3. verdict'[r] = "running"
    BY <1>1, <1>2
  <2>4. step'[r].path = e.path
    BY <1>8
  <2>5. ComesBack(r)' => ~Held(r)' /\ \A g \in Groups(r)' : g = Last(step'[r].path)
    BY <1>10, <1>11, <2>1, <2>2, <2>4 DEF group
  <2> QED
    BY <1>10, <2>1, <2>2, <2>3, <2>5 DEF MapInv
<1>13. LogInv(r)'
  <2>1. P \in DOMAIN ends' /\ ends'[P] = ends[P] /\ verdict'[r] = "running"
    BY <1>1, <1>2, <1>4, <1>7
  <2>2. Held(r)' \/ Groups(r)' # {} \/ ComesBack(r)' => Unended(ends[P])
    BY <1>2, <1>10, <1>11 DEF Inv, RunInv, LogInv
  <2>3. \/ Unended(ends[P]) \/ EndedAs(ends[P], "failed") \/ EndedAs(ends[P], "dropped")
    BY <1>2 DEF Inv, RunInv, LogInv
  <2> QED
    BY <2>1, <2>2, <2>3 DEF LogInv, Verdicts
<1>14. Types'
  BY <1>1, <1>7, <1>8 DEF Inv, Types
<1>15. Started'
  BY <1>5, <1>7, <1>8 DEF Inv, Started
<1>16. Apart(r)
  <2>1. \A o \in Runs \ {r} : Parent(o) \notin joined
    BY <1>4, OthersAreNotNamed
  <2>2. parentMap' = parentMap /\ verdict' = verdict
    BY <1>1
  <2> QED
    BY <1>7, <1>8, <2>1, <2>2 DEF Apart
<1> QED
  BY <1>9, <1>12, <1>13, <1>14, <1>15, <1>16 DEF Keeps, RunInv

(***************************************************************************)
(* The exchange enters: it is the only one of its run.                     *)
(***************************************************************************)
LEMMA StartKeeps ==
  ASSUME ConstantsOK, Inv, NEW r \in Runs, Start(r)
  PROVE  Keeps(r)
<1> DEFINE P == Parent(r)
           first == Entry(P, <<>>, route[r].steps)
           q == <<first>>
<1>1. /\ verdict[r] = "idle"
      /\ verdict' = [verdict EXCEPT ![r] = "running"]
      /\ queue' = [queue EXCEPT ![r] = q]
      /\ ends' = Announced(ends, {P})
      /\ UNCHANGED <<route, step, parentMap, found>>
  BY DEF Start
<1>2. step[r] = Idle /\ P \notin DOMAIN ends /\ Groups(r) = {}
  BY <1>1 DEF Inv, RunInv, QueueInv, MapInv, LogInv
<1>3. r \in Nat /\ P \in Ids /\ Len(P) = 1 /\ P[1] = r /\ P # Idle.id
  <2>1. r \in Nat
    BY DEF ConstantsOK
  <2>2. P \in Ids /\ Len(P) = 1 /\ P[1] = r
    BY <2>1 DEF Parent, Ids
  <2> QED
    BY <2>1, <2>2 DEF Idle, Entry
<1>4. first \in Entries /\ first.id = P /\ first.path = <<>>
  <2>1. route[r].steps \in Seq(Kinds)
    BY DEF Inv, Types, ConstantsOK
  <2> QED
    BY <1>3, <2>1 DEF Entry, Entries, Ids
<1> HIDE DEF first
<1>5. Sound(r, first)
  BY <1>3, <1>4 DEF Sound
<1>6. q \in Seq(Entries) /\ AllSound(r, q) /\ Lone(r, q)
  BY <1>4, <1>5, OneEntry
<1> HIDE DEF q
<1>7. \A id \in DOMAIN ends : ends[id] \in Logs
  BY DEF Inv, Types
<1>8. /\ DOMAIN ends' = DOMAIN ends \union {P}
      /\ \A id \in DOMAIN ends : ends'[id] = ends[id]
      /\ ends'[P] = <<>>
      /\ \A id \in DOMAIN ends' : ends'[id] \in Logs
  <2> DEFINE log == Announced(ends, {P})
  <2>1. /\ DOMAIN log = DOMAIN ends \union {P}
        /\ \A id \in DOMAIN ends : log[id] = ends[id]
        /\ \A id \in {P} \ DOMAIN ends : log[id] = <<>>
        /\ \A id \in DOMAIN log : log[id] \in Logs
    BY <1>7, AnnouncedLogs
  <2>2. ends' = log
    BY <1>1
  <2> HIDE DEF log
  <2> QED
    BY <1>2, <2>1, <2>2
<1>9. /\ queue' \in [Runs -> Seq(Entries)] /\ queue'[r] = q
      /\ verdict' \in [Runs -> {"idle", "running", "returned"} \union Verdicts]
      /\ verdict'[r] = "running"
      /\ \A o \in Runs \ {r} : queue'[o] = queue[o] /\ verdict'[o] = verdict[o]
  <2>1. /\ queue \in [Runs -> Seq(Entries)]
        /\ verdict \in [Runs -> {"idle", "running", "returned"} \union Verdicts]
    BY DEF Inv, Types
  <2> QED
    BY <1>1, <1>6, <2>1
<1>10. QueueInv(r)'
  BY <1>1, <1>2, <1>3, <1>6, <1>9 DEF QueueInv
<1>11. Groups(r)' = {} /\ ~ComesBack(r)'
  BY <1>1, <1>2 DEF Groups, ComesBack
<1>12. MapInv(r)'
  BY <1>11 DEF MapInv
<1>13. Unended(ends'[P])
  BY <1>8 DEF Unended
<1>14. LogInv(r)'
  BY <1>8, <1>9, <1>13 DEF LogInv, Verdicts
<1>15. Types'
  BY <1>1, <1>8, <1>9 DEF Inv, Types
<1>16. Started'
  BY <1>1, <1>8 DEF Inv, Started
<1>17. Apart(r)
  <2>1. \A o \in Runs \ {r} : Parent(o) # P
    BY <1>3, OthersAreNotNamed
  <2>2. step' = step /\ parentMap' = parentMap /\ found' = found
    BY <1>1
  <2> QED
    BY <1>8, <1>9, <2>1, <2>2 DEF Apart
<1> QED
  BY <1>10, <1>12, <1>14, <1>15, <1>16, <1>17 DEF Keeps, RunInv

(***************************************************************************)
(* The run returns, and takes groups out of the map.                       *)
(***************************************************************************)
LEMMA SweepKeeps ==
  ASSUME ConstantsOK, Inv, NEW r \in Runs, Sweep(r)
  PROVE  Keeps(r)
<1> DEFINE P == Parent(r)
<1>1. /\ verdict[r] = "running" /\ step[r] = Idle /\ queue[r] = <<>>
      /\ parentMap' \subseteq parentMap
      /\ verdict' = [verdict EXCEPT ![r] = "returned"]
      /\ UNCHANGED <<route, queue, step, found, ends>>
  BY DEF Sweep, Running
<1>2. P # Idle.id
  BY DEF Parent, Idle, Entry
<1>3. /\ verdict' \in [Runs -> {"idle", "running", "returned"} \union Verdicts]
      /\ verdict'[r] = "returned"
      /\ \A o \in Runs \ {r} : verdict'[o] = verdict[o]
  <2>1. verdict \in [Runs -> {"idle", "running", "returned"} \union Verdicts]
    BY DEF Inv, Types
  <2> QED
    BY <1>1, <2>1
<1>4. ~Has(r, <<>>) /\ AllSound(r, <<>>) /\ Lone(r, <<>>)
  BY NoEntry
<1>5. QueueInv(r)'
  BY <1>1, <1>3, <1>4 DEF QueueInv
<1>6. ~Held(r)' /\ ~ComesBack(r)' /\ Groups(r)' \subseteq Groups(r)
  BY <1>1, <1>2, <1>4 DEF Held, ComesBack, Groups
<1>7. MapInv(r)'
  BY <1>3, <1>6 DEF Inv, RunInv, MapInv
<1>8. LogInv(r)'
  BY <1>1, <1>3 DEF Inv, RunInv, LogInv, Verdicts
<1>9. Types'
  BY <1>1, <1>3 DEF Inv, Types
<1>10. Started'
  BY <1>1 DEF Inv, Started
<1>11. Apart(r)
  BY <1>1, <1>3 DEF Apart
<1> QED
  BY <1>5, <1>7, <1>8, <1>9, <1>10, <1>11 DEF Keeps, RunInv

(***************************************************************************)
(* The source is told: what the exchange ended with, or that it completed, *)
(* which is announced with it.                                             *)
(***************************************************************************)
LEMMA AnswerKeeps ==
  ASSUME ConstantsOK, Inv, NEW r \in Runs, Answer(r)
  PROVE  Keeps(r)
<1> DEFINE P == Parent(r)
           log == ends[P]
           own == ToSet(log)
           fate == IF "failed" \in own THEN "failed"
                   ELSE IF "dropped" \in own THEN "dropped" ELSE "completed"
<1>1. /\ verdict[r] = "returned"
      /\ verdict' = [verdict EXCEPT ![r] = fate]
      /\ ends' = IF fate = "completed" THEN Ended(ends, {P}, "completed") ELSE ends
      /\ UNCHANGED <<route, queue, step, parentMap, found>>
  BY DEF Answer
<1>2. /\ P \in DOMAIN ends
      /\ step[r] = Idle /\ queue[r] = <<>>
      /\ \/ Unended(log) \/ EndedAs(log, "failed") \/ EndedAs(log, "dropped")
  BY <1>1 DEF Inv, RunInv, LogInv, QueueInv
<1>3. \A id \in DOMAIN ends : ends[id] \in Logs
  BY DEF Inv, Types
<1>4. fate \in Verdicts
  BY DEF Verdicts
<1>5. \A how : how \in own <=> \E n \in 1..Len(log) : log[n] = how
  <2>1. log \in Seq({"split"} \union Verdicts)
    BY <1>2, <1>3 DEF Logs
  <2> HIDE DEF log
  <2> QED
    BY <2>1 DEF ToSet
<1>6. IF fate = "completed" THEN Unended(log) ELSE EndedAs(log, fate)
  <2> HIDE DEF log
  <2>1. CASE Unended(log)
    <3>1. "failed" \notin own /\ "dropped" \notin own
      BY <1>5, <2>1 DEF Unended
    <3> QED
      BY <2>1, <3>1
  <2>2. CASE EndedAs(log, "failed")
    <3>1. "failed" \in own
      BY <1>5, <2>2 DEF EndedAs
    <3> QED
      BY <2>2, <3>1
  <2>3. CASE EndedAs(log, "dropped")
    <3>1. "dropped" \in own /\ "failed" \notin own
      BY <1>5, <2>3 DEF EndedAs
    <3> QED
      BY <2>3, <3>1
  <2> QED
    BY <1>2, <2>1, <2>2, <2>3
<1> HIDE DEF fate, own
<1>7. /\ DOMAIN ends' = DOMAIN ends
      /\ \A id \in DOMAIN ends : id # P => ends'[id] = ends[id]
      /\ EndedAs(ends'[P], fate)
      /\ \A id \in DOMAIN ends' : ends'[id] \in Logs
  <2>1. CASE fate = "completed"
    <3> DEFINE new == Ended(ends, {P}, "completed")
    <3>1. "completed" \in Verdicts /\ "completed" \in {"split"} \union Verdicts
      BY DEF Verdicts
    <3>2. /\ DOMAIN new = DOMAIN ends \union {P}
          /\ \A id \in DOMAIN ends \ {P} : new[id] = ends[id]
          /\ \A id \in DOMAIN ends \intersect {P} : new[id] = Append(ends[id], "completed")
          /\ \A id \in DOMAIN new : new[id] \in Logs
      BY <1>3, <3>1, EndedLogs
    <3>3. ends' = new
      BY <1>1, <2>1
    <3>4. EndedAs(Append(log, "completed"), "completed")
      BY <1>2, <1>3, <1>6, <2>1, <3>1, LongerLogs
    <3> HIDE DEF new
    <3> QED
      BY <1>2, <2>1, <3>2, <3>3, <3>4
  <2>2. CASE fate # "completed"
    BY <1>1, <1>3, <1>6, <2>2
  <2> QED
    BY <2>1, <2>2
<1>8. /\ verdict' \in [Runs -> {"idle", "running", "returned"} \union Verdicts]
      /\ verdict'[r] = fate
      /\ \A o \in Runs \ {r} : verdict'[o] = verdict[o]
  <2>1. verdict \in [Runs -> {"idle", "running", "returned"} \union Verdicts]
    BY DEF Inv, Types
  <2> QED
    BY <1>1, <1>4, <2>1
<1>9. QueueInv(r)'
  BY <1>1, <1>2, <1>8 DEF Inv, RunInv, QueueInv
<1>10. (Held(r)' => Held(r)) /\ ~ComesBack(r)' /\ Groups(r)' = Groups(r)
  BY <1>1, <1>2 DEF Held, ComesBack, Groups
<1>11. MapInv(r)'
  BY <1>4, <1>8, <1>10 DEF Inv, RunInv, MapInv, Verdicts
<1>12. LogInv(r)'
  BY <1>2, <1>4, <1>7, <1>8 DEF LogInv, Verdicts
<1>13. Types'
  BY <1>1, <1>7, <1>8 DEF Inv, Types
<1>14. Started'
  BY <1>1, <1>7 DEF Inv, Started
<1>15. Apart(r)
  <2>1. \A o \in Runs \ {r} : Parent(o) # P
    BY OthersAreNotNamed DEF Parent
  <2>2. queue' = queue /\ step' = step /\ parentMap' = parentMap /\ found' = found
    BY <1>1
  <2> QED
    BY <1>7, <1>8, <2>1, <2>2 DEF Apart
<1> QED
  BY <1>9, <1>11, <1>12, <1>13, <1>14, <1>15 DEF Keeps, RunInv

-----------------------------------------------------------------------------
(***************************************************************************)
(* The run that moves keeps the invariant of OneVerdict.                   *)
(***************************************************************************)
LEMMA RunKeeps ==
  ASSUME ConstantsOK, Inv, NEW r \in Runs, Start(r) \/ Loop(r)
  PROVE  Keeps(r)
BY StartKeeps, TakeDoneKeeps, TakeStepKeeps, TakeJoinKeeps, GoingOnKeeps, EndingKeeps,
   SplitKeeps, JoinKeeps, HandleKeeps, SweepKeeps, AnswerKeeps
DEF Loop, Settle

(***************************************************************************)
(* Every step keeps the invariant: the run that moves, and all others.     *)
(***************************************************************************)
LEMMA InvStep ==
  ASSUME ConstantsOK, Inv, [Next]_vars
  PROVE  Inv'
<1>1. CASE UNCHANGED vars
  BY <1>1 DEF vars, Inv, Types, Started, RunInv, QueueInv, MapInv, LogInv, Held, Groups,
              ComesBack
<1>2. ASSUME NEW r \in Runs, Start(r) \/ Loop(r)
      PROVE  Inv'
  <2>1. Keeps(r)
    BY <1>2, RunKeeps
  <2>2. \A o \in Runs \ {r} : RunInv(o)'
    BY <2>1, ApartKeeps DEF Keeps, Inv
  <2> QED
    BY <2>1, <2>2 DEF Keeps, Inv
<1> QED
  BY <1>1, <1>2 DEF Next

(***************************************************************************)
(* Before anything has entered there is nothing to break it.               *)
(***************************************************************************)
LEMMA InitInv == ASSUME ConstantsOK, Init PROVE Inv
<1>1. Idle \in Entries /\ \A r \in Runs : Idle.id # Parent(r)
  BY DEF Idle, Entry, Entries, Parent
<1>2. Types
  <2>1. step \in [Runs -> Entries]
    BY <1>1 DEF Init
  <2> QED
    BY <2>1 DEF Init, Types
<1>3. Started
  BY DEF Init, Started
<1>4. ASSUME NEW r \in Runs
      PROVE  RunInv(r)
  <2>1. /\ queue[r] = <<>> /\ step[r] = Idle /\ verdict[r] = "idle" /\ parentMap = {}
        /\ DOMAIN ends = {}
    BY DEF Init
  <2>2. ~Has(r, <<>>) /\ AllSound(r, <<>>) /\ Lone(r, <<>>)
    BY NoEntry
  <2>3. QueueInv(r)
    BY <1>1, <2>1, <2>2 DEF QueueInv
  <2>4. ~Held(r) /\ ~ComesBack(r) /\ Groups(r) = {}
    BY <1>1, <2>1, <2>2 DEF Held, ComesBack, Groups
  <2>5. MapInv(r) /\ LogInv(r)
    BY <2>1, <2>4 DEF MapInv, LogInv, Verdicts
  <2> QED
    BY <2>3, <2>5 DEF RunInv
<1> QED
  BY <1>2, <1>3, <1>4 DEF Inv

(***************************************************************************)
(* One outcome: however its children, its joins and the error handler      *)
(* ended, the exchange a source sent ends once, and the source is told     *)
(* that end.                                                               *)
(***************************************************************************)
THEOREM SourceIsToldOneOutcome == ASSUME ConstantsOK PROVE Spec => []OneVerdict
<1>1. Init => Inv
  BY InitInv
<1>2. Inv /\ [Next]_vars => Inv'
  BY InvStep
<1>3. Inv => OneVerdict
  <2> SUFFICES ASSUME Inv, NEW r \in Runs, verdict[r] \in Verdicts
               PROVE  \E n \in DOMAIN ends[Parent(r)] :
                        /\ ends[Parent(r)][n] = verdict[r]
                        /\ \A m \in DOMAIN ends[Parent(r)] \ {n} : ends[Parent(r)][m] = "split"
    BY DEF OneVerdict
  <2> DEFINE log == ends[Parent(r)]
  <2>1. EndedAs(log, verdict[r]) /\ Parent(r) \in DOMAIN ends
    BY DEF Inv, RunInv, LogInv, Verdicts
  <2>2. DOMAIN log = 1..Len(log)
    BY <2>1 DEF Inv, Types, Logs
  <2> HIDE DEF log
  <2>3. \E n \in DOMAIN log :
          log[n] = verdict[r] /\ \A m \in DOMAIN log \ {n} : log[m] = "split"
    BY <2>1, <2>2 DEF EndedAs
  <2> QED
    BY <2>3 DEF log
<1> QED
  BY <1>1, <1>2, <1>3, PTL DEF Spec

-----------------------------------------------------------------------------
(***************************************************************************)
(* That no exchange is lost.  Whoever has entered and has no event yet is  *)
(* in the queue or executes; only the exchange the source sent may leave   *)
(* both without one, as the answer is its event.                           *)
(***************************************************************************)
In(q, id) == \E i \in 1..Len(q) : q[i].id = id

Lost(r) ==
  {id \in DOMAIN ends :
     /\ id[1] = r /\ ends[id] = <<>> /\ id # Parent(r)
     /\ ~In(queue[r], id) /\ step[r].id # id}

Named == \A id \in DOMAIN ends :
  id \in Ids /\ Len(id) >= 1 /\ id[1] \in Runs /\ verdict[id[1]] # "idle"

(* A join has announced its child as completed, and a split has left none. *)
Joined(r) ==
  step[r] # Idle /\ Head(step[r].steps) = "aggregate" /\ step[r].path # <<>> =>
    ends[step[r].id] # <<>>

NobodyIsLost(r) == route[r].handler = "none" /\ verdict[r] # "idle" => Lost(r) = {}

FoundInv == Named /\ \A r \in Runs : Joined(r) /\ NobodyIsLost(r)

(***************************************************************************)
(* What a queue has, it has until it is taken.                             *)
(***************************************************************************)
LEMMA StaysQueued ==
  ASSUME NEW q \in Seq(Entries), NEW id
  PROVE  /\ q # <<>> /\ In(q, id) => id = Head(q).id \/ In(Tail(q), id)
         /\ \A more \in Seq(Entries) : In(q, id) \/ In(more, id) => In(q \o more, id)
         /\ \A group : In(q, id) =>
              \/ In(Taken(q, group), id)
              \/ \E i \in 1..Len(q) : InGroup(q[i], group) /\ q[i].id = id
<1>1. ASSUME q # <<>>, In(q, id)
      PROVE  id = Head(q).id \/ In(Tail(q), id)
  <2> DEFINE t == Tail(q)
  <2>1. /\ Head(q) = q[1] /\ Len(q) \in Nat \ {0} /\ Len(t) = Len(q) - 1
        /\ \A i \in 1..Len(t) : t[i] = q[i + 1]
    BY <1>1, HeadTailProperties
  <2>2. PICK i \in 1..Len(q) : q[i].id = id
    BY <1>1 DEF In
  <2> HIDE DEF t
  <2>3. CASE i = 1
    BY <2>1, <2>2, <2>3
  <2>4. CASE i # 1
    <3>1. i - 1 \in 1..Len(t) /\ (i - 1) + 1 = i
      BY <2>1, <2>4
    <3>2. t[i - 1] = q[i]
      BY <2>1, <3>1
    <3>3. In(t, id)
      BY <2>2, <3>1, <3>2 DEF In
    <3> QED
      BY <3>3 DEF t
  <2> QED
    BY <2>3, <2>4
<1>2. ASSUME NEW more \in Seq(Entries), In(q, id) \/ In(more, id)
      PROVE  In(q \o more, id)
  <2> DEFINE t == q \o more
  <2>1. /\ Len(t) = Len(q) + Len(more) /\ Len(q) \in Nat /\ Len(more) \in Nat
        /\ \A i \in 1..Len(t) : t[i] = IF i <= Len(q) THEN q[i] ELSE more[i - Len(q)]
    BY ConcatProperties
  <2> HIDE DEF t
  <2>2. ASSUME NEW i \in 1..Len(q), q[i].id = id
        PROVE  In(t, id)
    <3>1. i \in 1..Len(t) /\ t[i] = q[i]
      BY <2>1
    <3> QED
      BY <2>2, <3>1 DEF In
  <2>3. ASSUME NEW i \in 1..Len(more), more[i].id = id
        PROVE  In(t, id)
    <3>1. Len(q) + i \in 1..Len(t) /\ ~(Len(q) + i <= Len(q)) /\ (Len(q) + i) - Len(q) = i
      BY <2>1
    <3>2. t[Len(q) + i] = more[i]
      BY <2>1, <3>1
    <3> QED
      BY <2>3, <3>1, <3>2 DEF In
  <2>4. In(t, id)
    BY <1>2, <2>2, <2>3 DEF In
  <2> QED
    BY <2>4 DEF t
<1>3. ASSUME NEW group, In(q, id)
      PROVE  \/ In(Taken(q, group), id)
             \/ \E i \in 1..Len(q) : InGroup(q[i], group) /\ q[i].id = id
  <2> DEFINE places == {i \in DOMAIN q : ~InGroup(q[i], group)}
             t == Taken(q, group)
  <2>1. places \in SUBSET (1..Len(q)) /\ t = Picked(q, places)
    BY DEF Taken
  <2>2. PICK i \in 1..Len(q) : q[i].id = id
    BY <1>3 DEF In
  <2>3. CASE ~InGroup(q[i], group)
    <3>1. i \in places
      BY <2>3
    <3> HIDE DEF places, t
    <3>2. PICK k \in 1..Len(t) : t[k] = q[i]
      BY <2>1, <3>1, EachPlaceIsPicked
    <3>3. In(t, id)
      BY <2>2, <3>2 DEF In
    <3> QED
      BY <3>3 DEF t
  <2> QED
    BY <2>2, <2>3
<1> QED
  BY <1>1, <1>2, <1>3

(***************************************************************************)
(* The logs of a run grow, and those of the others do not.                 *)
(***************************************************************************)
Grows(r) ==
  /\ \A id \in DOMAIN ends :
       /\ id \in DOMAIN ends'
       /\ id[1] # r => ends'[id] = ends[id]
       /\ ends[id] # <<>> => ends'[id] # <<>>
  /\ \A id \in DOMAIN ends' :
       id \in DOMAIN ends \/ (id \in Ids /\ Len(id) >= 1 /\ id[1] = r)

(***************************************************************************)
(* An end grows the logs it is written to.                                 *)
(***************************************************************************)
LEMMA EndsGrow ==
  ASSUME Inv, NEW r, NEW ids, \A id \in ids : id \in Ids /\ Len(id) >= 1 /\ id[1] = r,
         NEW how, ends' = Ended(ends, ids, how)
  PROVE  /\ Grows(r)
         /\ DOMAIN ends' = DOMAIN ends \union ids
         /\ \A id \in ids : ends'[id] # <<>>
         /\ \A id \in DOMAIN ends \ ids : ends'[id] = ends[id]
<1> DEFINE log == Ended(ends, ids, how)
<1>1. \A id \in DOMAIN ends : ends[id] \in Seq({"split"} \union Verdicts)
  BY DEF Inv, Types, Logs
<1>2. \A S, l : l \in Seq(S) => Append(l, how) # <<>>
  <2> SUFFICES ASSUME NEW S, NEW l \in Seq(S)
               PROVE  Append(l, how) # <<>>
    OBVIOUS
  <2>1. l \in Seq(S \union {how}) /\ how \in S \union {how}
    OBVIOUS
  <2> QED
    BY <2>1, AppendProperties
<1>3. /\ DOMAIN log = DOMAIN ends \union ids
      /\ \A id \in DOMAIN ends \ ids : log[id] = ends[id]
      /\ \A id \in ids : log[id] # <<>>
  <2>1. Append(<<>>, how) # <<>>
    OBVIOUS
  <2>2. \A id \in ids : log[id] = Append(IF id \in DOMAIN ends THEN ends[id] ELSE <<>>, how)
    BY DEF Ended
  <2>3. \A id \in ids \intersect DOMAIN ends : Append(ends[id], how) # <<>>
    BY <1>1, <1>2
  <2>4. DOMAIN log = DOMAIN ends \union ids /\ \A id \in DOMAIN ends \ ids : log[id] = ends[id]
    BY DEF Ended
  <2> HIDE DEF log
  <2> QED
    BY <2>1, <2>2, <2>3, <2>4
<1>4. ends' = log
  OBVIOUS
<1> HIDE DEF log
<1> QED
  BY <1>3, <1>4 DEF Grows

(***************************************************************************)
(* What a step of run r has to show so that nobody is lost.                *)
(***************************************************************************)
LEMMA FoundFrame ==
  ASSUME Inv, FoundInv, NEW r \in Runs, Apart(r), Grows(r), route' = route,
         verdict'[r] # "idle", Joined(r)', NobodyIsLost(r)'
  PROVE  FoundInv'
<1>1. Named'
  BY DEF FoundInv, Named, Grows, Apart
<1>2. ASSUME NEW o \in Runs \ {r}
      PROVE  Joined(o)' /\ NobodyIsLost(o)'
  <2>1. queue'[o] = queue[o] /\ step'[o] = step[o] /\ verdict'[o] = verdict[o]
    BY DEF Apart
  <2>2. Joined(o) /\ NobodyIsLost(o)
    BY DEF FoundInv
  <2>3. Lost(o)' \subseteq Lost(o)
    <3> SUFFICES ASSUME NEW id \in Lost(o)'
                 PROVE  id \in Lost(o)
      OBVIOUS
    <3>1. id \in DOMAIN ends' /\ id[1] = o /\ ends'[id] = <<>>
      BY DEF Lost
    <3>2. id \in DOMAIN ends /\ ends[id] = <<>>
      BY <3>1 DEF Grows
    <3> QED
      BY <2>1, <3>2 DEF Lost
  <2>4. NobodyIsLost(o)'
    BY <2>1, <2>2, <2>3 DEF NobodyIsLost
  <2>5. Joined(o)'
    <3>1. ASSUME step[o] # Idle, ends[step[o].id] # <<>>
          PROVE  ends'[step[o].id] # <<>>
      BY <3>1 DEF Grows, Inv, Started
    <3> QED
      BY <2>1, <2>2, <3>1 DEF Joined
  <2> QED
    BY <2>4, <2>5
<1> QED
  BY <1>1, <1>2 DEF FoundInv

(***************************************************************************)
(* A step settles: its exchange is scheduled again or has got an event.    *)
(***************************************************************************)
LEMMA SettledIsFound ==
  ASSUME ConstantsOK, Inv, FoundInv, NEW r \in Runs, step[r] # Idle,
         NEW more \in Seq(Entries), Schedules(r, more),
         Apart(r), Grows(r), DOMAIN ends' = DOMAIN ends,
         route' = route, verdict' = verdict,
         In(more, step[r].id) \/ ends'[step[r].id] # <<>>
  PROVE  FoundInv'
<1>1. /\ queue \in [Runs -> Seq(Entries)] /\ step \in [Runs -> Entries]
      /\ queue[r] \in Seq(Entries) /\ verdict[r] = "running"
  BY Executing DEF Inv, Types
<1>2. queue'[r] = queue[r] \o more /\ step'[r] = Idle
  BY <1>1 DEF Schedules
<1>3. Joined(r)'
  BY <1>2 DEF Joined
<1>4. ASSUME route[r].handler = "none", NEW id \in Lost(r)'
      PROVE  FALSE
  <2>1. /\ id \in DOMAIN ends /\ id[1] = r /\ ends'[id] = <<>> /\ id # Parent(r)
        /\ ~In(queue[r] \o more, id)
    BY <1>2, <1>4 DEF Lost
  <2>2. ends[id] = <<>>
    BY <2>1 DEF Grows
  <2>3. ~In(queue[r], id) /\ ~In(more, id)
    BY <1>1, <2>1, StaysQueued
  <2>4. Lost(r) = {}
    BY <1>1, <1>4 DEF FoundInv, NobodyIsLost
  <2>5. step[r].id = id
    BY <2>1, <2>2, <2>3, <2>4 DEF Lost
  <2> QED
    BY <2>1, <2>3, <2>5
<1>5. NobodyIsLost(r)'
  BY <1>4 DEF NobodyIsLost
<1>6. verdict'[r] # "idle"
  BY <1>1
<1> QED
  BY <1>3, <1>5, <1>6, FoundFrame

(***************************************************************************)
(* So it is with every way a step can settle without the error handler.    *)
(***************************************************************************)
LEMMA SettlingIsFound ==
  ASSUME ConstantsOK, Inv, FoundInv, NEW r \in Runs, Keeps(r),
         \/ Continue(r) \/ Complete(r) \/ Branch(r) \/ Drop(r) \/ Split(r) \/ Join(r)
         \/ Fail(r)
  PROVE  FoundInv'
<1>1. step[r] # Idle /\ Apart(r)
  BY DEF Continue, Complete, Branch, Drop, Split, Join, Fail, Throws, Kind, Keeps
<1> DEFINE e == step[r]
<1>2. /\ e \in Entries /\ e.id \in Ids /\ Len(e.id) >= 1 /\ e.id[1] = r
      /\ e.id \in DOMAIN ends /\ Rest(r) \in Seq(Kinds)
  BY <1>1, Executing
<1>3. ASSUME NEW how, ends' = Ended(ends, {e.id}, how)
      PROVE  Grows(r) /\ DOMAIN ends' = DOMAIN ends /\ ends'[e.id] # <<>>
  <2> DEFINE ids == {e.id}
  <2>1. ends' = Ended(ends, ids, how) /\ \A id \in ids : id = e.id
    BY <1>3
  <2>2. \A id \in ids : id \in Ids /\ Len(id) >= 1 /\ id[1] = r
    BY <1>2
  <2>3. e.id \in ids /\ DOMAIN ends \union ids = DOMAIN ends
    BY <1>2
  <2> HIDE DEF ids, e
  <2>4. Grows(r) /\ DOMAIN ends' = DOMAIN ends \union ids /\ \A id \in ids : ends'[id] # <<>>
    BY <2>1, <2>2, EndsGrow
  <2> QED
    BY <2>3, <2>4
<1>4. CASE Continue(r) \/ Complete(r) \/ Branch(r)
  <2>1. PICK steps \in Seq(Kinds) :
          Schedules(r, <<[step[r] EXCEPT !.steps = steps]>>) /\ UNCHANGED <<route, verdict, ends>>
    <3>1. <<>> \in Seq(Kinds) /\ \A b \in Branches : b \o Rest(r) \in Seq(Kinds)
      BY <1>2, ConcatProperties DEF ConstantsOK
    <3> QED
      BY <1>2, <1>4, <3>1 DEF Continue, Complete, Branch
  <2> DEFINE again == [e EXCEPT !.steps = steps]
             more == <<again>>
  <2>2. again \in Entries /\ again.id = e.id
    BY <1>2 DEF Entries
  <2> HIDE DEF again
  <2>3. more \in Seq(Entries) /\ Len(more) = 1 /\ more[1] = again
    BY <2>2
  <2> HIDE DEF more
  <2>4. In(more, e.id)
    BY <2>2, <2>3 DEF In
  <2>5. Schedules(r, more)
    BY <2>1 DEF more, again
  <2>6. Grows(r)
    BY <2>1 DEF Grows
  <2> QED
    BY <1>1, <2>1, <2>3, <2>4, <2>5, <2>6, SettledIsFound
<1>5. CASE Drop(r) \/ Fail(r)
  <2>1. PICK how : ends' = Ended(ends, {e.id}, how)
    BY <1>5 DEF Drop, Fail
  <2>2. Schedules(r, <<>>) /\ route' = route /\ verdict' = verdict /\ <<>> \in Seq(Entries)
    BY <1>5 DEF Drop, Fail, Throws
  <2>3. Grows(r) /\ DOMAIN ends' = DOMAIN ends /\ ends'[e.id] # <<>>
    BY <1>3, <2>1
  <2> QED
    BY <1>1, <2>2, <2>3, SettledIsFound
<1>6. CASE Split(r)
  <2> DEFINE group == Group(e.id)
             Children(n) == [k \in 1..n |->
                               Entry(Child(group, k), Append(e.path, group), Rest(r))]
  <2>1. PICK n \in 0..MaxFan : Schedules(r, Children(n))
    BY <1>6 DEF Split
  <2>2. route' = route /\ verdict' = verdict /\ ends' = Ended(ends, {e.id}, "split")
    BY <1>6 DEF Split
  <2>3. Grows(r) /\ DOMAIN ends' = DOMAIN ends /\ ends'[e.id] # <<>>
    BY <1>3, <2>2
  <2>4. group \in Seq(Nat)
    <3>1. Len(ends[e.id]) \in Nat
      BY <1>2 DEF Inv, Types, Logs
    <3> QED
      BY <1>2, <3>1, AppendProperties DEF Group, Ids
  <2> HIDE DEF group
  <2>5. ASSUME NEW k \in 1..n
        PROVE  Entry(Child(group, k), Append(e.path, group), Rest(r)) \in Entries
    <3>1. Child(group, k) \in Seq(Nat)
      BY <2>4, AppendProperties DEF Child
    <3>2. Append(e.path, group) \in Seq(Seq(Nat))
      <4>1. e.path \in Seq(Seq(Nat))
        BY <1>1, Executing
      <4> QED
        BY <2>4, <4>1, AppendProperties
    <3> QED
      BY <1>2, <3>1, <3>2 DEF Entry, Entries
  <2>6. Children(n) \in Seq(Entries)
    BY <2>5 DEF ConstantsOK
  <2> HIDE DEF Children
  <2> QED
    BY <1>1, <2>1, <2>2, <2>3, <2>6, SettledIsFound
<1>7. CASE Join(r)
  <2>1. /\ ends' = ends /\ route' = route /\ verdict' = verdict
        /\ Head(e.steps) = "aggregate" /\ e.path # <<>>
    BY <1>7 DEF Join, Kind
  <2>2. ends'[e.id] # <<>> /\ Grows(r)
    BY <1>1, <2>1 DEF FoundInv, Joined, Grows
  <2>3. PICK back : Schedules(r, <<back>>)
    BY <1>7 DEF Join
  <2>4. <<back>> \in Seq(Entries)
    <3>1. queue' \in [Runs -> Seq(Entries)] /\ queue[r] \in Seq(Entries)
      BY <1>1, Executing DEF Keeps, Types
    <3>2. queue'[r] = queue[r] \o <<back>>
      BY <2>3 DEF Schedules, Inv, Types
    <3> DEFINE q == queue[r]
    <3>3. q \o <<back>> \in Seq(Entries) /\ q \in Seq(Entries)
      BY <3>1, <3>2
    <3> HIDE DEF q
    <3>4. Len(q) \in Nat /\ Len(q \o <<back>>) = Len(q) + 1
          /\ (q \o <<back>>)[Len(q) + 1] = back
      BY <3>3
    <3>5. back \in Entries
      BY <3>3, <3>4, ElementOfSeq
    <3> QED
      BY <3>5
  <2> QED
    BY <1>1, <2>1, <2>2, <2>3, <2>4, SettledIsFound
<1> QED
  BY <1>4, <1>5, <1>6, <1>7

(***************************************************************************)
(* An aggregate step ends whoever it takes out of the queue.               *)
(***************************************************************************)
LEMMA TakeJoinIsFound ==
  ASSUME ConstantsOK, Inv, FoundInv, NEW r \in Runs, Keeps(r), TakeJoin(r)
  PROVE  FoundInv'
<1> DEFINE e == Head(queue[r])
           t == Tail(queue[r])
           group == Last(e.path)
           siblings == {q \in ToSet(t) : InGroup(q, group)}
           joined == {e.id} \union {q.id : q \in siblings}
<1>1. /\ Ready(r)
      /\ queue' = [queue EXCEPT ![r] = Taken(t, group)]
      /\ step' = [step EXCEPT ![r] = e]
      /\ ends' = Ended(Announced(ends, {e.id}), joined, "completed")
      /\ route' = route /\ verdict' = verdict
  BY DEF TakeJoin
<1>2. /\ verdict[r] = "running" /\ queue[r] \in Seq(Entries) /\ queue[r] # <<>>
      /\ e \in Entries /\ e.id \in Ids /\ Len(e.id) >= 1 /\ e.id[1] = r
      /\ t \in Seq(Entries) /\ AllSound(r, t) /\ step[r] = Idle
  BY <1>1, NextEntry
<1>3. queue'[r] = Taken(t, group) /\ step'[r] = e
  BY <1>1 DEF Inv, Types
<1>4. \A i \in 1..Len(t) : InGroup(t[i], group) => t[i].id \in joined
  <2> TAKE i \in 1..Len(t)
  <2>1. t[i] \in ToSet(t)
    <3> HIDE DEF t
    <3> QED
      BY <1>2 DEF ToSet
  <2>2. \A q : q \in ToSet(t) /\ InGroup(q, group) => q.id \in joined
    OBVIOUS
  <2> HIDE DEF joined, t, group
  <2> QED
    BY <2>1, <2>2
<1>5. e.id \in joined
  OBVIOUS
<1>6. ASSUME NEW id \in joined
      PROVE  id \in Ids /\ Len(id) >= 1 /\ id[1] = r
  <2>1. CASE id = e.id
    BY <1>2, <2>1
  <2>2. ASSUME NEW q \in ToSet(t), id = q.id
        PROVE  id \in Ids /\ Len(id) >= 1 /\ id[1] = r
    <3>1. PICK i \in 1..Len(t) : q = t[i]
      BY <1>2 DEF ToSet
    <3>2. Sound(r, q) /\ q \in Entries
      BY <1>2, <3>1, ElementOfSeq DEF AllSound
    <3> QED
      BY <2>2, <3>2 DEF Sound, Entries, Ids
  <2> QED
    BY <2>1, <2>2
<1> HIDE DEF e, t, group, joined
<1>7. /\ DOMAIN ends' = DOMAIN ends \union joined
      /\ \A id \in DOMAIN ends \ joined : ends'[id] = ends[id]
      /\ \A id \in joined : ends'[id] # <<>>
  <2>1. Announced(ends, {e.id}) =
          [id \in DOMAIN ends \union {e.id} |-> IF id \in DOMAIN ends THEN ends[id] ELSE <<>>]
    BY DEF Announced
  <2> DEFINE told == Announced(ends, {e.id})
  <2>2. /\ DOMAIN told = DOMAIN ends \union {e.id}
        /\ \A id \in DOMAIN ends : told[id] = ends[id]
        /\ \A id \in DOMAIN told : told[id] \in Logs
    <3>1. \A id \in DOMAIN ends : ends[id] \in Logs
      BY DEF Inv, Types
    <3> QED
      BY <3>1, AnnouncedLogs
  <2> HIDE DEF told
  <2>3. /\ DOMAIN Ended(told, joined, "completed") = DOMAIN told \union joined
        /\ \A id \in DOMAIN told \ joined : Ended(told, joined, "completed")[id] = told[id]
        /\ \A id \in joined : Ended(told, joined, "completed")[id] # <<>>
    <3>1. /\ DOMAIN Ended(told, joined, "completed") = DOMAIN told \union joined
          /\ \A id \in DOMAIN told \ joined : Ended(told, joined, "completed")[id] = told[id]
      BY DEF Ended
    <3>2. ASSUME NEW id \in joined
          PROVE  Ended(told, joined, "completed")[id] # <<>>
      <4> DEFINE l == IF id \in DOMAIN told THEN told[id] ELSE <<>>
      <4>1. l \in Seq({"split"} \union Verdicts)
        BY <2>2 DEF Logs
      <4>2. Ended(told, joined, "completed")[id] = Append(l, "completed")
        BY DEF Ended
      <4> HIDE DEF l
      <4>3. Append(l, "completed") # <<>>
        BY <4>1, AppendProperties DEF Verdicts
      <4> QED
        BY <4>2, <4>3
    <3> QED
      BY <3>1, <3>2
  <2>4. ends' = Ended(told, joined, "completed")
    BY <1>1 DEF told
  <2> QED
    BY <1>5, <2>2, <2>3, <2>4
<1>8. Grows(r)
  BY <1>6, <1>7 DEF Grows
<1>9. Joined(r)'
  BY <1>3, <1>5, <1>7 DEF Joined
<1>10. ASSUME route[r].handler = "none", NEW id \in Lost(r)'
       PROVE  FALSE
  <2>1. /\ id \in DOMAIN ends /\ id[1] = r /\ ends'[id] = <<>> /\ id # Parent(r)
        /\ id \notin joined /\ ~In(Taken(t, group), id)
    BY <1>3, <1>7, <1>10 DEF Lost
  <2>2. ends[id] = <<>>
    BY <1>7, <2>1
  <2>3. ~In(t, id)
    BY <1>2, <1>4, <2>1, StaysQueued
  <2>4. ~In(queue[r], id)
    <3>1. id # e.id
      BY <1>5, <2>1
    <3> QED
      BY <1>2, <2>3, <3>1, StaysQueued DEF e, t
  <2>5. step[r].id # id
    <3>1. Len(id) >= 1
      BY <2>1 DEF FoundInv, Named
    <3> QED
      BY <1>2, <3>1 DEF Idle, Entry
  <2>6. Lost(r) = {}
    BY <1>1, <1>2, <1>10 DEF FoundInv, NobodyIsLost
  <2> QED
    BY <2>1, <2>2, <2>4, <2>5, <2>6 DEF Lost
<1>11. NobodyIsLost(r)'
  BY <1>1, <1>10 DEF NobodyIsLost
<1>12. verdict'[r] # "idle"
  BY <1>1, <1>2
<1> QED
  BY <1>1, <1>8, <1>9, <1>11, <1>12, FoundFrame DEF Keeps

(***************************************************************************)
(* Whoever is taken next executes, or has nothing left to do and ends.     *)
(***************************************************************************)
LEMMA TakeIsFound ==
  ASSUME ConstantsOK, Inv, FoundInv, NEW r \in Runs, Keeps(r), TakeDone(r) \/ TakeStep(r)
  PROVE  FoundInv'
<1> DEFINE e == Head(queue[r])
           t == Tail(queue[r])
<1>1. Ready(r) /\ queue' = [queue EXCEPT ![r] = t] /\ route' = route /\ verdict' = verdict
  BY DEF TakeDone, TakeStep
<1>2. /\ verdict[r] = "running" /\ queue[r] \in Seq(Entries) /\ queue[r] # <<>>
      /\ e.id \in Ids /\ Len(e.id) >= 1 /\ e.id[1] = r
      /\ t \in Seq(Entries) /\ step[r] = Idle
  BY <1>1, NextEntry
<1>3. queue'[r] = t
  BY <1>1 DEF Inv, Types
<1>4. \A id \in DOMAIN ends : ends[id] \in Logs
  BY DEF Inv, Types
<1> HIDE DEF e, t
<1>5. /\ Grows(r)
      /\ \A id \in DOMAIN ends' : id # e.id => id \in DOMAIN ends /\ ends'[id] = ends[id]
  <2>1. CASE ends' = ends
    BY <2>1 DEF Grows
  <2>2. CASE ends' = Ended(ends, {e.id}, "completed")
    <3> DEFINE ids == {e.id}
    <3>1. ends' = Ended(ends, ids, "completed") /\ \A id : id \in ids <=> id = e.id
      BY <2>2
    <3>2. \A id \in ids : id \in Ids /\ Len(id) >= 1 /\ id[1] = r
      BY <1>2
    <3> HIDE DEF ids
    <3>3. /\ Grows(r) /\ DOMAIN ends' = DOMAIN ends \union ids
          /\ \A id \in DOMAIN ends \ ids : ends'[id] = ends[id]
      BY <3>1, <3>2, EndsGrow
    <3> QED
      BY <3>1, <3>3
  <2>3. CASE ends' = Announced(ends, {e.id})
    <3> DEFINE log == Announced(ends, {e.id})
    <3>1. /\ DOMAIN log = DOMAIN ends \union {e.id}
          /\ \A id \in DOMAIN ends : log[id] = ends[id]
      BY <1>4, AnnouncedLogs
    <3>2. ends' = log
      BY <2>3
    <3> HIDE DEF log
    <3> QED
      BY <1>2, <3>1, <3>2 DEF Grows
  <2> QED
    BY <2>1, <2>2, <2>3 DEF TakeDone, TakeStep, e
<1>6. ASSUME route[r].handler = "none", NEW id \in Lost(r)', id # e.id
      PROVE  FALSE
  <2>1. /\ id \in DOMAIN ends /\ id[1] = r /\ ends[id] = <<>> /\ id # Parent(r)
        /\ ~In(t, id)
    BY <1>3, <1>5, <1>6 DEF Lost
  <2>2. ~In(queue[r], id)
    BY <1>2, <1>6, <2>1, StaysQueued DEF e, t
  <2>3. step[r].id # id
    <3>1. Len(id) >= 1
      BY <2>1 DEF FoundInv, Named
    <3> QED
      BY <1>2, <3>1 DEF Idle, Entry
  <2>4. Lost(r) = {}
    BY <1>1, <1>2, <1>6 DEF FoundInv, NobodyIsLost
  <2> QED
    BY <2>1, <2>2, <2>3, <2>4 DEF Lost
<1>7. Joined(r)' /\ e.id \notin Lost(r)'
  <2>1. CASE TakeDone(r)
    <3>1. step' = step
      BY <2>1 DEF TakeDone
    <3>2. e.id \in DOMAIN ends' /\ e.id # Parent(r) => ends'[e.id] # <<>>
      <4>1. CASE e.id # Parent(r) /\ e.id \in DOMAIN ends
        <5> DEFINE ids == {e.id}
        <5>1. ends' = Ended(ends, ids, "completed")
          BY <2>1, <4>1 DEF TakeDone, e
        <5>2. e.id \in ids /\ \A id \in ids : id \in Ids /\ Len(id) >= 1 /\ id[1] = r
          BY <1>2
        <5> HIDE DEF ids
        <5>3. \A id \in ids : ends'[id] # <<>>
          BY <5>1, <5>2, EndsGrow
        <5> QED
          BY <5>2, <5>3
      <4>2. CASE ~(e.id # Parent(r) /\ e.id \in DOMAIN ends)
        BY <2>1, <4>2 DEF TakeDone, e
      <4> QED
        BY <4>1, <4>2
    <3> QED
      BY <1>2, <3>1, <3>2 DEF Joined, Lost
  <2>2. CASE TakeStep(r)
    <3>1. step'[r] = e /\ (Head(e.steps) # "aggregate" \/ e.path = <<>>)
      BY <2>2 DEF TakeStep, Inv, Types, e
    <3> QED
      BY <3>1 DEF Joined, Lost
  <2> QED
    BY <2>1, <2>2
<1>8. NobodyIsLost(r)'
  <2>1. ASSUME route[r].handler = "none"
        PROVE  Lost(r)' = {}
    BY <1>6, <1>7, <2>1
  <2> QED
    BY <1>1, <2>1 DEF NobodyIsLost
<1>9. verdict'[r] # "idle"
  BY <1>1, <1>2
<1> QED
  BY <1>1, <1>5, <1>7, <1>8, <1>9, FoundFrame DEF Keeps

(***************************************************************************)
(* An exchange enters, its run returns or is answered for, or the error    *)
(* handler takes over: after that last step nothing is promised.           *)
(***************************************************************************)
LEMMA RunIsFound ==
  ASSUME ConstantsOK, Inv, FoundInv, NEW r \in Runs, Keeps(r),
         Start(r) \/ Sweep(r) \/ Answer(r) \/ Handle(r)
  PROVE  FoundInv'
<1> DEFINE P == Parent(r)
<1>1. /\ queue \in [Runs -> Seq(Entries)] /\ step \in [Runs -> Entries]
      /\ verdict \in [Runs -> {"idle", "running", "returned"} \union Verdicts]
      /\ \A id \in DOMAIN ends : ends[id] \in Logs
  BY DEF Inv, Types
<1>2. P \in Ids /\ Len(P) = 1 /\ P[1] = r
  BY DEF Parent, Ids, ConstantsOK
<1>3. ASSUME NEW how, NEW id \in Ids, Len(id) >= 1, id[1] = r, ends' = Ended(ends, {id}, how)
      PROVE  Grows(r) /\ \A other \in DOMAIN ends \ {id} : ends'[other] = ends[other]
  <2> DEFINE ids == {id}
  <2>1. ends' = Ended(ends, ids, how) /\ \A i : i \in ids <=> i = id
    BY <1>3
  <2>2. \A i \in ids : i \in Ids /\ Len(i) >= 1 /\ i[1] = r
    BY <1>3, <2>1
  <2> HIDE DEF ids
  <2>3. Grows(r) /\ \A other \in DOMAIN ends \ ids : ends'[other] = ends[other]
    BY <2>1, <2>2, EndsGrow
  <2> QED
    BY <2>1, <2>3
<1>4. route' = route /\ Apart(r)
  BY DEF Start, Sweep, Answer, Handle, Keeps
<1>5. CASE Start(r)
  <2>1. verdict[r] = "idle" /\ verdict'[r] = "running" /\ step' = step /\ step[r] = Idle
    BY <1>1, <1>5 DEF Start, Inv, RunInv, QueueInv
  <2>2. ends' = Announced(ends, {P})
    BY <1>5 DEF Start
  <2>3. /\ DOMAIN ends' = DOMAIN ends \union {P}
        /\ \A id \in DOMAIN ends : ends'[id] = ends[id]
    <3> DEFINE log == Announced(ends, {P})
    <3>1. /\ DOMAIN log = DOMAIN ends \union {P}
          /\ \A id \in DOMAIN ends : log[id] = ends[id]
      BY <1>1, AnnouncedLogs
    <3>2. ends' = log
      BY <2>2
    <3> HIDE DEF log
    <3> QED
      BY <3>1, <3>2
  <2>4. Grows(r)
    BY <1>2, <2>3 DEF Grows
  <2>5. Lost(r)' = {}
    <3>1. \A id \in DOMAIN ends : id[1] # r
      BY <2>1 DEF FoundInv, Named
    <3> QED
      BY <2>3, <3>1 DEF Lost
  <2>6. Joined(r)' /\ NobodyIsLost(r)'
    BY <2>1, <2>5 DEF Joined, NobodyIsLost
  <2> QED
    BY <1>4, <2>1, <2>4, <2>6, FoundFrame
<1>6. CASE Sweep(r)
  <2>1. /\ verdict[r] = "running" /\ verdict'[r] = "returned"
        /\ step' = step /\ queue' = queue /\ ends' = ends
    BY <1>1, <1>6 DEF Sweep, Running
  <2>2. Lost(r)' = Lost(r)
    BY <2>1 DEF Lost
  <2>3. Joined(r) /\ NobodyIsLost(r)
    BY DEF FoundInv
  <2>4. Joined(r)' /\ NobodyIsLost(r)' /\ Grows(r)
    BY <1>4, <2>1, <2>2, <2>3 DEF Joined, NobodyIsLost, Grows
  <2> QED
    BY <1>4, <2>1, <2>4, FoundFrame
<1>7. CASE Answer(r)
  <2>1. /\ verdict[r] = "returned" /\ verdict'[r] \in {"failed", "dropped", "completed"}
        /\ step' = step /\ queue' = queue /\ step[r] = Idle
        /\ ends' = ends \/ ends' = Ended(ends, {P}, "completed")
    BY <1>1, <1>7 DEF Answer, Inv, RunInv, QueueInv
  <2>2. Grows(r) /\ \A id \in DOMAIN ends : id # P => ends'[id] = ends[id]
    BY <1>2, <1>3, <2>1 DEF Grows
  <2>3. ASSUME NEW id \in Lost(r)'
        PROVE  id \in Lost(r)
    <3>1. id \in DOMAIN ends' /\ id # P /\ id[1] = r /\ ends'[id] = <<>>
      BY DEF Lost
    <3>2. id \in DOMAIN ends
      <4>1. P \in DOMAIN ends
        BY <2>1 DEF Inv, RunInv, LogInv
      <4>2. DOMAIN Ended(ends, {P}, "completed") = DOMAIN ends \union {P}
        BY DEF Ended
      <4> QED
        BY <2>1, <3>1, <4>1, <4>2
    <3> QED
      BY <2>1, <2>2, <3>1, <3>2 DEF Lost
  <2>4. Joined(r)' /\ NobodyIsLost(r)'
    <3>1. NobodyIsLost(r)
      BY DEF FoundInv
    <3> QED
      BY <1>4, <2>1, <2>3, <3>1 DEF Joined, NobodyIsLost
  <2> QED
    BY <1>4, <2>1, <2>2, <2>4, FoundFrame
<1>8. CASE Handle(r)
  <2>1. /\ verdict'[r] = "returned" /\ step'[r] = Idle /\ route[r].handler # "none"
    BY <1>1, <1>8 DEF Handle
  <2>2. Joined(r)' /\ NobodyIsLost(r)'
    BY <1>4, <2>1 DEF Joined, NobodyIsLost
  <2>3. Grows(r)
    <3>1. step[r] # Idle
      BY <1>8 DEF Handle, Throws, Kind
    <3>2. step[r].id \in Ids /\ Len(step[r].id) >= 1 /\ step[r].id[1] = r
      BY <3>1, Executing
    <3>3. ends' = ends \/ \E how : ends' = Ended(ends, {step[r].id}, how)
      <4>1. route[r].handler \in {"recover", "drop", "throw"}
        BY <2>1 DEF Inv, Types, ConstantsOK, Handlers
      <4> QED
        BY <1>8, <4>1 DEF Handle
    <3> QED
      BY <1>3, <3>2, <3>3 DEF Grows
  <2> QED
    BY <1>4, <2>1, <2>2, <2>3, FoundFrame
<1> QED
  BY <1>5, <1>6, <1>7, <1>8

(***************************************************************************)
(* Nobody is lost in the queue: when a run without an error handler has    *)
(* answered, every exchange it started has ended or gone on as children,   *)
(* whichever of its siblings failed and whatever other runs did to its     *)
(* groups.                                                                 *)
(***************************************************************************)
THEOREM NoExchangeIsLost == ASSUME ConstantsOK PROVE Spec => []EachChildEnds
<1>1. Init => Inv /\ FoundInv
  <2> SUFFICES ASSUME Init PROVE Inv /\ FoundInv
    OBVIOUS
  <2>1. DOMAIN ends = {} /\ \A r \in Runs : step[r] = Idle /\ verdict[r] = "idle"
    BY DEF Init
  <2>2. FoundInv
    BY <2>1 DEF FoundInv, Named, Joined, NobodyIsLost
  <2> QED
    BY <2>2, InitInv
<1>2. Inv /\ FoundInv /\ [Next]_vars => Inv' /\ FoundInv'
  <2> SUFFICES ASSUME Inv, FoundInv, [Next]_vars PROVE FoundInv'
    BY InvStep
  <2>1. CASE UNCHANGED vars
    BY <2>1 DEF vars, FoundInv, Named, Joined, NobodyIsLost, Lost, In
  <2>2. ASSUME NEW r \in Runs, Start(r) \/ Loop(r)
        PROVE  FoundInv'
    <3>1. Keeps(r)
      BY <2>2, RunKeeps
    <3> QED
      BY <2>2, <3>1, SettlingIsFound, TakeJoinIsFound, TakeIsFound, RunIsFound DEF Loop, Settle
  <2> QED
    BY <2>1, <2>2 DEF Next
<1>3. Inv /\ FoundInv => EachChildEnds
  <2> SUFFICES ASSUME Inv, FoundInv, NEW id \in DOMAIN ends,
                      verdict[Head(id)] \in Verdicts, route[Head(id)].handler = "none",
                      ends[id] = <<>>
               PROVE  FALSE
    BY DEF EachChildEnds
  <2> DEFINE r == id[1]
  <2>1. id \in Ids /\ Len(id) >= 1 /\ r \in Runs /\ Head(id) = r
    BY DEF FoundInv, Named, Ids
  <2> HIDE DEF r
  <2>2. verdict[r] \in Verdicts /\ verdict[r] # "idle" /\ verdict[r] # "running"
    BY <2>1 DEF Verdicts
  <2>3. queue[r] = <<>> /\ step[r] = Idle
    BY <2>1, <2>2 DEF Inv, RunInv, QueueInv
  <2>4. ~In(queue[r], id) /\ step[r].id # id
    BY <2>1, <2>3 DEF In, Idle, Entry
  <2>5. id = Parent(r)
    <3>1. Lost(r) = {}
      BY <2>1, <2>2 DEF FoundInv, NobodyIsLost
    <3> QED
      BY <2>4, <3>1 DEF Lost, r
  <2>6. EndedAs(ends[Parent(r)], verdict[r])
    BY <2>1, <2>2 DEF Inv, RunInv, LogInv
  <2>7. EndedAs(<<>>, verdict[r])
    BY <2>5, <2>6
  <2> QED
    BY <2>7 DEF EndedAs
<1> QED
  BY <1>1, <1>2, <1>3, PTL DEF Spec

-----------------------------------------------------------------------------
(***************************************************************************)
(* The types.  TypeOK says that an entry is of an exchange that was        *)
(* started, or of a child whose parent was; a join takes the name from a   *)
(* path, so the groups on a path are of started exchanges too.             *)
(***************************************************************************)
Knows(begun, e) ==
  /\ e.id \in begun \/ ParentOf(Front(e.id)) \in begun
  /\ \A k \in 1..Len(e.path) : ParentOf(e.path[k]) \in begun

AllKnown(begun, q) == \A i \in 1..Len(q) : Knows(begun, q[i])

KnownIn(r) ==
  /\ AllKnown(DOMAIN ends, queue[r])
  /\ step[r] # Idle => Knows(DOMAIN ends, step[r])

(***************************************************************************)
(* What is taken from a queue that is known is known, and so is what comes *)
(* of two.                                                                 *)
(***************************************************************************)
LEMMA TailIsKnown ==
  ASSUME NEW begun, NEW q \in Seq(Entries), q # <<>>, AllKnown(begun, q)
  PROVE  Knows(begun, Head(q)) /\ AllKnown(begun, Tail(q))
<1>1. /\ Head(q) = q[1] /\ Len(q) \in Nat \ {0} /\ Len(Tail(q)) = Len(q) - 1
      /\ \A i \in 1..Len(Tail(q)) : Tail(q)[i] = q[i + 1]
  BY HeadTailProperties
<1>2. 1 \in 1..Len(q) /\ \A i \in 1..Len(Tail(q)) : i + 1 \in 1..Len(q)
  BY <1>1
<1> QED
  BY <1>1, <1>2 DEF AllKnown

(***************************************************************************)
(* A group is taken out.                                                   *)
(***************************************************************************)
LEMMA TakenIsKnown ==
  ASSUME NEW begun, NEW q \in Seq(Entries), AllKnown(begun, q), NEW group
  PROVE  AllKnown(begun, Taken(q, group))
<1> DEFINE places == {i \in DOMAIN q : ~InGroup(q[i], group)}
           t == Taken(q, group)
<1>1. places \in SUBSET (1..Len(q)) /\ t = Picked(q, places)
  BY DEF Taken
<1> HIDE DEF places, t
<1>2. Len(t) = Cardinality(places)
  BY <1>1, PickedHasPlaces
<1>3. PICK place \in [1..Len(t) -> places] : \A k \in 1..Len(t) : t[k] = q[place[k]]
  BY <1>1, <1>2, PickedHasPlaces
<1>4. \A k \in 1..Len(t) : place[k] \in 1..Len(q) /\ t[k] = q[place[k]]
  BY <1>1, <1>3
<1> QED
  BY <1>4 DEF AllKnown, t

(***************************************************************************)
(* What a step schedules.                                                  *)
(***************************************************************************)
LEMMA ScheduledIsKnown ==
  ASSUME ConstantsOK, Inv, NEW r \in Runs, step[r] # Idle, NEW begun,
         NEW more \in Seq(Entries), Schedules(r, more),
         AllKnown(begun, queue[r]), AllKnown(begun, more)
  PROVE  AllKnown(begun, queue'[r]) /\ step'[r] = Idle
<1>1. queue \in [Runs -> Seq(Entries)] /\ step \in [Runs -> Entries]
  BY DEF Inv, Types
<1> DEFINE q == queue[r]
           t == q \o more
<1>2. /\ Len(t) = Len(q) + Len(more) /\ Len(q) \in Nat /\ Len(more) \in Nat
      /\ \A i \in 1..Len(t) : t[i] = IF i <= Len(q) THEN q[i] ELSE more[i - Len(q)]
  BY <1>1, ConcatProperties
<1>3. queue'[r] = t /\ step'[r] = Idle
  BY <1>1 DEF Schedules
<1> HIDE DEF t, q
<1>4. ASSUME NEW i \in 1..Len(t)
      PROVE  Knows(begun, t[i])
  <2>1. \/ i \in 1..Len(q) /\ t[i] = q[i]
        \/ i - Len(q) \in 1..Len(more) /\ t[i] = more[i - Len(q)]
    BY <1>2
  <2> QED
    BY <2>1 DEF AllKnown, q
<1> QED
  BY <1>3, <1>4 DEF AllKnown

(***************************************************************************)
(* A single one.                                                           *)
(***************************************************************************)
LEMMA OneIsKnown ==
  ASSUME NEW begun, NEW e \in Entries, Knows(begun, e)
  PROVE  <<e>> \in Seq(Entries) /\ AllKnown(begun, <<e>>)
<1> DEFINE t == <<e>>
<1>1. t \in Seq(Entries) /\ Len(t) = 1 /\ t[1] = e
  OBVIOUS
<1> HIDE DEF t
<1>2. \A i \in 1..Len(t) : t[i] = e
  BY <1>1
<1> QED
  BY <1>1, <1>2 DEF AllKnown, t

(***************************************************************************)
(* Nobody who was started is forgotten, and an end is the end of somebody. *)
(***************************************************************************)
LEMMA StartedStay ==
  ASSUME ConstantsOK, Inv, NEW r \in Runs, Start(r) \/ Loop(r)
  PROVE  DOMAIN ends \subseteq DOMAIN ends'
<1>1. \A log, ids, how : DOMAIN log \subseteq DOMAIN Ended(log, ids, how)
  BY DEF Ended
<1>2. \A log, ids : DOMAIN log \subseteq DOMAIN Announced(log, ids)
  BY DEF Announced
<1>3. CASE Start(r) \/ TakeDone(r) \/ TakeStep(r)
  BY <1>1, <1>2, <1>3 DEF Start, TakeDone, TakeStep
<1>4. CASE TakeJoin(r)
  <2>1. \E id, ids : ends' = Ended(Announced(ends, {id}), ids, "completed")
    BY <1>4 DEF TakeJoin
  <2> QED
    BY <1>1, <1>2, <2>1
<1>5. CASE Settle(r) \/ Sweep(r)
  <2>1. ends' = ends \/ \E ids, how : ends' = Ended(ends, ids, how)
    <3>1. CASE Sweep(r) \/ Continue(r) \/ Complete(r) \/ Branch(r) \/ Join(r)
      BY <3>1 DEF Sweep, Continue, Complete, Branch, Join
    <3>2. CASE Drop(r) \/ Fail(r) \/ Split(r)
      BY <3>2 DEF Drop, Fail, Split
    <3>3. CASE Handle(r)
      <4>1. route[r].handler \in {"recover", "drop", "throw"} =>
              ends' = ends \/ \E ids, how : ends' = Ended(ends, ids, how)
        BY <3>3 DEF Handle
      <4>2. route[r].handler \in {"recover", "drop", "throw"}
        BY <3>3 DEF Handle, Inv, Types, ConstantsOK, Handlers
      <4> QED
        BY <4>1, <4>2
    <3> QED
      BY <1>5, <3>1, <3>2, <3>3 DEF Settle
  <2> QED
    BY <1>1, <2>1
<1>6. CASE Answer(r)
  <2>1. ends' = ends \/ \E ids, how : ends' = Ended(ends, ids, how)
    BY <1>6 DEF Answer
  <2> QED
    BY <1>1, <2>1
<1> QED
  BY <1>3, <1>4, <1>5, <1>6 DEF Loop

(***************************************************************************)
(* Who is known stays known while more are started.                        *)
(***************************************************************************)
LEMMA KnownStays ==
  ASSUME NEW begun, NEW later, begun \subseteq later
  PROVE  /\ \A e : Knows(begun, e) => Knows(later, e)
         /\ \A q : AllKnown(begun, q) => AllKnown(later, q)
<1>1. \A e : Knows(begun, e) => Knows(later, e)
  BY DEF Knows
<1> QED
  BY <1>1 DEF AllKnown

(***************************************************************************)
(* What was appended is what is left out again.                            *)
(***************************************************************************)
LEMMA FrontOfAppend ==
  ASSUME NEW S, NEW s \in Seq(S), NEW x \in S
  PROVE  Front(Append(s, x)) = s
<1> DEFINE t == Append(s, x)
<1>1. /\ t \in Seq(S) /\ Len(t) = Len(s) + 1 /\ Len(s) \in Nat
      /\ \A i \in 1..Len(s) : t[i] = s[i]
  BY AppendProperties
<1> HIDE DEF t
<1>2. /\ Front(t) \in Seq(S) /\ Len(Front(t)) = Len(t) - 1
      /\ \A k \in 1..(Len(t) - 1) : Front(t)[k] = t[k]
  <2>1. Len(t) >= 1
    BY <1>1
  <2> QED
    BY <1>1, <2>1, FrontKeeps
<1>3. Len(Front(t)) = Len(s) /\ \A k \in 1..Len(s) : Front(t)[k] = s[k]
  BY <1>1, <1>2
<1> QED
  BY <1>2, <1>3, SeqEqual DEF t

(***************************************************************************)
(* The exchange a source sends is announced as it enters.                  *)
(***************************************************************************)
LEMMA EnteringIsKnown ==
  ASSUME ConstantsOK, Inv, NEW r \in Runs, Start(r)
  PROVE  KnownIn(r)'
<1> DEFINE e == Entry(Parent(r), <<>>, route[r].steps)
<1>1. queue \in [Runs -> Seq(Entries)] /\ step[r] = Idle /\ step' = step
  BY DEF Start, Inv, Types, RunInv, QueueInv
<1>2. Parent(r) \in DOMAIN ends'
  BY DEF Start, Announced
<1>3. e \in Entries /\ e.id = Parent(r) /\ e.path = <<>>
  <2>1. route[r].steps \in Seq(Kinds)
    BY DEF Inv, Types, ConstantsOK
  <2>2. Parent(r) \in Seq(Nat)
    BY DEF Parent, ConstantsOK
  <2> QED
    BY <2>1, <2>2 DEF Entry, Entries
<1>4. queue'[r] = <<e>>
  BY <1>1 DEF Start
<1> HIDE DEF e
<1>5. Knows(DOMAIN ends', e)
  BY <1>2, <1>3 DEF Knows
<1>6. AllKnown(DOMAIN ends', <<e>>)
  BY <1>3, <1>5, OneIsKnown
<1> QED
  BY <1>1, <1>4, <1>6 DEF KnownIn

(***************************************************************************)
(* What is taken to be executed was in the queue.                          *)
(***************************************************************************)
LEMMA TakingIsKnown ==
  ASSUME ConstantsOK, Inv, NEW r \in Runs, KnownIn(r), DOMAIN ends \subseteq DOMAIN ends',
         TakeDone(r) \/ TakeStep(r) \/ TakeJoin(r)
  PROVE  KnownIn(r)'
<1> DEFINE e == Head(queue[r])
           t == Tail(queue[r])
<1>1. Ready(r)
  BY DEF TakeDone, TakeStep, TakeJoin
<1>2. /\ queue[r] \in Seq(Entries) /\ queue[r] # <<>> /\ t \in Seq(Entries)
      /\ step[r] = Idle
      /\ queue \in [Runs -> Seq(Entries)] /\ step \in [Runs -> Entries]
  BY <1>1, NextEntry DEF Inv, Types
<1>3. Knows(DOMAIN ends, e) /\ AllKnown(DOMAIN ends, t)
  BY <1>2, TailIsKnown DEF KnownIn
<1> HIDE DEF e, t
<1>4. step'[r] = Idle \/ step'[r] = e
  BY <1>2 DEF TakeDone, TakeStep, TakeJoin, e
<1>5. queue'[r] = t \/ \E group : queue'[r] = Taken(t, group)
  BY <1>2 DEF TakeDone, TakeStep, TakeJoin, t
<1>6. \A group : AllKnown(DOMAIN ends, Taken(t, group))
  BY <1>2, <1>3, TakenIsKnown
<1>7. AllKnown(DOMAIN ends, queue'[r])
  BY <1>3, <1>5, <1>6
<1> QED
  BY <1>3, <1>4, <1>7, KnownStays DEF KnownIn

(***************************************************************************)
(* The children of a split are of a parent that was started, and the group *)
(* on their path is.                                                       *)
(***************************************************************************)
LEMMA ChildrenAreKnown ==
  ASSUME ConstantsOK, Inv, NEW r \in Runs, KnownIn(r), Split(r)
  PROVE  \E more \in Seq(Entries) : Schedules(r, more) /\ AllKnown(DOMAIN ends, more)
<1> DEFINE e == step[r]
           group == Group(e.id)
<1>1. step[r] # Idle
  BY DEF Split, Kind
<1>2. PICK n \in 0..MaxFan :
        Schedules(r, [k \in 1..n |-> Entry(Child(group, k), Append(e.path, group), Rest(r))])
  BY DEF Split
<1> DEFINE more == [k \in 1..n |-> Entry(Child(group, k), Append(e.path, group), Rest(r))]
<1>3. /\ e.id \in DOMAIN ends /\ e.id \in Seq(Nat) /\ ends[e.id] \in Logs
      /\ e.path \in Seq(Seq(Nat)) /\ Rest(r) \in Seq(Kinds) /\ Knows(DOMAIN ends, e)
  BY <1>1, Executing DEF Inv, Types, KnownIn, Ids
<1>4. Len(ends[e.id]) \in Nat /\ group = Append(e.id, Len(ends[e.id]))
  BY <1>3 DEF Logs, Group
<1>5. group \in Seq(Nat) /\ ParentOf(group) = e.id
  BY <1>3, <1>4, AppendProperties, FrontOfAppend DEF ParentOf
<1> HIDE DEF group
<1>6. ASSUME NEW k \in 1..n
      PROVE  more[k] \in Entries /\ Knows(DOMAIN ends, more[k])
  <2> DEFINE id == Child(group, k)
             path == Append(e.path, group)
  <2>1. more[k] = Entry(id, path, Rest(r))
    OBVIOUS
  <2>2. id \in Seq(Nat) /\ Front(id) = group
    BY <1>5, AppendProperties, FrontOfAppend DEF Child
  <2>3. /\ path \in Seq(Seq(Nat)) /\ Len(path) = Len(e.path) + 1 /\ Len(e.path) \in Nat
        /\ path[Len(e.path) + 1] = group
        /\ \A i \in 1..Len(e.path) : path[i] = e.path[i]
    <3>1. Len(e.path) \in Nat
      BY <1>3
    <3> QED
      BY <1>3, <1>5, <3>1, AppendProperties
  <2> HIDE DEF id, path, more
  <2>4. more[k] \in Entries /\ more[k].id = id /\ more[k].path = path
    BY <1>3, <2>1, <2>2, <2>3 DEF Entry, Entries
  <2>5. \A i \in 1..Len(path) : ParentOf(path[i]) \in DOMAIN ends
    <3>1. \A i \in 1..Len(path) : i \in 1..Len(e.path) \/ i = Len(e.path) + 1
      BY <2>3
    <3> QED
      BY <1>3, <1>5, <2>3, <3>1 DEF Knows
  <2> QED
    BY <1>3, <1>5, <2>2, <2>4, <2>5 DEF Knows
<1>7. more \in Seq(Entries) /\ Len(more) = n
  <2>1. n \in Nat
    BY DEF ConstantsOK
  <2>2. more = [k \in 1..n |-> more[k]]
    OBVIOUS
  <2> HIDE DEF more
  <2> QED
    BY <1>6, <2>1, <2>2
<1>8. Schedules(r, more)
  BY <1>2
<1> HIDE DEF more
<1>9. AllKnown(DOMAIN ends, more)
  BY <1>6, <1>7 DEF AllKnown
<1> QED
  BY <1>7, <1>8, <1>9

(***************************************************************************)
(* A join goes on under the name of the parent, which the path gives.      *)
(***************************************************************************)
LEMMA JoiningIsKnown ==
  ASSUME ConstantsOK, Inv, NEW r \in Runs, KnownIn(r), Join(r)
  PROVE  \E more \in Seq(Entries) : Schedules(r, more) /\ AllKnown(DOMAIN ends, more)
<1> DEFINE e == step[r]
           group == Last(e.path)
           id == IF found[r] THEN ParentOf(group) ELSE e.id
           back == Entry(id, Front(e.path), Rest(r))
<1>1. step[r] # Idle /\ e.path # <<>> /\ Schedules(r, <<back>>)
  BY DEF Join, Kind
<1>2. /\ e.id \in DOMAIN ends /\ e.id \in Seq(Nat) /\ Sound(r, e)
      /\ e.path \in Seq(Seq(Nat)) /\ Rest(r) \in Seq(Kinds) /\ Knows(DOMAIN ends, e)
  BY <1>1, Executing DEF KnownIn, Ids
<1>3. Len(e.path) \in Nat /\ Len(e.path) >= 1 /\ Len(e.path) \in 1..Len(e.path)
  BY <1>1, <1>2
<1>4. group = e.path[Len(e.path)] /\ group \in Seq(Nat) /\ Len(group) >= 1
  <2>1. e.path[Len(e.path)] \in Seq(Nat) /\ group = e.path[Len(e.path)]
    BY <1>2, <1>3 DEF Last
  <2>2. Len(e.path[Len(e.path)]) >= 2
    BY <1>2, <1>3 DEF Sound
  <2> QED
    BY <2>1, <2>2
<1>5. ParentOf(group) \in Seq(Nat) /\ ParentOf(group) \in DOMAIN ends
  <2>1. ParentOf(e.path[Len(e.path)]) \in DOMAIN ends
    BY <1>2, <1>3 DEF Knows
  <2> HIDE DEF group
  <2> QED
    BY <1>4, <2>1, FrontKeeps DEF ParentOf
<1>6. id \in Seq(Nat) /\ id \in DOMAIN ends
  BY <1>2, <1>5
<1>7. /\ Front(e.path) \in Seq(Seq(Nat)) /\ Len(Front(e.path)) = Len(e.path) - 1
      /\ \A k \in 1..(Len(e.path) - 1) : Front(e.path)[k] = e.path[k]
  BY <1>2, <1>3, FrontKeeps
<1> HIDE DEF id, group
<1>8. back \in Entries /\ back.id = id /\ back.path = Front(e.path)
  BY <1>2, <1>6, <1>7 DEF Entry, Entries
<1> HIDE DEF back
<1>9. Knows(DOMAIN ends, back)
  <2>1. \A k \in 1..Len(Front(e.path)) : k \in 1..Len(e.path) /\ Front(e.path)[k] = e.path[k]
    BY <1>3, <1>7
  <2> QED
    BY <1>2, <1>6, <1>8, <2>1 DEF Knows
<1> QED
  BY <1>1, <1>8, <1>9, OneIsKnown

(***************************************************************************)
(* Whatever a step schedules is known.                                     *)
(***************************************************************************)
LEMMA SettlingIsKnown ==
  ASSUME ConstantsOK, Inv, NEW r \in Runs, KnownIn(r), DOMAIN ends \subseteq DOMAIN ends',
         Settle(r)
  PROVE  KnownIn(r)'
<1>1. step[r] # Idle /\ queue \in [Runs -> Seq(Entries)] /\ step \in [Runs -> Entries]
  BY DEF Settle, Continue, Complete, Branch, Drop, Split, Join, Fail, Handle, Throws, Kind,
         Inv, Types
<1>2. CASE Handle(r)
  <2>1. queue'[r] = <<>> /\ step'[r] = Idle
    BY <1>1, <1>2 DEF Handle
  <2> QED
    BY <2>1 DEF KnownIn, AllKnown
<1>3. CASE ~Handle(r)
  <2>1. \E more \in Seq(Entries) : Schedules(r, more) /\ AllKnown(DOMAIN ends, more)
    <3>1. CASE Drop(r) \/ Fail(r)
      <4>1. Schedules(r, <<>>) /\ <<>> \in Seq(Entries)
        BY <3>1 DEF Drop, Fail
      <4>2. AllKnown(DOMAIN ends, <<>>)
        BY DEF AllKnown
      <4> QED
        BY <4>1, <4>2
    <3>2. CASE Continue(r) \/ Complete(r) \/ Branch(r)
      <4>1. PICK steps \in Seq(Kinds) : Schedules(r, <<[step[r] EXCEPT !.steps = steps]>>)
        <5>1. Rest(r) \in Seq(Kinds) /\ <<>> \in Seq(Kinds)
          BY <1>1, Executing
        <5>2. \A b \in Branches : b \o Rest(r) \in Seq(Kinds)
          BY <5>1, ConcatProperties DEF ConstantsOK
        <5> QED
          BY <3>2, <5>1, <5>2 DEF Continue, Complete, Branch
      <4> DEFINE e == [step[r] EXCEPT !.steps = steps]
      <4>2. e \in Entries /\ e.id = step[r].id /\ e.path = step[r].path
        BY <1>1 DEF Entries
      <4> HIDE DEF e
      <4>3. Knows(DOMAIN ends, e)
        BY <1>1, <4>2 DEF KnownIn, Knows
      <4>4. Schedules(r, <<e>>)
        BY <4>1 DEF e
      <4> QED
        BY <4>2, <4>3, <4>4, OneIsKnown
    <3> QED
      BY <1>3, <3>1, <3>2, ChildrenAreKnown, JoiningIsKnown DEF Settle
  <2>2. PICK more \in Seq(Entries) : Schedules(r, more) /\ AllKnown(DOMAIN ends, more)
    BY <2>1
  <2>3. AllKnown(DOMAIN ends, queue[r])
    BY DEF KnownIn
  <2>4. AllKnown(DOMAIN ends, queue'[r]) /\ step'[r] = Idle
    BY <1>1, <2>2, <2>3, ScheduledIsKnown
  <2> QED
    BY <2>4, KnownStays DEF KnownIn
<1> QED
  BY <1>2, <1>3

(***************************************************************************)
(* The types: a run without a verdict has the only work there is, all of   *)
(* it is of exchanges that were started or of children of such, and what   *)
(* is recorded of an exchange are splits and ends.                         *)
(***************************************************************************)
THEOREM ExecutorHasItsTypes == ASSUME ConstantsOK PROVE Spec => []TypeOK
<1> DEFINE AllIn == \A r \in Runs : KnownIn(r)
<1>1. Init => Inv /\ AllIn
  <2>1. Init => \A r \in Runs : queue[r] = <<>> /\ step[r] = Idle
    BY DEF Init
  <2>2. Init => AllIn
    BY <2>1 DEF KnownIn, AllKnown
  <2> QED
    BY <2>2, InitInv
<1>2. Inv /\ AllIn /\ [Next]_vars => Inv' /\ AllIn'
  <2> SUFFICES ASSUME Inv, AllIn, [Next]_vars, NEW o \in Runs PROVE KnownIn(o)'
    BY InvStep
  <2>1. CASE UNCHANGED vars
    BY <2>1 DEF vars, KnownIn, AllKnown, Knows
  <2>2. ASSUME NEW r \in Runs, Start(r) \/ Loop(r)
        PROVE  KnownIn(o)'
    <3>1. DOMAIN ends \subseteq DOMAIN ends'
      BY <2>2, StartedStay
    <3>2. CASE o # r
      <4>1. Apart(r)
        BY <2>2, RunKeeps DEF Keeps
      <4>2. queue'[o] = queue[o] /\ step'[o] = step[o]
        BY <3>2, <4>1 DEF Apart
      <4> QED
        BY <3>1, <4>2, KnownStays DEF KnownIn
    <3>3. CASE o = r /\ (Sweep(r) \/ Answer(r))
      <4>1. queue' = queue /\ step' = step
        BY <3>3 DEF Sweep, Answer
      <4> QED
        BY <3>1, <4>1, KnownStays DEF KnownIn
    <3> QED
      BY <2>2, <3>1, <3>2, <3>3, EnteringIsKnown, TakingIsKnown, SettlingIsKnown DEF Loop
  <2> QED
    BY <2>1, <2>2 DEF Next
<1>3. Inv /\ AllIn => TypeOK
  <2> SUFFICES ASSUME Inv, AllIn PROVE TypeOK
    OBVIOUS
  <2>1. /\ route \in Deployments
        /\ verdict \in [Runs -> {"idle", "running", "returned"} \union Verdicts]
        /\ found \in [Runs -> BOOLEAN]
        /\ \A r \in Runs : ~Running(r) => step[r] = Idle /\ queue[r] = <<>>
    BY DEF Inv, Types, RunInv, QueueInv, Running
  <2>2. ASSUME NEW r \in Runs, NEW e \in ToSet(queue[r]) \union {step[r]}, e # Idle
        PROVE  e.id \in DOMAIN ends \/ ParentOf(Front(e.id)) \in DOMAIN ends
    <3>1. queue[r] \in Seq(Entries)
      BY DEF Inv, Types
    <3>2. ToSet(queue[r]) = {queue[r][i] : i \in 1..Len(queue[r])}
      BY <3>1 DEF ToSet
    <3>3. Knows(DOMAIN ends, e)
      BY <2>2, <3>2 DEF KnownIn, AllKnown
    <3> QED
      BY <3>3 DEF Knows
  <2>3. ASSUME NEW id \in DOMAIN ends
        PROVE  ToSet(ends[id]) \subseteq {"split"} \union Verdicts
    <3>1. ends[id] \in Seq({"split"} \union Verdicts)
      BY DEF Inv, Types, Logs
    <3> DEFINE log == ends[id]
               S == {"split"} \union Verdicts
    <3>2. log \in Seq(S)
      BY <3>1
    <3> HIDE DEF log, S
    <3>3. ToSet(log) \subseteq S
      BY <3>2 DEF ToSet
    <3> QED
      BY <3>3 DEF log, S
  <2> QED
    BY <2>1, <2>2, <2>3 DEF TypeOK
<1> QED
  BY <1>1, <1>2, <1>3, PTL DEF Spec
=============================================================================

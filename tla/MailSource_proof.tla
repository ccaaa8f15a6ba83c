-------------------------- MODULE MailSource_proof ---------------------------
(***************************************************************************)
(* What TLAPS proves about the mail account, for every set of users, every *)
(* size of the pool and every bound: how its connections are counted, that *)
(* no slot is lost, and that what is marked Seen was handled. A step of    *)
(* the pool is shown to be fine for everybody but the one who takes it; a  *)
(* step of a source adds what that source owes.                            *)
(***************************************************************************)
EXTENDS MailSource, SequenceTheorems, FiniteSetTheorems, WellFoundedInduction, TLAPS

-----------------------------------------------------------------------------
(* The slots of the pool, as the set of connections in use and the one of  *)
(* those that are idle. *)

SlotType == [client : Nat, inUse : BOOLEAN]

OneEach(es) == \A i, j \in 1..Len(es) : es[i].client = es[j].client => i = j
ListOK(es) == es \in Seq(SlotType) /\ OneEach(es)

Busy(es) == {c \in Nat : \E i \in 1..Len(es) : es[i].client = c /\ es[i].inUse}
Spare(es) == {c \in Nat : \E i \in 1..Len(es) : es[i].client = c /\ ~es[i].inUse}

(***************************************************************************)
(* No connection is both.                                                  *)
(***************************************************************************)
LEMMA BusyIsNotSpare ==
  ASSUME NEW es, ListOK(es)
  PROVE  Busy(es) \intersect Spare(es) = {}
BY DEF ListOK, OneEach, Busy, Spare

(***************************************************************************)
(* Each slot is one or the other.                                          *)
(***************************************************************************)
LEMMA SlotsAreListed ==
  ASSUME NEW es, ListOK(es), NEW i \in 1..Len(es)
  PROVE  /\ es[i] \in SlotType
         /\ es[i].inUse => es[i].client \in Busy(es)
         /\ ~es[i].inUse => es[i].client \in Spare(es)
<1>1. es[i] \in SlotType BY DEF ListOK
<1>2. es[i].client \in Nat BY <1>1 DEF SlotType
<1> QED BY <1>1, <1>2 DEF Busy, Spare

(***************************************************************************)
(* A sequence without one of its elements.                                 *)
(***************************************************************************)
LEMMA TakesOneOut ==
  ASSUME NEW X, NEW es \in Seq(X), NEW i \in 1..Len(es)
  PROVE  /\ RemoveAt(es, i) \in Seq(X) /\ Len(RemoveAt(es, i)) = Len(es) - 1
         /\ \A j \in 1..Len(es)-1 : RemoveAt(es, i)[j] = IF j < i THEN es[j] ELSE es[j+1]
<1> DEFINE a == SubSeq(es, 1, i-1)
           b == SubSeq(es, i+1, Len(es))
<1>1. /\ a \in Seq(X) /\ Len(a) = i - 1 /\ \A j \in 1..i-1 : a[j] = es[j]
  BY SubSeqProperties
<1>2. /\ b \in Seq(X) /\ Len(b) = Len(es) - i /\ \A j \in 1..Len(es)-i : b[j] = es[i+j]
  BY SubSeqProperties
<1> HIDE DEF a, b
<1>3. RemoveAt(es, i) = a \o b BY DEF RemoveAt, a, b
<1>4. a \o b \in Seq(X) /\ Len(a \o b) = Len(es) - 1
  <2>1. a \o b \in Seq(X) /\ Len(a \o b) = Len(a) + Len(b)
    BY <1>1, <1>2, ConcatProperties
  <2>2. Len(es) \in Nat OBVIOUS
  <2> QED BY <2>1, <2>2, <1>1, <1>2
<1>5. ASSUME NEW j \in 1..Len(es)-1 PROVE (a \o b)[j] = IF j < i THEN es[j] ELSE es[j+1]
  <2>1. (a \o b)[j] = IF j <= Len(a) THEN a[j] ELSE b[j - Len(a)]
    <3>1. j \in 1..Len(a)+Len(b)
      <4>1. Len(es) \in Nat OBVIOUS
      <4> QED BY <4>1, <1>1, <1>2
    <3> QED BY <3>1, <1>1, <1>2, ConcatProperties
  <2>2. CASE j < i
    BY <2>1, <2>2, <1>1
  <2>3. CASE ~(j < i)
    <3>1. j - Len(a) \in 1..Len(es)-i /\ i + (j - Len(a)) = j + 1 /\ ~(j <= Len(a))
      <4>1. Len(es) \in Nat OBVIOUS
      <4> QED BY <4>1, <2>3, <1>1
    <3> QED BY <3>1, <2>1, <2>3, <1>2
  <2> QED BY <2>2, <2>3
<1> QED BY <1>3, <1>4, <1>5

(***************************************************************************)
(* What taking a slot away does to the two.                                *)
(***************************************************************************)
LEMMA SlotGoes ==
  ASSUME NEW es, ListOK(es), NEW i \in 1..Len(es)
  PROVE  LET fs == RemoveAt(es, i)
             c == es[i].client
         IN /\ ListOK(fs) /\ Len(fs) = Len(es) - 1
            /\ Busy(fs) = Busy(es) \ {c} /\ Spare(fs) = Spare(es) \ {c}
<1> DEFINE fs == RemoveAt(es, i)
           c == es[i].client
<1> HIDE DEF fs, c
<1>1. /\ fs \in Seq(SlotType) /\ Len(fs) = Len(es) - 1
      /\ \A j \in 1..Len(es)-1 : fs[j] = IF j < i THEN es[j] ELSE es[j+1]
  BY TakesOneOut DEF fs, ListOK
<1>2. Len(es) \in Nat /\ es \in Seq(SlotType) BY DEF ListOK
<1>3. ASSUME NEW j \in 1..Len(es), j # i
      PROVE  \E k \in 1..Len(fs) : fs[k] = es[j]
  <2>1. CASE j < i BY <2>1, <1>1, <1>2
  <2>2. CASE j > i
    <3>1. j - 1 \in 1..Len(fs) /\ ~(j - 1 < i) /\ (j - 1) + 1 = j BY <2>2, <1>1, <1>2
    <3> QED BY <3>1, <1>1
  <2> QED BY <1>3, <1>2, <2>1, <2>2
<1>4. ASSUME NEW k \in 1..Len(fs)
      PROVE  \E j \in 1..Len(es) : j # i /\ fs[k] = es[j] /\ (j = IF k < i THEN k ELSE k + 1)
  <2>1. CASE k < i BY <2>1, <1>1, <1>2
  <2>2. CASE ~(k < i)
    <3>1. k + 1 \in 1..Len(es) /\ k + 1 # i BY <2>2, <1>1, <1>2
    <3> QED BY <3>1, <2>2, <1>1, <1>2
  <2> QED BY <2>1, <2>2
<1>5. OneEach(fs)
  <2> SUFFICES ASSUME NEW k \in 1..Len(fs), NEW l \in 1..Len(fs), fs[k].client = fs[l].client
               PROVE  k = l
    BY DEF OneEach
  <2>1. PICK m \in 1..Len(es) : fs[k] = es[m] /\ m = IF k < i THEN k ELSE k + 1 BY <1>4
  <2>2. PICK n \in 1..Len(es) : fs[l] = es[n] /\ n = IF l < i THEN l ELSE l + 1 BY <1>4
  <2>3. m = n BY <2>1, <2>2 DEF ListOK, OneEach
  <2> QED BY <2>1, <2>2, <2>3, <1>1, <1>2
<1>6. \A j \in 1..Len(es) : es[j].client = c <=> j = i BY DEF c, ListOK, OneEach
<1>7. Busy(fs) = Busy(es) \ {c}
  <2>1. ASSUME NEW d \in Busy(fs) PROVE d \in Busy(es) \ {c}
    <3>1. PICK k \in 1..Len(fs) : fs[k].client = d /\ fs[k].inUse BY <2>1 DEF Busy
    <3>2. PICK j \in 1..Len(es) : j # i /\ fs[k] = es[j] BY <1>4
    <3> QED BY <3>1, <3>2, <1>6 DEF Busy
  <2>2. ASSUME NEW d \in Busy(es) \ {c} PROVE d \in Busy(fs)
    <3>1. PICK j \in 1..Len(es) : es[j].client = d /\ es[j].inUse BY <2>2 DEF Busy
    <3>2. PICK k \in 1..Len(fs) : fs[k] = es[j] BY <1>3, <1>6, <3>1
    <3> QED BY <3>1, <3>2 DEF Busy
  <2> QED BY <2>1, <2>2
<1>8. Spare(fs) = Spare(es) \ {c}
  <2>1. ASSUME NEW d \in Spare(fs) PROVE d \in Spare(es) \ {c}
    <3>1. PICK k \in 1..Len(fs) : fs[k].client = d /\ ~fs[k].inUse BY <2>1 DEF Spare
    <3>2. PICK j \in 1..Len(es) : j # i /\ fs[k] = es[j] BY <1>4
    <3> QED BY <3>1, <3>2, <1>6 DEF Spare
  <2>2. ASSUME NEW d \in Spare(es) \ {c} PROVE d \in Spare(fs)
    <3>1. PICK j \in 1..Len(es) : es[j].client = d /\ ~es[j].inUse BY <2>2 DEF Spare
    <3>2. PICK k \in 1..Len(fs) : fs[k] = es[j] BY <1>3, <1>6, <3>1
    <3> QED BY <3>1, <3>2 DEF Spare
  <2> QED BY <2>1, <2>2
<1> QED BY <1>1, <1>5, <1>7, <1>8 DEF ListOK, fs, c

(***************************************************************************)
(* What taking one into use does, and giving it back.                      *)
(***************************************************************************)
LEMMA SlotIsTaken ==
  ASSUME NEW es, ListOK(es), NEW i \in 1..Len(es)
  PROVE  LET fs == [es EXCEPT ![i].inUse = TRUE]
             c == es[i].client
         IN /\ ListOK(fs) /\ Len(fs) = Len(es)
            /\ Busy(fs) = Busy(es) \union {c} /\ Spare(fs) = Spare(es) \ {c}
<1> DEFINE fs == [es EXCEPT ![i].inUse = TRUE]
           c == es[i].client
<1>1. /\ fs \in Seq(SlotType) /\ Len(fs) = Len(es)
      /\ \A j \in 1..Len(es) : /\ fs[j].client = es[j].client
                               /\ fs[j].inUse = IF j = i THEN TRUE ELSE es[j].inUse
  <2>1. es \in Seq(SlotType) /\ es[i] \in SlotType BY DEF ListOK
  <2>2. [es[i] EXCEPT !.inUse = TRUE] \in SlotType BY <2>1 DEF SlotType
  <2>3. fs = [es EXCEPT ![i] = [es[i] EXCEPT !.inUse = TRUE]] OBVIOUS
  <2>4. fs \in Seq(SlotType) /\ Len(fs) = Len(es) BY <2>1, <2>2, <2>3
  <2>5. ASSUME NEW j \in 1..Len(es)
        PROVE  /\ fs[j].client = es[j].client
               /\ fs[j].inUse = IF j = i THEN TRUE ELSE es[j].inUse
    <3>1. es[j] \in SlotType BY <2>1
    <3>2. fs[j] = IF j = i THEN [es[i] EXCEPT !.inUse = TRUE] ELSE es[j] BY <2>1, <2>3
    <3>3. CASE j = i
      <4>1. fs[j] = [es[j] EXCEPT !.inUse = TRUE] BY <3>2, <3>3
      <4> QED BY <3>1, <3>3, <4>1 DEF SlotType
    <3>4. CASE j # i
      <4>1. fs[j] = es[j] BY <3>2, <3>4
      <4> HIDE DEF fs
      <4> QED BY <3>4, <4>1
    <3> QED BY <3>3, <3>4
  <2> QED BY <2>4, <2>5
<1> HIDE DEF fs
<1>2. \A j \in 1..Len(es) : es[j].client = c <=> j = i BY DEF ListOK, OneEach
<1>3. c \in Nat BY SlotsAreListed DEF SlotType
<1> HIDE DEF c
<1>4. OneEach(fs) BY <1>1 DEF ListOK, OneEach
<1>5. Busy(fs) = Busy(es) \union {c} BY <1>1, <1>2, <1>3 DEF Busy
<1>6. Spare(fs) = Spare(es) \ {c} BY <1>1, <1>2 DEF Spare
<1> QED BY <1>1, <1>4, <1>5, <1>6 DEF ListOK, fs, c

(***************************************************************************)
(* What giving one back does, by the connection it holds.                  *)
(***************************************************************************)
LEMMA SlotIsFreed ==
  ASSUME NEW c, ListOK(entries)
  PROVE  /\ ListOK(Freed(c)) /\ Len(Freed(c)) = Len(entries)
         /\ Busy(Freed(c)) = Busy(entries) \ {c}
         /\ Spare(Freed(c)) = Spare(entries) \union ({c} \intersect Busy(entries))
<1> DEFINE fs == Freed(c)
<1>1. /\ fs \in Seq(SlotType) /\ Len(fs) = Len(entries)
      /\ \A j \in 1..Len(entries) :
           /\ fs[j].client = entries[j].client
           /\ fs[j].inUse = IF entries[j].client = c THEN FALSE ELSE entries[j].inUse
  <2>1. entries \in Seq(SlotType) BY DEF ListOK
  <2>2. \A j \in 1..Len(entries) : entries[j] \in SlotType BY <2>1
  <2>3. fs = [j \in 1..Len(entries) |->
                IF entries[j].client = c THEN [entries[j] EXCEPT !.inUse = FALSE] ELSE entries[j]]
    BY <2>1 DEF Freed
  <2>4. \A j \in 1..Len(entries) :
          IF entries[j].client = c THEN fs[j] = [entries[j] EXCEPT !.inUse = FALSE]
                                   ELSE fs[j] = entries[j]
    BY <2>3
  <2>5. \A j \in 1..Len(entries) : fs[j] \in SlotType
    BY <2>2, <2>4 DEF SlotType
  <2>6. Len(entries) \in Nat BY <2>1
  <2>7. fs \in Seq(SlotType) /\ Len(fs) = Len(entries)
    BY <2>3, <2>5, <2>6, IsASeq
  <2> QED BY <2>2, <2>4, <2>7 DEF SlotType
<1> HIDE DEF fs
<1>2. OneEach(fs) BY <1>1 DEF ListOK, OneEach
<1>3. Busy(fs) = Busy(entries) \ {c} BY <1>1 DEF Busy
<1>4. Spare(fs) = Spare(entries) \union ({c} \intersect Busy(entries)) BY <1>1 DEF Spare, Busy
<1> QED BY <1>1, <1>2, <1>3, <1>4 DEF ListOK, fs

(***************************************************************************)
(* What a new slot does.                                                   *)
(***************************************************************************)
LEMMA SlotComes ==
  ASSUME NEW es, ListOK(es), NEW c \in Nat, c \notin Busy(es) \union Spare(es)
  PROVE  LET fs == Append(es, Slot(c))
         IN /\ ListOK(fs) /\ Len(fs) = Len(es) + 1
            /\ Busy(fs) = Busy(es) \union {c} /\ Spare(fs) = Spare(es)
<1> DEFINE fs == Append(es, Slot(c))
<1>1. es \in Seq(SlotType) /\ Len(es) \in Nat BY DEF ListOK
<1>2. Slot(c) \in SlotType /\ Slot(c).client = c /\ Slot(c).inUse BY DEF Slot, SlotType
<1>3. /\ fs \in Seq(SlotType) /\ Len(fs) = Len(es) + 1
      /\ \A j \in 1..Len(es) : fs[j] = es[j]
      /\ fs[Len(es) + 1] = Slot(c)
  BY <1>1, <1>2
<1> HIDE DEF fs
<1>4. \A j \in 1..Len(es) : es[j].client # c
  BY SlotsAreListed
<1>5. \A j \in 1..Len(fs) : j \in 1..Len(es) \/ j = Len(es) + 1 BY <1>1, <1>3
<1>6. \A j \in 1..Len(es) : j \in 1..Len(fs) BY <1>1, <1>3
<1>7. Len(es) + 1 \in 1..Len(fs) BY <1>1, <1>3
<1>8. OneEach(fs) BY <1>2, <1>3, <1>4, <1>5 DEF ListOK, OneEach
<1>9. Busy(fs) = Busy(es) \union {c} BY <1>2, <1>3, <1>5, <1>6, <1>7 DEF Busy
<1>10. Spare(fs) = Spare(es) BY <1>2, <1>3, <1>5, <1>6, <1>7 DEF Spare
<1> QED BY <1>3, <1>8, <1>9, <1>10 DEF ListOK, fs

(***************************************************************************)
(* A set of numbers has a least one.                                       *)
(***************************************************************************)
LEMMA MinIsLeast ==
  ASSUME NEW W, W \subseteq Nat, W # {}
  PROVE  Min(W) \in W /\ \A m \in W : Min(W) <= m
<1> DEFINE R == OpToRel(<, Nat)
<1>1. IsWellFoundedOn(R, Nat) BY NatLessThanWellFounded
<1>2. \A x, y \in Nat : x < y => <<x, y>> \in R BY DEF OpToRel
<1> HIDE DEF R
<1>3. PICK n \in W : \A m \in W : ~(<<m, n>> \in R) BY <1>1, WFMin
<1>4. \A m \in W : ~(m < n) BY <1>2, <1>3
<1>5. \E x \in W : \A m \in W : x <= m BY <1>4
<1> QED BY <1>5 DEF Min

-----------------------------------------------------------------------------
(* The pool. *)

Conn == [state : {"dialling", "open", "gone"}, box : Boxes \union {NoBox}]

PoolTypes ==
  /\ conns \in Seq(Conn)
  /\ ListOK(entries) /\ Len(entries) <= PoolSize
  /\ Busy(entries) \union Spare(entries) \subseteq 1..Len(conns)
  /\ queue \in Seq(Users)
  /\ drained \in BOOLEAN
  /\ closing \in 0..Len(conns) /\ cursor \in 0..Len(conns)
  /\ at \in [Users -> {"away", "dialling", "queued", "serving", "refused"}]
  /\ held \in [Users -> 0..Len(conns)]

(***************************************************************************)
(* A connection that is dialled or in use is held by one user.  Who dials  *)
(* holds what is dialled, and nobody an idle connection.                   *)
(***************************************************************************)
HeldOnce ==
  /\ \A u \in Users : held[u] # 0 <=> at[u] \in {"dialling", "serving"}
  /\ \A u, w \in Users : held[u] = held[w] /\ held[u] # 0 => u = w

DialledAreHeld ==
  /\ \A u \in Users : at[u] = "dialling" => conns[held[u]].state = "dialling"
  /\ \A c \in 1..Len(conns) : conns[c].state = "dialling" =>
       \E u \in Users : at[u] = "dialling" /\ held[u] = c
  /\ closing # 0 => drained /\ conns[closing].state # "dialling"

SpareAreFree ==
  /\ Spare(entries) # {} => queue = <<>>
  /\ \A u \in Users : held[u] \notin Spare(entries)

(***************************************************************************)
(* The line names those who wait, each once; a drained pool has none.      *)
(***************************************************************************)
LineOK ==
  /\ \A i \in 1..Len(queue) : at[queue[i]] = "queued"
  /\ \A u \in Users : at[u] = "queued" => \E i \in 1..Len(queue) : queue[i] = u
  /\ \A i, j \in 1..Len(queue) : queue[i] = queue[j] => i = j
  /\ drained => queue = <<>>

(***************************************************************************)
(* Every socket has a slot until the pool is drained, and then no socket   *)
(* is opened any more.                                                     *)
(***************************************************************************)
SocketsFit ==
  /\ ~drained => Sockets \subseteq Busy(entries) \union Spare(entries)
  /\ Cardinality(Sockets) <= PoolSize

PoolInv ==
  PoolTypes /\ HeldOnce /\ DialledAreHeld /\ SpareAreFree /\ LineOK /\ SocketsFit

(***************************************************************************)
(* No more sockets than slots, and none in more than one slot.             *)
(***************************************************************************)
LEMMA SocketsAreFew ==
  ASSUME PoolSize \in Nat, NEW es, ListOK(es), Len(es) <= PoolSize,
         NEW W, W \subseteq Busy(es) \union Spare(es)
  PROVE  Cardinality(W) <= PoolSize
<1> DEFINE n == Len(es)
           f == [i \in 1..n |-> es[i].client]
           T == {f[i] : i \in 1..n}
<1>1. n \in Nat BY DEF ListOK
<1>2. f \in Surjection(1..n, T) BY DEF Surjection
<1>3. IsFiniteSet(1..n) /\ Cardinality(1..n) = n
  <2> HIDE DEF n
  <2> QED BY <1>1, FS_Interval
<1>4. IsFiniteSet(T) /\ Cardinality(T) <= n /\ Cardinality(T) \in Nat
  BY <1>1, <1>2, <1>3, FS_Surjection, FS_CardinalityType
<1>5. Busy(es) \union Spare(es) \subseteq T BY DEF Busy, Spare
<1>6. Cardinality(W) <= Cardinality(T) /\ Cardinality(W) \in Nat
  BY <1>4, <1>5, FS_Subset, FS_CardinalityType
<1> QED BY <1>1, <1>4, <1>6

(***************************************************************************)
(* The sockets can be counted.                                             *)
(***************************************************************************)
LEMMA SocketsAreFinite ==
  ASSUME conns \in Seq(Conn)
  PROVE  IsFiniteSet(Sockets) /\ Cardinality(Sockets) \in Nat
<1>1. Sockets \subseteq 1..Len(conns) /\ Len(conns) \in Nat BY DEF Sockets
<1>2. IsFiniteSet(1..Len(conns)) BY <1>1, FS_Interval
<1> QED BY <1>1, <1>2, FS_Subset, FS_CardinalityType

(***************************************************************************)
(* What fits stays so when no socket is new.                               *)
(***************************************************************************)
LEMMA SocketsStayFew ==
  ASSUME PoolSize \in Nat, conns \in Seq(Conn), SocketsFit, Sockets' \subseteq Sockets
  PROVE  (Cardinality(Sockets) <= PoolSize)'
<1>1. IsFiniteSet(Sockets) /\ Cardinality(Sockets) \in Nat BY SocketsAreFinite
<1>2. Cardinality(Sockets') <= Cardinality(Sockets) /\ Cardinality(Sockets') \in Nat
  BY <1>1, FS_Subset, FS_CardinalityType
<1>3. Cardinality(Sockets) <= PoolSize BY DEF SocketsFit
<1> QED BY <1>1, <1>2, <1>3

-----------------------------------------------------------------------------
(***************************************************************************)
(* What a search among some slots finds: nothing on these mailboxes, a     *)
(* dead connection, which it drops, or one that can be used.               *)
(***************************************************************************)
LEMMA TryFinds ==
  ASSUME conns \in Seq(Conn), NEW slots, ListOK(slots),
         Busy(slots) \union Spare(slots) \subseteq 1..Len(conns), NEW boxes
  PROVE  LET t == Try(slots, boxes)
         IN /\ ListOK(t.slots)
            /\ \/ /\ t.client = 0 /\ t.slots = slots
                  /\ \A i \in 1..Len(slots) : ~slots[i].inUse =>
                       conns[slots[i].client].box \notin boxes
               \/ /\ t.client = 0 /\ Len(t.slots) = Len(slots) - 1
                  /\ Busy(t.slots) = Busy(slots)
                  /\ \E d \in Spare(slots) : ~Usable(d) /\ Spare(t.slots) = Spare(slots) \ {d}
               \/ /\ t.client \in Spare(slots) /\ Usable(t.client)
                  /\ Len(t.slots) = Len(slots)
                  /\ Busy(t.slots) = Busy(slots) \union {t.client}
                  /\ Spare(t.slots) = Spare(slots) \ {t.client}
<1> DEFINE idle == {i \in DOMAIN slots : ~slots[i].inUse /\ conns[slots[i].client].box \in boxes}
           i == Min(idle)
           t == Try(slots, boxes)
<1>1. slots \in Seq(SlotType) /\ DOMAIN slots = 1..Len(slots) /\ Len(slots) \in Nat BY DEF ListOK
<1>2. CASE idle = {}
  <2>1. t = [client |-> 0, slots |-> slots] BY <1>2 DEF Try
  <2>2. \A k \in 1..Len(slots) : ~slots[k].inUse => conns[slots[k].client].box \notin boxes
    BY <1>1, <1>2
  <2> QED BY <2>1, <2>2
<1>3. CASE idle # {}
  <2>1. idle \subseteq Nat BY <1>1
  <2>2. i \in idle BY <1>3, <2>1, MinIsLeast
  <2> DEFINE c == slots[i].client
  <2>3. i \in 1..Len(slots) /\ c \in Spare(slots)
    BY <1>1, <2>2, SlotsAreListed
  <2>4. Busy(slots) \ {c} = Busy(slots) BY <2>3, BusyIsNotSpare
  <2>5. CASE Usable(c)
    <3>1. t = [client |-> c, slots |-> [slots EXCEPT ![i].inUse = TRUE]]
      BY <1>3, <2>5 DEF Try
    <3> HIDE DEF i
    <3>2. LET fs == [slots EXCEPT ![i].inUse = TRUE]
          IN /\ ListOK(fs) /\ Len(fs) = Len(slots)
             /\ Busy(fs) = Busy(slots) \union {c} /\ Spare(fs) = Spare(slots) \ {c}
      BY <2>3, SlotIsTaken
    <3> HIDE DEF c, t
    <3>3. t.client = c /\ t.slots = [slots EXCEPT ![i].inUse = TRUE] BY <3>1
    <3> QED BY <2>3, <2>5, <3>2, <3>3 DEF t
  <2>6. CASE ~Usable(c)
    <3>1. t = [client |-> 0, slots |-> RemoveAt(slots, i)]
      BY <1>3, <2>6 DEF Try
    <3> HIDE DEF i
    <3>2. LET fs == RemoveAt(slots, i)
          IN /\ ListOK(fs) /\ Len(fs) = Len(slots) - 1
             /\ Busy(fs) = Busy(slots) \ {c} /\ Spare(fs) = Spare(slots) \ {c}
      BY <2>3, SlotGoes
    <3> HIDE DEF c, t
    <3>3. t.client = 0 /\ t.slots = RemoveAt(slots, i) BY <3>1
    <3> QED BY <2>3, <2>4, <2>6, <3>2, <3>3 DEF t
  <2> QED BY <2>5, <2>6
<1> QED BY <1>2, <1>3

(***************************************************************************)
(* acquire() searches twice.  It drops the dead connections it meets, and  *)
(* if it finds none to use and drops none either, none is idle.            *)
(***************************************************************************)
Searched(u, dead) ==
  LET s == Search(u)
  IN /\ ListOK(s.slots)
     /\ dead \subseteq Spare(entries) /\ \A d \in dead : ~Usable(d)
     /\ Len(s.slots) <= Len(entries)
     /\ \/ /\ s.client \in Spare(entries) \ dead /\ Usable(s.client)
           /\ Busy(s.slots) = Busy(entries) \union {s.client}
           /\ Spare(s.slots) = (Spare(entries) \ dead) \ {s.client}
        \/ /\ s.client = 0
           /\ Busy(s.slots) = Busy(entries) /\ Spare(s.slots) = Spare(entries) \ dead
           /\ Len(s.slots) = Len(entries) => Spare(entries) = {} /\ s.slots = entries

(***************************************************************************)
(* Both searches, put together from what one of them finds.                *)
(***************************************************************************)
LEMMA SearchFinds ==
  ASSUME PoolTypes, NEW u
  PROVE  \E dead : Searched(u, dead)
<1> DEFINE same == Try(entries, {Folder[u]})
           any == Try(same.slots, Boxes \union {NoBox})
           s == Search(u)
<1>1. /\ conns \in Seq(Conn) /\ ListOK(entries) /\ Len(entries) \in Nat
      /\ Busy(entries) \union Spare(entries) \subseteq 1..Len(conns)
  BY DEF PoolTypes, ListOK
<1>2. s = IF same.client # 0 THEN same ELSE any BY DEF Search
<1>3. ListOK(same.slots) BY <1>1, TryFinds
<1>4. CASE same.client \in Spare(entries)
  <2>1. same.client # 0 BY <1>1, <1>4
  <2>2. s = same BY <1>2, <2>1
  <2>3. Searched(u, {})
    <3> HIDE DEF same
    <3>1. /\ Usable(same.client) /\ Len(same.slots) = Len(entries)
          /\ Busy(same.slots) = Busy(entries) \union {same.client}
          /\ Spare(same.slots) = Spare(entries) \ {same.client}
      BY <1>1, <1>4, <2>1, TryFinds DEF same
    <3> QED BY <1>1, <1>3, <1>4, <2>2, <3>1 DEF Searched
  <2> QED BY <2>3
<1>5. CASE same.client = 0
  <2>1. s = any BY <1>2, <1>5
  <2>2. \E d : /\ d \subseteq Spare(entries) /\ \A x \in d : ~Usable(x)
               /\ Busy(same.slots) = Busy(entries) /\ Spare(same.slots) = Spare(entries) \ d
               /\ same.slots = entries \/ Len(same.slots) = Len(entries) - 1
    <3> HIDE DEF same
    <3>1. CASE same.slots = entries
      <4> WITNESS {}
      <4> QED BY <3>1
    <3>2. CASE same.slots # entries
      <4>1. /\ Len(same.slots) = Len(entries) - 1 /\ Busy(same.slots) = Busy(entries)
            /\ \E d \in Spare(entries) : ~Usable(d) /\ Spare(same.slots) = Spare(entries) \ {d}
        <5>1. 0 \notin Spare(entries) BY <1>1
        <5> QED BY <1>1, <1>5, <3>2, <5>1, TryFinds DEF same
      <4>2. PICK d \in Spare(entries) : ~Usable(d) /\ Spare(same.slots) = Spare(entries) \ {d}
        BY <4>1
      <4> WITNESS {d}
      <4> QED BY <4>1, <4>2
    <3> QED BY <3>1, <3>2
  <2>3. PICK d : /\ d \subseteq Spare(entries) /\ \A x \in d : ~Usable(x)
                 /\ Busy(same.slots) = Busy(entries) /\ Spare(same.slots) = Spare(entries) \ d
                 /\ same.slots = entries \/ Len(same.slots) = Len(entries) - 1
    BY <2>2
  <2> DEFINE mid == same.slots
  <2> HIDE DEF same, any
  <2>4. ListOK(mid) /\ Busy(mid) \union Spare(mid) \subseteq 1..Len(conns) /\ Len(mid) <= Len(entries)
    BY <1>1, <1>3, <2>3
  <2>5. any = Try(mid, Boxes \union {NoBox}) BY DEF any
  <2> HIDE DEF mid
  <2>6. Len(mid) \in Nat /\ Busy(mid) = Busy(entries) /\ Spare(mid) = Spare(entries) \ d
    BY <2>3, <2>4 DEF mid, ListOK
  <2>7. CASE any.client \in Spare(mid)
    <3>1. any.client # 0 BY <2>4, <2>7
    <3>2. /\ Usable(any.client) /\ Len(any.slots) = Len(mid) /\ ListOK(any.slots)
          /\ Busy(any.slots) = Busy(mid) \union {any.client}
          /\ Spare(any.slots) = Spare(mid) \ {any.client}
      BY <1>1, <2>4, <2>5, <2>7, <3>1, TryFinds
    <3>3. Searched(u, d) BY <1>1, <2>1, <2>3, <2>4, <2>6, <2>7, <3>2 DEF Searched
    <3> QED BY <3>3
  <2>8. CASE any.client = 0 /\ any.slots = mid
    <3>1. \A i \in 1..Len(mid) : ~mid[i].inUse => conns[mid[i].client].box \notin Boxes \union {NoBox}
      <4>1. Len(mid) # Len(mid) - 1 BY <2>6
      <4>2. 0 \notin Spare(mid) BY <2>4
      <4> QED BY <1>1, <2>4, <2>5, <2>8, <4>1, <4>2, TryFinds
    <3>2. Spare(mid) = {}
      <4> SUFFICES ASSUME NEW c \in Spare(mid) PROVE FALSE
        OBVIOUS
      <4>1. PICK i \in 1..Len(mid) : mid[i].client = c /\ ~mid[i].inUse BY DEF Spare
      <4>2. c \in 1..Len(conns) BY <2>4
      <4>3. conns[c] \in Conn BY <1>1, <4>2
      <4> QED BY <3>1, <4>1, <4>3 DEF Conn
    <3>3. Len(mid) = Len(entries) => mid = entries
      BY <1>1, <2>3 DEF mid
    <3>4. Searched(u, d)
      BY <2>1, <2>3, <2>4, <2>6, <2>8, <3>2, <3>3 DEF Searched
    <3> QED BY <3>4
  <2>9. CASE any.client = 0 /\ any.slots # mid
    <3>1. /\ Len(any.slots) = Len(mid) - 1 /\ Busy(any.slots) = Busy(mid) /\ ListOK(any.slots)
          /\ \E e \in Spare(mid) : ~Usable(e) /\ Spare(any.slots) = Spare(mid) \ {e}
      <4>1. 0 \notin Spare(mid) BY <2>4
      <4> QED BY <1>1, <2>4, <2>5, <2>9, <4>1, TryFinds
    <3>2. PICK e \in Spare(mid) : ~Usable(e) /\ Spare(any.slots) = Spare(mid) \ {e} BY <3>1
    <3>3. Searched(u, d \union {e})
      <4>1. Len(any.slots) <= Len(entries) /\ Len(any.slots) # Len(entries)
        BY <1>1, <2>4, <2>6, <3>1
      <4> QED BY <2>1, <2>3, <2>6, <2>9, <3>1, <3>2, <4>1 DEF Searched
    <3> QED BY <3>3
  <2> QED
    <3>1. any.client = 0 \/ any.client \in Spare(mid) BY <1>1, <2>4, <2>5, TryFinds
    <3> QED BY <3>1, <2>7, <2>8, <2>9
<1> QED
  <2>1. same.client = 0 \/ same.client \in Spare(entries) BY <1>1, TryFinds
  <2> QED BY <2>1, <1>4, <1>5

-----------------------------------------------------------------------------
(***************************************************************************)
(* What a step of the pool does for the others: who is away stays away,    *)
(* and whoever is served stays so, on the same connection, which may die   *)
(* but is not changed.                                                     *)
(***************************************************************************)
Kept(w) ==
  /\ at[w] = "away" => at'[w] = "away"
  /\ at[w] = "serving" =>
       /\ at'[w] = "serving" /\ held'[w] = held[w]
       /\ conns'[held[w]].state = "open" =>
            conns[held[w]].state = "open" /\ conns'[held[w]].box = conns[held[w]].box

NoLeak == \A c \in Busy(entries) : \E u \in Users : held[u] = c

Fine(others) ==
  /\ PoolInv'
  /\ \A w \in others : Kept(w)
  /\ NoLeak => NoLeak'
  /\ Len(conns) <= Len(conns')

(***************************************************************************)
(* Dead connections that are idle are no sockets.                          *)
(***************************************************************************)
LEMMA DeadAreNoSockets ==
  ASSUME PoolInv, NEW d \in Spare(entries), ~Usable(d)
  PROVE  d \notin Sockets
<1>1. d \in 1..Len(conns) BY DEF PoolInv, PoolTypes
<1>2. conns[d] \in Conn BY <1>1 DEF PoolInv, PoolTypes
<1>3. conns[d].state # "dialling"
  BY <1>1 DEF PoolInv, DialledAreHeld, SpareAreFree
<1> QED BY <1>2, <1>3 DEF Sockets, Usable, Conn

(***************************************************************************)
(* An acquire that finds an idle connection takes one that can be used and *)
(* that nobody has.                                                        *)
(***************************************************************************)
LEMMA ReuseIsFine ==
  ASSUME ConstantsOK, PoolInv, NEW u \in Users, at[u] = "away", Reuse(u)
  PROVE  Fine(Users \ {u})
<1> DEFINE s == Search(u)
           c == s.client
<1> USE DEF PoolInv
<1>1. PICK dead : Searched(u, dead) BY SearchFinds
<1>2. /\ c # 0 /\ entries' = s.slots /\ ~drained
      /\ at' = [at EXCEPT ![u] = "serving"] /\ held' = [held EXCEPT ![u] = c]
      /\ UNCHANGED <<conns, queue, drained, closing, cursor>>
  BY DEF Reuse, Goes, drainVars
<1> HIDE DEF s, c
<1>3. /\ ListOK(entries') /\ Len(entries') <= Len(entries)
      /\ dead \subseteq Spare(entries) /\ \A d \in dead : ~Usable(d)
      /\ c \in Spare(entries) \ dead /\ Usable(c)
      /\ Busy(entries') = Busy(entries) \union {c}
      /\ Spare(entries') = (Spare(entries) \ dead) \ {c}
  BY <1>1, <1>2 DEF Searched, s, c
<1>4. c \in 1..Len(conns) /\ Len(entries) \in Nat /\ Len(entries') \in Nat /\ Len(conns) \in Nat
  BY <1>3 DEF PoolTypes, ListOK
<1>5. PoolTypes'
  BY <1>2, <1>3, <1>4 DEF PoolTypes, ConstantsOK
<1>6. HeldOnce'
  BY <1>2, <1>3, <1>4 DEF PoolTypes, HeldOnce, SpareAreFree
<1>7. DialledAreHeld'
  BY <1>2 DEF PoolTypes, DialledAreHeld
<1>8. SpareAreFree'
  BY <1>2, <1>3 DEF PoolTypes, SpareAreFree
<1>9. LineOK'
  BY <1>2 DEF PoolTypes, LineOK
<1>10. SocketsFit'
  <2>1. Sockets' = Sockets BY <1>2 DEF Sockets
  <2>2. \A d \in dead : d \notin Sockets BY <1>3, DeadAreNoSockets
  <2>3. Sockets' \subseteq Busy(entries') \union Spare(entries')
    BY <1>2, <1>3, <2>1, <2>2 DEF SocketsFit
  <2> QED BY <2>1, <2>3 DEF SocketsFit
<1>11. \A w \in Users \ {u} : Kept(w)
  BY <1>2 DEF Kept, PoolTypes
<1>12. NoLeak => NoLeak'
  BY <1>2, <1>3 DEF NoLeak, PoolTypes, HeldOnce
<1> QED BY <1>2, <1>4, <1>5, <1>6, <1>7, <1>8, <1>9, <1>10, <1>11, <1>12 DEF Fine

(***************************************************************************)
(* An acquire that dials has a slot for what it dials.                     *)
(***************************************************************************)
LEMMA DialIsFine ==
  ASSUME ConstantsOK, PoolInv, NEW u \in Users, at[u] = "away", Dial(u)
  PROVE  Fine(Users \ {u})
<1> DEFINE s == Search(u)
           c == Len(conns) + 1
           new == [state |-> "dialling", box |-> NoBox]
<1> USE DEF PoolInv
<1>1. PICK dead : Searched(u, dead) BY SearchFinds
<1>2. /\ s.client = 0 /\ Len(s.slots) < PoolSize /\ ~drained
      /\ entries' = Append(s.slots, Slot(c)) /\ conns' = Append(conns, new)
      /\ at' = [at EXCEPT ![u] = "dialling"] /\ held' = [held EXCEPT ![u] = c]
      /\ UNCHANGED <<queue, drained, closing, cursor>>
  BY DEF Dial, Goes, drainVars
<1> HIDE DEF s, c
<1>3. /\ ListOK(s.slots) /\ dead \subseteq Spare(entries) /\ \A d \in dead : ~Usable(d)
      /\ Busy(s.slots) = Busy(entries) /\ Spare(s.slots) = Spare(entries) \ dead
  <2>1. 0 \notin Spare(entries) BY DEF PoolTypes
  <2> QED BY <1>1, <1>2, <2>1 DEF Searched, s
<1>4. conns \in Seq(Conn) /\ Len(conns) \in Nat /\ c \in Nat /\ c \notin 1..Len(conns)
  BY DEF PoolTypes, c
<1>5. c \notin Busy(s.slots) \union Spare(s.slots) BY <1>3, <1>4 DEF PoolTypes
<1>6. /\ ListOK(entries') /\ Len(entries') = Len(s.slots) + 1
      /\ Busy(entries') = Busy(entries) \union {c} /\ Spare(entries') = Spare(entries) \ dead
  <2>1. LET fs == Append(s.slots, Slot(c))
        IN /\ ListOK(fs) /\ Len(fs) = Len(s.slots) + 1
           /\ Busy(fs) = Busy(s.slots) \union {c} /\ Spare(fs) = Spare(s.slots)
    BY <1>3, <1>4, <1>5, SlotComes
  <2> QED BY <1>2, <1>3, <2>1
<1>7. new \in Conn BY DEF Conn
<1>8. /\ conns' \in Seq(Conn) /\ Len(conns') = c
      /\ \A d \in 1..Len(conns) : conns'[d] = conns[d]
      /\ conns'[c] = new
  BY <1>2, <1>4, <1>7 DEF c
<1>9. 1..Len(conns') = (1..Len(conns)) \union {c} /\ Len(conns) <= Len(conns') /\ Len(s.slots) \in Nat
  BY <1>4, <1>8, <1>3 DEF c, ListOK
<1>10. PoolTypes'
  <2>1. PoolSize \in Nat BY DEF ConstantsOK
  <2>2. Len(entries') <= PoolSize BY <1>2, <1>6, <1>9, <2>1
  <2>3. at' \in [Users -> {"away", "dialling", "queued", "serving", "refused"}]
    BY <1>2 DEF PoolTypes
  <2>4. 0..Len(conns) \subseteq 0..Len(conns') /\ c \in 0..Len(conns')
    BY <1>4, <1>8 DEF c
  <2>5. held' \in [Users -> 0..Len(conns')]
    BY <1>2, <2>4 DEF PoolTypes
  <2>6. Busy(entries') \union Spare(entries') \subseteq 1..Len(conns')
    BY <1>3, <1>6, <1>9 DEF PoolTypes
  <2>7. closing' \in 0..Len(conns') /\ cursor' \in 0..Len(conns')
    BY <1>2, <2>4 DEF PoolTypes
  <2> QED BY <1>2, <1>6, <1>8, <2>2, <2>3, <2>5, <2>6, <2>7 DEF PoolTypes
<1>11. \A w \in Users \ {u} : at'[w] = at[w] /\ held'[w] = held[w] /\ held[w] # c
  BY <1>2, <1>4 DEF PoolTypes, c
<1>12. at'[u] = "dialling" /\ held'[u] = c /\ c # 0 /\ held[u] = 0
  <2>1. at'[u] = "dialling" /\ held'[u] = c BY <1>2 DEF PoolTypes
  <2>2. held[u] = 0 BY DEF HeldOnce
  <2> QED BY <2>1, <2>2, <1>4 DEF c
<1>13. HeldOnce'
  <2>1. \A w \in Users : held'[w] # 0 <=> at'[w] \in {"dialling", "serving"}
    BY <1>11, <1>12 DEF HeldOnce
  <2>2. \A v, w \in Users : held'[v] = held'[w] /\ held'[v] # 0 => v = w
    BY <1>11, <1>12 DEF HeldOnce
  <2> QED BY <2>1, <2>2 DEF HeldOnce
<1>14. DialledAreHeld'
  <2>1. \A w \in Users : at'[w] = "dialling" => conns'[held'[w]].state = "dialling"
    <3> SUFFICES ASSUME NEW w \in Users, at'[w] = "dialling", w # u
                 PROVE  conns'[held'[w]].state = "dialling"
      BY <1>8, <1>12
    <3>1. held[w] \in 1..Len(conns) /\ at[w] = "dialling"
      BY <1>11, <1>4 DEF PoolTypes, HeldOnce
    <3> QED BY <3>1, <1>8, <1>11 DEF DialledAreHeld
  <2>2. ASSUME NEW d \in 1..Len(conns'), conns'[d].state = "dialling"
        PROVE  \E w \in Users : at'[w] = "dialling" /\ held'[w] = d
    <3>1. CASE d = c BY <3>1, <1>12
    <3>2. CASE d # c
      <4>1. d \in 1..Len(conns) /\ conns[d].state = "dialling" BY <2>2, <3>2, <1>8, <1>9
      <4>2. PICK w \in Users : at[w] = "dialling" /\ held[w] = d BY <4>1 DEF DialledAreHeld
      <4> QED BY <4>2, <1>11
    <3> QED BY <3>1, <3>2
  <2>3. closing' # 0 => drained' /\ conns'[closing'].state # "dialling"
    BY <1>2 DEF DialledAreHeld
  <2> QED BY <2>1, <2>2, <2>3 DEF DialledAreHeld
<1>15. SpareAreFree'
  <2>1. c \notin Spare(entries) BY <1>4 DEF PoolTypes
  <2> QED BY <1>2, <1>6, <1>11, <1>12, <2>1 DEF SpareAreFree
<1>16. LineOK'
  BY <1>2 DEF PoolTypes, LineOK
<1>17. SocketsFit'
  <2>1. Sockets' \subseteq Sockets \union {c}
    BY <1>8, <1>9 DEF Sockets
  <2>2. \A d \in dead : d \notin Sockets BY <1>3, DeadAreNoSockets
  <2>3. Sockets' \subseteq Busy(entries') \union Spare(entries')
    BY <1>2, <1>6, <2>1, <2>2 DEF SocketsFit
  <2>4. PoolSize \in Nat BY DEF ConstantsOK
  <2>5. Cardinality(Sockets') <= PoolSize
    BY <1>6, <1>10, <2>3, <2>4, SocketsAreFew DEF PoolTypes
  <2> QED BY <2>3, <2>5 DEF SocketsFit
<1>18. \A w \in Users \ {u} : Kept(w)
  <2> SUFFICES ASSUME NEW w \in Users \ {u}, at[w] = "serving"
               PROVE  conns'[held[w]] = conns[held[w]]
    BY <1>11 DEF Kept
  <2>1. held[w] \in 1..Len(conns) BY <1>4 DEF PoolTypes, HeldOnce
  <2> QED BY <2>1, <1>8
<1>19. NoLeak => NoLeak'
  <2> SUFFICES ASSUME NoLeak, NEW d \in Busy(entries) PROVE \E w \in Users : held'[w] = d
    BY <1>6, <1>12 DEF NoLeak
  <2>1. PICK w \in Users : held[w] = d BY DEF NoLeak
  <2>2. d # 0 BY DEF PoolTypes
  <2> QED BY <2>1, <2>2, <1>11, <1>12
<1> QED BY <1>9, <1>10, <1>13, <1>14, <1>15, <1>16, <1>17, <1>18, <1>19 DEF Fine

(***************************************************************************)
(* An acquire waits in line only if nothing is idle.                       *)
(***************************************************************************)
LEMMA EnqueueIsFine ==
  ASSUME ConstantsOK, PoolInv, NEW u \in Users, at[u] = "away", Enqueue(u)
  PROVE  Fine(Users \ {u})
<1> DEFINE s == Search(u)
<1> USE DEF PoolInv
<1>1. PICK dead : Searched(u, dead) BY SearchFinds
<1>2. /\ s.client = 0 /\ Len(s.slots) >= PoolSize /\ ~drained
      /\ entries' = s.slots /\ queue' = Append(queue, u)
      /\ at' = [at EXCEPT ![u] = "queued"] /\ held' = [held EXCEPT ![u] = 0]
      /\ UNCHANGED <<conns, drained, closing, cursor>>
  BY DEF Enqueue, Goes, drainVars
<1> HIDE DEF s
<1>3. entries' = entries /\ Spare(entries) = {}
  <2>1. 0 \notin Spare(entries) BY DEF PoolTypes
  <2>2. /\ Len(s.slots) <= Len(entries)
        /\ Len(s.slots) = Len(entries) => Spare(entries) = {} /\ s.slots = entries
    BY <1>1, <1>2, <2>1 DEF Searched, s
  <2>3. Len(entries) <= PoolSize /\ Len(entries) \in Nat /\ PoolSize \in Nat
    BY DEF PoolTypes, ListOK, ConstantsOK
  <2>4. Len(s.slots) \in Nat BY <1>1 DEF Searched, s, ListOK
  <2> QED BY <1>2, <2>2, <2>3, <2>4
<1>4. held[u] = 0 BY DEF HeldOnce
<1>5. held' = held BY <1>2, <1>4 DEF PoolTypes
<1>6. /\ queue \in Seq(Users) /\ Len(queue) \in Nat
      /\ queue' \in Seq(Users) /\ Len(queue') = Len(queue) + 1
      /\ \A i \in 1..Len(queue) : queue'[i] = queue[i]
      /\ queue'[Len(queue) + 1] = u
  BY <1>2 DEF PoolTypes
<1>7. PoolTypes'
  BY <1>2, <1>3, <1>5, <1>6 DEF PoolTypes
<1>8. HeldOnce'
  BY <1>2, <1>4, <1>5 DEF PoolTypes, HeldOnce
<1>9. DialledAreHeld'
  BY <1>2, <1>5 DEF PoolTypes, DialledAreHeld
<1>10. SpareAreFree'
  BY <1>3, <1>5 DEF SpareAreFree
<1>11. LineOK'
  <2>1. \A i \in 1..Len(queue') : i \in 1..Len(queue) \/ i = Len(queue) + 1
    BY <1>6
  <2>2. \A i \in 1..Len(queue) : queue[i] # u
    BY DEF LineOK
  <2>3. at'[u] = "queued" /\ \A w \in Users \ {u} : at'[w] = at[w]
    BY <1>2 DEF PoolTypes
  <2>4. \A i \in 1..Len(queue') : at'[queue'[i]] = "queued"
    BY <1>6, <2>1, <2>2, <2>3 DEF LineOK
  <2>5. ASSUME NEW w \in Users, at'[w] = "queued"
        PROVE  \E i \in 1..Len(queue') : queue'[i] = w
    <3>1. Len(queue) + 1 \in 1..Len(queue') /\ \A i \in 1..Len(queue) : i \in 1..Len(queue')
      BY <1>6
    <3>2. CASE w = u BY <1>6, <3>1, <3>2
    <3>3. CASE w # u
      <4>1. PICK i \in 1..Len(queue) : queue[i] = w BY <2>3, <2>5, <3>3 DEF LineOK
      <4> QED BY <4>1, <1>6, <3>1
    <3> QED BY <3>2, <3>3
  <2>6. \A i, j \in 1..Len(queue') : queue'[i] = queue'[j] => i = j
    BY <1>6, <2>1, <2>2 DEF LineOK
  <2> QED BY <1>2, <2>4, <2>5, <2>6 DEF LineOK
<1>12. SocketsFit'
  BY <1>2, <1>3 DEF SocketsFit, Sockets
<1>13. \A w \in Users \ {u} : Kept(w)
  BY <1>2 DEF Kept, PoolTypes
<1>14. (NoLeak => NoLeak') /\ Len(conns) <= Len(conns')
  BY <1>2, <1>3, <1>5 DEF NoLeak, PoolTypes
<1> QED BY <1>7, <1>8, <1>9, <1>10, <1>11, <1>12, <1>13, <1>14 DEF Fine

(***************************************************************************)
(* Who is turned away by a drained pool, or leaves after that, has had     *)
(* nothing and is not in line.                                             *)
(***************************************************************************)
LEMMA IdlingIsFine ==
  ASSUME PoolInv, NEW u \in Users, at[u] \in {"away", "refused"},
         NEW to \in {"away", "refused"}, Goes(u, to, 0),
         UNCHANGED <<conns, entries, queue, drainVars>>
  PROVE  Fine(Users \ {u})
<1> USE DEF PoolInv
<1>1. held[u] = 0 BY DEF HeldOnce
<1>2. /\ held' = held /\ at' = [at EXCEPT ![u] = to]
      /\ UNCHANGED <<conns, entries, queue, drained, closing, cursor>>
  BY <1>1 DEF Goes, PoolTypes, drainVars
<1>3. PoolTypes' BY <1>2 DEF PoolTypes
<1>4. HeldOnce' BY <1>1, <1>2 DEF PoolTypes, HeldOnce
<1>5. DialledAreHeld' BY <1>2 DEF PoolTypes, DialledAreHeld
<1>6. SpareAreFree' BY <1>2 DEF SpareAreFree
<1>7. LineOK' BY <1>2 DEF PoolTypes, LineOK
<1>8. SocketsFit' BY <1>2 DEF SocketsFit, Sockets
<1>9. \A w \in Users \ {u} : Kept(w) BY <1>2 DEF Kept, PoolTypes
<1>10. (NoLeak => NoLeak') /\ Len(conns) <= Len(conns') BY <1>2 DEF NoLeak, PoolTypes
<1> QED BY <1>3, <1>4, <1>5, <1>6, <1>7, <1>8, <1>9, <1>10 DEF Fine

(***************************************************************************)
(* Any acquire.                                                            *)
(***************************************************************************)
LEMMA AcquireIsFine ==
  ASSUME ConstantsOK, PoolInv, NEW u \in Users, Acquire(u)
  PROVE  Fine(Users \ {u})
<1>1. CASE Reuse(u) BY <1>1, ReuseIsFine DEF Acquire
<1>2. CASE Dial(u) BY <1>2, DialIsFine DEF Acquire
<1>3. CASE Enqueue(u) BY <1>3, EnqueueIsFine DEF Acquire
<1>4. CASE Refuse(u) BY <1>4, IdlingIsFine DEF Acquire, Refuse
<1> QED BY <1>1, <1>2, <1>3, <1>4 DEF Acquire

-----------------------------------------------------------------------------
(***************************************************************************)
(* One connection changes.                                                 *)
(***************************************************************************)
LEMMA OneChanges ==
  ASSUME conns \in Seq(Conn), NEW c \in 1..Len(conns), NEW x \in Conn,
         conns' = [conns EXCEPT ![c] = x]
  PROVE  /\ conns' \in Seq(Conn) /\ Len(conns') = Len(conns)
         /\ conns'[c] = x /\ \A d \in 1..Len(conns) : d # c => conns'[d] = conns[d]
OBVIOUS

(***************************************************************************)
(* The slot of a connection is gone.                                       *)
(***************************************************************************)
LEMMA WithoutDrops ==
  ASSUME ListOK(entries), NEW c \in Nat
  PROVE  LET fs == Without(entries, c)
         IN /\ ListOK(fs) /\ Len(fs) <= Len(entries)
            /\ Busy(fs) = Busy(entries) \ {c} /\ Spare(fs) = Spare(entries) \ {c}
<1> DEFINE fs == Without(entries, c)
           i == CHOOSE i \in DOMAIN entries : entries[i].client = c
<1>1. DOMAIN entries = 1..Len(entries) /\ Len(entries) \in Nat BY DEF ListOK
<1>2. CASE \E j \in 1..Len(entries) : entries[j].client = c
  <2>1. i \in 1..Len(entries) /\ entries[i].client = c BY <1>1, <1>2
  <2>2. fs = RemoveAt(entries, i) BY <1>1, <1>2 DEF Without
  <2> HIDE DEF i
  <2>3. LET gs == RemoveAt(entries, i)
            d == entries[i].client
        IN /\ ListOK(gs) /\ Len(gs) = Len(entries) - 1
           /\ Busy(gs) = Busy(entries) \ {d} /\ Spare(gs) = Spare(entries) \ {d}
    BY <2>1, SlotGoes
  <2> HIDE DEF fs
  <2> QED BY <1>1, <2>1, <2>2, <2>3 DEF fs
<1>3. CASE ~\E j \in 1..Len(entries) : entries[j].client = c
  <2>1. fs = entries BY <1>1, <1>3 DEF Without
  <2>2. c \notin Busy(entries) \union Spare(entries) BY <1>3 DEF Busy, Spare
  <2> HIDE DEF fs
  <2> QED BY <1>1, <2>1, <2>2 DEF fs
<1> QED BY <1>2, <1>3

(***************************************************************************)
(* A dial that lands serves whoever dialled.                               *)
(***************************************************************************)
LEMMA LandIsFine ==
  ASSUME PoolInv, NEW u \in Users, Land(u)
  PROVE  Fine(Users \ {u})
<1> DEFINE c == held[u]
           x == [conns[c] EXCEPT !.state = "open"]
<1> USE DEF PoolInv
<1>1. /\ at[u] = "dialling" /\ ~drained /\ conns' = [conns EXCEPT ![c] = x]
      /\ at' = [at EXCEPT ![u] = "serving"] /\ held' = held
      /\ UNCHANGED <<entries, queue, drained, closing, cursor>>
  BY DEF Land, Goes, drainVars, PoolTypes
<1>2. c \in 1..Len(conns) /\ conns[c] \in Conn /\ conns[c].state = "dialling"
  <2>1. c # 0 /\ c \in 0..Len(conns) /\ Len(conns) \in Nat BY <1>1 DEF HeldOnce, PoolTypes
  <2> QED BY <1>1, <2>1 DEF DialledAreHeld, PoolTypes
<1>3. x \in Conn /\ x.state = "open" BY <1>2 DEF Conn
<1> HIDE DEF x
<1>4. /\ conns' \in Seq(Conn) /\ Len(conns') = Len(conns)
      /\ conns'[c] = x /\ \A d \in 1..Len(conns) : d # c => conns'[d] = conns[d]
  BY <1>1, <1>2, <1>3, OneChanges DEF PoolTypes
<1>5. \A w \in Users \ {u} : held[w] # c /\ at'[w] = at[w]
  BY <1>1, <1>2 DEF HeldOnce, PoolTypes
<1>6. at'[u] = "serving" BY <1>1 DEF PoolTypes
<1>7. PoolTypes' BY <1>1, <1>4 DEF PoolTypes
<1>8. HeldOnce' BY <1>1, <1>5, <1>6 DEF HeldOnce
<1>9. DialledAreHeld'
  <2>1. \A w \in Users : at'[w] = "dialling" => conns'[held'[w]].state = "dialling"
    <3> SUFFICES ASSUME NEW w \in Users, at'[w] = "dialling"
                 PROVE  conns'[held[w]].state = "dialling"
      BY <1>1
    <3>1. w # u /\ at[w] = "dialling" BY <1>5, <1>6
    <3>2. held[w] \in 1..Len(conns) /\ held[w] # c
      BY <1>5, <3>1 DEF HeldOnce, PoolTypes
    <3> QED BY <3>1, <3>2, <1>4 DEF DialledAreHeld
  <2>2. ASSUME NEW d \in 1..Len(conns'), conns'[d].state = "dialling"
        PROVE  \E w \in Users : at'[w] = "dialling" /\ held'[w] = d
    <3>1. d # c /\ d \in 1..Len(conns) BY <1>3, <1>4, <2>2
    <3>2. PICK w \in Users : at[w] = "dialling" /\ held[w] = d
      BY <1>4, <2>2, <3>1 DEF DialledAreHeld
    <3> QED BY <1>1, <1>5, <3>1, <3>2
  <2>3. closing' # 0 => drained' /\ conns'[closing'].state # "dialling"
    BY <1>1 DEF DialledAreHeld
  <2> QED BY <2>1, <2>2, <2>3 DEF DialledAreHeld
<1>10. SpareAreFree' BY <1>1 DEF SpareAreFree
<1>11. LineOK' BY <1>1 DEF PoolTypes, LineOK
<1>12. SocketsFit'
  <2>1. Sockets' = Sockets BY <1>2, <1>3, <1>4 DEF Sockets
  <2> QED BY <1>1, <2>1 DEF SocketsFit
<1>13. \A w \in Users \ {u} : Kept(w)
  <2> SUFFICES ASSUME NEW w \in Users \ {u}, at[w] = "serving" PROVE Kept(w)
    BY <1>5 DEF Kept
  <2>1. held[w] \in 1..Len(conns) /\ held[w] # c BY <1>5 DEF HeldOnce, PoolTypes
  <2> QED BY <1>1, <1>4, <1>5, <2>1 DEF Kept
<1>14. (NoLeak => NoLeak') /\ Len(conns) <= Len(conns') BY <1>1, <1>4 DEF NoLeak, PoolTypes
<1> QED BY <1>7, <1>8, <1>9, <1>10, <1>11, <1>12, <1>13, <1>14 DEF Fine

(***************************************************************************)
(* A dial that fails, or lands too late.                                   *)
(***************************************************************************)
LEMMA DialEndsFine ==
  ASSUME ConstantsOK, PoolInv, NEW u \in Users, at[u] = "dialling",
         conns' = [conns EXCEPT ![held[u]] = Gone], entries' = Without(entries, held[u]),
         Goes(u, "refused", 0), UNCHANGED <<queue, drainVars>>
  PROVE  Fine(Users \ {u})
<1> DEFINE c == held[u]
<1> USE DEF PoolInv
<1>1. /\ at' = [at EXCEPT ![u] = "refused"] /\ held' = [held EXCEPT ![u] = 0]
      /\ UNCHANGED <<queue, drained, closing, cursor>>
  BY DEF Goes, drainVars
<1>2. c \in 1..Len(conns) /\ Len(conns) \in Nat /\ conns[c].state = "dialling"
  <2>1. c # 0 /\ c \in 0..Len(conns) /\ Len(conns) \in Nat BY DEF HeldOnce, PoolTypes
  <2> QED BY <2>1 DEF DialledAreHeld
<1>3. Gone \in Conn /\ Gone.state = "gone" BY DEF Conn, Gone
<1>4. /\ conns' \in Seq(Conn) /\ Len(conns') = Len(conns)
      /\ conns'[c] = Gone /\ \A d \in 1..Len(conns) : d # c => conns'[d] = conns[d]
  BY <1>2, <1>3, OneChanges DEF PoolTypes
<1>5. /\ ListOK(entries') /\ Len(entries') <= Len(entries) /\ Len(entries') \in Nat
      /\ Busy(entries') = Busy(entries) \ {c} /\ Spare(entries') = Spare(entries) \ {c}
  <2>1. c \in Nat BY <1>2
  <2>2. LET fs == Without(entries, c)
        IN /\ ListOK(fs) /\ Len(fs) <= Len(entries)
           /\ Busy(fs) = Busy(entries) \ {c} /\ Spare(fs) = Spare(entries) \ {c}
    BY <2>1, WithoutDrops DEF PoolTypes
  <2> QED BY <2>2 DEF ListOK
<1> HIDE DEF c
<1>6. \A w \in Users \ {u} : held[w] # c /\ at'[w] = at[w] /\ held'[w] = held[w]
  BY <1>1, <1>2 DEF HeldOnce, PoolTypes, c
<1>7. at'[u] = "refused" /\ held'[u] = 0 BY <1>1 DEF PoolTypes
<1>8. PoolTypes'
  <2>1. Len(entries') <= PoolSize
    <3>1. PoolSize \in Nat /\ Len(entries) \in Nat BY DEF ConstantsOK, PoolTypes, ListOK
    <3> QED BY <1>5, <3>1 DEF PoolTypes
  <2>2. held' \in [Users -> 0..Len(conns)] BY <1>1, <1>2 DEF PoolTypes
  <2>3. at' \in [Users -> {"away", "dialling", "queued", "serving", "refused"}]
    BY <1>1 DEF PoolTypes
  <2>4. Busy(entries') \union Spare(entries') \subseteq 1..Len(conns) BY <1>5 DEF PoolTypes
  <2>5. closing' \in 0..Len(conns) /\ cursor' \in 0..Len(conns) BY <1>1 DEF PoolTypes
  <2> QED BY <1>1, <1>4, <1>5, <2>1, <2>2, <2>3, <2>4, <2>5 DEF PoolTypes
<1>9. HeldOnce' BY <1>6, <1>7 DEF HeldOnce
<1>10. DialledAreHeld'
  <2>1. \A w \in Users : at'[w] = "dialling" => conns'[held'[w]].state = "dialling"
    <3> SUFFICES ASSUME NEW w \in Users, at'[w] = "dialling"
                 PROVE  conns'[held'[w]].state = "dialling"
      OBVIOUS
    <3>1. w # u /\ at[w] = "dialling" /\ held'[w] = held[w] BY <1>6, <1>7
    <3>2. held[w] \in 1..Len(conns) /\ held[w] # c
      BY <1>6, <3>1 DEF HeldOnce, PoolTypes
    <3> QED BY <3>1, <3>2, <1>4 DEF DialledAreHeld
  <2>2. ASSUME NEW d \in 1..Len(conns'), conns'[d].state = "dialling"
        PROVE  \E w \in Users : at'[w] = "dialling" /\ held'[w] = d
    <3>1. d # c /\ d \in 1..Len(conns) BY <1>3, <1>4, <2>2
    <3>2. PICK w \in Users : at[w] = "dialling" /\ held[w] = d
      BY <1>4, <2>2, <3>1 DEF DialledAreHeld
    <3>3. w # u BY <3>1, <3>2 DEF c
    <3> QED BY <1>6, <3>2, <3>3
  <2>3. closing' # 0 => drained' /\ conns'[closing'].state # "dialling"
    <3> SUFFICES ASSUME closing # 0 PROVE drained /\ conns'[closing].state # "dialling"
      BY <1>1
    <3>1. closing \in 1..Len(conns) /\ closing # c BY <1>2 DEF PoolTypes, DialledAreHeld
    <3> QED BY <3>1, <1>4 DEF DialledAreHeld
  <2> QED BY <2>1, <2>2, <2>3 DEF DialledAreHeld
<1>11. SpareAreFree'
  <2>1. Spare(entries') \subseteq Spare(entries) /\ 0 \notin Spare(entries)
    BY <1>5 DEF PoolTypes
  <2> QED BY <1>1, <1>6, <1>7, <2>1 DEF SpareAreFree
<1>12. LineOK' BY <1>1 DEF PoolTypes, LineOK
<1>13. SocketsFit'
  <2>1. Sockets' \subseteq Sockets \ {c} BY <1>3, <1>4 DEF Sockets
  <2>2. PoolSize \in Nat BY DEF ConstantsOK
  <2>3. (Cardinality(Sockets) <= PoolSize)' BY <2>1, <2>2, SocketsStayFew DEF PoolTypes
  <2>4. ~drained' => Sockets' \subseteq Busy(entries') \union Spare(entries')
    BY <1>1, <1>5, <2>1 DEF SocketsFit
  <2> QED BY <2>3, <2>4 DEF SocketsFit
<1>14. \A w \in Users \ {u} : Kept(w)
  <2> SUFFICES ASSUME NEW w \in Users \ {u}, at[w] = "serving" PROVE Kept(w)
    BY <1>6 DEF Kept
  <2>1. held[w] \in 1..Len(conns) /\ held[w] # c BY <1>6 DEF HeldOnce, PoolTypes
  <2> QED BY <1>4, <1>6, <2>1 DEF Kept
<1>15. NoLeak => NoLeak'
  <2> SUFFICES ASSUME NoLeak, NEW d \in Busy(entries) \ {c} PROVE \E w \in Users : held'[w] = d
    BY <1>5 DEF NoLeak
  <2>1. PICK w \in Users : held[w] = d BY DEF NoLeak
  <2>2. w # u BY <2>1 DEF c
  <2> QED BY <2>1, <2>2, <1>6
<1> QED BY <1>2, <1>4, <1>8, <1>9, <1>10, <1>11, <1>12, <1>13, <1>14, <1>15 DEF Fine

-----------------------------------------------------------------------------
(* A release, during which the connection may note another mailbox. *)

Notes(c) ==
  /\ conns' \in Seq(Conn) /\ Len(conns') = Len(conns)
  /\ \A d \in 1..Len(conns) : conns'[d].state = conns[d].state
  /\ \A d \in 1..Len(conns) : d # c => conns'[d] = conns[d]

(***************************************************************************)
(* A connection that notes a mailbox is the socket it was.                 *)
(***************************************************************************)
LEMMA NotesAreNoFaults ==
  ASSUME PoolTypes, NEW c, Notes(c)
  PROVE  Sockets' = Sockets
BY DEF Notes, Sockets, PoolTypes

(***************************************************************************)
(* A release that hands nothing over: the slot is idle or gone.            *)
(***************************************************************************)
LEMMA LeavingIsFine ==
  ASSUME PoolInv, NEW u \in Users, at[u] = "serving", Notes(held[u]),
         ListOK(entries'), Len(entries') <= PoolSize,
         Busy(entries') = Busy(entries) \ {held[u]},
         Spare(entries) \subseteq Spare(entries'),
         Spare(entries') \subseteq Spare(entries) \union {held[u]},
         held[u] \in Spare(entries') => queue = <<>>,
         held[u] \in Sockets /\ held[u] \in Busy(entries) => held[u] \in Spare(entries'),
         Goes(u, "away", 0), UNCHANGED <<queue, drainVars>>
  PROVE  Fine(Users \ {u})
<1> DEFINE c == held[u]
<1> USE DEF PoolInv
<1>1. /\ at' = [at EXCEPT ![u] = "away"] /\ held' = [held EXCEPT ![u] = 0]
      /\ UNCHANGED <<queue, drained, closing, cursor>>
  BY DEF Goes, drainVars
<1>2. c \in 1..Len(conns) /\ Len(conns) \in Nat
  BY DEF HeldOnce, PoolTypes
<1>3. /\ conns' \in Seq(Conn) /\ Len(conns') = Len(conns)
      /\ \A d \in 1..Len(conns) : conns'[d].state = conns[d].state
      /\ \A d \in 1..Len(conns) : d # c => conns'[d] = conns[d]
  BY DEF Notes
<1>4. Sockets' = Sockets BY NotesAreNoFaults
<1> HIDE DEF c
<1>5. \A w \in Users \ {u} : held[w] # c /\ at'[w] = at[w] /\ held'[w] = held[w]
  BY <1>1, <1>2 DEF HeldOnce, PoolTypes, c
<1>6. at'[u] = "away" /\ held'[u] = 0 BY <1>1 DEF PoolTypes
<1>7. /\ Busy(entries') = Busy(entries) \ {c} /\ Spare(entries) \subseteq Spare(entries')
      /\ Spare(entries') \subseteq Spare(entries) \union {c}
      /\ c \in Spare(entries') => queue = <<>>
      /\ c \in Sockets /\ c \in Busy(entries) => c \in Spare(entries')
  BY DEF c
<1>8. PoolTypes'
  <2>1. held' \in [Users -> 0..Len(conns)] BY <1>1, <1>2 DEF PoolTypes
  <2>2. at' \in [Users -> {"away", "dialling", "queued", "serving", "refused"}]
    BY <1>1 DEF PoolTypes
  <2>3. Busy(entries') \union Spare(entries') \subseteq 1..Len(conns) BY <1>2, <1>7 DEF PoolTypes
  <2>4. closing' \in 0..Len(conns) /\ cursor' \in 0..Len(conns) BY <1>1 DEF PoolTypes
  <2> QED BY <1>1, <1>3, <2>1, <2>2, <2>3, <2>4 DEF PoolTypes
<1>9. HeldOnce' BY <1>5, <1>6 DEF HeldOnce
<1>10. DialledAreHeld'
  <2>1. \A w \in Users : at'[w] = "dialling" => conns'[held'[w]].state = "dialling"
    <3> SUFFICES ASSUME NEW w \in Users, at'[w] = "dialling"
                 PROVE  conns'[held'[w]].state = "dialling"
      OBVIOUS
    <3>1. w # u /\ at[w] = "dialling" /\ held'[w] = held[w] BY <1>5, <1>6
    <3>2. held[w] \in 1..Len(conns) BY <3>1, <1>2 DEF HeldOnce, PoolTypes
    <3> QED BY <3>1, <3>2, <1>3 DEF DialledAreHeld
  <2>2. ASSUME NEW d \in 1..Len(conns'), conns'[d].state = "dialling"
        PROVE  \E w \in Users : at'[w] = "dialling" /\ held'[w] = d
    <3>1. d \in 1..Len(conns) /\ conns[d].state = "dialling" BY <1>3, <2>2
    <3>2. PICK w \in Users : at[w] = "dialling" /\ held[w] = d
      BY <3>1 DEF DialledAreHeld
    <3>3. w # u BY <3>2
    <3> QED BY <1>5, <3>2, <3>3
  <2>3. closing' # 0 => drained' /\ conns'[closing'].state # "dialling"
    <3> SUFFICES ASSUME closing # 0 PROVE drained /\ conns'[closing].state # "dialling"
      BY <1>1
    <3>1. closing \in 1..Len(conns) BY <1>2 DEF PoolTypes
    <3> QED BY <3>1, <1>3 DEF DialledAreHeld
  <2> QED BY <2>1, <2>2, <2>3 DEF DialledAreHeld
<1>11. SpareAreFree'
  <2>1. Spare(entries') # {} => queue = <<>> BY <1>7 DEF SpareAreFree
  <2>2. ASSUME NEW w \in Users PROVE held'[w] \notin Spare(entries')
    <3>1. 0 \notin Spare(entries) \union {c} BY <1>2 DEF PoolTypes
    <3>2. CASE w = u BY <3>1, <3>2, <1>6, <1>7
    <3>3. CASE w # u BY <3>3, <1>5, <1>7 DEF SpareAreFree
    <3> QED BY <3>2, <3>3
  <2> QED BY <1>1, <2>1, <2>2 DEF SpareAreFree
<1>12. LineOK'
  <2>1. \A w \in Users : at'[w] = "queued" => at[w] = "queued" BY <1>5, <1>6
  <2>2. \A i \in 1..Len(queue) : queue[i] \in Users /\ at'[queue[i]] = "queued"
    BY <1>5 DEF PoolTypes, LineOK
  <2> QED BY <1>1, <2>1, <2>2 DEF LineOK
<1>13. SocketsFit'
  <2>1. ~drained => Sockets \subseteq Busy(entries') \union Spare(entries')
    BY <1>7 DEF SocketsFit
  <2> QED BY <1>1, <1>4, <2>1 DEF SocketsFit
<1>14. \A w \in Users \ {u} : Kept(w)
  <2> SUFFICES ASSUME NEW w \in Users \ {u}, at[w] = "serving" PROVE Kept(w)
    BY <1>5 DEF Kept
  <2>1. held[w] \in 1..Len(conns) /\ held[w] # c BY <1>5, <1>2 DEF HeldOnce, PoolTypes
  <2> QED BY <1>3, <1>5, <2>1 DEF Kept
<1>15. NoLeak => NoLeak'
  <2> SUFFICES ASSUME NoLeak, NEW d \in Busy(entries) \ {c} PROVE \E w \in Users : held'[w] = d
    BY <1>7 DEF NoLeak
  <2>1. PICK w \in Users : held[w] = d BY DEF NoLeak
  <2>2. w # u BY <2>1 DEF c
  <2> QED BY <2>1, <2>2, <1>5
<1> QED BY <1>2, <1>3, <1>8, <1>9, <1>10, <1>11, <1>12, <1>13, <1>14, <1>15 DEF Fine

(***************************************************************************)
(* A release that hands the connection to the first in line.               *)
(***************************************************************************)
LEMMA HandingOverIsFine ==
  ASSUME PoolInv, NEW u \in Users, at[u] = "serving", Notes(held[u]),
         queue # <<>>, queue' = Tail(queue),
         at' = [at EXCEPT ![u] = "away", ![Head(queue)] = "serving"],
         held' = [held EXCEPT ![u] = 0, ![Head(queue)] = held[u]],
         UNCHANGED <<entries, drainVars>>
  PROVE  Fine(Users \ {u})
<1> DEFINE c == held[u]
           h == Head(queue)
<1> USE DEF PoolInv
<1>1. UNCHANGED <<entries, drained, closing, cursor>> BY DEF drainVars
<1>2. c \in 1..Len(conns) /\ Len(conns) \in Nat BY DEF HeldOnce, PoolTypes
<1>3. /\ conns' \in Seq(Conn) /\ Len(conns') = Len(conns)
      /\ \A d \in 1..Len(conns) : conns'[d].state = conns[d].state
      /\ \A d \in 1..Len(conns) : d # c => conns'[d] = conns[d]
  BY DEF Notes
<1>4. Sockets' = Sockets BY NotesAreNoFaults
<1>5. /\ queue \in Seq(Users) /\ Len(queue) \in Nat \ {0} /\ h \in Users /\ h = queue[1]
      /\ queue' \in Seq(Users) /\ Len(queue') = Len(queue) - 1
      /\ \A i \in 1..Len(queue') : queue'[i] = queue[i + 1] /\ i + 1 \in 1..Len(queue)
  BY DEF PoolTypes
<1>6. 1 \in 1..Len(queue) /\ at[h] = "queued" BY <1>5 DEF LineOK
<1>7. h # u BY <1>6
<1> HIDE DEF c, h
<1>8. /\ at'[u] = "away" /\ at'[h] = "serving" /\ held'[u] = 0 /\ held'[h] = c
      /\ \A w \in Users \ {u, h} : at'[w] = at[w] /\ held'[w] = held[w]
      /\ held[h] = 0
  <2>1. held[h] = 0 BY <1>5, <1>6 DEF HeldOnce
  <2> QED BY <1>5, <1>7, <2>1 DEF PoolTypes, c, h
<1>9. \A w \in Users \ {u} : held[w] # c BY <1>2 DEF HeldOnce, c
<1>10. PoolTypes'
  <2>1. held' \in [Users -> 0..Len(conns)] BY <1>2, <1>5 DEF PoolTypes, c, h
  <2>2. at' \in [Users -> {"away", "dialling", "queued", "serving", "refused"}]
    BY <1>5 DEF PoolTypes, h
  <2>3. closing' \in 0..Len(conns) /\ cursor' \in 0..Len(conns) BY <1>1 DEF PoolTypes
  <2> QED BY <1>1, <1>3, <1>5, <2>1, <2>2, <2>3 DEF PoolTypes
<1>11. HeldOnce'
  <2>1. ASSUME NEW w \in Users PROVE held'[w] # 0 <=> at'[w] \in {"dialling", "serving"}
    <3>1. CASE w \in {u, h} BY <3>1, <1>2, <1>8
    <3>2. CASE w \notin {u, h} BY <3>2, <1>8 DEF HeldOnce
    <3> QED BY <3>1, <3>2
  <2>2. ASSUME NEW v \in Users, NEW w \in Users, held'[v] = held'[w], held'[v] # 0 PROVE v = w
    <3>1. v # u /\ w # u BY <1>8, <2>2
    <3>2. CASE v = h \/ w = h BY <3>1, <3>2, <1>8, <1>9, <2>2
    <3>3. CASE v # h /\ w # h BY <3>1, <3>3, <1>8, <2>2 DEF HeldOnce
    <3> QED BY <3>2, <3>3
  <2> QED BY <2>1, <2>2 DEF HeldOnce
<1>12. DialledAreHeld'
  <2>1. \A w \in Users : at'[w] = "dialling" => conns'[held'[w]].state = "dialling"
    <3> SUFFICES ASSUME NEW w \in Users, at'[w] = "dialling"
                 PROVE  conns'[held'[w]].state = "dialling"
      OBVIOUS
    <3>1. w \notin {u, h} /\ at[w] = "dialling" /\ held'[w] = held[w] BY <1>8
    <3>2. held[w] \in 1..Len(conns) BY <3>1, <1>2 DEF HeldOnce, PoolTypes
    <3> QED BY <3>1, <3>2, <1>3 DEF DialledAreHeld
  <2>2. ASSUME NEW d \in 1..Len(conns'), conns'[d].state = "dialling"
        PROVE  \E w \in Users : at'[w] = "dialling" /\ held'[w] = d
    <3>1. d \in 1..Len(conns) /\ conns[d].state = "dialling" BY <1>3, <2>2
    <3>2. PICK w \in Users : at[w] = "dialling" /\ held[w] = d
      BY <3>1 DEF DialledAreHeld
    <3>3. w # u /\ w # h BY <3>2, <1>6
    <3> QED BY <1>8, <3>2, <3>3
  <2>3. closing' # 0 => drained' /\ conns'[closing'].state # "dialling"
    <3> SUFFICES ASSUME closing # 0 PROVE drained /\ conns'[closing].state # "dialling"
      BY <1>1
    <3>1. closing \in 1..Len(conns) BY <1>2 DEF PoolTypes
    <3> QED BY <3>1, <1>3 DEF DialledAreHeld
  <2> QED BY <2>1, <2>2, <2>3 DEF DialledAreHeld
<1>13. SpareAreFree' BY <1>1 DEF SpareAreFree
<1>14. LineOK'
  <2>1. ASSUME NEW i \in 1..Len(queue') PROVE at'[queue'[i]] = "queued"
    <3>1. queue'[i] = queue[i + 1] /\ i + 1 \in 1..Len(queue) /\ i + 1 # 1 BY <1>5
    <3>2. queue'[i] \in Users /\ at[queue'[i]] = "queued" /\ queue'[i] # h
      BY <1>5, <1>6, <3>1 DEF LineOK
    <3> QED BY <1>8, <3>2
  <2>2. ASSUME NEW w \in Users, at'[w] = "queued" PROVE \E i \in 1..Len(queue') : queue'[i] = w
    <3>1. w \notin {u, h} /\ at[w] = "queued" BY <1>8, <2>2
    <3>2. PICK k \in 1..Len(queue) : queue[k] = w BY <3>1 DEF LineOK
    <3>3. k # 1 BY <1>5, <3>1, <3>2
    <3>4. k - 1 \in 1..Len(queue') /\ (k - 1) + 1 = k BY <1>5, <3>3
    <3> QED BY <1>5, <3>2, <3>4
  <2>3. ASSUME NEW i \in 1..Len(queue'), NEW j \in 1..Len(queue'), queue'[i] = queue'[j] PROVE i = j
    <3>1. i + 1 = j + 1 BY <1>5, <2>3 DEF LineOK
    <3> QED BY <3>1, <1>5
  <2>4. ~drained' BY <1>1 DEF LineOK
  <2> QED BY <2>1, <2>2, <2>3, <2>4 DEF LineOK
<1>15. SocketsFit' BY <1>1, <1>4 DEF SocketsFit
<1>16. ASSUME NEW w \in Users \ {u} PROVE Kept(w)
  <2>1. CASE w = h BY <2>1, <1>6 DEF Kept
  <2>2. CASE w # h /\ at[w] = "serving"
    <3>1. held[w] \in 1..Len(conns) /\ held[w] # c BY <2>2, <1>2, <1>9 DEF HeldOnce, PoolTypes
    <3> QED BY <1>3, <1>8, <2>2, <3>1 DEF Kept
  <2>3. CASE w # h /\ at[w] # "serving" BY <2>3, <1>8 DEF Kept
  <2> QED BY <2>1, <2>2, <2>3
<1>17. NoLeak => NoLeak'
  <2> SUFFICES ASSUME NoLeak, NEW d \in Busy(entries) PROVE \E w \in Users : held'[w] = d
    BY <1>1 DEF NoLeak
  <2>1. PICK w \in Users : held[w] = d BY DEF NoLeak
  <2>2. CASE w = u BY <2>1, <2>2, <1>5, <1>8 DEF c
  <2>3. CASE w # u
    <3>1. w # h BY <2>1, <1>8 DEF PoolTypes
    <3> QED BY <2>1, <2>3, <3>1, <1>8
  <2> QED BY <2>2, <2>3
<1> QED BY <1>2, <1>3, <1>10, <1>11, <1>12, <1>13, <1>14, <1>15, <1>16, <1>17 DEF Fine

(***************************************************************************)
(* Any release.                                                            *)
(***************************************************************************)
LEMMA ReleaseIsFine ==
  ASSUME ConstantsOK, PoolInv, NEW u \in Users, at[u] = "serving", Release(u),
         Notes(held[u]), UNCHANGED drainVars
  PROVE  Fine(Users \ {u}) /\ at'[u] = "away"
<1> DEFINE c == held[u]
           pooled == \E i \in DOMAIN entries : entries[i].client = c
<1> USE DEF PoolInv
<1>1. c \in 1..Len(conns) /\ Len(conns) \in Nat /\ conns[c] \in Conn BY DEF HeldOnce, PoolTypes
<1>2. conns[c].state # "dialling" BY <1>1 DEF DialledAreHeld, HeldOnce
<1>3. /\ ListOK(entries) /\ DOMAIN entries = 1..Len(entries) /\ Len(entries) \in Nat
      /\ Len(entries) <= PoolSize /\ PoolSize \in Nat
  BY DEF PoolTypes, ListOK, ConstantsOK
<1>4. c \notin Spare(entries) BY DEF SpareAreFree
<1>5. c \in Busy(entries) => pooled BY <1>3 DEF Busy
<1>6. c \in Sockets <=> Usable(c) BY <1>1, <1>2 DEF Sockets, Usable, Conn
<1>7. CASE pooled /\ Usable(c) /\ queue # <<>>
  <2>1. /\ queue' = Tail(queue) /\ entries' = entries
        /\ at' = [at EXCEPT ![u] = "away", ![Head(queue)] = "serving"]
        /\ held' = [held EXCEPT ![u] = 0, ![Head(queue)] = c]
    BY <1>7 DEF Release
  <2>2. Head(queue) \in Users /\ at[Head(queue)] = "queued"
    BY <1>7 DEF PoolTypes, LineOK
  <2>3. at'[u] = "away" BY <2>1, <2>2 DEF PoolTypes
  <2> QED BY <1>7, <2>1, <2>3, HandingOverIsFine
<1>8. CASE ~(pooled /\ Usable(c) /\ queue # <<>>)
  <2>1. /\ entries' = IF Usable(c) THEN Freed(c) ELSE Without(entries, c)
        /\ Goes(u, "away", 0) /\ queue' = queue
    BY <1>8 DEF Release
  <2>2. at'[u] = "away" BY <2>1 DEF Goes, PoolTypes
  <2>3. CASE Usable(c)
    <3>1. /\ ListOK(Freed(c)) /\ Len(Freed(c)) = Len(entries)
          /\ Busy(Freed(c)) = Busy(entries) \ {c}
          /\ Spare(Freed(c)) = Spare(entries) \union ({c} \intersect Busy(entries))
      BY <1>3, SlotIsFreed
    <3>2. entries' = Freed(c) BY <2>1, <2>3
    <3> HIDE DEF c, pooled
    <3>3. /\ ListOK(entries') /\ Len(entries') <= PoolSize
          /\ Busy(entries') = Busy(entries) \ {c}
          /\ Spare(entries) \subseteq Spare(entries')
          /\ Spare(entries') \subseteq Spare(entries) \union {c}
          /\ c \in Spare(entries') => queue = <<>>
          /\ c \in Sockets /\ c \in Busy(entries) => c \in Spare(entries')
      BY <1>3, <1>4, <1>5, <1>8, <2>3, <3>1, <3>2
    <3> QED BY <2>1, <2>2, <3>3, LeavingIsFine DEF c
  <2>4. CASE ~Usable(c)
    <3>1. LET fs == Without(entries, c)
          IN /\ ListOK(fs) /\ Len(fs) <= Len(entries)
             /\ Busy(fs) = Busy(entries) \ {c} /\ Spare(fs) = Spare(entries) \ {c}
      BY <1>1, <1>3, WithoutDrops
    <3>2. entries' = Without(entries, c) BY <2>1, <2>4
    <3> HIDE DEF c, pooled
    <3>3. Len(entries') \in Nat BY <3>1, <3>2 DEF ListOK
    <3>4. /\ ListOK(entries') /\ Len(entries') <= PoolSize
          /\ Busy(entries') = Busy(entries) \ {c}
          /\ Spare(entries) \subseteq Spare(entries')
          /\ Spare(entries') \subseteq Spare(entries) \union {c}
          /\ c \in Spare(entries') => queue = <<>>
          /\ c \in Sockets /\ c \in Busy(entries) => c \in Spare(entries')
      BY <1>3, <1>4, <1>6, <2>4, <3>1, <3>2, <3>3
    <3> QED BY <2>1, <2>2, <3>4, LeavingIsFine DEF c
  <2> QED BY <2>3, <2>4
<1> QED BY <1>7, <1>8

-----------------------------------------------------------------------------
(***************************************************************************)
(* What changes connections only, and of those only how they are or what   *)
(* they note, is fine for whoever's connection it leaves alone.            *)
(***************************************************************************)
LEMMA NotingIsFine ==
  ASSUME PoolInv, NEW u \in Users, at[u] = "serving", Notes(held[u]),
         UNCHANGED <<entries, queue, drainVars, at, held>>
  PROVE  Fine(Users \ {u})
<1> DEFINE c == held[u]
<1> USE DEF PoolInv
<1>1. UNCHANGED <<entries, queue, drained, closing, cursor, at, held>> BY DEF drainVars
<1>2. c \in 1..Len(conns) /\ Len(conns) \in Nat BY DEF HeldOnce, PoolTypes
<1>3. /\ conns' \in Seq(Conn) /\ Len(conns') = Len(conns)
      /\ \A d \in 1..Len(conns) : conns'[d].state = conns[d].state
      /\ \A d \in 1..Len(conns) : d # c => conns'[d] = conns[d]
  BY DEF Notes
<1>4. Sockets' = Sockets BY NotesAreNoFaults
<1> HIDE DEF c
<1>5. PoolTypes' BY <1>1, <1>3 DEF PoolTypes
<1>6. HeldOnce' BY <1>1 DEF HeldOnce
<1>7. DialledAreHeld'
  <2>1. \A w \in Users : at[w] = "dialling" => held[w] \in 1..Len(conns)
    BY <1>2 DEF HeldOnce, PoolTypes
  <2>2. closing # 0 => closing \in 1..Len(conns) BY <1>2 DEF PoolTypes
  <2> QED BY <1>1, <1>3, <2>1, <2>2 DEF DialledAreHeld
<1>8. SpareAreFree' BY <1>1 DEF SpareAreFree
<1>9. LineOK' BY <1>1 DEF LineOK
<1>10. SocketsFit' BY <1>1, <1>4 DEF SocketsFit
<1>11. ASSUME NEW w \in Users \ {u} PROVE Kept(w)
  <2>1. CASE at[w] = "serving"
    <3>1. held[w] \in 1..Len(conns) /\ held[w] # c BY <2>1, <1>2 DEF HeldOnce, PoolTypes, c
    <3> QED BY <1>1, <1>3, <3>1 DEF Kept
  <2>2. CASE at[w] # "serving" BY <1>1, <2>2 DEF Kept
  <2> QED BY <2>1, <2>2
<1>12. NoLeak => NoLeak' BY <1>1 DEF NoLeak
<1> QED BY <1>2, <1>3, <1>5, <1>6, <1>7, <1>8, <1>9, <1>10, <1>11, <1>12 DEF Fine

(***************************************************************************)
(* Opening a mailbox notes it.                                             *)
(***************************************************************************)
LEMMA OpeningNotes ==
  ASSUME ConstantsOK, PoolInv, NEW u \in Users, at[u] = "serving",
         conns' = [conns EXCEPT ![held[u]].box = Folder[u]]
  PROVE  /\ Notes(held[u]) /\ conns'[held[u]].box = Folder[u]
         /\ held[u] \in 1..Len(conns)
<1> DEFINE c == held[u]
           x == [conns[c] EXCEPT !.box = Folder[u]]
<1> USE DEF PoolInv
<1>1. c \in 1..Len(conns) /\ Len(conns) \in Nat /\ conns[c] \in Conn BY DEF HeldOnce, PoolTypes
<1>2. Folder[u] \in Boxes BY DEF ConstantsOK
<1>3. x \in Conn /\ x.state = conns[c].state /\ x.box = Folder[u] BY <1>1, <1>2 DEF Conn
<1>4. conns' = [conns EXCEPT ![c] = x] OBVIOUS
<1> HIDE DEF c, x
<1>5. /\ conns' \in Seq(Conn) /\ Len(conns') = Len(conns)
      /\ conns'[c] = x /\ \A d \in 1..Len(conns) : d # c => conns'[d] = conns[d]
  BY <1>1, <1>3, <1>4, OneChanges DEF PoolTypes
<1> QED BY <1>1, <1>3, <1>5 DEF Notes, c

(***************************************************************************)
(* What drain() goes through has a slot, and is not being dialled.         *)
(***************************************************************************)
LEMMA WalkStaysInside ==
  ASSUME PoolInv, NEW i \in Nat \ {0}, WalkFrom(i)
  PROVE  /\ entries' \in {<<>>, entries}
         /\ closing' \in 0..Len(conns) /\ cursor' \in 0..Len(conns)
         /\ closing' # 0 => conns[closing'].state # "dialling"
<1> DEFINE ahead == {j \in i..Len(entries) : conns[entries[j].client].state # "dialling"}
           n == Len(entries)
           f == [j \in 1..n |-> entries[j].client]
<1>1. /\ ListOK(entries) /\ n \in Nat /\ Len(conns) \in Nat
      /\ Busy(entries) \union Spare(entries) \subseteq 1..Len(conns)
  BY DEF PoolInv, PoolTypes, ListOK
<1>2. \A j \in 1..n : entries[j].client \in 1..Len(conns)
  BY <1>1, SlotsAreListed
<1>3. n <= Len(conns)
  <2>1. f \in Injection(1..n, 1..Len(conns))
    BY <1>1, <1>2 DEF Injection, IsInjective, ListOK, OneEach
  <2> HIDE DEF f, n
  <2>2. IsFiniteSet(1..Len(conns)) /\ Cardinality(1..Len(conns)) = Len(conns)
    <3> DEFINE m == Len(conns)
    <3>1. m \in Int /\ m >= 0 BY <1>1
    <3> HIDE DEF m
    <3>2. IsFiniteSet(1..m) /\ Cardinality(1..m) = m BY <3>1, FS_Interval
    <3> QED BY <3>2 DEF m
  <2>3. Cardinality(1..n) = n
    BY <1>1, FS_Interval
  <2>4. Cardinality(1..n) <= Cardinality(1..Len(conns))
    BY <2>1, <2>2, FS_Injection
  <2> QED BY <2>2, <2>3, <2>4
<1>4. CASE ahead = {}
  BY <1>1, <1>4 DEF WalkFrom
<1>5. CASE ahead # {}
  <2>1. ahead \subseteq Nat BY <1>1
  <2>2. Min(ahead) \in ahead BY <1>5, <2>1, MinIsLeast
  <2> DEFINE k == Min(ahead)
  <2>3. cursor' = k /\ closing' = entries[k].client /\ entries' = entries
    BY <1>5 DEF WalkFrom
  <2> HIDE DEF k
  <2>4. k \in i..Len(entries) /\ conns[entries[k].client].state # "dialling"
    BY <2>2 DEF k
  <2> HIDE DEF ahead
  <2>5. k \in 1..n BY <1>1, <2>4
  <2>6. entries[k].client \in 1..Len(conns) BY <1>2, <2>5
  <2> HIDE DEF n, f
  <2>7. k \in 0..Len(conns) BY <1>1, <1>3, <2>5
  <2> QED BY <1>1, <2>3, <2>4, <2>6, <2>7
<1> QED BY <1>4, <1>5

(***************************************************************************)
(* Connections that die, and a pool that is drained, change nothing for    *)
(* who is served.                                                          *)
(***************************************************************************)
LEMMA ClosingIsFine ==
  ASSUME ConstantsOK, PoolInv,
         conns' \in Seq(Conn), Len(conns') = Len(conns),
         \A d \in 1..Len(conns) :
           conns'[d] = conns[d] \/ (conns'[d].state = "gone" /\ conns[d].state # "dialling"),
         entries' = entries \/ (entries' = <<>> /\ drained'),
         drained' \in BOOLEAN, drained => drained',
         \/ queue' = queue /\ at' = at /\ drained' = drained
         \/ /\ queue' = <<>> /\ drained'
            /\ at' = [u \in Users |-> IF at[u] = "queued" THEN "refused" ELSE at[u]],
         held' = held,
         closing' \in 0..Len(conns), cursor' \in 0..Len(conns),
         closing' # 0 => drained' /\ conns[closing'].state # "dialling"
  PROVE  Fine(Users)
<1> USE DEF PoolInv
<1>1. /\ ListOK(<<>>) /\ Busy(<<>>) = {} /\ Spare(<<>>) = {} /\ Len(<<>>) = 0
  BY DEF ListOK, OneEach, Busy, Spare
<1>2. Len(entries) \in Nat /\ PoolSize \in Nat /\ Len(conns) \in Nat
  BY DEF PoolTypes, ListOK, ConstantsOK
<1>3. /\ ListOK(entries') /\ Len(entries') <= PoolSize
      /\ Busy(entries') \subseteq Busy(entries) /\ Spare(entries') \subseteq Spare(entries)
      /\ ~drained' => entries' = entries
  BY <1>1, <1>2 DEF PoolTypes
<1>4. \A u \in Users : \/ at'[u] = at[u]
                       \/ at[u] = "queued" /\ at'[u] = "refused" /\ queue' = <<>> /\ drained'
  OBVIOUS
<1>5. PoolTypes'
  <2>1. at' \in [Users -> {"away", "dialling", "queued", "serving", "refused"}]
    BY DEF PoolTypes
  <2>2. queue' \in Seq(Users)
    <3>1. queue \in Seq(Users) /\ <<>> \in Seq(Users) BY DEF PoolTypes
    <3>2. queue' = queue \/ queue' = <<>> OBVIOUS
    <3> QED BY <3>1, <3>2
  <2>3. Busy(entries') \union Spare(entries') \subseteq 1..Len(conns) BY <1>3 DEF PoolTypes
  <2> QED BY <1>3, <2>1, <2>2, <2>3 DEF PoolTypes
<1>6. HeldOnce'
  <2>1. \A u \in Users : at'[u] \in {"dialling", "serving"} <=> at[u] \in {"dialling", "serving"}
    BY <1>4
  <2> QED BY <2>1 DEF HeldOnce
<1>7. DialledAreHeld'
  <2>1. \A u \in Users : at'[u] = "dialling" <=> at[u] = "dialling" BY <1>4
  <2>2. ASSUME NEW u \in Users, at[u] = "dialling" PROVE conns'[held[u]].state = "dialling"
    <3>1. held[u] \in 1..Len(conns) BY <1>2, <2>2 DEF HeldOnce, PoolTypes
    <3> QED BY <2>2, <3>1 DEF DialledAreHeld
  <2>3. ASSUME NEW d \in 1..Len(conns), conns'[d].state = "dialling"
        PROVE  conns[d].state = "dialling"
    BY <2>3
  <2>4. closing' # 0 => conns'[closing'].state # "dialling"
    <3> SUFFICES ASSUME closing' # 0 PROVE conns'[closing'].state # "dialling"
      OBVIOUS
    <3>1. closing' \in 1..Len(conns) BY <1>2
    <3> QED BY <3>1
  <2> QED BY <2>1, <2>2, <2>3, <2>4 DEF DialledAreHeld
<1>8. SpareAreFree'
  <2>1. queue = <<>> => queue' = <<>> OBVIOUS
  <2> QED BY <1>3, <2>1 DEF SpareAreFree
<1>9. LineOK'
  <2>1. CASE queue' = queue /\ at' = at /\ drained' = drained
    BY <2>1 DEF LineOK
  <2>2. CASE /\ queue' = <<>> /\ drained'
             /\ at' = [u \in Users |-> IF at[u] = "queued" THEN "refused" ELSE at[u]]
    <3>1. \A u \in Users : at'[u] # "queued" BY <2>2
    <3> QED BY <2>2, <3>1 DEF LineOK
  <2> QED BY <2>1, <2>2
<1>10. SocketsFit'
  <2>1. Sockets' \subseteq Sockets BY DEF Sockets, PoolTypes
  <2>2. (Cardinality(Sockets) <= PoolSize)' BY <1>2, <2>1, SocketsStayFew DEF PoolTypes
  <2>3. ~drained' => Sockets' \subseteq Busy(entries') \union Spare(entries')
    BY <1>3, <2>1 DEF SocketsFit
  <2> QED BY <2>2, <2>3 DEF SocketsFit
<1>11. ASSUME NEW w \in Users PROVE Kept(w)
  <2>1. CASE at[w] = "serving"
    <3>1. held[w] \in 1..Len(conns) BY <2>1, <1>2 DEF HeldOnce, PoolTypes
    <3>2. at'[w] = "serving" BY <1>4, <2>1
    <3> QED BY <2>1, <3>1, <3>2 DEF Kept
  <2>2. CASE at[w] # "serving" BY <1>4, <2>2 DEF Kept
  <2> QED BY <2>1, <2>2
<1>12. NoLeak => NoLeak' BY <1>3 DEF NoLeak
<1> QED BY <1>2, <1>5, <1>6, <1>7, <1>8, <1>9, <1>10, <1>11, <1>12 DEF Fine

(***************************************************************************)
(* A break, a drain, and a connection logged out.                          *)
(***************************************************************************)
LEMMA BreakIsFine ==
  ASSUME ConstantsOK, PoolInv, NEW c \in DOMAIN conns, Break(c)
  PROVE  Fine(Users)
<1> DEFINE x == [conns[c] EXCEPT !.state = "gone"]
<1> USE DEF PoolInv
<1>1. c \in 1..Len(conns) /\ Len(conns) \in Nat /\ conns[c] \in Conn BY DEF PoolTypes
<1>2. /\ conns[c].state = "open" /\ conns' = [conns EXCEPT ![c] = x]
      /\ UNCHANGED <<entries, queue, drained, closing, cursor, at, held>>
  BY DEF Break, Usable, drainVars
<1>3. x \in Conn /\ x.state = "gone" BY <1>1 DEF Conn
<1> HIDE DEF x
<1>4. /\ conns' \in Seq(Conn) /\ Len(conns') = Len(conns)
      /\ conns'[c] = x /\ \A d \in 1..Len(conns) : d # c => conns'[d] = conns[d]
  BY <1>1, <1>2, <1>3, OneChanges DEF PoolTypes
<1>5. /\ drained' \in BOOLEAN /\ closing' \in 0..Len(conns) /\ cursor' \in 0..Len(conns)
      /\ closing' # 0 => drained' /\ conns[closing'].state # "dialling"
  BY <1>2 DEF PoolTypes, DialledAreHeld
<1> QED BY <1>2, <1>3, <1>4, <1>5, ClosingIsFine

(***************************************************************************)
(* drain() refuses the line and begins to log out.                         *)
(***************************************************************************)
LEMMA DrainIsFine ==
  ASSUME ConstantsOK, PoolInv, Drain
  PROVE  Fine(Users)
<1> USE DEF PoolInv
<1>1. /\ WalkFrom(1) /\ drained' /\ drained' \in BOOLEAN /\ queue' = <<>>
      /\ at' = [u \in Users |-> IF at[u] = "queued" THEN "refused" ELSE at[u]]
      /\ conns' = conns /\ held' = held
  BY DEF Drain
<1>2. /\ entries' \in {<<>>, entries}
      /\ closing' \in 0..Len(conns) /\ cursor' \in 0..Len(conns)
      /\ closing' # 0 => conns[closing'].state # "dialling"
  BY <1>1, WalkStaysInside
<1>3. conns' \in Seq(Conn) BY <1>1 DEF PoolTypes
<1> QED BY <1>1, <1>2, <1>3, ClosingIsFine

(***************************************************************************)
(* It goes on.                                                             *)
(***************************************************************************)
LEMMA LoggedOutIsFine ==
  ASSUME ConstantsOK, PoolInv, LoggedOut
  PROVE  Fine(Users)
<1> USE DEF PoolInv
<1>1. closing \in 1..Len(conns) /\ Len(conns) \in Nat /\ cursor \in Nat
  BY DEF LoggedOut, PoolTypes
<1>2. /\ WalkFrom(cursor + 1) /\ conns' = [conns EXCEPT ![closing] = Gone]
      /\ UNCHANGED <<queue, drained, at, held>>
  BY DEF LoggedOut
<1>3. Gone \in Conn /\ Gone.state = "gone" BY DEF Conn, Gone
<1>4. /\ conns' \in Seq(Conn) /\ Len(conns') = Len(conns)
      /\ conns'[closing] = Gone /\ \A d \in 1..Len(conns) : d # closing => conns'[d] = conns[d]
  BY <1>1, <1>2, <1>3, OneChanges DEF PoolTypes
<1>5. /\ entries' \in {<<>>, entries}
      /\ closing' \in 0..Len(conns) /\ cursor' \in 0..Len(conns)
      /\ closing' # 0 => conns[closing'].state # "dialling"
  <2>1. cursor + 1 \in Nat \ {0} BY <1>1
  <2> QED BY <1>2, <2>1, WalkStaysInside
<1>6. drained /\ conns[closing].state # "dialling" BY <1>1 DEF DialledAreHeld
<1>7. drained' \in BOOLEAN /\ drained' BY <1>2, <1>6 DEF PoolTypes
<1>8. \A d \in 1..Len(conns) :
        conns'[d] = conns[d] \/ (conns'[d].state = "gone" /\ conns[d].state # "dialling")
  BY <1>3, <1>4, <1>6
<1> QED BY <1>2, <1>4, <1>5, <1>6, <1>7, <1>8, ClosingIsFine

(***************************************************************************)
(* In the beginning there is nothing.                                      *)
(***************************************************************************)
LEMMA PoolStarts ==
  ASSUME ConstantsOK, PoolInit
  PROVE  PoolInv /\ NoLeak
<1>1. /\ ListOK(<<>>) /\ Busy(<<>>) = {} /\ Spare(<<>>) = {} /\ Len(<<>>) = 0
  BY DEF ListOK, OneEach, Busy, Spare
<1>2. PoolTypes
  <2>1. <<>> \in Seq(Conn) /\ <<>> \in Seq(Users) OBVIOUS
  <2>2. Len(conns) = 0 /\ 0 \in 0..Len(conns) /\ PoolSize \in Nat
    BY DEF PoolInit, ConstantsOK
  <2>3. held \in [Users -> 0..Len(conns)] BY <2>2 DEF PoolInit
  <2>4. at \in [Users -> {"away", "dialling", "queued", "serving", "refused"}]
    BY DEF PoolInit
  <2>5. conns = <<>> /\ entries = <<>> /\ queue = <<>> /\ drained = FALSE /\ closing = 0 /\ cursor = 0
    BY DEF PoolInit
  <2>6. drained \in BOOLEAN BY <2>5
  <2>7. Len(entries) <= PoolSize BY <1>1, <2>2, <2>5
  <2>8. Busy(entries) \union Spare(entries) \subseteq 1..Len(conns) BY <1>1, <2>5
  <2>9. closing \in 0..Len(conns) /\ cursor \in 0..Len(conns) BY <2>2, <2>5
  <2> QED BY <1>1, <2>1, <2>3, <2>4, <2>5, <2>6, <2>7, <2>8, <2>9 DEF PoolTypes
<1>3. HeldOnce /\ DialledAreHeld /\ LineOK /\ SpareAreFree
  BY <1>1 DEF PoolInit, HeldOnce, DialledAreHeld, LineOK, SpareAreFree
<1>4. SocketsFit
  <2>1. Sockets = {} BY DEF PoolInit, Sockets
  <2>2. Cardinality({}) = 0 BY FS_EmptySet
  <2> QED BY <2>1, <2>2 DEF SocketsFit, ConstantsOK
<1>5. NoLeak BY <1>1 DEF PoolInit, NoLeak
<1> QED BY <1>2, <1>3, <1>4, <1>5 DEF PoolInv

-----------------------------------------------------------------------------
(* The sources. *)

Steps == {"connecting", "waiting", "reconnecting", "ready", "delivering",
          "handling", "marking", "discarding", "pausing", "ended"}

SourceTypes ==
  /\ polls \subseteq Sources
  /\ step \in [Sources -> Steps]
  /\ using \in [Sources -> 0..Len(conns)]
  /\ todo \in [Sources -> SUBSET Uids]
  /\ now \in [Sources -> Uids]
  /\ attempt \in [Sources -> 0..MaxAttempts]
  /\ aborted \subseteq Sources
  /\ mail \subseteq Boxes \X Uids
  /\ seen \subseteq mail /\ handled \subseteq mail

(***************************************************************************)
(* A source that nobody stopped has a connection for as long as it is in   *)
(* its loop, with its own mailbox open, and none while it waits or when it *)
(* is over.                                                                *)
(***************************************************************************)
Connected(s) ==
  /\ InLoop(s) => /\ at[s] = "serving"
                  /\ Usable(held[s]) => conns[held[s]].box = Folder[s]
  /\ step[s] \in {"waiting", "ended"} => at[s] = "away"

(***************************************************************************)
(* The connection it delivers from is that one.                            *)
(***************************************************************************)
UsesItsOwn(s) ==
  step[s] \in {"delivering", "handling", "marking", "discarding"} => using[s] = held[s]

(***************************************************************************)
(* What it delivers is in its mailbox, and what it marks was handled.      *)
(***************************************************************************)
DeliversMail(s) ==
  /\ \A u \in todo[s] : Message(s, u) \in mail
  /\ step[s] \in {"handling", "marking", "discarding"} => Message(s, now[s]) \in mail
  /\ step[s] \in {"marking", "discarding"} => Message(s, now[s]) \in handled

SourceInv ==
  /\ PoolInv /\ NoLeak
  /\ SourceTypes
  /\ \A s \in Sources \ aborted : Connected(s) /\ UsesItsOwn(s)
  /\ \A s \in Sources : DeliversMail(s)
  /\ aborted = {} => seen \subseteq handled
  /\ faults \in 0..MaxFaults

Settled(s) == InLoop(s) \/ step[s] \in {"waiting", "ended"}

(***************************************************************************)
(* What a step that leaves the sources alone keeps.                        *)
(***************************************************************************)
LEMMA PoolStepsKeepSources ==
  ASSUME SourceConstantsOK, SourceInv, NEW others, Fine(others),
         \A s \in Sources \ aborted : Settled(s) => s \in others,
         faults' \in 0..MaxFaults, UNCHANGED sourceVars
  PROVE  SourceInv'
<1> USE DEF SourceInv
<1>1. UNCHANGED <<polls, step, using, todo, now, attempt, aborted, mail, seen, handled>>
  BY DEF sourceVars
<1>2. PoolInv' /\ NoLeak' /\ Len(conns) <= Len(conns') BY DEF Fine
<1>3. SourceTypes'
  <2>1. Len(conns) \in Nat /\ Len(conns') \in Nat BY <1>2 DEF PoolInv, PoolTypes
  <2>2. 0..Len(conns) \subseteq 0..Len(conns') BY <1>2, <2>1
  <2> QED BY <1>1, <2>2 DEF SourceTypes
<1>4. ASSUME NEW s \in Sources \ aborted, Settled(s) PROVE Kept(s)
  BY <1>4 DEF Fine
<1>5. \A s \in Sources \ aborted : Connected(s)'
  BY <1>1, <1>4 DEF Connected, Settled, InLoop, Kept, Usable
<1>6. \A s \in Sources \ aborted : UsesItsOwn(s)'
  BY <1>1, <1>4 DEF Connected, UsesItsOwn, Settled, InLoop, Kept
<1>7. \A s \in Sources : DeliversMail(s)' BY <1>1 DEF DeliversMail, Message
<1> QED BY <1>1, <1>2, <1>3, <1>5, <1>6, <1>7

(***************************************************************************)
(* What a step of one source has to show.                                  *)
(***************************************************************************)
Becomes(s, to, c, ahead, u, n) ==
  /\ to \in Steps /\ c \in 0..Len(conns') /\ ahead \subseteq Uids /\ u \in Uids /\ n \in 0..MaxAttempts
  /\ step' = [step EXCEPT ![s] = to] /\ using' = [using EXCEPT ![s] = c]
  /\ todo' = [todo EXCEPT ![s] = ahead] /\ now' = [now EXCEPT ![s] = u]
  /\ attempt' = [attempt EXCEPT ![s] = n]
  /\ UNCHANGED <<polls, mail>>

(***************************************************************************)
(* A step of one source that shows this keeps the invariant: the other     *)
(* sources keep what they have.                                            *)
(***************************************************************************)
LEMMA OneSourceSteps ==
  ASSUME SourceConstantsOK, SourceInv, NEW s \in Sources, Fine(Users \ {s}),
         NEW to, NEW c, NEW ahead, NEW u, NEW n, Becomes(s, to, c, ahead, u, n),
         aborted \subseteq aborted', aborted' \subseteq aborted \union {s},
         handled \subseteq handled', handled' \subseteq mail, seen' \subseteq mail,
         s \notin aborted' => Connected(s)' /\ UsesItsOwn(s)',
         DeliversMail(s)',
         aborted' = {} => seen' \subseteq handled',
         faults' \in 0..MaxFaults
  PROVE  SourceInv'
<1> USE DEF SourceInv
<1>1. /\ to \in Steps /\ c \in 0..Len(conns') /\ ahead \subseteq Uids /\ u \in Uids /\ n \in 0..MaxAttempts
      /\ step' = [step EXCEPT ![s] = to] /\ using' = [using EXCEPT ![s] = c]
      /\ todo' = [todo EXCEPT ![s] = ahead] /\ now' = [now EXCEPT ![s] = u]
      /\ attempt' = [attempt EXCEPT ![s] = n]
      /\ UNCHANGED <<polls, mail>>
  BY DEF Becomes
<1>2. PoolInv' /\ NoLeak' /\ Len(conns) <= Len(conns') /\ \A w \in Users \ {s} : Kept(w) BY DEF Fine
<1>3. SourceTypes'
  <2>1. Len(conns) \in Nat /\ Len(conns') \in Nat BY <1>2 DEF PoolInv, PoolTypes
  <2>2. 0..Len(conns) \subseteq 0..Len(conns') BY <1>2, <2>1
  <2>3. using' \in [Sources -> 0..Len(conns')] BY <1>1, <2>2 DEF SourceTypes
  <2>4. step' \in [Sources -> Steps] BY <1>1 DEF SourceTypes
  <2>5. todo' \in [Sources -> SUBSET Uids] BY <1>1 DEF SourceTypes
  <2>6. now' \in [Sources -> Uids] BY <1>1 DEF SourceTypes
  <2>7. attempt' \in [Sources -> 0..MaxAttempts] BY <1>1 DEF SourceTypes
  <2> QED BY <1>1, <2>3, <2>4, <2>5, <2>6, <2>7 DEF SourceTypes
<1>4. \A r \in Sources \ {s} : /\ step'[r] = step[r] /\ using'[r] = using[r]
                               /\ todo'[r] = todo[r] /\ now'[r] = now[r]
  BY <1>1 DEF SourceTypes
<1>5. ASSUME NEW r \in Sources \ aborted', r # s PROVE Connected(r)' /\ UsesItsOwn(r)'
  <2>1. r \in Sources \ aborted /\ r \in Users \ {s} BY <1>5 DEF Sources
  <2>2. Kept(r) /\ step'[r] = step[r] /\ using'[r] = using[r] BY <1>2, <1>4, <1>5, <2>1
  <2>3. Connected(r) /\ UsesItsOwn(r) BY <2>1
  <2> QED BY <2>2, <2>3 DEF Connected, UsesItsOwn, InLoop, Kept, Usable
<1>6. ASSUME NEW r \in Sources, r # s PROVE DeliversMail(r)'
  BY <1>1, <1>4, <1>6 DEF DeliversMail, Message
<1> QED BY <1>2, <1>3, <1>5, <1>6

(***************************************************************************)
(* A step that leaves the pool alone is fine.                              *)
(***************************************************************************)
LEMMA StillIsFine ==
  ASSUME SourceInv, UNCHANGED poolVars, NEW s
  PROVE  /\ Fine(Users \ {s}) /\ faults' \in 0..MaxFaults
         /\ conns' = conns /\ at' = at /\ held' = held
<1>1. /\ UNCHANGED <<conns, entries, queue, drained, closing, cursor, at, held, faults>>
  BY DEF poolVars
<1>2. PoolInv' BY <1>1 DEF SourceInv, PoolInv, PoolTypes, HeldOnce, DialledAreHeld, SpareAreFree,
                         LineOK, SocketsFit, Sockets
<1>3. Len(conns) \in Nat BY DEF SourceInv, PoolInv, PoolTypes
<1> QED BY <1>1, <1>2, <1>3 DEF SourceInv, Fine, Kept, NoLeak

(***************************************************************************)
(* What a source has, by its types.                                        *)
(***************************************************************************)
LEMMA SourceHas ==
  ASSUME SourceInv, NEW s \in Sources
  PROVE  /\ s \in Users /\ step[s] \in Steps /\ using[s] \in 0..Len(conns) /\ todo[s] \subseteq Uids
         /\ now[s] \in Uids /\ attempt[s] \in 0..MaxAttempts
         /\ held[s] \in 0..Len(conns) /\ DeliversMail(s)
         /\ step \in [Sources -> Steps] /\ using \in [Sources -> 0..Len(conns)]
         /\ todo \in [Sources -> SUBSET Uids] /\ now \in [Sources -> Uids]
         /\ attempt \in [Sources -> 0..MaxAttempts]
         /\ seen \subseteq mail /\ handled \subseteq mail /\ aborted \subseteq Sources
BY DEF SourceInv, SourceTypes, PoolInv, PoolTypes, Sources

(***************************************************************************)
(* A release without a change of mailbox.                                  *)
(***************************************************************************)
LEMMA PlainReleaseIsFine ==
  ASSUME SourceConstantsOK, SourceInv, NEW u \in Users, at[u] = "serving", Release(u),
         UNCHANGED <<conns, drainVars>>
  PROVE  Fine(Users \ {u}) /\ at'[u] = "away"
<1>1. Notes(held[u]) BY DEF SourceInv, PoolInv, PoolTypes, Notes
<1> QED BY <1>1, ReleaseIsFine DEF SourceConstantsOK, SourceInv

-----------------------------------------------------------------------------
(***************************************************************************)
(* The steps of a source that connects.                                    *)
(***************************************************************************)
LEMMA ConnectKeeps ==
  ASSUME SourceConstantsOK, SourceInv, NEW s \in Sources, Connect(s)
  PROVE  SourceInv'
<1>1. Fine(Users \ {s}) BY SourceHas, AcquireIsFine DEF Connect, SourceConstantsOK, SourceInv
<1>2. faults' \in 0..MaxFaults
  BY DEF Connect, Acquire, Reuse, Dial, Enqueue, Refuse, SourceInv
<1>3. step[s] \in {"connecting", "reconnecting"} /\ UNCHANGED sourceVars BY DEF Connect
<1>4. \A r \in Sources \ aborted : Settled(r) => r \in Users \ {s}
  BY <1>3 DEF Settled, InLoop, Sources
<1> QED BY <1>1, <1>2, <1>3, <1>4, PoolStepsKeepSources

(***************************************************************************)
(* A source that opened its mailbox is in its loop.                        *)
(***************************************************************************)
LEMMA OpenedKeeps ==
  ASSUME SourceConstantsOK, SourceInv, NEW s \in Sources, Opened(s)
  PROVE  SourceInv'
<1>1. /\ s \in Users /\ at[s] = "serving" /\ Usable(held[s])
      /\ conns' = [conns EXCEPT ![held[s]].box = Folder[s]]
      /\ step' = [step EXCEPT ![s] = "ready"] /\ attempt' = [attempt EXCEPT ![s] = 0]
      /\ UNCHANGED <<entries, queue, drainVars, at, held, faults, polls,
                     using, todo, now, aborted, mail, seen, handled>>
  BY SourceHas DEF Opened, OpenMailbox, Moves, loopVars, boxVars
<1>2. Notes(held[s]) /\ conns'[held[s]].box = Folder[s]
  BY <1>1, OpeningNotes DEF SourceConstantsOK, SourceInv
<1>3. Fine(Users \ {s}) BY <1>1, <1>2, NotingIsFine DEF SourceInv
<1>4. Becomes(s, "ready", using[s], todo[s], now[s], 0)
  <2>1. Len(conns') = Len(conns) BY <1>2 DEF Notes
  <2>2. 0 \in 0..MaxAttempts BY DEF SourceConstantsOK
  <2> QED BY <1>1, <2>1, <2>2, SourceHas DEF Becomes, Steps
<1>5. step'[s] = "ready" /\ todo'[s] = todo[s] BY <1>1, SourceHas
<1>6. Connected(s)' /\ UsesItsOwn(s)'
  BY <1>1, <1>2, <1>5 DEF Connected, UsesItsOwn, InLoop
<1>7. DeliversMail(s)' BY <1>1, <1>5, SourceHas DEF DeliversMail, Message
<1> QED BY <1>1, <1>3, <1>4, <1>6, <1>7, SourceHas, OneSourceSteps DEF SourceInv

(***************************************************************************)
(* One that was stopped meanwhile gives its connection back.               *)
(***************************************************************************)
LEMMA OpenedLateKeeps ==
  ASSUME SourceConstantsOK, SourceInv, NEW s \in Sources, OpenedLate(s)
  PROVE  SourceInv'
<1>1. /\ s \in Users /\ s \in aborted /\ at[s] = "serving" /\ Release(s)
      /\ conns' = [conns EXCEPT ![held[s]].box = Folder[s]]
      /\ step' = [step EXCEPT ![s] = "ended"]
      /\ UNCHANGED <<drainVars, faults, polls, using, todo, now, attempt, aborted, mail, seen, handled>>
  BY SourceHas DEF OpenedLate, Moves, loopVars, boxVars
<1>2. Notes(held[s])
  BY <1>1, OpeningNotes DEF SourceConstantsOK, SourceInv
<1>3. Fine(Users \ {s}) BY <1>1, <1>2, ReleaseIsFine DEF SourceInv, SourceConstantsOK
<1>4. Becomes(s, "ended", using[s], todo[s], now[s], attempt[s])
  <2>1. Len(conns') = Len(conns) BY <1>2 DEF Notes
  <2> QED BY <1>1, <2>1, SourceHas DEF Becomes, Steps
<1>5. step'[s] = "ended" /\ todo'[s] = todo[s] BY <1>1, SourceHas
<1>6. DeliversMail(s)' BY <1>1, <1>5, SourceHas DEF DeliversMail, Message
<1> QED BY <1>1, <1>3, <1>4, <1>6, SourceHas, OneSourceSteps DEF SourceInv

(***************************************************************************)
(* A failure to connect, or of a connection, ends or waits.                *)
(***************************************************************************)
LEMMA FailingKeeps ==
  ASSUME SourceConstantsOK, SourceInv, NEW s \in Sources, Fine(Users \ {s}), at'[s] = "away",
         NEW to \in {"ended", "waiting"}, NEW n \in 0..MaxAttempts,
         step' = [step EXCEPT ![s] = to], attempt' = [attempt EXCEPT ![s] = n],
         faults' \in 0..MaxFaults, UNCHANGED <<polls, loopVars, aborted, boxVars>>
  PROVE  SourceInv'
<1>1. UNCHANGED <<polls, using, todo, now, aborted, mail, seen, handled>> BY DEF loopVars, boxVars
<1>2. Becomes(s, to, using[s], todo[s], now[s], n)
  <2>1. 0..Len(conns) \subseteq 0..Len(conns')
    BY DEF SourceInv, Fine, PoolInv, PoolTypes
  <2> QED BY <1>1, <2>1, SourceHas DEF Becomes, Steps
<1>3. step'[s] = to /\ todo'[s] = todo[s] BY <1>1, SourceHas
<1>4. Connected(s)' /\ UsesItsOwn(s)'
  BY <1>3 DEF Connected, UsesItsOwn, InLoop
<1>5. DeliversMail(s)' BY <1>1, <1>3, SourceHas DEF DeliversMail, Message
<1> QED BY <1>1, <1>2, <1>4, <1>5, SourceHas, OneSourceSteps DEF SourceInv

(***************************************************************************)
(* Either way the attempts stay within their bound.                        *)
(***************************************************************************)
LEMMA RetriesAreBounded ==
  ASSUME SourceConstantsOK, SourceInv, NEW s \in Sources, NEW fatal, RetryOrEnd(s, fatal)
  PROVE  \E to \in {"ended", "waiting"}, n \in 0..MaxAttempts :
           step' = [step EXCEPT ![s] = to] /\ attempt' = [attempt EXCEPT ![s] = n]
<1>1. MaxAttempts \in Nat /\ attempt[s] \in 0..MaxAttempts /\ attempt \in [Sources -> 0..MaxAttempts]
  BY SourceHas DEF SourceConstantsOK
<1>2. CASE fatal \/ attempt[s] >= MaxAttempts \/ (s \in aborted /\ step[s] = "connecting")
  <2>1. step' = [step EXCEPT ![s] = "ended"] /\ attempt' = attempt
    BY <1>2 DEF RetryOrEnd, Moves
  <2>2. attempt' = [attempt EXCEPT ![s] = attempt[s]] BY <1>1, <2>1
  <2> QED BY <1>1, <2>1, <2>2
<1>3. CASE ~(fatal \/ attempt[s] >= MaxAttempts \/ (s \in aborted /\ step[s] = "connecting"))
  <2>1. step' = [step EXCEPT ![s] = "waiting"] /\ attempt' = [attempt EXCEPT ![s] = attempt[s] + 1]
    BY <1>3 DEF RetryOrEnd, Moves
  <2>2. attempt[s] + 1 \in 0..MaxAttempts BY <1>1, <1>3
  <2> QED BY <2>1, <2>2
<1> QED BY <1>2, <1>3

(***************************************************************************)
(* What fails is counted, within its bound.                                *)
(***************************************************************************)
LEMMA FaultsAreCounted ==
  ASSUME SourceConstantsOK, SourceInv, NEW s, Failing(s), Counted(s)
  PROVE  faults' \in 0..MaxFaults
BY DEF SourceConstantsOK, ConstantsOK, SourceInv, Failing, Counted

(***************************************************************************)
(* A refusal leaves nothing to release.                                    *)
(***************************************************************************)
LEMMA RefusedKeeps ==
  ASSUME SourceConstantsOK, SourceInv, NEW s \in Sources, NEW fatal, Refused(s, fatal)
  PROVE  SourceInv'
<1>1. /\ at[s] = "refused" /\ Goes(s, "away", 0) /\ RetryOrEnd(s, fatal)
      /\ UNCHANGED <<conns, entries, queue, drainVars>> /\ faults' = faults
      /\ UNCHANGED <<polls, loopVars, aborted, boxVars>>
  BY DEF Refused
<1>2. Fine(Users \ {s}) BY <1>1, SourceHas, IdlingIsFine DEF SourceInv
<1>3. at'[s] = "away" BY <1>1, SourceHas DEF Goes, SourceInv, PoolInv, PoolTypes
<1>4. PICK to \in {"ended", "waiting"}, n \in 0..MaxAttempts :
        step' = [step EXCEPT ![s] = to] /\ attempt' = [attempt EXCEPT ![s] = n]
  BY <1>1, RetriesAreBounded
<1>5. faults' \in 0..MaxFaults BY <1>1 DEF SourceInv
<1> QED BY <1>1, <1>2, <1>3, <1>4, <1>5, FailingKeeps

(***************************************************************************)
(* A mailbox that cannot be opened: the connection is released.            *)
(***************************************************************************)
LEMMA OpenFailsKeeps ==
  ASSUME SourceConstantsOK, SourceInv, NEW s \in Sources, NEW fatal, OpenFails(s, fatal)
  PROVE  SourceInv'
<1>1. /\ at[s] = "serving" /\ Failing(s) /\ Counted(s) /\ Release(s) /\ RetryOrEnd(s, fatal)
      /\ UNCHANGED <<conns, drainVars>> /\ UNCHANGED <<polls, loopVars, aborted, boxVars>>
  BY DEF OpenFails
<1>2. Fine(Users \ {s}) /\ at'[s] = "away" BY <1>1, SourceHas, PlainReleaseIsFine
<1>3. PICK to \in {"ended", "waiting"}, n \in 0..MaxAttempts :
        step' = [step EXCEPT ![s] = to] /\ attempt' = [attempt EXCEPT ![s] = n]
  BY <1>1, RetriesAreBounded
<1>4. faults' \in 0..MaxFaults BY <1>1, FaultsAreCounted
<1> QED BY <1>1, <1>2, <1>3, <1>4, FailingKeeps

(***************************************************************************)
(* A fetch or an IDLE that fails: the connection is released.              *)
(***************************************************************************)
LEMMA LoseKeeps ==
  ASSUME SourceConstantsOK, SourceInv, NEW s \in Sources, NEW fatal \in BOOLEAN, Lose(s, fatal)
  PROVE  SourceInv'
<1>1. /\ s \notin aborted /\ InLoop(s) /\ Failing(s) /\ Counted(s) /\ Release(s)
      /\ step' = [step EXCEPT ![s] = IF fatal THEN "ended" ELSE "waiting"]
      /\ attempt' = [attempt EXCEPT ![s] = 1]
      /\ UNCHANGED <<conns, drainVars>> /\ UNCHANGED <<polls, loopVars, aborted, boxVars>>
  BY DEF Lose, FailsInLoop, InLoop, Moves
<1>2. at[s] = "serving" BY <1>1 DEF SourceInv, Connected
<1>3. Fine(Users \ {s}) /\ at'[s] = "away" BY <1>1, <1>2, SourceHas, PlainReleaseIsFine
<1>4. faults' \in 0..MaxFaults BY <1>1, FaultsAreCounted
<1>5. 1 \in 0..MaxAttempts BY DEF SourceConstantsOK
<1>6. (IF fatal THEN "ended" ELSE "waiting") \in {"ended", "waiting"} OBVIOUS
<1> QED BY <1>1, <1>3, <1>4, <1>5, <1>6, FailingKeeps

(***************************************************************************)
(* The end of a backoff.                                                   *)
(***************************************************************************)
LEMMA RetryKeeps ==
  ASSUME SourceConstantsOK, SourceInv, NEW s \in Sources, Retry(s)
  PROVE  SourceInv'
<1> DEFINE to == IF s \in aborted THEN "ended" ELSE "reconnecting"
<1>1. /\ step' = [step EXCEPT ![s] = to]
      /\ UNCHANGED <<polls, using, todo, now, attempt, aborted, mail, seen, handled>>
      /\ UNCHANGED poolVars
  BY DEF Retry, Moves, loopVars, boxVars
<1>2. /\ Fine(Users \ {s}) /\ faults' \in 0..MaxFaults /\ conns' = conns
  BY <1>1, StillIsFine
<1>3. Becomes(s, to, using[s], todo[s], now[s], attempt[s])
  BY <1>1, <1>2, SourceHas DEF Becomes, Steps
<1>4. step'[s] = to /\ todo'[s] = todo[s] BY <1>1, SourceHas
<1>5. s \notin aborted' => Connected(s)' /\ UsesItsOwn(s)'
  BY <1>1, <1>4 DEF Connected, UsesItsOwn, InLoop
<1>6. DeliversMail(s)' BY <1>1, <1>4, SourceHas DEF DeliversMail, Message
<1> HIDE DEF to
<1> QED BY <1>1, <1>2, <1>3, <1>5, <1>6, SourceHas, OneSourceSteps DEF SourceInv

-----------------------------------------------------------------------------
(***************************************************************************)
(* The steps of a source in its loop, most of which leave the pool alone   *)
(* and do not touch where the source is connected.                         *)
(***************************************************************************)
LEMMA LoopingKeeps ==
  ASSUME SourceConstantsOK, SourceInv, NEW s \in Sources, UNCHANGED poolVars,
         NEW to, NEW c, NEW ahead, NEW u, Becomes(s, to, c, ahead, u, attempt[s]),
         aborted' = aborted,
         s \notin aborted =>
           /\ at[s] = "serving" /\ (Usable(held[s]) => conns[held[s]].box = Folder[s])
           /\ to \notin {"waiting", "ended"}
           /\ to \in {"delivering", "handling", "marking", "discarding"} => c = held[s],
         handled \subseteq handled', handled' \subseteq mail, seen' \subseteq mail,
         DeliversMail(s)',
         aborted' = {} => seen' \subseteq handled'
  PROVE  SourceInv'
<1>1. /\ Fine(Users \ {s}) /\ faults' \in 0..MaxFaults
      /\ conns' = conns /\ at' = at /\ held' = held
  BY StillIsFine
<1>2. step'[s] = to /\ using'[s] = c BY SourceHas DEF Becomes
<1>3. s \notin aborted => Connected(s)' /\ UsesItsOwn(s)'
  BY <1>1, <1>2 DEF Connected, UsesItsOwn, Usable
<1> QED BY <1>1, <1>3, OneSourceSteps

(***************************************************************************)
(* Where a source in its loop is connected, if nobody stopped it.          *)
(***************************************************************************)
LEMMA LoopIsConnected ==
  ASSUME SourceInv, NEW s \in Sources, InLoop(s), s \notin aborted
  PROVE  /\ at[s] = "serving" /\ (Usable(held[s]) => conns[held[s]].box = Folder[s])
         /\ step[s] \in {"delivering", "handling", "marking", "discarding"} => using[s] = held[s]
BY DEF SourceInv, Connected, UsesItsOwn

(***************************************************************************)
(* A fetch asks the mailbox the source reads, and keeps the connection it  *)
(* asked on.                                                               *)
(***************************************************************************)
LEMMA FetchKeeps ==
  ASSUME SourceConstantsOK, SourceInv, NEW s \in Sources, Fetch(s)
  PROVE  SourceInv'
<1> DEFINE ahead == Unseen(conns[held[s]].box)
<1>1. /\ s \notin aborted /\ Usable(held[s]) /\ InLoop(s)
      /\ step' = [step EXCEPT ![s] = "delivering"] /\ using' = [using EXCEPT ![s] = held[s]]
      /\ todo' = [todo EXCEPT ![s] = ahead] /\ UNCHANGED poolVars
      /\ UNCHANGED <<polls, now, attempt, aborted, mail, seen, handled>>
  BY DEF Fetch, Moves, boxVars, InLoop
<1>2. ahead \subseteq Uids /\ \A u \in ahead : Message(s, u) \in mail
  BY <1>1, LoopIsConnected DEF Unseen, Message
<1> HIDE DEF ahead
<1>3. Becomes(s, "delivering", held[s], ahead, now[s], attempt[s])
  BY <1>1, <1>2, SourceHas DEF Becomes, Steps, poolVars
<1>4. DeliversMail(s)'
  <2>1. step'[s] = "delivering" /\ todo'[s] = ahead /\ mail' = mail BY <1>1, SourceHas
  <2> QED BY <1>2, <2>1 DEF DeliversMail, Message
<1> QED BY <1>1, <1>3, <1>4, LoopIsConnected, LoopingKeeps, SourceHas DEF SourceInv

(***************************************************************************)
(* A source ends quietly only if it was stopped.                           *)
(***************************************************************************)
LEMMA FinishKeeps ==
  ASSUME SourceConstantsOK, SourceInv, NEW s \in Sources, Finish(s)
  PROVE  SourceInv'
<1>1. /\ s \in aborted /\ step' = [step EXCEPT ![s] = "ended"] /\ UNCHANGED poolVars
      /\ UNCHANGED <<polls, using, todo, now, attempt, aborted, mail, seen, handled>>
  BY DEF Finish, Moves, boxVars, loopVars
<1>2. Becomes(s, "ended", using[s], todo[s], now[s], attempt[s])
  BY <1>1, SourceHas DEF Becomes, Steps, poolVars
<1>3. DeliversMail(s)'
  <2>1. step'[s] = "ended" /\ todo'[s] = todo[s] /\ mail' = mail BY <1>1, SourceHas
  <2> QED BY <2>1, SourceHas DEF DeliversMail, Message
<1> QED BY <1>1, <1>2, <1>3, LoopingKeeps, SourceHas DEF SourceInv

(***************************************************************************)
(* What goes to the route was fetched.                                     *)
(***************************************************************************)
LEMMA DeliverKeeps ==
  ASSUME SourceConstantsOK, SourceInv, NEW s \in Sources, Deliver(s)
  PROVE  SourceInv'
<1>1. /\ s \notin aborted /\ step[s] = "delivering" /\ InLoop(s) /\ UNCHANGED poolVars
      /\ UNCHANGED <<polls, attempt, aborted, mail, seen, handled>>
  BY DEF Deliver, boxVars, InLoop
<1>2. CASE todo[s] = {}
  <2>1. /\ step' = [step EXCEPT ![s] = "pausing"] /\ using' = [using EXCEPT ![s] = 0]
        /\ UNCHANGED <<todo, now>>
    BY <1>2 DEF Deliver, Moves
  <2>2. Becomes(s, "pausing", 0, todo[s], now[s], attempt[s])
    <3>1. 0 \in 0..Len(conns) BY SourceHas
    <3> QED BY <1>1, <2>1, <3>1, SourceHas DEF Becomes, Steps, poolVars
  <2>3. DeliversMail(s)'
    <3>1. step'[s] = "pausing" /\ todo'[s] = {} BY <1>2, <2>1, SourceHas
    <3> QED BY <3>1 DEF DeliversMail
  <2> QED BY <1>1, <2>2, <2>3, LoopIsConnected, LoopingKeeps, SourceHas DEF SourceInv
<1>3. CASE todo[s] # {}
  <2>1. PICK u \in todo[s] :
          /\ now' = [now EXCEPT ![s] = u] /\ todo' = [todo EXCEPT ![s] = todo[s] \ {u}]
          /\ step' = [step EXCEPT ![s] = "handling"] /\ using' = using
    BY <1>3 DEF Deliver, Moves
  <2>2. Becomes(s, "handling", using[s], todo[s] \ {u}, u, attempt[s])
    BY <1>1, <2>1, SourceHas DEF Becomes, Steps, poolVars
  <2>3. DeliversMail(s)'
    <3>1. step'[s] = "handling" /\ todo'[s] = todo[s] \ {u} /\ now'[s] = u /\ mail' = mail
      BY <1>1, <2>1, SourceHas
    <3> QED BY <3>1, SourceHas DEF DeliversMail, Message
  <2>4. using[s] = held[s] BY <1>1, LoopIsConnected
  <2> QED BY <1>1, <2>2, <2>3, <2>4, LoopIsConnected, LoopingKeeps, SourceHas DEF SourceInv
<1> QED BY <1>2, <1>3

(***************************************************************************)
(* A handler that settles, whether it fails or not, and a wake-up.         *)
(***************************************************************************)
LEMMA SettlesKeeps ==
  ASSUME SourceConstantsOK, SourceInv, NEW s \in Sources,
         NEW to \in {"marking", "discarding"}, Settles(s, to)
  PROVE  SourceInv'
<1>1. /\ step[s] = "handling" /\ InLoop(s) /\ step' = [step EXCEPT ![s] = to] /\ UNCHANGED poolVars
      /\ handled' = handled \union {Message(s, now[s])}
      /\ UNCHANGED <<polls, using, todo, now, attempt, aborted, mail, seen>>
  BY DEF Settles, Moves, loopVars, InLoop
<1>2. Becomes(s, to, using[s], todo[s], now[s], attempt[s])
  BY <1>1, SourceHas DEF Becomes, Steps, poolVars
<1>3. Message(s, now[s]) \in mail BY <1>1, SourceHas DEF DeliversMail
<1>4. DeliversMail(s)'
  <2>1. step'[s] = to /\ todo'[s] = todo[s] /\ now'[s] = now[s] /\ mail' = mail BY <1>1, SourceHas
  <2> QED BY <1>1, <1>3, <2>1, SourceHas DEF DeliversMail, Message
<1>5. handled \subseteq handled' /\ handled' \subseteq mail BY <1>1, <1>3, SourceHas
<1>6. aborted' = {} => seen' \subseteq handled' BY <1>1 DEF SourceInv
<1>7. seen' \subseteq mail BY <1>1, SourceHas
<1> QED BY <1>1, <1>2, <1>4, <1>5, <1>6, <1>7, LoopIsConnected, LoopingKeeps

(***************************************************************************)
(* A handler that fails leaves its message as it was.                      *)
(***************************************************************************)
LEMMA HandlerFailsKeeps ==
  ASSUME SourceConstantsOK, SourceInv, NEW s \in Sources, HandlerFails(s)
  PROVE  SourceInv'
<1>1. /\ step[s] = "handling" /\ InLoop(s)
      /\ step' = [step EXCEPT ![s] = "delivering"] /\ UNCHANGED poolVars
      /\ UNCHANGED <<polls, using, todo, now, attempt, aborted, mail, seen, handled>>
  BY DEF HandlerFails, Moves, loopVars, boxVars, InLoop
<1>2. Becomes(s, "delivering", using[s], todo[s], now[s], attempt[s])
  BY <1>1, SourceHas DEF Becomes, Steps, poolVars
<1>3. DeliversMail(s)'
  <2>1. step'[s] = "delivering" /\ todo'[s] = todo[s] /\ mail' = mail BY <1>1, SourceHas
  <2> QED BY <2>1, SourceHas DEF DeliversMail, Message
<1> QED BY <1>1, <1>2, <1>3, LoopIsConnected, LoopingKeeps, SourceHas DEF SourceInv

(***************************************************************************)
(* The loop begins again on the connection it has.                         *)
(***************************************************************************)
LEMMA WakeKeeps ==
  ASSUME SourceConstantsOK, SourceInv, NEW s \in Sources, Wake(s)
  PROVE  SourceInv'
<1>1. /\ step[s] = "pausing" /\ InLoop(s)
      /\ step' = [step EXCEPT ![s] = "ready"] /\ UNCHANGED poolVars
      /\ UNCHANGED <<polls, using, todo, now, attempt, aborted, mail, seen, handled>>
  BY DEF Wake, Moves, loopVars, boxVars, InLoop
<1>2. Becomes(s, "ready", using[s], todo[s], now[s], attempt[s])
  BY <1>1, SourceHas DEF Becomes, Steps, poolVars
<1>3. DeliversMail(s)'
  <2>1. step'[s] = "ready" /\ todo'[s] = todo[s] /\ mail' = mail BY <1>1, SourceHas
  <2> QED BY <2>1, SourceHas DEF DeliversMail, Message
<1> QED BY <1>1, <1>2, <1>3, LoopIsConnected, LoopingKeeps, SourceHas DEF SourceInv

(***************************************************************************)
(* Who flags a message and was not stopped does so in its own mailbox,     *)
(* where the message is that was handled.                                  *)
(***************************************************************************)
LEMMA FlaggedWereHandled ==
  ASSUME SourceInv, NEW s \in Sources, step[s] \in {"marking", "discarding"}, FlagSeen(s)
  PROVE  seen' \subseteq mail /\ (aborted = {} => seen' \subseteq handled)
<1>1. seen' \subseteq mail BY SourceHas DEF FlagSeen
<1>2. ASSUME aborted = {} PROVE seen' \subseteq handled
  <2>1. InLoop(s) /\ s \notin aborted BY <1>2 DEF InLoop
  <2>2. using[s] = held[s] /\ (Usable(using[s]) => conns[using[s]].box = Folder[s])
    BY <2>1, LoopIsConnected
  <2>3. <<Folder[s], now[s]>> \in handled BY SourceHas DEF DeliversMail, Message
  <2>4. seen \subseteq handled BY <1>2 DEF SourceInv
  <2> QED BY <2>2, <2>3, <2>4 DEF FlagSeen
<1> QED BY <1>1, <1>2

(***************************************************************************)
(* What is marked was handled.                                             *)
(***************************************************************************)
LEMMA MarkKeeps ==
  ASSUME SourceConstantsOK, SourceInv, NEW s \in Sources, Mark(s)
  PROVE  SourceInv'
<1>1. /\ step[s] \in {"marking", "discarding"} /\ FlagSeen(s) /\ InLoop(s)
      /\ step' = [step EXCEPT ![s] = "delivering"] /\ UNCHANGED poolVars
      /\ UNCHANGED <<polls, using, todo, now, attempt, aborted, mail, handled>>
  BY DEF Mark, FlagSeen, Moves, loopVars, boxVars, poolVars, drainVars, InLoop
<1>2. Becomes(s, "delivering", using[s], todo[s], now[s], attempt[s])
  BY <1>1, SourceHas DEF Becomes, Steps, poolVars
<1>3. DeliversMail(s)'
  <2>1. step'[s] = "delivering" /\ todo'[s] = todo[s] /\ mail' = mail BY <1>1, SourceHas
  <2> QED BY <2>1, SourceHas DEF DeliversMail, Message
<1>4. seen' \subseteq mail /\ (aborted = {} => seen' \subseteq handled) BY <1>1, FlaggedWereHandled
<1> QED BY <1>1, <1>2, <1>3, <1>4, LoopIsConnected, LoopingKeeps, SourceHas

(***************************************************************************)
(* A malformed message that ends the source is marked, and the connection  *)
(* released.                                                               *)
(***************************************************************************)
LEMMA DiscardAndEndKeeps ==
  ASSUME SourceConstantsOK, SourceInv, NEW s \in Sources, DiscardAndEnd(s)
  PROVE  SourceInv'
<1>1. /\ step[s] = "discarding" /\ FlagSeen(s) /\ InLoop(s)
      /\ step' = [step EXCEPT ![s] = "ended"]
      /\ IF s \in aborted THEN UNCHANGED <<entries, queue, at, held>> ELSE Release(s)
      /\ conns' = conns /\ faults' = faults /\ UNCHANGED drainVars
      /\ UNCHANGED <<polls, using, todo, now, attempt, aborted, mail, handled>>
  BY DEF DiscardAndEnd, FlagSeen, Moves, loopVars, boxVars, InLoop
<1>2. Becomes(s, "ended", using[s], todo[s], now[s], attempt[s])
  BY <1>1, SourceHas DEF Becomes, Steps
<1>3. step'[s] = "ended" /\ todo'[s] = todo[s] /\ mail' = mail BY <1>1, SourceHas
<1>4. DeliversMail(s)' BY <1>3, SourceHas DEF DeliversMail, Message
<1>5. seen' \subseteq mail /\ (aborted = {} => seen' \subseteq handled) BY <1>1, FlaggedWereHandled
<1>6. Fine(Users \ {s}) /\ (s \notin aborted => at'[s] = "away")
  <2>1. CASE s \in aborted
    <3>1. UNCHANGED poolVars BY <1>1, <2>1 DEF poolVars, drainVars
    <3> QED BY <2>1, <3>1, StillIsFine
  <2>2. CASE s \notin aborted
    <3>1. at[s] = "serving" BY <1>1, <2>2, LoopIsConnected
    <3> QED BY <1>1, <2>2, <3>1, SourceHas, PlainReleaseIsFine
  <2> QED BY <2>1, <2>2
<1>7. s \notin aborted' => Connected(s)' /\ UsesItsOwn(s)'
  BY <1>1, <1>3, <1>6 DEF Connected, UsesItsOwn, InLoop
<1>8. faults' \in 0..MaxFaults BY <1>1 DEF SourceInv
<1> QED BY <1>1, <1>2, <1>4, <1>5, <1>6, <1>7, <1>8, OneSourceSteps, SourceHas

-----------------------------------------------------------------------------
(***************************************************************************)
(* A stop, which releases what the loop has; mail that arrives; and the    *)
(* end of the context.                                                     *)
(***************************************************************************)
LEMMA AbortKeeps ==
  ASSUME SourceConstantsOK, SourceInv, NEW s \in Sources, Abort(s)
  PROVE  SourceInv'
<1>1. /\ s \notin aborted /\ aborted' = aborted \union {s}
      /\ IF InLoop(s) THEN Release(s) ELSE UNCHANGED <<entries, queue, at, held>>
      /\ conns' = conns /\ faults' = faults /\ UNCHANGED drainVars
      /\ UNCHANGED <<polls, step, using, todo, now, attempt, mail, seen, handled>>
  BY DEF Abort, loopVars, boxVars
<1>2. Fine(Users \ {s})
  <2>1. CASE InLoop(s)
    <3>1. at[s] = "serving" BY <1>1, <2>1, LoopIsConnected
    <3> QED BY <1>1, <2>1, <3>1, SourceHas, PlainReleaseIsFine
  <2>2. CASE ~InLoop(s)
    <3>1. UNCHANGED poolVars BY <1>1, <2>2 DEF poolVars, drainVars
    <3> QED BY <3>1, StillIsFine
  <2> QED BY <2>1, <2>2
<1>3. Becomes(s, step[s], using[s], todo[s], now[s], attempt[s])
  BY <1>1, SourceHas DEF Becomes
<1>4. DeliversMail(s)' BY <1>1, SourceHas DEF DeliversMail, Message
<1>5. faults' \in 0..MaxFaults BY <1>1 DEF SourceInv
<1> QED BY <1>1, <1>2, <1>3, <1>4, <1>5, OneSourceSteps, SourceHas

(***************************************************************************)
(* A message that arrives is in a mailbox and neither seen nor handled.    *)
(***************************************************************************)
LEMMA ArriveKeeps ==
  ASSUME SourceConstantsOK, SourceInv, NEW box \in Boxes, NEW u \in Uids, Arrive(box, u)
  PROVE  SourceInv'
<1>1. /\ UNCHANGED poolVars /\ mail' = mail \union {<<box, u>>}
      /\ UNCHANGED <<polls, step, using, todo, now, attempt, aborted, seen, handled>>
  BY DEF Arrive, loopVars
<1>2. Fine(Users \ {0}) /\ faults' \in 0..MaxFaults /\ conns' = conns /\ at' = at /\ held' = held
  BY <1>1, StillIsFine
<1>3. PoolInv' /\ NoLeak' BY <1>2 DEF Fine, SourceInv
<1>4. SourceTypes' BY <1>1, <1>2 DEF SourceInv, SourceTypes
<1>5. \A s \in Sources \ aborted : Connected(s)' /\ UsesItsOwn(s)'
  BY <1>1, <1>2 DEF SourceInv, Connected, UsesItsOwn, InLoop, Usable
<1>6. \A s \in Sources : DeliversMail(s)'
  BY <1>1 DEF SourceInv, DeliversMail, Message
<1> QED BY <1>1, <1>2, <1>3, <1>4, <1>5, <1>6 DEF SourceInv

(***************************************************************************)
(* The pool is drained under the sources.                                  *)
(***************************************************************************)
LEMMA TeardownKeeps ==
  ASSUME SourceConstantsOK, SourceInv, Teardown
  PROVE  SourceInv'
<1>1. Drain /\ UNCHANGED sourceVars BY DEF Teardown
<1>2. Fine(Users) BY <1>1, DrainIsFine DEF SourceConstantsOK, SourceInv
<1>3. faults' \in 0..MaxFaults BY <1>1 DEF Drain, SourceInv
<1> QED BY <1>1, <1>2, <1>3, PoolStepsKeepSources DEF Sources

(***************************************************************************)
(* What visitors do, and the connections themselves.                       *)
(***************************************************************************)
LEMMA PoolNextKeeps ==
  ASSUME SourceConstantsOK, SourceInv, PoolNext, UNCHANGED sourceVars
  PROVE  SourceInv'
<1>1. ConstantsOK /\ PoolInv BY DEF SourceConstantsOK, SourceInv
<1>2. ASSUME NEW v \in Visitors, Visit(v) \/ Open(v) \/ Leave(v) \/ TurnAway(v)
      PROVE  SourceInv'
  <2>1. v \in Users /\ \A s \in Sources : s \in Users \ {v}
    BY <1>1 DEF ConstantsOK, Sources
  <2>2. CASE Visit(v)
    <3>1. Fine(Users \ {v}) BY <1>1, <2>1, <2>2, AcquireIsFine DEF Visit
    <3>2. faults' \in 0..MaxFaults
      BY <2>2 DEF Visit, Acquire, Reuse, Dial, Enqueue, Refuse, SourceInv
    <3> QED BY <2>1, <3>1, <3>2, PoolStepsKeepSources
  <2>3. CASE Open(v)
    <3>1. /\ at[v] = "serving" /\ conns' = [conns EXCEPT ![held[v]].box = Folder[v]]
          /\ UNCHANGED <<entries, queue, drainVars, at, held>> /\ faults' = faults
      BY <2>3 DEF Open, OpenMailbox
    <3>2. Fine(Users \ {v}) BY <1>1, <2>1, <3>1, OpeningNotes, NotingIsFine
    <3>3. faults' \in 0..MaxFaults BY <3>1 DEF SourceInv
    <3> QED BY <2>1, <3>2, <3>3, PoolStepsKeepSources
  <2>4. CASE Leave(v)
    <3>1. /\ at[v] = "serving" /\ Release(v) /\ UNCHANGED <<conns, drainVars>> /\ faults' = faults
      BY <2>4 DEF Leave
    <3>2. Fine(Users \ {v}) BY <2>1, <3>1, PlainReleaseIsFine
    <3>3. faults' \in 0..MaxFaults BY <3>1 DEF SourceInv
    <3> QED BY <2>1, <3>2, <3>3, PoolStepsKeepSources
  <2>5. CASE TurnAway(v)
    <3>1. /\ at[v] = "refused" /\ Goes(v, "away", 0)
          /\ UNCHANGED <<conns, entries, queue, drainVars>> /\ faults' = faults
      BY <2>5 DEF TurnAway
    <3>2. Fine(Users \ {v}) BY <1>1, <2>1, <3>1, IdlingIsFine
    <3>3. faults' \in 0..MaxFaults BY <3>1 DEF SourceInv
    <3> QED BY <2>1, <3>2, <3>3, PoolStepsKeepSources
  <2> QED BY <1>2, <2>2, <2>3, <2>4, <2>5
<1>3. ASSUME NEW u \in Users, Land(u) \/ LandLate(u) \/ DialFails(u)
      PROVE  SourceInv'
  <2>1. at[u] = "dialling" BY <1>3 DEF Land, LandLate, DialFails
  <2>2. Fine(Users \ {u})
    <3>1. CASE Land(u) BY <1>1, <3>1, LandIsFine
    <3>2. CASE LandLate(u) BY <1>1, <3>2, DialEndsFine DEF LandLate
    <3>3. CASE DialFails(u) BY <1>1, <3>3, DialEndsFine DEF DialFails
    <3> QED BY <1>3, <3>1, <3>2, <3>3
  <2>3. \A s \in Sources \ aborted : Settled(s) => s \in Users \ {u}
    BY <2>1 DEF SourceInv, Connected, Settled, Sources
  <2>4. faults' \in 0..MaxFaults
    BY <1>1, <1>3 DEF Land, LandLate, DialFails, Fault, SourceInv, ConstantsOK
  <2> QED BY <2>2, <2>3, <2>4, PoolStepsKeepSources
<1>4. ASSUME NEW c \in DOMAIN conns, Break(c) PROVE SourceInv'
  <2>1. Fine(Users) BY <1>1, <1>4, BreakIsFine
  <2>2. faults' \in 0..MaxFaults BY <1>1, <1>4 DEF Break, Fault, SourceInv, ConstantsOK
  <2> QED BY <2>1, <2>2, PoolStepsKeepSources DEF Sources
<1>5. CASE LoggedOut
  <2>1. Fine(Users) BY <1>1, <1>5, LoggedOutIsFine
  <2>2. faults' \in 0..MaxFaults BY <1>5 DEF LoggedOut, SourceInv
  <2> QED BY <2>1, <2>2, PoolStepsKeepSources DEF Sources
<1> QED BY <1>2, <1>3, <1>4, <1>5 DEF PoolNext

-----------------------------------------------------------------------------
(***************************************************************************)
(* The invariant of the mail account: it holds at first, and every step    *)
(* keeps it.                                                               *)
(***************************************************************************)
LEMMA MailStarts ==
  ASSUME SourceConstantsOK, MailInit
  PROVE  SourceInv
<1>1. PoolInv /\ NoLeak BY PoolStarts DEF SourceConstantsOK, MailInit
<1>2. faults \in 0..MaxFaults BY DEF MailInit, PoolInit, SourceConstantsOK, ConstantsOK
<1>3. (CHOOSE u \in Uids : TRUE) \in Uids BY DEF SourceConstantsOK
<1>4. at = [u \in Users |-> "away"] /\ Sources \subseteq Users BY DEF MailInit, PoolInit, Sources
<1>5. SourceTypes
  <2>1. Len(conns) = 0 /\ 0 \in 0..Len(conns) BY DEF MailInit, PoolInit
  <2>2. 0 \in 0..MaxAttempts BY DEF SourceConstantsOK
  <2>3. using \in [Sources -> 0..Len(conns)] BY <2>1 DEF MailInit
  <2>4. attempt \in [Sources -> 0..MaxAttempts] BY <2>2 DEF MailInit
  <2>5. now \in [Sources -> Uids] BY <1>3 DEF MailInit
  <2>6. step \in [Sources -> Steps] BY DEF MailInit, Steps
  <2>7. todo \in [Sources -> SUBSET Uids] BY DEF MailInit
  <2>8. polls \subseteq Sources /\ aborted = {} /\ seen = {} /\ handled = {} BY DEF MailInit
  <2>9. mail \subseteq Boxes \X Uids BY DEF MailInit
  <2> QED BY <2>3, <2>4, <2>5, <2>6, <2>7, <2>8, <2>9 DEF SourceTypes
<1>6. \A s \in Sources : step[s] = "connecting" /\ todo[s] = {} BY DEF MailInit
<1>7. \A s \in Sources : Connected(s) /\ UsesItsOwn(s) /\ DeliversMail(s)
  BY <1>6 DEF Connected, UsesItsOwn, DeliversMail, InLoop
<1> QED BY <1>1, <1>2, <1>5, <1>7 DEF SourceInv, MailInit

(***************************************************************************)
(* Every step keeps the invariant.                                         *)
(***************************************************************************)
LEMMA MailKeeps ==
  ASSUME SourceConstantsOK, SourceInv, [MailNext]_mailVars
  PROVE  SourceInv'
<1>1. CASE UNCHANGED mailVars
  <2>1. UNCHANGED poolVars /\ UNCHANGED sourceVars BY <1>1 DEF mailVars
  <2>2. Fine(Users \ {0}) /\ faults' \in 0..MaxFaults BY <2>1, StillIsFine
  <2>3. UNCHANGED <<conns, at, held, polls, step, using, todo, now, attempt, aborted,
                    mail, seen, handled>>
    BY <2>1 DEF poolVars, sourceVars
  <2> QED BY <2>2, <2>3 DEF SourceInv, Fine, SourceTypes, Connected, UsesItsOwn, DeliversMail,
                            InLoop, Usable, Message
<1>2. CASE PoolNext /\ UNCHANGED sourceVars BY <1>2, PoolNextKeeps
<1>3. ASSUME NEW s \in Sources, SourceStep(s) \/ Abort(s) PROVE SourceInv'
  <2>1. CASE Connect(s) BY <2>1, ConnectKeeps
  <2>2. CASE Opened(s) BY <2>2, OpenedKeeps
  <2>3. CASE OpenedLate(s) BY <2>3, OpenedLateKeeps
  <2>4. CASE Retry(s) BY <2>4, RetryKeeps
  <2>5. ASSUME NEW fatal \in BOOLEAN, Refused(s, fatal) \/ OpenFails(s, fatal) \/ Lose(s, fatal)
        PROVE  SourceInv'
    BY <2>5, RefusedKeeps, OpenFailsKeeps, LoseKeeps
  <2>6. CASE Fetch(s) BY <2>6, FetchKeeps
  <2>7. CASE Finish(s) BY <2>7, FinishKeeps
  <2>8. CASE Deliver(s) BY <2>8, DeliverKeeps
  <2>9. CASE HandlerResolves(s) \/ MessageIsMalformed(s)
    BY <2>9, SettlesKeeps DEF HandlerResolves, MessageIsMalformed
  <2>10. CASE HandlerFails(s) BY <2>10, HandlerFailsKeeps
  <2>11. CASE Mark(s) BY <2>11, MarkKeeps
  <2>12. CASE DiscardAndEnd(s) BY <2>12, DiscardAndEndKeeps
  <2>13. CASE Wake(s) BY <2>13, WakeKeeps
  <2>14. CASE Abort(s) BY <2>14, AbortKeeps
  <2> QED BY <1>3, <2>1, <2>2, <2>3, <2>4, <2>5, <2>6, <2>7, <2>8, <2>9, <2>10, <2>11, <2>12,
             <2>13, <2>14 DEF SourceStep
<1>4. ASSUME NEW box \in Boxes, NEW u \in Uids, Arrive(box, u) PROVE SourceInv'
  BY <1>4, ArriveKeeps
<1>5. CASE Teardown BY <1>5, TeardownKeeps
<1> QED BY <1>1, <1>2, <1>3, <1>4, <1>5 DEF MailNext

(***************************************************************************)
(* So it holds in every state.                                             *)
(***************************************************************************)
THEOREM MailInvHolds == ASSUME SourceConstantsOK PROVE MailSpec => []SourceInv
<1>1. MailInit => SourceInv BY MailStarts
<1>2. SourceInv /\ [MailNext]_mailVars => SourceInv' BY MailKeeps
<1> QED BY <1>1, <1>2, PTL DEF MailSpec

-----------------------------------------------------------------------------
(***************************************************************************)
(* The pool never has more sockets than its size, no connection serves     *)
(* two users, and none is idle while somebody has it or waits for one.     *)
(***************************************************************************)
THEOREM ThePoolIsCounted == ASSUME SourceConstantsOK PROVE MailSpec => []ConnectionsAreCounted
<1>1. ASSUME SourceInv PROVE ConnectionsAreCounted
  <2> USE <1>1 DEF SourceInv, PoolInv
  <2>1. Cardinality(Sockets) <= PoolSize BY DEF SocketsFit
  <2>2. \A u, w \in Serving : held[u] = held[w] => u = w BY DEF Serving, HeldOnce
  <2>3. ASSUME NEW i \in DOMAIN entries, ~entries[i].inUse
        PROVE  queue = <<>> /\ \A u \in Serving : held[u] # entries[i].client
    <3>1. entries[i].client \in Spare(entries)
      BY <2>3, SlotsAreListed DEF PoolTypes, ListOK
    <3> QED BY <3>1 DEF SpareAreFree, Serving
  <2> QED BY <2>1, <2>2, <2>3 DEF ConnectionsAreCounted
<1> QED BY <1>1, MailInvHolds, PTL

(***************************************************************************)
(* A slot in use has somebody who is still to give it back.                *)
(***************************************************************************)
THEOREM NoSlotIsLost == ASSUME SourceConstantsOK PROVE MailSpec => []NoConnectionLeaks
<1>1. ASSUME SourceInv PROVE NoConnectionLeaks
  <2> SUFFICES ASSUME aborted = {}, NEW i \in DOMAIN entries, entries[i].inUse
               PROVE  \E u \in Users : /\ held[u] = entries[i].client
                                       /\ u \in Sources => step[u] \notin {"waiting", "ended"}
    BY DEF NoConnectionLeaks
  <2> USE <1>1 DEF SourceInv, PoolInv
  <2>1. entries[i].client \in Busy(entries) BY SlotsAreListed DEF PoolTypes, ListOK
  <2>2. entries[i].client # 0 BY <2>1 DEF PoolTypes
  <2>3. PICK u \in Users : held[u] = entries[i].client BY <2>1 DEF NoLeak
  <2>4. at[u] # "away" BY <2>2, <2>3 DEF HeldOnce
  <2> QED BY <2>3, <2>4 DEF Connected
<1> QED BY <1>1, MailInvHolds, PTL

(***************************************************************************)
(* As long as nobody stops a source, what is marked Seen was handled.      *)
(***************************************************************************)
THEOREM OnlyTheHandledIsSeen == ASSUME SourceConstantsOK PROVE MailSpec => []SeenWereHandledBeforeStop
<1>1. SourceInv => SeenWereHandledBeforeStop
  BY DEF SourceInv, SeenWereHandledBeforeStop, SeenWereHandled
<1> QED BY <1>1, MailInvHolds, PTL

(***************************************************************************)
(* The mail account has its types.                                         *)
(***************************************************************************)
THEOREM MailHasItsTypes == ASSUME SourceConstantsOK PROVE MailSpec => []MailTypeOK
<1>1. ASSUME SourceInv PROVE MailTypeOK
  <2> USE <1>1 DEF SourceInv, PoolInv
  <2>1. Len(conns) \in Nat /\ DOMAIN conns = 1..Len(conns) /\ DOMAIN entries = 1..Len(entries)
    BY DEF PoolTypes, ListOK
  <2>2. \A c \in DOMAIN conns : /\ conns[c].state \in {"dialling", "open", "gone"}
                                /\ conns[c].box \in Boxes \union {NoBox}
    <3>1. \A c \in 1..Len(conns) : conns[c] \in Conn BY DEF PoolTypes
    <3> QED BY <2>1, <3>1 DEF Conn
  <2>3. ASSUME NEW i \in DOMAIN entries
        PROVE  entries[i].client \in DOMAIN conns /\ entries[i].inUse \in BOOLEAN
    BY <2>1, SlotsAreListed DEF PoolTypes, SlotType
  <2>4. ToSet(queue) = {u \in Users : at[u] = "queued"}
    <3>1. DOMAIN queue = 1..Len(queue) /\ \A i \in 1..Len(queue) : queue[i] \in Users
      BY DEF PoolTypes
    <3> QED BY <3>1 DEF LineOK, ToSet
  <2>5. {0} \union DOMAIN conns = 0..Len(conns) BY <2>1
  <2>6. PoolTypeOK BY <2>2, <2>3, <2>4, <2>5 DEF PoolTypeOK, PoolTypes
  <2> QED BY <2>6 DEF MailTypeOK, SourceTypes, Steps
<1> QED BY <1>1, MailInvHolds, PTL

=============================================================================

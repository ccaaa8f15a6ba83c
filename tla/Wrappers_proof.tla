---------------------------- MODULE Wrappers_proof ----------------------------
(***************************************************************************)
(* What the operations that keep state promise, for every value of the     *)
(* constants: the circuit breaker, the cache, the throttle, the dedupe     *)
(* with its debounce and the dispatch.  Each has a section of its own,     *)
(* with the invariant its steps keep.  First what the provers have to be   *)
(* told of the lists in which they remember their keys.                    *)
(***************************************************************************)
EXTENDS Wrappers, SequencesExt, SequenceTheorems, FiniteSetTheorems, WellFoundedInduction, TLAPS

-----------------------------------------------------------------------------
(***************************************************************************)
(* Lists in which nothing stands twice: what is taken out of them, put     *)
(* last or dropped at the front.                                           *)
(***************************************************************************)

(***************************************************************************)
(* A sequence without its i-th element.                                    *)
(***************************************************************************)
LEMMA RemovesOne ==
  ASSUME NEW X, NEW s \in Seq(X), NEW i \in 1..Len(s)
  PROVE  /\ RemoveAt(s, i) \in Seq(X) /\ Len(RemoveAt(s, i)) = Len(s) - 1
         /\ \A j \in 1..Len(s)-1 : RemoveAt(s, i)[j] = IF j < i THEN s[j] ELSE s[j+1]
<1> DEFINE a == SubSeq(s, 1, i-1)
           b == SubSeq(s, i+1, Len(s))
<1>1. /\ a \in Seq(X) /\ Len(a) = i - 1 /\ \A j \in 1..i-1 : a[j] = s[j]
  BY SubSeqProperties
<1>2. /\ b \in Seq(X) /\ Len(b) = Len(s) - i /\ \A j \in 1..Len(s)-i : b[j] = s[i+j]
  BY SubSeqProperties
<1> HIDE DEF a, b
<1>3. RemoveAt(s, i) = a \o b BY DEF RemoveAt, a, b
<1>4. a \o b \in Seq(X) /\ Len(a \o b) = Len(s) - 1
  <2>1. a \o b \in Seq(X) /\ Len(a \o b) = Len(a) + Len(b)
    BY <1>1, <1>2, ConcatProperties
  <2>2. Len(s) \in Nat
    OBVIOUS
  <2> QED BY <1>1, <1>2, <2>1, <2>2
<1>5. ASSUME NEW j \in 1..Len(s)-1 PROVE (a \o b)[j] = IF j < i THEN s[j] ELSE s[j+1]
  <2>1. CASE j < i BY <1>1, <1>2, <2>1
  <2>2. CASE ~(j < i)
    <3>1. (a \o b)[j] = b[j-(i-1)] /\ j-(i-1) \in 1..Len(s)-i BY <1>1, <1>2, <2>2
    <3> QED BY <1>2, <2>2, <3>1
  <2> QED BY <2>1, <2>2
<1> QED BY <1>3, <1>4, <1>5

(***************************************************************************)
(* A sequence that holds nothing twice.                                    *)
(***************************************************************************)
Once(s) == \A i, j \in DOMAIN s : s[i] = s[j] => i = j

(***************************************************************************)
(* Nothing else is gone, and the rest still stands once.                   *)
(***************************************************************************)
LEMMA RemovedIsOut ==
  ASSUME NEW X, NEW s \in Seq(X), Once(s), NEW i \in 1..Len(s)
  PROVE  /\ RemoveAt(s, i) \in Seq(X) /\ Len(RemoveAt(s, i)) = Len(s) - 1
         /\ Once(RemoveAt(s, i)) /\ ToSet(RemoveAt(s, i)) = ToSet(s) \ {s[i]}
<1> DEFINE t == RemoveAt(s, i)
<1>1. /\ t \in Seq(X) /\ Len(t) = Len(s) - 1
      /\ \A j \in 1..Len(s)-1 : t[j] = IF j < i THEN s[j] ELSE s[j+1]
  BY RemovesOne
<1> HIDE DEF t
<1>2. /\ DOMAIN t = 1..Len(s)-1 /\ DOMAIN s = 1..Len(s) /\ Len(s) \in Nat
  BY <1>1
<1>3. Once(t)
  <2> SUFFICES ASSUME NEW j \in 1..Len(s)-1, NEW k \in 1..Len(s)-1, t[j] = t[k]
               PROVE  j = k
    BY <1>2 DEF Once
  <2> DEFINE J == IF j < i THEN j ELSE j + 1
             K == IF k < i THEN k ELSE k + 1
  <2>1. J \in 1..Len(s) /\ K \in 1..Len(s) /\ (J = K => j = k)
    BY <1>2
  <2>2. t[j] = s[J] /\ t[k] = s[K] BY <1>1
  <2> QED BY <1>2, <2>1, <2>2 DEF Once
<1>4. ToSet(t) \subseteq ToSet(s) \ {s[i]}
  <2> SUFFICES ASSUME NEW j \in 1..Len(s)-1 PROVE t[j] \in ToSet(s) \ {s[i]}
    BY <1>2 DEF ToSet
  <2> DEFINE J == IF j < i THEN j ELSE j + 1
  <2>1. J \in 1..Len(s) /\ J # i BY <1>2
  <2>2. t[j] = s[J] BY <1>1
  <2> QED BY <1>2, <2>1, <2>2 DEF Once, ToSet
<1>5. ToSet(s) \ {s[i]} \subseteq ToSet(t)
  <2> SUFFICES ASSUME NEW J \in 1..Len(s), J # i PROVE s[J] \in ToSet(t)
    BY <1>2 DEF ToSet
  <2> DEFINE j == IF J < i THEN J ELSE J - 1
  <2>1. j \in 1..Len(s)-1 /\ t[j] = s[J] BY <1>1, <1>2
  <2> QED BY <1>2, <2>1 DEF ToSet
<1> QED BY <1>1, <1>3, <1>4, <1>5 DEF t

(***************************************************************************)
(* Appending what is not there.                                            *)
(***************************************************************************)
LEMMA AppendedIsIn ==
  ASSUME NEW X, NEW s \in Seq(X), Once(s), NEW x \in X, x \notin ToSet(s)
  PROVE  /\ Append(s, x) \in Seq(X) /\ Len(Append(s, x)) = Len(s) + 1
         /\ Once(Append(s, x)) /\ ToSet(Append(s, x)) = ToSet(s) \union {x}
<1> DEFINE t == Append(s, x)
<1>1. /\ t \in Seq(X) /\ Len(t) = Len(s) + 1 /\ DOMAIN t = 1..Len(s)+1 /\ DOMAIN s = 1..Len(s)
      /\ Len(s) \in Nat /\ t[Len(s)+1] = x /\ \A j \in 1..Len(s) : t[j] = s[j]
  OBVIOUS
<1> HIDE DEF t
<1>2. Once(t) BY <1>1 DEF Once, ToSet
<1>3. ToSet(t) = ToSet(s) \union {x}
  <2>1. \A j \in 1..Len(s)+1 : j \in 1..Len(s) \/ j = Len(s)+1 BY <1>1
  <2>2. ToSet(t) \subseteq ToSet(s) \union {x} BY <1>1, <2>1 DEF ToSet
  <2>3. \A j \in 1..Len(s) : s[j] \in ToSet(t)
    <3> SUFFICES ASSUME NEW j \in 1..Len(s) PROVE s[j] \in ToSet(t)
      OBVIOUS
    <3>1. j \in DOMAIN t /\ t[j] = s[j] BY <1>1
    <3> QED BY <3>1 DEF ToSet
  <2>4. x \in ToSet(t)
    <3>1. Len(s)+1 \in DOMAIN t BY <1>1
    <3> QED BY <1>1, <3>1 DEF ToSet
  <2> QED BY <1>1, <2>2, <2>3, <2>4 DEF ToSet
<1> QED BY <1>1, <1>2, <1>3 DEF t

(***************************************************************************)
(* Forgetting the first one.                                               *)
(***************************************************************************)
LEMMA TailIsRest ==
  ASSUME NEW X, NEW s \in Seq(X), Once(s), s # <<>>
  PROVE  /\ Tail(s) \in Seq(X) /\ Len(Tail(s)) = Len(s) - 1
         /\ Head(s) = s[1] /\ Head(s) \in ToSet(s)
         /\ Once(Tail(s)) /\ ToSet(Tail(s)) = ToSet(s) \ {Head(s)}
<1> DEFINE t == Tail(s)
<1>1. /\ t \in Seq(X) /\ Len(t) = Len(s) - 1 /\ DOMAIN t = 1..Len(s)-1 /\ DOMAIN s = 1..Len(s)
      /\ Len(s) \in Nat \ {0} /\ Head(s) = s[1] /\ \A j \in 1..Len(s)-1 : t[j] = s[j+1]
  OBVIOUS
<1> HIDE DEF t
<1>2. Once(t)
  <2> SUFFICES ASSUME NEW j \in 1..Len(s)-1, NEW k \in 1..Len(s)-1, t[j] = t[k]
               PROVE  j = k
    BY <1>1 DEF Once
  <2>1. s[j+1] = s[k+1] /\ j+1 \in DOMAIN s /\ k+1 \in DOMAIN s BY <1>1
  <2>2. j+1 = k+1 BY <2>1 DEF Once
  <2> QED BY <2>2
<1>3. ToSet(t) \subseteq ToSet(s) \ {s[1]}
  <2> SUFFICES ASSUME NEW j \in 1..Len(s)-1 PROVE t[j] \in ToSet(s) \ {s[1]}
    BY <1>1 DEF ToSet
  <2>1. t[j] = s[j+1] /\ j+1 \in DOMAIN s /\ 1 \in DOMAIN s /\ j+1 # 1 BY <1>1
  <2> QED BY <2>1 DEF Once, ToSet
<1>4. ToSet(s) \ {s[1]} \subseteq ToSet(t)
  <2> SUFFICES ASSUME NEW j \in 1..Len(s), j # 1 PROVE s[j] \in ToSet(t)
    BY <1>1 DEF ToSet
  <2>1. j-1 \in DOMAIN t /\ t[j-1] = s[j] BY <1>1
  <2> QED BY <2>1 DEF ToSet
<1>5. s[1] \in ToSet(s) BY <1>1 DEF ToSet
<1> QED BY <1>1, <1>2, <1>3, <1>4, <1>5 DEF t

-----------------------------------------------------------------------------
(***************************************************************************)
(* A list without x, wherever it stands.                                   *)
(***************************************************************************)
Out(s, x) ==
  IF x \in ToSet(s) THEN RemoveAt(s, CHOOSE i \in DOMAIN s : s[i] = x) ELSE s

(***************************************************************************)
(* Only x is gone.                                                         *)
(***************************************************************************)
LEMMA OutIsOut ==
  ASSUME NEW X, NEW s \in Seq(X), Once(s), NEW x
  PROVE  /\ Out(s, x) \in Seq(X) /\ Len(Out(s, x)) <= Len(s)
         /\ Once(Out(s, x)) /\ ToSet(Out(s, x)) = ToSet(s) \ {x}
         /\ x \notin ToSet(s) => Out(s, x) = s
         /\ x \in ToSet(s) => Len(Out(s, x)) = Len(s) - 1
<1>1. CASE x \in ToSet(s)
  <2> DEFINE i == CHOOSE n \in DOMAIN s : s[n] = x
  <2>1. \E n \in DOMAIN s : s[n] = x BY <1>1 DEF ToSet
  <2>2. i \in DOMAIN s /\ s[i] = x BY <2>1
  <2> HIDE DEF i
  <2>3. i \in 1..Len(s) /\ Len(s) \in Nat BY <2>2
  <2>4. Out(s, x) = RemoveAt(s, i) BY <1>1 DEF Out, i
  <2> QED BY <1>1, <2>2, <2>3, <2>4, RemovedIsOut
<1>2. CASE x \notin ToSet(s) BY <1>2 DEF Out
<1> QED BY <1>1, <1>2

(***************************************************************************)
(* x becomes the last one.                                                 *)
(***************************************************************************)
LEMMA PutLast ==
  ASSUME NEW X, NEW s \in Seq(X), Once(s), NEW x \in X
  PROVE  LET t == Append(Out(s, x), x) IN
         /\ t \in Seq(X) /\ Once(t) /\ ToSet(t) = ToSet(s) \union {x}
         /\ t # <<>> /\ Len(t) <= Len(s) + 1
         /\ x \in ToSet(s) => Len(t) = Len(s)
         /\ x \notin ToSet(s) => t = Append(s, x) /\ Len(t) = Len(s) + 1
<1> DEFINE o == Out(s, x)
<1>1. /\ o \in Seq(X) /\ Len(o) <= Len(s) /\ Once(o) /\ ToSet(o) = ToSet(s) \ {x}
      /\ x \notin ToSet(s) => o = s
      /\ x \in ToSet(s) => Len(o) = Len(s) - 1
  BY OutIsOut
<1> HIDE DEF o
<1>2. /\ Append(o, x) \in Seq(X) /\ Len(Append(o, x)) = Len(o) + 1
      /\ Once(Append(o, x)) /\ ToSet(Append(o, x)) = ToSet(o) \union {x}
  BY <1>1, AppendedIsIn
<1>3. Len(s) \in Nat /\ Len(o) \in Nat BY <1>1
<1>4. Append(o, x) # <<>> BY <1>2, <1>3
<1>5. x \notin ToSet(s) => Append(o, x) = Append(s, x) BY <1>1
<1> HIDE DEF Once
<1> QED BY <1>1, <1>2, <1>3, <1>4, <1>5 DEF o

-----------------------------------------------------------------------------
(***************************************************************************)
(* What the modules of the wrappers say of lists is what the library says. *)
(***************************************************************************)
LEMMA SameLists ==
  /\ \A s : C!ToSet(s) = ToSet(s) /\ T!ToSet(s) = ToSet(s)
  /\ \A s : U!ToSet(s) = ToSet(s) /\ D!ToSet(s) = ToSet(s)
  /\ \A s, i : C!RemoveAt(s, i) = RemoveAt(s, i) /\ T!RemoveAt(s, i) = RemoveAt(s, i)
  /\ \A s, i : U!RemoveAt(s, i) = RemoveAt(s, i) /\ D!RemoveAt(s, i) = RemoveAt(s, i)
BY DEF C!ToSet, T!ToSet, U!ToSet, D!ToSet, ToSet,
       C!RemoveAt, T!RemoveAt, U!RemoveAt, D!RemoveAt, RemoveAt

(***************************************************************************)
(* And so is what they say of finite sets.                                 *)
(***************************************************************************)
LEMMA SameSets ==
  \A S : /\ U!IsFiniteSet(S) <=> IsFiniteSet(S)
         /\ U!Cardinality(S) = Cardinality(S) /\ D!Cardinality(S) = Cardinality(S)
BY DEF U!IsFiniteSet, IsFiniteSet, U!Cardinality, D!Cardinality, Cardinality

(***************************************************************************)
(* The part of TypeOK the argument needs.                                  *)
(***************************************************************************)
ProbeTypes ==
  /\ halfOpenInFlight \in Nat
  /\ call \in [Calls -> {"waiting", "regular", "probe", "rejected", "done"}]
  /\ state \in {"closed", "open", "half-open"}

Inv == ProbeTypes /\ ProbeInv

(***************************************************************************)
(* A call that is admitted as no probe, rejected, or still waiting leaves  *)
(* the set of probes alone, and so does the end of a regular call.         *)
(***************************************************************************)
LEMMA OtherStepsKeepProbes ==
  ASSUME ProbeTypes, NEW c \in Calls, NEW to \in {"regular", "rejected", "done"},
         call[c] # "probe", Goes(c, to)
  PROVE  Probes' = Probes
  BY DEF ProbeTypes, Goes, Probes

(***************************************************************************)
(* The end of a probe removes it and nothing else.                         *)
(***************************************************************************)
LEMMA ProbeEnds ==
  ASSUME ProbeTypes, NEW c \in Calls, call[c] = "probe", Goes(c, "done")
  PROVE  Probes' = Probes \ {c}
  BY DEF ProbeTypes, Goes, Probes

(***************************************************************************)
(* The admission of a probe adds it.                                       *)
(***************************************************************************)
LEMMA ProbeBegins ==
  ASSUME ProbeTypes, NEW c \in Calls, Goes(c, "probe")
  PROVE  Probes' = Probes \union {c}
  BY DEF ProbeTypes, Goes, Probes

(***************************************************************************)
(* A recorded outcome keeps the invariant: the end of a probe empties the  *)
(* breaker and frees the slot, any other end frees nothing and decides     *)
(* nothing.                                                                *)
(***************************************************************************)
LEMMA RecordKeepsInv ==
  ASSUME Inv, NEW c \in Calls, call[c] \in Running, FreeSlot(c), Goes(c, "done"),
         ProbeTypes',
         (call[c] # "probe" /\ state = "half-open") => state' = "half-open",
         (call[c] # "probe" /\ state # "half-open") => state' # "half-open"
  PROVE  ProbeInv'
<1> SUFFICES ASSUME HalfOpenMax = 1
             PROVE  ProbeInv'
  BY HalfOpenMaxAssumption DEF ProbeInv
<1> USE DEF Inv, ProbeInv, SingleProbe
<1>1. CASE call[c] = "probe"
  <2>1. c \in Probes
    BY <1>1 DEF Probes
  <2>2. Probes = {c}
    BY <2>1
  <2>3. Probes' = {}
    BY <1>1, <2>2, ProbeEnds
  <2>4. halfOpenInFlight' = 0
    BY <1>1, <2>2 DEF FreeSlot
  <2> QED
    BY <2>3, <2>4
<1>2. CASE call[c] # "probe"
  <2>1. Probes' = Probes
    BY <1>2, OtherStepsKeepProbes
  <2>2. halfOpenInFlight' = halfOpenInFlight
    BY <1>2 DEF FreeSlot
  <2> QED
    BY <1>2, <2>1, <2>2
<1> QED
  BY <1>1, <1>2

(***************************************************************************)
(* A step keeps the shape of what ProbeInv speaks of.                      *)
(***************************************************************************)
LEMMA TypesKept ==
  ASSUME ProbeTypes, [Next]_vars
  PROVE  ProbeTypes'
<1> USE DEF ProbeTypes, Goes
<1>1. ASSUME NEW c \in Calls, Acquire(c)
      PROVE  ProbeTypes'
  BY <1>1 DEF Acquire, AdmitRegular, RejectOpen, AdmitFirstProbe, AdmitProbe, RejectHalfOpen
<1>2. ASSUME NEW c \in Calls, FreeSlot(c)
      PROVE  halfOpenInFlight' \in Nat
  BY <1>2 DEF FreeSlot
<1>3. ASSUME NEW c \in Calls, Record(c)
      PROVE  ProbeTypes'
  BY <1>2, <1>3 DEF Record, Succeed, FailUncounted, FailProbing, FailClosed, Opens
<1>4. CASE Tick \/ UNCHANGED vars
  BY <1>4 DEF Tick, vars
<1> QED
  BY <1>1, <1>3, <1>4 DEF Next

(***************************************************************************)
(* The invariant is inductive.                                             *)
(***************************************************************************)
LEMMA InvStep ==
  ASSUME Inv, [Next]_vars
  PROVE  Inv'
<1> USE DEF Inv
<1>1. ProbeTypes'
  BY TypesKept
<1>2. ASSUME NEW c \in Calls, Acquire(c)
      PROVE  ProbeInv'
  <2>1. CASE AdmitRegular(c) \/ RejectOpen(c) \/ RejectHalfOpen(c)
    <3>1. Probes' = Probes
      BY <2>1, OtherStepsKeepProbes DEF AdmitRegular, RejectOpen, RejectHalfOpen
    <3>2. UNCHANGED <<state, halfOpenInFlight>>
      BY <2>1 DEF AdmitRegular, RejectOpen, RejectHalfOpen
    <3> QED
      BY <3>1, <3>2 DEF ProbeInv, SingleProbe
  <2>2. CASE AdmitFirstProbe(c)
    <3>1. Probes' = Probes \union {c}
      BY <2>2, ProbeBegins DEF AdmitFirstProbe
    <3>2. HalfOpenMax = 1 => Probes = {}
      BY <2>2 DEF AdmitFirstProbe, ProbeInv, SingleProbe
    <3>3. state' = "half-open" /\ halfOpenInFlight' = 1
      BY <2>2 DEF AdmitFirstProbe
    <3> QED
      BY <3>1, <3>2, <3>3 DEF ProbeInv, SingleProbe
  <2>3. CASE AdmitProbe(c)
    <3>1. Probes' = Probes \union {c}
      BY <2>3, ProbeBegins DEF AdmitProbe
    <3>2. HalfOpenMax = 1 => Probes = {} /\ halfOpenInFlight = 0
      BY <2>3 DEF AdmitProbe, ProbeInv, ProbeTypes
    <3>3. state' = "half-open" /\ halfOpenInFlight' = halfOpenInFlight + 1
      BY <2>3 DEF AdmitProbe
    <3> QED
      BY <3>1, <3>2, <3>3 DEF ProbeInv, SingleProbe
  <2> QED
    BY <1>2, <2>1, <2>2, <2>3 DEF Acquire
<1>3. ASSUME NEW c \in Calls, Record(c)
      PROVE  ProbeInv'
  <2>1. /\ call[c] \in Running
        /\ FreeSlot(c)
        /\ Goes(c, "done")
    BY <1>3 DEF Record, Succeed, FailUncounted, FailProbing, FailClosed
  <2>2. call[c] # "probe" => (state = "half-open" <=> state' = "half-open")
    BY <1>3 DEF Record, Succeed, FailUncounted, FailProbing, FailClosed, Opens
  <2> QED
    BY <1>1, <2>1, <2>2, RecordKeepsInv
<1>4. CASE Tick \/ UNCHANGED vars
  <2>1. Probes' = Probes /\ UNCHANGED <<state, halfOpenInFlight>>
    BY <1>4 DEF Tick, vars, Probes
  <2> QED
    BY <1>1, <2>1 DEF ProbeInv, SingleProbe
<1> QED
  BY <1>1, <1>2, <1>3, <1>4 DEF Next

(***************************************************************************)
(* With halfOpenMax = 1 a recovering target sees one probe at a time, for  *)
(* any number of calls in flight when the breaker trips.                   *)
(***************************************************************************)
THEOREM OneProbeAtATime == Spec => []SingleProbe
<1>1. Init => Inv
  BY DEF Init, Inv, ProbeTypes, ProbeInv, SingleProbe, Probes
<1>2. Inv /\ [Next]_vars => Inv'
  BY InvStep
<1>3. Inv => SingleProbe
  BY HalfOpenMaxAssumption DEF Inv, ProbeInv, SingleProbe
<1> QED
  BY <1>1, <1>2, <1>3, PTL DEF Spec

(***************************************************************************)
(* However many probes a half-open breaker admits, the slots it counts as  *)
(* taken are never more than the probes that run.  (They may be fewer: a   *)
(* probe of an earlier half-open state gives its slot back too.)           *)
(***************************************************************************)
SlotInv ==
  /\ ProbeTypes
  /\ IsFiniteSet(Probes)
  /\ halfOpenInFlight <= Cardinality(Probes)

(***************************************************************************)
(* Every step keeps the account of the probe slots.                        *)
(***************************************************************************)
LEMMA SlotStep ==
  ASSUME SlotInv, [Next]_vars
  PROVE  SlotInv'
<1> USE DEF SlotInv
<1> DEFINE Bounded(probes, slots) == IsFiniteSet(probes) /\ slots <= Cardinality(probes)
<1>1. ProbeTypes'
  BY TypesKept
<1>2. Cardinality(Probes) \in Nat /\ halfOpenInFlight \in Nat
  BY FS_CardinalityType DEF ProbeTypes
<1>3. ASSUME NEW c \in Calls, call[c] # "probe"
      PROVE  /\ IsFiniteSet(Probes \union {c})
             /\ Cardinality(Probes \union {c}) = Cardinality(Probes) + 1
  BY <1>3, FS_AddElement DEF Probes
<1>4. ASSUME NEW c \in Calls, Acquire(c)
      PROVE  Bounded(Probes', halfOpenInFlight')
  <2>1. CASE AdmitRegular(c) \/ RejectOpen(c) \/ RejectHalfOpen(c)
    <3>1. Probes' = Probes
      BY <2>1, OtherStepsKeepProbes DEF AdmitRegular, RejectOpen, RejectHalfOpen
    <3>2. halfOpenInFlight' = halfOpenInFlight
      BY <2>1 DEF AdmitRegular, RejectOpen, RejectHalfOpen
    <3> QED
      BY <3>1, <3>2
  <2>2. CASE AdmitFirstProbe(c) \/ AdmitProbe(c)
    <3>1. Probes' = Probes \union {c} /\ call[c] # "probe"
      BY <2>2, ProbeBegins DEF AdmitFirstProbe, AdmitProbe
    <3>2. halfOpenInFlight' \in {1, halfOpenInFlight + 1}
      BY <2>2 DEF AdmitFirstProbe, AdmitProbe
    <3> QED
      BY <1>2, <1>3, <3>1, <3>2
  <2> QED
    BY <1>4, <2>1, <2>2 DEF Acquire
<1>5. ASSUME NEW c \in Calls, Record(c)
      PROVE  Bounded(Probes', halfOpenInFlight')
  <2>1. FreeSlot(c) /\ Goes(c, "done")
    BY <1>5 DEF Record, Succeed, FailUncounted, FailProbing, FailClosed
  <2>2. CASE call[c] = "probe"
    <3>1. Probes' = Probes \ {c} /\ c \in Probes
      BY <2>1, <2>2, ProbeEnds DEF Probes
    <3>2. /\ IsFiniteSet(Probes \ {c})
          /\ Cardinality(Probes \ {c}) = Cardinality(Probes) - 1
      BY <3>1, FS_RemoveElement
    <3>3. halfOpenInFlight' = IF halfOpenInFlight > 0 THEN halfOpenInFlight - 1 ELSE 0
      BY <1>2, <2>1, <2>2 DEF FreeSlot
    <3>4. Cardinality(Probes) - 1 \in Nat
      BY <3>2, FS_CardinalityType
    <3> QED
      BY <1>2, <3>1, <3>2, <3>3, <3>4
  <2>3. CASE call[c] # "probe"
    <3>1. Probes' = Probes /\ halfOpenInFlight' = halfOpenInFlight
      BY <2>1, <2>3, OtherStepsKeepProbes DEF FreeSlot
    <3> QED
      BY <3>1
  <2> QED
    BY <2>2, <2>3
<1>6. CASE Tick \/ UNCHANGED vars
  <2>1. Probes' = Probes /\ UNCHANGED halfOpenInFlight
    BY <1>6 DEF Tick, vars, Probes
  <2> QED
    BY <1>1, <2>1
<1> QED
  BY <1>1, <1>4, <1>5, <1>6 DEF Next

(***************************************************************************)
(* A slot is never leaked, whatever halfOpenMax is: while the breaker      *)
(* counts one as taken, a probe is running whose end gives it back.        *)
(***************************************************************************)
THEOREM NoSlotLeaks == Spec => []SlotsAreHeld
<1>1. Init => SlotInv
  <2>1. Init => Probes = {} /\ halfOpenInFlight = 0 /\ ProbeTypes
    BY DEF Init, Probes, ProbeTypes
  <2> QED
    BY <2>1, FS_EmptySet DEF SlotInv
<1>2. SlotInv /\ [Next]_vars => SlotInv'
  BY SlotStep
<1>3. SlotInv => SlotsAreHeld
  BY FS_EmptySet DEF SlotInv, SlotsAreHeld, ProbeTypes
<1> QED
  BY <1>1, <1>2, <1>3, PTL DEF Spec

(***************************************************************************)
(* The two together, as the runs check them.                               *)
(***************************************************************************)
THEOREM ProbesAndSlotsAgree == Spec => []ProbesAreCounted
BY OneProbeAtATime, NoSlotLeaks, PTL DEF ProbesAreCounted

(***************************************************************************)
(* Stale work decides nothing: only the end of a probe moves a half-open   *)
(* breaker, and only the cooldown an open one.                             *)
(***************************************************************************)
THEOREM StaleWorkDecidesNothing == Spec => OnlyProbesDecide
<1>1. ASSUME ProbeTypes, Next
      PROVE  /\ (state = "half-open" /\ state' # "half-open") =>
                  \E c \in Probes : call'[c] = "done"
             /\ (state = "open" /\ state' # "open") =>
                  state' = "half-open" /\ CooldownOver
  <2>1. CASE Tick
    BY <2>1 DEF Tick
  <2>2. ASSUME NEW c \in Calls, Acquire(c)
        PROVE  /\ state = "half-open" => state' = "half-open"
               /\ (state = "open" /\ state' # "open") =>
                    state' = "half-open" /\ CooldownOver
    BY <2>2 DEF Acquire, AdmitRegular, RejectOpen, AdmitFirstProbe, AdmitProbe, RejectHalfOpen
  <2>3. ASSUME NEW c \in Calls, Record(c)
        PROVE  /\ (state = "half-open" /\ state' # "half-open") =>
                    call[c] = "probe" /\ call'[c] = "done"
               /\ state = "open" => state' = "open"
    BY <1>1, <2>3
    DEF Record, Succeed, FailUncounted, FailProbing, FailClosed, Opens, Goes, ProbeTypes
  <2> QED
    BY <1>1, <2>1, <2>2, <2>3 DEF Next, Probes
<1>2. Init => ProbeTypes
  BY DEF Init, ProbeTypes
<1>3. ProbeTypes /\ [Next]_vars => ProbeTypes'
  BY TypesKept
<1>4. ProbeTypes /\ [Next]_vars =>
        [/\ (state = "half-open" /\ state' # "half-open") =>
              \E c \in Probes : call'[c] = "done"
         /\ (state = "open" /\ state' # "open") =>
              state' = "half-open" /\ CooldownOver]_vars
  BY <1>1
<1> QED
  BY <1>2, <1>3, <1>4, PTL DEF Spec, OnlyProbesDecide

-----------------------------------------------------------------------------
(***************************************************************************)
(* Every set of numbers has a least one: the only induction there is here. *)
(***************************************************************************)
LEMMA LeastNumber ==
  ASSUME NEW W, W \subseteq Nat, W # {}
  PROVE  \E n \in W : \A m \in W : n <= m
<1> DEFINE R == OpToRel(<, Nat)
<1>1. IsWellFoundedOn(R, Nat)
  BY NatLessThanWellFounded
<1>2. \A x, y \in Nat : x < y => <<x, y>> \in R
  BY DEF OpToRel
<1> HIDE DEF R
<1>3. PICK n \in W : \A m \in W : ~(<<m, n>> \in R)
  BY <1>1, WFMin
<1>4. \A m \in W : ~(m < n)
  BY <1>2, <1>3
<1> QED
  BY <1>4

(***************************************************************************)
(* The loop of #prune ends: at the oldest failure that is not too old, or  *)
(* behind the last one.                                                    *)
(***************************************************************************)
LEMMA PruneEnds ==
  ASSUME NEW times \in Seq(Nat), NEW moment \in Nat
  PROVE  LET k == FirstKept(times, moment)
         IN /\ k \in 1..(Len(times) + 1)
            /\ \A i \in 1..(k - 1) : Stale(times[i], moment)
<1> DEFINE W == {k \in 1..(Len(times) + 1) : k <= Len(times) => ~Stale(times[k], moment)}
           Ends(k) == /\ \A i \in 1..(k - 1) : Stale(times[i], moment)
                      /\ k <= Len(times) => ~Stale(times[k], moment)
<1>1. Len(times) \in Nat
  OBVIOUS
<1>2. W \subseteq Nat /\ Len(times) + 1 \in W
  BY <1>1
<1>3. PICK k \in W : \A m \in W : k <= m
  BY <1>2, LeastNumber
<1>4. Ends(k)
  <2>1. k \in 1..(Len(times) + 1) /\ (k <= Len(times) => ~Stale(times[k], moment))
    BY <1>3
  <2>2. ASSUME NEW i \in 1..(k - 1)
        PROVE  Stale(times[i], moment)
    <3>1. i \in 1..(Len(times) + 1) /\ i < k
      BY <1>1, <2>1
    <3>2. i \notin W
      BY <1>3, <3>1
    <3> QED
      BY <3>1, <3>2
  <2> QED
    BY <2>1, <2>2
<1>5. k \in 1..(Len(times) + 1)
  BY <1>3
<1> HIDE DEF W
<1>6. FirstKept(times, moment) = CHOOSE j \in 1..(Len(times) + 1) : Ends(j)
  BY DEF FirstKept
<1>7. FirstKept(times, moment) \in 1..(Len(times) + 1) /\ Ends(FirstKept(times, moment))
  <2> HIDE DEF Ends
  <2> QED
    BY <1>4, <1>5, <1>6
<1> QED
  BY <1>7

(***************************************************************************)
(* The invariant, with what it needs of the shape of the state.            *)
(***************************************************************************)
RingTypes ==
  /\ clock \in Nat
  /\ failures \in Seq(Nat)
  /\ history \in Seq(Nat)

HealthInv == RingTypes /\ RingInv

(***************************************************************************)
(* A counted failure in a closed breaker: what is shifted out of the ring  *)
(* is too old, and what stays in it is still the end of the history.       *)
(***************************************************************************)
LEMMA CountedFailureKeeps ==
  ASSUME HealthInv, NEW c \in Calls, FailClosed(c)
  PROVE  HealthInv'
<1> USE DEF HealthInv, RingTypes
<1> DEFINE ring == Append(failures, clock)
<1>1. /\ state = "closed" /\ clock' = clock
      /\ history' = Append(history, clock)
      /\ failures' = SubSeq(ring, FirstKept(ring, clock), Len(ring))
      /\ state' = "closed" => ~(Len(failures') >= FailureThreshold)
  BY DEF FailClosed, Pruned, Opens
<1>2. /\ ring \in Seq(Nat) /\ Len(ring) = Len(failures) + 1 /\ Len(failures) \in Nat
      /\ \A i \in 1..Len(failures) : ring[i] = failures[i]
      /\ ring[Len(failures) + 1] = clock
  OBVIOUS
<1>3. /\ history' \in Seq(Nat) /\ Len(history') = Len(history) + 1 /\ Len(history) \in Nat
      /\ \A i \in 1..Len(history) : history'[i] = history[i]
      /\ history'[Len(history) + 1] = clock
  BY <1>1
<1> HIDE DEF ring
<1>4. PICK k \in 1..(Len(ring) + 1) : /\ failures' = SubSeq(ring, k, Len(ring))
                                     /\ \A i \in 1..(k - 1) : Stale(ring[i], clock)
  BY <1>1, <1>2, PruneEnds
<1>5. /\ failures' \in Seq(Nat)
      /\ Len(failures') = Len(ring) - k + 1
      /\ \A i \in 1..(Len(ring) - k + 1) : failures'[i] = ring[k + i - 1]
  <2>1. k \in Int /\ Len(ring) \in Int /\ \A i \in k..Len(ring) : ring[i] \in Nat
    BY <1>2, <1>4
  <2>2. k <= Len(ring) \/ Len(ring) - k + 1 = 0
    BY <1>2, <1>4
  <2> QED
    BY <1>4, <2>1, <2>2, SubSeqProperties
<1>6. PICK n \in 0..Len(history) : ShiftedOut(n)
  BY <1>1 DEF RingInv
<1>7. Len(failures') < FailureThreshold \/ state' # "closed"
  BY <1>1, <1>2, <1>4, <1>5, ThresholdAssumption
<1>8. ShiftedOut(n + (k - 1))' /\ n + (k - 1) \in 0..Len(history')
  <2>1. /\ Len(history') = n + (k - 1) + Len(failures')
        /\ n + (k - 1) \in 0..Len(history')
    <3>1. /\ k \in Nat /\ n \in Nat /\ 1 <= k /\ k <= Len(ring) + 1
          /\ Len(ring) = Len(failures) + 1 /\ Len(failures) \in Nat
      BY <1>2, <1>3
    <3>2. Len(history) = n + Len(failures)
      BY <1>6 DEF ShiftedOut
    <3>3. Len(history') = Len(history) + 1 /\ Len(failures') = Len(ring) - k + 1
      BY <1>3, <1>5
    <3> QED
      BY <3>1, <3>2, <3>3
  <2>2. \A i \in 1..Len(ring) : history'[n + i] = ring[i]
    <3> TAKE i \in 1..Len(ring)
    <3>1. CASE i <= Len(failures)
      <4>1. n + i \in 1..Len(history) /\ i \in 1..Len(failures)
        BY <1>2, <1>6, <3>1 DEF ShiftedOut
      <4> QED
        BY <1>2, <1>3, <1>6, <4>1 DEF ShiftedOut
    <3>2. CASE i = Len(failures) + 1
      BY <1>2, <1>3, <1>6, <3>2 DEF ShiftedOut
    <3> QED
      BY <1>2, <3>1, <3>2
  <2>3. \A i \in 1..(n + (k - 1)) : Stale(history'[i], clock')
    <3> TAKE i \in 1..(n + (k - 1))
    <3>1. CASE i <= n
      <4>1. i \in 1..n /\ i \in 1..Len(history)
        BY <1>3, <1>6, <3>1
      <4> QED
        BY <1>1, <1>3, <1>6, <4>1 DEF ShiftedOut
    <3>2. CASE i > n
      <4>1. i - n \in 1..(k - 1) /\ i - n \in 1..Len(ring) /\ n + (i - n) = i
        BY <1>2, <1>4, <1>6, <3>2
      <4> QED
        BY <1>1, <1>4, <2>2, <4>1
    <3> QED
      BY <1>4, <1>6, <3>1, <3>2
  <2>4. \A i \in 1..Len(failures') : failures'[i] = history'[n + (k - 1) + i]
    <3> TAKE i \in 1..Len(failures')
    <3>1. k + i - 1 \in 1..Len(ring) /\ n + (k + i - 1) = n + (k - 1) + i
      BY <1>2, <1>4, <1>5, <1>6
    <3>2. failures'[i] = ring[k + i - 1]
      BY <1>5
    <3> QED
      BY <2>2, <3>1, <3>2
  <2> QED
    BY <2>1, <2>3, <2>4 DEF ShiftedOut
<1>9. RingInv'
  BY <1>7, <1>8 DEF RingInv
<1> QED
  BY <1>1, <1>3, <1>5, <1>9

(***************************************************************************)
(* Every step keeps the invariant: time only makes failures older, and a   *)
(* breaker that closes forgets all of them.                                *)
(***************************************************************************)
LEMMA HealthStep ==
  ASSUME HealthInv, [Next]_vars
  PROVE  HealthInv'
<1> USE DEF HealthInv, RingTypes
<1>1. ASSUME UNCHANGED <<clock, failures, history>>, state' = "closed" => state = "closed"
      PROVE  HealthInv'
  BY <1>1 DEF RingInv, ShiftedOut
<1>2. ASSUME NEW c \in Calls, Acquire(c)
      PROVE  HealthInv'
  BY <1>1, <1>2 DEF Acquire, AdmitRegular, RejectOpen, AdmitFirstProbe, AdmitProbe, RejectHalfOpen
<1>3. ASSUME NEW c \in Calls, Succeed(c)
      PROVE  HealthInv'
  <2>1. CASE UNCHANGED <<state, failures, history>>
    BY <1>1, <1>3, <2>1 DEF Succeed
  <2>2. CASE failures' = <<>> /\ history' = <<>>
    <3>1. ShiftedOut(0)' /\ 0 \in 0..Len(history')
      BY <2>2 DEF ShiftedOut
    <3>2. Len(failures') < FailureThreshold
      BY <2>2, ThresholdAssumption
    <3> QED
      BY <1>3, <2>2, <3>1, <3>2 DEF RingInv, Succeed
  <2> QED
    BY <1>3, <2>1, <2>2 DEF Succeed
<1>4. ASSUME NEW c \in Calls, FailUncounted(c) \/ FailProbing(c)
      PROVE  HealthInv'
  BY <1>1, <1>4 DEF FailUncounted, FailProbing, Opens
<1>5. ASSUME Tick
      PROVE  HealthInv'
  <2>1. clock' = clock + 1 /\ UNCHANGED <<state, failures, history>>
    BY <1>5 DEF Tick
  <2>2. \A i \in 1..Len(history) : Stale(history[i], clock) => Stale(history[i], clock + 1)
    BY WindowAssumption DEF Stale
  <2>3. ASSUME NEW n \in 0..Len(history), ShiftedOut(n)
        PROVE  ShiftedOut(n)'
    <3>1. \A i \in 1..n : i \in 1..Len(history)
      OBVIOUS
    <3> QED
      BY <2>1, <2>2, <2>3, <3>1 DEF ShiftedOut
  <2> QED
    BY <2>1, <2>3 DEF RingInv
<1>6. CASE UNCHANGED vars
  BY <1>1, <1>6 DEF vars
<1> QED
  BY <1>2, <1>3, <1>4, <1>5, <1>6, CountedFailureKeeps DEF Next, Record

(***************************************************************************)
(* A new breaker has seen no failure.                                      *)
(***************************************************************************)
LEMMA HealthStarts == ASSUME Init PROVE HealthInv
<1>1. ShiftedOut(0) /\ 0 \in 0..Len(history) /\ Len(failures) < FailureThreshold
  BY ThresholdAssumption DEF Init, ShiftedOut
<1> QED
  BY <1>1 DEF Init, HealthInv, RingTypes, RingInv

(***************************************************************************)
(* A closed breaker has seen fewer than failureThreshold counted failures  *)
(* within the last window, for any number of calls, threshold, window and  *)
(* cooldown, however late the failures arrive.                             *)
(***************************************************************************)
THEOREM ClosedMeansHealthy == Spec => []ClosedIsHealthy
<1>1. Init => HealthInv
  BY HealthStarts
<1>2. HealthInv /\ [Next]_vars => HealthInv'
  BY HealthStep
<1>3. HealthInv => ClosedIsHealthy
  <2> SUFFICES ASSUME HealthInv, state = "closed"
               PROVE  Cardinality(Recent) < FailureThreshold
    BY DEF ClosedIsHealthy
  <2>1. PICK n \in 0..Len(history) : ShiftedOut(n)
    BY DEF HealthInv, RingInv
  <2>2. /\ Len(history) \in Nat /\ Len(failures) \in Nat
        /\ Len(history) = n + Len(failures) /\ Len(failures) < FailureThreshold
    BY <2>1 DEF HealthInv, RingTypes, RingInv, ShiftedOut
  <2>3. Recent \subseteq (n + 1)..Len(history)
    <3> SUFFICES ASSUME NEW i \in Recent
                 PROVE  i \in (n + 1)..Len(history)
      OBVIOUS
    <3>1. i \in 1..Len(history) /\ ~Stale(history[i], clock)
      BY DEF Recent
    <3>2. i \notin 1..n
      BY <2>1, <3>1 DEF ShiftedOut
    <3> QED
      BY <2>2, <3>1, <3>2
  <2>4. /\ IsFiniteSet((n + 1)..Len(history))
        /\ Cardinality((n + 1)..Len(history)) = Len(failures)
    <3>1. n + 1 \in Int /\ Len(history) \in Int
      BY <2>2
    <3>2. /\ IsFiniteSet((n + 1)..Len(history))
          /\ Cardinality((n + 1)..Len(history)) =
               IF n + 1 > Len(history) THEN 0 ELSE Len(history) - (n + 1) + 1
      BY <3>1, FS_Interval
    <3> QED
      BY <2>2, <3>2
  <2>5. Cardinality(Recent) <= Len(failures) /\ Cardinality(Recent) \in Nat
    BY <2>3, <2>4, FS_Subset, FS_CardinalityType
  <2> QED
    BY <2>2, <2>5, ThresholdAssumption
<1> QED
  BY <1>1, <1>2, <1>3, PTL DEF Spec

-----------------------------------------------------------------------------
(***************************************************************************)
(* The rest of the breaker's shape: it never counts more probes than it    *)
(* may admit, and did not open in the future.                              *)
(***************************************************************************)
BreakerTypes ==
  /\ state \in {"closed", "open", "half-open"}
  /\ openedAt \in Nat /\ openedAt <= clock
  /\ halfOpenInFlight \in 0..HalfOpenMax
  /\ call \in [Calls -> {"waiting", "regular", "probe", "rejected", "done"}]

(***************************************************************************)
(* Every step keeps it.                                                    *)
(***************************************************************************)
LEMMA BreakerStep ==
  ASSUME HealthInv, BreakerTypes, [Next]_vars
  PROVE  BreakerTypes'
<1>1. clock \in Nat /\ HalfOpenMax \in Nat \ {0}
  BY HalfOpenMaxAssumption DEF HealthInv, RingTypes
<1>2. ASSUME NEW c \in Calls, Acquire(c)
      PROVE  BreakerTypes'
  BY <1>1, <1>2 DEF BreakerTypes, Acquire, AdmitRegular, RejectOpen, AdmitFirstProbe, AdmitProbe,
                    RejectHalfOpen, Goes
<1>3. ASSUME NEW c \in Calls, Record(c)
      PROVE  BreakerTypes'
  <2>1. halfOpenInFlight' \in 0..HalfOpenMax
    BY <1>1, <1>3 DEF BreakerTypes, Record, Succeed, FailUncounted, FailProbing, FailClosed, FreeSlot
  <2>2. /\ clock' = clock
        /\ (state' = state /\ openedAt' = openedAt) \/ (state' = "open" /\ openedAt' = clock)
           \/ (state' = "closed" /\ openedAt' = openedAt)
    BY <1>3 DEF Record, Succeed, FailUncounted, FailProbing, FailClosed, Opens
  <2>3. call' = [call EXCEPT ![c] = "done"]
    BY <1>3 DEF Record, Succeed, FailUncounted, FailProbing, FailClosed, Goes
  <2> QED BY <1>1, <2>1, <2>2, <2>3 DEF BreakerTypes
<1>4. CASE Tick \/ UNCHANGED vars
  BY <1>1, <1>4 DEF BreakerTypes, Tick, vars
<1> QED
  BY <1>2, <1>3, <1>4 DEF Next

(***************************************************************************)
(* The breaker counts no more probes than halfOpenMax.                     *)
(***************************************************************************)
THEOREM BreakerIsBounded == Spec => []TypeOK
<1>1. Init => HealthInv /\ BreakerTypes
  BY HealthStarts, HalfOpenMaxAssumption DEF Init, BreakerTypes
<1>2. HealthInv /\ BreakerTypes /\ [Next]_vars => HealthInv' /\ BreakerTypes'
  BY HealthStep, BreakerStep
<1>3. HealthInv /\ BreakerTypes => TypeOK
  BY DEF HealthInv, RingTypes, BreakerTypes, TypeOK
<1> QED
  BY <1>1, <1>2, <1>3, PTL DEF Spec

(***************************************************************************)
(* The part of TypeOK the argument needs: the order of the entries decides *)
(* which one is evicted, and any choice would do.                          *)
(***************************************************************************)
CacheTypes ==
  /\ stored \in [C!Keys -> Calls \union {Nobody}]
  /\ inFlight \in [C!Keys -> Calls \union {Nobody}]
  /\ at \in [Calls -> {"before", "loading", "waiting"} \union C!Ends]
  /\ joined \in [Calls -> Calls \union {Nobody}]
  /\ got \in [Calls -> Calls \union {Nobody}]
  /\ runs \in [C!Keys -> Nat] /\ unstored \in [C!Keys -> Nat] /\ lost \in [C!Keys -> Nat]

(***************************************************************************)
(* Why the window holds: a run that is not paid for has its value stored   *)
(* or its load registered, and then nobody runs the step.                  *)
(***************************************************************************)
RunsArePaid ==
  \A k \in C!Keys :
    /\ runs[k] <= 1 + unstored[k] + lost[k]
    /\ stored[k] = Nobody /\ inFlight[k] = Nobody => runs[k] <= unstored[k] + lost[k]

(***************************************************************************)
(* Why the fate is shared: the load a call joins is under way and its own  *)
(* key's, and nobody has a value, or has joined, ahead of time.            *)
(***************************************************************************)
LoadsInFlight ==
  \A k \in C!Keys : inFlight[k] # Nobody =>
    at[inFlight[k]] = "loading" /\ CacheKeyOf[inFlight[k]] = k

NotYet ==
  \A c \in Calls :
    /\ at[c] \in {"before", "loading"} => joined[c] = Nobody
    /\ at[c] \in {"before", "loading", "waiting"} => got[c] = Nobody

CacheInv == CacheTypes /\ RunsArePaid /\ LoadsInFlight /\ NotYet /\ C!FateIsShared

(***************************************************************************)
(* A call has a key of the cache.                                          *)
(***************************************************************************)
LEMMA KeyOfCall == ASSUME NEW c \in Calls PROVE CacheKeyOf[c] \in C!Keys
BY DEF C!Keys

(***************************************************************************)
(* Nobody has joined a call that has not loaded anything.                  *)
(***************************************************************************)
LEMMA NobodyJoined ==
  ASSUME CacheInv, NEW c \in Calls, at[c] = "before", NEW d \in Calls, joined[d] = c,
         C!ConstantsOK
  PROVE  FALSE
<1>1. joined[d] # Nobody
  BY DEF C!ConstantsOK
<1>2. at[d] = "before"
  BY <1>1 DEF CacheInv, C!FateIsShared
<1> QED
  BY <1>1, <1>2 DEF CacheInv, NotYet

-----------------------------------------------------------------------------
(***************************************************************************)
(* What the ends of a load have in common.                                 *)
(***************************************************************************)
LEMMA SettleKeepsFates ==
  ASSUME CacheInv, C!ConstantsOK, NEW c \in Calls, at[c] = "loading",
         NEW end \in C!Ends, C!Settles(c, end),
         NEW value, \A d \in C!Audience(c) : got'[d] = value,
         \A d \in Calls \ C!Audience(c) : got'[d] = got[d]
  PROVE  LoadsInFlight' /\ NotYet' /\ C!FateIsShared'
<1> USE DEF CacheInv, CacheTypes
<1>1. /\ \A d \in C!Audience(c) : at'[d] = end
      /\ \A d \in Calls \ C!Audience(c) : at'[d] = at[d]
      /\ c \in C!Audience(c) /\ C!Audience(c) \subseteq Calls
      /\ joined' = joined
  BY DEF C!Settles, C!Audience
<1>2. end \notin {"before", "loading", "waiting"}
  BY DEF C!Ends
<1>3. LoadsInFlight'
  <2> SUFFICES ASSUME NEW k \in C!Keys, inFlight'[k] # Nobody
               PROVE  at'[inFlight'[k]] = "loading" /\ CacheKeyOf[inFlight'[k]] = k
    BY DEF LoadsInFlight
  <2>1. k # CacheKeyOf[c] /\ inFlight'[k] = inFlight[k]
    BY KeyOfCall DEF C!Settles
  <2>2. inFlight[k] \in Calls /\ at[inFlight[k]] = "loading" /\ CacheKeyOf[inFlight[k]] = k
    BY <2>1 DEF LoadsInFlight
  <2>3. inFlight[k] \notin C!Audience(c)
    BY <2>1, <2>2 DEF C!Audience
  <2> QED
    BY <1>1, <2>1, <2>2, <2>3
<1>4. NotYet'
  BY <1>1, <1>2 DEF NotYet
<1>5. C!FateIsShared'
  <2> SUFFICES ASSUME NEW d \in Calls, joined[d] # Nobody
               PROVE  /\ CacheKeyOf[joined[d]] = CacheKeyOf[d]
                      /\ at'[d] = "waiting" <=> at'[joined[d]] = "loading"
                      /\ at'[d] # "waiting" =>
                           at'[d] = at'[joined[d]] /\ got'[d] = got'[joined[d]]
    BY <1>1 DEF C!FateIsShared
  <2>1. /\ joined[d] \in Calls
        /\ CacheKeyOf[joined[d]] = CacheKeyOf[d]
        /\ at[d] = "waiting" <=> at[joined[d]] = "loading"
        /\ at[d] # "waiting" => at[d] = at[joined[d]] /\ got[d] = got[joined[d]]
    BY DEF C!FateIsShared
  <2>2. CASE d \in C!Audience(c)
    <3>1. joined[d] = c
      BY <2>2 DEF C!Audience, NotYet
    <3> QED
      BY <1>1, <1>2, <2>1, <2>2, <3>1
  <2>3. CASE d \notin C!Audience(c)
    <3>1. joined[d] # c
      BY <2>1, <2>3 DEF C!Audience
    <3>2. joined[d] \notin C!Audience(c)
      BY <2>1, <2>3, <3>1 DEF C!Audience
    <3> QED
      BY <1>1, <2>1, <2>3, <3>2
  <2> QED
    BY <2>2, <2>3
<1> QED
  BY <1>3, <1>4, <1>5

(***************************************************************************)
(* The end of a load that found a value keeps the invariant.               *)
(***************************************************************************)
LEMMA LoadReturnsKeeps ==
  ASSUME CacheInv, C!ConstantsOK, NEW c \in Calls, C!LoadReturns(c)
  PROVE  CacheInv'
<1> DEFINE k == CacheKeyOf[c]
<1> USE DEF CacheInv, CacheTypes
<1>1. k \in C!Keys
  BY KeyOfCall
<1>2. /\ C!Settles(c, "kept") /\ at[c] = "loading" /\ runs' = runs /\ unstored' = unstored
      /\ inFlight' = [inFlight EXCEPT ![k] = Nobody]
      /\ C!Audience(c) \subseteq Calls
  BY DEF C!LoadReturns, C!Settles, C!Audience
<1>3. \E victim : \/ /\ stored' = [[stored EXCEPT ![k] = c] EXCEPT ![victim] = Nobody]
                     /\ lost' = [lost EXCEPT ![victim] = @ + 1]
                  \/ stored' = [stored EXCEPT ![k] = c] /\ lost' = lost
  BY DEF C!LoadReturns
<1>4. CacheTypes'
  <2>1. at' \in [Calls -> {"before", "loading", "waiting"} \union C!Ends]
    BY <1>2 DEF C!Settles, C!Ends
  <2>2. got' \in [Calls -> Calls \union {Nobody}] /\ joined' = joined
    BY <1>2 DEF C!LoadReturns, C!GoOnWith, C!Settles
  <2>3. inFlight' \in [C!Keys -> Calls \union {Nobody}]
    BY <1>2
  <2>4. stored' \in [C!Keys -> Calls \union {Nobody}] /\ lost' \in [C!Keys -> Nat]
    BY <1>1, <1>3
  <2> QED
    BY <1>2, <2>1, <2>2, <2>3, <2>4
<1>5. RunsArePaid'
  <2> SUFFICES ASSUME NEW j \in C!Keys
               PROVE  /\ runs[j] <= 1 + unstored[j] + lost'[j]
                      /\ stored'[j] = Nobody /\ inFlight'[j] = Nobody =>
                           runs[j] <= unstored[j] + lost'[j]
    BY <1>2 DEF RunsArePaid
  <2>1. /\ runs[j] <= 1 + unstored[j] + lost[j]
        /\ stored[j] = Nobody /\ inFlight[j] = Nobody => runs[j] <= unstored[j] + lost[j]
    BY DEF RunsArePaid
  <2>2. c # Nobody
    BY DEF C!ConstantsOK
  <2>3. CASE lost'[j] = lost[j] + 1
    BY <2>1, <2>3
  <2>4. CASE lost'[j] # lost[j] + 1
    <3>1. lost'[j] = lost[j] /\ stored'[j] = IF j = k THEN c ELSE stored[j]
      BY <1>1, <1>3, <2>4
    <3>2. j # k => inFlight'[j] = inFlight[j]
      BY <1>2
    <3> QED
      BY <2>1, <2>2, <3>1, <3>2
  <2> QED
    BY <2>3, <2>4
<1>6. LoadsInFlight' /\ NotYet' /\ C!FateIsShared'
  <2>1. /\ \A d \in C!Audience(c) : got'[d] = c
        /\ \A d \in Calls \ C!Audience(c) : got'[d] = got[d]
    BY <1>2 DEF C!LoadReturns, C!GoOnWith
  <2> QED
    BY <1>2, <2>1, SettleKeepsFates DEF C!Ends
<1> QED
  BY <1>4, <1>5, <1>6

(***************************************************************************)
(* The end of a load that found nothing keeps the invariant.               *)
(***************************************************************************)
LEMMA LoadReturnsNothingKeeps ==
  ASSUME CacheInv, C!ConstantsOK, NEW c \in Calls, C!LoadReturnsUndefined(c) \/ C!LoadEndsBare(c)
  PROVE  CacheInv'
<1> DEFINE k == CacheKeyOf[c]
<1> USE DEF CacheInv, CacheTypes
<1>1. k \in C!Keys
  BY KeyOfCall
<1>2. PICK end \in C!Ends : C!Settles(c, end)
  BY DEF C!LoadReturnsUndefined, C!LoadEndsBare, C!Ends
<1>3. /\ at[c] = "loading" /\ runs' = runs /\ lost' = lost /\ stored' = stored
      /\ joined' = joined
      /\ unstored' = [unstored EXCEPT ![k] = @ + 1]
      /\ inFlight' = [inFlight EXCEPT ![k] = Nobody]
      /\ C!Audience(c) \subseteq Calls
  BY <1>2 DEF C!LoadReturnsUndefined, C!LoadEndsBare, C!Unstored, C!Settles, C!Audience, C!entries
<1>4. got' = got \/ C!GoOnWith(c)
  BY DEF C!LoadReturnsUndefined, C!LoadEndsBare
<1>5. CacheTypes'
  <2>1. at' \in [Calls -> {"before", "loading", "waiting"} \union C!Ends]
    BY <1>2 DEF C!Settles
  <2>2. got' \in [Calls -> Calls \union {Nobody}]
    BY <1>4 DEF C!GoOnWith
  <2>3. unstored' \in [C!Keys -> Nat] /\ inFlight' \in [C!Keys -> Calls \union {Nobody}]
    BY <1>1, <1>3
  <2>4. stored' \in [C!Keys -> Calls \union {Nobody}] /\ joined' \in [Calls -> Calls \union {Nobody}]
    BY <1>3
  <2>5. runs' \in [C!Keys -> Nat] /\ lost' \in [C!Keys -> Nat]
    BY <1>3
  <2> HIDE DEF CacheInv
  <2> QED
    BY <2>1, <2>2, <2>3, <2>4, <2>5
<1>6. RunsArePaid'
  BY <1>1, <1>3 DEF RunsArePaid
<1>7. \A d \in C!Audience(c) : got[d] = Nobody
  BY <1>3 DEF C!Audience, NotYet
<1>8. LoadsInFlight' /\ NotYet' /\ C!FateIsShared'
  <2>1. CASE got' = got
    BY <1>2, <1>3, <1>7, <2>1, SettleKeepsFates
  <2>2. CASE C!GoOnWith(c)
    <3>1. /\ \A d \in C!Audience(c) : got'[d] = c
          /\ \A d \in Calls \ C!Audience(c) : got'[d] = got[d]
      BY <1>3, <2>2 DEF C!GoOnWith
    <3> QED
      BY <1>2, <1>3, <3>1, SettleKeepsFates
  <2> QED
    BY <1>4, <2>1, <2>2
<1> QED
  BY <1>5, <1>6, <1>8

-----------------------------------------------------------------------------
(***************************************************************************)
(* A call that begins: it hits, joins or loads.                            *)
(***************************************************************************)
LEMMA BeginKeeps ==
  ASSUME CacheInv, C!ConstantsOK, NEW c \in Calls, C!Hit(c) \/ C!Join(c) \/ C!Load(c)
  PROVE  CacheInv'
<1> DEFINE k == CacheKeyOf[c]
<1> USE DEF CacheInv, CacheTypes
<1>1. k \in C!Keys /\ at[c] = "before" /\ joined[c] = Nobody /\ got[c] = Nobody
  BY KeyOfCall DEF C!Hit, C!Join, C!Load, NotYet
<1>2. \A d \in Calls : joined[d] # c
  BY <1>1, NobodyJoined
<1>3. c # Nobody
  BY DEF C!ConstantsOK
<1>4. CASE C!Hit(c)
  <2>1. /\ at' = [at EXCEPT ![c] = "kept"] /\ got' = [got EXCEPT ![c] = stored[k]]
        /\ UNCHANGED <<stored, inFlight, joined, runs, unstored, lost>>
    BY <1>4 DEF C!Hit, C!history
  <2>2. CacheTypes' /\ RunsArePaid'
    BY <1>1, <2>1 DEF RunsArePaid, C!Ends
  <2>3. LoadsInFlight'
    BY <1>1, <2>1 DEF LoadsInFlight
  <2>4. NotYet'
    BY <1>1, <2>1 DEF NotYet
  <2>5. C!FateIsShared'
    BY <1>1, <1>2, <2>1 DEF C!FateIsShared
  <2> QED
    BY <2>2, <2>3, <2>4, <2>5
<1>5. CASE C!Join(c)
  <2>1. /\ at' = [at EXCEPT ![c] = "waiting"]
        /\ joined' = [joined EXCEPT ![c] = inFlight[k]]
        /\ UNCHANGED <<stored, inFlight, got, runs, unstored, lost>>
    BY <1>5 DEF C!Join, C!history, C!entries
  <2>2. inFlight[k] \in Calls /\ at[inFlight[k]] = "loading" /\ CacheKeyOf[inFlight[k]] = k
    BY <1>1, <1>5 DEF C!Join, LoadsInFlight
  <2>3. CacheTypes' /\ RunsArePaid'
    BY <1>1, <2>1, <2>2 DEF RunsArePaid
  <2>4. LoadsInFlight'
    BY <1>1, <2>1 DEF LoadsInFlight
  <2>5. NotYet'
    BY <1>1, <2>1 DEF NotYet
  <2>6. C!FateIsShared'
    <3> SUFFICES ASSUME NEW d \in Calls, joined'[d] # Nobody
                 PROVE  /\ CacheKeyOf[joined'[d]] = CacheKeyOf[d]
                        /\ at'[d] = "waiting" <=> at'[joined'[d]] = "loading"
                        /\ at'[d] # "waiting" =>
                             at'[d] = at'[joined'[d]] /\ got'[d] = got'[joined'[d]]
      BY DEF C!FateIsShared
    <3>1. CASE d = c
      BY <1>1, <2>1, <2>2, <3>1
    <3>2. CASE d # c
      <4>1. joined'[d] = joined[d] /\ at'[d] = at[d]
        BY <2>1, <3>2
      <4>2. joined[d] # c /\ joined[d] \in Calls /\ at'[joined[d]] = at[joined[d]]
        BY <1>2, <2>1, <4>1
      <4> QED
        BY <2>1, <4>1, <4>2 DEF C!FateIsShared
    <3> QED
      BY <3>1, <3>2
  <2> QED
    BY <2>3, <2>4, <2>5, <2>6
<1>6. CASE C!Load(c)
  <2>1. /\ at' = [at EXCEPT ![c] = "loading"]
        /\ inFlight' = [inFlight EXCEPT ![k] = c]
        /\ runs' = [runs EXCEPT ![k] = @ + 1]
        /\ stored[k] = Nobody /\ inFlight[k] = Nobody
        /\ UNCHANGED <<stored, joined, got, unstored, lost>>
    BY <1>6 DEF C!Load, C!Loads, C!entries
  <2>2. CacheTypes'
    BY <1>1, <2>1
  <2>3. RunsArePaid'
    BY <1>1, <1>3, <2>1 DEF RunsArePaid
  <2>4. LoadsInFlight'
    BY <1>1, <2>1 DEF LoadsInFlight
  <2>5. NotYet'
    BY <1>1, <2>1 DEF NotYet
  <2>6. C!FateIsShared'
    BY <1>1, <1>2, <2>1 DEF C!FateIsShared
  <2> QED
    BY <2>2, <2>3, <2>4, <2>5, <2>6
<1> QED
  BY <1>4, <1>5, <1>6

(***************************************************************************)
(* A provider that loses values: every one of them is accounted for.       *)
(***************************************************************************)
LEMMA LossKeeps ==
  ASSUME CacheInv, C!Clear \/ \E k \in C!Keys : C!Loses(k)
  PROVE  CacheInv'
<1> USE DEF CacheInv, CacheTypes
<1>1. CASE C!Clear
  <2>1. /\ inFlight' = [k \in C!Keys |-> Nobody] /\ stored' = [k \in C!Keys |-> Nobody]
        /\ lost' = [k \in C!Keys |-> lost[k] + 1]
        /\ UNCHANGED <<at, joined, got, runs, unstored>>
    BY <1>1 DEF C!Clear
  <2>2. CacheTypes' /\ RunsArePaid'
    BY <2>1 DEF RunsArePaid
  <2>3. LoadsInFlight' /\ NotYet' /\ C!FateIsShared'
    BY <2>1 DEF LoadsInFlight, NotYet, C!FateIsShared
  <2> QED
    BY <2>2, <2>3
<1>2. ASSUME NEW k \in C!Keys, C!Loses(k)
      PROVE  CacheInv'
  <2>1. /\ stored' = [stored EXCEPT ![k] = Nobody]
        /\ lost' = [lost EXCEPT ![k] = @ + 1]
        /\ UNCHANGED <<inFlight, at, joined, got, runs, unstored>>
    BY <1>2 DEF C!Loses
  <2>2. CacheTypes' /\ RunsArePaid'
    BY <2>1 DEF RunsArePaid
  <2>3. LoadsInFlight' /\ NotYet' /\ C!FateIsShared'
    BY <2>1 DEF LoadsInFlight, NotYet, C!FateIsShared
  <2> QED
    BY <2>2, <2>3
<1> QED
  BY <1>1, <1>2

-----------------------------------------------------------------------------
(***************************************************************************)
(* Every step keeps the invariant.                                         *)
(***************************************************************************)
LEMMA CacheInvStep ==
  ASSUME CacheInv, C!ConstantsOK, [C!Next]_(C!vars)
  PROVE  CacheInv'
<1>1. CASE UNCHANGED C!vars
  <2>1. UNCHANGED <<stored, inFlight, at, joined, got, runs, unstored, lost>>
    BY <1>1 DEF C!vars
  <2> QED
    BY <2>1 DEF CacheInv, CacheTypes, RunsArePaid, LoadsInFlight, NotYet, C!FateIsShared
<1>2. CASE C!Clear \/ \E k \in C!Keys : C!Expire(k) \/ C!Delete(k)
  BY <1>2, LossKeeps DEF C!Expire, C!Delete
<1>3. ASSUME NEW c \in Calls,
             \/ C!Hit(c) \/ C!Join(c) \/ C!Load(c)
             \/ C!LoadReturns(c) \/ C!LoadReturnsUndefined(c) \/ C!LoadEndsBare(c)
      PROVE  CacheInv'
  BY <1>3, BeginKeeps, LoadReturnsKeeps, LoadReturnsNothingKeeps
<1> QED
  BY <1>1, <1>2, <1>3 DEF C!Next

(***************************************************************************)
(* The keys in the order of their use are those that are stored.           *)
(***************************************************************************)
EntriesOK ==
  /\ lruKeys \in Seq(C!Keys) /\ Len(lruKeys) <= MaxStored /\ Once(lruKeys)
  /\ ToSet(lruKeys) = {k \in C!Keys : stored[k] # Nobody}
  /\ cleared \in 0..MaxClears

(***************************************************************************)
(* A use of a key, and the loss of one, in terms of lists.                 *)
(***************************************************************************)
LEMMA CacheUses ==
  ASSUME NEW k
  PROVE  C!Without(k) = Out(lruKeys, k) /\ C!Used(k) = Append(Out(lruKeys, k), k)
BY SameLists DEF C!Without, C!Used, Out

(***************************************************************************)
(* The order is kept: a use moves a key that is there, a load may drop the *)
(* key that was used least recently, and its value with it.                *)
(***************************************************************************)
LEMMA EntriesStep ==
  ASSUME C!ConstantsOK, CacheInv, EntriesOK, [C!Next]_(C!vars)
  PROVE  EntriesOK'
<1>1. /\ stored \in [C!Keys -> Calls \union {Nobody}] /\ MaxStored \in Nat \ {0}
      /\ MaxClears \in Nat /\ Nobody \notin Calls
  BY DEF CacheInv, CacheTypes, C!ConstantsOK
<1>2. CASE UNCHANGED <<stored, lruKeys, cleared>>
  BY <1>2 DEF EntriesOK
<1>3. ASSUME NEW c \in Calls, C!Hit(c)
      PROVE  EntriesOK'
  <2> DEFINE k == CacheKeyOf[c]
             t == Append(Out(lruKeys, k), k)
  <2>1. /\ k \in C!Keys /\ stored[k] # Nobody /\ lruKeys' = t
        /\ stored' = stored /\ cleared' = cleared
    BY <1>3, KeyOfCall, CacheUses DEF C!Hit
  <2>2. k \in ToSet(lruKeys)
    BY <2>1 DEF EntriesOK
  <2>3. /\ t \in Seq(C!Keys) /\ Once(t) /\ ToSet(t) = ToSet(lruKeys) \union {k}
        /\ Len(t) = Len(lruKeys)
    <3>1. LET u == Append(Out(lruKeys, k), k) IN
          /\ u \in Seq(C!Keys) /\ Once(u) /\ ToSet(u) = ToSet(lruKeys) \union {k}
          /\ k \in ToSet(lruKeys) => Len(u) = Len(lruKeys)
      <4>1. lruKeys \in Seq(C!Keys) /\ Once(lruKeys) /\ k \in C!Keys
        BY <2>1 DEF EntriesOK
      <4> HIDE DEF k
      <4> QED BY <4>1, PutLast
    <3> QED BY <2>2, <3>1
  <2> HIDE DEF t, k
  <2> QED
    BY <2>1, <2>2, <2>3 DEF EntriesOK
<1>4. ASSUME NEW c \in Calls, C!LoadReturns(c)
      PROVE  EntriesOK'
  <2> DEFINE k == CacheKeyOf[c]
             t == Append(Out(lruKeys, k), k)
             values == [stored EXCEPT ![k] = c]
             rest == Tail(t)
             first == Head(t)
  <2>1. k \in C!Keys /\ cleared' = cleared
    BY <1>4, KeyOfCall DEF C!LoadReturns, C!Settles
  <2>2. IF Len(t) > MaxStored
        THEN lruKeys' = rest /\ stored' = [values EXCEPT ![first] = Nobody]
        ELSE lruKeys' = t /\ stored' = values
    BY <1>4, CacheUses DEF C!LoadReturns
  <2>3. /\ t \in Seq(C!Keys) /\ Once(t) /\ ToSet(t) = ToSet(lruKeys) \union {k}
        /\ t # <<>> /\ Len(t) <= Len(lruKeys) + 1 /\ Len(t) \in Nat /\ Len(lruKeys) \in Nat
    <3>1. LET u == Append(Out(lruKeys, k), k) IN
          /\ u \in Seq(C!Keys) /\ Once(u) /\ ToSet(u) = ToSet(lruKeys) \union {k}
          /\ u # <<>> /\ Len(u) <= Len(lruKeys) + 1
      <4>1. lruKeys \in Seq(C!Keys) /\ Once(lruKeys) /\ k \in C!Keys
        BY <2>1 DEF EntriesOK
      <4> HIDE DEF k
      <4> QED BY <4>1, PutLast
    <3> QED BY <3>1 DEF EntriesOK
  <2>4. /\ rest \in Seq(C!Keys) /\ Len(rest) = Len(t) - 1 /\ first \in ToSet(t)
        /\ Once(rest) /\ ToSet(rest) = ToSet(t) \ {first}
    <3> HIDE DEF t
    <3> QED BY <2>3, TailIsRest
  <2>5. Len(lruKeys) <= MaxStored /\ ToSet(lruKeys) = {o \in C!Keys : stored[o] # Nobody}
    BY DEF EntriesOK
  <2>6. \A o \in C!Keys : values[o] # Nobody <=> o \in ToSet(t)
    BY <1>1, <2>1, <2>3, <2>5
  <2>7. values \in [C!Keys -> Calls \union {Nobody}]
    BY <1>1, <2>1
  <2>8. ToSet(t) \subseteq C!Keys
    BY <2>1, <2>3, <2>5
  <2> HIDE DEF t, rest, first, values
  <2>9. CASE Len(t) > MaxStored
    <3>1. lruKeys' = rest /\ stored' = [values EXCEPT ![first] = Nobody]
      BY <2>2, <2>9
    <3>2. \A o \in C!Keys : stored'[o] # Nobody <=> o \in ToSet(rest)
      BY <2>4, <2>6, <2>7, <3>1
    <3>3. ToSet(rest) = {o \in C!Keys : stored'[o] # Nobody}
      BY <2>4, <2>8, <3>2
    <3>4. Len(rest) <= MaxStored
      BY <1>1, <2>3, <2>4, <2>5
    <3> QED BY <2>1, <2>4, <3>1, <3>3, <3>4 DEF EntriesOK
  <2>10. CASE ~(Len(t) > MaxStored)
    <3>1. lruKeys' = t /\ stored' = values
      BY <2>2, <2>10
    <3>2. ToSet(t) = {o \in C!Keys : values[o] # Nobody}
      BY <2>6, <2>8
    <3>3. Len(t) <= MaxStored
      BY <1>1, <2>3, <2>10
    <3> QED BY <2>1, <2>3, <3>1, <3>2, <3>3 DEF EntriesOK
  <2> QED BY <2>9, <2>10
<1>5. ASSUME NEW k \in C!Keys, C!Loses(k), cleared' \in 0..MaxClears
      PROVE  EntriesOK'
  <2> DEFINE t == Out(lruKeys, k)
  <2>1. lruKeys' = t /\ stored' = [stored EXCEPT ![k] = Nobody]
    BY <1>5, CacheUses DEF C!Loses
  <2>2. /\ t \in Seq(C!Keys) /\ Len(t) <= Len(lruKeys) /\ Once(t)
        /\ ToSet(t) = ToSet(lruKeys) \ {k} /\ Len(lruKeys) \in Nat /\ Len(t) \in Nat
    <3>1. /\ t \in Seq(C!Keys) /\ Len(t) <= Len(lruKeys) /\ Once(t)
          /\ ToSet(t) = ToSet(lruKeys) \ {k}
      BY OutIsOut DEF EntriesOK
    <3> QED BY <3>1 DEF EntriesOK
  <2> HIDE DEF t
  <2>3. ToSet(t) = {o \in C!Keys : stored'[o] # Nobody}
    BY <1>1, <2>1, <2>2 DEF EntriesOK
  <2>4. Len(t) <= MaxStored
    BY <1>1, <2>2 DEF EntriesOK
  <2> QED BY <1>5, <2>1, <2>2, <2>3, <2>4 DEF EntriesOK
<1>6. ASSUME NEW k \in C!Keys, C!Expire(k) \/ C!Delete(k)
      PROVE  EntriesOK'
  <2>1. C!Loses(k) BY <1>6 DEF C!Expire, C!Delete
  <2>2. cleared' \in 0..MaxClears BY <1>1, <1>6 DEF C!Expire, C!Delete, EntriesOK
  <2> QED BY <1>5, <2>1, <2>2
<1>7. CASE C!Clear
  <2>1. lruKeys' = <<>> /\ stored' = [k \in C!Keys |-> Nobody] /\ cleared' \in 0..MaxClears
    BY <1>1, <1>7 DEF C!Clear, EntriesOK
  <2>2. <<>> \in Seq(C!Keys) /\ Len(<<>>) <= MaxStored /\ Once(<<>>) /\ ToSet(<<>>) = {}
    BY <1>1 DEF Once, ToSet
  <2>3. {k \in C!Keys : stored'[k] # Nobody} = {}
    BY <2>1
  <2> QED BY <2>1, <2>2, <2>3 DEF EntriesOK
<1>8. ASSUME NEW c \in Calls,
             C!Join(c) \/ C!Load(c) \/ C!LoadReturnsUndefined(c) \/ C!LoadEndsBare(c)
      PROVE  UNCHANGED <<stored, lruKeys, cleared>>
  BY <1>8 DEF C!Join, C!Load, C!Loads, C!LoadReturnsUndefined, C!LoadEndsBare, C!Unstored,
              C!Settles, C!entries
<1>9. UNCHANGED C!vars => UNCHANGED <<stored, lruKeys, cleared>>
  BY DEF C!vars
<1> QED
  BY <1>2, <1>3, <1>4, <1>6, <1>7, <1>8, <1>9 DEF C!Next

(***************************************************************************)
(* The cache has its shape: it never holds more than it may, and what it   *)
(* orders is what it holds.                                                *)
(***************************************************************************)
THEOREM CacheIsBounded == ASSUME C!ConstantsOK PROVE C!Spec => []C!TypeOK
<1>1. C!Init => CacheInv /\ EntriesOK
  <2> SUFFICES ASSUME C!Init PROVE CacheInv /\ EntriesOK
    OBVIOUS
  <2>1. CacheInv
    BY DEF C!Init, CacheInv, CacheTypes, RunsArePaid, LoadsInFlight, NotYet, C!FateIsShared
  <2>2. /\ lruKeys = <<>> /\ stored = [k \in C!Keys |-> Nobody] /\ cleared = 0
        /\ MaxStored \in Nat /\ MaxClears \in Nat
    BY DEF C!Init, C!ConstantsOK
  <2>3. <<>> \in Seq(C!Keys) /\ Len(<<>>) <= MaxStored /\ Once(<<>>) /\ ToSet(<<>>) = {}
    BY <2>2 DEF Once, ToSet
  <2>4. {k \in C!Keys : stored[k] # Nobody} = {}
    BY <2>2
  <2> QED BY <2>1, <2>2, <2>3, <2>4 DEF EntriesOK
<1>2. CacheInv /\ EntriesOK /\ [C!Next]_(C!vars) => CacheInv' /\ EntriesOK'
  BY CacheInvStep, EntriesStep
<1>3. CacheInv /\ EntriesOK => C!TypeOK
  <2> SUFFICES ASSUME CacheInv, EntriesOK PROVE C!TypeOK
    OBVIOUS
  <2>1. C!ToSet(lruKeys) = {k \in C!Keys : stored[k] # Nobody}
    BY SameLists DEF EntriesOK
  <2> QED BY <2>1 DEF CacheInv, CacheTypes, EntriesOK, C!TypeOK
<1> QED
  BY <1>1, <1>2, <1>3, PTL DEF C!Spec

(***************************************************************************)
(* The step runs once per key and window, and all who asked meanwhile get  *)
(* what that run came to.                                                  *)
(***************************************************************************)
THEOREM OneLoadServesAll == ASSUME C!ConstantsOK PROVE C!Spec => []C!SingleFlight
<1>1. C!Init => CacheInv
  BY DEF C!Init, CacheInv, CacheTypes, RunsArePaid, LoadsInFlight, NotYet, C!FateIsShared
<1>2. CacheInv /\ [C!Next]_(C!vars) => CacheInv'
  BY CacheInvStep
<1>3. CacheInv => C!SingleFlight
  BY DEF CacheInv, RunsArePaid, C!SingleFlight, C!OncePerWindow
<1> QED
  BY <1>1, <1>2, <1>3, PTL DEF C!Spec

(***************************************************************************)
(* The part of TypeOK the argument needs.  Which buckets are remembered is *)
(* left open: a bucket that is forgotten starts anew, full.                *)
(***************************************************************************)
RateTypes ==
  /\ now \in Nat /\ forward \in Nat /\ back \in Nat
  /\ tokens \in [ThrottleKeys -> Int]
  /\ lastRefillAt \in [ThrottleKeys -> Int]
  /\ due \in [ThrottleKeys -> Seq(Int)]
  /\ throttleAborted \in BOOLEAN

(***************************************************************************)
(* What an admission costs.  The provers are given its recurrence, and not *)
(* the product.                                                            *)
(***************************************************************************)
Price(n) == n * Cost

(***************************************************************************)
(* What a later reservation costs is never less.                           *)
(***************************************************************************)
LEMMA PriceGrows ==
  ASSUME T!ConstantsOK
  PROVE  /\ \A n \in Int : Price(n) \in Int /\ Price(n + 1) = Price(n) + Cost
         /\ Price(1) = Cost
<1>1. Cost \in Nat
  BY DEF T!ConstantsOK
<1>2. \A n \in Int : n * Cost \in Int /\ (n + 1) * Cost = n * Cost + Cost
  BY <1>1
<1>3. 1 * Cost = Cost
  BY <1>1
<1> QED
  BY <1>2, <1>3 DEF Price

(***************************************************************************)
(* The burst is a whole number of tokens.                                  *)
(***************************************************************************)
LEMMA BurstIsWhole ==
  ASSUME T!ConstantsOK
  PROVE  Cost \in Nat /\ T!Full \in Nat /\ Cost <= T!Full
<1>1. Cost \in Nat /\ Capacity \in Nat /\ Capacity >= 1 /\ Cost >= 1
  BY DEF T!ConstantsOK
<1>2. \A n \in Int : n * Cost \in Int /\ (n + 1) * Cost = n * Cost + Cost
  BY <1>1
<1>3. \A c \in Nat : c * Cost \in Nat
  BY <1>1
<1>4. T!Full = (Capacity - 1) * Cost + Cost /\ (Capacity - 1) * Cost \in Nat
  BY <1>1, <1>2, <1>3 DEF T!Full
<1> QED
  BY <1>1, <1>4

(***************************************************************************)
(* The two halves of the invariant, for the times s at which exchanges     *)
(* pass, what is left in the bucket, and the instant it was last refilled: *)
(* the exchanges from any one on, and what is left, are covered by the     *)
(* burst and the time since; and any two of them are far enough apart.     *)
(***************************************************************************)
Covered(s, left, instant) ==
  \A i \in 1..Len(s) : Price(Len(s) - i + 1) + left <= T!Full + instant - s[i]

Spaced(s, leap) ==
  \A i, j \in 1..Len(s) : i <= j => Price(j - i + 1) <= T!Full + (s[j] - s[i]) + leap

(***************************************************************************)
(* By the clock that only goes forward, the instant of the last refill is  *)
(* never later than now.                                                   *)
(***************************************************************************)
Instant(k) == T!Least(now + forward, lastRefillAt[k] + back)

RateInv ==
  ~throttleAborted => \A k \in ThrottleKeys : Covered(due[k], tokens[k], Instant(k)) /\ Spaced(due[k], forward)

-----------------------------------------------------------------------------
(***************************************************************************)
(* The arithmetic of the steps below.                                      *)
(***************************************************************************)
LEMMA LaterCovers ==
  ASSUME NEW p \in Int, NEW a \in Int, NEW b \in Int, NEW c \in Int,
         NEW t \in Int, NEW u \in Int, NEW x \in Int,
         p + a <= c + t - x, b - a <= u - t
  PROVE  p + b <= c + u - x
  OBVIOUS

(***************************************************************************)
(* A longer stretch of time allows at least as much.                       *)
(***************************************************************************)
LEMMA FurtherAllows ==
  ASSUME NEW p \in Int, NEW c \in Int, NEW x \in Int, NEW y \in Int,
         NEW f \in Int, NEW g \in Int, p <= c + (y - x) + f, f <= g
  PROVE  p <= c + (y - x) + g
  OBVIOUS

(***************************************************************************)
(* Sums keep the order of their parts.                                     *)
(***************************************************************************)
LEMMA SumsGrow ==
  ASSUME NEW a \in Int, NEW b \in Int, NEW c \in Int, NEW d \in Int, a <= c, b <= d
  PROVE  a + b \in Int /\ c + d \in Int /\ a + b <= c + d
  OBVIOUS

(***************************************************************************)
(* The lesser of two grows with them.                                      *)
(***************************************************************************)
LEMMA LeastGrows ==
  ASSUME NEW a \in Int, NEW b \in Int, NEW c \in Int, NEW d \in Int, a <= c, b <= d
  PROVE  T!Least(a, b) \in Int /\ T!Least(c, d) \in Int /\ T!Least(a, b) <= T!Least(c, d)
  BY DEF T!Least

(***************************************************************************)
(* One more exchange, which waits for what the bucket lacks.               *)
(***************************************************************************)
LEMMA OneMore ==
  ASSUME T!ConstantsOK, NEW s \in Seq(Int), NEW full \in Int, full <= T!Full,
         NEW t \in Nat, NEW leap \in Nat,
         Covered(s, full, t + leap), Spaced(s, leap),
         NEW d \in Int,
         full < Cost => d = t + Cost - full,
         full >= Cost => d = t
  PROVE  Covered(Append(s, d), full - Cost, t + leap) /\ Spaced(Append(s, d), leap)
<1> DEFINE new == Append(s, d)
<1> DEFINE m == Len(s)
<1>1. /\ Len(new) = m + 1 /\ m \in Nat /\ new[m + 1] = d
      /\ \A i \in 1..m : new[i] = s[i] /\ s[i] \in Int
  OBVIOUS
<1>2. Cost \in Nat /\ T!Full \in Nat /\ Cost <= T!Full
  BY BurstIsWhole
<1>3. t - (full - Cost) <= d /\ t <= d
  BY <1>2
<1>4. \A i \in 1..m : Price(m - i + 1) + full <= T!Full + (t + leap) - s[i]
  BY DEF Covered
<1>5. \A i \in 1..m : Price((m + 1) - i + 1) = Price(m - i + 1) + Cost /\ Price(m - i + 1) \in Int
  <2> TAKE i \in 1..m
  <2>1. m - i + 1 \in Int /\ (m + 1) - i + 1 = (m - i + 1) + 1
    BY <1>1
  <2> QED
    BY <2>1, PriceGrows
<1> HIDE DEF new, m
<1>6. ASSUME NEW i \in 1..(m + 1)
      PROVE  Price((m + 1) - i + 1) + (full - Cost) <= T!Full + (t + leap) - new[i]
  <2>1. CASE i = m + 1
    <3>1. (m + 1) - i + 1 = 1 /\ new[i] = d
      BY <1>1, <2>1
    <3>2. Cost + (full - Cost) <= T!Full + (t + leap) - d
      BY <1>2
    <3> QED
      BY <3>1, <3>2, PriceGrows
  <2>2. CASE i \in 1..m
    <3>1. /\ Price(m - i + 1) + full <= T!Full + (t + leap) - s[i]
          /\ Price((m + 1) - i + 1) = Price(m - i + 1) + Cost /\ Price(m - i + 1) \in Int
          /\ new[i] = s[i] /\ s[i] \in Int
      BY <1>1, <1>4, <1>5, <2>2
    <3> QED
      BY <1>2, <3>1
  <2> QED
    BY <1>1, <2>1, <2>2
<1>7. Covered(new, full - Cost, t + leap)
  BY <1>1, <1>6 DEF Covered
<1>8. ASSUME NEW i \in 1..(m + 1), NEW j \in 1..(m + 1), i <= j
      PROVE  Price(j - i + 1) <= T!Full + (new[j] - new[i]) + leap
  <2>1. CASE j \in 1..m
    <3>1. i \in 1..m
      BY <1>1, <1>8, <2>1
    <3>2. Price(j - i + 1) <= T!Full + (s[j] - s[i]) + leap
      BY <1>8, <2>1, <3>1 DEF Spaced, m
    <3> QED
      BY <1>1, <2>1, <3>1, <3>2
  <2>2. CASE j = m + 1
    <3>1. Price(j - i + 1) + (full - Cost) <= T!Full + (t + leap) - new[i]
      BY <1>6, <2>2
    <3>2. new[j] = d /\ new[i] \in Int
      BY <1>1, <2>2
    <3>3. j - i + 1 \in Int
      BY <1>1
    <3>4. Price(j - i + 1) \in Int
      BY <3>3, PriceGrows
    <3> QED
      BY <1>2, <1>3, <3>1, <3>2, <3>4
  <2> QED
    BY <1>1, <2>1, <2>2
<1>9. Spaced(new, leap)
  BY <1>1, <1>8 DEF Spaced
<1> QED
  BY <1>7, <1>9 DEF new

(***************************************************************************)
(* What an arrival finds: a bucket that was refilled up to now, or one     *)
(* that is new and has admitted nobody.                                    *)
(***************************************************************************)
LEMMA RefillIsCovered ==
  ASSUME T!ConstantsOK, RateTypes, RateInv, ~throttleAborted, NEW k \in ThrottleKeys
  PROVE  /\ T!Admitted(k) \in Seq(Int)
         /\ T!Refilled(k) \in Int /\ T!Refilled(k) <= T!Full
         /\ Covered(T!Admitted(k), T!Refilled(k), now + forward)
         /\ Spaced(T!Admitted(k), forward)
<1>1. Cost \in Nat /\ T!Full \in Nat /\ Cost <= T!Full
  BY BurstIsWhole
<1>2. /\ tokens[k] \in Int /\ lastRefillAt[k] \in Int /\ due[k] \in Seq(Int)
      /\ now \in Nat /\ forward \in Nat /\ back \in Nat
  BY DEF RateTypes
<1>3. CASE T!HasBucket(k)
  <2>1. T!Admitted(k) = due[k]
    BY <1>3 DEF T!Admitted
  <2>2. T!Refilled(k) = T!Least(T!Full, tokens[k] + (IF T!Elapsed(k) > 0 THEN T!Elapsed(k) ELSE 0))
    BY <1>3 DEF T!Refilled
  <2>3. T!Elapsed(k) = now + forward - back - lastRefillAt[k] /\ T!Elapsed(k) \in Int
    BY <1>2 DEF T!Elapsed, T!Wall
  <2> DEFINE gain == IF T!Elapsed(k) > 0 THEN T!Elapsed(k) ELSE 0
  <2>4. gain \in Int /\ (T!Elapsed(k) > 0 => gain = T!Elapsed(k)) /\ (T!Elapsed(k) <= 0 => gain = 0)
    BY <2>3
  <2>5. T!Refilled(k) = T!Least(T!Full, tokens[k] + gain)
    BY <2>2
  <2> HIDE DEF gain
  <2>6. Instant(k) \in Int /\ gain = (now + forward) - Instant(k)
    <3>1. CASE T!Elapsed(k) > 0
      <4>1. lastRefillAt[k] + back < now + forward
        BY <1>2, <2>3, <3>1
      <4>2. Instant(k) = lastRefillAt[k] + back
        BY <1>2, <4>1 DEF Instant, T!Least
      <4> QED
        BY <1>2, <2>3, <2>4, <3>1, <4>2
    <3>2. CASE T!Elapsed(k) <= 0
      <4>1. now + forward <= lastRefillAt[k] + back
        BY <1>2, <2>3, <3>2
      <4>2. Instant(k) = now + forward
        BY <1>2, <4>1 DEF Instant, T!Least
      <4> QED
        BY <1>2, <2>4, <3>2, <4>2
    <3> QED
      BY <2>3, <3>1, <3>2
  <2>7. /\ T!Refilled(k) \in Int /\ T!Refilled(k) <= T!Full
        /\ T!Refilled(k) <= tokens[k] + gain
    <3>1. tokens[k] + gain \in Int
      BY <1>2, <2>4
    <3> QED
      BY <1>1, <2>5, <3>1 DEF T!Least
  <2>8. Instant(k) \in Int /\ T!Refilled(k) - tokens[k] <= (now + forward) - Instant(k)
    BY <1>2, <2>4, <2>6, <2>7
  <2>9. Covered(due[k], tokens[k], Instant(k)) /\ Spaced(due[k], forward)
    BY DEF RateInv
  <2>10. ASSUME NEW i \in 1..Len(due[k])
        PROVE  Price(Len(due[k]) - i + 1) + T!Refilled(k) <= T!Full + (now + forward) - due[k][i]
    <3>1. Price(Len(due[k]) - i + 1) + tokens[k] <= T!Full + Instant(k) - due[k][i]
      BY <2>9 DEF Covered
    <3>2. due[k][i] \in Int /\ Len(due[k]) - i + 1 \in Int
      BY <1>2
    <3>3. Price(Len(due[k]) - i + 1) \in Int
      BY <3>2, PriceGrows
    <3>4. /\ tokens[k] \in Int /\ T!Refilled(k) \in Int /\ T!Full \in Int
          /\ Instant(k) \in Int /\ now + forward \in Int
      BY <1>1, <1>2, <2>7, <2>8
    <3> QED
      BY <2>8, <3>1, <3>2, <3>3, <3>4, LaterCovers
  <2> QED
    BY <1>2, <2>1, <2>7, <2>9, <2>10 DEF Covered
<1>4. CASE ~T!HasBucket(k)
  <2>1. T!Admitted(k) = <<>> /\ T!Refilled(k) = T!Full
    BY <1>4 DEF T!Admitted, T!Refilled
  <2> QED
    BY <1>1, <2>1 DEF Covered, Spaced
<1> QED
  BY <1>3, <1>4

-----------------------------------------------------------------------------
(***************************************************************************)
(* An arrival keeps the invariant: its own bucket by the lemmas above, and *)
(* the others are left alone.                                              *)
(***************************************************************************)
LEMMA ArrivalKeeps ==
  ASSUME T!ConstantsOK, RateTypes, RateInv, NEW k \in ThrottleKeys, NEW s \in Seq(Int), NEW left \in Int,
         ~throttleAborted => Covered(s, left, now + forward) /\ Spaced(s, forward),
         tokens' = [tokens EXCEPT ![k] = left],
         lastRefillAt' = [lastRefillAt EXCEPT ![k] = T!Wall],
         due' = [due EXCEPT ![k] = s],
         UNCHANGED <<now, forward, back, throttleAborted>>
  PROVE  RateTypes' /\ RateInv'
<1>1. T!Wall = now + forward - back /\ T!Wall \in Int
  BY DEF RateTypes, T!Wall
<1>2. RateTypes'
  BY <1>1 DEF RateTypes
<1>3. ASSUME ~throttleAborted, NEW o \in ThrottleKeys
      PROVE  Covered(due'[o], tokens'[o], Instant(o)') /\ Spaced(due'[o], forward)
  <2>1. CASE o = k
    <3>1. due'[o] = s /\ tokens'[o] = left /\ lastRefillAt'[o] = T!Wall
      BY <2>1 DEF RateTypes
    <3>2. Instant(o)' = now + forward
      BY <1>1, <3>1 DEF Instant, T!Least, RateTypes
    <3> QED
      BY <1>3, <3>1, <3>2
  <2>2. CASE o # k
    <3>1. due'[o] = due[o] /\ tokens'[o] = tokens[o] /\ Instant(o)' = Instant(o)
      BY <2>2 DEF RateTypes, Instant
    <3> QED
      BY <1>3, <3>1 DEF RateInv
  <2> QED
    BY <2>1, <2>2
<1>4. RateInv'
  BY <1>3 DEF RateInv
<1> QED
  BY <1>2, <1>4

(***************************************************************************)
(* A reservation that waits its turn keeps the invariant.                  *)
(***************************************************************************)
LEMMA ReserveKeeps ==
  ASSUME T!ConstantsOK, RateTypes, RateInv, NEW k \in ThrottleKeys, T!Reserve(k) \/ T!TakeToken(k)
  PROVE  RateTypes' /\ RateInv'
<1> DEFINE left == T!Refilled(k) - Cost
<1> DEFINE wait == IF left < 0 /\ ~throttleAborted THEN -left ELSE 0
<1> DEFINE s == Append(T!Admitted(k), now + wait)
<1>1. Cost \in Nat /\ T!Full \in Nat
  BY BurstIsWhole
<1>2. T!Refilled(k) \in Int /\ T!Admitted(k) \in Seq(Int) /\ now \in Nat /\ forward \in Nat
  BY <1>1 DEF RateTypes, T!Refilled, T!Elapsed, T!Wall, T!Least, T!Admitted
<1>3. /\ tokens' = [tokens EXCEPT ![k] = left]
      /\ lastRefillAt' = [lastRefillAt EXCEPT ![k] = T!Wall]
      /\ UNCHANGED <<now, forward, back, throttleAborted>>
  BY DEF T!Reserve, T!TakeToken
<1>4. due' = [due EXCEPT ![k] = s]
  <2>1. CASE T!Reserve(k)
    BY <2>1 DEF T!Reserve
  <2>2. CASE T!TakeToken(k)
    <3>1. ~(left < 0)
      BY <1>1, <1>2, <2>2 DEF T!TakeToken
    <3>2. now + wait = now
      BY <1>2, <3>1
    <3> QED
      BY <2>2, <3>2 DEF T!TakeToken
  <2> QED
    BY <2>1, <2>2
<1>5. left \in Int /\ s \in Seq(Int)
  BY <1>1, <1>2
<1>6. ASSUME ~throttleAborted
      PROVE  Covered(s, left, now + forward) /\ Spaced(s, forward)
  <2>1. /\ now + wait \in Int
        /\ T!Refilled(k) < Cost => now + wait = now + Cost - T!Refilled(k)
        /\ T!Refilled(k) >= Cost => now + wait = now
    BY <1>1, <1>2, <1>6
  <2>2. /\ T!Refilled(k) <= T!Full
        /\ Covered(T!Admitted(k), T!Refilled(k), now + forward) /\ Spaced(T!Admitted(k), forward)
    BY <1>6, RefillIsCovered
  <2> QED
    BY <1>2, <2>1, <2>2, OneMore
<1> HIDE DEF left, s
<1> QED
  BY <1>3, <1>4, <1>5, <1>6, ArrivalKeeps

(***************************************************************************)
(* A refusal keeps the invariant.                                          *)
(***************************************************************************)
LEMMA RejectKeeps ==
  ASSUME T!ConstantsOK, RateTypes, RateInv, NEW k \in ThrottleKeys, T!Reject(k)
  PROVE  RateTypes' /\ RateInv'
<1>1. T!Full \in Nat
  BY BurstIsWhole
<1>2. T!Refilled(k) \in Int /\ T!Admitted(k) \in Seq(Int)
  BY <1>1 DEF RateTypes, T!Refilled, T!Elapsed, T!Wall, T!Least, T!Admitted
<1>3. /\ tokens' = [tokens EXCEPT ![k] = T!Refilled(k)]
      /\ lastRefillAt' = [lastRefillAt EXCEPT ![k] = T!Wall]
      /\ due' = [due EXCEPT ![k] = T!Admitted(k)]
      /\ UNCHANGED <<now, forward, back, throttleAborted>>
  BY DEF T!Reject
<1>4. ~throttleAborted => Covered(T!Admitted(k), T!Refilled(k), now + forward) /\ Spaced(T!Admitted(k), forward)
  BY RefillIsCovered
<1> QED
  BY <1>2, <1>3, <1>4, ArrivalKeeps

(***************************************************************************)
(* Time and steps of the clock only give away more.                        *)
(***************************************************************************)
LEMMA ClockKeeps ==
  ASSUME T!ConstantsOK, RateTypes, RateInv, T!Tick \/ T!SetForward \/ T!SetBack
  PROVE  RateTypes' /\ RateInv'
<1>1. /\ now' \in Nat /\ forward' \in Nat /\ back' \in Nat
      /\ now' >= now /\ forward' >= forward /\ back' >= back
      /\ UNCHANGED <<tokens, lastRefillAt, due, throttleAborted>>
  BY DEF RateTypes, T!Tick, T!SetForward, T!SetBack
<1>2. RateTypes'
  BY <1>1 DEF RateTypes
<1>3. ASSUME ~throttleAborted, NEW k \in ThrottleKeys
      PROVE  Covered(due[k], tokens[k], Instant(k)') /\ Spaced(due[k], forward')
  <2>1. /\ tokens[k] \in Int /\ lastRefillAt[k] \in Int /\ due[k] \in Seq(Int)
        /\ now \in Nat /\ forward \in Nat /\ back \in Nat
    BY DEF RateTypes
  <2>2. Instant(k) <= Instant(k)' /\ Instant(k) \in Int /\ Instant(k)' \in Int
    <3>1. Instant(k)' = T!Least(now' + forward', lastRefillAt[k] + back')
      BY <1>1 DEF Instant
    <3>2. /\ now + forward \in Int /\ now' + forward' \in Int
          /\ now + forward <= now' + forward'
      <4>1. /\ now \in Int /\ forward \in Int /\ now' \in Int /\ forward' \in Int
            /\ now <= now' /\ forward <= forward'
        BY <1>1, <2>1
      <4> QED BY <4>1, SumsGrow
    <3>3. lastRefillAt[k] <= lastRefillAt[k] /\ back \in Int /\ back' \in Int /\ back <= back'
      BY <1>1, <2>1
    <3>4. /\ lastRefillAt[k] + back \in Int /\ lastRefillAt[k] + back' \in Int
          /\ lastRefillAt[k] + back <= lastRefillAt[k] + back'
      BY <2>1, <3>3, SumsGrow
    <3> QED
      BY <3>1, <3>2, <3>4, LeastGrows DEF Instant
  <2>3. Covered(due[k], tokens[k], Instant(k)) /\ Spaced(due[k], forward)
    BY <1>3 DEF RateInv
  <2>4. T!Full \in Nat
    BY BurstIsWhole
  <2>5. \A i \in 1..Len(due[k]) : due[k][i] \in Int
    BY <2>1
  <2>6. Covered(due[k], tokens[k], Instant(k)')
    <3> SUFFICES ASSUME NEW i \in 1..Len(due[k])
                 PROVE  Price(Len(due[k]) - i + 1) + tokens[k] <= T!Full + Instant(k)' - due[k][i]
      BY DEF Covered
    <3>1. Price(Len(due[k]) - i + 1) + tokens[k] <= T!Full + Instant(k) - due[k][i]
      BY <2>3 DEF Covered
    <3>2. Len(due[k]) - i + 1 \in Int /\ due[k][i] \in Int
      BY <2>1, <2>5
    <3>3. Price(Len(due[k]) - i + 1) \in Int
      BY <3>2, PriceGrows
    <3>4. tokens[k] - tokens[k] <= Instant(k)' - Instant(k) /\ T!Full \in Int
      BY <2>1, <2>2, <2>4
    <3> QED
      BY <2>1, <2>2, <3>1, <3>2, <3>3, <3>4, LaterCovers
  <2>7. Spaced(due[k], forward')
    <3> SUFFICES ASSUME NEW i \in 1..Len(due[k]), NEW j \in 1..Len(due[k]), i <= j
                 PROVE  Price(j - i + 1) <= T!Full + (due[k][j] - due[k][i]) + forward'
      BY DEF Spaced
    <3>1. Price(j - i + 1) <= T!Full + (due[k][j] - due[k][i]) + forward
      BY <2>3 DEF Spaced
    <3>2. j - i + 1 \in Int /\ due[k][i] \in Int /\ due[k][j] \in Int
      BY <2>5
    <3>3. Price(j - i + 1) \in Int
      BY <3>2, PriceGrows
    <3>4. forward \in Int /\ forward' \in Int /\ forward <= forward' /\ T!Full \in Int
      BY <1>1, <2>1, <2>4
    <3> QED
      BY <3>1, <3>2, <3>3, <3>4, FurtherAllows
  <2> QED
    BY <2>6, <2>7
<1>4. RateInv'
  BY <1>1, <1>3 DEF RateInv
<1> QED
  BY <1>2, <1>4

(***************************************************************************)
(* A cancelled wait keeps the invariant.                                   *)
(***************************************************************************)
LEMMA AbortKeeps ==
  ASSUME RateTypes, T!Abort
  PROVE  RateTypes' /\ RateInv'
<1>1. \A k \in ThrottleKeys : [i \in DOMAIN due[k] |-> T!Least(due[k][i], now)] \in Seq(Int)
  <2> TAKE k \in ThrottleKeys
  <2>1. /\ due[k] \in Seq(Int) /\ DOMAIN due[k] = 1..Len(due[k]) /\ Len(due[k]) \in Nat
        /\ now \in Int
    BY DEF RateTypes
  <2>2. \A i \in 1..Len(due[k]) : T!Least(due[k][i], now) \in Int
    BY <2>1 DEF T!Least
  <2> QED
    BY <2>1, <2>2
<1>2. RateTypes'
  BY <1>1 DEF RateTypes, T!Abort
<1> QED
  BY <1>2 DEF RateInv, T!Abort

-----------------------------------------------------------------------------
(***************************************************************************)
(* Every step keeps the invariant.                                         *)
(***************************************************************************)
LEMMA RateInvStep ==
  ASSUME T!ConstantsOK, RateTypes, RateInv, [T!Next]_(T!vars)
  PROVE  RateTypes' /\ RateInv'
<1>1. CASE UNCHANGED T!vars
  <2>1. UNCHANGED <<now, forward, back, tokens, lastRefillAt, due, throttleAborted>>
    BY <1>1 DEF T!vars
  <2>2. \A k \in ThrottleKeys : Instant(k)' = Instant(k)
    BY <2>1 DEF Instant
  <2> QED
    BY <2>1, <2>2 DEF RateTypes, RateInv
<1>2. ASSUME NEW k \in ThrottleKeys, T!Arrive(k)
      PROVE  RateTypes' /\ RateInv'
  BY <1>2, ReserveKeeps, RejectKeeps DEF T!Arrive
<1> QED
  BY <1>1, <1>2, ClockKeeps, AbortKeeps DEF T!Next

(***************************************************************************)
(* The first buckets are full and charged for nothing.                     *)
(***************************************************************************)
LEMMA RateStarts == ASSUME T!ConstantsOK, T!Init PROVE RateTypes /\ RateInv
<1>1. T!Full \in Nat
  BY BurstIsWhole
<1>2. <<>> \in Seq(Int) /\ T!Full \in Int
  BY <1>1
<1>3. due \in [ThrottleKeys -> Seq(Int)] /\ tokens \in [ThrottleKeys -> Int]
  BY <1>2 DEF T!Init
<1>4. now \in Nat /\ forward \in Nat /\ back \in Nat
  BY DEF T!Init
<1>5. lastRefillAt \in [ThrottleKeys -> Int]
  BY DEF T!Init
<1>6. throttleAborted \in BOOLEAN
  BY DEF T!Init
<1>7. RateTypes
  BY <1>3, <1>4, <1>5, <1>6 DEF RateTypes
<1>8. \A k \in ThrottleKeys : due[k] = <<>>
  BY DEF T!Init
<1> QED
  BY <1>7, <1>8 DEF RateInv, Covered, Spaced

(***************************************************************************)
(* The throttle keeps the rate it was given: no arrival pattern, eviction  *)
(* or step of the clock lets a bucket pass more than its burst and the     *)
(* time between allow.                                                     *)
(***************************************************************************)
THEOREM TheRateIsKept == ASSUME T!ConstantsOK PROVE T!Spec => []T!RateIsKept
<1>1. T!Init => RateTypes /\ RateInv
  BY RateStarts
<1>2. RateTypes /\ RateInv /\ [T!Next]_(T!vars) => RateTypes' /\ RateInv'
  BY RateInvStep
<1>3. RateTypes /\ RateInv => T!RateIsKept
  <2> SUFFICES ASSUME RateTypes, RateInv, ~throttleAborted, NEW k \in ThrottleKeys,
                      NEW i \in DOMAIN due[k], NEW j \in DOMAIN due[k], i <= j
               PROVE  (j - i + 1) * Cost <= T!Full + (due[k][j] - due[k][i]) + forward
    BY DEF T!RateIsKept
  <2>1. DOMAIN due[k] = 1..Len(due[k])
    BY DEF RateTypes
  <2>2. Price(j - i + 1) <= T!Full + (due[k][j] - due[k][i]) + forward
    BY <2>1 DEF RateInv, Spaced
  <2> QED
    BY <2>2 DEF Price
<1> QED
  BY <1>1, <1>2, <1>3, PTL DEF T!Spec
-----------------------------------------------------------------------------
(***************************************************************************)
(* The rest of the shape: no bucket is fuller than full, no more of them   *)
(* are kept than may be, and who is not made to wait passes at once.       *)
(***************************************************************************)
BucketTypes ==
  /\ mode \in {"delay", "reject"}
  /\ \A k \in ThrottleKeys : tokens[k] <= T!Full
  /\ recent \in Seq(ThrottleKeys) /\ Len(recent) <= MaxBuckets /\ Once(recent)
  /\ usedAt \in [ThrottleKeys -> Nat]
  /\ due \in [ThrottleKeys -> Seq(Nat)]
  /\ rejected \in [ThrottleKeys -> Nat]
  /\ mode = "reject" => \A k \in ThrottleKeys : \A i \in 1..Len(due[k]) : due[k][i] <= now

(***************************************************************************)
(* Why nobody is held back without need: since the exchange that found the *)
(* bucket full, it was charged for no more than came after it, and it lost *)
(* no more time than the clock was set forward before.                     *)
(***************************************************************************)
Tight(k) ==
  IF due[k] = <<>> THEN tokens[k] = T!Full
  ELSE \E i \in 1..Len(due[k]) :
         tokens[k] >= T!Full - Price(Len(due[k]) - i + 1)
                      + (lastRefillAt[k] - due[k][i]) - forward

ExcessInv == (~throttleAborted \/ mode = "reject") => \A k \in ThrottleKeys : Tight(k)

(***************************************************************************)
(* A look-up keeps the order and the bound of the buckets.                 *)
(***************************************************************************)
LEMMA LookUpKeeps ==
  ASSUME T!ConstantsOK, RateTypes, BucketTypes, NEW k \in ThrottleKeys, T!LooksUp(k)
  PROVE  /\ recent' \in Seq(ThrottleKeys) /\ Len(recent') <= MaxBuckets /\ Once(recent')
         /\ usedAt' \in [ThrottleKeys -> Nat]
<1> DEFINE t == Append(Out(recent, k), k)
           rest == Tail(t)
<1>1. /\ recent \in Seq(ThrottleKeys) /\ Len(recent) <= MaxBuckets /\ Once(recent)
      /\ Len(recent) \in Nat /\ MaxBuckets \in Nat
  BY DEF BucketTypes, T!ConstantsOK
<1>2. T!Without(k) = Out(recent, k)
  BY SameLists DEF T!Without, Out
<1>3. /\ recent' = IF Len(t) > MaxBuckets THEN rest ELSE t
      /\ usedAt' = [usedAt EXCEPT ![k] = now]
  BY <1>2 DEF T!LooksUp
<1>4. /\ t \in Seq(ThrottleKeys) /\ Once(t) /\ t # <<>>
      /\ Len(t) <= Len(recent) + 1 /\ Len(t) \in Nat
  <2>1. LET u == Append(Out(recent, k), k) IN
        u \in Seq(ThrottleKeys) /\ Once(u) /\ u # <<>> /\ Len(u) <= Len(recent) + 1
    BY <1>1, PutLast
  <2> QED BY <2>1
<1>5. rest \in Seq(ThrottleKeys) /\ Len(rest) = Len(t) - 1 /\ Once(rest)
  <2> HIDE DEF t
  <2> QED BY <1>4, TailIsRest
<1> HIDE DEF t, rest
<1>6. Len(rest) <= MaxBuckets
  BY <1>1, <1>4, <1>5
<1>7. CASE Len(t) > MaxBuckets
  BY <1>3, <1>5, <1>6, <1>7 DEF RateTypes, BucketTypes
<1>8. CASE ~(Len(t) > MaxBuckets)
  <2>1. recent' = t BY <1>3, <1>8
  <2>2. Len(t) <= MaxBuckets BY <1>1, <1>4, <1>8
  <2> QED BY <1>3, <1>4, <2>1, <2>2 DEF RateTypes, BucketTypes
<1> QED BY <1>7, <1>8

(***************************************************************************)
(* What an arrival finds is at most a full bucket, and tightly charged.    *)
(***************************************************************************)
LEMMA RefillIsTight ==
  ASSUME T!ConstantsOK, RateTypes, BucketTypes, ExcessInv, NEW k \in ThrottleKeys,
         ~throttleAborted \/ mode = "reject"
  PROVE  LET s == T!Admitted(k) IN
         /\ s \in Seq(Nat) /\ T!Refilled(k) \in Int /\ T!Refilled(k) <= T!Full
         /\ T!Refilled(k) = T!Full \/
              /\ s = due[k]
              /\ \E i \in 1..Len(s) :
                   T!Refilled(k) >= T!Full - Price(Len(s) - i + 1) + (T!Wall - s[i]) - forward
<1>1. Cost \in Nat /\ T!Full \in Nat /\ Cost <= T!Full
  BY BurstIsWhole
<1>2. /\ tokens[k] \in Int /\ tokens[k] <= T!Full /\ lastRefillAt[k] \in Int
      /\ due[k] \in Seq(Nat) /\ now \in Nat /\ forward \in Nat /\ back \in Nat
      /\ T!Wall \in Int /\ T!Elapsed(k) = T!Wall - lastRefillAt[k]
  BY DEF RateTypes, BucketTypes, T!Wall, T!Elapsed
<1>3. CASE ~T!HasBucket(k)
  BY <1>1, <1>3 DEF T!Admitted, T!Refilled
<1>4. CASE T!HasBucket(k)
  <2> DEFINE gain == IF T!Elapsed(k) > 0 THEN T!Elapsed(k) ELSE 0
  <2>1. gain \in Nat /\ gain >= T!Wall - lastRefillAt[k]
    BY <1>2
  <2>2. T!Admitted(k) = due[k] /\ T!Refilled(k) = T!Least(T!Full, tokens[k] + gain)
    BY <1>4 DEF T!Admitted, T!Refilled
  <2> HIDE DEF gain
  <2>3. /\ T!Refilled(k) \in Int /\ T!Refilled(k) <= T!Full
        /\ T!Refilled(k) = T!Full \/ T!Refilled(k) = tokens[k] + gain
        /\ tokens[k] = T!Full => T!Refilled(k) = T!Full
    BY <1>1, <1>2, <2>1, <2>2 DEF T!Least
  <2>4. CASE T!Refilled(k) = T!Full
    BY <1>2, <2>2, <2>3, <2>4
  <2>5. CASE T!Refilled(k) # T!Full
    <3>1. due[k] # <<>> /\ Tight(k)
      BY <2>3, <2>5 DEF ExcessInv, Tight
    <3>2. PICK i \in 1..Len(due[k]) :
            tokens[k] >= T!Full - Price(Len(due[k]) - i + 1)
                         + (lastRefillAt[k] - due[k][i]) - forward
      BY <3>1 DEF Tight
    <3>3. due[k][i] \in Int /\ Price(Len(due[k]) - i + 1) \in Int
      <4>1. Len(due[k]) - i + 1 \in Int /\ due[k][i] \in Int BY <1>2
      <4>2. Price(Len(due[k]) - i + 1) \in Int BY <4>1, PriceGrows
      <4> QED BY <4>1, <4>2
    <3>4. T!Refilled(k) >= T!Full - Price(Len(due[k]) - i + 1) + (T!Wall - due[k][i]) - forward
      <4> DEFINE p == Price(Len(due[k]) - i + 1)
                 d == due[k][i]
                 l == lastRefillAt[k]
      <4>1. /\ tokens[k] >= T!Full - p + (l - d) - forward
            /\ gain >= T!Wall - l /\ T!Refilled(k) = tokens[k] + gain
        BY <2>1, <2>3, <2>5, <3>2
      <4>2. /\ p \in Int /\ d \in Int /\ l \in Int /\ gain \in Int /\ T!Full \in Int
            /\ tokens[k] \in Int /\ forward \in Int /\ T!Wall \in Int
        BY <1>1, <1>2, <2>1, <3>3
      <4> HIDE DEF p, d, l
      <4>3. tokens[k] + gain >= T!Full - p + (T!Wall - d) - forward
        BY <4>1, <4>2
      <4> QED BY <4>1, <4>3 DEF p, d
    <3> QED BY <1>2, <2>2, <2>3, <3>4
  <2> QED BY <2>4, <2>5
<1> QED BY <1>3, <1>4

(***************************************************************************)
(* What an arrival finds has its shape in any case.                        *)
(***************************************************************************)
LEMMA RefillIsBounded ==
  ASSUME T!ConstantsOK, RateTypes, BucketTypes, NEW k \in ThrottleKeys
  PROVE  /\ T!Admitted(k) \in Seq(Nat) /\ (T!Admitted(k) = due[k] \/ T!Admitted(k) = <<>>)
         /\ T!Refilled(k) \in Int /\ T!Refilled(k) <= T!Full
<1>1. Cost \in Nat /\ T!Full \in Nat /\ Cost <= T!Full
  BY BurstIsWhole
<1>2. tokens[k] \in Int /\ T!Elapsed(k) \in Int /\ due[k] \in Seq(Nat)
  BY DEF RateTypes, BucketTypes, T!Wall, T!Elapsed
<1> QED
  BY <1>1, <1>2 DEF T!Admitted, T!Refilled, T!Least

(***************************************************************************)
(* The three ways an arrival may go, as they change a bucket.              *)
(***************************************************************************)
LEMMA ArrivalForms ==
  ASSUME T!ConstantsOK, RateTypes, BucketTypes, NEW k \in ThrottleKeys, T!Arrive(k)
  PROVE  LET found == T!Refilled(k)
             s == T!Admitted(k)
         IN /\ lastRefillAt' = [lastRefillAt EXCEPT ![k] = T!Wall]
            /\ T!LooksUp(k) /\ UNCHANGED <<mode, now, forward, back, throttleAborted>>
            /\ \/ /\ found < Cost /\ mode = "reject"
                  /\ tokens' = [tokens EXCEPT ![k] = found] /\ due' = [due EXCEPT ![k] = s]
                  /\ rejected' = [rejected EXCEPT ![k] = @ + 1]
               \/ /\ tokens' = [tokens EXCEPT ![k] = found - Cost]
                  /\ UNCHANGED rejected
                  /\ \/ due' = [due EXCEPT ![k] = Append(s, now)]
                     \/ /\ found < Cost /\ ~throttleAborted /\ mode = "delay"
                        /\ due' = [due EXCEPT ![k] = Append(s, now + (Cost - found))]
<1>1. Cost \in Nat /\ now \in Nat /\ T!Refilled(k) \in Int
  BY BurstIsWhole, RefillIsBounded DEF RateTypes
<1>2. CASE T!Reject(k)
  BY <1>2 DEF T!Reject
<1>3. CASE T!TakeToken(k)
  BY <1>3 DEF T!TakeToken
<1>4. CASE T!Reserve(k)
  <2> DEFINE left == T!Refilled(k) - Cost
             wait == IF left < 0 /\ ~throttleAborted THEN -left ELSE 0
  <2>1. now + wait = now \/ (T!Refilled(k) < Cost /\ ~throttleAborted
                             /\ now + wait = now + (Cost - T!Refilled(k)))
    BY <1>1
  <2>2. /\ mode = "delay" /\ tokens' = [tokens EXCEPT ![k] = left]
        /\ lastRefillAt' = [lastRefillAt EXCEPT ![k] = T!Wall]
        /\ due' = [due EXCEPT ![k] = Append(T!Admitted(k), now + wait)]
        /\ T!LooksUp(k) /\ UNCHANGED <<mode, now, forward, back, rejected, throttleAborted>>
    BY <1>4 DEF T!Reserve
  <2> HIDE DEF wait
  <2> QED BY <2>1, <2>2
<1> QED
  BY <1>2, <1>3, <1>4 DEF T!Arrive

(***************************************************************************)
(* An arrival keeps the shape.                                             *)
(***************************************************************************)
LEMMA ArrivalKeepsBuckets ==
  ASSUME T!ConstantsOK, RateTypes, BucketTypes, NEW k \in ThrottleKeys, T!Arrive(k)
  PROVE  BucketTypes'
<1> DEFINE found == T!Refilled(k)
           s == T!Admitted(k)
<1>1. /\ Cost \in Nat /\ T!Full \in Nat /\ now \in Nat /\ found \in Int /\ found <= T!Full
      /\ s \in Seq(Nat) /\ (s = due[k] \/ s = <<>>)
  BY BurstIsWhole, RefillIsBounded DEF RateTypes
<1>2. /\ T!LooksUp(k) /\ UNCHANGED <<mode, now>>
      /\ \/ /\ tokens' = [tokens EXCEPT ![k] = found] /\ due' = [due EXCEPT ![k] = s]
            /\ rejected' = [rejected EXCEPT ![k] = @ + 1]
         \/ /\ tokens' = [tokens EXCEPT ![k] = found - Cost]
            /\ UNCHANGED rejected
            /\ \/ due' = [due EXCEPT ![k] = Append(s, now)]
               \/ /\ found < Cost /\ mode = "delay"
                  /\ due' = [due EXCEPT ![k] = Append(s, now + (Cost - found))]
  BY ArrivalForms
<1>3. /\ recent' \in Seq(ThrottleKeys) /\ Len(recent') <= MaxBuckets /\ Once(recent')
      /\ usedAt' \in [ThrottleKeys -> Nat]
  BY <1>2, LookUpKeeps
<1> HIDE DEF found, s
<1>4. \A o \in ThrottleKeys : tokens'[o] <= T!Full
  <2>1. found - Cost \in Int /\ found - Cost <= T!Full BY <1>1
  <2> QED BY <1>1, <1>2, <2>1 DEF RateTypes, BucketTypes
<1>5. due' \in [ThrottleKeys -> Seq(Nat)]
  <2>1. due \in [ThrottleKeys -> Seq(Nat)] BY DEF BucketTypes
  <2>2. Append(s, now) \in Seq(Nat) BY <1>1
  <2>3. found < Cost => Append(s, now + (Cost - found)) \in Seq(Nat)
    <3>1. found < Cost => now + (Cost - found) \in Nat BY <1>1
    <3> QED BY <1>1, <3>1
  <2> QED BY <1>1, <1>2, <2>1, <2>2, <2>3
<1>6. rejected' \in [ThrottleKeys -> Nat]
  <2>1. rejected' = rejected \/ rejected' = [rejected EXCEPT ![k] = @ + 1]
    BY <1>2
  <2>2. rejected \in [ThrottleKeys -> Nat] BY DEF BucketTypes
  <2>3. rejected[k] + 1 \in Nat BY <2>2
  <2> QED BY <2>1, <2>2, <2>3
<1>7. ASSUME mode = "reject", NEW o \in ThrottleKeys, NEW i \in 1..Len(due'[o])
      PROVE  due'[o][i] <= now
  <2>1. \A p \in ThrottleKeys : \A j \in 1..Len(due[p]) : due[p][j] <= now
    BY <1>7 DEF BucketTypes
  <2>2. due \in [ThrottleKeys -> Seq(Nat)] BY DEF BucketTypes
  <2>3. CASE o # k
    <3>1. due'[o] = due[o] BY <1>2, <2>2, <2>3
    <3> QED BY <1>7, <2>1, <3>1
  <2>4. CASE o = k
    <3>1. due'[k] = s \/ due'[k] = Append(s, now) BY <1>2, <1>7, <2>2
    <3>2. \A j \in 1..Len(s) : s[j] <= now BY <1>1, <2>1
    <3>3. CASE due'[k] = s BY <1>7, <2>4, <3>2, <3>3
    <3>4. CASE due'[k] = Append(s, now)
      <4>1. i \in 1..Len(s) + 1 /\ Len(s) \in Nat BY <1>1, <1>7, <2>4, <3>4
      <4>2. CASE i = Len(s) + 1
        <5>1. Append(s, now)[i] = now BY <1>1, <4>2
        <5> QED BY <1>1, <2>4, <3>4, <5>1
      <4>3. CASE i # Len(s) + 1
        <5>1. i \in 1..Len(s) BY <4>1, <4>3
        <5>2. Append(s, now)[i] = s[i] BY <1>1, <5>1
        <5> QED BY <2>4, <3>2, <3>4, <5>1, <5>2
      <4> QED BY <4>2, <4>3
    <3> QED BY <3>1, <3>3, <3>4
  <2> QED BY <2>3, <2>4
<1> QED
  BY <1>2, <1>3, <1>4, <1>5, <1>6, <1>7 DEF BucketTypes

(***************************************************************************)
(* The abort moves the waits up to now: in mode reject there are none.     *)
(***************************************************************************)
LEMMA AbortKeepsBuckets ==
  ASSUME RateTypes, BucketTypes, T!Abort
  PROVE  BucketTypes' /\ (mode = "reject" => due' = due)
<1>1. /\ due \in [ThrottleKeys -> Seq(Nat)] /\ now \in Nat
      /\ due' = [k \in ThrottleKeys |-> [i \in DOMAIN due[k] |-> T!Least(due[k][i], now)]]
      /\ UNCHANGED <<mode, now, tokens, recent, usedAt, rejected>>
  BY DEF RateTypes, BucketTypes, T!Abort
<1>2. ASSUME NEW k \in ThrottleKeys
      PROVE  /\ due'[k] \in Seq(Nat)
             /\ \A i \in 1..Len(due'[k]) : due'[k][i] <= now
             /\ (\A i \in 1..Len(due[k]) : due[k][i] <= now) => due'[k] = due[k]
  <2>1. /\ due[k] \in Seq(Nat) /\ DOMAIN due[k] = 1..Len(due[k]) /\ Len(due[k]) \in Nat
        /\ due'[k] = [i \in 1..Len(due[k]) |-> T!Least(due[k][i], now)]
    BY <1>1
  <2>2. \A i \in 1..Len(due[k]) : /\ T!Least(due[k][i], now) \in Nat
                                  /\ T!Least(due[k][i], now) <= now
                                  /\ due[k][i] <= now => T!Least(due[k][i], now) = due[k][i]
    BY <1>1, <2>1 DEF T!Least
  <2>3. due'[k] \in Seq(Nat) /\ Len(due'[k]) = Len(due[k])
    BY <2>1, <2>2
  <2>4. (\A i \in 1..Len(due[k]) : due[k][i] <= now) =>
          due'[k] = [i \in 1..Len(due[k]) |-> due[k][i]]
    BY <2>1, <2>2
  <2>5. due[k] = [i \in 1..Len(due[k]) |-> due[k][i]]
    BY <2>1
  <2> QED BY <2>1, <2>2, <2>3, <2>4, <2>5
<1>3. due' \in [ThrottleKeys -> Seq(Nat)]
  BY <1>1, <1>2
<1>4. mode = "reject" => due' = due
  <2> SUFFICES ASSUME mode = "reject" PROVE due' = due
    OBVIOUS
  <2>1. \A k \in ThrottleKeys : due'[k] = due[k]
    BY <1>2 DEF BucketTypes
  <2> QED BY <1>1, <1>3, <2>1
<1> QED
  BY <1>1, <1>2, <1>3, <1>4 DEF BucketTypes

(***************************************************************************)
(* Every step keeps the shape.                                             *)
(***************************************************************************)
LEMMA BucketsStep ==
  ASSUME T!ConstantsOK, RateTypes, BucketTypes, [T!Next]_(T!vars)
  PROVE  BucketTypes'
<1>1. CASE T!Tick \/ T!SetForward \/ T!SetBack \/ UNCHANGED T!vars
  <2>1. /\ now' \in Nat /\ now <= now'
        /\ UNCHANGED <<mode, tokens, recent, usedAt, due, rejected>>
    BY <1>1 DEF RateTypes, T!Tick, T!SetForward, T!SetBack, T!vars
  <2>2. mode = "reject" => \A k \in ThrottleKeys : \A i \in 1..Len(due[k]) : due[k][i] <= now'
    <3> SUFFICES ASSUME mode = "reject", NEW k \in ThrottleKeys, NEW i \in 1..Len(due[k])
                 PROVE  due[k][i] <= now'
      OBVIOUS
    <3>1. due[k][i] <= now BY DEF BucketTypes
    <3>2. due[k][i] \in Nat /\ now \in Nat BY DEF BucketTypes, RateTypes
    <3> QED BY <2>1, <3>1, <3>2
  <2> QED BY <2>1, <2>2 DEF BucketTypes
<1> QED
  BY <1>1, ArrivalKeepsBuckets, AbortKeepsBuckets DEF T!Next

-----------------------------------------------------------------------------
(***************************************************************************)
(* One more charge to a bucket that was tightly charged.                   *)
(***************************************************************************)
LEMMA StaysTight ==
  ASSUME NEW p \in Int, NEW c \in Int, NEW f \in Int, NEW b \in Int, NEW w \in Int,
         NEW d \in Int, NEW g \in Int, b >= f - p + (w - d) - g
  PROVE  b - c >= f - (p + c) + (w - d) - g
OBVIOUS

(***************************************************************************)
(* An arrival keeps its bucket tightly charged.                            *)
(***************************************************************************)
LEMMA ArrivalKeepsTight ==
  ASSUME T!ConstantsOK, RateTypes, BucketTypes, ExcessInv, NEW k \in ThrottleKeys, T!Arrive(k)
  PROVE  ExcessInv'
<1> DEFINE found == T!Refilled(k)
           s == T!Admitted(k)
<1>1. /\ Cost \in Nat /\ T!Full \in Nat /\ Cost <= T!Full
      /\ now \in Nat /\ forward \in Nat /\ back \in Nat
      /\ T!Wall = now + forward - back /\ T!Wall \in Int
      /\ due \in [ThrottleKeys -> Seq(Nat)] /\ lastRefillAt \in [ThrottleKeys -> Int]
      /\ tokens \in [ThrottleKeys -> Int]
  BY BurstIsWhole DEF RateTypes, BucketTypes, T!Wall
<1>2. /\ lastRefillAt' = [lastRefillAt EXCEPT ![k] = T!Wall]
      /\ UNCHANGED <<mode, now, forward, back, throttleAborted>>
      /\ \/ /\ found < Cost
            /\ tokens' = [tokens EXCEPT ![k] = found] /\ due' = [due EXCEPT ![k] = s]
         \/ /\ tokens' = [tokens EXCEPT ![k] = found - Cost]
            /\ \/ due' = [due EXCEPT ![k] = Append(s, now)]
               \/ /\ found < Cost
                  /\ due' = [due EXCEPT ![k] = Append(s, now + (Cost - found))]
  BY ArrivalForms
<1> SUFFICES ASSUME ~throttleAborted \/ mode = "reject", NEW o \in ThrottleKeys
             PROVE  Tight(o)'
  BY <1>2 DEF ExcessInv
<1>3. CASE o # k
  <2>1. Tight(o) BY DEF ExcessInv
  <2>2. /\ due'[o] = due[o] /\ tokens'[o] = tokens[o] /\ lastRefillAt'[o] = lastRefillAt[o]
        /\ forward' = forward
    BY <1>1, <1>2, <1>3
  <2> QED BY <2>1, <2>2 DEF Tight
<1>4. CASE o = k
  <2>1. /\ s \in Seq(Nat) /\ found \in Int /\ found <= T!Full
        /\ \/ found = T!Full
           \/ \E i \in 1..Len(s) :
                found >= T!Full - Price(Len(s) - i + 1) + (T!Wall - s[i]) - forward
    BY RefillIsTight
  <2> HIDE DEF found, s
  <2>2. lastRefillAt'[k] = T!Wall /\ forward' = forward
    BY <1>1, <1>2
  <2>3. CASE found = T!Full
    <3>1. ~(found < Cost) BY <1>1, <2>3
    <3>2. tokens'[k] = T!Full - Cost /\ due'[k] = Append(s, now)
      BY <1>1, <1>2, <2>3, <3>1
    <3>3. /\ Append(s, now) # <<>> /\ Len(Append(s, now)) = Len(s) + 1
          /\ Append(s, now)[Len(s) + 1] = now /\ Len(s) \in Nat
      BY <2>1
    <3>4. Price((Len(s) + 1) - (Len(s) + 1) + 1) = Cost
      BY <3>3, PriceGrows
    <3>5. T!Full - Cost >= T!Full - Cost + (T!Wall - now) - forward
      BY <1>1
    <3>6. \E i \in 1..Len(due'[k]) :
            tokens'[k] >= T!Full - Price(Len(due'[k]) - i + 1)
                          + (lastRefillAt'[k] - due'[k][i]) - forward'
      <4>1. Len(s) + 1 \in 1..Len(due'[k]) BY <3>2, <3>3
      <4> QED BY <2>2, <3>2, <3>3, <3>4, <3>5, <4>1
    <3> QED BY <1>4, <3>2, <3>3, <3>6 DEF Tight
  <2>4. CASE found # T!Full
    <3>1. PICK i \in 1..Len(s) :
            found >= T!Full - Price(Len(s) - i + 1) + (T!Wall - s[i]) - forward
      BY <2>1, <2>4
    <3>2. Len(s) \in Nat /\ s # <<>> /\ s[i] \in Int /\ Len(s) - i + 1 \in Int
      BY <2>1
    <3>3. CASE tokens'[k] = found /\ due'[k] = s
      BY <1>4, <2>2, <3>1, <3>2, <3>3 DEF Tight
    <3>4. ASSUME NEW d \in Nat, tokens'[k] = found - Cost, due'[k] = Append(s, d)
          PROVE  Tight(k)'
      <4>1. /\ Append(s, d) # <<>> /\ Len(Append(s, d)) = Len(s) + 1
            /\ Append(s, d)[i] = s[i] /\ i \in 1..Len(s) + 1
        BY <2>1, <3>2
      <4>2. Price((Len(s) + 1) - i + 1) = Price(Len(s) - i + 1) + Cost /\ Price(Len(s) - i + 1) \in Int
        <5>1. (Len(s) + 1) - i + 1 = (Len(s) - i + 1) + 1 BY <3>2
        <5> QED BY <3>2, <5>1, PriceGrows
      <4>3. found - Cost >= T!Full - (Price(Len(s) - i + 1) + Cost) + (T!Wall - s[i]) - forward
        <5>1. /\ Cost \in Int /\ T!Full \in Int /\ found \in Int /\ T!Wall \in Int
              /\ s[i] \in Int /\ forward \in Int /\ Price(Len(s) - i + 1) \in Int
          BY <1>1, <2>1, <3>2, <4>2
        <5> QED BY <3>1, <5>1, StaysTight
      <4>4. /\ i \in 1..Len(due'[k])
            /\ tokens'[k] >= T!Full - Price(Len(due'[k]) - i + 1)
                             + (lastRefillAt'[k] - due'[k][i]) - forward'
        BY <2>2, <3>4, <4>1, <4>2, <4>3
      <4> QED BY <3>4, <4>1, <4>4 DEF Tight
    <3>5. \/ tokens'[k] = found /\ due'[k] = s
          \/ \E d \in Nat : tokens'[k] = found - Cost /\ due'[k] = Append(s, d)
      <4>1. found < Cost => now + (Cost - found) \in Nat BY <1>1, <2>1
      <4> QED BY <1>1, <1>2, <4>1
    <3> QED BY <1>4, <3>3, <3>4, <3>5
  <2> QED BY <2>3, <2>4
<1> QED BY <1>3, <1>4

(***************************************************************************)
(* Every step does.                                                        *)
(***************************************************************************)
LEMMA ExcessStep ==
  ASSUME T!ConstantsOK, RateTypes, BucketTypes, ExcessInv, [T!Next]_(T!vars)
  PROVE  ExcessInv'
<1>1. CASE T!Tick \/ T!SetBack \/ UNCHANGED T!vars
  <2>1. UNCHANGED <<mode, forward, tokens, lastRefillAt, due, throttleAborted>>
    BY <1>1 DEF T!Tick, T!SetBack, T!vars
  <2> QED BY <2>1 DEF ExcessInv, Tight
<1>2. CASE T!SetForward
  <2>1. /\ UNCHANGED <<mode, tokens, lastRefillAt, due, throttleAborted>>
        /\ forward' = forward + 1 /\ forward \in Nat
    BY <1>2 DEF T!SetForward, RateTypes
  <2> SUFFICES ASSUME ~throttleAborted \/ mode = "reject", NEW k \in ThrottleKeys
               PROVE  Tight(k)'
    BY <2>1 DEF ExcessInv
  <2>2. Tight(k) BY DEF ExcessInv
  <2>3. CASE due[k] = <<>> BY <2>1, <2>2, <2>3 DEF Tight
  <2>4. CASE due[k] # <<>>
    <3>1. PICK i \in 1..Len(due[k]) :
            tokens[k] >= T!Full - Price(Len(due[k]) - i + 1)
                         + (lastRefillAt[k] - due[k][i]) - forward
      BY <2>2, <2>4 DEF Tight
    <3>2. /\ tokens[k] \in Int /\ T!Full \in Int /\ Len(due[k]) - i + 1 \in Int
          /\ lastRefillAt[k] \in Int /\ due[k][i] \in Int
      BY BurstIsWhole DEF RateTypes, BucketTypes
    <3>3. Price(Len(due[k]) - i + 1) \in Int BY <3>2, PriceGrows
    <3>4. tokens[k] >= T!Full - Price(Len(due[k]) - i + 1)
                       + (lastRefillAt[k] - due[k][i]) - (forward + 1)
      BY <2>1, <3>1, <3>2, <3>3
    <3> QED BY <2>1, <2>4, <3>4 DEF Tight
  <2> QED BY <2>3, <2>4
<1>3. CASE T!Abort
  <2>1. /\ UNCHANGED <<mode, forward, tokens, lastRefillAt>> /\ throttleAborted'
        /\ mode = "reject" => due' = due
    BY <1>3, AbortKeepsBuckets DEF T!Abort
  <2> QED BY <2>1 DEF ExcessInv, Tight
<1> QED
  BY <1>1, <1>2, <1>3, ArrivalKeepsTight DEF T!Next

-----------------------------------------------------------------------------
(***************************************************************************)
(* Who is refused, or made to wait, would have broken the rate.            *)
(***************************************************************************)
LEMMA ExcessIsHeldBack ==
  ASSUME T!ConstantsOK, RateTypes, BucketTypes, ExcessInv, NEW k \in ThrottleKeys,
         ~throttleAborted \/ mode = "reject", T!Refilled(k) < Cost, NEW t \in Int,
         t < now + (Cost - T!Refilled(k))
  PROVE  T!InExcess(k, t) /\ due[k] = T!Admitted(k)
<1> DEFINE found == T!Refilled(k)
           s == due[k]
<1>1. /\ Cost \in Nat /\ T!Full \in Nat /\ Cost <= T!Full
      /\ now \in Nat /\ forward \in Nat /\ back \in Nat
      /\ T!Wall = now + forward - back /\ s \in Seq(Nat)
  BY BurstIsWhole DEF RateTypes, BucketTypes, T!Wall
<1>2. found \in Int /\ found # T!Full /\ T!Admitted(k) = s /\
        \E i \in 1..Len(s) :
          found >= T!Full - Price(Len(s) - i + 1) + (T!Wall - s[i]) - forward
  <2>1. found \in Int /\ found <= T!Full BY RefillIsBounded
  <2>2. found # T!Full BY <1>1, <2>1
  <2>3. /\ T!Admitted(k) = s
        /\ \E i \in 1..Len(s) :
             found >= T!Full - Price(Len(s) - i + 1) + (T!Wall - s[i]) - forward
    BY <2>2, RefillIsTight
  <2> QED BY <2>1, <2>2, <2>3
<1>3. PICK i \in 1..Len(s) :
        found >= T!Full - Price(Len(s) - i + 1) + (T!Wall - s[i]) - forward
  BY <1>2
<1>4. s[i] \in Int /\ Len(s) - i + 1 \in Int /\ DOMAIN s = 1..Len(s)
  <2> HIDE DEF s
  <2> QED BY <1>1
<1>5. /\ Price(Len(s) - i + 1) \in Int
      /\ Price(Len(s) - i + 2) = Price(Len(s) - i + 1) + Cost
  <2>1. (Len(s) - i + 1) + 1 = Len(s) - i + 2 BY <1>1
  <2> QED BY <1>4, <2>1, PriceGrows
<1> HIDE DEF found
<1>6. t < now + (Cost - found) BY DEF found
<1>7. Price(Len(s) - i + 2) + back > T!Full + (t - s[i])
  <2> DEFINE p == Price(Len(s) - i + 1)
             d == s[i]
  <2>1. found >= T!Full - p + ((now + forward - back) - d) - forward
    BY <1>1, <1>3
  <2>2. /\ p \in Int /\ d \in Int /\ found \in Int /\ T!Full \in Int /\ Cost \in Int
        /\ now \in Int /\ forward \in Int /\ back \in Int
    BY <1>1, <1>2, <1>4, <1>5
  <2> HIDE DEF p, d
  <2>3. p + Cost + back > T!Full + (t - d)
    BY <1>6, <2>1, <2>2
  <2> QED BY <1>5, <2>3 DEF p, d
<1>8. (Len(s) - i + 2) * Cost + back > T!Full + (t - s[i])
  BY <1>7 DEF Price
<1>9. T!InExcess(k, t)
  BY <1>4, <1>8 DEF T!InExcess
<1> QED BY <1>2, <1>9

(***************************************************************************)
(* As an arrival goes.                                                     *)
(***************************************************************************)
LEMMA StepsHoldBackTheExcess ==
  ASSUME T!ConstantsOK, RateTypes, BucketTypes, ExcessInv, [T!Next]_(T!vars),
         NEW o \in ThrottleKeys
  PROVE  /\ rejected'[o] > rejected[o] => T!InExcess(o, now)
         /\ (due'[o] # <<>> /\ T!Last(due'[o]) > now /\ Len(due'[o]) = Len(due[o]) + 1) =>
              T!InExcess(o, T!Last(due'[o]) - 1)
<1>1. /\ due \in [ThrottleKeys -> Seq(Nat)] /\ rejected \in [ThrottleKeys -> Nat]
      /\ now \in Nat /\ Cost \in Nat /\ Cost >= 1
  BY DEF RateTypes, BucketTypes, T!ConstantsOK
<1>2. CASE rejected'[o] = rejected[o] /\ Len(due'[o]) = Len(due[o])
  BY <1>1, <1>2
<1>3. ASSUME NEW k \in ThrottleKeys, T!Arrive(k)
      PROVE  /\ rejected'[o] > rejected[o] => T!InExcess(o, now)
             /\ (due'[o] # <<>> /\ T!Last(due'[o]) > now /\ Len(due'[o]) = Len(due[o]) + 1) =>
                  T!InExcess(o, T!Last(due'[o]) - 1)
  <2> DEFINE found == T!Refilled(k)
             s == T!Admitted(k)
  <2>1. found \in Int /\ s \in Seq(Nat) BY RefillIsBounded
  <2>2. \/ /\ found < Cost /\ mode = "reject" /\ due' = [due EXCEPT ![k] = s]
           /\ rejected' = [rejected EXCEPT ![k] = @ + 1]
        \/ /\ UNCHANGED rejected
           /\ \/ due' = [due EXCEPT ![k] = Append(s, now)]
              \/ /\ found < Cost /\ ~throttleAborted
                 /\ due' = [due EXCEPT ![k] = Append(s, now + (Cost - found))]
    BY <1>3, ArrivalForms
  <2>3. CASE o # k
    <3>1. due'[o] = due[o] /\ rejected'[o] = rejected[o]
      BY <1>1, <2>2, <2>3
    <3> QED BY <1>2, <3>1
  <2>4. CASE o = k
    <3>1. CASE found < Cost /\ mode = "reject" /\ due' = [due EXCEPT ![k] = s]
      <4>1. now < now + (Cost - found) BY <1>1, <2>1, <3>1
      <4>2. T!InExcess(k, now) /\ due[k] = s
        BY <1>1, <3>1, <4>1, ExcessIsHeldBack
      <4>3. Len(due'[k]) = Len(due[k]) /\ Len(due[k]) \in Nat
        BY <1>1, <3>1, <4>2
      <4> QED BY <2>4, <4>2, <4>3
    <3>2. CASE UNCHANGED rejected /\ due' = [due EXCEPT ![k] = Append(s, now)]
      <4>1. due'[k] = Append(s, now) BY <1>1, <3>2
      <4>2. T!Last(Append(s, now)) = now BY <2>1 DEF T!Last
      <4> QED BY <1>1, <2>4, <3>2, <4>1, <4>2
    <3>3. CASE /\ UNCHANGED rejected /\ found < Cost /\ ~throttleAborted
               /\ due' = [due EXCEPT ![k] = Append(s, now + (Cost - found))]
      <4> DEFINE d == now + (Cost - found)
      <4>1. due'[k] = Append(s, d) /\ d \in Int BY <1>1, <2>1, <3>3
      <4>2. T!Last(Append(s, d)) = d
        <5> HIDE DEF d, s
        <5> QED BY <2>1 DEF T!Last
      <4>3. d - 1 < d /\ d - 1 \in Int BY <4>1
      <4>4. T!InExcess(k, d - 1) BY <3>3, <4>3, ExcessIsHeldBack
      <4> QED BY <1>1, <2>4, <3>3, <4>1, <4>2, <4>4
    <3> QED BY <2>2, <3>1, <3>2, <3>3
  <2> QED BY <2>3, <2>4
<1>4. CASE T!Abort
  <2>1. /\ rejected' = rejected
        /\ due'[o] = [i \in DOMAIN due[o] |-> T!Least(due[o][i], now)]
    BY <1>4 DEF T!Abort
  <2>2. DOMAIN due[o] = 1..Len(due[o]) /\ Len(due[o]) \in Nat
    BY <1>1
  <2>3. Len(due'[o]) = Len(due[o])
    BY <2>1, <2>2
  <2> QED BY <1>2, <2>1, <2>3
<1>5. CASE T!Tick \/ T!SetForward \/ T!SetBack \/ UNCHANGED T!vars
  <2>1. UNCHANGED <<due, rejected>>
    BY <1>5 DEF T!Tick, T!SetForward, T!SetBack, T!vars
  <2> QED BY <1>2, <2>1
<1> QED
  BY <1>3, <1>4, <1>5 DEF T!Next

(***************************************************************************)
(* The throttle's state has its shape.                                     *)
(***************************************************************************)
ThrottleInv == RateTypes /\ RateInv /\ BucketTypes /\ ExcessInv

(***************************************************************************)
(* A throttle starts with nothing remembered, refused or held back.        *)
(***************************************************************************)
LEMMA ThrottleStarts == ASSUME T!ConstantsOK, T!Init PROVE ThrottleInv
<1>1. RateTypes /\ RateInv
  BY RateStarts
<1>2. /\ mode \in {"delay", "reject"} /\ now = 0 /\ forward = 0 /\ recent = <<>>
      /\ tokens = [k \in ThrottleKeys |-> T!Full] /\ lastRefillAt = [k \in ThrottleKeys |-> 0]
      /\ usedAt = [k \in ThrottleKeys |-> 0] /\ due = [k \in ThrottleKeys |-> <<>>]
      /\ rejected = [k \in ThrottleKeys |-> 0]
  BY DEF T!Init
<1>3. MaxBuckets \in Nat /\ T!Full \in Nat
  BY BurstIsWhole DEF T!ConstantsOK
<1>4. recent \in Seq(ThrottleKeys) /\ Len(recent) <= MaxBuckets /\ Once(recent)
  BY <1>2, <1>3 DEF Once
<1>5. due \in [ThrottleKeys -> Seq(Nat)] /\ \A k \in ThrottleKeys : due[k] = <<>>
  <2>1. <<>> \in Seq(Nat) OBVIOUS
  <2> QED BY <1>2, <2>1
<1>6. \A k \in ThrottleKeys : tokens[k] = T!Full
  BY <1>2
<1>7. usedAt \in [ThrottleKeys -> Nat] /\ rejected \in [ThrottleKeys -> Nat]
  BY <1>2
<1>8. BucketTypes
  BY <1>2, <1>3, <1>4, <1>5, <1>6, <1>7 DEF BucketTypes
<1>9. ExcessInv
  BY <1>5, <1>6 DEF ExcessInv, Tight
<1> QED BY <1>1, <1>8, <1>9 DEF ThrottleInv

(***************************************************************************)
(* Every step keeps the invariant of the throttle.                         *)
(***************************************************************************)
LEMMA ThrottleSteps ==
  ASSUME T!ConstantsOK, ThrottleInv, [T!Next]_(T!vars)
  PROVE  ThrottleInv'
BY RateInvStep, BucketsStep, ExcessStep DEF ThrottleInv

(***************************************************************************)
(* The buckets have their shape and are no more than may be kept.          *)
(***************************************************************************)
THEOREM BucketsAreBounded == ASSUME T!ConstantsOK PROVE T!Spec => []T!TypeOK
<1>1. T!Init => ThrottleInv
  BY ThrottleStarts
<1>2. ThrottleInv /\ [T!Next]_(T!vars) => ThrottleInv'
  BY ThrottleSteps
<1>3. ThrottleInv => T!TypeOK
  BY DEF ThrottleInv, RateTypes, BucketTypes, T!TypeOK
<1> QED
  BY <1>1, <1>2, <1>3, PTL DEF T!Spec

(***************************************************************************)
(* Only the excess is held back, whatever the clocks do: an exchange waits *)
(* no longer, and is refused no sooner, than the rate demands.             *)
(***************************************************************************)
THEOREM OnlyTheExcessIsHeldBack == ASSUME T!ConstantsOK PROVE T!Spec => T!HoldsBackTheExcess
<1>1. T!Init => ThrottleInv
  BY ThrottleStarts
<1>2. ThrottleInv /\ [T!Next]_(T!vars) => ThrottleInv'
  BY ThrottleSteps
<1>3. ThrottleInv /\ [T!Next]_(T!vars) =>
        [\A k \in ThrottleKeys :
           /\ rejected'[k] > rejected[k] => T!InExcess(k, now)
           /\ (due'[k] # <<>> /\ T!Last(due'[k]) > now /\ Len(due'[k]) = Len(due[k]) + 1) =>
                T!InExcess(k, T!Last(due'[k]) - 1)]_(T!vars)
  BY StepsHoldBackTheExcess DEF ThrottleInv
<1> QED
  BY <1>1, <1>2, <1>3, PTL DEF T!Spec, T!HoldsBackTheExcess

-----------------------------------------------------------------------------
(***************************************************************************)
(* The inductive invariant: of the burst, at all times, and of the keys,   *)
(* while the intake is open.  The exchanges in flight are those that hold  *)
(* reservations, a key each, and no committed one; of each key as many     *)
(* were handled as were forgotten, and one more if it is committed.        *)
(***************************************************************************)
BurstInv ==
  /\ \A e \in Deduped : exchangeAt[e] = "held" => hold = e
  /\ hold # Nobody =>
       ~aborted /\ exchangeAt[hold] = "held" /\ absorbed # <<>> /\ hold = absorbed[Len(absorbed)]
  /\ absorbed # <<>> => absorbed[Len(absorbed)] \in released \union {hold}
  /\ \A i \in 1..Len(absorbed) :
       absorbed[i] \notin released => exchangeAt[absorbed[i]] \in {"dropped", "held"}

Pending == pending = {e \in Deduped : exchangeAt[e] \in U!InFlight}
Reserved == reserved = {DedupeKeyOf[e] : e \in pending}
Alone == \A e, f \in pending : DedupeKeyOf[e] = DedupeKeyOf[f] => e = f
Fresh == U!ToSet(committed) \intersect reserved = {}
Remembered == \A k \in U!ToSet(committed) : U!Handled(k) # {}
Room(k) == IF k \in U!ToSet(committed) THEN 1 ELSE 0
Counted == \A k \in U!Keys : Cardinality(U!Handled(k)) <= forgotten[k] + Room(k)

KeyInv == Pending /\ Reserved /\ Alone /\ Fresh /\ Remembered /\ Counted
Heard == subscribed \/ \A e \in Deduped : exchangeAt[e] = "before"

DedupeInv ==
  /\ U!TypeOK /\ Once(committed) /\ BurstInv
  /\ ~aborted => KeyInv /\ Heard

(***************************************************************************)
(* What is handled is a finite set.                                        *)
(***************************************************************************)
LEMMA HandledIsFinite ==
  ASSUME U!ConstantsOK, NEW k
  PROVE  IsFiniteSet(U!Handled(k)) /\ Cardinality(U!Handled(k)) \in Nat
<1>1. U!Handled(k) \subseteq Deduped BY DEF U!Handled
<1>2. IsFiniteSet(Deduped) BY SameSets DEF U!ConstantsOK
<1> QED BY <1>1, <1>2, FS_Subset, FS_CardinalityType

(***************************************************************************)
(* Taking a key out of the committed ones.                                 *)
(***************************************************************************)
LEMMA WithoutIsOut ==
  ASSUME committed \in Seq(U!Keys), Once(committed), NEW k \in U!Keys
  PROVE  /\ U!Without(k) = Out(committed, k)
         /\ U!Without(k) \in Seq(U!Keys) /\ Len(U!Without(k)) <= Len(committed)
         /\ Once(U!Without(k)) /\ U!ToSet(U!Without(k)) = U!ToSet(committed) \ {k}
<1>1. U!Without(k) = Out(committed, k) BY SameLists DEF U!Without, Out
<1>2. /\ Out(committed, k) \in Seq(U!Keys) /\ Len(Out(committed, k)) <= Len(committed)
      /\ Once(Out(committed, k)) /\ ToSet(Out(committed, k)) = ToSet(committed) \ {k}
  BY OutIsOut
<1> QED BY <1>1, <1>2, SameLists

(***************************************************************************)
(* Putting it last.                                                        *)
(***************************************************************************)
LEMMA SeenIsLast ==
  ASSUME committed \in Seq(U!Keys), Once(committed), NEW k \in U!Keys
  PROVE  /\ U!Seen(k) \in Seq(U!Keys) /\ Once(U!Seen(k))
         /\ U!ToSet(U!Seen(k)) = U!ToSet(committed) \union {k}
         /\ Len(U!Seen(k)) <= Len(committed) + 1
         /\ k \in U!ToSet(committed) => Len(U!Seen(k)) <= Len(committed)
         /\ k \notin U!ToSet(committed) => U!Seen(k) = Append(committed, k)
<1>1. U!Seen(k) = Append(Out(committed, k), k) BY WithoutIsOut DEF U!Seen
<1> DEFINE t == Append(Out(committed, k), k)
<1>2. /\ t \in Seq(U!Keys) /\ Once(t) /\ ToSet(t) = ToSet(committed) \union {k}
      /\ Len(t) <= Len(committed) + 1
      /\ k \in ToSet(committed) => Len(t) = Len(committed)
      /\ k \notin ToSet(committed) => t = Append(committed, k)
  BY PutLast
<1>3. Len(committed) \in Nat OBVIOUS
<1> HIDE DEF t
<1> QED BY <1>1, <1>2, <1>3, SameLists DEF t

(***************************************************************************)
(* An exchange that ends unhandled gives its key back, whatever others do  *)
(* in flight meanwhile.                                                    *)
(***************************************************************************)
LEMMA EndsUnhandled ==
  ASSUME U!ConstantsOK, U!TypeOK, KeyInv, NEW e \in Deduped, exchangeAt[e] # "completed",
         exchangeAt'[e] \in {"dropped", "failed"},
         \A f \in Deduped \ {e} :
           (exchangeAt'[f] \in U!InFlight <=> exchangeAt[f] \in U!InFlight) /\ (exchangeAt'[f] = "completed" <=> exchangeAt[f] = "completed"),
         pending' = pending \ {e},
         reserved' = IF e \in pending THEN reserved \ {DedupeKeyOf[e]} ELSE reserved,
         U!ToSet(committed') = U!ToSet(committed), forgotten' = forgotten
  PROVE  KeyInv'
<1>1. Pending' BY DEF KeyInv, Pending, U!InFlight
<1>2. Reserved' BY DEF KeyInv, Reserved, Alone
<1>3. Alone' BY DEF KeyInv, Alone
<1>4. Fresh' BY DEF KeyInv, Fresh
<1>5. \A k : U!Handled(k)' = U!Handled(k) BY DEF U!Handled
<1>6. Remembered' BY <1>5 DEF KeyInv, Remembered
<1>7. Counted' BY <1>5 DEF KeyInv, Counted, Room
<1> QED BY <1>1, <1>2, <1>3, <1>4, <1>6, <1>7 DEF KeyInv

(***************************************************************************)
(* An exchange that stays in flight keeps its key.                         *)
(***************************************************************************)
LEMMA StaysInFlight ==
  ASSUME KeyInv,
         \A f \in Deduped :
           (exchangeAt'[f] \in U!InFlight <=> exchangeAt[f] \in U!InFlight) /\ (exchangeAt'[f] = "completed" <=> exchangeAt[f] = "completed"),
         pending' = pending, reserved' = reserved,
         U!ToSet(committed') = U!ToSet(committed), forgotten' = forgotten
  PROVE  KeyInv'
<1>1. \A k : U!Handled(k)' = U!Handled(k) BY DEF U!Handled
<1>2. Pending' /\ Reserved' /\ Alone' /\ Fresh' BY DEF KeyInv, Pending, Reserved, Alone, Fresh
<1>3. Remembered' BY <1>1 DEF KeyInv, Remembered
<1>4. Counted' BY <1>1 DEF KeyInv, Counted, Room
<1> QED BY <1>2, <1>3, <1>4 DEF KeyInv
(***************************************************************************)
(* A step about an exchange that .debounce() does not hold leaves the      *)
(* burst alone.                                                            *)
(***************************************************************************)
LEMMA BurstRests ==
  ASSUME U!TypeOK, BurstInv, NEW e \in Deduped, exchangeAt[e] \in {"before", "retrying", "inside"},
         NEW where, where # "held", U!Ends(e, where), UNCHANGED U!debounce, UNCHANGED aborted
  PROVE  BurstInv'
<1>1. /\ hold' = hold /\ absorbed' = absorbed /\ released' = released
      /\ exchangeAt' \in [Deduped -> {exchangeAt[f] : f \in Deduped} \union {where}]
      /\ exchangeAt'[e] = where /\ \A f \in Deduped \ {e} : exchangeAt'[f] = exchangeAt[f]
  BY DEF U!debounce, U!Ends, U!TypeOK
<1>2. hold # Nobody => hold \in Deduped /\ hold # e BY DEF U!TypeOK, BurstInv
<1>3. \A i \in 1..Len(absorbed) :
        absorbed[i] \in Deduped /\ (absorbed[i] \notin released => absorbed[i] # e)
  BY DEF U!TypeOK, BurstInv
<1> QED BY <1>1, <1>2, <1>3 DEF BurstInv

(***************************************************************************)
(* Giving a reservation back.                                              *)
(***************************************************************************)
LEMMA ReleasedIsTyped ==
  ASSUME U!TypeOK, NEW e \in Deduped, U!Released(e)
  PROVE  /\ reserved' \subseteq U!Keys /\ pending' \subseteq Deduped
         /\ ~aborted /\ KeyInv /\ Heard /\ exchangeAt[e] # "before" =>
              /\ pending' = pending \ {e}
              /\ reserved' = IF e \in pending THEN reserved \ {DedupeKeyOf[e]} ELSE reserved
<1>1. ~aborted /\ KeyInv /\ Heard /\ exchangeAt[e] # "before" => subscribed BY DEF Heard
<1> QED BY <1>1 DEF U!TypeOK, U!Released, U!Hears

(***************************************************************************)
(* An exchange whose key is reserved, or committed, is dropped at the step.*)
(***************************************************************************)
LEMMA DuplicateIsSuppressed ==
  ASSUME U!ConstantsOK, DedupeInv, NEW e \in Deduped, U!Duplicate(e)
  PROVE  DedupeInv'
<1>1. U!TypeOK /\ Once(committed) /\ BurstInv BY DEF DedupeInv
<1>2. DedupeKeyOf[e] \in U!Keys BY DEF U!Keys
<1>3. exchangeAt[e] \in {"before", "retrying"} /\ U!Ends(e, "dropped")
  BY DEF U!Duplicate, U!Reaches
<1>4. /\ committed' \in Seq(U!Keys) /\ Len(committed') <= MaxCommitted /\ Once(committed')
      /\ U!ToSet(committed') = U!ToSet(committed)
  <2>1. CASE committed' = committed BY <1>1, <2>1 DEF U!TypeOK
  <2>2. CASE DedupeKeyOf[e] \in U!ToSet(committed) /\ committed' = U!Seen(DedupeKeyOf[e])
    <3>1. committed \in Seq(U!Keys) /\ Len(committed) <= MaxCommitted /\ MaxCommitted \in Nat
      BY <1>1 DEF U!TypeOK, U!ConstantsOK
    <3>2. /\ U!Seen(DedupeKeyOf[e]) \in Seq(U!Keys) /\ Once(U!Seen(DedupeKeyOf[e]))
          /\ U!ToSet(U!Seen(DedupeKeyOf[e])) = U!ToSet(committed) \union {DedupeKeyOf[e]}
          /\ Len(U!Seen(DedupeKeyOf[e])) <= Len(committed)
      BY <1>1, <1>2, <2>2, <3>1, SeenIsLast
    <3>3. Len(U!Seen(DedupeKeyOf[e])) \in Nat /\ Len(committed) \in Nat BY <3>1, <3>2
    <3> QED BY <2>2, <3>1, <3>2, <3>3
  <2> QED BY <2>1, <2>2 DEF U!Duplicate
<1>5. U!PendingNow \subseteq Deduped /\ U!ReservedNow \subseteq U!Keys
  BY <1>1 DEF U!TypeOK, U!PendingNow, U!ReservedNow
<1>6. U!TypeOK'
  BY <1>1, <1>3, <1>4, <1>5 DEF U!TypeOK, U!Duplicate, U!Subscribes, U!Ends, U!debounce
<1>7. BurstInv' BY <1>1, <1>3, BurstRests DEF U!Duplicate
<1>8. ASSUME ~aborted PROVE KeyInv' /\ subscribed'
  <2>1. (KeyInv /\ subscribed' /\ ~U!Cleaned) \/ (KeyInv /\ subscribed' /\ pending = {} /\ reserved = {})
    <3>1. KeyInv /\ Heard /\ subscribed' BY <1>8 DEF DedupeInv, U!Duplicate, U!Subscribes
    <3> QED BY <1>8, <3>1 DEF U!Cleaned
  <2>2. U!PendingNow = pending /\ U!ReservedNow = reserved
    BY <1>8 DEF U!PendingNow, U!ReservedNow, U!Cleaned
  <2>3. /\ pending' = pending \ {e} /\ forgotten' = forgotten
        /\ reserved' = IF e \in pending THEN reserved \ {DedupeKeyOf[e]} ELSE reserved
    BY <2>1, <2>2 DEF U!Duplicate
  <2>4. exchangeAt'[e] = "dropped" /\ \A f \in Deduped \ {e} : exchangeAt'[f] = exchangeAt[f]
    BY <1>1, <1>3 DEF U!TypeOK, U!Ends
  <2> QED BY <1>1, <1>3, <1>4, <2>1, <2>3, <2>4, EndsUnhandled
<1>9. aborted' = aborted BY DEF U!Duplicate
<1> QED BY <1>4, <1>6, <1>7, <1>8, <1>9 DEF DedupeInv, Heard

(***************************************************************************)
(* One whose key is neither passes, and reserves it.                       *)
(***************************************************************************)
LEMMA PassReserves ==
  ASSUME U!ConstantsOK, DedupeInv, NEW e \in Deduped, U!Pass(e)
  PROVE  DedupeInv'
<1>1. U!TypeOK /\ Once(committed) /\ BurstInv BY DEF DedupeInv
<1>2. DedupeKeyOf[e] \in U!Keys BY DEF U!Keys
<1>3. exchangeAt[e] \in {"before", "retrying"} /\ U!Ends(e, "inside") /\ DedupeKeyOf[e] \notin U!ToSet(committed)
  BY DEF U!Pass, U!Reserves, U!Reaches
<1>4. /\ committed' = committed /\ forgotten' = forgotten /\ aborted' = aborted
      /\ reserved' = U!ReservedNow \union {DedupeKeyOf[e]} /\ pending' = U!PendingNow \union {e}
      /\ subscribed' = ~aborted /\ DedupeKeyOf[e] \notin U!ReservedNow
      /\ UNCHANGED <<debounces, attempt, hold, clones, absorbed, released>>
  BY DEF U!Pass, U!Reserves, U!Subscribes, U!debounce
<1>5. U!PendingNow \subseteq Deduped /\ U!ReservedNow \subseteq U!Keys
  BY <1>1 DEF U!TypeOK, U!PendingNow, U!ReservedNow
<1>6. U!TypeOK'
  BY <1>1, <1>2, <1>3, <1>4, <1>5 DEF U!TypeOK, U!Ends, U!InFlight
<1>7. BurstInv' BY <1>1, <1>3, <1>4, BurstRests DEF U!debounce
<1>8. ASSUME ~aborted PROVE KeyInv' /\ subscribed'
  <2>1. KeyInv BY <1>8 DEF DedupeInv
  <2>2. U!PendingNow = pending /\ U!ReservedNow = reserved
    BY <1>8 DEF U!PendingNow, U!ReservedNow, U!Cleaned
  <2>3. exchangeAt'[e] = "inside" /\ \A f \in Deduped \ {e} : exchangeAt'[f] = exchangeAt[f]
    BY <1>1, <1>3 DEF U!TypeOK, U!Ends
  <2>4. Pending' BY <1>4, <2>1, <2>2, <2>3 DEF KeyInv, Pending, U!InFlight
  <2>5. Reserved' BY <1>4, <2>1, <2>2 DEF KeyInv, Reserved
  <2>6. Alone' BY <1>4, <2>1, <2>2 DEF KeyInv, Alone, Reserved
  <2>7. Fresh' BY <1>3, <1>4, <2>1, <2>2 DEF KeyInv, Fresh
  <2>8. \A k : U!Handled(k)' = U!Handled(k) BY <1>3, <2>3 DEF U!Handled
  <2>9. Remembered' BY <1>4, <2>1, <2>8 DEF KeyInv, Remembered
  <2>10. Counted' BY <1>4, <2>1, <2>8 DEF KeyInv, Counted, Room
  <2> QED BY <1>4, <1>8, <2>4, <2>5, <2>6, <2>7, <2>9, <2>10 DEF KeyInv
<1> QED BY <1>1, <1>4, <1>6, <1>7, <1>8 DEF DedupeInv, Heard

(***************************************************************************)
(* A completed exchange commits its key, which may push out the oldest.    *)
(***************************************************************************)
LEMMA CompleteCommits ==
  ASSUME U!ConstantsOK, DedupeInv, NEW e \in Deduped, U!Complete(e)
  PROVE  DedupeInv'
<1> DEFINE k == DedupeKeyOf[e]
           s == U!Seen(k)
<1>1. U!TypeOK /\ Once(committed) /\ BurstInv BY DEF DedupeInv
<1>2. k \in U!Keys BY DEF U!Keys
<1>3. exchangeAt[e] = "inside" /\ U!Ends(e, "completed") /\ U!Released(e)
  BY DEF U!Complete, U!Works, U!CommitReservation
<1>4. UNCHANGED <<debounces, attempt, subscribed, aborted, hold, clones, absorbed, released>>
  BY DEF U!Complete, U!Rest, U!debounce
<1>5. committed \in Seq(U!Keys) /\ Len(committed) <= MaxCommitted /\ MaxCommitted \in Nat \ {0}
      /\ Len(committed) \in Nat
  BY <1>1 DEF U!TypeOK, U!ConstantsOK
<1>6. /\ s \in Seq(U!Keys) /\ Once(s) /\ U!ToSet(s) = U!ToSet(committed) \union {k}
      /\ Len(s) <= Len(committed) + 1 /\ Len(s) \in Nat
      /\ k \notin U!ToSet(committed) => s = Append(committed, k)
  <2>1. /\ U!Seen(k) \in Seq(U!Keys) /\ Once(U!Seen(k))
        /\ U!ToSet(U!Seen(k)) = U!ToSet(committed) \union {k}
        /\ Len(U!Seen(k)) <= Len(committed) + 1
        /\ k \notin U!ToSet(committed) => U!Seen(k) = Append(committed, k)
    BY <1>1, <1>2, <1>5, SeenIsLast
  <2> QED BY <2>1
<1>7. /\ ~U!Hears(e) => committed' = committed /\ forgotten' = forgotten
      /\ U!Hears(e) /\ Len(s) > MaxCommitted =>
           committed' = Tail(s) /\ forgotten' = [forgotten EXCEPT ![Head(s)] = @ + 1]
      /\ U!Hears(e) /\ ~(Len(s) > MaxCommitted) => committed' = s /\ forgotten' = forgotten
  BY DEF U!Complete, U!CommitReservation
<1> HIDE DEF s, k
<1>8. /\ committed' \in Seq(U!Keys) /\ Len(committed') <= MaxCommitted /\ Once(committed')
      /\ forgotten' \in [U!Keys -> Nat]
      /\ Len(s) > MaxCommitted =>
           /\ Head(s) = s[1] /\ Head(s) \in U!Keys
           /\ U!ToSet(Tail(s)) = U!ToSet(s) \ {Head(s)}
  <2>1. forgotten \in [U!Keys -> Nat] BY <1>1 DEF U!TypeOK
  <2>2. CASE ~U!Hears(e) /\ ~(Len(s) > MaxCommitted) BY <1>1, <1>5, <1>7, <2>1, <2>2
  <2>3. CASE U!Hears(e) /\ ~(Len(s) > MaxCommitted) BY <1>5, <1>6, <1>7, <2>1, <2>3
  <2>4. CASE Len(s) > MaxCommitted
    <3> DEFINE t == Tail(s)
               h == Head(s)
    <3>1. s # <<>> BY <1>5, <1>6, <2>4
    <3>2. t \in Seq(U!Keys) /\ Len(t) = Len(s) - 1 /\ Once(t) /\ U!ToSet(t) = U!ToSet(s) \ {h}
          /\ h = s[1] /\ h \in U!ToSet(s)
      BY <1>6, <3>1, TailIsRest, SameLists
    <3>3. h \in U!Keys BY <1>6, <3>1
    <3>4. U!Hears(e) => committed' = t /\ forgotten' = [forgotten EXCEPT ![h] = @ + 1]
      BY <1>7, <2>4
    <3> HIDE DEF t, h
    <3>5. Len(t) <= MaxCommitted BY <1>5, <1>6, <3>2
    <3>6. U!Hears(e) => forgotten' \in [U!Keys -> Nat] BY <2>1, <3>3, <3>4
    <3>7. committed' \in Seq(U!Keys) /\ Len(committed') <= MaxCommitted /\ Once(committed')
      BY <1>1, <1>5, <1>7, <3>2, <3>4, <3>5
    <3>8. forgotten' \in [U!Keys -> Nat] BY <1>7, <2>1, <3>6
    <3> QED BY <3>2, <3>3, <3>7, <3>8 DEF t, h
  <2> QED BY <2>2, <2>3, <2>4
<1>9. /\ reserved' \subseteq U!Keys /\ pending' \subseteq Deduped
      /\ ~aborted /\ KeyInv /\ Heard /\ exchangeAt[e] # "before" =>
           /\ pending' = pending \ {e}
           /\ reserved' = IF e \in pending THEN reserved \ {DedupeKeyOf[e]} ELSE reserved
  BY <1>1, <1>3, ReleasedIsTyped
<1>10. U!TypeOK' BY <1>1, <1>3, <1>4, <1>8, <1>9 DEF U!TypeOK, U!Ends, U!InFlight
<1>11. BurstInv' BY <1>1, <1>3, <1>4, BurstRests DEF U!debounce
<1>12. ASSUME ~aborted PROVE KeyInv' /\ subscribed'
  <2>1. KeyInv /\ Heard BY <1>12 DEF DedupeInv
  <2>2. subscribed /\ e \in pending /\ k \in reserved /\ U!Hears(e)
    BY <1>3, <2>1 DEF Heard, KeyInv, Pending, Reserved, U!InFlight, U!Hears, k
  <2>3. pending' = pending \ {e} /\ reserved' = reserved \ {k}
    BY <1>3, <1>9, <1>12, <2>1, <2>2 DEF k
  <2>4. exchangeAt'[e] = "completed" /\ \A f \in Deduped \ {e} : exchangeAt'[f] = exchangeAt[f]
    BY <1>1, <1>3 DEF U!TypeOK, U!Ends
  <2>5. k \notin U!ToSet(committed) BY <2>1, <2>2 DEF KeyInv, Fresh
  <2>6. U!ToSet(committed') \subseteq U!ToSet(committed) \union {k}
    BY <1>6, <1>7, <1>8, <2>2
  <2>7. Pending' BY <2>1, <2>3, <2>4 DEF KeyInv, Pending, U!InFlight
  <2>8. Reserved' BY <2>1, <2>2, <2>3 DEF KeyInv, Reserved, Alone, k
  <2>9. Alone' BY <2>1, <2>3 DEF KeyInv, Alone
  <2>10. Fresh' BY <2>1, <2>3, <2>6 DEF KeyInv, Fresh
  <2>11. U!Handled(k)' = U!Handled(k) \union {e} /\ \A l \in U!Keys \ {k} : U!Handled(l)' = U!Handled(l)
    BY <1>3, <2>4 DEF U!Handled, k
  <2>12. Remembered'
    <3>1. U!ToSet(committed) \subseteq U!Keys BY <1>5 DEF U!ToSet
    <3> QED BY <2>1, <2>5, <2>6, <2>11, <3>1 DEF KeyInv, Remembered
  <2>13. Cardinality(U!Handled(k)') = Cardinality(U!Handled(k)) + 1
    <3>1. e \notin U!Handled(k) BY <1>3 DEF U!Handled
    <3>2. IsFiniteSet(U!Handled(k)) BY HandledIsFinite
    <3>3. \A H : IsFiniteSet(H) /\ e \notin H => Cardinality(H \union {e}) = Cardinality(H) + 1
      BY FS_AddElement
    <3> QED BY <2>11, <3>1, <3>2, <3>3
  <2>14. Cardinality(U!Handled(k)) <= forgotten[k]
    <3>1. Room(k) = 0 BY <2>5 DEF Room
    <3>2. Cardinality(U!Handled(k)) <= forgotten[k] + Room(k) BY <1>2, <2>1 DEF KeyInv, Counted
    <3>3. forgotten[k] \in Nat BY <1>1, <1>2 DEF U!TypeOK
    <3> QED BY <3>1, <3>2, <3>3
  <2>15. \A l \in U!Keys : forgotten[l] \in Nat /\ Cardinality(U!Handled(l)) \in Nat
    BY <1>1, HandledIsFinite DEF U!TypeOK
  <2>16. Cardinality(U!Handled(k)') \in Nat
    <3>1. Cardinality(U!Handled(k)) \in Nat BY HandledIsFinite
    <3> QED BY <2>13, <3>1
  <2>17. Counted'
    <3>1. CASE Len(s) > MaxCommitted
      <4>1. committed' = Tail(s) /\ forgotten' = [forgotten EXCEPT ![Head(s)] = @ + 1]
        BY <1>7, <2>2, <3>1
      <4>2. s = Append(committed, k) /\ Len(committed) >= 1 BY <1>5, <1>6, <2>5, <3>1
      <4>3. Head(s) = committed[1] /\ Head(s) \in U!ToSet(committed)
        BY <1>5, <1>8, <3>1, <4>2 DEF U!ToSet
      <4>4. /\ Head(s) \in U!Keys /\ Head(s) # k
            /\ U!ToSet(committed') = (U!ToSet(committed) \union {k}) \ {Head(s)}
        BY <1>6, <1>8, <2>5, <3>1, <4>1, <4>3
      <4>5. /\ forgotten'[Head(s)] = forgotten[Head(s)] + 1
            /\ \A l \in U!Keys \ {Head(s)} : forgotten'[l] = forgotten[l]
        BY <1>1, <4>1, <4>4 DEF U!TypeOK
      <4>6. ASSUME NEW l \in U!Keys PROVE Cardinality(U!Handled(l)') <= forgotten'[l] + Room(l)'
        <5>1. Cardinality(U!Handled(l)) <= forgotten[l] + Room(l) BY <2>1 DEF KeyInv, Counted
        <5>2. CASE l = k
          <6>1. Room(l)' = 1 /\ forgotten'[l] = forgotten[l] BY <4>4, <4>5, <5>2 DEF Room
          <6> QED BY <2>13, <2>14, <2>15, <2>16, <5>2, <6>1
        <5>3. CASE l = Head(s)
          <6>1. Room(l) = 1 /\ Room(l)' = 0 BY <4>3, <4>4, <5>3 DEF Room
          <6>2. Cardinality(U!Handled(l)') = Cardinality(U!Handled(l)) BY <2>11, <4>4, <5>3
          <6> QED BY <2>15, <4>5, <5>1, <5>3, <6>1, <6>2
        <5>4. CASE l # k /\ l # Head(s)
          <6>1. Room(l)' = Room(l) BY <4>4, <5>4 DEF Room
          <6>2. Cardinality(U!Handled(l)') = Cardinality(U!Handled(l)) BY <2>11, <5>4
          <6> QED BY <4>5, <5>1, <5>4, <6>1, <6>2
        <5> QED BY <5>2, <5>3, <5>4
      <4> QED BY <4>6 DEF Counted
    <3>2. CASE ~(Len(s) > MaxCommitted)
      <4>1. U!ToSet(committed') = U!ToSet(committed) \union {k} /\ forgotten' = forgotten
        BY <1>6, <1>7, <2>2, <3>2
      <4>2. ASSUME NEW l \in U!Keys PROVE Cardinality(U!Handled(l)') <= forgotten'[l] + Room(l)'
        <5>1. Cardinality(U!Handled(l)) <= forgotten[l] + Room(l) BY <2>1 DEF KeyInv, Counted
        <5>2. CASE l = k
          <6>1. Room(l)' = 1 BY <4>1, <5>2 DEF Room
          <6> QED BY <2>13, <2>14, <2>15, <2>16, <4>1, <5>2, <6>1
        <5>3. CASE l # k
          <6>1. Room(l)' = Room(l) BY <4>1, <5>3 DEF Room
          <6>2. Cardinality(U!Handled(l)') = Cardinality(U!Handled(l)) BY <2>11, <5>3
          <6> QED BY <4>1, <5>1, <6>1, <6>2
        <5> QED BY <5>2, <5>3
      <4> QED BY <4>2 DEF Counted
    <3> QED BY <3>1, <3>2
  <2> QED BY <1>4, <2>2, <2>7, <2>8, <2>9, <2>10, <2>12, <2>17 DEF KeyInv
<1> QED BY <1>4, <1>8, <1>10, <1>11, <1>12 DEF DedupeInv, Heard
(***************************************************************************)
(* The exchange is dropped, fails, or gives up its retries.                *)
(***************************************************************************)
LEMMA EndsAreHeard ==
  ASSUME U!ConstantsOK, DedupeInv, NEW e \in Deduped, U!Drop(e) \/ U!Fail(e) \/ U!GiveUp(e)
  PROVE  DedupeInv'
<1>1. U!TypeOK /\ Once(committed) /\ BurstInv BY DEF DedupeInv
<1>2. PICK where \in {"dropped", "failed"} : U!Ends(e, where)
  BY DEF U!Drop, U!Fail, U!GiveUp
<1>3. /\ exchangeAt[e] \in {"inside", "retrying"} /\ U!Released(e)
      /\ UNCHANGED <<debounces, attempt, subscribed, aborted, hold, clones, absorbed, released,
                     committed, forgotten>>
  BY DEF U!Drop, U!Fail, U!GiveUp, U!Works, U!Dropped, U!ReleaseReservation, U!Rest, U!debounce
<1>4. /\ reserved' \subseteq U!Keys /\ pending' \subseteq Deduped
      /\ ~aborted /\ KeyInv /\ Heard /\ exchangeAt[e] # "before" =>
           /\ pending' = pending \ {e}
           /\ reserved' = IF e \in pending THEN reserved \ {DedupeKeyOf[e]} ELSE reserved
  BY <1>1, <1>3, ReleasedIsTyped
<1>5. exchangeAt'[e] = where /\ \A f \in Deduped \ {e} : exchangeAt'[f] = exchangeAt[f]
  BY <1>1, <1>2 DEF U!TypeOK, U!Ends
<1>6. U!TypeOK' BY <1>1, <1>2, <1>3, <1>4 DEF U!TypeOK, U!Ends
<1>7. BurstInv' BY <1>1, <1>2, <1>3, BurstRests DEF U!debounce
<1>8. ASSUME ~aborted PROVE KeyInv' /\ subscribed'
  <2>1. KeyInv /\ Heard BY <1>8 DEF DedupeInv
  <2>2. KeyInv' BY <1>1, <1>3, <1>4, <1>5, <1>8, <2>1, EndsUnhandled
  <2> QED BY <1>3, <2>1, <2>2 DEF Heard
<1> QED BY <1>1, <1>3, <1>6, <1>7, <1>8 DEF DedupeInv, Heard

(***************************************************************************)
(* A retry keeps the reservation.                                          *)
(***************************************************************************)
LEMMA RetryKeeps ==
  ASSUME U!ConstantsOK, DedupeInv, NEW e \in Deduped, U!Retry(e)
  PROVE  DedupeInv'
<1>1. U!TypeOK /\ Once(committed) /\ BurstInv BY DEF DedupeInv
<1>2. /\ exchangeAt[e] = "inside" /\ U!Ends(e, "retrying")
      /\ attempt[e] < MaxAttempts /\ attempt' = [attempt EXCEPT ![e] = @ + 1]
      /\ UNCHANGED <<debounces, reserved, pending, committed, subscribed, aborted,
                     hold, clones, absorbed, released, forgotten>>
  BY DEF U!Retry, U!Works, U!debounce
<1>3. exchangeAt'[e] = "retrying" /\ \A f \in Deduped \ {e} : exchangeAt'[f] = exchangeAt[f]
  BY <1>1, <1>2 DEF U!TypeOK, U!Ends
<1>4. attempt' \in [Deduped -> 1..MaxAttempts]
  <2>1. attempt \in [Deduped -> 1..MaxAttempts] /\ MaxAttempts \in Nat
    BY <1>1 DEF U!TypeOK, U!ConstantsOK
  <2> QED BY <1>2, <2>1
<1>5. U!TypeOK' BY <1>1, <1>2, <1>4 DEF U!TypeOK, U!Ends, U!InFlight
<1>6. BurstInv' BY <1>1, <1>2, BurstRests DEF U!debounce
<1>7. ASSUME ~aborted PROVE KeyInv' /\ subscribed'
  <2>1. KeyInv /\ subscribed BY <1>2, <1>7 DEF DedupeInv, Heard
  <2>2. KeyInv' BY <1>2, <1>3, <2>1, StaysInFlight DEF U!InFlight
  <2> QED BY <1>2, <2>1, <2>2
<1> QED BY <1>1, <1>2, <1>5, <1>6, <1>7 DEF DedupeInv, Heard

(***************************************************************************)
(* .debounce() takes the latest of a burst and lets the earlier one go.    *)
(***************************************************************************)
LEMMA AbsorbSupersedes ==
  ASSUME U!ConstantsOK, DedupeInv, NEW e \in Deduped, U!Absorb(e)
  PROVE  DedupeInv'
<1>1. U!TypeOK /\ Once(committed) /\ BurstInv /\ ~aborted /\ KeyInv /\ Heard
  BY DEF DedupeInv, U!Absorb
<1>2. /\ exchangeAt[e] = "inside" /\ absorbed' = Append(absorbed, e) /\ hold' = e
      /\ U!Supersedes(e, "held")
      /\ UNCHANGED <<debounces, attempt, subscribed, aborted, clones, released,
                     committed, forgotten>>
  BY DEF U!Absorb, U!AbsorbAndHold, U!Absorbs, U!Dropped, U!ReleaseReservation
<1>3. /\ hold # Nobody => hold \in Deduped /\ U!Released(hold) /\ exchangeAt[hold] = "held"
      /\ hold = Nobody => UNCHANGED <<reserved, pending>>
  BY <1>1 DEF U!Absorb, U!AbsorbAndHold, U!Absorbs, U!Dropped, U!ReleaseReservation, U!TypeOK, BurstInv
<1>4. e # hold /\ e # Nobody BY <1>1, <1>2, <1>3 DEF U!ConstantsOK
<1>5. /\ exchangeAt' \in [Deduped -> {"before", "completed", "failed", "dropped"} \union U!InFlight]
      /\ exchangeAt'[e] = "held" /\ \A f \in Deduped \ {e, hold} : exchangeAt'[f] = exchangeAt[f]
      /\ hold # Nobody => exchangeAt'[hold] = "dropped"
  BY <1>1, <1>2, <1>3, <1>4 DEF U!TypeOK, U!Supersedes, U!InFlight
<1>6. /\ absorbed \in Seq(Deduped) /\ Len(absorbed) \in Nat
      /\ absorbed' \in Seq(Deduped) /\ Len(absorbed') = Len(absorbed) + 1
      /\ absorbed'[Len(absorbed) + 1] = e
      /\ \A i \in 1..Len(absorbed) : absorbed'[i] = absorbed[i] /\ absorbed[i] \in Deduped
  BY <1>1, <1>2 DEF U!TypeOK
<1>7. reserved' \subseteq U!Keys /\ pending' \subseteq Deduped
  BY <1>1, <1>3, ReleasedIsTyped DEF U!TypeOK
<1>8. U!ToSet(absorbed) \subseteq U!ToSet(absorbed')
  <2> SUFFICES ASSUME NEW i \in 1..Len(absorbed) PROVE absorbed[i] \in U!ToSet(absorbed')
    BY <1>6 DEF U!ToSet
  <2>1. i \in DOMAIN absorbed' /\ absorbed'[i] = absorbed[i] BY <1>6
  <2> QED BY <2>1 DEF U!ToSet
<1>9. U!TypeOK' BY <1>1, <1>2, <1>5, <1>6, <1>7, <1>8 DEF U!TypeOK
<1>10. BurstInv'
  <2>1. \A f \in Deduped : exchangeAt'[f] = "held" => hold' = f
    BY <1>1, <1>2, <1>5 DEF BurstInv, U!ConstantsOK
  <2>2. /\ ~aborted' /\ exchangeAt'[hold'] = "held" /\ hold' = absorbed'[Len(absorbed')]
        /\ absorbed'[Len(absorbed')] \in released' \union {hold'}
    BY <1>1, <1>2, <1>5, <1>6
  <2>3. ASSUME NEW i \in 1..Len(absorbed'), absorbed'[i] \notin released'
        PROVE  exchangeAt'[absorbed'[i]] \in {"dropped", "held"}
    <3>1. CASE i = Len(absorbed) + 1 BY <1>5, <1>6, <3>1
    <3>2. CASE i # Len(absorbed) + 1
      <4>1. i \in 1..Len(absorbed) BY <1>6, <3>2
      <4>2. absorbed'[i] \in Deduped /\ exchangeAt[absorbed'[i]] \in {"dropped", "held"}
        BY <1>1, <1>2, <1>6, <2>3, <4>1 DEF BurstInv
      <4>3. absorbed'[i] = hold => hold # Nobody BY <4>2 DEF U!ConstantsOK
      <4> QED BY <1>5, <4>2, <4>3
    <3> QED BY <3>1, <3>2
  <2>4. absorbed' # <<>> BY <1>6
  <2> QED BY <2>1, <2>2, <2>3, <2>4 DEF BurstInv
<1>11. KeyInv' /\ subscribed'
  <2>1. subscribed' BY <1>1, <1>2 DEF Heard
  <2>2. CASE hold = Nobody
    <3>1. \A f \in Deduped : f # e => exchangeAt'[f] = exchangeAt[f] BY <1>5, <2>2 DEF U!ConstantsOK
    <3> QED BY <1>1, <1>2, <1>3, <1>5, <2>1, <2>2, <3>1, StaysInFlight DEF U!InFlight
  <2>3. CASE hold # Nobody
    <3>1. hold \in Deduped /\ exchangeAt[hold] = "held" /\ U!Released(hold) BY <1>3, <2>3
    <3>2. /\ pending' = pending \ {hold}
          /\ reserved' = IF hold \in pending THEN reserved \ {DedupeKeyOf[hold]} ELSE reserved
      BY <1>1, <3>1, ReleasedIsTyped
    <3>3. \A f \in Deduped \ {hold} :
            (exchangeAt'[f] \in U!InFlight <=> exchangeAt[f] \in U!InFlight)
            /\ (exchangeAt'[f] = "completed" <=> exchangeAt[f] = "completed")
      BY <1>2, <1>5 DEF U!InFlight
    <3>4. exchangeAt'[hold] = "dropped" BY <1>5, <2>3
    <3> QED BY <1>1, <1>2, <2>1, <3>1, <3>2, <3>3, <3>4, EndsUnhandled
  <2> QED BY <2>2, <2>3
<1> QED BY <1>1, <1>2, <1>9, <1>10, <1>11 DEF DedupeInv, Heard

(***************************************************************************)
(* Once the intake is aborted nothing is held any more.                    *)
(***************************************************************************)
LEMMA AbsorbLateReleases ==
  ASSUME U!ConstantsOK, DedupeInv, NEW e \in Deduped, U!AbsorbLate(e)
  PROVE  DedupeInv'
<1>1. U!TypeOK /\ Once(committed) /\ BurstInv BY DEF DedupeInv
<1>2. /\ aborted /\ hold = Nobody /\ hold' = Nobody
      /\ exchangeAt[e] = "inside" /\ absorbed' = Append(absorbed, e)
      /\ U!Supersedes(e, "dropped") /\ U!LetsGo(e)
      /\ UNCHANGED <<debounces, attempt, subscribed, aborted, committed, forgotten,
                     reserved, pending>>
  BY <1>1 DEF U!AbsorbLate, U!Absorbs, BurstInv
<1>3. /\ exchangeAt' \in [Deduped -> {"before", "completed", "failed", "dropped"} \union U!InFlight]
      /\ exchangeAt'[e] = "dropped" /\ \A f \in Deduped \ {e} : exchangeAt'[f] = exchangeAt[f]
  BY <1>1, <1>2 DEF U!TypeOK, U!Supersedes, U!InFlight, U!ConstantsOK
<1>4. /\ absorbed \in Seq(Deduped) /\ Len(absorbed) \in Nat
      /\ absorbed' \in Seq(Deduped) /\ Len(absorbed') = Len(absorbed) + 1
      /\ absorbed'[Len(absorbed) + 1] = e
      /\ \A i \in 1..Len(absorbed) : absorbed'[i] = absorbed[i] /\ absorbed[i] \in Deduped
  BY <1>1, <1>2 DEF U!TypeOK
<1>5. U!ToSet(absorbed) \union {e} \subseteq U!ToSet(absorbed')
  <2>1. ASSUME NEW i \in 1..Len(absorbed) PROVE absorbed[i] \in U!ToSet(absorbed')
    <3>1. i \in DOMAIN absorbed' /\ absorbed'[i] = absorbed[i] BY <1>4
    <3> QED BY <3>1 DEF U!ToSet
  <2>2. Len(absorbed) + 1 \in DOMAIN absorbed' BY <1>4
  <2> QED BY <1>4, <2>1, <2>2 DEF U!ToSet
<1>6. U!TypeOK' BY <1>1, <1>2, <1>3, <1>4, <1>5 DEF U!TypeOK, U!LetsGo
<1>7. BurstInv'
  <2>1. \A f \in Deduped : exchangeAt'[f] # "held" BY <1>1, <1>2, <1>3 DEF BurstInv, U!ConstantsOK
  <2>2. absorbed'[Len(absorbed')] \in released' BY <1>2, <1>4 DEF U!LetsGo
  <2>3. ASSUME NEW i \in 1..Len(absorbed'), absorbed'[i] \notin released'
        PROVE  exchangeAt'[absorbed'[i]] \in {"dropped", "held"}
    <3>1. i \in 1..Len(absorbed) /\ absorbed'[i] # e /\ absorbed[i] \notin released
      BY <1>2, <1>4, <2>3 DEF U!LetsGo
    <3> QED BY <1>1, <1>3, <1>4, <3>1 DEF BurstInv
  <2> QED BY <1>2, <2>1, <2>2, <2>3 DEF BurstInv
<1> QED BY <1>1, <1>2, <1>6, <1>7 DEF DedupeInv

(***************************************************************************)
(* The held exchange is released and runs, or its clone cannot be made;    *)
(* it ends either way.                                                     *)
(***************************************************************************)
LEMMA ReleaseEnds ==
  ASSUME U!ConstantsOK, DedupeInv, U!Release \/ U!CloneFails
  PROVE  DedupeInv'
<1>1. U!TypeOK /\ Once(committed) /\ BurstInv BY DEF DedupeInv
<1>2. PICK where \in {"dropped", "failed"} : U!Ends(hold, where)
  BY DEF U!Release, U!CloneFails
<1>3. /\ hold \in Deduped /\ exchangeAt[hold] = "held" /\ hold' = Nobody /\ ~aborted
      /\ released' = released \union {hold} /\ clones' \subseteq clones \union {hold}
      /\ U!Released(hold)
      /\ UNCHANGED <<debounces, attempt, subscribed, aborted, absorbed, committed, forgotten>>
  BY <1>1 DEF U!Release, U!CloneFails, U!LetsGo, U!Dropped, U!ReleaseReservation, U!TypeOK, BurstInv
<1>4. KeyInv /\ subscribed BY <1>3 DEF DedupeInv, Heard
<1>5. /\ pending' = pending \ {hold} /\ pending' \subseteq Deduped /\ reserved' \subseteq U!Keys
      /\ reserved' = IF hold \in pending THEN reserved \ {DedupeKeyOf[hold]} ELSE reserved
  BY <1>1, <1>3, <1>4, ReleasedIsTyped DEF Heard
<1>6. exchangeAt'[hold] = where /\ \A f \in Deduped \ {hold} : exchangeAt'[f] = exchangeAt[f]
  BY <1>1, <1>2, <1>3 DEF U!TypeOK, U!Ends
<1>7. hold \in U!ToSet(absorbed)
  <2>1. absorbed # <<>> /\ hold = absorbed[Len(absorbed)] /\ absorbed \in Seq(Deduped)
    BY <1>1, <1>3 DEF BurstInv, U!TypeOK, U!ConstantsOK
  <2>2. Len(absorbed) \in DOMAIN absorbed BY <2>1
  <2> QED BY <2>1, <2>2 DEF U!ToSet
<1>8. U!TypeOK' BY <1>1, <1>2, <1>3, <1>5, <1>7 DEF U!TypeOK, U!Ends
<1>9. BurstInv'
  <2>1. \A i \in 1..Len(absorbed) : absorbed[i] \in Deduped BY <1>1 DEF U!TypeOK
  <2> QED BY <1>1, <1>3, <1>6, <2>1 DEF BurstInv
<1>10. KeyInv' BY <1>1, <1>3, <1>4, <1>5, <1>6, EndsUnhandled
<1> QED BY <1>1, <1>3, <1>4, <1>8, <1>9, <1>10 DEF DedupeInv, Heard

(***************************************************************************)
(* The intake is aborted, and the hold is released.                        *)
(***************************************************************************)
LEMMA AbortReleases ==
  ASSUME U!ConstantsOK, DedupeInv, U!Abort
  PROVE  DedupeInv'
<1>1. U!TypeOK /\ Once(committed) /\ BurstInv BY DEF DedupeInv
<1>2. /\ aborted' /\ hold' = Nobody /\ pending' = {} /\ reserved' = {} /\ subscribed' = FALSE
      /\ UNCHANGED <<debounces, attempt, committed, absorbed, forgotten>>
      /\ hold = Nobody => UNCHANGED <<exchangeAt, clones, released>>
      /\ hold # Nobody => U!LetsGo(hold) /\ U!Ends(hold, "dropped")
  BY DEF U!Abort
<1>3. hold # Nobody =>
        hold \in Deduped /\ hold \in U!ToSet(absorbed) /\ hold = absorbed[Len(absorbed)]
  <2> SUFFICES ASSUME hold # Nobody PROVE hold \in Deduped /\ hold \in U!ToSet(absorbed)
    BY <1>1 DEF BurstInv
  <2>1. absorbed # <<>> /\ hold = absorbed[Len(absorbed)] /\ absorbed \in Seq(Deduped)
    BY <1>1 DEF BurstInv, U!TypeOK
  <2>2. Len(absorbed) \in DOMAIN absorbed BY <2>1
  <2> QED BY <1>1, <2>1, <2>2 DEF U!ToSet, U!TypeOK
<1>4. CASE hold = Nobody
  <2>1. U!TypeOK' BY <1>1, <1>2, <1>4 DEF U!TypeOK
  <2>2. BurstInv' BY <1>1, <1>2, <1>4 DEF BurstInv, U!ConstantsOK
  <2> QED BY <1>1, <1>2, <2>1, <2>2 DEF DedupeInv
<1>5. CASE hold # Nobody
  <2>1. U!TypeOK' BY <1>1, <1>2, <1>3, <1>5 DEF U!TypeOK, U!LetsGo, U!Ends
  <2>2. exchangeAt'[hold] = "dropped" /\ \A f \in Deduped \ {hold} : exchangeAt'[f] = exchangeAt[f]
    BY <1>1, <1>2, <1>3, <1>5 DEF U!TypeOK, U!Ends
  <2>3. \A i \in 1..Len(absorbed) : absorbed[i] \in Deduped BY <1>1 DEF U!TypeOK
  <2>4. BurstInv' BY <1>1, <1>2, <1>3, <1>5, <2>2, <2>3 DEF BurstInv, U!LetsGo
  <2> QED BY <1>1, <1>2, <2>1, <2>4 DEF DedupeInv
<1> QED BY <1>4, <1>5

(***************************************************************************)
(* A committed key expires.                                                *)
(***************************************************************************)
LEMMA ExpireForgets ==
  ASSUME U!ConstantsOK, DedupeInv, NEW k \in U!Keys, U!Expire(k)
  PROVE  DedupeInv'
<1>1. U!TypeOK /\ Once(committed) /\ BurstInv BY DEF DedupeInv
<1>2. /\ k \in U!ToSet(committed) /\ committed' = U!Without(k)
      /\ forgotten' = [forgotten EXCEPT ![k] = @ + 1]
      /\ UNCHANGED <<debounces, exchangeAt, attempt, reserved, pending, subscribed, aborted,
                     hold, clones, absorbed, released>>
  BY DEF U!Expire, U!debounce
<1>3. /\ committed' \in Seq(U!Keys) /\ Len(committed') <= MaxCommitted /\ Once(committed')
      /\ U!ToSet(committed') = U!ToSet(committed) \ {k}
  <2>1. committed \in Seq(U!Keys) /\ Len(committed) <= MaxCommitted /\ MaxCommitted \in Nat
    BY <1>1 DEF U!TypeOK, U!ConstantsOK
  <2>2. /\ U!Without(k) \in Seq(U!Keys) /\ Len(U!Without(k)) <= Len(committed)
        /\ Once(U!Without(k)) /\ U!ToSet(U!Without(k)) = U!ToSet(committed) \ {k}
    BY <1>1, <2>1, WithoutIsOut
  <2>3. Len(U!Without(k)) \in Nat /\ Len(committed) \in Nat BY <2>1, <2>2
  <2> QED BY <1>2, <2>1, <2>2, <2>3
<1>4. /\ forgotten' \in [U!Keys -> Nat] /\ forgotten'[k] = forgotten[k] + 1
      /\ \A l \in U!Keys \ {k} : forgotten'[l] = forgotten[l]
      /\ \A l \in U!Keys : forgotten[l] \in Nat
  BY <1>1, <1>2 DEF U!TypeOK
<1>5. U!TypeOK' BY <1>1, <1>2, <1>3, <1>4 DEF U!TypeOK
<1>6. BurstInv' BY <1>1, <1>2 DEF BurstInv
<1>7. ASSUME ~aborted PROVE KeyInv' /\ Heard'
  <2>1. KeyInv /\ Heard BY <1>7 DEF DedupeInv
  <2>2. Pending' /\ Reserved' /\ Alone' /\ Heard'
    BY <1>2, <2>1 DEF KeyInv, Pending, Reserved, Alone, Heard
  <2>3. Fresh' BY <1>2, <1>3, <2>1 DEF KeyInv, Fresh
  <2>4. \A l : U!Handled(l)' = U!Handled(l) BY <1>2 DEF U!Handled
  <2>5. Remembered' BY <1>3, <2>1, <2>4 DEF KeyInv, Remembered
  <2>6. Counted'
    <3> SUFFICES ASSUME NEW l \in U!Keys
                 PROVE  Cardinality(U!Handled(l)') <= forgotten'[l] + Room(l)'
      BY DEF Counted
    <3>1. /\ Cardinality(U!Handled(l)) <= forgotten[l] + Room(l)
          /\ Cardinality(U!Handled(l)) \in Nat
      BY <2>1, HandledIsFinite DEF KeyInv, Counted
    <3>2. CASE l = k
      <4>1. Room(l) = 1 /\ Room(l)' = 0 BY <1>2, <1>3, <3>2 DEF Room
      <4> QED BY <1>4, <2>4, <3>1, <3>2, <4>1
    <3>3. CASE l # k
      <4>1. Room(l)' = Room(l) BY <1>3, <3>3 DEF Room
      <4> QED BY <1>4, <2>4, <3>1, <3>3, <4>1
    <3> QED BY <3>2, <3>3
  <2> QED BY <2>2, <2>3, <2>5, <2>6 DEF KeyInv
<1> QED BY <1>2, <1>3, <1>5, <1>6, <1>7 DEF DedupeInv

(***************************************************************************)
(* A clone ends, or nothing moves.                                         *)
(***************************************************************************)
LEMMA ClonesEnd ==
  ASSUME DedupeInv, UNCHANGED U!vars \/ (\E e \in clones : U!CloneEnds(e))
  PROVE  DedupeInv'
<1>1. /\ clones' \subseteq clones
      /\ UNCHANGED <<debounces, exchangeAt, attempt, reserved, pending, committed, subscribed,
                     aborted, hold, absorbed, released, forgotten>>
  BY DEF U!CloneEnds, U!vars
<1>2. U!TypeOK' BY <1>1 DEF DedupeInv, U!TypeOK
<1>3. BurstInv' BY <1>1 DEF DedupeInv, BurstInv
<1>4. KeyInv => KeyInv'
  BY <1>1 DEF KeyInv, Pending, Reserved, Alone, Fresh, Remembered, Counted, U!Handled, Room
<1>5. Heard => Heard' BY <1>1 DEF Heard
<1> QED BY <1>1, <1>2, <1>3, <1>4, <1>5 DEF DedupeInv

(***************************************************************************)
(* DedupeInv is inductive.                                                 *)
(***************************************************************************)
THEOREM DedupeIsSettled ==
  ASSUME U!ConstantsOK
  PROVE  U!Spec => []DedupeInv
<1>1. U!Init => DedupeInv
  <2> SUFFICES ASSUME U!Init PROVE DedupeInv
    OBVIOUS
  <2>1. \A k : U!Handled(k) = {} BY DEF U!Init, U!Handled
  <2>2. committed = <<>> /\ U!ToSet(committed) = {} BY DEF U!Init, U!ToSet
  <2>3. U!TypeOK
    <3>1. committed \in Seq(U!Keys) /\ Len(committed) = 0 /\ absorbed \in Seq(Deduped)
      BY <2>2 DEF U!Init
    <3>2. attempt \in [Deduped -> 1..MaxAttempts] BY DEF U!Init, U!ConstantsOK
    <3>3. clones = {} /\ released = {} /\ forgotten \in [U!Keys -> Nat] BY DEF U!Init
    <3>4. exchangeAt \in [Deduped -> {"before", "completed", "failed", "dropped"} \union U!InFlight]
      BY DEF U!Init
    <3>5. Len(committed) <= MaxCommitted BY <3>1 DEF U!ConstantsOK
    <3> QED BY <3>1, <3>2, <3>3, <3>4, <3>5 DEF U!Init, U!TypeOK, U!ConstantsOK
  <2>4. Once(committed) BY <2>2 DEF Once
  <2>5. BurstInv BY DEF U!Init, BurstInv, U!ConstantsOK
  <2>6. Pending /\ Reserved /\ Alone /\ Fresh /\ Remembered /\ Heard
    BY <2>2 DEF U!Init, Pending, Reserved, Alone, Fresh, Remembered, Heard, U!InFlight
  <2>7. Counted
    <3>1. \A k \in U!Keys : forgotten[k] = 0 /\ Room(k) = 0 BY <2>2 DEF U!Init, Room
    <3>2. Cardinality({}) = 0 BY FS_EmptySet
    <3> QED BY <2>1, <3>1, <3>2 DEF Counted
  <2> QED BY <2>3, <2>4, <2>5, <2>6, <2>7 DEF DedupeInv, KeyInv
<1>2. DedupeInv /\ [U!Next]_(U!vars) => DedupeInv'
  <2> SUFFICES ASSUME DedupeInv, [U!Next]_(U!vars) PROVE DedupeInv'
    OBVIOUS
  <2>1. CASE \E e \in Deduped :
               \/ U!Duplicate(e) \/ U!Pass(e)
               \/ U!Complete(e) \/ U!Drop(e) \/ U!Fail(e) \/ U!Retry(e) \/ U!GiveUp(e)
               \/ U!Absorb(e) \/ U!AbsorbLate(e)
    BY <2>1, DuplicateIsSuppressed, PassReserves, CompleteCommits, EndsAreHeard, RetryKeeps,
       AbsorbSupersedes, AbsorbLateReleases
  <2>2. CASE U!Release \/ U!CloneFails \/ U!Abort \/ (\E k \in U!Keys : U!Expire(k))
    BY <2>2, ReleaseEnds, AbortReleases, ExpireForgets
  <2> QED BY <2>1, <2>2, ClonesEnd DEF U!Next
<1> QED BY <1>1, <1>2, PTL DEF U!Spec

(***************************************************************************)
(* No input is handled twice, and none is suppressed for good that was not *)
(* handled.                                                                *)
(***************************************************************************)
THEOREM DedupeIsExact ==
  ASSUME U!ConstantsOK
  PROVE  U!Spec => []U!SuppressionIsExact
<1>1. DedupeInv => U!SuppressionIsExact
  <2> SUFFICES ASSUME DedupeInv, ~aborted PROVE U!SuppressionIsExact
    BY DEF U!SuppressionIsExact, U!NeverTwice, U!NoKeyIsStuck
  <2>1. U!TypeOK /\ KeyInv BY DEF DedupeInv
  <2>2. U!SecondIsDropped BY <2>1 DEF U!SecondIsDropped, KeyInv, Pending, Alone
  <2>3. ASSUME NEW k \in U!Keys PROVE Cardinality(U!Handled(k)) <= 1 + forgotten[k]
    <3>1. /\ Cardinality(U!Handled(k)) <= forgotten[k] + Room(k)
          /\ Cardinality(U!Handled(k)) \in Nat /\ forgotten[k] \in Nat
      BY <2>1, HandledIsFinite DEF KeyInv, Counted, U!TypeOK
    <3>2. Room(k) \in {0, 1} BY DEF Room
    <3> QED BY <3>1, <3>2
  <2>4. U!NoKeyIsStuck BY <2>1 DEF U!NoKeyIsStuck, KeyInv, Pending, Reserved, Remembered
  <2> QED BY <2>2, <2>3, <2>4, SameSets DEF U!SuppressionIsExact, U!NeverTwice
<1> QED BY <1>1, DedupeIsSettled, PTL

(***************************************************************************)
(* The last of a burst is held until it runs, and only it.                 *)
(***************************************************************************)
THEOREM BurstsKeepTheirLast ==
  ASSUME U!ConstantsOK
  PROVE  U!Spec => []U!LastOfBurstRuns
<1>1. DedupeInv => U!LastOfBurstRuns BY DEF DedupeInv, BurstInv, U!LastOfBurstRuns, U!Last
<1> QED BY <1>1, DedupeIsSettled, PTL

-----------------------------------------------------------------------------
(***************************************************************************)
(* The dispatch.  Of a sticky one: the list has every key once, in the     *)
(* order in which they were last used, with the target each then had; and  *)
(* a key that is not in it was followed by enough others.                  *)
(***************************************************************************)
Affinities == [key : DispatchKeys, target : D!Targets]

Others(ks, i, j) == {ks[m] : m \in i+1..j-1} \ {ks[i]}

LastUsed(ss, p, ks, ts, i) ==
  /\ ks[i] = ss[p].key /\ ts[i] = <<ss[p].target>>
  /\ \A j \in i+1..Len(ks) : ks[j] # ks[i]
  /\ \A q \in p+1..Len(ss) : \E j \in i+1..Len(ks) : ks[j] = ss[q].key

InOrder(ss, ks, ts) == \A p \in 1..Len(ss) : \E i \in 1..Len(ks) : LastUsed(ss, p, ks, ts, i)

Forgets(ss, ks) ==
  \A i \in 1..Len(ks) :
    (\A p \in 1..Len(ss) : ss[p].key # ks[i]) =>
      Cardinality(Others(ks, i, Len(ks) + 1)) >= MaxSticky

Stick(ks, ts) ==
  \A i, j \in 1..Len(ks) :
    (i < j /\ ks[i] = ks[j] /\ ts[i] # ts[j]) => Cardinality(Others(ks, i, j)) >= MaxSticky

StickyTypes(ss, ks, ts) ==
  /\ ss \in Seq(Affinities) /\ Len(ss) <= MaxSticky
  /\ \A p, q \in 1..Len(ss) : ss[p].key = ss[q].key => p = q
  /\ ks \in Seq(DispatchKeys) /\ ts \in Seq(Seq(D!Targets)) /\ Len(ks) = Len(ts)

StickyOK(ss, ks, ts) ==
  StickyTypes(ss, ks, ts) /\ InOrder(ss, ks, ts) /\ Forgets(ss, ks) /\ Stick(ks, ts)

(***************************************************************************)
(* The other keys of a longer stretch are more.                            *)
(***************************************************************************)
LEMMA OthersAreFinite ==
  ASSUME NEW ks \in Seq(DispatchKeys), NEW i \in 1..Len(ks), NEW j \in 1..Len(ks)+1
  PROVE  IsFiniteSet(Others(ks, i, j)) /\ Cardinality(Others(ks, i, j)) \in Nat
<1> DEFINE f == [m \in i+1..j-1 |-> ks[m]]
           I == {ks[m] : m \in i+1..j-1}
<1>1. f \in Surjection(i+1..j-1, I) BY DEF Surjection
<1>2. IsFiniteSet(i+1..j-1) BY FS_Interval
<1>3. IsFiniteSet(I) BY <1>1, <1>2, FS_Surjection
<1>4. Others(ks, i, j) \in SUBSET I BY DEF Others
<1> QED BY <1>3, <1>4, FS_Subset, FS_CardinalityType

(***************************************************************************)
(* What is in a finite set is no more than the set.                        *)
(***************************************************************************)
LEMMA MoreOthers ==
  ASSUME NEW ks \in Seq(DispatchKeys), NEW i \in 1..Len(ks), NEW j \in 1..Len(ks)+1,
         NEW W, W \subseteq Others(ks, i, j), NEW n \in Nat,
         Cardinality(W) >= n
  PROVE  Cardinality(Others(ks, i, j)) >= n
<1>1. IsFiniteSet(Others(ks, i, j)) /\ Cardinality(Others(ks, i, j)) \in Nat BY OthersAreFinite
<1>2. IsFiniteSet(W) /\ Cardinality(W) <= Cardinality(Others(ks, i, j)) BY <1>1, FS_Subset
<1>3. Cardinality(W) \in Nat BY <1>2, FS_CardinalityType
<1> QED BY <1>1, <1>2, <1>3

(***************************************************************************)
(* The keys of a list that has each once are as many as it is long.        *)
(***************************************************************************)
LEMMA KeysAreMany ==
  ASSUME NEW ss \in Seq(Affinities),
         \A p, q \in 1..Len(ss) : ss[p].key = ss[q].key => p = q
  PROVE  Cardinality({ss[p].key : p \in 1..Len(ss)}) = Len(ss)
<1> DEFINE K == {ss[p].key : p \in 1..Len(ss)}
           f == [p \in 1..Len(ss) |-> ss[p].key]
<1>1. Len(ss) \in Nat OBVIOUS
<1>2. f \in Bijection(1..Len(ss), K)
  <2>1. f \in [1..Len(ss) -> K] OBVIOUS
  <2>2. IsInjective(f) BY DEF IsInjective
  <2>3. \A t \in K : \E s \in 1..Len(ss) : f[s] = t OBVIOUS
  <2> QED BY <2>1, <2>2, <2>3 DEF Bijection, Injection, Surjection
<1>3. ExistsBijection(1..Len(ss), K) BY <1>2 DEF ExistsBijection
<1>4. IsFiniteSet(1..Len(ss)) /\ Cardinality(1..Len(ss)) = Len(ss)
  <2>1. 1 \in Int /\ Len(ss) \in Int BY <1>1
  <2>2. /\ IsFiniteSet(1..Len(ss))
        /\ Cardinality(1..Len(ss)) = IF 1 > Len(ss) THEN 0 ELSE Len(ss) - 1 + 1
    BY <2>1, FS_Interval
  <2> QED BY <1>1, <2>2
<1> QED BY <1>3, <1>4, FS_Bijection

(***************************************************************************)
(* An entry that only moves keeps its last use, when another key comes.    *)
(***************************************************************************)
LEMMA LastUseStays ==
  ASSUME NEW ss, NEW ks, NEW ts, StickyOK(ss, ks, ts),
         NEW k \in DispatchKeys, NEW t \in Seq(D!Targets),
         NEW p \in 1..Len(ss), ss[p].key # k,
         NEW rr \in Seq(Affinities), NEW q \in 1..Len(rr), rr[q] = ss[p],
         \A r \in q+1..Len(rr) : rr[r].key = k \/ \E r0 \in p+1..Len(ss) : rr[r].key = ss[r0].key
  PROVE  \E i \in 1..Len(Append(ks, k)) : LastUsed(rr, q, Append(ks, k), Append(ts, t), i)
<1> DEFINE us == Append(ks, k)
           vs == Append(ts, t)
<1>1. /\ ks \in Seq(DispatchKeys) /\ ts \in Seq(Seq(D!Targets)) /\ Len(ks) = Len(ts)
      /\ Len(ks) \in Nat
  BY DEF StickyOK, StickyTypes
<1>2. /\ Len(us) = Len(ks) + 1 /\ us[Len(ks) + 1] = k
      /\ \A m \in 1..Len(ks) : us[m] = ks[m] /\ vs[m] = ts[m]
  BY <1>1
<1>3. PICK i \in 1..Len(ks) : LastUsed(ss, p, ks, ts, i) BY DEF StickyOK, InOrder
<1> HIDE DEF us, vs
<1>4. us[i] = rr[q].key /\ vs[i] = <<rr[q].target>> BY <1>2, <1>3 DEF LastUsed
<1>5. ASSUME NEW j \in i+1..Len(us) PROVE us[j] # us[i]
  <2>1. CASE j \in i+1..Len(ks) BY <1>1, <1>2, <1>3, <2>1 DEF LastUsed
  <2>2. CASE j = Len(ks) + 1 BY <1>2, <1>3, <2>2 DEF LastUsed
  <2> QED BY <1>1, <1>2, <2>1, <2>2
<1>6. ASSUME NEW r \in q+1..Len(rr) PROVE \E j \in i+1..Len(us) : us[j] = rr[r].key
  <2>1. CASE rr[r].key = k
    <3>1. Len(ks) + 1 \in i+1..Len(us) BY <1>1, <1>2
    <3> QED BY <1>2, <2>1, <3>1
  <2>2. CASE \E r0 \in p+1..Len(ss) : rr[r].key = ss[r0].key
    <3>1. PICK j \in i+1..Len(ks) : ks[j] = rr[r].key BY <1>3, <2>2 DEF LastUsed
    <3>2. j \in 1..Len(ks) /\ j \in i+1..Len(us) BY <1>1, <1>2
    <3> QED BY <1>2, <3>1, <3>2
  <2> QED BY <2>1, <2>2
<1>7. i \in 1..Len(us) BY <1>1, <1>2
<1>8. LastUsed(rr, q, us, vs, i) BY <1>4, <1>5, <1>6 DEF LastUsed
<1> QED BY <1>7, <1>8 DEF us, vs

(***************************************************************************)
(* The newest entry was used last.                                         *)
(***************************************************************************)
LEMMA NewestIsLast ==
  ASSUME NEW ks \in Seq(DispatchKeys), NEW ts \in Seq(Seq(D!Targets)), Len(ks) = Len(ts),
         NEW rr \in Seq(Affinities), rr # <<>>,
         NEW k, k = rr[Len(rr)].key, NEW t, t = <<rr[Len(rr)].target>>
  PROVE  LastUsed(rr, Len(rr), Append(ks, k), Append(ts, t), Len(ks) + 1)
<1>1. Len(Append(ks, k)) = Len(ks) + 1 /\ Append(ks, k)[Len(ks) + 1] = k
  OBVIOUS
<1>2. Append(ts, t)[Len(ks) + 1] = t OBVIOUS
<1>3. (Len(ks)+1)+1..Len(ks)+1 = {} /\ Len(rr)+1..Len(rr) = {} OBVIOUS
<1> QED BY <1>1, <1>2, <1>3 DEF LastUsed

(***************************************************************************)
(* Nobody is let off: the other keys of a stretch are those of a longer    *)
(* one, and the newest exchange keeps what the list keeps.                 *)
(***************************************************************************)
LEMMA StickGrows ==
  ASSUME NEW ss, NEW ks, NEW ts, StickyOK(ss, ks, ts), MaxSticky \in Nat,
         NEW k \in DispatchKeys, NEW t \in Seq(D!Targets),
         \/ \A p \in 1..Len(ss) : ss[p].key # k
         \/ \E p \in 1..Len(ss) : ss[p].key = k /\ t = <<ss[p].target>>
  PROVE  Stick(Append(ks, k), Append(ts, t))
<1> DEFINE us == Append(ks, k)
           vs == Append(ts, t)
           n == Len(ks)
<1>1. /\ ks \in Seq(DispatchKeys) /\ ts \in Seq(Seq(D!Targets)) /\ Len(ks) = Len(ts) /\ n \in Nat
      /\ us \in Seq(DispatchKeys)
  BY DEF StickyOK, StickyTypes
<1>2. /\ Len(us) = n + 1 /\ us[n + 1] = k /\ vs[n + 1] = t
      /\ \A m \in 1..n : us[m] = ks[m] /\ vs[m] = ts[m]
  BY <1>1
<1> HIDE DEF us, vs
<1>3. ASSUME NEW i \in 1..n, NEW j \in 1..n+1, NEW m \in 1..n+1, j <= m
      PROVE  Others(ks, i, j) \subseteq Others(us, i, m)
  <2>1. ASSUME NEW x \in i+1..j-1 PROVE x \in i+1..m-1 /\ us[x] = ks[x]
    <3>1. x \in 1..n /\ x \in i+1..m-1 BY <1>1, <1>3
    <3> QED BY <1>2, <3>1
  <2>2. us[i] = ks[i] BY <1>2
  <2> QED BY <2>1, <2>2 DEF Others
<1> SUFFICES ASSUME NEW i \in 1..Len(us), NEW j \in 1..Len(us), i < j, us[i] = us[j], vs[i] # vs[j]
             PROVE  Cardinality(Others(us, i, j)) >= MaxSticky
  BY DEF Stick, us, vs
<1>4. i \in 1..n BY <1>1, <1>2
<1>5. i \in 1..Len(us) /\ j \in 1..Len(us)+1 BY <1>1, <1>2
<1>6. ASSUME NEW m \in 1..n+1, m <= j, Cardinality(Others(ks, i, m)) >= MaxSticky
      PROVE  Cardinality(Others(us, i, j)) >= MaxSticky
  <2>1. Others(ks, i, m) \subseteq Others(us, i, j) BY <1>2, <1>3, <1>4, <1>6
  <2> QED BY <1>1, <1>5, <1>6, <2>1, MoreOthers
<1>7. CASE j <= n
  <2>1. ks[i] = ks[j] /\ ts[i] # ts[j] /\ j \in 1..n BY <1>2, <1>4, <1>7
  <2>2. Cardinality(Others(ks, i, j)) >= MaxSticky BY <1>4, <2>1 DEF StickyOK, Stick
  <2> QED BY <1>6, <2>1, <2>2
<1>8. CASE j = n + 1
  <2>1. ks[i] = k /\ ts[i] # t BY <1>2, <1>4, <1>8
  <2>2. CASE \A p \in 1..Len(ss) : ss[p].key # k
    <3>1. Cardinality(Others(ks, i, n + 1)) >= MaxSticky BY <1>4, <2>1, <2>2 DEF StickyOK, Forgets
    <3> QED BY <1>1, <1>6, <1>8, <3>1
  <2>3. CASE \E p \in 1..Len(ss) : ss[p].key = k /\ t = <<ss[p].target>>
    <3>1. PICK p \in 1..Len(ss) : ss[p].key = k /\ t = <<ss[p].target>> BY <2>3
    <3>2. PICK l \in 1..n : LastUsed(ss, p, ks, ts, l) BY DEF StickyOK, InOrder
    <3>3. ks[l] = k /\ ts[l] = t /\ \A x \in l+1..n : ks[x] # k BY <3>1, <3>2 DEF LastUsed
    <3>4. i < l BY <1>1, <1>4, <2>1, <3>3
    <3>5. Cardinality(Others(ks, i, l)) >= MaxSticky BY <1>4, <2>1, <3>3, <3>4 DEF StickyOK, Stick
    <3> QED BY <1>1, <1>6, <1>8, <3>5
  <2> QED BY <2>2, <2>3
<1> QED BY <1>1, <1>2, <1>7, <1>8

(***************************************************************************)
(* Who was forgotten before stays so, until he comes again.                *)
(***************************************************************************)
LEMMA ForgottenStays ==
  ASSUME NEW ss, NEW ks, NEW ts, StickyOK(ss, ks, ts), MaxSticky \in Nat,
         NEW k \in DispatchKeys, NEW i \in 1..Len(ks),
         \A p \in 1..Len(ss) : ss[p].key # ks[i]
  PROVE  Cardinality(Others(Append(ks, k), i, Len(ks) + 2)) >= MaxSticky
<1> DEFINE us == Append(ks, k)
<1>1. ks \in Seq(DispatchKeys) /\ Len(ks) \in Nat /\ us \in Seq(DispatchKeys)
  BY DEF StickyOK, StickyTypes
<1>2. Len(us) = Len(ks) + 1 /\ \A m \in 1..Len(ks) : us[m] = ks[m] BY <1>1
<1> HIDE DEF us
<1>3. Others(ks, i, Len(ks) + 1) \subseteq Others(us, i, Len(ks) + 2)
  <2>1. \A x \in i+1..(Len(ks)+1)-1 : x \in i+1..(Len(ks)+2)-1 /\ us[x] = ks[x] BY <1>1, <1>2
  <2> QED BY <1>2, <2>1 DEF Others
<1>4. Cardinality(Others(ks, i, Len(ks) + 1)) >= MaxSticky BY DEF StickyOK, Forgets
<1>5. i \in 1..Len(us) /\ Len(ks) + 2 \in 1..Len(us) + 1 BY <1>1, <1>2
<1>6. Cardinality(Others(us, i, Len(ks) + 2)) >= MaxSticky
  BY <1>1, <1>3, <1>4, <1>5, MoreOthers
<1> QED BY <1>6 DEF us

(***************************************************************************)
(* A key that is remembered.                                               *)
(***************************************************************************)
LEMMA HitKeepsOrder ==
  ASSUME NEW ss, NEW ks, NEW ts, StickyOK(ss, ks, ts), MaxSticky \in Nat,
         NEW p \in 1..Len(ss)
  PROVE  StickyOK(Append(RemoveAt(ss, p), ss[p]), Append(ks, ss[p].key), Append(ts, <<ss[p].target>>))
<1> DEFINE k == ss[p].key
           t == <<ss[p].target>>
           us == Append(ks, k)
           vs == Append(ts, t)
           o == RemoveAt(ss, p)
           rr == Append(o, ss[p])
<1>1. /\ ss \in Seq(Affinities) /\ Len(ss) \in Nat /\ Len(ss) <= MaxSticky
      /\ \A q, r \in 1..Len(ss) : ss[q].key = ss[r].key => q = r
      /\ ks \in Seq(DispatchKeys) /\ ts \in Seq(Seq(D!Targets)) /\ Len(ks) = Len(ts) /\ Len(ks) \in Nat
  BY DEF StickyOK, StickyTypes
<1>2. k \in DispatchKeys /\ ss[p].target \in D!Targets /\ t \in Seq(D!Targets) /\ ss[p] \in Affinities
  <2>1. ss[p] \in Affinities BY <1>1
  <2>2. k \in DispatchKeys /\ ss[p].target \in D!Targets BY <2>1 DEF Affinities
  <2> QED BY <2>1, <2>2
<1>3. /\ o \in Seq(Affinities) /\ Len(o) = Len(ss) - 1
      /\ \A j \in 1..Len(ss)-1 : o[j] = IF j < p THEN ss[j] ELSE ss[j+1]
  BY <1>1, RemovesOne
<1> HIDE DEF o
<1>4. /\ rr \in Seq(Affinities) /\ Len(rr) = Len(ss) /\ rr[Len(ss)] = ss[p]
      /\ \A j \in 1..Len(ss)-1 : rr[j] = IF j < p THEN ss[j] ELSE ss[j+1]
  BY <1>1, <1>2, <1>3
<1>5. us \in Seq(DispatchKeys) /\ vs \in Seq(Seq(D!Targets)) /\ Len(us) = Len(ks) + 1 /\ Len(vs) = Len(ks) + 1
  BY <1>1, <1>2
<1>u. us[Len(ks)+1] = k /\ \A m \in 1..Len(ks) : us[m] = ks[m] BY <1>1, <1>2
<1> HIDE DEF rr, k, t
<1>6. StickyTypes(rr, us, vs)
  <2> DEFINE was(q) == IF q = Len(ss) THEN p ELSE IF q < p THEN q ELSE q + 1
  <2>a. \A q \in 1..Len(rr) : was(q) \in 1..Len(ss) /\ rr[q] = ss[was(q)] BY <1>1, <1>4
  <2>b. \A q, r \in 1..Len(rr) : was(q) = was(r) => q = r BY <1>1, <1>4
  <2> HIDE DEF was
  <2>1. ASSUME NEW q \in 1..Len(rr), NEW r \in 1..Len(rr), rr[q].key = rr[r].key PROVE q = r
    <3>1. was(q) = was(r) BY <1>1, <2>1, <2>a
    <3> QED BY <2>b, <3>1
  <2> QED BY <1>1, <1>4, <1>5, <2>1 DEF StickyTypes
<1>7. InOrder(rr, us, vs)
  <2> SUFFICES ASSUME NEW q \in 1..Len(rr)
               PROVE  \E i \in 1..Len(us) : LastUsed(rr, q, us, vs, i)
    BY DEF InOrder
  <2>1. CASE q = Len(rr)
    <3>1. rr # <<>> /\ k = rr[Len(rr)].key /\ t = <<rr[Len(rr)].target>> BY <1>1, <1>4 DEF k, t
    <3>2. LastUsed(rr, Len(rr), us, vs, Len(ks) + 1) BY <1>1, <1>4, <3>1, NewestIsLast
    <3>3. Len(ks) + 1 \in 1..Len(us) BY <1>1, <1>5
    <3> QED BY <2>1, <3>2, <3>3
  <2>2. CASE q # Len(rr)
    <3> DEFINE q0 == IF q < p THEN q ELSE q + 1
    <3>1. q0 \in 1..Len(ss) /\ q0 # p /\ rr[q] = ss[q0] BY <1>1, <1>4, <2>2
    <3>2. ss[q0].key # k BY <1>1, <3>1 DEF k
    <3>3. ASSUME NEW r \in q+1..Len(rr)
          PROVE  rr[r].key = k \/ \E r0 \in q0+1..Len(ss) : rr[r].key = ss[r0].key
      <4>1. CASE r = Len(ss) BY <1>4, <4>1 DEF k
      <4>2. CASE r # Len(ss)
        <5> DEFINE r0 == IF r < p THEN r ELSE r + 1
        <5>1. r0 \in q0+1..Len(ss) /\ rr[r] = ss[r0] BY <1>1, <1>4, <2>2, <4>2
        <5> QED BY <5>1
      <4> QED BY <4>1, <4>2
    <3> HIDE DEF q0
    <3> QED BY <1>2, <1>4, <3>1, <3>2, <3>3, LastUseStays
  <2> QED BY <2>1, <2>2
<1>8. Forgets(rr, us)
  <2> SUFFICES ASSUME NEW i \in 1..Len(us), \A q \in 1..Len(rr) : rr[q].key # us[i]
               PROVE  Cardinality(Others(us, i, Len(us) + 1)) >= MaxSticky
    BY DEF Forgets
  <2>1. us[i] # k
    <3>1. Len(rr) \in 1..Len(rr) /\ rr[Len(rr)].key = k BY <1>1, <1>4 DEF k
    <3> QED BY <3>1
  <2>2. i \in 1..Len(ks) /\ us[i] = ks[i] BY <1>1, <1>5, <1>u, <2>1
  <2>3. ASSUME NEW q \in 1..Len(ss) PROVE ss[q].key # ks[i]
    <3>1. CASE q = p BY <2>1, <2>2, <3>1 DEF k
    <3>2. CASE q < p
      <4>1. q \in 1..Len(rr) /\ rr[q] = ss[q] BY <1>1, <1>4, <3>2
      <4> QED BY <2>2, <4>1
    <3>3. CASE q > p
      <4>1. q-1 \in 1..Len(rr) /\ rr[q-1] = ss[q] BY <1>1, <1>4, <3>3
      <4> QED BY <2>2, <4>1
    <3> QED BY <1>1, <3>1, <3>2, <3>3
  <2>4. Cardinality(Others(us, i, Len(ks) + 2)) >= MaxSticky BY <1>2, <2>2, <2>3, ForgottenStays
  <2>5. Len(us) + 1 = Len(ks) + 2 BY <1>1, <1>5
  <2> QED BY <2>4, <2>5
<1>9. Stick(us, vs) BY <1>2, StickGrows DEF k, t
<1> QED BY <1>6, <1>7, <1>8, <1>9 DEF StickyOK, rr, o, k, t

(***************************************************************************)
(* A key that is new, and may push the first one out.                      *)
(***************************************************************************)
LEMMA MissKeepsOrder ==
  ASSUME NEW ss, NEW ks, NEW ts, StickyOK(ss, ks, ts), MaxSticky \in Nat \ {0},
         NEW a \in Affinities, \A p \in 1..Len(ss) : ss[p].key # a.key
  PROVE  StickyOK(D!Bounded(Append(ss, a)), Append(ks, a.key), Append(ts, <<a.target>>))
<1> DEFINE k == a.key
           t == <<a.target>>
           us == Append(ks, k)
           vs == Append(ts, t)
           rr == D!Bounded(Append(ss, a))
           g == IF Len(ss) < MaxSticky THEN 0 ELSE 1
<1>1. /\ ss \in Seq(Affinities) /\ Len(ss) \in Nat /\ Len(ss) <= MaxSticky
      /\ \A q, r \in 1..Len(ss) : ss[q].key = ss[r].key => q = r
      /\ ks \in Seq(DispatchKeys) /\ ts \in Seq(Seq(D!Targets)) /\ Len(ks) = Len(ts) /\ Len(ks) \in Nat
  BY DEF StickyOK, StickyTypes
<1>2. k \in DispatchKeys /\ a.target \in D!Targets /\ t \in Seq(D!Targets)
  <2>1. k \in DispatchKeys /\ a.target \in D!Targets BY DEF Affinities
  <2> QED BY <2>1
<1>3. /\ Append(ss, a) \in Seq(Affinities) /\ Len(Append(ss, a)) = Len(ss) + 1
      /\ \A j \in 1..Len(ss) : Append(ss, a)[j] = ss[j]
      /\ Append(ss, a)[Len(ss) + 1] = a
  BY <1>1
<1>4. /\ rr \in Seq(Affinities) /\ Len(rr) = Len(ss) + 1 - g /\ rr[Len(rr)] = a
      /\ \A j \in 1..Len(ss)-g : rr[j] = ss[j+g]
  <2>1. CASE Len(ss) < MaxSticky
    <3>1. g = 0 /\ rr = Append(ss, a) BY <1>1, <1>3, <2>1 DEF D!Bounded
    <3> QED BY <1>1, <1>3, <3>1
  <2>2. CASE ~(Len(ss) < MaxSticky)
    <3>1. g = 1 /\ rr = Tail(Append(ss, a)) BY <1>1, <1>3, <2>2 DEF D!Bounded
    <3> HIDE DEF rr, g
    <3>2. Append(ss, a) # <<>>
      <4>1. Len(<<>>) = 0 OBVIOUS
      <4>2. Len(Append(ss, a)) # 0 BY <1>1, <1>3
      <4> QED BY <4>1, <4>2
    <3>3. /\ Tail(Append(ss, a)) \in Seq(Affinities) /\ Len(Tail(Append(ss, a))) = Len(ss)
          /\ \A j \in 1..Len(ss) : Tail(Append(ss, a))[j] = Append(ss, a)[j+1]
      BY <1>1, <1>3, <3>2, HeadTailProperties
    <3>4. Len(ss) >= 1 BY <1>1, <2>2
    <3>5. Len(ss) \in 1..Len(ss) BY <1>1, <3>4
    <3>6. rr[Len(ss)] = a BY <1>3, <3>1, <3>3, <3>5
    <3>7. ASSUME NEW j \in 1..Len(ss)-1 PROVE rr[j] = ss[j+1]
      <4>1. j \in 1..Len(ss) /\ j+1 \in 1..Len(ss) BY <1>1
      <4> QED BY <1>3, <3>1, <3>3, <4>1
    <3>8. rr \in Seq(Affinities) /\ Len(rr) = Len(ss) BY <3>1, <3>3
    <3>9. Len(ss) + 1 - g = Len(ss) /\ Len(ss) - g = Len(ss) - 1 BY <1>1, <3>1
    <3> QED BY <3>1, <3>6, <3>7, <3>8, <3>9
  <2> QED BY <2>1, <2>2
<1>g. g \in {0, 1} /\ (g = 1 => Len(ss) = MaxSticky) BY <1>1
<1>b. Len(ss) + 1 - g \in Nat /\ Len(ss) + 1 - g <= MaxSticky /\ Len(ss) + 1 - g >= 1
  BY <1>1, <1>g
<1>5. us \in Seq(DispatchKeys) /\ vs \in Seq(Seq(D!Targets)) /\ Len(us) = Len(ks) + 1 /\ Len(vs) = Len(ks) + 1
  BY <1>1, <1>2
<1> HIDE DEF rr, g, k
<1>c. ks \in Seq(DispatchKeys) /\ k \in DispatchKeys BY <1>1, <1>2
<1>u. us[Len(ks)+1] = k /\ \A m \in 1..Len(ks) : us[m] = ks[m] BY <1>c
<1> USE DEF k
<1>w. ASSUME NEW q \in 1..Len(rr), q # Len(rr)
      PROVE  q + g \in 1..Len(ss) /\ rr[q] = ss[q + g] /\ rr[q].key # k
  <2>1. q \in 1..Len(ss)-g /\ q + g \in 1..Len(ss) BY <1>1, <1>4, <1>g, <1>w
  <2> QED BY <1>4, <2>1
<1>6. StickyTypes(rr, us, vs)
  <2>1. ASSUME NEW q \in 1..Len(rr), NEW r \in 1..Len(rr), rr[q].key = rr[r].key PROVE q = r
    <3>1. CASE q = Len(rr) \/ r = Len(rr) BY <1>4, <1>w, <2>1, <3>1
    <3>2. CASE q # Len(rr) /\ r # Len(rr)
      <4>1. q + g = r + g BY <1>1, <1>w, <2>1, <3>2
      <4> QED BY <1>1, <1>g, <1>4, <4>1
    <3> QED BY <3>1, <3>2
  <2> QED BY <1>4, <1>5, <1>b, <2>1 DEF StickyTypes
<1>7. InOrder(rr, us, vs)
  <2> SUFFICES ASSUME NEW q \in 1..Len(rr)
               PROVE  \E i \in 1..Len(us) : LastUsed(rr, q, us, vs, i)
    BY DEF InOrder
  <2>1. CASE q = Len(rr)
    <3>1. rr # <<>> /\ k = rr[Len(rr)].key /\ t = <<rr[Len(rr)].target>> BY <1>4, <1>b
    <3>2. LastUsed(rr, Len(rr), us, vs, Len(ks) + 1) BY <1>1, <1>4, <3>1, NewestIsLast
    <3>3. Len(ks) + 1 \in 1..Len(us) BY <1>1, <1>5
    <3> QED BY <2>1, <3>2, <3>3
  <2>2. CASE q # Len(rr)
    <3> DEFINE p0 == q + g
    <3>1. p0 \in 1..Len(ss) /\ rr[q] = ss[p0] /\ ss[p0].key # k BY <1>w, <2>2
    <3>3. ASSUME NEW r \in q+1..Len(rr)
          PROVE  rr[r].key = k \/ \E r0 \in p0+1..Len(ss) : rr[r].key = ss[r0].key
      <4>1. CASE r = Len(rr) BY <1>4, <4>1
      <4>2. CASE r # Len(rr)
        <5>1. r \in 1..Len(rr) BY <1>4, <1>b
        <5>2. r + g \in 1..Len(ss) /\ rr[r] = ss[r + g] BY <1>w, <4>2, <5>1
        <5>3. r + g \in p0+1..Len(ss) BY <1>1, <1>g, <5>1, <5>2
        <5> QED BY <5>2, <5>3
      <4> QED BY <4>1, <4>2
    <3> HIDE DEF p0, k, t
    <3> QED BY <1>2, <1>4, <3>1, <3>3, LastUseStays
  <2> QED BY <2>1, <2>2
<1>8. Forgets(rr, us)
  <2> SUFFICES ASSUME NEW i \in 1..Len(us), \A q \in 1..Len(rr) : rr[q].key # us[i]
               PROVE  Cardinality(Others(us, i, Len(us) + 1)) >= MaxSticky
    BY DEF Forgets
  <2>0. Len(us) + 1 = Len(ks) + 2 BY <1>1, <1>5
  <2>1. us[i] # k
    <3>1. Len(rr) \in 1..Len(rr) /\ rr[Len(rr)].key = k BY <1>b, <1>4
    <3> QED BY <3>1
  <2>2. i \in 1..Len(ks) /\ us[i] = ks[i] BY <1>1, <1>5, <1>u, <2>1
  <2>3. CASE \A q \in 1..Len(ss) : ss[q].key # ks[i]
    <3>1. Cardinality(Others(us, i, Len(ks) + 2)) >= MaxSticky BY <1>2, <2>2, <2>3, ForgottenStays
    <3> QED BY <2>0, <3>1
  <2>4. CASE \E q \in 1..Len(ss) : ss[q].key = ks[i]
    <3>1. PICK q \in 1..Len(ss) : ss[q].key = ks[i] BY <2>4
    <3>2. q = 1 /\ g = 1
      <4>1. ~(q > g)
        <5> SUFFICES ASSUME q > g PROVE FALSE OBVIOUS
        <5>1. q - g \in 1..Len(rr) /\ q - g # Len(rr) /\ q - g + g = q BY <1>1, <1>4, <1>g
        <5>2. rr[q - g] = ss[q] BY <1>w, <5>1
        <5> QED BY <2>2, <3>1, <5>1, <5>2
      <4> QED BY <1>1, <1>g, <4>1
    <3>3. PICK l \in 1..Len(ks) : LastUsed(ss, 1, ks, ts, l) BY <3>1, <3>2 DEF StickyOK, InOrder
    <3>4. /\ ks[l] = ks[i] /\ \A j \in l+1..Len(ks) : ks[j] # ks[l]
          /\ \A r \in 2..Len(ss) : \E j \in l+1..Len(ks) : ks[j] = ss[r].key
      BY <3>1, <3>2, <3>3 DEF LastUsed
    <3>5. i <= l
      <4>1. i \notin l+1..Len(ks) BY <3>4
      <4> QED BY <1>1, <2>2, <4>1
    <3> DEFINE K == {rr[r].key : r \in 1..Len(rr)}
    <3>6. Cardinality(K) = Len(rr) BY <1>4, <1>6, KeysAreMany DEF StickyTypes
    <3>7. Len(rr) = MaxSticky BY <1>4, <1>g, <3>2
    <3>8. ASSUME NEW r \in 1..Len(rr)
          PROVE  rr[r].key \in Others(us, i, Len(us) + 1)
      <4>1. rr[r].key # us[i] OBVIOUS
      <4>2. \E m \in i+1..(Len(us)+1)-1 : us[m] = rr[r].key
        <5>1. CASE r = Len(rr)
          <6>1. Len(ks) + 1 \in i+1..(Len(us)+1)-1 BY <1>1, <1>5, <2>2
          <6> QED BY <1>4, <1>u, <5>1, <6>1
        <5>2. CASE r # Len(rr)
          <6>1. rr[r] = ss[r + 1] /\ r + 1 \in 2..Len(ss) BY <1>w, <3>2, <5>2
          <6>2. PICK m \in l+1..Len(ks) : ks[m] = rr[r].key BY <3>4, <6>1
          <6>3. m \in 1..Len(ks) /\ m \in i+1..(Len(us)+1)-1 BY <1>1, <1>5, <2>2, <3>5
          <6> QED BY <1>u, <6>2, <6>3
        <5> QED BY <5>1, <5>2
      <4> QED BY <4>1, <4>2 DEF Others
    <3>9. K \subseteq Others(us, i, Len(us) + 1) BY <3>8
    <3>10. Cardinality(K) >= MaxSticky BY <1>b, <3>6, <3>7
    <3> HIDE DEF K
    <3>11. i \in 1..Len(us) /\ Len(us) + 1 \in 1..Len(us) + 1 BY <1>1, <1>5
    <3> QED BY <1>5, <3>9, <3>10, <3>11, MoreOthers
  <2> QED BY <2>3, <2>4
<1>9. Stick(us, vs) BY <1>2, StickGrows
<1> QED BY <1>6, <1>7, <1>8, <1>9 DEF StickyOK, rr

-----------------------------------------------------------------------------
(***************************************************************************)
(* Of one that fails over: whoever is alone goes round from the cursor.    *)
(***************************************************************************)
RoundFrom(c, ts) == \A i \in 1..Len(ts) : ts[i] = (c + (i - 1)) % TargetCount

FailoverOK ==
  /\ strategy # "failover" => probing = {} /\ exhausted = {}
  /\ probing \union exhausted \union overtaken \subseteq 1..Len(tried)
  /\ probing \intersect exhausted = {}
  /\ \A e \in probing \ overtaken : probing = {e} /\ RoundFrom(failoverCursor, tried[e])
  /\ \A e \in exhausted \ overtaken : D!ToSet(tried[e]) = D!Targets

DispatchTypes ==
  /\ strategy \in Strategies /\ weight \in TargetWeights
  /\ failoverCursor \in D!Targets /\ rrCursor \in D!Targets /\ stickyCursor \in D!Targets
  /\ tried \in Seq(Seq(D!Targets))
  /\ \A e \in 1..Len(tried) : tried[e] # <<>>
  /\ StickyTypes(sticky, key, tried)

DispatchInv ==
  /\ DispatchTypes /\ FailoverOK
  /\ IF strategy = "sticky" THEN StickyOK(sticky, key, tried) ELSE sticky = <<>>

(***************************************************************************)
(* Who goes round often enough has been everywhere.                        *)
(***************************************************************************)
LEMMA RoundIsAll ==
  ASSUME TargetCount \in Nat \ {0}, NEW c \in D!Targets, NEW ts \in Seq(D!Targets),
         RoundFrom(c, ts), Len(ts) >= TargetCount
  PROVE  D!ToSet(ts) = D!Targets
<1>1. \A s : D!ToSet(s) = ToSet(s) BY SameLists
<1>2. DOMAIN ts = 1..Len(ts) /\ \A i \in 1..Len(ts) : ts[i] \in D!Targets /\ Len(ts) \in Nat OBVIOUS
<1>3. ToSet(ts) \subseteq D!Targets BY <1>2 DEF ToSet
<1>4. ASSUME NEW t \in D!Targets PROVE t \in ToSet(ts)
  <2> DEFINE i == IF t >= c THEN t - c + 1 ELSE t + TargetCount - c + 1
  <2>1. t \in 0..TargetCount-1 /\ c \in 0..TargetCount-1 BY DEF D!Targets
  <2>2. i \in 1..TargetCount BY <2>1
  <2>3. i \in 1..Len(ts) BY <1>2, <2>2
  <2>4. c + (i - 1) = t \/ c + (i - 1) = t + TargetCount BY <2>1
  <2>5. t % TargetCount = t /\ (t + TargetCount) % TargetCount = t BY <2>1
  <2> HIDE DEF i
  <2>6. ts[i] = t BY <2>3, <2>4, <2>5 DEF RoundFrom
  <2> QED BY <1>2, <2>3, <2>6 DEF ToSet
<1> QED BY <1>1, <1>3, <1>4

(***************************************************************************)
(* The next target is a target.                                            *)
(***************************************************************************)
LEMMA TargetsGoRound ==
  ASSUME TargetCount \in Nat \ {0}, NEW n \in Nat
  PROVE  n % TargetCount \in D!Targets
BY DEF D!Targets

(***************************************************************************)
(* What a new exchange does to the history.                                *)
(***************************************************************************)
LEMMA SendingAppends ==
  ASSUME DispatchTypes, NEW k \in DispatchKeys, NEW t \in D!Targets, D!Sends(k, t)
  PROVE  /\ strategy' = strategy /\ weight' = weight
         /\ key' \in Seq(DispatchKeys) /\ tried' \in Seq(Seq(D!Targets))
         /\ Len(tried') = Len(tried) + 1 /\ Len(key') = Len(tried')
         /\ tried'[Len(tried) + 1] = <<t>>
         /\ \A e \in 1..Len(tried) : tried'[e] = tried[e]
         /\ \A e \in 1..Len(tried') : tried'[e] # <<>>
<1>1. /\ tried \in Seq(Seq(D!Targets)) /\ key \in Seq(DispatchKeys) /\ Len(key) = Len(tried)
      /\ Len(tried) \in Nat /\ \A e \in 1..Len(tried) : tried[e] # <<>>
  BY DEF DispatchTypes, StickyTypes
<1>2. <<t>> \in Seq(D!Targets) /\ <<t>> # <<>> OBVIOUS
<1>3. key' = Append(key, k) /\ tried' = Append(tried, <<t>>) /\ strategy' = strategy /\ weight' = weight
  BY DEF D!Sends
<1>4. key' \in Seq(DispatchKeys) /\ Len(key') = Len(key) + 1 BY <1>1, <1>3
<1>5. tried' \in Seq(Seq(D!Targets)) /\ Len(tried') = Len(tried) + 1 /\ tried'[Len(tried) + 1] = <<t>>
      /\ \A e \in 1..Len(tried) : tried'[e] = tried[e]
  BY <1>1, <1>2, <1>3
<1>6. ASSUME NEW e \in 1..Len(tried') PROVE tried'[e] # <<>>
  <2>1. e \in 1..Len(tried) \/ e = Len(tried) + 1 BY <1>1, <1>5
  <2> QED BY <1>1, <1>2, <1>5, <2>1
<1> QED BY <1>1, <1>3, <1>4, <1>5, <1>6

(***************************************************************************)
(* One that chooses without an await fails nothing over.                   *)
(***************************************************************************)
LEMMA NobodyFailsOver ==
  ASSUME DispatchTypes, FailoverOK, strategy # "failover", strategy' = strategy,
         Len(tried') = Len(tried) + 1, UNCHANGED D!failing
  PROVE  FailoverOK'
<1>1. Len(tried) \in Nat BY DEF DispatchTypes
<1>2. probing' = {} /\ exhausted' = {} /\ overtaken' = overtaken BY DEF D!failing, FailoverOK
<1>3. 1..Len(tried) \subseteq 1..Len(tried') BY <1>1
<1> QED BY <1>2, <1>3 DEF FailoverOK

(***************************************************************************)
(* The strategies that remember no key.                                    *)
(***************************************************************************)
LEMMA TurnsKeep ==
  ASSUME D!ConstantsOK, DispatchInv, D!RoundRobin \/ D!Weighted
  PROVE  DispatchInv'
<1>0. D!NoKey \in DispatchKeys BY DEF D!NoKey, D!ConstantsOK
<1>1. PICK t \in D!Targets : D!Sends(D!NoKey, t)
  BY DEF D!RoundRobin, D!Weighted, DispatchInv, DispatchTypes
<1>2. rrCursor' \in D!Targets
  <2>1. rrCursor \in Nat /\ rrCursor + 1 \in Nat BY DEF DispatchInv, DispatchTypes, D!Targets
  <2>2. CASE D!RoundRobin BY <2>1, <2>2, TargetsGoRound DEF D!RoundRobin, D!ConstantsOK
  <2>3. CASE D!Weighted BY <2>3 DEF D!Weighted, DispatchInv, DispatchTypes
  <2> QED BY <2>2, <2>3
<1>3. /\ strategy # "failover" /\ strategy # "sticky" /\ sticky = <<>>
      /\ UNCHANGED <<failoverCursor, stickyCursor, sticky, D!failing>>
  BY DEF D!RoundRobin, D!Weighted, DispatchInv
<1>4. /\ strategy' = strategy /\ weight' = weight
      /\ key' \in Seq(DispatchKeys) /\ tried' \in Seq(Seq(D!Targets))
      /\ Len(tried') = Len(tried) + 1 /\ Len(key') = Len(tried')
      /\ \A e \in 1..Len(tried') : tried'[e] # <<>>
  BY <1>0, <1>1, SendingAppends DEF DispatchInv
<1>5. FailoverOK' BY <1>3, <1>4, NobodyFailsOver DEF DispatchInv
<1>6. DispatchTypes'
  BY <1>2, <1>3, <1>4 DEF DispatchInv, DispatchTypes, StickyTypes
<1> QED BY <1>3, <1>4, <1>5, <1>6 DEF DispatchInv

(***************************************************************************)
(* A key that is remembered goes where it went.                            *)
(***************************************************************************)
LEMMA StickyHitKeeps ==
  ASSUME D!ConstantsOK, DispatchInv, D!StickyHit
  PROVE  DispatchInv'
<1>1. PICK k \in DispatchKeys : \E a \in D!Remembered(k) : D!Sends(k, a.target) /\ sticky' = D!Used(a)
  BY DEF D!StickyHit
<1>2. PICK a \in D!Remembered(k) : D!Sends(k, a.target) /\ sticky' = D!Used(a) BY <1>1
<1>3. strategy = "sticky" /\ StickyOK(sticky, key, tried) /\ sticky \in Seq(Affinities)
      /\ UNCHANGED <<failoverCursor, rrCursor, stickyCursor, D!failing>>
  BY DEF D!StickyHit, DispatchInv, StickyOK, StickyTypes
<1>4. \E i \in DOMAIN sticky : sticky[i] = a
  BY <1>2, SameLists DEF D!Remembered, ToSet
<1> DEFINE p == CHOOSE i \in DOMAIN sticky : sticky[i] = a
<1>5. p \in 1..Len(sticky) /\ sticky[p] = a BY <1>3, <1>4
<1>6. a.key = k /\ a.target \in D!Targets
  <2>1. a \in Affinities BY <1>3, <1>5
  <2> QED BY <1>2, <2>1 DEF D!Remembered, Affinities
<1>7. sticky' = Append(RemoveAt(sticky, p), sticky[p]) BY <1>2, <1>5, SameLists DEF D!Used
<1> HIDE DEF p
<1>8. key' = Append(key, sticky[p].key) /\ tried' = Append(tried, <<sticky[p].target>>)
  BY <1>2, <1>5, <1>6 DEF D!Sends
<1>9. StickyOK(sticky', key', tried')
  <2>1. MaxSticky \in Nat BY DEF D!ConstantsOK
  <2>2. StickyOK(Append(RemoveAt(sticky, p), sticky[p]), Append(key, sticky[p].key),
                 Append(tried, <<sticky[p].target>>))
    BY <1>3, <1>5, <2>1, HitKeepsOrder
  <2> QED BY <1>7, <1>8, <2>2
<1>10. /\ strategy' = strategy /\ weight' = weight
       /\ tried' \in Seq(Seq(D!Targets)) /\ Len(tried') = Len(tried) + 1
       /\ \A e \in 1..Len(tried') : tried'[e] # <<>>
  BY <1>2, <1>6, SendingAppends DEF DispatchInv
<1>11. FailoverOK' BY <1>3, <1>10, NobodyFailsOver DEF DispatchInv
<1>12. DispatchTypes' BY <1>3, <1>9, <1>10 DEF DispatchInv, DispatchTypes, StickyOK
<1> QED BY <1>3, <1>9, <1>10, <1>11, <1>12 DEF DispatchInv

(***************************************************************************)
(* A key that is not goes to the next target.                              *)
(***************************************************************************)
LEMMA StickyMissKeeps ==
  ASSUME D!ConstantsOK, DispatchInv, D!StickyMiss
  PROVE  DispatchInv'
<1>1. PICK k \in DispatchKeys :
        /\ D!Remembered(k) = {} /\ D!Sends(k, stickyCursor)
        /\ sticky' = D!Bounded(Append(sticky, [key |-> k, target |-> stickyCursor]))
  BY DEF D!StickyMiss
<1>2. /\ strategy = "sticky" /\ StickyOK(sticky, key, tried) /\ sticky \in Seq(Affinities)
      /\ stickyCursor \in D!Targets
      /\ stickyCursor' = (stickyCursor + 1) % TargetCount
      /\ UNCHANGED <<failoverCursor, rrCursor, D!failing>>
  BY DEF D!StickyMiss, DispatchInv, DispatchTypes, StickyOK, StickyTypes
<1> DEFINE a == [key |-> k, target |-> stickyCursor]
<1>3. a \in Affinities /\ a.key = k /\ a.target = stickyCursor BY <1>2 DEF Affinities
<1>4. ASSUME NEW p \in 1..Len(sticky) PROVE sticky[p].key # k
  <2>1. sticky[p] \in ToSet(sticky) BY <1>2 DEF ToSet
  <2> QED BY <1>1, <2>1, SameLists DEF D!Remembered
<1> HIDE DEF a
<1>5. StickyOK(sticky', key', tried')
  <2>1. MaxSticky \in Nat \ {0} BY DEF D!ConstantsOK
  <2>2. StickyOK(D!Bounded(Append(sticky, a)), Append(key, a.key), Append(tried, <<a.target>>))
    BY <1>2, <1>3, <1>4, <2>1, MissKeepsOrder
  <2>3. key' = Append(key, a.key) /\ tried' = Append(tried, <<a.target>>) BY <1>1, <1>3 DEF D!Sends
  <2> QED BY <1>1, <2>2, <2>3 DEF a
<1>6. stickyCursor' \in D!Targets
  <2>1. stickyCursor + 1 \in Nat BY <1>2 DEF D!Targets
  <2> QED BY <1>2, <2>1, TargetsGoRound DEF D!ConstantsOK
<1>7. /\ strategy' = strategy /\ weight' = weight
      /\ tried' \in Seq(Seq(D!Targets)) /\ Len(tried') = Len(tried) + 1
      /\ \A e \in 1..Len(tried') : tried'[e] # <<>>
  BY <1>1, <1>2, SendingAppends DEF DispatchInv
<1>8. FailoverOK' BY <1>2, <1>7, NobodyFailsOver DEF DispatchInv
<1>9. DispatchTypes' BY <1>2, <1>5, <1>6, <1>7 DEF DispatchInv, DispatchTypes, StickyOK
<1> QED BY <1>2, <1>5, <1>7, <1>8, <1>9 DEF DispatchInv

(***************************************************************************)
(* Failing over: one begins.                                               *)
(***************************************************************************)
LEMMA FailoverBegins ==
  ASSUME D!ConstantsOK, DispatchInv, D!Failover
  PROVE  DispatchInv'
<1> DEFINE n == Len(tried) + 1
<1>0. D!NoKey \in DispatchKeys BY DEF D!NoKey, D!ConstantsOK
<1>1. /\ strategy = "failover" /\ D!Sends(D!NoKey, failoverCursor) /\ failoverCursor \in D!Targets
      /\ probing' = probing \union {n}
      /\ overtaken' = IF probing = {} THEN overtaken ELSE overtaken \union probing'
      /\ exhausted' = exhausted
      /\ UNCHANGED <<failoverCursor, rrCursor, stickyCursor, sticky>>
      /\ sticky = <<>> /\ Len(tried) \in Nat
  BY DEF D!Failover, D!Newest, D!Arrived, D!cursors, DispatchInv, DispatchTypes
<1>2. /\ strategy' = strategy /\ weight' = weight
      /\ key' \in Seq(DispatchKeys) /\ tried' \in Seq(Seq(D!Targets))
      /\ Len(tried') = n /\ Len(key') = n /\ tried'[n] = <<failoverCursor>>
      /\ \A e \in 1..Len(tried) : tried'[e] = tried[e]
      /\ \A e \in 1..n : tried'[e] # <<>>
  BY <1>0, <1>1, SendingAppends DEF DispatchInv
<1>3. DispatchTypes' BY <1>1, <1>2 DEF DispatchInv, DispatchTypes, StickyTypes
<1>4. FailoverOK'
  <2>1. probing \union exhausted \union overtaken \subseteq 1..Len(tried) BY DEF DispatchInv, FailoverOK
  <2>2. n \notin probing \union exhausted \union overtaken /\ n \in 1..n /\ 1..Len(tried) \subseteq 1..n
    BY <1>1, <2>1
  <2>3. probing' \union exhausted' \union overtaken' \subseteq 1..Len(tried') BY <1>1, <1>2, <2>1, <2>2
  <2>4. probing' \intersect exhausted' = {} BY <1>1, <2>2 DEF DispatchInv, FailoverOK
  <2>5. ASSUME NEW e \in probing' \ overtaken' PROVE probing' = {e} /\ RoundFrom(failoverCursor', tried'[e])
    <3>1. probing = {} /\ e = n /\ probing' = {e} BY <1>1, <2>5
    <3>2. failoverCursor % TargetCount = failoverCursor BY <1>1 DEF D!Targets, D!ConstantsOK
    <3>3. RoundFrom(failoverCursor, <<failoverCursor>>) BY <1>1, <3>2 DEF RoundFrom, D!Targets
    <3> QED BY <1>1, <1>2, <3>1, <3>3
  <2>6. ASSUME NEW e \in exhausted' \ overtaken' PROVE D!ToSet(tried'[e]) = D!Targets
    <3>1. e \in exhausted \ overtaken /\ e \in 1..Len(tried) BY <1>1, <2>1, <2>6
    <3> QED BY <1>2, <3>1 DEF DispatchInv, FailoverOK
  <2>7. strategy' = "failover" BY <1>1, <1>2
  <2> QED BY <2>3, <2>4, <2>5, <2>6, <2>7 DEF FailoverOK
<1> QED BY <1>1, <1>2, <1>3, <1>4 DEF DispatchInv

(***************************************************************************)
(* One ends, handled or abandoned or because every target failed.          *)
(***************************************************************************)
LEMMA FailoverEnds ==
  ASSUME D!ConstantsOK, DispatchInv, NEW e \in probing,
         D!TargetHandles(e) \/ D!LastTargetFails(e) \/ D!Abandon(e)
  PROVE  DispatchInv'
<1>1. /\ UNCHANGED <<strategy, weight, rrCursor, stickyCursor, sticky, key, tried, overtaken>>
      /\ probing' = probing \ {e} /\ strategy = "failover" /\ sticky = <<>>
      /\ e \in 1..Len(tried) /\ tried[e] \in Seq(D!Targets) /\ tried[e] # <<>>
  BY DEF D!TargetHandles, D!LastTargetFails, D!Abandon, D!cursors, DispatchInv, FailoverOK, DispatchTypes
<1>2. failoverCursor' \in D!Targets
  <2>1. Len(tried[e]) \in 1..Len(tried[e]) BY <1>1
  <2>2. D!Last(tried[e]) \in D!Targets BY <1>1, <2>1 DEF D!Last
  <2> QED BY <2>2 DEF D!TargetHandles, D!LastTargetFails, D!Abandon, D!cursors, DispatchInv, DispatchTypes
<1>3. DispatchTypes' BY <1>1, <1>2 DEF DispatchInv, DispatchTypes, StickyTypes
<1>4. exhausted' \subseteq exhausted \union {e} BY DEF D!TargetHandles, D!LastTargetFails, D!Abandon
<1>5. ASSUME NEW f \in exhausted' \ overtaken' PROVE D!ToSet(tried'[f]) = D!Targets
  <2>1. CASE f \in exhausted BY <1>1, <1>5, <2>1 DEF DispatchInv, FailoverOK
  <2>2. CASE f \notin exhausted
    <3>1. f = e /\ D!LastTargetFails(e)
      BY <1>4, <1>5, <2>2 DEF D!TargetHandles, D!LastTargetFails, D!Abandon
    <3>2. Len(tried[e]) >= TargetCount BY <3>1 DEF D!LastTargetFails, D!Attempts
    <3>3. RoundFrom(failoverCursor, tried[e]) BY <1>1, <1>5, <3>1 DEF DispatchInv, FailoverOK
    <3>4. failoverCursor \in D!Targets /\ TargetCount \in Nat \ {0}
      BY DEF DispatchInv, DispatchTypes, D!ConstantsOK
    <3> QED BY <1>1, <3>1, <3>2, <3>3, <3>4, RoundIsAll
  <2> QED BY <2>1, <2>2
<1>6. FailoverOK'
  <2>1. ASSUME NEW f \in probing' \ overtaken' PROVE FALSE
    BY <1>1, <2>1 DEF DispatchInv, FailoverOK
  <2>2. probing' \union exhausted' \union overtaken' \subseteq 1..Len(tried')
    BY <1>1, <1>4 DEF DispatchInv, FailoverOK
  <2>3. probing' \intersect exhausted' = {} BY <1>1, <1>4 DEF DispatchInv, FailoverOK
  <2> QED BY <1>1, <1>5, <2>1, <2>2, <2>3 DEF FailoverOK
<1> QED BY <1>1, <1>3, <1>6 DEF DispatchInv

(***************************************************************************)
(* One goes on to the target after the last.                               *)
(***************************************************************************)
LEMMA FailoverGoesOn ==
  ASSUME D!ConstantsOK, DispatchInv, NEW e \in probing, D!TargetFails(e)
  PROVE  DispatchInv'
<1> DEFINE t == (failoverCursor + Len(tried[e])) % TargetCount
<1>1. /\ UNCHANGED <<strategy, weight, failoverCursor, rrCursor, stickyCursor, sticky, key,
                     probing, exhausted, overtaken>>
      /\ tried' = [tried EXCEPT ![e] = Append(@, t)] /\ strategy = "failover" /\ sticky = <<>>
      /\ e \in 1..Len(tried) /\ tried \in Seq(Seq(D!Targets)) /\ tried[e] \in Seq(D!Targets)
      /\ e \notin exhausted /\ failoverCursor \in D!Targets
  BY DEF D!TargetFails, D!cursors, D!failing, DispatchInv, FailoverOK, DispatchTypes
<1>2. t \in D!Targets
  <2>1. failoverCursor + Len(tried[e]) \in Nat BY <1>1 DEF D!Targets
  <2> QED BY <2>1, TargetsGoRound DEF D!ConstantsOK
<1> HIDE DEF t
<1>3. Append(tried[e], t) \in Seq(D!Targets) /\ Append(tried[e], t) # <<>>
  <2>1. /\ Append(tried[e], t) \in Seq(D!Targets)
        /\ Len(Append(tried[e], t)) = Len(tried[e]) + 1 /\ Len(tried[e]) \in Nat
    BY <1>1, <1>2
  <2>2. Len(<<>>) = 0 OBVIOUS
  <2> QED BY <2>1, <2>2
<1>4. /\ tried' \in Seq(Seq(D!Targets)) /\ Len(tried') = Len(tried)
      /\ tried'[e] = Append(tried[e], t) /\ \A f \in 1..Len(tried) : f # e => tried'[f] = tried[f]
  BY <1>1, <1>3
<1>5. DispatchTypes'
  <2>1. \A f \in 1..Len(tried') : tried'[f] # <<>> BY <1>3, <1>4 DEF DispatchInv, DispatchTypes
  <2> QED BY <1>1, <1>4, <2>1 DEF DispatchInv, DispatchTypes, StickyTypes
<1>6. FailoverOK'
  <2>0. probing \union exhausted \union overtaken \subseteq 1..Len(tried) BY DEF DispatchInv, FailoverOK
  <2>1. ASSUME NEW f \in probing \ overtaken
        PROVE  probing = {f} /\ RoundFrom(failoverCursor, tried'[f])
    <3>1. probing = {f} /\ f = e /\ RoundFrom(failoverCursor, tried[e])
      BY <2>1 DEF DispatchInv, FailoverOK
    <3>2. ASSUME NEW i \in 1..Len(Append(tried[e], t))
          PROVE  Append(tried[e], t)[i] = (failoverCursor + (i - 1)) % TargetCount
      <4>1. CASE i \in 1..Len(tried[e]) BY <1>1, <3>1, <4>1 DEF RoundFrom
      <4>2. CASE i = Len(tried[e]) + 1
        <5>1. i - 1 = Len(tried[e]) BY <1>1, <4>2
        <5> QED BY <1>1, <4>2, <5>1 DEF t
      <4> QED BY <1>1, <4>1, <4>2
    <3> QED BY <1>4, <3>1, <3>2 DEF RoundFrom
  <2>2. ASSUME NEW f \in exhausted \ overtaken PROVE D!ToSet(tried'[f]) = D!Targets
    BY <1>1, <1>4, <2>0, <2>2 DEF DispatchInv, FailoverOK
  <2> QED BY <1>1, <1>4, <2>0, <2>1, <2>2 DEF FailoverOK, DispatchInv
<1> QED BY <1>1, <1>5, <1>6 DEF DispatchInv

(***************************************************************************)
(* No history.                                                             *)
(***************************************************************************)
LEMMA DispatchStarts ==
  ASSUME D!ConstantsOK, D!Init
  PROVE  DispatchInv
<1>1. /\ sticky = <<>> /\ key = <<>> /\ tried = <<>> /\ probing = {} /\ exhausted = {} /\ overtaken = {}
      /\ failoverCursor = 0 /\ rrCursor = 0 /\ stickyCursor = 0
      /\ strategy \in Strategies
  BY DEF D!Init
<1>2. weight \in TargetWeights BY DEF D!Init, D!ConstantsOK
<1>3. 0 \in D!Targets /\ MaxSticky \in Nat BY DEF D!Targets, D!ConstantsOK
<1>4. /\ <<>> \in Seq(Affinities) /\ <<>> \in Seq(DispatchKeys) /\ <<>> \in Seq(Seq(D!Targets))
      /\ Len(<<>>) = 0 /\ 1..0 = {}
  OBVIOUS
<1>5. StickyTypes(sticky, key, tried) BY <1>1, <1>3, <1>4 DEF StickyTypes
<1>6. StickyOK(sticky, key, tried) BY <1>1, <1>4, <1>5 DEF StickyOK, InOrder, Forgets, Stick
<1>7. FailoverOK BY <1>1 DEF FailoverOK
<1>8. DispatchTypes BY <1>1, <1>2, <1>3, <1>4, <1>5 DEF DispatchTypes
<1> QED BY <1>1, <1>6, <1>7, <1>8 DEF DispatchInv

(***************************************************************************)
(* The inductive invariant of the dispatch: its types, where who fails     *)
(* over alone has been, and how the list of keys fits their history.       *)
(***************************************************************************)
THEOREM DispatchKeepsOrder == ASSUME D!ConstantsOK PROVE D!Spec => []DispatchInv
<1>1. D!Init => DispatchInv BY DispatchStarts
<1>2. DispatchInv /\ [D!Next]_(D!vars) => DispatchInv'
  <2> SUFFICES ASSUME DispatchInv, [D!Next]_(D!vars) PROVE DispatchInv'
    OBVIOUS
  <2>1. CASE UNCHANGED D!vars
    BY <2>1 DEF D!vars, DispatchInv, DispatchTypes, FailoverOK
  <2>2. CASE D!RoundRobin \/ D!Weighted BY <2>2, TurnsKeep
  <2>3. CASE D!StickyHit BY <2>3, StickyHitKeeps
  <2>4. CASE D!StickyMiss BY <2>4, StickyMissKeeps
  <2>5. CASE D!Failover BY <2>5, FailoverBegins
  <2>6. ASSUME NEW e \in probing, D!TargetHandles(e) \/ D!LastTargetFails(e) \/ D!Abandon(e)
        PROVE  DispatchInv'
    BY <2>6, FailoverEnds
  <2>7. ASSUME NEW e \in probing, D!TargetFails(e) PROVE DispatchInv'
    BY <2>7, FailoverGoesOn
  <2> QED BY <2>1, <2>2, <2>3, <2>4, <2>5, <2>6, <2>7 DEF D!Next
<1> QED BY <1>1, <1>2, PTL DEF D!Spec

(***************************************************************************)
(* Who fails over alone is given up only when every target failed; and two *)
(* exchanges of a key go to different targets only if enough other keys    *)
(* came between them.  For any targets, weights, keys and memory.          *)
(***************************************************************************)
THEOREM DispatchIsOrderly ==
  ASSUME D!ConstantsOK
  PROVE  D!Spec => [](D!AloneTriesAll /\ D!KeysStick)
<1>1. DispatchInv => D!AloneTriesAll BY DEF DispatchInv, FailoverOK, D!AloneTriesAll
<1>2. DispatchInv => D!KeysStick
  <2> SUFFICES ASSUME DispatchInv, strategy = "sticky",
                      NEW i \in 1..D!Arrived, NEW j \in 1..D!Arrived,
                      i < j, key[i] = key[j], tried[i] # tried[j]
               PROVE  D!Cardinality({key[m] : m \in i+1..j-1} \ {key[i]}) >= MaxSticky
    BY DEF D!KeysStick
  <2>1. StickyOK(sticky, key, tried) /\ Len(key) = Len(tried) BY DEF DispatchInv, StickyOK, StickyTypes
  <2>2. Cardinality(Others(key, i, j)) >= MaxSticky BY <2>1 DEF StickyOK, Stick, D!Arrived
  <2> QED BY <2>2, SameSets DEF Others
<1> QED BY <1>1, <1>2, DispatchKeepsOrder, PTL

-----------------------------------------------------------------------------
(***************************************************************************)
(* What a sum over a finite set is: the provers know neither folds nor     *)
(* recursion, so that there is a function which adds up the subsets one    *)
(* element at a time has to be shown, by induction over their sizes.       *)
(***************************************************************************)
AddsUp(g, w, P) ==
  \A s \in P : g[s] = IF s = {} THEN 0
                      ELSE w[CHOOSE x \in s : TRUE] + g[s \ {CHOOSE x \in s : TRUE}]

(***************************************************************************)
(* A set is larger by one than without the element that is taken first.    *)
(***************************************************************************)
LEMMA OneLess ==
  ASSUME NEW A, IsFiniteSet(A), NEW s \in SUBSET A, s # {}
  PROVE  LET x == CHOOSE y \in s : TRUE IN
         /\ x \in s /\ s \ {x} \in SUBSET A /\ IsFiniteSet(s)
         /\ Cardinality(s) \in Nat \ {0} /\ Cardinality(s \ {x}) = Cardinality(s) - 1
<1> DEFINE x == CHOOSE y \in s : TRUE
<1>1. x \in s OBVIOUS
<1> HIDE DEF x
<1>2. IsFiniteSet(s) BY FS_Subset
<1>3. IsFiniteSet(s \ {x}) /\ Cardinality(s \ {x}) = Cardinality(s) - 1
  BY <1>1, <1>2, FS_RemoveElement
<1>4. Cardinality(s) \in Nat /\ Cardinality(s \ {x}) \in Nat BY <1>2, <1>3, FS_CardinalityType
<1>5. Cardinality(s) # 0 BY <1>3, <1>4
<1> QED BY <1>1, <1>2, <1>3, <1>4, <1>5 DEF x

(***************************************************************************)
(* Some function adds up.                                                  *)
(***************************************************************************)
LEMMA SomethingAddsUp ==
  ASSUME NEW A, IsFiniteSet(A), NEW w \in [A -> Nat]
  PROVE  \E g \in [SUBSET A -> Nat] : AddsUp(g, w, SUBSET A)
<1> DEFINE Small(n) == {s \in SUBSET A : Cardinality(s) <= n}
           Has(n) == \E g \in [Small(n) -> Nat] : AddsUp(g, w, Small(n))
           W == {n \in Nat : ~Has(n)}
<1>1. \A s \in SUBSET A : IsFiniteSet(s) /\ Cardinality(s) \in Nat
  BY FS_Subset, FS_CardinalityType
<1>2. Has(0)
  <2>1. \A s \in Small(0) : s = {}
    <3>1. \A s \in SUBSET A : s # {} => Cardinality(s) # 0 BY OneLess
    <3> QED BY <1>1, <3>1
  <2>2. [s \in Small(0) |-> 0] \in [Small(0) -> Nat] OBVIOUS
  <2>3. AddsUp([s \in Small(0) |-> 0], w, Small(0)) BY <2>1 DEF AddsUp
  <2> QED BY <2>2, <2>3
<1>3. ASSUME NEW n \in Nat, Has(n) PROVE Has(n + 1)
  <2>1. PICK g \in [Small(n) -> Nat] : AddsUp(g, w, Small(n)) BY <1>3
  <2> DEFINE c(s) == CHOOSE x \in s : TRUE
             h == [s \in Small(n + 1) |-> IF s = {} THEN 0 ELSE w[c(s)] + g[s \ {c(s)}]]
  <2>2. ASSUME NEW s \in Small(n + 1), s # {} PROVE c(s) \in A /\ s \ {c(s)} \in Small(n)
    <3>1. s \in SUBSET A /\ Cardinality(s) <= n + 1 OBVIOUS
    <3>2. c(s) \in s /\ s \ {c(s)} \in SUBSET A /\ Cardinality(s \ {c(s)}) = Cardinality(s) - 1
      BY <2>2, <3>1, OneLess
    <3>3. Cardinality(s) \in Nat BY <1>1, <3>1
    <3> QED BY <3>1, <3>2, <3>3
  <2>3. ASSUME NEW s \in Small(n + 1) PROVE h[s] \in Nat
    <3>1. CASE s = {} BY <3>1
    <3>2. CASE s # {}
      <4>1. w[c(s)] \in Nat /\ g[s \ {c(s)}] \in Nat BY <2>2, <3>2
      <4> QED BY <3>2, <4>1
    <3> QED BY <3>1, <3>2
  <2>4. h \in [Small(n + 1) -> Nat] BY <2>3
  <2>5. ASSUME NEW s \in Small(n) PROVE s \in Small(n + 1) /\ h[s] = g[s]
    <3>1. s \in Small(n + 1) BY <1>1
    <3>2. h[s] = IF s = {} THEN 0 ELSE w[c(s)] + g[s \ {c(s)}] BY <3>1
    <3> QED BY <2>1, <3>1, <3>2 DEF AddsUp
  <2>6. AddsUp(h, w, Small(n + 1))
    <3> SUFFICES ASSUME NEW s \in Small(n + 1)
                 PROVE  h[s] = IF s = {} THEN 0 ELSE w[c(s)] + h[s \ {c(s)}]
      BY DEF AddsUp
    <3>1. CASE s = {} BY <3>1
    <3>2. CASE s # {}
      <4>1. s \ {c(s)} \in Small(n) BY <2>2, <3>2
      <4>2. h[s \ {c(s)}] = g[s \ {c(s)}] BY <2>5, <4>1
      <4>3. h[s] = w[c(s)] + g[s \ {c(s)}] BY <3>2
      <4> QED BY <3>2, <4>2, <4>3
    <3> QED BY <3>1, <3>2
  <2> HIDE DEF h
  <2> QED BY <2>4, <2>6
<1> HIDE DEF Has
<1>4. W = {}
  <2> SUFFICES ASSUME W # {} PROVE FALSE OBVIOUS
  <2>1. W \subseteq Nat OBVIOUS
  <2>2. PICK n \in W : \A m \in W : n <= m BY <2>1, LeastNumber
  <2>3. n \in Nat /\ n # 0 BY <1>2, <2>2
  <2>4. n - 1 \in Nat /\ n - 1 \notin W BY <2>2, <2>3
  <2>5. Has(n - 1) BY <2>4
  <2>6. Has((n - 1) + 1) BY <1>3, <2>4, <2>5
  <2> QED BY <2>2, <2>3, <2>6
<1>5. Has(Cardinality(A)) BY <1>1, <1>4
<1>6. Small(Cardinality(A)) = SUBSET A
  <2>1. \A s \in SUBSET A : Cardinality(s) <= Cardinality(A) BY FS_Subset
  <2> QED BY <2>1
<1> QED BY <1>5, <1>6 DEF Has

(***************************************************************************)
(* The weights add up to a number.                                         *)
(***************************************************************************)
LEMMA TotalAddsUp ==
  ASSUME NEW w \in [D!Targets -> Nat], weight = w, IsFiniteSet(D!Targets)
  PROVE  \E g : /\ g = [s \in SUBSET D!Targets |->
                         IF s = {} THEN 0
                         ELSE w[CHOOSE x \in s : TRUE] + g[s \ {CHOOSE x \in s : TRUE}]]
                /\ D!Total = g[D!Targets]
<1> DEFINE f(g) == [s \in SUBSET D!Targets |->
                     IF s = {} THEN 0
                     ELSE w[CHOOSE x \in s : TRUE] + g[s \ {CHOOSE x \in s : TRUE}]]
<1>1. PICK g \in [SUBSET D!Targets -> Nat] : AddsUp(g, w, SUBSET D!Targets)
  BY SomethingAddsUp
<1>2. g = f(g) BY <1>1 DEF AddsUp
<1>3. LET h == CHOOSE h : h = f(h) IN h = f(h) BY <1>2
<1>4. D!Total = (CHOOSE h : h = f(h))[D!Targets]
  BY DEF D!Total, D!MapThenSumSet, D!MapThenFoldSet
<1> QED BY <1>3, <1>4

(***************************************************************************)
(* What adds up numbers is a number.                                       *)
(***************************************************************************)
LEMMA SumsAreNumbers ==
  ASSUME NEW A, IsFiniteSet(A), NEW w \in [A -> Nat], NEW g, AddsUp(g, w, SUBSET A)
  PROVE  \A s \in SUBSET A : g[s] \in Nat
<1> DEFINE Has(n) == \A s \in SUBSET A : Cardinality(s) = n => g[s] \in Nat
           W == {n \in Nat : ~Has(n)}
<1>1. \A s \in SUBSET A : IsFiniteSet(s) /\ Cardinality(s) \in Nat
  BY FS_Subset, FS_CardinalityType
<1>2. ASSUME NEW n \in Nat, \A m \in Nat : m < n => Has(m) PROVE Has(n)
  <2> SUFFICES ASSUME NEW s \in SUBSET A, Cardinality(s) = n PROVE g[s] \in Nat
    OBVIOUS
  <2>1. CASE s = {} BY <2>1 DEF AddsUp
  <2>2. CASE s # {}
    <3> DEFINE x == CHOOSE y \in s : TRUE
    <3>1. /\ x \in s /\ s \ {x} \in SUBSET A
          /\ Cardinality(s \ {x}) = n - 1 /\ n # 0
      BY <2>2, OneLess
    <3>2. n - 1 \in Nat /\ n - 1 < n BY <3>1
    <3>3. g[s \ {x}] \in Nat BY <1>2, <3>1, <3>2
    <3>4. w[x] \in Nat BY <3>1
    <3>5. g[s] = w[x] + g[s \ {x}] BY <2>2 DEF AddsUp
    <3> QED BY <3>3, <3>4, <3>5
  <2> QED BY <2>1, <2>2
<1> HIDE DEF Has
<1>3. W = {}
  <2> SUFFICES ASSUME W # {} PROVE FALSE OBVIOUS
  <2>1. W \subseteq Nat OBVIOUS
  <2>2. PICK n \in W : \A m \in W : n <= m BY <2>1, LeastNumber
  <2>3. ASSUME NEW m \in Nat, m < n PROVE Has(m) BY <2>1, <2>2, <2>3
  <2> QED BY <1>2, <2>2, <2>3
<1> QED BY <1>1, <1>3 DEF Has

(***************************************************************************)
(* The total of the weights is a function of the targets that adds up.     *)
(***************************************************************************)
LEMMA TotalIsASum ==
  ASSUME D!ConstantsOK, DispatchTypes
  PROVE  \E g : AddsUp(g, weight, SUBSET D!Targets) /\ D!Total = g[D!Targets]
<1>1. IsFiniteSet(D!Targets)
  <2>1. 0 \in Int /\ TargetCount - 1 \in Int BY DEF D!ConstantsOK
  <2> QED BY <2>1, FS_Interval DEF D!Targets
<1>2. weight \in [D!Targets -> Nat]
  BY DEF DispatchTypes, D!ConstantsOK
<1> DEFINE w == weight
<1>3. w \in [D!Targets -> Nat] /\ weight = w BY <1>2
<1> HIDE DEF w
<1>4. PICK g : /\ g = [s \in SUBSET D!Targets |->
                        IF s = {} THEN 0
                        ELSE w[CHOOSE x \in s : TRUE] + g[s \ {CHOOSE x \in s : TRUE}]]
               /\ D!Total = g[D!Targets]
  BY <1>1, <1>3, TotalAddsUp
<1>5. AddsUp(g, weight, SUBSET D!Targets) BY <1>3, <1>4 DEF AddsUp
<1> QED BY <1>4, <1>5

(***************************************************************************)
(* Sums over the elements of a finite set A.                               *)
(***************************************************************************)
IsSum(n, w, A) == \E g \in [SUBSET A -> Int] : AddsUp(g, w, SUBSET A) /\ n = g[A]

(***************************************************************************)
(* Nothings add up to nothing.                                             *)
(***************************************************************************)
LEMMA SumOfZeros ==
  ASSUME NEW A, IsFiniteSet(A), NEW w, w = [t \in A |-> 0]
  PROVE  IsSum(0, w, A)
<1> DEFINE g == [s \in SUBSET A |-> 0]
<1>1. g \in [SUBSET A -> Int] /\ g[A] = 0 OBVIOUS
<1>2. AddsUp(g, w, SUBSET A)
  <2> SUFFICES ASSUME NEW s \in SUBSET A, s # {}
               PROVE  g[s] = w[CHOOSE x \in s : TRUE] + g[s \ {CHOOSE x \in s : TRUE}]
    BY DEF AddsUp
  <2> DEFINE x == CHOOSE y \in s : TRUE
  <2>1. x \in A /\ s \ {x} \in SUBSET A BY OneLess
  <2> HIDE DEF x
  <2>2. g[s] = w[x] + g[s \ {x}] BY <2>1
  <2> QED BY <2>2 DEF x
<1> QED BY <1>1, <1>2 DEF IsSum

(***************************************************************************)
(* Ones add up to the size of the set.                                     *)
(***************************************************************************)
LEMMA SumOfOnes ==
  ASSUME NEW A, IsFiniteSet(A), NEW w, w = [t \in A |-> 1]
  PROVE  IsSum(Cardinality(A), w, A)
<1> DEFINE g == [s \in SUBSET A |-> Cardinality(s)]
<1>1. g \in [SUBSET A -> Int] /\ g[A] = Cardinality(A)
  BY FS_Subset, FS_CardinalityType
<1>2. AddsUp(g, w, SUBSET A)
  <2>1. g[{}] = 0 BY FS_EmptySet
  <2> SUFFICES ASSUME NEW s \in SUBSET A, s # {}
               PROVE  g[s] = w[CHOOSE x \in s : TRUE] + g[s \ {CHOOSE x \in s : TRUE}]
    BY <2>1 DEF AddsUp
  <2> DEFINE x == CHOOSE y \in s : TRUE
  <2>2. /\ x \in A /\ s \ {x} \in SUBSET A
        /\ Cardinality(s) \in Nat /\ Cardinality(s \ {x}) = Cardinality(s) - 1
    BY OneLess
  <2> HIDE DEF x
  <2>3. g[s] = w[x] + g[s \ {x}] BY <2>2
  <2> QED BY <2>3 DEF x
<1> QED BY <1>1, <1>2 DEF IsSum

(***************************************************************************)
(* Two sums make the sum of both.                                          *)
(***************************************************************************)
LEMMA SumOfBoth ==
  ASSUME NEW A, IsFiniteSet(A), NEW w \in [A -> Int], NEW v \in [A -> Int],
         NEW m, NEW n, IsSum(m, w, A), IsSum(n, v, A),
         NEW u, u = [t \in A |-> w[t] + v[t]]
  PROVE  IsSum(m + n, u, A) /\ m \in Int /\ n \in Int
<1>1. PICK g \in [SUBSET A -> Int] : AddsUp(g, w, SUBSET A) /\ m = g[A] BY DEF IsSum
<1>2. PICK h \in [SUBSET A -> Int] : AddsUp(h, v, SUBSET A) /\ n = h[A] BY DEF IsSum
<1> DEFINE f == [s \in SUBSET A |-> g[s] + h[s]]
<1>3. f \in [SUBSET A -> Int] /\ f[A] = m + n BY <1>1, <1>2
<1>4. AddsUp(f, u, SUBSET A)
  <2>1. f[{}] = 0
    <3>1. g[{}] = 0 /\ h[{}] = 0 BY <1>1, <1>2 DEF AddsUp
    <3> QED BY <3>1
  <2> SUFFICES ASSUME NEW s \in SUBSET A, s # {}
               PROVE  f[s] = u[CHOOSE x \in s : TRUE] + f[s \ {CHOOSE x \in s : TRUE}]
    BY <2>1 DEF AddsUp
  <2> DEFINE x == CHOOSE y \in s : TRUE
  <2>2. x \in A /\ s \ {x} \in SUBSET A BY OneLess
  <2>3. g[s] = w[x] + g[s \ {x}] BY <1>1 DEF AddsUp
  <2>4. h[s] = v[x] + h[s \ {x}] BY <1>2 DEF AddsUp
  <2> HIDE DEF x
  <2>5. /\ g[s \ {x}] \in Int /\ h[s \ {x}] \in Int /\ w[x] \in Int /\ v[x] \in Int
        /\ u[x] = w[x] + v[x] /\ f[s] = g[s] + h[s] /\ f[s \ {x}] = g[s \ {x}] + h[s \ {x}]
    BY <2>2
  <2> HIDE DEF f
  <2>6. f[s] = u[x] + f[s \ {x}] BY <2>3, <2>4, <2>5
  <2> QED BY <2>6 DEF x
<1>5. IsSum(m + n, u, A) BY <1>3, <1>4 DEF IsSum
<1> QED BY <1>1, <1>2, <1>5

(***************************************************************************)
(* What one of them is less by, the sum is less by.                        *)
(***************************************************************************)
LEMMA SumIsLess ==
  ASSUME NEW A, IsFiniteSet(A), NEW w \in [A -> Int], NEW n, IsSum(n, w, A),
         NEW t \in A, NEW d \in Int, NEW v, v = [w EXCEPT ![t] = w[t] - d]
  PROVE  IsSum(n - d, v, A) /\ v \in [A -> Int] /\ n \in Int
<1>1. PICK g \in [SUBSET A -> Int] : AddsUp(g, w, SUBSET A) /\ n = g[A] BY DEF IsSum
<1> DEFINE f == [s \in SUBSET A |-> IF t \in s THEN g[s] - d ELSE g[s]]
<1>2. f \in [SUBSET A -> Int]
  <2>1. ASSUME NEW s \in SUBSET A PROVE g[s] \in Int /\ g[s] - d \in Int
    <3>1. g[s] \in Int OBVIOUS
    <3> QED BY <3>1
  <2> QED BY <2>1
<1>3. f[A] = n - d BY <1>1
<1>4. AddsUp(f, v, SUBSET A)
  <2>1. f[{}] = 0 BY <1>1 DEF AddsUp
  <2> SUFFICES ASSUME NEW s \in SUBSET A, s # {}
               PROVE  f[s] = v[CHOOSE x \in s : TRUE] + f[s \ {CHOOSE x \in s : TRUE}]
    BY <2>1 DEF AddsUp
  <2> DEFINE x == CHOOSE y \in s : TRUE
  <2>2. x \in s /\ x \in A /\ s \ {x} \in SUBSET A BY OneLess
  <2>3. g[s] = w[x] + g[s \ {x}] BY <1>1 DEF AddsUp
  <2> HIDE DEF x
  <2>4. g[s \ {x}] \in Int /\ w[x] \in Int BY <2>2
  <2>5. f[s] = v[x] + f[s \ {x}]
    <3>1. CASE x = t
      <4>1. v[x] = w[x] - d /\ f[s] = g[s] - d /\ f[s \ {x}] = g[s \ {x}] BY <2>2, <3>1
      <4> HIDE DEF f
      <4> QED BY <2>3, <2>4, <4>1
    <3>2. CASE x # t
      <4>1. v[x] = w[x] BY <2>2, <3>2
      <4>2. t \in s <=> t \in s \ {x} BY <3>2
      <4>3. /\ f[s] = IF t \in s THEN g[s] - d ELSE g[s]
            /\ f[s \ {x}] = IF t \in s \ {x} THEN g[s \ {x}] - d ELSE g[s \ {x}]
        BY <2>2
      <4> HIDE DEF f
      <4> QED BY <2>3, <2>4, <4>1, <4>2, <4>3
    <3> QED BY <3>1, <3>2
  <2> QED BY <2>5 DEF x
<1>5. IsSum(n - d, v, A) BY <1>2, <1>3, <1>4 DEF IsSum
<1> QED BY <1>1, <1>5

(***************************************************************************)
(* A sum of numbers is no less than any of them.                           *)
(***************************************************************************)
LEMMA SumOfNumbers ==
  ASSUME NEW A, IsFiniteSet(A), NEW w \in [A -> Nat], NEW n, IsSum(n, w, A)
  PROVE  n \in Nat /\ \A t \in A : w[t] <= n
<1>1. ASSUME NEW v \in [A -> Nat], NEW m, IsSum(m, v, A) PROVE m \in Nat
  <2>1. PICK g \in [SUBSET A -> Int] : AddsUp(g, v, SUBSET A) /\ m = g[A] BY <1>1 DEF IsSum
  <2> QED BY <2>1, SumsAreNumbers
<1>2. n \in Nat BY <1>1
<1>3. ASSUME NEW t \in A PROVE w[t] <= n
  <2> DEFINE v == [w EXCEPT ![t] = w[t] - w[t]]
  <2>1. w[t] \in Nat /\ w[t] \in Int /\ w \in [A -> Int] /\ w[t] - w[t] = 0 OBVIOUS
  <2>2. IsSum(n - w[t], v, A) BY <2>1, SumIsLess
  <2>3. v \in [A -> Nat] BY <2>1
  <2>4. n - w[t] \in Nat BY <1>1, <2>2, <2>3
  <2> QED BY <1>2, <2>1, <2>4
<1> QED BY <1>2, <1>3

(***************************************************************************)
(* Numbers below nothing do not add up to more, and a sum is one number.   *)
(***************************************************************************)
LEMMA SumOfNegatives ==
  ASSUME NEW A, IsFiniteSet(A), NEW w \in [A -> Int], NEW n, IsSum(n, w, A),
         \A t \in A : w[t] <= 0
  PROVE  n \in Int /\ n <= 0
<1>1. PICK g \in [SUBSET A -> Int] : AddsUp(g, w, SUBSET A) /\ n = g[A] BY DEF IsSum
<1> DEFINE v == [t \in A |-> -w[t]]
           f == [s \in SUBSET A |-> -g[s]]
<1>2. v \in [A -> Nat]
  <2>1. ASSUME NEW t \in A PROVE -w[t] \in Nat
    <3>1. w[t] \in Int /\ w[t] <= 0 OBVIOUS
    <3> QED BY <3>1
  <2> QED BY <2>1
<1>3. f \in [SUBSET A -> Int] /\ f[A] = -n BY <1>1
<1>4. AddsUp(f, v, SUBSET A)
  <2>1. f[{}] = 0
    <3>1. g[{}] = 0 BY <1>1 DEF AddsUp
    <3> QED BY <3>1
  <2> SUFFICES ASSUME NEW s \in SUBSET A, s # {}
               PROVE  f[s] = v[CHOOSE x \in s : TRUE] + f[s \ {CHOOSE x \in s : TRUE}]
    BY <2>1 DEF AddsUp
  <2> DEFINE x == CHOOSE y \in s : TRUE
  <2>2. x \in A /\ s \ {x} \in SUBSET A BY OneLess
  <2>3. g[s] = w[x] + g[s \ {x}] BY <1>1 DEF AddsUp
  <2> HIDE DEF x
  <2>4. /\ g[s \ {x}] \in Int /\ w[x] \in Int /\ v[x] = -w[x]
        /\ f[s] = -g[s] /\ f[s \ {x}] = -g[s \ {x}]
    BY <2>2
  <2> HIDE DEF f
  <2>5. f[s] = v[x] + f[s \ {x}] BY <2>3, <2>4
  <2> QED BY <2>5 DEF x
<1>5. IsSum(-n, v, A) BY <1>3, <1>4 DEF IsSum
<1>6. -n \in Nat /\ n \in Int BY <1>1, <1>2, <1>5, SumOfNumbers
<1> QED BY <1>6

(***************************************************************************)
(* A sum in which only one counts.                                         *)
(***************************************************************************)
LEMMA SumOfOne ==
  ASSUME NEW A, IsFiniteSet(A), NEW w \in [A -> Int], NEW n, IsSum(n, w, A),
         NEW u \in A, \A t \in A \ {u} : w[t] = 0
  PROVE  n = w[u]
<1> DEFINE v == [w EXCEPT ![u] = w[u] - w[u]]
<1>1. w[u] \in Int /\ w[u] - w[u] = 0 OBVIOUS
<1>2. IsSum(n - w[u], v, A) BY <1>1, SumIsLess
<1>2a. v \in [A -> Int] BY <1>1
<1>2b. n \in Int BY <1>1, SumIsLess
<1>3. \A t \in A : v[t] = 0 BY <1>1
<1>4. v \in [A -> Nat] /\ \A t \in A : v[t] <= 0 BY <1>2a, <1>3
<1>5. n - w[u] \in Nat BY <1>2, <1>4, SumOfNumbers
<1>6. n - w[u] <= 0 BY <1>2, <1>2a, <1>4, SumOfNegatives
<1> QED BY <1>1, <1>2b, <1>5, <1>6

(***************************************************************************)
(* There is one sum.                                                       *)
(***************************************************************************)
LEMMA SumIsUnique ==
  ASSUME NEW A, IsFiniteSet(A), NEW w, NEW m, NEW n, IsSum(m, w, A), IsSum(n, w, A)
  PROVE  m = n
<1>1. PICK g \in [SUBSET A -> Int] : AddsUp(g, w, SUBSET A) /\ m = g[A] BY DEF IsSum
<1>2. PICK h \in [SUBSET A -> Int] : AddsUp(h, w, SUBSET A) /\ n = h[A] BY DEF IsSum
<1> DEFINE Has(k) == \A s \in SUBSET A : Cardinality(s) = k => g[s] = h[s]
           W == {k \in Nat : ~Has(k)}
<1>3. ASSUME NEW k \in Nat, \A j \in Nat : j < k => Has(j) PROVE Has(k)
  <2> SUFFICES ASSUME NEW s \in SUBSET A, Cardinality(s) = k PROVE g[s] = h[s]
    OBVIOUS
  <2>1. CASE s = {} BY <1>1, <1>2, <2>1 DEF AddsUp
  <2>2. CASE s # {}
    <3> DEFINE x == CHOOSE y \in s : TRUE
    <3>1. s \ {x} \in SUBSET A /\ Cardinality(s \ {x}) = k - 1 /\ k # 0 BY <2>2, OneLess
    <3>2. k - 1 \in Nat /\ k - 1 < k BY <3>1
    <3>3. g[s \ {x}] = h[s \ {x}] BY <1>3, <3>1, <3>2
    <3>4. g[s] = w[x] + g[s \ {x}] BY <1>1, <2>2 DEF AddsUp
    <3>5. h[s] = w[x] + h[s \ {x}] BY <1>2, <2>2 DEF AddsUp
    <3> QED BY <3>3, <3>4, <3>5
  <2> QED BY <2>1, <2>2
<1> HIDE DEF Has
<1>4. W = {}
  <2> SUFFICES ASSUME W # {} PROVE FALSE OBVIOUS
  <2>1. W \subseteq Nat OBVIOUS
  <2>2. PICK k \in W : \A j \in W : k <= j BY <2>1, LeastNumber
  <2>3. ASSUME NEW j \in Nat, j < k PROVE Has(j) BY <2>1, <2>2, <2>3
  <2> QED BY <1>3, <2>2, <2>3
<1>5. Has(Cardinality(A)) BY <1>4, FS_CardinalityType
<1> QED BY <1>1, <1>2, <1>5 DEF Has

-----------------------------------------------------------------------------
(***************************************************************************)
(* How many exchanges a target got.                                        *)
(***************************************************************************)
Got(t, ts) == Cardinality({e \in 1..Len(ts) : ts[e] = <<t>>})

(***************************************************************************)
(* One more for the target of a new exchange.                              *)
(***************************************************************************)
LEMMA SharesGrow ==
  ASSUME NEW ts \in Seq(Seq(D!Targets)), NEW t, NEW u \in D!Targets
  PROVE  /\ Got(t, ts) \in Nat
         /\ t = u => Got(t, Append(ts, <<u>>)) = Got(t, ts) + 1
         /\ t # u => Got(t, Append(ts, <<u>>)) = Got(t, ts)
<1> DEFINE vs == Append(ts, <<u>>)
           A == {e \in 1..Len(ts) : ts[e] = <<t>>}
           B == {e \in 1..Len(vs) : vs[e] = <<t>>}
<1>1. IsFiniteSet(A) /\ Cardinality(A) \in Nat
  <2>1. IsFiniteSet(1..Len(ts)) BY FS_Interval
  <2> QED BY <2>1, FS_Subset, FS_CardinalityType
<1>2. /\ Len(ts) \in Nat /\ Len(vs) = Len(ts) + 1 /\ vs[Len(ts) + 1] = <<u>>
      /\ \A e \in 1..Len(ts) : vs[e] = ts[e]
  <2>1. <<u>> \in Seq(D!Targets) OBVIOUS
  <2> QED BY <2>1
<1> HIDE DEF vs
<1>3. \A e : e \in 1..Len(vs) <=> e \in 1..Len(ts) \/ e = Len(ts) + 1 BY <1>2
<1>4. Got(t, ts) = Cardinality(A) /\ Got(t, vs) = Cardinality(B) BY DEF Got
<1>5. ASSUME t = u PROVE Cardinality(B) = Cardinality(A) + 1
  <2>1. vs[Len(ts) + 1] = <<t>> BY <1>2, <1>5
  <2>2. B = A \union {Len(ts) + 1} BY <1>2, <1>3, <2>1
  <2>3. Len(ts) + 1 \notin A BY <1>2
  <2> QED BY <1>1, <2>2, <2>3, FS_AddElement
<1>6. ASSUME t # u PROVE B = A
  <2>1. vs[Len(ts) + 1] # <<t>> BY <1>2, <1>6
  <2> QED BY <1>2, <1>3, <2>1
<1> HIDE DEF A, B
<1> QED BY <1>1, <1>4, <1>5, <1>6 DEF vs

(***************************************************************************)
(* The weights: the total is their sum, and no target weighs nothing.      *)
(***************************************************************************)
LEMMA TotalIsTheSum ==
  ASSUME D!ConstantsOK, DispatchTypes
  PROVE  /\ IsFiniteSet(D!Targets) /\ 0 \in D!Targets /\ TargetCount \in Nat \ {0}
         /\ weight \in [D!Targets -> Nat \ {0}]
         /\ IsSum(D!Total, weight, D!Targets)
         /\ D!Total \in Nat \ {0} /\ \A t \in D!Targets : weight[t] <= D!Total
<1>1. IsFiniteSet(D!Targets) /\ 0 \in D!Targets /\ TargetCount \in Nat \ {0}
  <2>1. 0 \in Int /\ TargetCount - 1 \in Int BY DEF D!ConstantsOK
  <2> QED BY <2>1, FS_Interval DEF D!Targets, D!ConstantsOK
<1>2. weight \in [D!Targets -> Nat \ {0}] BY DEF DispatchTypes, D!ConstantsOK
<1>3. weight \in [D!Targets -> Nat] BY <1>2
<1>4. PICK g : AddsUp(g, weight, SUBSET D!Targets) /\ D!Total = g[D!Targets] BY TotalIsASum
<1> DEFINE h == [s \in SUBSET D!Targets |-> g[s]]
<1>5. h \in [SUBSET D!Targets -> Int] /\ D!Total = h[D!Targets]
  <2>1. \A s \in SUBSET D!Targets : g[s] \in Nat BY <1>1, <1>3, <1>4, SumsAreNumbers
  <2> QED BY <1>4, <2>1
<1>6. AddsUp(h, weight, SUBSET D!Targets)
  <2>1. h[{}] = 0 BY <1>4 DEF AddsUp
  <2> SUFFICES ASSUME NEW s \in SUBSET D!Targets, s # {}
               PROVE  h[s] = weight[CHOOSE x \in s : TRUE] + h[s \ {CHOOSE x \in s : TRUE}]
    BY <2>1 DEF AddsUp
  <2>2. h[s] = g[s] /\ h[s \ {CHOOSE x \in s : TRUE}] = g[s \ {CHOOSE x \in s : TRUE}] OBVIOUS
  <2> QED BY <1>4, <2>2 DEF AddsUp
<1>7. IsSum(D!Total, weight, D!Targets) BY <1>5, <1>6 DEF IsSum
<1>8. D!Total \in Nat /\ \A t \in D!Targets : weight[t] <= D!Total
  BY <1>1, <1>3, <1>7, SumOfNumbers
<1>9. weight[0] \in Nat \ {0} /\ weight[0] <= D!Total BY <1>1, <1>2, <1>8
<1>10. D!Total # 0 BY <1>8, <1>9
<1> QED BY <1>1, <1>2, <1>7, <1>8, <1>10

(***************************************************************************)
(* Of the weights: what a strategy keeps, in the running weights or in the *)
(* cursor, is what each target is owed.                                    *)
(***************************************************************************)
Owed(t) == Len(tried) * weight[t] - Got(t, tried) * D!Total

RunningOK(cw) ==
  /\ IsSum(0, cw, D!Targets)
  /\ \A t \in D!Targets : -D!Total < cw[t] /\ (TargetCount <= 3 => cw[t] < D!Total)

WeightInv ==
  /\ strategy = "weighted" \/ weight = [t \in D!Targets |-> 1]
  /\ currentWeights \in [D!Targets -> Int]
  /\ strategy = "weighted" =>
       RunningOK(currentWeights) /\ \A t \in D!Targets : Owed(t) = currentWeights[t]
  /\ strategy = "round-robin" =>
       \A t \in D!Targets : Owed(t) = IF t < rrCursor THEN rrCursor - TargetCount ELSE rrCursor

(***************************************************************************)
(* Among three there is at most one beside two.                            *)
(***************************************************************************)
LEMMA ThirdOne ==
  ASSUME TargetCount \in Nat \ {0}, TargetCount <= 3, NEW b \in D!Targets, NEW t \in D!Targets, b # t
  PROVE  \E u \in D!Targets : \A x \in D!Targets : x = b \/ x = t \/ x = u
<1>1. TargetCount \in {1, 2, 3} OBVIOUS
<1> QED BY <1>1 DEF D!Targets

(***************************************************************************)
(* The one with most pays for all: this keeps the running weights within   *)
(* the total.                                                              *)
(***************************************************************************)
LEMMA PayingKeepsRunning ==
  ASSUME D!ConstantsOK, DispatchTypes, WeightInv, RunningOK(currentWeights),
         NEW b \in D!Targets, D!IsBest(b)
  PROVE  D!Pays(b) \in [D!Targets -> Int] /\ RunningOK(D!Pays(b))
<1> DEFINE K == D!Total
           A == D!Targets
           G == D!Gained
           P == D!Pays(b)
<1>1. /\ IsFiniteSet(A) /\ 0 \in A /\ TargetCount \in Nat \ {0} /\ weight \in [A -> Nat \ {0}]
      /\ IsSum(K, weight, A) /\ K \in Nat \ {0} /\ \A t \in A : weight[t] <= K
  BY TotalIsTheSum
<1>2. currentWeights \in [A -> Int] /\ weight \in [A -> Int] BY <1>1 DEF WeightInv
<1>3. G = [t \in A |-> currentWeights[t] + weight[t]] /\ G \in [A -> Int] BY <1>2 DEF D!Gained
<1>4. IsSum(0 + K, G, A)
  <2>1. IsSum(0, currentWeights, A) BY DEF RunningOK
  <2> QED BY <1>1, <1>2, <1>3, <2>1, SumOfBoth
<1>5. 0 + K = K /\ K \in Int BY <1>1
<1>6. P = [G EXCEPT ![b] = G[b] - K] BY DEF D!Pays
<1> HIDE DEF P, G, K, A
<1>7. IsSum(K - K, P, A) /\ P \in [A -> Int]
  <2>1. b \in A /\ IsSum(K, G, A) BY <1>4, <1>5 DEF A
  <2>2. IsSum(K - K, P, A) BY <1>1, <1>3, <1>5, <1>6, <2>1, SumIsLess
  <2>3. G[b] - K \in Int BY <1>3, <1>5, <2>1
  <2>4. P \in [A -> Int] BY <1>3, <1>6, <2>1, <2>3
  <2> QED BY <2>2, <2>4
<1>8. K - K = 0 BY <1>5
<1>9. \A t \in A : G[t] <= G[b]
  <2>1. \A t \in A : G[t] < G[b] \/ (G[t] = G[b] /\ b <= t) BY DEF D!IsBest, A, G
  <2>2. \A t \in A : G[t] \in Int BY <1>3
  <2> QED BY <2>1, <2>2 DEF A
<1>10. G[b] > 0
  <2> SUFFICES ASSUME ~(G[b] > 0) PROVE FALSE OBVIOUS
  <2>1. G[b] \in Int BY <1>3 DEF A
  <2>2. \A t \in A : G[t] \in Int /\ G[t] <= 0 BY <1>3, <1>9, <2>1
  <2>3. K <= 0 BY <1>1, <1>3, <1>4, <1>5, <2>2, SumOfNegatives
  <2> QED BY <1>1, <2>3
<1>11. ASSUME NEW t \in A
       PROVE  /\ P[t] = IF t = b THEN G[t] - K ELSE G[t]
              /\ G[t] = currentWeights[t] + weight[t]
              /\ G[t] \in Int /\ weight[t] \in Nat \ {0} /\ weight[t] <= K
              /\ currentWeights[t] \in Int /\ -K < currentWeights[t]
              /\ TargetCount <= 3 => currentWeights[t] < K
  BY <1>1, <1>2, <1>3, <1>6, <1>11 DEF RunningOK, A, K
<1>12. ASSUME NEW t \in A PROVE -K < P[t] /\ -K < G[t]
  <2>1. CASE t = b BY <1>1, <1>10, <1>11, <2>1
  <2>2. CASE t # b BY <1>1, <1>11, <2>2
  <2> QED BY <2>1, <2>2
<1>13. ASSUME NEW t \in A, TargetCount <= 3 PROVE P[t] < K
  <2>1. CASE t = b BY <1>1, <1>11, <1>13, <2>1
  <2>2. CASE t # b
    <3> SUFFICES ASSUME ~(G[t] < K) PROVE FALSE BY <1>11, <2>2
    <3>1. G[t] \in Int /\ G[b] \in Int /\ G[t] <= G[b] /\ b \in A BY <1>3, <1>9 DEF A
    <3>2. PICK u \in A : \A x \in A : x = b \/ x = t \/ x = u
      BY <1>1, <1>13, <2>2, ThirdOne DEF A
    <3> DEFINE Q == [P EXCEPT ![b] = P[b] - P[b]]
               R == [Q EXCEPT ![t] = Q[t] - Q[t]]
    <3>3. /\ IsSum(0 - P[b], Q, A) /\ Q \in [A -> Int]
      <4>1. P[b] \in Int BY <1>7, <3>1
      <4>2. Q \in [A -> Int]
        <5>1. P[b] - P[b] \in Int BY <4>1
        <5> QED BY <1>7, <3>1, <5>1
      <4> QED BY <1>1, <1>7, <1>8, <3>1, <4>1, <4>2, SumIsLess
    <3>4. Q[t] = G[t] /\ Q[b] = 0 /\ \A x \in A : x # b => Q[x] = P[x]
      <4>1. P[b] - P[b] = 0 BY <1>7, <3>1
      <4> QED BY <1>7, <1>11, <2>2, <3>1, <4>1
    <3> HIDE DEF Q
    <3>5. IsSum(0 - P[b] - Q[t], R, A) /\ R \in [A -> Int]
      <4>1. Q[t] \in Int BY <3>3
      <4>2. R \in [A -> Int] BY <3>3, <4>1
      <4> QED BY <1>1, <3>3, <4>1, <4>2, SumIsLess
    <3>6. R[t] = 0 /\ R[b] = 0 /\ \A x \in A : x # b /\ x # t => R[x] = P[x]
      <4>1. Q[t] - Q[t] = 0 BY <3>3
      <4> QED BY <2>2, <3>1, <3>3, <3>4, <4>1
    <3> HIDE DEF R
    <3>7. 0 - P[b] - Q[t] = R[u] BY <1>1, <3>2, <3>5, <3>6, SumOfOne
    <3>8. -K < R[u]
      <4>1. CASE u = b \/ u = t BY <1>1, <3>6, <4>1
      <4>2. CASE u # b /\ u # t BY <1>12, <3>6, <4>2
      <4> QED BY <4>1, <4>2
    <3>9. P[b] = G[b] - K /\ R[u] \in Int BY <1>11, <3>1, <3>5
    <3> QED BY <1>1, <3>1, <3>4, <3>7, <3>8, <3>9
  <2> QED BY <2>1, <2>2
<1> QED BY <1>7, <1>8, <1>12, <1>13 DEF RunningOK, P, K, A

(***************************************************************************)
(* One exchange more is one weight more for each, and one total less for   *)
(* the one that gets it.                                                   *)
(***************************************************************************)
LEMMA OwedMoves ==
  ASSUME D!ConstantsOK, DispatchTypes, NEW b \in D!Targets, D!Sends(D!NoKey, b), NEW t \in D!Targets
  PROVE  /\ Owed(t) \in Int /\ weight[t] \in Nat
         /\ Owed(t)' = Owed(t) + weight[t] - (IF t = b THEN D!Total ELSE 0)
<1>0. D!NoKey \in DispatchKeys BY DEF D!NoKey, D!ConstantsOK
<1>1. weight' = weight /\ tried' = Append(tried, <<b>>) /\ tried \in Seq(Seq(D!Targets))
  BY DEF D!Sends, DispatchTypes
<1>2. /\ Got(t, tried) \in Nat /\ Len(tried) \in Nat /\ Len(tried') = Len(tried) + 1
      /\ t = b => Got(t, tried') = Got(t, tried) + 1
      /\ t # b => Got(t, tried') = Got(t, tried)
  BY <1>1, SharesGrow
<1>3. weight[t] \in Nat /\ D!Total \in Nat BY TotalIsTheSum
<1>4. D!Total' = D!Total BY <1>1 DEF D!Total, D!MapThenSumSet, D!MapThenFoldSet
<1>5. ASSUME NEW n \in Nat, NEW w \in Nat, NEW g \in Nat, NEW k \in Nat
      PROVE  /\ n * w - g * k \in Int
             /\ (n + 1) * w - (g + 1) * k = (n * w - g * k) + w - k
             /\ (n + 1) * w - g * k = (n * w - g * k) + w - 0
  OBVIOUS
<1> DEFINE n == Len(tried)
           g == Got(t, tried)
           w == weight[t]
           k == D!Total
<1>6. Owed(t) = n * w - g * k BY DEF Owed
<1>7. /\ t = b => Owed(t)' = (n + 1) * w - (g + 1) * k
      /\ t # b => Owed(t)' = (n + 1) * w - g * k
  BY <1>1, <1>2, <1>4 DEF Owed
<1>8. n \in Nat /\ g \in Nat /\ w \in Nat /\ k \in Nat BY <1>2, <1>3
<1> HIDE DEF n, g, w, k
<1>9. CASE t = b BY <1>5, <1>6, <1>7, <1>8, <1>9 DEF w, k
<1>10. CASE t # b
  <2>1. n * w - g * k \in Int BY <1>5, <1>8
  <2>2. (n + 1) * w - g * k = (n * w - g * k) + w - 0
    <3>1. /\ n * w \in Int /\ g * k \in Int /\ (n + 1) * w \in Int /\ (n + 1) * w = n * w + w
      BY <1>8
    <3> QED BY <1>8, <3>1
  <2>3. Owed(t)' = Owed(t) + w - 0 BY <1>6, <1>7, <1>10, <2>2, Zenon
  <2>4. Owed(t) \in Int /\ w \in Nat BY <1>6, <1>8, <2>1
  <2> QED BY <1>10, <2>3, <2>4 DEF w
<1> QED BY <1>9, <1>10

(***************************************************************************)
(* Weighted dispatch.                                                      *)
(***************************************************************************)
LEMMA WeightedKeepsWeights ==
  ASSUME D!ConstantsOK, DispatchTypes, WeightInv, D!Weighted
  PROVE  WeightInv'
<1>1. PICK b \in D!Targets :
        D!IsBest(b) /\ D!Sends(D!NoKey, b) /\ currentWeights' = D!Pays(b)
  BY DEF D!Weighted
<1>2. strategy = "weighted" /\ strategy' = strategy /\ weight' = weight
  BY <1>1 DEF D!Weighted, D!Sends
<1>3. RunningOK(currentWeights) /\ \A t \in D!Targets : Owed(t) = currentWeights[t]
  BY <1>2 DEF WeightInv
<1>4. currentWeights' \in [D!Targets -> Int] /\ RunningOK(currentWeights')
  BY <1>1, <1>3, PayingKeepsRunning
<1>5. D!Total' = D!Total BY <1>2 DEF D!Total, D!MapThenSumSet, D!MapThenFoldSet
<1>6. RunningOK(currentWeights)' BY <1>4, <1>5 DEF RunningOK, IsSum
<1>7. ASSUME NEW t \in D!Targets PROVE Owed(t)' = currentWeights'[t]
  <2>1. /\ Owed(t) \in Int /\ weight[t] \in Nat
        /\ Owed(t)' = Owed(t) + weight[t] - (IF t = b THEN D!Total ELSE 0)
    BY <1>1, OwedMoves
  <2>2. D!Pays(b)[t] = IF t = b THEN currentWeights[t] + weight[t] - D!Total
                                ELSE currentWeights[t] + weight[t]
    <3> DEFINE G == D!Gained
               k == D!Total
    <3>1. G = [u \in D!Targets |-> currentWeights[u] + weight[u]] BY DEF D!Gained
    <3>2. D!Pays(b) = [G EXCEPT ![b] = G[b] - k] BY DEF D!Pays
    <3> HIDE DEF G, k
    <3>3. G[t] = currentWeights[t] + weight[t] BY <3>1
    <3>4. D!Pays(b)[t] = IF t = b THEN G[t] - k ELSE G[t] BY <3>1, <3>2
    <3>5. k \in Nat /\ weight[t] \in Nat /\ currentWeights[t] \in Int
      BY <2>1, TotalIsTheSum DEF k, WeightInv
    <3>6. D!Pays(b)[t] = IF t = b THEN currentWeights[t] + weight[t] - k
                                  ELSE currentWeights[t] + weight[t]
      BY <3>3, <3>4, <3>5
    <3> QED BY <3>6 DEF k
  <2> QED BY <1>1, <1>3, <2>1, <2>2
<1> QED BY <1>2, <1>4, <1>6, <1>7 DEF WeightInv

(***************************************************************************)
(* With weights of one the total is the number of targets.                 *)
(***************************************************************************)
LEMMA TotalOfOnes ==
  ASSUME D!ConstantsOK, DispatchTypes, weight = [t \in D!Targets |-> 1]
  PROVE  D!Total = TargetCount
<1>1. IsFiniteSet(D!Targets) /\ IsSum(D!Total, weight, D!Targets) /\ TargetCount \in Nat \ {0}
  BY TotalIsTheSum
<1>2. IsSum(Cardinality(D!Targets), weight, D!Targets) BY <1>1, SumOfOnes
<1>3. D!Total = Cardinality(D!Targets) BY <1>1, <1>2, SumIsUnique
<1>4. Cardinality(D!Targets) = TargetCount
  <2>1. 0 \in Int /\ TargetCount - 1 \in Int BY <1>1
  <2>2. Cardinality(0..TargetCount-1) = IF 0 > TargetCount - 1 THEN 0 ELSE (TargetCount - 1) - 0 + 1
    BY <2>1, FS_Interval
  <2> QED BY <1>1, <2>2 DEF D!Targets
<1> QED BY <1>3, <1>4

(***************************************************************************)
(* Round-robin: the cursor has passed whoever is ahead.                    *)
(***************************************************************************)
LEMMA TurnsKeepWeights ==
  ASSUME D!ConstantsOK, DispatchTypes, WeightInv, D!RoundRobin
  PROVE  WeightInv'
<1>1. /\ strategy = "round-robin" /\ D!Sends(D!NoKey, rrCursor)
      /\ rrCursor' = (rrCursor + 1) % TargetCount /\ currentWeights' = currentWeights
  BY DEF D!RoundRobin
<1>2. strategy' = strategy /\ weight' = weight BY <1>1 DEF D!Sends
<1>3. weight = [t \in D!Targets |-> 1] BY <1>1 DEF WeightInv
<1>4. D!Total = TargetCount BY <1>3, TotalOfOnes
<1>5. TargetCount \in Nat \ {0} /\ rrCursor \in D!Targets BY DEF D!ConstantsOK, DispatchTypes
<1>6. rrCursor \in Nat /\ rrCursor < TargetCount BY <1>5 DEF D!Targets
<1>7. rrCursor' = IF rrCursor + 1 = TargetCount THEN 0 ELSE rrCursor + 1
  <2>1. CASE rrCursor + 1 = TargetCount
    <3>1. TargetCount % TargetCount = 0 BY <1>5
    <3> QED BY <1>1, <2>1, <3>1
  <2>2. CASE rrCursor + 1 # TargetCount
    <3>1. rrCursor + 1 \in 0..TargetCount-1 BY <1>5, <1>6, <2>2
    <3>2. (rrCursor + 1) % TargetCount = rrCursor + 1 BY <1>5, <3>1
    <3> QED BY <1>1, <2>2, <3>2
  <2> QED BY <2>1, <2>2
<1>8. ASSUME NEW t \in D!Targets
      PROVE  Owed(t)' = IF t < rrCursor' THEN rrCursor' - TargetCount ELSE rrCursor'
  <2>1. Owed(t)' = Owed(t) + weight[t] - (IF t = rrCursor THEN D!Total ELSE 0)
    BY <1>1, <1>5, OwedMoves
  <2>2. Owed(t) = IF t < rrCursor THEN rrCursor - TargetCount ELSE rrCursor
    BY <1>1 DEF WeightInv
  <2>3. weight[t] = 1 /\ t \in Nat /\ t < TargetCount BY <1>3, <1>5 DEF D!Targets
  <2> QED BY <1>4, <1>5, <1>6, <1>7, <2>1, <2>2, <2>3
<1> QED BY <1>1, <1>2, <1>3, <1>8 DEF WeightInv

(***************************************************************************)
(* The weights as they are at first.                                       *)
(***************************************************************************)
LEMMA WeightsStart ==
  ASSUME D!ConstantsOK, D!Init, DispatchTypes
  PROVE  WeightInv
<1>1. /\ tried = <<>> /\ rrCursor = 0 /\ currentWeights = [t \in D!Targets |-> 0]
      /\ strategy = "weighted" \/ weight = [t \in D!Targets |-> 1]
  BY DEF D!Init
<1>2. IsFiniteSet(D!Targets) /\ D!Total \in Nat \ {0} /\ weight \in [D!Targets -> Nat \ {0}]
  BY TotalIsTheSum
<1>3. RunningOK(currentWeights)
  <2>1. IsSum(0, currentWeights, D!Targets) BY <1>1, <1>2, SumOfZeros
  <2>2. ASSUME NEW t \in D!Targets
        PROVE  -D!Total < currentWeights[t] /\ currentWeights[t] < D!Total
    <3>1. currentWeights[t] = 0 BY <1>1
    <3> QED BY <1>2, <3>1
  <2> QED BY <2>1, <2>2 DEF RunningOK
<1>4. ASSUME NEW t \in D!Targets PROVE Owed(t) = 0
  <2>1. Got(t, tried) = 0
    <3>1. Len(tried) = 0 BY <1>1
    <3>2. {e \in 1..Len(tried) : tried[e] = <<t>>} = {} BY <3>1
    <3> QED BY <3>2, FS_EmptySet DEF Got
  <2>2. Len(tried) = 0 /\ weight[t] \in Nat BY <1>1, <1>2
  <2>3. 0 * weight[t] = 0 /\ 0 * D!Total = 0 BY <1>2, <2>2
  <2> QED BY <2>1, <2>2, <2>3 DEF Owed
<1>5. currentWeights \in [D!Targets -> Int] /\ \A t \in D!Targets : currentWeights[t] = 0 BY <1>1
<1>6. \A t \in D!Targets : ~(t < 0) BY DEF D!Targets
<1> QED BY <1>1, <1>3, <1>4, <1>5, <1>6 DEF WeightInv

(***************************************************************************)
(* The weights are kept, with the order of the keys.                       *)
(***************************************************************************)
THEOREM DispatchFollowsWeights ==
  ASSUME D!ConstantsOK
  PROVE  D!Spec => [](DispatchInv /\ WeightInv)
<1>1. D!Init => DispatchInv /\ WeightInv
  BY DispatchStarts, WeightsStart DEF DispatchInv
<1>2. DispatchInv /\ WeightInv /\ [D!Next]_(D!vars) => WeightInv'
  <2> SUFFICES ASSUME DispatchInv, WeightInv, [D!Next]_(D!vars) PROVE WeightInv'
    OBVIOUS
  <2>0. DispatchTypes /\ FailoverOK BY DEF DispatchInv
  <2>1. CASE UNCHANGED D!vars
    <3>1. UNCHANGED <<strategy, weight, rrCursor, currentWeights, tried>> BY <2>1 DEF D!vars
    <3>2. D!Total' = D!Total BY <3>1 DEF D!Total, D!MapThenSumSet, D!MapThenFoldSet
    <3> QED BY <3>1, <3>2 DEF WeightInv, RunningOK, IsSum, Owed, Got
  <2>2. CASE D!RoundRobin BY <2>0, <2>2, TurnsKeepWeights
  <2>3. CASE D!Weighted BY <2>0, <2>3, WeightedKeepsWeights
  <2>4. ASSUME strategy \notin {"weighted", "round-robin"},
               UNCHANGED <<strategy, weight, currentWeights>>
        PROVE  WeightInv'
    BY <2>4 DEF WeightInv
  <2>5. CASE D!StickyHit \/ D!StickyMiss \/ D!Failover
    BY <2>4, <2>5 DEF D!StickyHit, D!StickyMiss, D!Failover, D!Sends, D!cursors
  <2>6. ASSUME NEW e \in probing,
               D!TargetHandles(e) \/ D!TargetFails(e) \/ D!LastTargetFails(e) \/ D!Abandon(e)
        PROVE  WeightInv'
    <3>1. strategy = "failover" BY <2>0, <2>6 DEF FailoverOK
    <3>2. UNCHANGED <<strategy, weight, currentWeights>>
      BY <2>6 DEF D!TargetHandles, D!TargetFails, D!LastTargetFails, D!Abandon, D!cursors
    <3> QED BY <2>4, <3>1, <3>2
  <2> QED BY <2>1, <2>2, <2>3, <2>5, <2>6 DEF D!Next
<1>3. D!Spec => []DispatchInv BY DispatchKeepsOrder
<1> QED BY <1>1, <1>2, <1>3, PTL DEF D!Spec

(***************************************************************************)
(* A multiple that is less than one away is none.                          *)
(***************************************************************************)
LEMMA Multiples ==
  ASSUME NEW n \in Nat \ {0}, NEW k \in Int
  PROVE  /\ -n < n * k => 0 <= n * k
         /\ n * k < n => n * k <= 0
<1>1. CASE k >= 0 /\ k <= 0 BY <1>1
<1>2. CASE k >= 1
  <2>1. n * k = n + n * (k - 1) /\ n * (k - 1) >= 0 BY <1>2
  <2> QED BY <2>1
<1>3. CASE k <= -1
  <2>1. n * (-k) = n + n * (-k - 1) /\ n * (-k - 1) >= 0 /\ n * k = -(n * (-k)) BY <1>3
  <2> QED BY <2>1
<1> QED BY <1>1, <1>2, <1>3

(***************************************************************************)
(* Round-robin and weighted dispatch honour the weights.                   *)
(***************************************************************************)
LEMMA WeightsMeanShares ==
  ASSUME D!ConstantsOK, DispatchTypes, WeightInv
  PROVE  D!WeightsAreHonoured
<1>1. /\ IsFiniteSet(D!Targets) /\ TargetCount \in Nat \ {0}
      /\ weight \in [D!Targets -> Nat \ {0}] /\ D!Total \in Nat \ {0}
  BY TotalIsTheSum
<1>2. Len(tried) \in Nat BY DEF DispatchTypes
<1>3. ASSUME NEW t \in D!Targets PROVE Got(t, tried) \in Nat
  BY SharesGrow DEF DispatchTypes
<1>4. ASSUME strategy \in {"weighted", "round-robin"}, NEW t \in D!Targets
      PROVE  /\ Owed(t) \in Int /\ -D!Total < Owed(t)
             /\ TargetCount <= 3 \/ strategy = "round-robin" => Owed(t) < D!Total
  <2>1. CASE strategy = "weighted"
    <3>1. /\ Owed(t) = currentWeights[t] /\ currentWeights[t] \in Int
          /\ -D!Total < currentWeights[t] /\ (TargetCount <= 3 => currentWeights[t] < D!Total)
      BY <2>1 DEF WeightInv, RunningOK
    <3> QED BY <2>1, <3>1
  <2>2. CASE strategy = "round-robin"
    <3>1. D!Total = TargetCount BY <2>2, TotalOfOnes DEF WeightInv
    <3>2. Owed(t) = IF t < rrCursor THEN rrCursor - TargetCount ELSE rrCursor
      BY <2>2 DEF WeightInv
    <3>3. rrCursor \in Nat /\ rrCursor < TargetCount /\ t \in Nat
      BY <1>1 DEF DispatchTypes, D!Targets
    <3> QED BY <1>1, <3>1, <3>2, <3>3
  <2> QED BY <1>4, <2>1, <2>2
<1>5. ASSUME strategy \in {"weighted", "round-robin"}, Len(tried) % D!Total = 0,
             NEW t \in D!Targets
      PROVE  /\ 0 <= Owed(t)
             /\ TargetCount <= 3 \/ strategy = "round-robin" => Owed(t) <= 0
  <2> DEFINE n == D!Total
             a == Len(tried)
             q == a \div n
             w == weight[t]
             g == Got(t, tried)
             k == q * w - g
  <2>1. n \in Nat \ {0} /\ a \in Nat /\ w \in Nat /\ g \in Nat /\ a % n = 0
    BY <1>1, <1>2, <1>3, <1>5
  <2>2. Owed(t) = a * w - g * n BY DEF Owed
  <2> HIDE DEF n, a, w, g
  <2>3. q \in Nat /\ a = n * q BY <2>1
  <2> HIDE DEF q
  <2>4. k \in Int BY <2>1, <2>3
  <2>5. a * w - g * n = n * k BY <2>1, <2>3
  <2> HIDE DEF k
  <2>6. (-n < n * k => 0 <= n * k) /\ (n * k < n => n * k <= 0) BY <2>1, <2>4, Multiples
  <2>7. -n < Owed(t) /\ (TargetCount <= 3 \/ strategy = "round-robin" => Owed(t) < n)
    BY <1>4, <1>5 DEF n
  <2> QED BY <2>2, <2>5, <2>6, <2>7
<1>6. ASSUME strategy \in {"weighted", "round-robin"}, Len(tried) % D!Total = 0,
             NEW t \in D!Targets
      PROVE  Owed(t) = 0
  <2>1. CASE strategy = "weighted"
    <3>1. /\ IsSum(0, currentWeights, D!Targets) /\ currentWeights \in [D!Targets -> Int]
          /\ \A u \in D!Targets : Owed(u) = currentWeights[u]
      BY <2>1 DEF WeightInv, RunningOK
    <3>2. \A u \in D!Targets : currentWeights[u] \in Int /\ 0 <= currentWeights[u]
      BY <1>5, <1>6, <3>1
    <3>3. currentWeights \in [D!Targets -> Nat] BY <3>1, <3>2
    <3>4. currentWeights[t] <= 0 BY <1>1, <3>1, <3>3, SumOfNumbers
    <3> QED BY <3>1, <3>2, <3>4
  <2>2. CASE strategy = "round-robin" BY <1>4, <1>5, <1>6, <2>2
  <2> QED BY <1>6, <2>1, <2>2
<1>7. \A t \in D!Targets : D!Share(t) = Got(t, tried) BY SameSets DEF D!Share, Got, D!Arrived
<1> QED BY <1>4, <1>6, <1>7 DEF D!WeightsAreHonoured, D!Arrived, Owed

(***************************************************************************)
(* Each strategy spreads its exchanges as it promises to: who fails over   *)
(* alone is given up only when every target failed; the shares follow the  *)
(* weights at every moment; and two exchanges of a key go to different     *)
(* targets only if enough other keys came between them.                    *)
(***************************************************************************)
THEOREM DispatchIsFair ==
  ASSUME D!ConstantsOK
  PROVE  D!Spec => [](D!StrategiesHold /\ D!TypeOK)
<1>1. DispatchInv /\ WeightInv => D!WeightsAreHonoured BY WeightsMeanShares DEF DispatchInv
<1>2. DispatchInv /\ WeightInv => D!TypeOK
  <2> SUFFICES ASSUME DispatchInv, WeightInv PROVE D!TypeOK OBVIOUS
  <2>1. DispatchTypes /\ FailoverOK BY DEF DispatchInv
  <2>2. currentWeights \in [D!Targets -> Int] BY DEF WeightInv
  <2>3. D!ToSet(sticky) \subseteq [key : DispatchKeys, target : D!Targets]
    <3>1. sticky \in Seq(Affinities) BY <2>1 DEF DispatchTypes, StickyTypes
    <3>2. \A p \in DOMAIN sticky : sticky[p] \in Affinities BY <3>1
    <3> QED BY <3>2 DEF D!ToSet, Affinities
  <2> QED BY <2>1, <2>2, <2>3 DEF DispatchTypes, StickyTypes, FailoverOK, D!TypeOK, D!Arrived
<1>3. D!AloneTriesAll /\ D!WeightsAreHonoured /\ D!KeysStick => D!StrategiesHold
  BY DEF D!StrategiesHold
<1> QED BY <1>1, <1>2, <1>3, DispatchFollowsWeights, DispatchIsOrderly, PTL

=============================================================================

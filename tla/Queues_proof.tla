---------------------------- MODULE Queues_proof ----------------------------
(***************************************************************************)
(* The bulkhead holds and wakes its waiters, for any number of exchanges,  *)
(* keys and slots, any bound on the line and any size of the cache.  The   *)
(* batch consumer gives each message to the route once and has it answered *)
(* by its own batch, for any messages and any size of the batches.         *)
(***************************************************************************)
EXTENDS MCQueues, TLAPS, FiniteSetTheorems, SequenceTheorems

(***************************************************************************)
(* The part of TypeOK the argument needs.                                  *)
(***************************************************************************)
Types ==
  /\ inUse \in [Exchanges -> Nat]
  /\ waiters \in [Exchanges -> Seq(Exchanges)]
  /\ pc \in [Exchanges -> {"idle", "waiting", "running", "shed", "done"}]
  /\ pool \in [Exchanges -> Exchanges]
  /\ slot \in [Exchanges -> BOOLEAN]

(***************************************************************************)
(* A pool counts its holders, and they run.                                *)
(***************************************************************************)
Counted ==
  \A p \in Exchanges : inUse[p] = Cardinality(Holders(p)) /\ inUse[p] <= Slots

HoldersRun == \A e \in Exchanges : slot[e] => pc[e] = "running"

(***************************************************************************)
(* Who is in line waits for that pool, once; a line means a full pool.     *)
(***************************************************************************)
LineWaits ==
  \A p \in Exchanges : \A i \in 1..Len(waiters[p]) :
    pc[waiters[p][i]] = "waiting" /\ pool[waiters[p][i]] = p

LineOnce ==
  \A p \in Exchanges : \A i, j \in 1..Len(waiters[p]) :
    waiters[p][i] = waiters[p][j] => i = j

LineMeansFull == \A p \in Exchanges : waiters[p] # <<>> => inUse[p] = Slots

Inv == Types /\ Counted /\ HoldersRun /\ LineWaits /\ LineOnce /\ LineMeansFull

-----------------------------------------------------------------------------
(***************************************************************************)
(* Holders are finitely many.                                              *)
(***************************************************************************)
LEMMA HoldersFinite ==
  ASSUME NEW p
  PROVE  IsFiniteSet(Holders(p)) /\ Cardinality(Holders(p)) \in Nat
<1>1. Holders(p) \subseteq Exchanges
  BY DEF Holders
<1>2. IsFiniteSet(Holders(p))
  BY <1>1, ExchangesAssumption, FS_Subset
<1> QED
  BY <1>2, FS_CardinalityType

(***************************************************************************)
(* Steps that leave every slot where it is leave the holders alone.        *)
(***************************************************************************)
LEMMA HoldersStay ==
  ASSUME NEW e \in Exchanges, NEW q \in Exchanges, Types, ~slot[e], UNCHANGED slot,
         pool' = [pool EXCEPT ![e] = q] \/ UNCHANGED pool
  PROVE  \A p \in Exchanges : Holders(p)' = Holders(p)
  BY DEF Holders, Types

(***************************************************************************)
(* An exchange that takes a slot of p joins the holders of p.              *)
(***************************************************************************)
LEMMA HoldersGrow ==
  ASSUME NEW e \in Exchanges, NEW p \in Exchanges, Types, ~slot[e],
         slot' = [slot EXCEPT ![e] = TRUE], pool' = [pool EXCEPT ![e] = p]
  PROVE  /\ Holders(p)' = Holders(p) \union {e}
         /\ e \notin Holders(p)
         /\ \A q \in Exchanges : q # p => Holders(q)' = Holders(q)
  BY DEF Holders, Types

(***************************************************************************)
(* One that gives its slot back leaves them.                               *)
(***************************************************************************)
LEMMA HoldersShrink ==
  ASSUME NEW e \in Exchanges, Types, slot[e],
         slot' = [slot EXCEPT ![e] = FALSE], UNCHANGED pool
  PROVE  /\ Holders(pool[e])' = Holders(pool[e]) \ {e}
         /\ e \in Holders(pool[e])
         /\ \A q \in Exchanges : q # pool[e] => Holders(q)' = Holders(q)
  BY DEF Holders, Types

(***************************************************************************)
(* A handover puts one exchange in the place of another.                   *)
(***************************************************************************)
LEMMA HoldersSwap ==
  ASSUME NEW e \in Exchanges, NEW d \in Exchanges, Types, slot[e], ~slot[d],
         pool[d] = pool[e],
         slot' = [slot EXCEPT ![e] = FALSE, ![d] = TRUE], UNCHANGED pool
  PROVE  /\ Holders(pool[e])' = (Holders(pool[e]) \ {e}) \union {d}
         /\ e \in Holders(pool[e]) /\ d \notin Holders(pool[e])
         /\ \A q \in Exchanges : q # pool[e] => Holders(q)' = Holders(q)
  BY DEF Holders, Types

(***************************************************************************)
(* Who is in line is an exchange that waits, and no other.                 *)
(***************************************************************************)
LEMMA LineMembers ==
  ASSUME Types, LineWaits, NEW e \in Exchanges, pc[e] # "waiting",
         NEW q \in Exchanges, NEW i \in 1..Len(waiters[q])
  PROVE  waiters[q][i] \in Exchanges \ {e}
<1>1. waiters[q] \in Seq(Exchanges)
  BY DEF Types
<1>2. waiters[q][i] \in Exchanges
  BY <1>1, ElementOfSeq
<1>3. pc[waiters[q][i]] = "waiting"
  BY DEF LineWaits
<1> QED
  BY <1>2, <1>3

-----------------------------------------------------------------------------
(***************************************************************************)
(* One lemma per action.                                                   *)
(***************************************************************************)
LEMMA AdmitKeeps ==
  ASSUME Inv, NEW e \in Exchanges, NEW p \in Exchanges, Admit(e, p)
  PROVE  Inv'
<1> USE DEF Inv
<1>1. /\ pc[e] = "idle"
      /\ inUse[p] < Slots
      /\ inUse' = [inUse EXCEPT ![p] = @ + 1]
      /\ pc' = [pc EXCEPT ![e] = "running"]
      /\ slot' = [slot EXCEPT ![e] = TRUE]
      /\ pool' = [pool EXCEPT ![e] = p]
      /\ UNCHANGED waiters
  BY DEF Admit, Lookup
<1>2. ~slot[e]
  BY <1>1 DEF HoldersRun, Types
<1>3. Types'
  BY <1>1 DEF Types
<1>4. Counted'
  <2>1. Cardinality(Holders(p)') = Cardinality(Holders(p)) + 1
    <3>1. Holders(p)' = Holders(p) \union {e} /\ e \notin Holders(p)
      BY <1>1, <1>2, HoldersGrow
    <3>2. Cardinality(Holders(p) \union {e}) = Cardinality(Holders(p)) + 1
      BY <3>1, HoldersFinite, FS_AddElement
    <3> QED
      BY <3>1, <3>2
  <2>2. inUse'[p] = inUse[p] + 1 /\ inUse'[p] <= Slots
    BY <1>1, SlotsAssumption DEF Types
  <2>3. ASSUME NEW q \in Exchanges, q # p
        PROVE  inUse'[q] = inUse[q] /\ Holders(q)' = Holders(q)
    BY <1>1, <1>2, <2>3, HoldersGrow DEF Types
  <2> QED
    BY <2>1, <2>2, <2>3 DEF Counted
<1>5. HoldersRun'
  BY <1>1 DEF HoldersRun, Types
<1>6. LineWaits' /\ LineOnce'
  <2>1. \A q \in Exchanges : \A i \in 1..Len(waiters[q]) :
          waiters[q][i] \in Exchanges \ {e}
    BY <1>1, LineMembers
  <2>2. LineWaits'
    BY <1>1, <2>1 DEF LineWaits, Types
  <2>3. LineOnce'
    BY <1>1 DEF LineOnce
  <2> QED
    BY <2>2, <2>3
<1>7. LineMeansFull'
  BY <1>1, SlotsAssumption DEF LineMeansFull, Types
<1> QED
  BY <1>3, <1>4, <1>5, <1>6, <1>7

(***************************************************************************)
(* Joining the line keeps the invariant.                                   *)
(***************************************************************************)
LEMMA QueueKeeps ==
  ASSUME Inv, NEW e \in Exchanges, NEW p \in Exchanges, Queue(e, p)
  PROVE  Inv'
<1> USE DEF Inv
<1>1. /\ pc[e] = "idle"
      /\ inUse[p] >= Slots
      /\ waiters' = [waiters EXCEPT ![p] = Append(@, e)]
      /\ pc' = [pc EXCEPT ![e] = "waiting"]
      /\ pool' = [pool EXCEPT ![e] = p]
      /\ UNCHANGED <<inUse, slot>>
  BY DEF Queue, Lookup
<1>2. ~slot[e]
  BY <1>1 DEF HoldersRun, Types
<1>3. Types'
  BY <1>1 DEF Types
<1>4. Counted'
  BY <1>1, <1>2, HoldersStay DEF Counted
<1>5. HoldersRun'
  BY <1>1, <1>2 DEF HoldersRun, Types
<1>6. /\ waiters[p] \in Seq(Exchanges)
      /\ waiters'[p] = Append(waiters[p], e)
      /\ Len(waiters'[p]) = Len(waiters[p]) + 1
      /\ \A i \in 1..Len(waiters[p]) : waiters'[p][i] = waiters[p][i]
      /\ waiters'[p][Len(waiters[p]) + 1] = e
      /\ \A q \in Exchanges : q # p => waiters'[q] = waiters[q]
  BY <1>1, AppendProperties DEF Types
<1>7. \A q \in Exchanges : \A i \in 1..Len(waiters[q]) : waiters[q][i] \in Exchanges \ {e}
  BY <1>1, LineMembers
<1>8. LineWaits'
  <2>1. ASSUME NEW q \in Exchanges, NEW i \in 1..Len(waiters[q])
        PROVE  pc'[waiters[q][i]] = "waiting" /\ pool'[waiters[q][i]] = q
    BY <1>1, <1>7 DEF LineWaits, Types
  <2>2. pc'[e] = "waiting" /\ pool'[e] = p
    BY <1>1 DEF Types
  <2>3. ASSUME NEW i \in 1..Len(waiters'[p])
        PROVE  pc'[waiters'[p][i]] = "waiting" /\ pool'[waiters'[p][i]] = p
    <3>1. i \in 1..Len(waiters[p]) \/ i = Len(waiters[p]) + 1
      BY <1>6
    <3> QED
      BY <1>6, <2>1, <2>2, <3>1
  <2>4. ASSUME NEW q \in Exchanges, q # p, NEW i \in 1..Len(waiters'[q])
        PROVE  pc'[waiters'[q][i]] = "waiting" /\ pool'[waiters'[q][i]] = q
    BY <1>6, <2>1, <2>4
  <2> QED
    BY <2>3, <2>4 DEF LineWaits
<1>9. LineOnce'
  <2>1. ASSUME NEW i \in 1..Len(waiters'[p]), NEW j \in 1..Len(waiters'[p]),
               waiters'[p][i] = waiters'[p][j]
        PROVE  i = j
    <3>1. i \in 1..Len(waiters[p]) \/ i = Len(waiters[p]) + 1
      BY <1>6
    <3>2. j \in 1..Len(waiters[p]) \/ j = Len(waiters[p]) + 1
      BY <1>6
    <3> QED
      BY <1>6, <1>7, <2>1, <3>1, <3>2 DEF LineOnce
  <2>2. ASSUME NEW q \in Exchanges, q # p
        PROVE  \A i, j \in 1..Len(waiters'[q]) : waiters'[q][i] = waiters'[q][j] => i = j
    BY <1>6, <2>2 DEF LineOnce
  <2> QED
    BY <2>1, <2>2 DEF LineOnce
<1>10. LineMeansFull'
  <2>1. inUse[p] = Slots
    BY <1>1, SlotsAssumption DEF Counted, Types
  <2> QED
    BY <1>1, <1>6, <2>1 DEF LineMeansFull
<1> QED
  BY <1>3, <1>4, <1>5, <1>8, <1>9, <1>10

(***************************************************************************)
(* An exchange that is shed, or admitted after the abort, takes no slot.   *)
(***************************************************************************)
LEMMA PassKeeps ==
  ASSUME Inv, NEW e \in Exchanges, NEW p \in Exchanges,
         AdmitAborted(e, p) \/ Shed(e, p)
  PROVE  Inv'
<1> USE DEF Inv
<1>1. PICK to \in {"running", "shed"} : pc' = [pc EXCEPT ![e] = to]
  BY DEF AdmitAborted, Shed
<1>2. /\ pc[e] = "idle"
      /\ pool' = [pool EXCEPT ![e] = p]
      /\ UNCHANGED <<inUse, waiters, slot>>
  BY DEF AdmitAborted, Shed, Lookup
<1>3. ~slot[e]
  BY <1>2 DEF HoldersRun, Types
<1>4. Types'
  BY <1>1, <1>2 DEF Types
<1>5. Counted'
  BY <1>2, <1>3, HoldersStay DEF Counted
<1>6. HoldersRun'
  BY <1>1, <1>2, <1>3 DEF HoldersRun, Types
<1>7. LineWaits' /\ LineOnce'
  <2>1. \A q \in Exchanges : \A i \in 1..Len(waiters[q]) :
          waiters[q][i] \in Exchanges \ {e}
    BY <1>2, LineMembers
  <2>2. LineWaits'
    BY <1>1, <1>2, <2>1 DEF LineWaits, Types
  <2>3. LineOnce'
    BY <1>2 DEF LineOnce
  <2> QED
    BY <2>2, <2>3
<1>8. LineMeansFull'
  BY <1>2 DEF LineMeansFull
<1> QED
  BY <1>4, <1>5, <1>6, <1>7, <1>8

(***************************************************************************)
(* Leaving the line at the abort keeps the invariant.                      *)
(***************************************************************************)
LEMMA AbortKeeps ==
  ASSUME Inv, Abort
  PROVE  Inv'
<1> USE DEF Inv
<1>1. /\ waiters' = [p \in Exchanges |-> <<>>]
      /\ pc' = [e \in Exchanges |-> IF pc[e] = "waiting" THEN "running" ELSE pc[e]]
      /\ UNCHANGED <<inUse, pool, slot>>
  BY DEF Abort
<1>2. Types'
  BY <1>1 DEF Types
<1>3. Counted'
  BY <1>1 DEF Counted, Holders
<1>4. HoldersRun'
  BY <1>1 DEF HoldersRun, Types
<1>5. \A p \in Exchanges : waiters'[p] = <<>>
  BY <1>1
<1>6. LineWaits' /\ LineOnce' /\ LineMeansFull'
  BY <1>5 DEF LineWaits, LineOnce, LineMeansFull
<1> QED
  BY <1>2, <1>3, <1>4, <1>6

(***************************************************************************)
(* The three ends of the wrapped work: without a slot, with a waiter to    *)
(* hand the slot to, and with nobody in line.                              *)
(***************************************************************************)
LEMMA FinishUnchargedKeeps ==
  ASSUME Inv, NEW e \in Exchanges, pc[e] = "running", ~slot[e],
         pc' = [pc EXCEPT ![e] = "done"], UNCHANGED <<inUse, waiters, slot, pool>>
  PROVE  Inv'
<1> USE DEF Inv
<1>1. Types' /\ HoldersRun'
  BY DEF Types, HoldersRun
<1>2. Counted'
  BY DEF Counted, Holders
<1>3. LineWaits' /\ LineOnce' /\ LineMeansFull'
  BY DEF Types, LineWaits, LineOnce, LineMeansFull
<1> QED
  BY <1>1, <1>2, <1>3

(***************************************************************************)
(* The end of work that nobody waits for keeps the invariant.              *)
(***************************************************************************)
LEMMA FinishFreeingKeeps ==
  ASSUME Inv, NEW e \in Exchanges, pc[e] = "running", slot[e],
         waiters[pool[e]] = <<>>,
         inUse' = [inUse EXCEPT ![pool[e]] = @ - 1],
         pc' = [pc EXCEPT ![e] = "done"],
         slot' = [slot EXCEPT ![e] = FALSE],
         UNCHANGED <<waiters, pool>>
  PROVE  Inv'
<1> USE DEF Inv
<1> DEFINE p == pool[e]
<1>1. p \in Exchanges
  BY DEF Types
<1>2. /\ Cardinality(Holders(p)') = Cardinality(Holders(p)) - 1
      /\ Cardinality(Holders(p)) # 0
  <2>1. Holders(p)' = Holders(p) \ {e} /\ e \in Holders(p)
    BY HoldersShrink
  <2>2. Cardinality(Holders(p) \ {e}) = Cardinality(Holders(p)) - 1
    BY <2>1, HoldersFinite, FS_RemoveElement
  <2>3. Cardinality(Holders(p)) # 0
    BY <2>1, HoldersFinite, FS_EmptySet
  <2> QED
    BY <2>1, <2>2, <2>3
<1>3. inUse[p] \in Nat \ {0} /\ inUse[p] <= Slots /\ inUse'[p] = inUse[p] - 1
  BY <1>1, <1>2 DEF Counted, Types
<1>4. Types'
  BY <1>1, <1>3 DEF Types
<1>5. Counted'
  <2>1. inUse'[p] = Cardinality(Holders(p)') /\ inUse'[p] <= Slots
    BY <1>1, <1>2, <1>3, SlotsAssumption DEF Counted
  <2>2. ASSUME NEW q \in Exchanges, q # p
        PROVE  inUse'[q] = inUse[q] /\ Holders(q)' = Holders(q)
    BY <2>2, HoldersShrink DEF Types
  <2> QED
    BY <1>1, <2>1, <2>2 DEF Counted
<1>6. HoldersRun' /\ LineWaits' /\ LineOnce'
  <2>1. \A q \in Exchanges : \A i \in 1..Len(waiters[q]) :
          waiters[q][i] \in Exchanges \ {e}
    BY LineMembers
  <2>2. LineWaits'
    BY <2>1 DEF Types, LineWaits
  <2>3. HoldersRun'
    BY DEF Types, HoldersRun
  <2>4. LineOnce'
    BY DEF LineOnce
  <2> QED
    BY <2>2, <2>3, <2>4
<1>7. LineMeansFull'
  BY <1>1 DEF Types, LineMeansFull
<1> QED
  BY <1>4, <1>5, <1>6, <1>7

(***************************************************************************)
(* The end of work whose slot passes to the first in line keeps the        *)
(* invariant.                                                              *)
(***************************************************************************)
LEMMA FinishHandingOverKeeps ==
  ASSUME Inv, NEW e \in Exchanges, pc[e] = "running", slot[e],
         waiters[pool[e]] # <<>>,
         waiters' = [waiters EXCEPT ![pool[e]] = Tail(@)],
         pc' = [pc EXCEPT ![e] = "done", ![Head(waiters[pool[e]])] = "running"],
         slot' = [slot EXCEPT ![e] = FALSE, ![Head(waiters[pool[e]])] = TRUE],
         UNCHANGED <<inUse, pool>>
  PROVE  Inv'
<1> USE DEF Inv
<1> DEFINE p == pool[e]
           d == Head(waiters[p])
<1>1. p \in Exchanges /\ waiters[p] \in Seq(Exchanges)
  BY DEF Types
<1>2. /\ d \in Exchanges
      /\ d = waiters[p][1]
      /\ Len(waiters[p]) \in Nat \ {0}
      /\ Len(Tail(waiters[p])) = Len(waiters[p]) - 1
      /\ \A i \in 1..Len(Tail(waiters[p])) : Tail(waiters[p])[i] = waiters[p][i + 1]
      /\ Tail(waiters[p]) \in Seq(Exchanges)
  BY <1>1, HeadTailProperties
<1>3. pc[d] = "waiting" /\ pool[d] = p
  BY <1>1, <1>2 DEF LineWaits
<1>4. ~slot[d] /\ d # e
  BY <1>2, <1>3 DEF HoldersRun
<1>5. Types'
  BY <1>1, <1>2 DEF Types
<1>6. Counted'
  <2>1. /\ Holders(p)' = (Holders(p) \ {e}) \union {d}
        /\ e \in Holders(p) /\ d \notin Holders(p)
        /\ \A q \in Exchanges : q # p => Holders(q)' = Holders(q)
    BY <1>2, <1>3, <1>4, HoldersSwap
  <2>2. /\ IsFiniteSet(Holders(p) \ {e})
        /\ Cardinality(Holders(p) \ {e}) = Cardinality(Holders(p)) - 1
        /\ Cardinality(Holders(p)) \in Nat
    BY <2>1, HoldersFinite, FS_RemoveElement
  <2>3. Cardinality((Holders(p) \ {e}) \union {d}) = Cardinality(Holders(p) \ {e}) + 1
    BY <2>1, <2>2, FS_AddElement
  <2>4. Cardinality(Holders(p)') = Cardinality(Holders(p))
    BY <2>1, <2>2, <2>3
  <2> QED
    BY <2>1, <2>4 DEF Counted
<1>7. HoldersRun'
  BY <1>2, <1>4 DEF HoldersRun, Types
<1>8. /\ waiters'[p] = Tail(waiters[p])
      /\ \A q \in Exchanges : q # p => waiters'[q] = waiters[q]
  BY <1>1 DEF Types
<1>9. ASSUME NEW q \in Exchanges, NEW i \in 1..Len(waiters[q]), waiters[q][i] # d
      PROVE  pc'[waiters[q][i]] = "waiting" /\ pool'[waiters[q][i]] = q
  <2> DEFINE w == waiters[q][i]
  <2>1. w \in Exchanges
    BY DEF Types
  <2>2. pc[w] = "waiting" /\ pool[w] = q
    BY DEF LineWaits
  <2>3. w # e
    BY <2>2
  <2>4. pc'[w] = pc[w]
    BY <1>2, <1>9, <2>1, <2>3 DEF Types
  <2> QED
    BY <2>2, <2>4
<1>10. ASSUME NEW i \in 1..Len(waiters'[p])
       PROVE  i + 1 \in 1..Len(waiters[p]) /\ i + 1 # 1
  <2>1. Len(waiters'[p]) = Len(waiters[p]) - 1
    BY <1>2, <1>8
  <2> QED
    BY <1>2, <2>1
<1>11. LineWaits'
  <2>1. ASSUME NEW i \in 1..Len(waiters'[p])
        PROVE  pc'[waiters'[p][i]] = "waiting" /\ pool'[waiters'[p][i]] = p
    <3>1. waiters'[p][i] = waiters[p][i + 1]
      BY <1>2, <1>8
    <3>2. i + 1 \in 1..Len(waiters[p]) /\ i + 1 # 1
      BY <1>10
    <3>3. 1 \in 1..Len(waiters[p])
      BY <1>2
    <3>4. waiters[p][i + 1] # d
      BY <1>1, <1>2, <3>2, <3>3 DEF LineOnce
    <3>5. pc'[waiters[p][i + 1]] = "waiting" /\ pool'[waiters[p][i + 1]] = p
      BY <1>1, <1>9, <3>2, <3>4
    <3> QED
      BY <3>1, <3>5
  <2>2. ASSUME NEW q \in Exchanges, q # p, NEW i \in 1..Len(waiters'[q])
        PROVE  pc'[waiters'[q][i]] = "waiting" /\ pool'[waiters'[q][i]] = q
    <3>1. waiters'[q] = waiters[q]
      BY <1>8, <2>2
    <3>2. i \in 1..Len(waiters[q])
      BY <3>1
    <3>3. pool[waiters[q][i]] = q
      BY <3>2 DEF LineWaits
    <3>4. waiters[q][i] # d
      BY <1>3, <2>2, <3>3
    <3>5. pc'[waiters[q][i]] = "waiting" /\ pool'[waiters[q][i]] = q
      BY <1>9, <3>2, <3>4
    <3> QED
      BY <3>1, <3>5
  <2>3. ASSUME NEW q \in Exchanges, NEW i \in 1..Len(waiters'[q])
        PROVE  pc'[waiters'[q][i]] = "waiting" /\ pool'[waiters'[q][i]] = q
    <3>1. CASE q = p
      BY <2>1, <3>1
    <3>2. CASE q # p
      BY <2>2, <3>2
    <3> QED
      BY <3>1, <3>2
  <2> QED
    BY <2>3 DEF LineWaits
<1>12. LineOnce'
  <2>1. ASSUME NEW i \in 1..Len(waiters'[p]), NEW j \in 1..Len(waiters'[p]),
               waiters'[p][i] = waiters'[p][j]
        PROVE  i = j
    <3>1. waiters[p][i + 1] = waiters[p][j + 1]
      BY <1>2, <1>8, <2>1
    <3>2. i + 1 = j + 1
      BY <1>1, <1>10, <3>1 DEF LineOnce
    <3> QED
      BY <3>2
  <2>2. ASSUME NEW q \in Exchanges, q # p
        PROVE  \A i, j \in 1..Len(waiters'[q]) : waiters'[q][i] = waiters'[q][j] => i = j
    BY <1>8, <2>2 DEF LineOnce
  <2> QED
    BY <2>1, <2>2 DEF LineOnce
<1>13. LineMeansFull'
  BY <1>1, <1>8 DEF LineMeansFull
<1> QED
  BY <1>5, <1>6, <1>7, <1>11, <1>12, <1>13

(***************************************************************************)
(* The end of work keeps the invariant, either way.                        *)
(***************************************************************************)
LEMMA FinishKeeps ==
  ASSUME Inv, NEW e \in Exchanges, Finish(e)
  PROVE  Inv'
<1>1. CASE ~slot[e]
  BY <1>1, FinishUnchargedKeeps DEF Finish
<1>2. CASE slot[e] /\ waiters[pool[e]] # <<>>
  BY <1>2, FinishHandingOverKeeps DEF Finish
<1>3. CASE slot[e] /\ waiters[pool[e]] = <<>>
  BY <1>3, FinishFreeingKeeps DEF Finish
<1> QED
  BY <1>1, <1>2, <1>3

(***************************************************************************)
(* The invariant is inductive.                                             *)
(***************************************************************************)
LEMMA InitInv == Init => Inv
<1> SUFFICES ASSUME Init PROVE Inv
  OBVIOUS
<1>1. Types
  BY DEF Init, Types
<1>2. \A p \in Exchanges : Holders(p) = {}
  BY DEF Init, Holders
<1>3. Counted
  BY <1>2, FS_EmptySet, SlotsAssumption DEF Init, Counted
<1>4. HoldersRun /\ LineWaits /\ LineOnce /\ LineMeansFull
  BY DEF Init, HoldersRun, LineWaits, LineOnce, LineMeansFull
<1> QED
  BY <1>1, <1>3, <1>4 DEF Inv

(***************************************************************************)
(* Every step keeps the invariant.                                         *)
(***************************************************************************)
LEMMA InvStep ==
  ASSUME Inv, [Next]_vars
  PROVE  Inv'
<1>1. ASSUME NEW e \in Exchanges, NEW p \in Exchanges, Arrive(e, p)
      PROVE  Inv'
  BY <1>1, AdmitKeeps, QueueKeeps, PassKeeps DEF Arrive
<1>2. CASE UNCHANGED vars
  <2>1. UNCHANGED <<inUse, waiters, pc, pool, slot>>
    BY <1>2 DEF vars
  <2>2. (Types /\ Counted /\ HoldersRun)'
    BY <2>1 DEF Inv, Types, Counted, Holders, HoldersRun
  <2>3. (LineWaits /\ LineOnce /\ LineMeansFull)'
    BY <2>1 DEF Inv, LineWaits, LineOnce, LineMeansFull
  <2> QED
    BY <2>2, <2>3 DEF Inv
<1> QED
  BY <1>1, <1>2, FinishKeeps, AbortKeeps DEF Next

(***************************************************************************)
(* A pool never has more holders than slots.                               *)
(***************************************************************************)
THEOREM BulkheadHolds == Spec => []PoolHolds
<1>1. Inv => PoolHolds
  BY DEF Inv, Counted, PoolHolds
<1> QED
  BY <1>1, InitInv, InvStep, PTL DEF Spec

(***************************************************************************)
(* While somebody waits for a pool, every slot of it is at work, so that   *)
(* the end of that work wakes the line up.                                 *)
(***************************************************************************)
THEOREM NoWakeUpIsLost == Spec => []NoSlotIdles
<1>1. ASSUME Inv, NEW p \in Exchanges, waiters[p] # <<>>
      PROVE  Cardinality({e \in Holders(p) : pc[e] = "running"}) = Slots
  <2>1. {e \in Holders(p) : pc[e] = "running"} = Holders(p)
    BY <1>1 DEF Inv, HoldersRun, Holders
  <2>2. Cardinality(Holders(p)) = Slots
    BY <1>1 DEF Inv, Counted, LineMeansFull
  <2> QED
    BY <2>1, <2>2
<1>2. Inv => NoSlotIdles
  BY <1>1 DEF NoSlotIdles
<1> QED
  BY <1>2, InitInv, InvStep, PTL DEF Spec

(***************************************************************************)
(* The two together, as the runs check them.                               *)
(***************************************************************************)
THEOREM NeitherTooManyNorTooFew == Spec => []PoolIsFilled
BY BulkheadHolds, NoWakeUpIsLost, PTL DEF PoolIsFilled

-----------------------------------------------------------------------------
(***************************************************************************)
(* Who waits is in line, in the line of its own pool.                      *)
(***************************************************************************)
InLine(d) == \E i \in 1..Len(waiters[pool[d]]) : waiters[pool[d]][i] = d

WaitersAreInLine == \A d \in Exchanges : pc[d] = "waiting" => InLine(d)

(***************************************************************************)
(* What the end of the work with a slot does to the line of its pool, when *)
(* somebody is in it.                                                      *)
(***************************************************************************)
HandsOver(e, next) ==
  /\ pc[e] = "running" /\ slot[e]
  /\ LET line == waiters[pool[e]]
     IN /\ Len(line) \in Nat \ {0} /\ next = line[1]
        /\ Len(waiters'[pool[e]]) = Len(line) - 1
        /\ \A i \in 1..(Len(line) - 1) : waiters'[pool[e]][i] = line[i + 1]
  /\ \A p \in Exchanges \ {pool[e]} : waiters'[p] = waiters[p]
  /\ next \in Exchanges /\ pc'[next] = "running" /\ pool[next] = pool[e]
  /\ \A d \in Exchanges \ {e, next} : pc'[d] = pc[d] /\ slot'[d] = slot[d]
  /\ pc'[e] = "done" /\ ~slot'[e] /\ pool' = pool

(***************************************************************************)
(* The end of work hands over, or lets nobody in.                          *)
(***************************************************************************)
LEMMA FinishEffect ==
  ASSUME Inv, NEW e \in Exchanges, Finish(e)
  PROVE  \/ \E next \in Exchanges : HandsOver(e, next)
         \/ /\ pc[e] = "running" /\ pc'[e] = "done" /\ UNCHANGED <<waiters, pool>>
            /\ \A d \in Exchanges \ {e} : pc'[d] = pc[d]
            /\ \A d \in Exchanges : slot'[d] => slot[d]
<1> USE DEF Inv
<1> DEFINE p == pool[e]
           next == Head(waiters[p])
<1>1. p \in Exchanges /\ waiters[p] \in Seq(Exchanges)
  BY DEF Types
<1>2. CASE slot[e] /\ waiters[p] # <<>>
  <2>1. /\ waiters' = [waiters EXCEPT ![p] = Tail(@)]
        /\ pc' = [pc EXCEPT ![e] = "done", ![next] = "running"]
        /\ slot' = [slot EXCEPT ![e] = FALSE, ![next] = TRUE]
        /\ pc[e] = "running" /\ pool' = pool
    BY <1>2 DEF Finish
  <2>2. /\ next \in Exchanges
        /\ next = waiters[p][1]
        /\ Len(waiters[p]) \in Nat \ {0}
        /\ Len(Tail(waiters[p])) = Len(waiters[p]) - 1
        /\ \A i \in 1..Len(Tail(waiters[p])) : Tail(waiters[p])[i] = waiters[p][i + 1]
    BY <1>1, <1>2, HeadTailProperties
  <2>3. pc[next] = "waiting" /\ pool[next] = p
    BY <1>1, <2>2 DEF LineWaits
  <2>4. waiters'[p] = Tail(waiters[p]) /\ \A q \in Exchanges \ {p} : waiters'[q] = waiters[q]
    BY <1>1, <2>1 DEF Types
  <2>5. next # e
    BY <2>1, <2>3
  <2>6. /\ pc'[next] = "running" /\ pc'[e] = "done" /\ ~slot'[e]
        /\ \A d \in Exchanges \ {e, next} : pc'[d] = pc[d] /\ slot'[d] = slot[d]
    <3> HIDE DEF next
    <3> QED
      BY <2>1, <2>2, <2>5 DEF Types
  <2>7. /\ Len(waiters'[p]) = Len(waiters[p]) - 1
        /\ \A i \in 1..(Len(waiters[p]) - 1) : waiters'[p][i] = waiters[p][i + 1]
    BY <2>2, <2>4
  <2>8. HandsOver(e, next)
    <3> HIDE DEF next
    <3> QED
      BY <1>2, <2>1, <2>2, <2>3, <2>4, <2>6, <2>7 DEF HandsOver
  <2> QED
    BY <2>2, <2>8
<1>3. CASE ~slot[e] \/ waiters[p] = <<>>
  BY <1>1, <1>3 DEF Finish, Types
<1> QED
  BY <1>2, <1>3

(***************************************************************************)
(* What an arrival does to those who wait already: nothing.                *)
(***************************************************************************)
Lines(e, p) ==
  /\ Len(waiters'[p]) = Len(waiters[p]) + 1 /\ Len(waiters[p]) \in Nat
  /\ \A i \in 1..Len(waiters[p]) : waiters'[p][i] = waiters[p][i]
  /\ waiters'[p][Len(waiters[p]) + 1] = e
  /\ \A q \in Exchanges \ {p} : waiters'[q] = waiters[q]

(***************************************************************************)
(* An arrival lengthens one line at its end, or leaves all lines alone.    *)
(***************************************************************************)
LEMMA ArriveEffect ==
  ASSUME Inv, NEW e \in Exchanges, NEW p \in Exchanges, Arrive(e, p)
  PROVE  /\ pc[e] = "idle" /\ pool'[e] = p
         /\ \A d \in Exchanges \ {e} : /\ pc'[d] = pc[d] /\ slot'[d] = slot[d]
                                       /\ pool'[d] = pool[d]
         /\ \/ pc'[e] # "waiting" /\ waiters' = waiters /\ (slot'[e] => inUse[p] < Slots)
            \/ pc'[e] = "waiting" /\ slot'[e] = slot[e] /\ Lines(e, p)
<1> USE DEF Inv
<1>1. /\ pc[e] = "idle" /\ pool' = [pool EXCEPT ![e] = p] /\ ~slot[e]
  BY DEF Arrive, Admit, Queue, AdmitAborted, Shed, Lookup, HoldersRun
<1>2. pool'[e] = p /\ \A d \in Exchanges \ {e} : pool'[d] = pool[d]
  BY <1>1 DEF Types
<1>3. CASE Admit(e, p)
  BY <1>1, <1>2, <1>3 DEF Admit, Types
<1>4. CASE AdmitAborted(e, p) \/ Shed(e, p)
  BY <1>1, <1>2, <1>4 DEF AdmitAborted, Shed, Types
<1>5. CASE Queue(e, p)
  <2>1. /\ waiters' = [waiters EXCEPT ![p] = Append(@, e)]
        /\ pc' = [pc EXCEPT ![e] = "waiting"] /\ slot' = slot
    BY <1>5 DEF Queue
  <2>2. Lines(e, p)
    BY <2>1, AppendProperties DEF Types, Lines
  <2> QED
    BY <1>1, <1>2, <2>1, <2>2 DEF Types
<1> QED
  BY <1>3, <1>4, <1>5 DEF Arrive

(***************************************************************************)
(* Nobody who waits drops out of the line.                                 *)
(***************************************************************************)
LEMMA InLineStep ==
  ASSUME Inv, WaitersAreInLine, [Next]_vars
  PROVE  WaitersAreInLine'
<1> SUFFICES ASSUME NEW d \in Exchanges, pc'[d] = "waiting"
    PROVE  InLine(d)'
  BY DEF WaitersAreInLine
<1> USE DEF InLine
<1>1. ASSUME NEW e \in Exchanges, NEW p \in Exchanges, Arrive(e, p)
      PROVE  InLine(d)'
  <2>1. CASE d = e
    <3>1. Lines(e, p) /\ pool'[d] = p
      BY <1>1, <2>1, ArriveEffect
    <3>2. Len(waiters[p]) + 1 \in 1..Len(waiters'[p])
      BY <3>1 DEF Lines
    <3> QED
      BY <2>1, <3>1, <3>2 DEF Lines
  <2>2. CASE d # e
    <3>1. /\ pc[d] = "waiting" /\ pool'[d] = pool[d] /\ pool[d] \in Exchanges
          /\ waiters' = waiters \/ Lines(e, p)
      BY <1>1, <2>2, ArriveEffect DEF Inv, Types
    <3>2. PICK i \in 1..Len(waiters[pool[d]]) : waiters[pool[d]][i] = d
      BY <3>1 DEF WaitersAreInLine
    <3>3. i \in 1..Len(waiters'[pool[d]]) /\ waiters'[pool[d]][i] = d
      BY <3>1, <3>2 DEF Lines
    <3> QED
      BY <3>1, <3>3
  <2> QED
    BY <2>1, <2>2
<1>2. ASSUME NEW e \in Exchanges, Finish(e)
      PROVE  InLine(d)'
  <2>1. CASE \E next \in Exchanges : HandsOver(e, next)
    <3>1. PICK next \in Exchanges : HandsOver(e, next)
      BY <2>1
    <3>2. d # e /\ d # next /\ pc[d] = "waiting" /\ pool'[d] = pool[d] /\ pool[d] \in Exchanges
      BY <3>1 DEF HandsOver, Inv, Types
    <3>3. PICK i \in 1..Len(waiters[pool[d]]) : waiters[pool[d]][i] = d
      BY <3>2 DEF WaitersAreInLine
    <3>4. CASE pool[d] = pool[e]
      <4>1. i # 1
        BY <3>1, <3>2, <3>3, <3>4 DEF HandsOver
      <4>2. /\ i - 1 \in 1..Len(waiters'[pool[d]]) /\ i - 1 \in 1..(Len(waiters[pool[d]]) - 1)
            /\ (i - 1) + 1 = i
        BY <3>1, <3>3, <3>4, <4>1 DEF HandsOver
      <4>3. waiters'[pool[d]][i - 1] = d
        BY <3>1, <3>3, <3>4, <4>2 DEF HandsOver
      <4> QED
        BY <3>2, <4>2, <4>3
    <3>5. CASE pool[d] # pool[e]
      BY <3>1, <3>2, <3>3, <3>5 DEF HandsOver
    <3> QED
      BY <3>4, <3>5
  <2>2. CASE ~\E next \in Exchanges : HandsOver(e, next)
    <3>1. pc[d] = "waiting" /\ UNCHANGED <<waiters, pool>>
      BY <1>2, <2>2, FinishEffect
    <3> QED
      BY <3>1 DEF WaitersAreInLine
  <2> QED
    BY <2>1, <2>2
<1>3. ~Abort
  BY DEF Abort, Inv, Types
<1>4. CASE UNCHANGED vars
  BY <1>4 DEF vars, WaitersAreInLine
<1> QED
  BY <1>1, <1>2, <1>3, <1>4 DEF Next

(***************************************************************************)
(* An arrival gets in nobody's way: who finds a free slot finds nobody in  *)
(* line, and who waits goes to the end of it.                              *)
(***************************************************************************)
LEMMA ArrivalsStayBehind ==
  ASSUME Inv, WaitersAreInLine, NEW d \in Exchanges, pc[d] = "waiting",
         NEW e \in Exchanges, NEW p \in Exchanges, Arrive(e, p)
  PROVE  /\ Ahead(d)' \subseteq Ahead(d)
         /\ \A f \in Exchanges : ~slot[f] /\ slot'[f] => pool'[f] # pool[d]
<1>1. d # e /\ pool'[d] = pool[d] /\ pool[d] \in Exchanges
  BY ArriveEffect DEF Inv, Types
<1>2. PICK k \in 1..Len(waiters[pool[d]]) : waiters[pool[d]][k] = d
  BY DEF WaitersAreInLine, InLine
<1>3. ASSUME NEW f \in Exchanges, ~slot[f], slot'[f], pool'[f] = pool[d]
      PROVE  FALSE
  <2>1. f = e /\ p = pool[d] /\ inUse[p] < Slots
    BY <1>3, ArriveEffect
  <2>2. waiters[p] # <<>> /\ inUse[p] \in Nat
    BY <1>2, <2>1 DEF Inv, Types
  <2> QED
    BY <2>1, <2>2, SlotsAssumption DEF Inv, LineMeansFull
<1>4. CASE waiters' = waiters
  BY <1>1, <1>3, <1>4 DEF Ahead
<1>5. CASE Lines(e, p)
  <2>1. waiters[pool[d]] \in Seq(Exchanges) /\ waiters'[pool[d]] \in Seq(Exchanges)
    BY <1>1, InvStep DEF Inv, Types, Next
  <2> DEFINE line == waiters[pool[d]]
             grown == waiters'[pool[d]]
  <2>2. ASSUME NEW i \in DOMAIN grown, NEW j \in DOMAIN grown, i < j, grown[j] = d
        PROVE  i \in DOMAIN line /\ j \in DOMAIN line /\ line[i] = grown[i] /\ line[j] = d
    <3>1. CASE pool[d] = p
      <4>1. /\ Len(grown) = Len(line) + 1 /\ Len(line) \in Nat /\ grown[Len(line) + 1] = e
            /\ \A n \in 1..Len(line) : grown[n] = line[n]
        BY <1>5, <3>1 DEF Lines
      <4>2. DOMAIN line = 1..Len(line) /\ DOMAIN grown = 1..(Len(line) + 1)
        BY <2>1, <4>1
      <4>3. j # Len(line) + 1
        BY <1>1, <2>2, <4>1
      <4>4. i \in 1..Len(line) /\ j \in 1..Len(line)
        <5> HIDE DEF line, grown
        <5> QED
          BY <2>2, <4>1, <4>2, <4>3
      <4> QED
        BY <2>2, <4>1, <4>2, <4>4
    <3>2. CASE pool[d] # p
      BY <1>1, <1>5, <2>2, <3>2 DEF Lines
    <3> QED
      BY <3>1, <3>2
  <2>3. Ahead(d) = {f \in Exchanges : \E i, j \in DOMAIN line : i < j /\ line[i] = f /\ line[j] = d}
    BY DEF Ahead
  <2>4. Ahead(d)' = {f \in Exchanges : \E i, j \in DOMAIN grown : i < j /\ grown[i] = f /\ grown[j] = d}
    BY <1>1 DEF Ahead
  <2> HIDE DEF line, grown
  <2>5. Ahead(d)' \subseteq Ahead(d)
    BY <2>2, <2>3, <2>4
  <2> QED
    BY <1>3, <2>5
<1> QED
  BY <1>4, <1>5, ArriveEffect

(***************************************************************************)
(* A slot that is handed over goes to the first in line, who is in front   *)
(* of everybody else there, and the line moves up.                         *)
(***************************************************************************)
LEMMA HandoverGoesToTheFirst ==
  ASSUME Inv, WaitersAreInLine, NEW d \in Exchanges, pc[d] = "waiting", pc'[d] = "waiting",
         NEW e \in Exchanges, NEW next \in Exchanges, HandsOver(e, next),
         waiters' \in [Exchanges -> Seq(Exchanges)]
  PROVE  /\ Ahead(d)' \subseteq Ahead(d)
         /\ \A f \in Exchanges : ~slot[f] /\ slot'[f] /\ pool'[f] = pool[d] => f \in Ahead(d)
<1> DEFINE line == waiters[pool[d]]
           moved == waiters'[pool[d]]
<1>1. d # e /\ d # next /\ pool' = pool /\ pool[d] \in Exchanges
  BY DEF HandsOver, Inv, Types
<1>2. line \in Seq(Exchanges) /\ moved \in Seq(Exchanges)
  BY <1>1 DEF Inv, Types
<1>3. PICK k \in 1..Len(line) : line[k] = d
  BY DEF WaitersAreInLine, InLine
<1>4. Ahead(d) = {f \in Exchanges : \E i, j \in DOMAIN line : i < j /\ line[i] = f /\ line[j] = d}
  BY DEF Ahead
<1>5. Ahead(d)' = {f \in Exchanges : \E i, j \in DOMAIN moved : i < j /\ moved[i] = f /\ moved[j] = d}
  BY <1>1 DEF Ahead
<1>6. CASE pool[d] # pool[e]
  <2>1. moved = line
    BY <1>1, <1>6 DEF HandsOver
  <2>2. \A f \in Exchanges : ~slot[f] /\ slot'[f] => f = next
    BY DEF HandsOver
  <2>3. pool'[next] # pool[d]
    BY <1>6 DEF HandsOver
  <2> HIDE DEF line, moved
  <2> QED
    BY <1>4, <1>5, <2>1, <2>2, <2>3
<1>7. CASE pool[d] = pool[e]
  <2>1. /\ Len(line) \in Nat \ {0} /\ next = line[1] /\ Len(moved) = Len(line) - 1
        /\ \A i \in 1..(Len(line) - 1) : moved[i] = line[i + 1]
    BY <1>7 DEF HandsOver
  <2>2. k # 1
    BY <1>1, <1>3, <2>1
  <2>3. next \in Ahead(d)
    <3>1. 1 \in DOMAIN line /\ k \in DOMAIN line /\ 1 < k
      BY <1>2, <1>3, <2>1, <2>2
    <3> HIDE DEF line, moved
    <3> QED
      BY <1>3, <1>4, <2>1, <3>1
  <2>4. ASSUME NEW i \in DOMAIN moved, NEW j \in DOMAIN moved, i < j, moved[j] = d
        PROVE  /\ i + 1 \in DOMAIN line /\ j + 1 \in DOMAIN line /\ i + 1 < j + 1
               /\ line[i + 1] = moved[i] /\ line[j + 1] = d
    <3>1. DOMAIN line = 1..Len(line) /\ DOMAIN moved = 1..(Len(line) - 1)
      <4>1. line \in Seq(Exchanges) /\ moved \in Seq(Exchanges)
        BY <1>2
      <4>2. Len(moved) = Len(line) - 1
        BY <2>1
      <4> HIDE DEF line, moved
      <4>3. DOMAIN line = 1..Len(line) /\ DOMAIN moved = 1..Len(moved)
        BY <4>1
      <4> QED
        BY <4>2, <4>3
    <3>2. i \in 1..(Len(line) - 1) /\ j \in 1..(Len(line) - 1)
      BY <2>4, <3>1
    <3> HIDE DEF line, moved
    <3> QED
      BY <2>1, <2>4, <3>1, <3>2
  <2>5. \A f \in Exchanges : ~slot[f] /\ slot'[f] => f = next
    BY DEF HandsOver
  <2> HIDE DEF line, moved
  <2>6. Ahead(d)' \subseteq Ahead(d)
    BY <1>4, <1>5, <2>4
  <2> QED
    BY <2>3, <2>5, <2>6
<1> QED
  BY <1>6, <1>7

(***************************************************************************)
(* First come, first served, in any order of arrivals, ends of work,       *)
(* evictions and the abort.                                                *)
(***************************************************************************)
THEOREM FirstComeFirstServed == Spec => NoOvertaking
<1> DEFINE Fair == \A d \in Exchanges : pc[d] = "waiting" /\ pc'[d] = "waiting" =>
                     /\ Ahead(d)' \subseteq Ahead(d)
                     /\ \A e \in Exchanges :
                          ~slot[e] /\ slot'[e] /\ pool'[e] = pool[d] => e \in Ahead(d)
<1>1. Init => Inv /\ WaitersAreInLine
  BY InitInv DEF Init, WaitersAreInLine
<1>2. Inv /\ WaitersAreInLine /\ [Next]_vars => (Inv /\ WaitersAreInLine)'
  BY InvStep, InLineStep
<1>3. Inv /\ WaitersAreInLine /\ [Next]_vars => [Fair]_vars
  <2> SUFFICES ASSUME Inv, WaitersAreInLine, Next,
                      NEW d \in Exchanges, pc[d] = "waiting", pc'[d] = "waiting"
      PROVE  /\ Ahead(d)' \subseteq Ahead(d)
             /\ \A e \in Exchanges :
                  ~slot[e] /\ slot'[e] /\ pool'[e] = pool[d] => e \in Ahead(d)
    OBVIOUS
  <2>1. CASE \E e, p \in Exchanges : Arrive(e, p)
    BY <2>1, ArrivalsStayBehind
  <2>2. ASSUME NEW e \in Exchanges, Finish(e)
        PROVE  /\ Ahead(d)' \subseteq Ahead(d)
               /\ \A f \in Exchanges :
                    ~slot[f] /\ slot'[f] /\ pool'[f] = pool[d] => f \in Ahead(d)
    <3>1. waiters' \in [Exchanges -> Seq(Exchanges)]
      BY InvStep DEF Inv, Types
    <3>2. CASE \E next \in Exchanges : HandsOver(e, next)
      BY <3>1, <3>2, HandoverGoesToTheFirst
    <3>3. CASE ~\E next \in Exchanges : HandsOver(e, next)
      <4>1. UNCHANGED <<waiters, pool>> /\ \A f \in Exchanges : slot'[f] => slot[f]
        BY <2>2, <3>3, FinishEffect
      <4> QED
        BY <4>1 DEF Ahead
    <3> QED
      BY <3>2, <3>3
  <2>3. ~Abort
    BY DEF Abort, Inv, Types
  <2> QED
    BY <2>1, <2>2, <2>3 DEF Next
<1> QED
  BY <1>1, <1>2, <1>3, PTL DEF Spec, NoOvertaking
-----------------------------------------------------------------------------
(***************************************************************************)
(* The cache of pools keeps its bound.                                     *)
(***************************************************************************)
CacheOK == cache \in Seq(Entry) /\ Len(cache) <= MaxKeys

(***************************************************************************)
(* A sequence without one of its elements is one shorter.                  *)
(***************************************************************************)
LEMMA RemovesOne ==
  ASSUME NEW X, NEW s \in Seq(X), NEW i \in 1..Len(s)
  PROVE  RemoveAt(s, i) \in Seq(X) /\ Len(RemoveAt(s, i)) = Len(s) - 1
<1> DEFINE a == SubSeq(s, 1, i-1)
           b == SubSeq(s, i+1, Len(s))
<1>1. a \in Seq(X) /\ Len(a) = i - 1
  BY SubSeqProperties
<1>2. b \in Seq(X) /\ Len(b) = Len(s) - i
  BY SubSeqProperties
<1> HIDE DEF a, b
<1>3. RemoveAt(s, i) = a \o b
  BY DEF RemoveAt, a, b
<1>4. a \o b \in Seq(X) /\ Len(a \o b) = Len(a) + Len(b)
  BY <1>1, <1>2, ConcatProperties
<1>5. Len(s) \in Nat
  OBVIOUS
<1> QED
  BY <1>1, <1>2, <1>3, <1>4, <1>5

(***************************************************************************)
(* A lookup makes its pool the latest, and may push out the oldest.        *)
(***************************************************************************)
LEMMA LookupKeepsTheBound ==
  ASSUME CacheOK, NEW e \in Exchanges, NEW p \in Exchanges, Lookup(e, p)
  PROVE  CacheOK'
<1> DEFINE k == KeyOf[e]
           mine == [key |-> k, pool |-> p]
           rest == Without(k)
           pools == Append(rest, mine)
<1>1. mine \in Entry
  BY KeyAssumption DEF Entry
<1>2. /\ cache \in Seq(Entry) /\ Len(cache) <= MaxKeys /\ Len(cache) \in Nat
      /\ MaxKeys \in Nat \ {0}
  BY MaxKeysAssumption DEF CacheOK
<1>3. rest \in Seq(Entry) /\ Len(rest) <= Len(cache)
  <2>1. CASE Cached(k) = {}
    BY <1>2, <2>1 DEF Without
  <2>2. CASE Cached(k) # {}
    <3> DEFINE i == CHOOSE n \in DOMAIN cache : cache[n].key = k
    <3>1. \E n \in DOMAIN cache : cache[n].key = k
      BY <2>2 DEF Cached, ToSet
    <3>2. i \in 1..Len(cache)
      BY <1>2, <3>1
    <3> HIDE DEF i
    <3>3. RemoveAt(cache, i) \in Seq(Entry) /\ Len(RemoveAt(cache, i)) = Len(cache) - 1
      BY <1>2, <3>2, RemovesOne
    <3>4. rest = RemoveAt(cache, i)
      BY <2>2 DEF Without, i
    <3> QED
      BY <1>2, <3>3, <3>4
  <2> QED
    BY <2>1, <2>2
<1>4. cache' = Evict(pools)
  BY DEF Lookup
<1> HIDE DEF mine, rest
<1>5. pools \in Seq(Entry) /\ Len(pools) = Len(rest) + 1 /\ Len(rest) \in Nat
  BY <1>1, <1>3
<1> HIDE DEF pools
<1>6. CASE Len(pools) > MaxKeys
  <2>1. pools # <<>> /\ cache' = Tail(pools)
    BY <1>4, <1>5, <1>6 DEF Evict
  <2>2. Tail(pools) \in Seq(Entry) /\ Len(Tail(pools)) = Len(pools) - 1
    BY <1>5, <2>1
  <2> QED
    BY <1>2, <1>3, <1>5, <2>1, <2>2 DEF CacheOK
<1>7. CASE ~(Len(pools) > MaxKeys)
  BY <1>2, <1>3, <1>4, <1>5, <1>7 DEF CacheOK, Evict
<1> QED
  BY <1>6, <1>7

(***************************************************************************)
(* The whole of TypeOK.                                                    *)
(***************************************************************************)
AllTypes == Inv /\ CacheOK /\ aborted \in BOOLEAN

(***************************************************************************)
(* A bulkhead starts with nobody in it and nothing cached.                 *)
(***************************************************************************)
LEMMA AllTypesStart == Init => AllTypes
<1> SUFFICES ASSUME Init PROVE CacheOK /\ aborted \in BOOLEAN
  BY InitInv DEF AllTypes
<1>1. cache \in Seq(Entry) /\ Len(cache) = 0
  BY DEF Init
<1>2. Len(cache) <= MaxKeys
  BY <1>1, MaxKeysAssumption
<1> QED
  BY <1>1, <1>2 DEF CacheOK, Init

(***************************************************************************)
(* Its steps keep the invariant, the size of the cache and the stop        *)
(* signal.                                                                 *)
(***************************************************************************)
LEMMA AllTypesStep ==
  ASSUME AllTypes, [Next]_vars
  PROVE  AllTypes'
<1>1. Inv'
  BY InvStep DEF AllTypes
<1>2. CacheOK'
  <2>1. ASSUME NEW e \in Exchanges, NEW p \in Exchanges, Arrive(e, p)
        PROVE  CacheOK'
    BY <2>1, LookupKeepsTheBound DEF Arrive, Admit, Queue, AdmitAborted, Shed, AllTypes
  <2>2. ASSUME UNCHANGED cache
        PROVE  CacheOK'
    BY <2>2 DEF CacheOK, AllTypes
  <2> QED
    BY <2>1, <2>2 DEF Next, Finish, Abort, vars
<1>3. aborted' \in BOOLEAN
  BY DEF AllTypes, Next, Arrive, Admit, Queue, AdmitAborted, Shed, Finish, Abort, vars
<1> QED
  BY <1>1, <1>2, <1>3 DEF AllTypes

(***************************************************************************)
(* That is the shape the bulkhead promises.                                *)
(***************************************************************************)
LEMMA AllTypesAreOK == AllTypes => TypeOK
<1> SUFFICES ASSUME AllTypes PROVE TypeOK
  OBVIOUS
<1>1. ASSUME NEW p \in Exchanges PROVE IsInjective(waiters[p])
  <2>1. DOMAIN waiters[p] = 1..Len(waiters[p])
    BY DEF AllTypes, Inv, Types
  <2> QED
    BY <2>1 DEF AllTypes, Inv, LineOnce, IsInjective
<1> QED
  BY <1>1 DEF AllTypes, Inv, Types, CacheOK, TypeOK


(***************************************************************************)
(* What is in the batch was not given to the route, and who waits for it   *)
(* is in the batch; who is in it and does not wait was rejected by a stop. *)
(* What the source still has was neither given to the route nor answered.  *)
(***************************************************************************)
BatchIsFresh ==
  /\ \A m \in Messages : source[m] # "taken" => handled[m] = 0 /\ m \notin B!ToSet(batch)
  /\ \A m \in B!ToSet(batch) : handled[m] = 0
  /\ B!ToSet(resolvers) \subseteq B!ToSet(batch)
  /\ \A m \in B!ToSet(batch) \ B!ToSet(resolvers) : stopped /\ promise[m] = "rejected"

(***************************************************************************)
(* What a delivery carries was given to the route.                         *)
(***************************************************************************)
DeliveriesAreHandled ==
  \A d \in running : \A m \in B!ToSet(d.messages) : m \in Messages /\ handled[m] > 0

BatchInv == B!TypeOK /\ BatchIsFresh /\ DeliveriesAreHandled /\ B!DeliveriesAreExact

(***************************************************************************)
(* What a sequence holds once an element was appended.                     *)
(***************************************************************************)
LEMMA AppendedTo ==
  ASSUME NEW X, NEW s \in Seq(X), NEW x \in X
  PROVE  /\ Append(s, x) \in Seq(X) /\ Len(Append(s, x)) = Len(s) + 1 /\ Len(s) \in Nat
         /\ B!ToSet(Append(s, x)) = B!ToSet(s) \union {x} /\ B!ToSet(Append(s, x)) \subseteq X
<1> DEFINE t == Append(s, x)
<1>1. /\ t \in Seq(X) /\ Len(t) = Len(s) + 1 /\ DOMAIN t = 1..Len(s)+1 /\ DOMAIN s = 1..Len(s)
      /\ Len(s) \in Nat /\ t[Len(s)+1] = x /\ \A j \in 1..Len(s) : t[j] = s[j]
  OBVIOUS
<1> HIDE DEF t
<1>2. B!ToSet(t) \subseteq B!ToSet(s) \union {x}
  <2>1. \A j \in 1..Len(s)+1 : j \in 1..Len(s) \/ j = Len(s)+1 BY <1>1
  <2> QED BY <1>1, <2>1 DEF B!ToSet
<1>3. ASSUME NEW j \in 1..Len(s) PROVE s[j] \in B!ToSet(t)
  <2>1. j \in DOMAIN t /\ t[j] = s[j] BY <1>1
  <2> QED BY <2>1 DEF B!ToSet
<1>4. x \in B!ToSet(t)
  <2>1. Len(s)+1 \in DOMAIN t BY <1>1
  <2> QED BY <1>1, <2>1 DEF B!ToSet
<1>5. B!ToSet(t) = B!ToSet(s) \union {x} BY <1>1, <1>2, <1>3, <1>4 DEF B!ToSet
<1>6. B!ToSet(t) \subseteq X BY <1>1 DEF B!ToSet
<1> QED BY <1>1, <1>5, <1>6 DEF t

(***************************************************************************)
(* A batch of nothing.                                                     *)
(***************************************************************************)
LEMMA NothingIsInTheEmpty ==
  ASSUME NEW X
  PROVE  <<>> \in Seq(X) /\ Len(<<>>) = 0 /\ B!ToSet(<<>>) = {}
BY DEF B!ToSet

(***************************************************************************)
(* A batch of one message.                                                 *)
(***************************************************************************)
LEMMA OneIsInTheSingle ==
  ASSUME NEW X, NEW x \in X
  PROVE  <<x>> \in Seq(X) /\ Len(<<x>>) = 1 /\ B!ToSet(<<x>>) = {x}
<1>1. <<x>> \in Seq(X) /\ Len(<<x>>) = 1 /\ DOMAIN <<x>> = {1} /\ <<x>>[1] = x
  OBVIOUS
<1> QED BY <1>1 DEF B!ToSet

(***************************************************************************)
(* A delivery of messages that the route was not given begins.             *)
(***************************************************************************)
LEMMA BeginsADelivery ==
  ASSUME B!TypeOK, DeliveriesAreHandled, B!DeliveriesAreExact,
         NEW messages \in Seq(Messages), NEW answered \in Seq(Messages), NEW b \in BOOLEAN,
         Len(messages) <= Size, B!Begin(messages, answered, b),
         \A m \in B!ToSet(messages) : handled[m] = 0,
         B!ToSet(answered) \subseteq B!ToSet(messages),
         \A m \in B!ToSet(messages) \ B!ToSet(answered) : stopped /\ promise[m] = "rejected",
         UNCHANGED <<promise, stopped>>
  PROVE  /\ running' \subseteq B!Delivery /\ \A d \in running' : Len(d.messages) <= Size
         /\ handled' \in [Messages -> Nat]
         /\ \A m \in Messages \ B!ToSet(messages) : handled'[m] = handled[m]
         /\ DeliveriesAreHandled' /\ B!DeliveriesAreExact'
<1> DEFINE new == [messages |-> messages, waiters |-> answered, batched |-> b]
<1>1. /\ new \in B!Delivery /\ new.messages = messages /\ new.waiters = answered
      /\ running' = running \union {new}
  BY DEF B!Begin, B!Delivery
<1> HIDE DEF new
<1>2. B!ToSet(messages) \subseteq Messages BY DEF B!ToSet
<1>3. /\ \A m \in B!ToSet(messages) : handled'[m] = 1
      /\ \A m \in Messages \ B!ToSet(messages) : handled'[m] = handled[m]
      /\ \A m \in Messages : handled'[m] >= handled[m] /\ handled[m] \in Nat
      /\ handled' \in [Messages -> Nat]
  BY <1>2 DEF B!Begin, B!TypeOK
<1>4. running' \subseteq B!Delivery /\ \A d \in running' : Len(d.messages) <= Size
  BY <1>1 DEF B!TypeOK
<1>5. ASSUME NEW d \in running', NEW m \in B!ToSet(d.messages)
      PROVE  m \in Messages /\ handled'[m] > 0
  <2>1. CASE d = new BY <1>1, <1>2, <1>3, <1>5, <2>1
  <2>2. CASE d \in running BY <1>3, <1>5, <2>2 DEF DeliveriesAreHandled
  <2> QED BY <1>1, <2>1, <2>2
<1>6. DeliveriesAreHandled' BY <1>5 DEF DeliveriesAreHandled
<1>7. B!HandledAtMostOnce' BY <1>3 DEF B!HandledAtMostOnce, B!DeliveriesAreExact
<1>8. B!AnsweredByOwnBatch'
  <2>1. \A m \in Messages : promise'[m] = "resolved" => handled'[m] > 0
    BY <1>3 DEF B!DeliveriesAreExact, B!AnsweredByOwnBatch
  <2>2. ASSUME NEW d \in running'
        PROVE  /\ B!ToSet(d.waiters) \subseteq B!ToSet(d.messages)
               /\ \A m \in B!ToSet(d.messages) \ B!ToSet(d.waiters) :
                    stopped' /\ promise'[m] = "rejected"
    <3>1. CASE d = new BY <1>1, <3>1
    <3>2. CASE d \in running BY <3>2 DEF B!DeliveriesAreExact, B!AnsweredByOwnBatch
    <3> QED BY <1>1, <3>1, <3>2
  <2> QED BY <2>1, <2>2 DEF B!AnsweredByOwnBatch
<1> QED BY <1>3, <1>4, <1>6, <1>7, <1>8 DEF B!DeliveriesAreExact

(***************************************************************************)
(* A message is emitted, or does not parse.                                *)
(***************************************************************************)
LEMMA EmitIsFresh ==
  ASSUME BatchInv, NEW m \in Messages, B!Emit(m)
  PROVE  BatchInv'
BY DEF BatchInv, B!Emit, B!TypeOK, BatchIsFresh, DeliveriesAreHandled, B!DeliveriesAreExact,
       B!HandledAtMostOnce, B!AnsweredByOwnBatch

(***************************************************************************)
(* A message that cannot be parsed is a batch of its own, which is         *)
(* refused.                                                                *)
(***************************************************************************)
LEMMA ParseFailureIsDelivered ==
  ASSUME B!ConstantsOK, BatchInv, NEW m \in Messages, B!ParseFails(m)
  PROVE  BatchInv'
<1> DEFINE one == <<m>>
<1>1. /\ source[m] = "parsing" /\ source' = [source EXCEPT ![m] = "taken"]
      /\ B!Begin(one, one, FALSE) /\ UNCHANGED <<batch, resolvers, timer, stopped, promise>>
  BY DEF B!ParseFails
<1>2. one \in Seq(Messages) /\ Len(one) = 1 /\ B!ToSet(one) = {m} BY OneIsInTheSingle
<1> HIDE DEF one
<1>3. Len(one) <= Size BY <1>2 DEF B!ConstantsOK
<1>4. handled[m] = 0 /\ m \notin B!ToSet(batch) BY <1>1 DEF BatchInv, BatchIsFresh
<1>5. /\ running' \subseteq B!Delivery /\ \A d \in running' : Len(d.messages) <= Size
      /\ handled' \in [Messages -> Nat]
      /\ \A o \in Messages \ B!ToSet(one) : handled'[o] = handled[o]
      /\ DeliveriesAreHandled' /\ B!DeliveriesAreExact'
  BY <1>1, <1>2, <1>3, <1>4, BeginsADelivery DEF BatchInv
<1>6. B!TypeOK' BY <1>1, <1>5 DEF BatchInv, B!TypeOK
<1>7. B!ToSet(batch) \subseteq Messages BY DEF BatchInv, B!TypeOK, B!ToSet
<1>8. BatchIsFresh' BY <1>1, <1>2, <1>4, <1>5, <1>7 DEF BatchInv, BatchIsFresh, B!TypeOK
<1> QED BY <1>5, <1>6, <1>8 DEF BatchInv

(***************************************************************************)
(* A message is collected, which may fill the batch.                       *)
(***************************************************************************)
LEMMA CollectIsFresh ==
  ASSUME B!ConstantsOK, BatchInv, NEW m \in Messages, B!Collect(m)
  PROVE  BatchInv'
<1> DEFINE more == Append(batch, m)
           answered == Append(resolvers, m)
<1>1. /\ source[m] # "taken" /\ source' = [source EXCEPT ![m] = "taken"]
      /\ timer' = (timer \/ Len(batch) = 0) /\ UNCHANGED <<stopped, promise>>
      /\ Len(batch) + 1 >= Size => B!Flush(more, answered)
      /\ ~(Len(batch) + 1 >= Size) =>
           batch' = more /\ resolvers' = answered /\ UNCHANGED <<running, handled>>
  BY DEF B!Collect, B!Arrives, BatchInv, B!TypeOK
<1>2. /\ batch \in Seq(Messages) /\ resolvers \in Seq(Messages) /\ Len(batch) < Size
      /\ Len(batch) \in Nat /\ Size \in Nat \ {0}
  BY DEF BatchInv, B!TypeOK, B!ConstantsOK
<1>3. more \in Seq(Messages) /\ Len(more) = Len(batch) + 1 /\ B!ToSet(more) = B!ToSet(batch) \union {m}
  BY <1>2, AppendedTo
<1>4. answered \in Seq(Messages) /\ B!ToSet(answered) = B!ToSet(resolvers) \union {m}
  BY <1>2, AppendedTo
<1> HIDE DEF more, answered
<1>5. handled[m] = 0 /\ m \notin B!ToSet(batch) BY <1>1 DEF BatchInv, BatchIsFresh
<1>6. /\ B!ToSet(batch) \subseteq Messages /\ source'[m] = "taken"
      /\ source' \in [Messages -> {"unsent", "parsing", "taken"}]
      /\ \A o \in Messages \ {m} : source'[o] = source[o]
  BY <1>1 DEF BatchInv, B!TypeOK, B!ToSet
<1>7. timer' \in BOOLEAN BY <1>1 DEF BatchInv, B!TypeOK
<1>8. /\ \A o \in B!ToSet(more) : handled[o] = 0
      /\ B!ToSet(answered) \subseteq B!ToSet(more)
      /\ \A o \in B!ToSet(more) \ B!ToSet(answered) : stopped /\ promise[o] = "rejected"
  BY <1>3, <1>4, <1>5 DEF BatchInv, BatchIsFresh
<1>9. CASE Len(batch) + 1 >= Size
  <2>1. B!Begin(more, answered, TRUE) /\ batch' = <<>> /\ resolvers' = <<>>
    BY <1>1, <1>9 DEF B!Flush
  <2>2. Len(more) <= Size BY <1>2, <1>3
  <2>3. /\ running' \subseteq B!Delivery /\ \A d \in running' : Len(d.messages) <= Size
        /\ handled' \in [Messages -> Nat]
        /\ \A o \in Messages \ B!ToSet(more) : handled'[o] = handled[o]
        /\ DeliveriesAreHandled' /\ B!DeliveriesAreExact'
    BY <1>1, <1>3, <1>4, <1>8, <2>1, <2>2, BeginsADelivery DEF BatchInv
  <2>4. /\ batch' \in Seq(Messages) /\ Len(batch') = 0 /\ B!ToSet(batch') = {}
        /\ resolvers' \in Seq(Messages) /\ B!ToSet(resolvers') = {}
    BY <2>1, NothingIsInTheEmpty
  <2>5. B!TypeOK' BY <1>1, <1>2, <1>6, <1>7, <2>3, <2>4 DEF BatchInv, B!TypeOK
  <2>6. BatchIsFresh' BY <1>3, <1>6, <2>3, <2>4 DEF BatchInv, BatchIsFresh
  <2> QED BY <2>3, <2>5, <2>6 DEF BatchInv
<1>10. CASE ~(Len(batch) + 1 >= Size)
  <2>1. batch' = more /\ resolvers' = answered /\ UNCHANGED <<running, handled, stopped, promise>>
    BY <1>1, <1>10
  <2>2. Len(batch') < Size BY <1>2, <1>3, <1>10, <2>1
  <2>3. B!TypeOK' BY <1>3, <1>4, <1>6, <1>7, <2>1, <2>2 DEF BatchInv, B!TypeOK
  <2>4. BatchIsFresh' BY <1>3, <1>5, <1>6, <1>8, <2>1 DEF BatchInv, BatchIsFresh
  <2>5. DeliveriesAreHandled' /\ B!DeliveriesAreExact'
    BY <2>1 DEF BatchInv, DeliveriesAreHandled, B!DeliveriesAreExact, B!HandledAtMostOnce,
                B!AnsweredByOwnBatch
  <2> QED BY <2>3, <2>4, <2>5 DEF BatchInv
<1> QED BY <1>9, <1>10

(***************************************************************************)
(* The timer flushes what there is.                                        *)
(***************************************************************************)
LEMMA TimerFlushes ==
  ASSUME B!ConstantsOK, BatchInv, B!TimerFires
  PROVE  BatchInv'
<1>1. CASE batch = <<>>
  BY <1>1 DEF B!TimerFires, BatchInv, B!TypeOK, BatchIsFresh, DeliveriesAreHandled,
              B!DeliveriesAreExact, B!HandledAtMostOnce, B!AnsweredByOwnBatch
<1>2. CASE batch # <<>>
  <2>1. /\ B!Begin(batch, resolvers, TRUE) /\ batch' = <<>> /\ resolvers' = <<>> /\ timer' = FALSE
        /\ UNCHANGED <<source, stopped, promise>>
    BY <1>2 DEF B!TimerFires, B!Flush
  <2>2. /\ batch \in Seq(Messages) /\ resolvers \in Seq(Messages) /\ Len(batch) <= Size
        /\ B!ToSet(batch) \subseteq Messages
    BY DEF BatchInv, B!TypeOK, B!ConstantsOK, B!ToSet
  <2>3. /\ running' \subseteq B!Delivery /\ \A d \in running' : Len(d.messages) <= Size
        /\ handled' \in [Messages -> Nat]
        /\ \A o \in Messages \ B!ToSet(batch) : handled'[o] = handled[o]
        /\ DeliveriesAreHandled' /\ B!DeliveriesAreExact'
    BY <2>1, <2>2, BeginsADelivery DEF BatchInv, BatchIsFresh
  <2>4. /\ batch' \in Seq(Messages) /\ Len(batch') = 0 /\ B!ToSet(batch') = {}
        /\ resolvers' \in Seq(Messages) /\ B!ToSet(resolvers') = {}
    BY <2>1, NothingIsInTheEmpty
  <2>5. Len(batch') < Size BY <2>4 DEF B!ConstantsOK
  <2>6. B!TypeOK' BY <2>1, <2>3, <2>4, <2>5 DEF BatchInv, B!TypeOK
  <2>7. BatchIsFresh' BY <2>1, <2>3, <2>4 DEF BatchInv, BatchIsFresh
  <2> QED BY <2>3, <2>6, <2>7 DEF BatchInv
<1> QED BY <1>1, <1>2

(***************************************************************************)
(* A handler is done, and answers the messages it was given.               *)
(***************************************************************************)
LEMMA FinishAnswersItsOwn ==
  ASSUME BatchInv, NEW d \in running, B!Finish(d)
  PROVE  BatchInv'
<1>1. PICK fate \in {"resolved", "rejected"} : B!Settle(B!ToSet(d.waiters), fate)
  BY DEF B!Finish
<1>2. /\ running' \subseteq running /\ timer' \in BOOLEAN
      /\ UNCHANGED <<source, batch, resolvers, stopped, handled>>
  BY DEF B!Finish
<1>3. /\ promise' \in [Messages -> {"pending", "resolved", "rejected"}]
      /\ \A m \in Messages : promise[m] # "pending" => promise'[m] = promise[m]
      /\ \A m \in Messages \ B!ToSet(d.waiters) : promise'[m] = promise[m]
  BY <1>1 DEF BatchInv, B!TypeOK, B!Settle
<1>4. \A e \in running : B!ToSet(e.messages) \subseteq Messages /\ B!ToSet(e.waiters) \subseteq B!ToSet(e.messages)
  BY DEF BatchInv, DeliveriesAreHandled, B!DeliveriesAreExact, B!AnsweredByOwnBatch
<1>5. B!TypeOK' BY <1>2, <1>3 DEF BatchInv, B!TypeOK
<1>6. BatchIsFresh'
  <2>1. B!ToSet(batch) \subseteq Messages BY DEF BatchInv, B!TypeOK, B!ToSet
  <2> QED BY <1>2, <1>3, <2>1 DEF BatchInv, BatchIsFresh
<1>7. DeliveriesAreHandled' BY <1>2 DEF BatchInv, DeliveriesAreHandled
<1>8. B!HandledAtMostOnce' BY <1>2 DEF BatchInv, B!DeliveriesAreExact, B!HandledAtMostOnce
<1>9. \A m \in Messages : promise'[m] = "resolved" => handled'[m] > 0
  BY <1>2, <1>3, <1>4 DEF BatchInv, B!DeliveriesAreExact, B!AnsweredByOwnBatch, DeliveriesAreHandled
<1>10. B!AnsweredByOwnBatch'
  BY <1>2, <1>3, <1>4, <1>9 DEF BatchInv, B!DeliveriesAreExact, B!AnsweredByOwnBatch
<1> QED BY <1>5, <1>6, <1>7, <1>8, <1>10 DEF BatchInv, B!DeliveriesAreExact

(***************************************************************************)
(* A stop rejects who waits for the batch.                                 *)
(***************************************************************************)
LEMMA StopRejects ==
  ASSUME BatchInv, B!Stop
  PROVE  BatchInv'
<1>1. /\ stopped' /\ timer' = FALSE /\ resolvers' = <<>> /\ B!Settle(B!ToSet(resolvers), "rejected")
      /\ UNCHANGED <<source, batch, running, handled>>
  BY DEF B!Stop
<1>2. /\ B!ToSet(batch) \subseteq Messages /\ B!ToSet(resolvers) \subseteq B!ToSet(batch)
      /\ resolvers' \in Seq(Messages) /\ B!ToSet(resolvers') = {}
  <2>1. B!ToSet(batch) \subseteq Messages BY DEF BatchInv, B!TypeOK, B!ToSet
  <2>2. B!ToSet(resolvers) \subseteq B!ToSet(batch) BY DEF BatchInv, BatchIsFresh
  <2> QED BY <1>1, <2>1, <2>2, NothingIsInTheEmpty
<1>3. /\ promise' \in [Messages -> {"pending", "resolved", "rejected"}]
      /\ \A m \in Messages :
           /\ promise[m] # "pending" => promise'[m] = promise[m]
           /\ promise'[m] = "resolved" => promise[m] = "resolved"
           /\ m \in B!ToSet(resolvers) => promise'[m] # "pending"
  BY <1>1 DEF BatchInv, B!TypeOK, B!Settle
<1>4. B!TypeOK' BY <1>1, <1>2, <1>3 DEF BatchInv, B!TypeOK
<1>5. ASSUME NEW m \in B!ToSet(batch) PROVE promise'[m] = "rejected"
  <2>1. m \in Messages /\ handled[m] = 0 BY <1>2 DEF BatchInv, BatchIsFresh
  <2>2. promise[m] # "resolved" BY <2>1 DEF BatchInv, B!DeliveriesAreExact, B!AnsweredByOwnBatch
  <2>3. CASE m \in B!ToSet(resolvers) BY <1>3, <2>1, <2>2, <2>3
  <2>4. CASE m \notin B!ToSet(resolvers) BY <1>3, <2>1, <2>4 DEF BatchInv, BatchIsFresh
  <2> QED BY <2>3, <2>4
<1>6. BatchIsFresh' BY <1>1, <1>2, <1>5 DEF BatchInv, BatchIsFresh
<1>7. DeliveriesAreHandled' BY <1>1 DEF BatchInv, DeliveriesAreHandled
<1>8. B!DeliveriesAreExact'
  BY <1>1, <1>3 DEF BatchInv, DeliveriesAreHandled, B!DeliveriesAreExact, B!HandledAtMostOnce,
                    B!AnsweredByOwnBatch
<1> QED BY <1>4, <1>6, <1>7, <1>8 DEF BatchInv

(***************************************************************************)
(* BatchInv holds at first, and every step keeps it.                       *)
(***************************************************************************)
LEMMA BatchStarts ==
  ASSUME B!ConstantsOK, B!Init
  PROVE  BatchInv
<1>1. /\ batch \in Seq(Messages) /\ Len(batch) = 0 /\ B!ToSet(batch) = {}
      /\ resolvers \in Seq(Messages) /\ B!ToSet(resolvers) = {}
  BY NothingIsInTheEmpty DEF B!Init
<1>2. Len(batch) < Size BY <1>1 DEF B!ConstantsOK
<1>3. B!TypeOK BY <1>1, <1>2 DEF B!Init, B!TypeOK
<1> QED BY <1>1, <1>3 DEF B!Init, BatchInv, BatchIsFresh, DeliveriesAreHandled,
                          B!DeliveriesAreExact, B!HandledAtMostOnce, B!AnsweredByOwnBatch

(***************************************************************************)
(* Every step of the batch consumer keeps its invariant.                   *)
(***************************************************************************)
LEMMA BatchSteps ==
  ASSUME B!ConstantsOK, BatchInv, [B!Next]_(B!vars)
  PROVE  BatchInv'
<1>1. CASE UNCHANGED B!vars
  BY <1>1 DEF B!vars, BatchInv, B!TypeOK, BatchIsFresh, DeliveriesAreHandled,
              B!DeliveriesAreExact, B!HandledAtMostOnce, B!AnsweredByOwnBatch
<1>2. CASE B!Next
  BY <1>2, EmitIsFresh, ParseFailureIsDelivered, CollectIsFresh, TimerFlushes,
     FinishAnswersItsOwn, StopRejects DEF B!Next
<1> QED BY <1>1, <1>2

-----------------------------------------------------------------------------
(***************************************************************************)
(* Whichever of the two a behaviour follows, both keep their invariants.   *)
(***************************************************************************)
QueuesInv == AllTypes /\ BatchInv

(***************************************************************************)
(* The two keep out of each other's way, so both invariants hold.          *)
(***************************************************************************)
LEMMA QueuesAreKept == QSpec => []QueuesInv
<1>1. QInit => QueuesInv
  BY AllTypesStart, BatchStarts, BatchAssumption DEF QInit, QueuesInv
<1>2. QueuesInv /\ [QNext]_<<focus, vars, batchVars>> => QueuesInv'
  <2> SUFFICES ASSUME QueuesInv, [QNext]_<<focus, vars, batchVars>>
               PROVE  QueuesInv'
    OBVIOUS
  <2>1. [Next]_vars
    BY DEF QNext
  <2>2. [B!Next]_(B!vars)
    <3>1. UNCHANGED batchVars => UNCHANGED B!vars
      BY DEF batchVars, B!vars
    <3> QED
      BY <3>1 DEF QNext
  <2> QED
    BY <2>1, <2>2, AllTypesStep, BatchSteps, BatchAssumption DEF QueuesInv
<1> QED
  BY <1>1, <1>2, PTL DEF QSpec

(***************************************************************************)
(* The state of both has its shape; no batch grows past its size, and no   *)
(* cache past its bound.                                                   *)
(***************************************************************************)
THEOREM QueuesHaveTheirTypes == QSpec => []BothTypeOK
<1>1. QueuesInv => BothTypeOK
  BY AllTypesAreOK DEF QueuesInv, BatchInv, BothTypeOK
<1> QED
  BY <1>1, QueuesAreKept, PTL

(***************************************************************************)
(* The route is given each message at most once, and answers it with the   *)
(* batch it was in.                                                        *)
(***************************************************************************)
THEOREM BatchesAreExact == QSpec => []DeliveriesAreExact
<1>1. QueuesInv => DeliveriesAreExact
  BY DEF QueuesInv, BatchInv, DeliveriesAreExact
<1> QED
  BY <1>1, QueuesAreKept, PTL

=============================================================================

-------------------------- MODULE Suspension_proof --------------------------
(***************************************************************************)
(* What TLAPS proves about Suspension, for every set of ids and resumers,  *)
(* every lease, retention and page size, and every bound: its invariants,  *)
(* and then what it promises from one step to the next.                    *)
(***************************************************************************)
EXTENDS Suspension, FiniteSetTheorems, WellFoundedInduction, TLAPS

USE IdsAssumption, NeverAssumption, TtlsAssumption, MaxTimeAssumption,
    LeaseAssumption, RetentionAssumption, DeploysAssumption

(***************************************************************************)
(* A record keeps the shape of a record under every operation of the       *)
(* store.                                                                  *)
(***************************************************************************)
LEMMA TransitionType ==
  ASSUME StoreTypeOK, NEW id \in Ids, NEW from, NEW to \in Suspension, Transition(id, from, to)
  PROVE  records' \in [Ids -> Suspension] /\ expiresAt' = expiresAt
BY DEF StoreTypeOK, Transition, Wins

(***************************************************************************)
(* The four compare-and-swaps (markResumed, claimExpiry, markExpired,      *)
(* markDenied) leave a well-formed store.                                  *)
(***************************************************************************)
LEMMA ClaimType ==
  ASSUME StoreTypeOK, NEW id \in Ids
  PROVE  /\ MarkResumed(id) => records' \in [Ids -> Suspension] /\ expiresAt' = expiresAt
         /\ ClaimExpiry(id) => records' \in [Ids -> Suspension] /\ expiresAt' = expiresAt
         /\ MarkExpired(id) => records' \in [Ids -> Suspension] /\ expiresAt' = expiresAt
         /\ MarkDenied(id) => records' \in [Ids -> Suspension] /\ expiresAt' = expiresAt
<1> /\ records[id] \in Suspension
    /\ clock \in Nat
  BY DEF StoreTypeOK
<1>1. /\ [records[id] EXCEPT !.status = "resumed", !.settledAt = clock] \in Suspension
      /\ [records[id] EXCEPT !.status = "expiring", !.claimedAt = clock] \in Suspension
      /\ [records[id] EXCEPT !.status = "expired", !.settledAt = clock] \in Suspension
      /\ [records[id] EXCEPT !.status = "denied", !.settledAt = clock] \in Suspension
  BY DEF Suspension, Status, Settled, Date
<1> QED
  BY <1>1, TransitionType DEF MarkResumed, ClaimExpiry, MarkExpired, MarkDenied

(***************************************************************************)
(* The actors keep their shape: the operators that move an actor on.       *)
(***************************************************************************)
LEMMA ActorType ==
  ASSUME TypeOK
  PROVE  /\ \A r \in Resumers, pc \in ResumePcs : Go(r, pc) => resume' \in [Resumers -> ResumeState]
         /\ \A r \in Resumers : Return(r) => resume' \in [Resumers -> ResumeState]
         /\ \A id \in Ids : AfterVisit(id) \in SweepState
         /\ PassOver \in SweepState
         /\ IdleSweep \in SweepState
<1> USE DEF TypeOK
<1>1. AbsentRecord \in Suspension
  BY DEF AbsentRecord, Suspension, Status, Date
<1>2. IdleResume \in ResumeState
  BY <1>1 DEF IdleResume, ResumeState, ResumePcs
<1>3. IdleSweep \in SweepState /\ PassOver \in SweepState
  BY DEF IdleSweep, PassOver, SweepState, SweepPcs
<1>4. ASSUME NEW r \in Resumers, NEW pc \in ResumePcs, Go(r, pc)
      PROVE  resume' \in [Resumers -> ResumeState]
  <2>1. [resume[r] EXCEPT !.pc = pc, !.snapshot = AbsentRecord] \in ResumeState
    BY <1>1 DEF ResumeState
  <2> QED
    BY <1>4, <2>1 DEF Go
<1>5. ASSUME NEW id \in Ids
      PROVE  AfterVisit(id) \in SweepState
  BY <1>3 DEF AfterVisit, Rest, SweepState, SweepPcs
<1> QED
  BY <1>2, <1>3, <1>4, <1>5 DEF Return

(***************************************************************************)
(* Acknowledging keeps the replies well formed.                            *)
(***************************************************************************)
LEMMA ReplyType ==
  ASSUME TypeOK
  PROVE  /\ \A id \in Ids, outcome \in Outcomes :
              Acknowledge(id, "resumed", outcome) => replies' \subseteq Reply
         /\ \A r \in Resumers, record \in Suspension :
              resume[r].id \in Ids /\ ReplySettled(r, record) =>
                replies' \subseteq Reply /\ resume' \in [Resumers -> ResumeState]
<1>1. ASSUME NEW id \in Ids, NEW status \in {"resumed", "duplicate"},
             NEW outcome \in Outcomes \union {NotRecorded}, Acknowledge(id, status, outcome)
      PROVE  replies' \subseteq Reply
  BY <1>1 DEF TypeOK, Acknowledge, Reply
<1>2. ASSUME NEW r \in Resumers, NEW record \in Suspension,
             resume[r].id \in Ids, ReplySettled(r, record)
      PROVE  replies' \subseteq Reply /\ resume' \in [Resumers -> ResumeState]
  <2>1. record.terminal # NoOutcome => record.terminal \in Outcomes
    BY DEF Suspension
  <2>2. replies' \subseteq Reply
    BY <1>1, <1>2, <2>1 DEF ReplySettled, TypeOK
  <2>3. resume' \in [Resumers -> ResumeState]
    BY <1>2, ActorType DEF ReplySettled
  <2> QED
    BY <2>2, <2>3
<1> QED
  BY <1>1, <1>2

(***************************************************************************)
(* The other store operations keep records well formed too.                *)
(***************************************************************************)
LEMMA SweepOpsType ==
  ASSUME StoreTypeOK
  PROVE  /\ \A before : ReleaseExpiring(before) =>
              records' \in [Ids -> Suspension] /\ expiresAt' = expiresAt
         /\ \A before : PurgeSettled(before) =>
              records' \in [Ids -> Suspension] /\ expiresAt' = expiresAt
         /\ \A id \in Ids, outcome \in Outcomes : RecordTerminal(id, outcome) =>
              records' \in [Ids -> Suspension] /\ expiresAt' = expiresAt
<1>1. \A id \in Ids : records[id] \in Suspension
  BY DEF StoreTypeOK
<1>2. \A id \in Ids :
        [records[id] EXCEPT !.status = "suspended", !.claimedAt = Never] \in Suspension
  BY <1>1 DEF Suspension, Status, Date
<1>3. AbsentRecord \in Suspension
  BY DEF AbsentRecord, Suspension, Status, Date
<1>4. \A id \in Ids, outcome \in Outcomes :
        [records[id] EXCEPT !.terminal = outcome] \in Suspension
  BY <1>1 DEF Suspension
<1>5. ASSUME NEW before, ReleaseExpiring(before)
      PROVE  records' \in [Ids -> Suspension] /\ expiresAt' = expiresAt
  BY <1>1, <1>2, <1>5 DEF ReleaseExpiring
<1>6. ASSUME NEW before, PurgeSettled(before)
      PROVE  records' \in [Ids -> Suspension] /\ expiresAt' = expiresAt
  BY <1>1, <1>3, <1>6 DEF PurgeSettled
<1>7. ASSUME NEW id \in Ids, NEW outcome \in Outcomes, RecordTerminal(id, outcome)
      PROVE  records' \in [Ids -> Suspension] /\ expiresAt' = expiresAt
  BY <1>4, <1>7 DEF RecordTerminal, StoreTypeOK
<1> QED
  BY <1>5, <1>6, <1>7

(***************************************************************************)
(* The type invariant, with the fact that an actor in the middle of its    *)
(* work has an id: one lemma for each kind of actor.                       *)
(***************************************************************************)
TypeInv == TypeOK /\ ActorsKnowTheirId

(***************************************************************************)
(* Type correctness over a step of a park, a store fault in it included.   *)
(***************************************************************************)
LEMMA ParkType ==
  ASSUME TypeInv, NEW id \in Ids, ParkStep(id) \/ ParkFault(id)
  PROVE  TypeInv'
<1> USE DEF TypeInv, TypeOK, StoreTypeOK, ActorsKnowTheirId, host, world, storeVars,
            GoPark, ParkPcs
<1>1. CASE ParkCreate(id)
  <2>1. PICK ttl \in Ttls : Create(id, ttl)
    BY <1>1 DEF ParkCreate
  <2>2. [AbsentRecord EXCEPT !.status = "suspended"] \in Suspension
    BY DEF AbsentRecord, Suspension, Status, Settled, Date
  <2>3. (IF ttl = Never THEN Never ELSE clock + ttl) \in Date
    BY DEF Date
  <2> QED
    BY <1>1, <2>1, <2>2, <2>3 DEF ParkCreate, Create
<1>2. CASE ParkAnnounce(id)
  BY <1>2 DEF ParkAnnounce
<1>3. CASE ParkCancelled(id)
  BY <1>3, ClaimType DEF ParkCancelled
<1>4. CASE ParkDeny(id)
  BY <1>4, ClaimType DEF ParkDeny
<1>5. CASE ParkFault(id)
  BY <1>5 DEF ParkFault, Fault
<1> QED
  BY <1>1, <1>2, <1>3, <1>4, <1>5 DEF ParkStep

(***************************************************************************)
(* A resume call that moves on keeps its id, one that returns needs none.  *)
(***************************************************************************)
LEMMA ResumeMoves ==
  ASSUME TypeInv, NEW r \in Resumers,
         \/ Return(r)
         \/ resume[r].pc # "idle" /\ \E pc \in ResumePcs : Go(r, pc)
  PROVE  /\ resume' \in [Resumers -> ResumeState]
         /\ \A s \in Resumers : resume'[s].pc # "idle" => resume'[s].id \in Ids
<1> USE DEF TypeInv, TypeOK
<1>1. CASE Return(r)
  BY <1>1, ActorType DEF Return, IdleResume, ActorsKnowTheirId
<1>2. ASSUME resume[r].pc # "idle", NEW pc \in ResumePcs, Go(r, pc)
      PROVE  /\ resume' \in [Resumers -> ResumeState]
             /\ \A s \in Resumers : resume'[s].pc # "idle" => resume'[s].id \in Ids
  <2>1. resume' \in [Resumers -> ResumeState]
    BY <1>2, ActorType
  <2>2. resume'[r] = [resume[r] EXCEPT !.pc = pc, !.snapshot = AbsentRecord]
    BY <1>2 DEF Go
  <2>3. resume'[r].id = resume[r].id
    BY <2>2 DEF ResumeState
  <2>4. \A s \in Resumers \ {r} : resume'[s] = resume[s]
    BY <1>2 DEF Go
  <2> QED
    BY <1>2, <2>1, <2>3, <2>4 DEF ActorsKnowTheirId
<1> QED
  BY <1>1, <1>2

(***************************************************************************)
(* Type correctness over a step of a resume call.                          *)
(***************************************************************************)
LEMMA ResumeType ==
  ASSUME TypeInv, NEW r \in Resumers, ResumeStep(r) \/ ResumeFault(r)
  PROVE  TypeInv'
<1> USE DEF TypeInv, TypeOK, StoreTypeOK, host, world, storeVars
<1> DEFINE Moved == /\ resume' \in [Resumers -> ResumeState]
                    /\ \A s \in Resumers : resume'[s].pc # "idle" => resume'[s].id \in Ids
<1>1. CASE \E id \in Ids : ResumeRead(r, id)
  <2>1. PICK id \in Ids : ResumeRead(r, id)
    BY <1>1
  <2>2. [pc |-> "authorizing", id |-> id, snapshot |-> records[id]] \in ResumeState
    BY DEF ResumeState, ResumePcs
  <2>3. Moved
    BY <2>1, <2>2 DEF ResumeRead, ActorsKnowTheirId
  <2> QED
    BY <2>1, <2>3 DEF ResumeRead, ActorsKnowTheirId
<1>2. CASE ResumeRefused(r) \/ ResumeInvalid(r)
  <2>1. Moved
    BY <1>2, ResumeMoves DEF ResumeRefused, ResumeInvalid
  <2> QED
    BY <1>2, <2>1 DEF ResumeRefused, ResumeInvalid, ActorsKnowTheirId
<1>3. CASE ResumeIntact(r)
  <2>1. Moved
    BY <1>3, ResumeMoves DEF ResumeIntact, Accepted, ResumePcs
  <2> QED
    BY <1>3, <2>1 DEF ResumeIntact, ActorsKnowTheirId
<1>4. CASE ResumeSettled(r)
  <2>1. resume[r].snapshot \in Suspension /\ resume[r].id \in Ids
    BY <1>4 DEF ResumeSettled, ResumeState, ActorsKnowTheirId
  <2>2. Moved
    BY <1>4, ResumeMoves DEF ResumeSettled, ReplySettled
  <2>3. replies' \subseteq Reply
    BY <1>4, <2>1, ReplyType DEF ResumeSettled
  <2> QED
    BY <1>4, <2>2, <2>3 DEF ResumeSettled, ActorsKnowTheirId
<1>5. ASSUME NEW pc \in ResumePcs, resume[r].pc # "idle", ClaimOrReply(r, pc)
      PROVE  TypeInv'
  <2>1. resume[r].id \in Ids /\ records[resume[r].id] \in Suspension
    BY <1>5 DEF ActorsKnowTheirId
  <2>2. Moved
    BY <1>5, ResumeMoves DEF ClaimOrReply, ReplySettled
  <2>3. replies' \subseteq Reply
    BY <1>5, <2>1, ReplyType DEF ClaimOrReply
  <2>4. records' \in [Ids -> Suspension] /\ expiresAt' = expiresAt
    BY <1>5, <2>1, ClaimType DEF ClaimOrReply
  <2> QED
    BY <1>5, <2>2, <2>3, <2>4 DEF ClaimOrReply, ActorsKnowTheirId
<1>6. CASE ResumeOverdue(r) \/ ResumeChanged(r)
  BY <1>5, <1>6 DEF ResumeOverdue, ResumeChanged, Accepted, ResumePcs
<1>7. CASE ResumeClaim(r)
  <2>1. resume[r].id \in Ids /\ records[resume[r].id] \in Suspension
    BY <1>7 DEF ResumeClaim, ActorsKnowTheirId
  <2>2. Moved
    BY <1>7, ResumeMoves DEF ResumeClaim, ReplySettled, ResumePcs
  <2>3. replies' \subseteq Reply
    BY <1>7, <2>1, ReplyType DEF ResumeClaim
  <2>4. records' \in [Ids -> Suspension] /\ expiresAt' = expiresAt
    BY <1>7, <2>1, ClaimType DEF ResumeClaim
  <2> QED
    BY <1>7, <2>2, <2>3, <2>4 DEF ResumeClaim, ActorsKnowTheirId
<1>8. CASE ResumeLate(r) \/ ResumeBroken(r)
  <2>1. resume[r].id \in Ids
    BY <1>8 DEF ResumeLate, ResumeBroken, ActorsKnowTheirId
  <2>2. Moved
    BY <1>8, ResumeMoves DEF ResumeLate, ResumeBroken, ResumePcs
  <2>3. records' \in [Ids -> Suspension] /\ expiresAt' = expiresAt
    BY <1>8, <2>1, SweepOpsType DEF ResumeLate, ResumeBroken, Outcomes
  <2> QED
    BY <1>8, <2>2, <2>3 DEF ResumeLate, ResumeBroken, ActorsKnowTheirId
<1>9. CASE ResumeTell(r) \/ ResumeRun(r) \/ ResumeNotify(r)
  <2>1. resume[r].id \in Ids
    BY <1>9 DEF ResumeTell, ResumeRun, ResumeNotify, ActorsKnowTheirId
  <2>2. Moved
    BY <1>9, ResumeMoves DEF ResumeTell, ResumeRun, ResumeNotify, ResumePcs
  <2>3. notices' \in [Ids -> Nat] /\ refusals' \in [Ids -> Nat] /\ runs' \in [Ids -> Nat]
    BY <1>9, <2>1 DEF ResumeTell, ResumeRun, ResumeNotify
  <2> QED
    BY <1>9, <2>2, <2>3 DEF ResumeTell, ResumeRun, ResumeNotify, ActorsKnowTheirId
<1>10. CASE ResumeEnd(r)
  <2>1. resume[r].id \in Ids
    BY <1>10 DEF ResumeEnd, ActorsKnowTheirId
  <2>2. Moved
    BY <1>10, ResumeMoves DEF ResumeEnd
  <2>3. PICK outcome \in {"completed", "failed"} :
          /\ RecordTerminal(resume[r].id, outcome)
          /\ Acknowledge(resume[r].id, "resumed", outcome)
    BY <1>10 DEF ResumeEnd
  <2>4. replies' \subseteq Reply
    BY <2>1, <2>3, ReplyType DEF Outcomes
  <2>5. records' \in [Ids -> Suspension] /\ expiresAt' = expiresAt
    BY <2>1, <2>3, SweepOpsType DEF Outcomes
  <2> QED
    BY <1>10, <2>2, <2>4, <2>5 DEF ResumeEnd, ActorsKnowTheirId
<1>11. CASE ResumeFinalize(r)
  <2>1. resume[r].id \in Ids
    BY <1>11 DEF ResumeFinalize, ActorsKnowTheirId
  <2>2. Moved
    BY <1>11, ResumeMoves DEF ResumeFinalize
  <2>3. records' \in [Ids -> Suspension] /\ expiresAt' = expiresAt
    BY <1>11, <2>1, ClaimType DEF ResumeFinalize
  <2> QED
    BY <1>11, <2>2, <2>3 DEF ResumeFinalize, ActorsKnowTheirId
<1>12. CASE ResumeFault(r)
  <2>1. Moved
    BY <1>12, ResumeMoves DEF ResumeFault
  <2>2. replies' \subseteq Reply
    BY <1>12, ReplyType DEF ResumeFault, Outcomes, ActorsKnowTheirId
  <2> QED
    BY <1>12, <2>1, <2>2 DEF ResumeFault, Fault, ActorsKnowTheirId
<1> QED
  BY <1>1, <1>2, <1>3, <1>4, <1>6, <1>7, <1>8, <1>9, <1>10, <1>11, <1>12 DEF ResumeStep

(***************************************************************************)
(* Type correctness over a step of the sweeper.                            *)
(***************************************************************************)
LEMMA SweepType ==
  ASSUME TypeInv, SweepStep \/ SweepFault \/ SweepPurgeFault \/ SweepAbort
  PROVE  TypeInv'
<1> USE DEF TypeInv, TypeOK, StoreTypeOK, host, world, storeVars
<1>1. CASE SweepBegin
  <2>1. sweep' = [IdleSweep EXCEPT !.pc = "purge", !.now = clock,
                                  !.boot = (sweep.pc = "boot")]
    BY <1>1 DEF SweepBegin
  <2>2. IdleSweep \in SweepState /\ clock \in Nat /\ (sweep.pc = "boot") \in BOOLEAN
    BY ActorType
  <2>3. sweep' \in SweepState /\ sweep'.pc = "purge"
    BY <2>1, <2>2 DEF SweepState, SweepPcs
  <2> QED
    BY <1>1, <2>3, SweepOpsType DEF SweepBegin, ActorsKnowTheirId
<1>2. CASE SweepPurge
  <2>1. sweep' \in SweepState /\ sweep'.pc = "scan"
    BY <1>2 DEF SweepPurge, SweepState, SweepPcs
  <2>2. records' \in [Ids -> Suspension] /\ expiresAt' = expiresAt /\ lastPurgeAt' \in Date
    BY <1>2, SweepOpsType DEF SweepPurge, Date, SweepState
  <2> QED
    BY <1>2, <2>1, <2>2 DEF SweepPurge, ActorsKnowTheirId
<1>3. CASE SweepScan
  <2> DEFINE page == FindExpired(sweep.now, SweepBatch, sweep.cursor)
  <2>1. page \subseteq Ids /\ (Cardinality(page) >= SweepBatch) \in BOOLEAN
    BY DEF FindExpired, Due
  <2>2. [sweep EXCEPT !.pc = "batch", !.due = page,
                      !.full = (Cardinality(page) >= SweepBatch)] \in SweepState
    <3> HIDE DEF page
    <3> QED
      BY <2>1 DEF SweepState, SweepPcs
  <2>3. PassOver.pc \in {"idle", "report"}
    BY DEF PassOver, IdleSweep
  <2>4. sweep' \in SweepState /\ sweep'.pc \in {"idle", "report", "batch"}
    <3>1. sweep' = PassOver \/ sweep' = [sweep EXCEPT !.pc = "batch", !.due = page,
                      !.full = (Cardinality(page) >= SweepBatch)]
      BY <1>3 DEF SweepScan
    <3>2. [sweep EXCEPT !.pc = "batch", !.due = page,
                      !.full = (Cardinality(page) >= SweepBatch)].pc = "batch"
      BY DEF SweepState
    <3> QED
      BY <2>2, <2>3, <3>1, <3>2, ActorType
  <2> QED
    BY <1>3, <2>4 DEF SweepScan, ActorsKnowTheirId
<1>4. \A id \in Ids : AfterVisit(id).pc \in {"batch", "scan", "idle", "report"}
  BY DEF AfterVisit, Rest, PassOver, IdleSweep, SweepState
<1>5. CASE SweepHalt \/ SweepSkip
  <2>1. sweep' \in SweepState /\ sweep'.pc \in {"batch", "scan", "idle", "report"}
    BY <1>4, <1>5, ActorType DEF SweepHalt, SweepSkip, PassOver, IdleSweep
  <2> QED
    BY <1>5, <2>1 DEF SweepHalt, SweepSkip, ActorsKnowTheirId
<1>6. CASE SweepClaim
  <2>1. PICK id \in Ids :
          /\ ClaimExpiry(id)
          /\ sweep' = IF Wins(id, "suspended")
                      THEN [sweep EXCEPT !.pc = "expiring", !.item = id]
                      ELSE AfterVisit(id)
    BY <1>6 DEF SweepClaim
  <2>2. [sweep EXCEPT !.pc = "expiring", !.item = id] \in SweepState
    BY DEF SweepState, SweepPcs
  <2>3. [sweep EXCEPT !.pc = "expiring", !.item = id].item = id
    BY DEF SweepState
  <2>4. sweep' \in SweepState /\ (sweep'.pc \in {"expiring", "expired"} => sweep'.item \in Ids)
    BY <1>4, <2>1, <2>2, <2>3, ActorType
  <2> QED
    BY <1>6, <2>1, <2>4, ClaimType DEF SweepClaim, ActorsKnowTheirId
<1>7. CASE SweepNotify
  <2>1. sweep.item \in Ids
    BY <1>7 DEF SweepNotify, ActorsKnowTheirId
  <2>2. sweep' \in SweepState /\ sweep'.item = sweep.item
    BY <1>7 DEF SweepNotify, SweepState, SweepPcs
  <2> QED
    BY <1>7, <2>1, <2>2 DEF SweepNotify, ActorsKnowTheirId
<1>8. CASE SweepFinalize
  <2>1. sweep.item \in Ids
    BY <1>8 DEF SweepFinalize, ActorsKnowTheirId
  <2>2. sweep' \in SweepState /\ sweep'.pc \in {"batch", "scan", "idle", "report"}
    BY <1>4, <1>8, <2>1, ActorType DEF SweepFinalize
  <2> QED
    BY <1>8, <2>1, <2>2, ClaimType DEF SweepFinalize, ActorsKnowTheirId
<1>9. CASE SweepReport
  <2>1. sweep' \in SweepState /\ sweep'.pc = "idle"
    BY <1>9, ActorType DEF SweepReport, IdleSweep
  <2>2. reported' \subseteq Ids
    BY <1>9 DEF SweepReport, ResumedWithoutTerminal
  <2> QED
    BY <1>9, <2>1, <2>2 DEF SweepReport, ActorsKnowTheirId
<1>10. CASE SweepFault
  <2>1. PICK id \in Ids : sweep' = AfterVisit(id)
    BY <1>10 DEF SweepFault, ActorsKnowTheirId
  <2>2. sweep' \in SweepState /\ sweep'.pc \in {"batch", "scan", "idle", "report"}
    BY <1>4, <2>1, ActorType
  <2> QED
    BY <1>10, <2>2 DEF SweepFault, Fault, ActorsKnowTheirId
<1>11. CASE SweepPurgeFault
  <2>1. sweep' = [sweep EXCEPT !.pc = "scan"] /\ lastPurgeAt' = sweep.now
    BY <1>11 DEF SweepPurgeFault
  <2>2. sweep' \in SweepState /\ sweep'.pc = "scan" /\ lastPurgeAt' \in Date
    BY <2>1 DEF SweepState, SweepPcs, Date
  <2> QED
    BY <1>11, <2>2 DEF SweepPurgeFault, Fault, ActorsKnowTheirId
<1>12. CASE SweepAbort
  <2>1. sweep' \in SweepState /\ sweep'.pc = "idle"
    BY <1>12, ActorType DEF SweepAbort, IdleSweep
  <2> QED
    BY <1>12, <2>1 DEF SweepAbort, Fault, ActorsKnowTheirId
<1> QED
  BY <1>1, <1>2, <1>3, <1>5, <1>6, <1>7, <1>8, <1>9, <1>10, <1>11, <1>12 DEF SweepStep

(***************************************************************************)
(* Type correctness over the steps of the process, the clock and the store *)
(* faults.                                                                 *)
(***************************************************************************)
LEMMA HostType ==
  ASSUME TypeInv, TimePasses \/ Start \/ Crash \/ Stop \/ Exit
  PROVE  TypeInv'
<1> USE DEF TypeInv, TypeOK, StoreTypeOK, ActorsKnowTheirId, host, world, storeVars, actorVars
<1>1. ASSUME Forget
      PROVE  /\ process' = "down" /\ lastPurgeAt' \in Date
             /\ park' \in [Ids -> ParkPcs]
             /\ resume' \in [Resumers -> ResumeState] /\ \A r \in Resumers : resume'[r].pc = "idle"
             /\ sweep' \in SweepState /\ sweep'.pc = "idle"
  <2>1. IdleResume \in ResumeState /\ IdleResume.pc = "idle"
    BY DEF IdleResume, ResumeState, ResumePcs, AbsentRecord, Suspension, Status, Date
  <2> QED
    BY <1>1, <2>1, ActorType DEF Forget, IdleSweep, Date, ParkPcs
<1>2. CASE TimePasses
  BY <1>2 DEF TimePasses, Tick
<1>3. CASE Start
  <2>1. sweep' \in SweepState /\ sweep'.pc = "boot"
    BY <1>3 DEF Start, IdleSweep, SweepState, SweepPcs
  <2>2. deploy' \in [Ids -> {"same", "changed", "missing"}]
    BY <1>3 DEF Start
  <2> QED
    BY <1>3, <2>1, <2>2 DEF Start
<1>4. CASE Crash
  BY <1>1, <1>4 DEF Crash
<1>5. CASE Stop
  BY <1>5 DEF Stop
<1>6. CASE Exit
  BY <1>1, <1>6 DEF Exit
<1> QED
  BY <1>2, <1>3, <1>4, <1>5, <1>6

(***************************************************************************)
(* Every reachable state has the shape TypeOK gives it, whatever the       *)
(* actors, the restarts and the store faults do.                           *)
(***************************************************************************)
LEMMA TypeInvariant == Spec => []TypeInv
<1>1. Init => TypeInv
  BY DEF Init, StoreInit, TypeInv, TypeOK, StoreTypeOK, ActorsKnowTheirId, IdleResume, IdleSweep,
         ResumeState, ResumePcs, SweepState, SweepPcs, ParkPcs, AbsentRecord, Suspension,
         Status, Date, Reply
<1>2. TypeInv /\ [Next]_vars => TypeInv'
  <2>1. SUFFICES ASSUME TypeInv, [Next]_vars PROVE TypeInv'
    OBVIOUS
  <2>2. CASE UNCHANGED vars
    BY <2>1, <2>2 DEF TypeInv, TypeOK, StoreTypeOK, ActorsKnowTheirId, vars, storeVars, host,
                      actorVars, world
  <2>3. CASE Next
    BY <2>1, <2>3, ParkType, ResumeType, SweepType, HostType DEF Next
  <2> QED
    BY <2>1, <2>2, <2>3
<1> QED
  BY <1>1, <1>2, PTL DEF Spec

(***************************************************************************)
(* Every variable of the suspension subsystem keeps its shape, for any     *)
(* number of ids, resume calls, restarts and store faults.                 *)
(***************************************************************************)
THEOREM TypeCorrect == Spec => []TypeOK
BY TypeInvariant, PTL DEF TypeInv

-----------------------------------------------------------------------------
(* One fate. *)

(***************************************************************************)
(* No store operation but create makes a missing record appear, and none   *)
(* makes a resumed one live again.                                         *)
(***************************************************************************)
Sealed == {"resumed", "absent"}

StatusesKept ==
  \A id \in Ids : /\ StatusOf(id) \in Sealed => StatusOf(id)' \in Sealed
                  /\ StatusOf(id) = "absent" => StatusOf(id)' = "absent"

(***************************************************************************)
(* A compare-and-swap never takes a resumed record away from its winner    *)
(* and never brings a purged one back.                                     *)
(***************************************************************************)
LEMMA CasKeepsStatuses ==
  ASSUME TypeInv, NEW id \in Ids
  PROVE  /\ MarkResumed(id) => StatusesKept
         /\ ClaimExpiry(id) => StatusesKept
         /\ MarkExpired(id) => StatusesKept
         /\ MarkDenied(id) => StatusesKept
BY DEF TypeInv, TypeOK, StoreTypeOK, StatusesKept, Sealed, StatusOf, Suspension,
       MarkResumed, ClaimExpiry, MarkExpired, MarkDenied, Transition, Wins

(***************************************************************************)
(* Healing, purging and recording an outcome never make a settled record   *)
(* live again.                                                             *)
(***************************************************************************)
LEMMA SweepOpsKeepStatuses ==
  ASSUME TypeInv
  PROVE  /\ \A before : ReleaseExpiring(before) => StatusesKept
         /\ \A before : PurgeSettled(before) => StatusesKept
         /\ \A id \in Ids : \A outcome : RecordTerminal(id, outcome) => StatusesKept
<1> USE DEF TypeInv, TypeOK, StoreTypeOK, StatusesKept, Sealed, StatusOf, Suspension
<1>1. ASSUME NEW before, ReleaseExpiring(before)
      PROVE  StatusesKept
  BY <1>1 DEF ReleaseExpiring
<1>2. ASSUME NEW before, PurgeSettled(before)
      PROVE  StatusesKept
  BY <1>2 DEF PurgeSettled, Purgeable, AbsentRecord
<1>3. ASSUME NEW id \in Ids, NEW outcome, RecordTerminal(id, outcome)
      PROVE  StatusesKept
  BY <1>3 DEF RecordTerminal
<1> QED
  BY <1>1, <1>2, <1>3

(***************************************************************************)
(* A park knows nothing of runs and notices, and a fresh record belongs to *)
(* an id nobody knew.                                                      *)
(***************************************************************************)
LEMMA ParkSafe ==
  ASSUME TypeInv, TypeInv', OneFateInv, NEW id \in Ids, ParkStep(id) \/ ParkFault(id)
  PROVE  OneFateInv'
<1> USE DEF TypeInv, TypeOK, StoreTypeOK, OneFateInv, GoPark, host, world, storeVars
<1>1. CASE ParkCreate(id)
  <2>1. PICK ttl \in Ttls : Create(id, ttl)
    BY <1>1 DEF ParkCreate
  <2>2. /\ \A j \in Ids \ {id} : StatusOf(j)' = StatusOf(j) /\ expiresAt'[j] = expiresAt[j]
                                 /\ park'[j] = park[j]
        /\ park[id] = "none" /\ park'[id] = "created"
        /\ UNCHANGED <<clock, resume, sweep, runs, notices>>
    BY <1>1, <2>1 DEF ParkCreate, Create, StatusOf
  <2>a. /\ \A r \in Resumers : resume[r].id # id
        /\ id \notin sweep.due /\ sweep.item # id
        /\ notices[id] = 0
    BY <2>2 DEF UnparkedIsUnknown
  <2>3. UnparkedIsUnknown' /\ RunsFromResumed'
    BY <2>2 DEF UnparkedIsUnknown, RunsFromResumed
  <2>4. WinnerIsAlone'
    <3>1. ASSUME NEW r \in Resumers, resume'[r].pc \in WinnerPcs
          PROVE  /\ resume[r].pc \in WinnerPcs /\ resume[r].id \in Ids \ {id}
                 /\ StatusOf(resume[r].id)' = StatusOf(resume[r].id)
      BY <2>2, <2>a, <3>1 DEF ActorsKnowTheirId, WinnerPcs, StatusOf
    <3> QED
      BY <2>2, <3>1 DEF WinnerIsAlone
  <2>5. ExpiriesAreOverdue'
    <3>1. \A j \in Ids \ {id} : \A now : Overdue(j, now) => Overdue(j, now)'
      BY <2>2 DEF Overdue
    <3>2. sweep.due \subseteq Ids
      BY DEF SweepState
    <3>3. \A j \in Ids : notices'[j] > 0 => Overdue(j, clock)'
      BY <2>2, <2>a DEF ExpiriesAreOverdue, Overdue
    <3>4. \A j \in sweep'.due : Overdue(j, sweep.now)'
      <4>1. ASSUME NEW j \in sweep.due
            PROVE  j \in Ids \ {id} /\ Overdue(j, sweep.now)
        BY <2>a, <3>2 DEF ExpiriesAreOverdue
      <4> QED
        BY <2>2, <4>1 DEF Overdue
    <3>5. sweep'.pc \in {"expiring", "expired"} =>
            Overdue(sweep.item, clock)' /\ runs'[sweep'.item] = 0
      BY <2>2, <2>a DEF ExpiriesAreOverdue, ActorsKnowTheirId, Overdue
    <3>6. \A r \in Resumers : resume'[r].pc \in {"expiring", "expired", "telling"} =>
            Overdue(resume[r].id, clock)' /\ runs'[resume'[r].id] = 0
      BY <2>2, <2>a DEF ExpiriesAreOverdue, ActorsKnowTheirId, Overdue
    <3> QED
      BY <2>2, <3>3, <3>4, <3>5, <3>6 DEF ExpiriesAreOverdue
  <2> QED
    BY <2>2, <2>3, <2>4, <2>5 DEF RunsAtMostOnce, RunOrLapse
<1>2. CASE ~ParkCreate(id)
  <2>1. /\ UNCHANGED <<clock, expiresAt, resume, sweep, runs, notices>>
        /\ \A j \in Ids : park'[j] = "none" => park[j] = "none"
        /\ StatusesKept
    BY <1>2, CasKeepsStatuses, ClaimType
    DEF ParkStep, ParkAnnounce, ParkCancelled, ParkDeny, ParkFault, Fault, StatusesKept, StatusOf
  <2>2. UnparkedIsUnknown'
    BY <2>1 DEF UnparkedIsUnknown, StatusesKept
  <2>3. RunsFromResumed'
    BY <2>1 DEF RunsFromResumed, StatusesKept, Sealed
  <2>4. WinnerIsAlone'
    BY <2>1 DEF WinnerIsAlone, StatusesKept, Sealed, ActorsKnowTheirId, WinnerPcs
  <2>5. ExpiriesAreOverdue'
    BY <2>1 DEF ExpiriesAreOverdue, Overdue
  <2> QED
    BY <2>1, <2>2, <2>3, <2>4, <2>5 DEF RunsAtMostOnce, RunOrLapse
<1> QED
  BY <1>1, <1>2

(***************************************************************************)
(* What a step of a resume call may do without harm: leave the other calls *)
(* alone, come to own a sealed record it alone owns, begin a continuation  *)
(* before the deadline, tell an expiry past it.                            *)
(***************************************************************************)
LEMMA ResumeFrame ==
  ASSUME TypeInv, TypeInv', OneFateInv, NEW r \in Resumers,
         UNCHANGED <<clock, expiresAt, park, sweep>>, StatusesKept,
         \A s \in Resumers \ {r} : resume'[s] = resume[s],
         resume'[r].id # Never => park[resume'[r].id] # "none",
         resume'[r].pc \in WinnerPcs =>
           /\ StatusOf(resume[r].id)' \in Sealed
           /\ resume'[r].pc \in {"won", "telling"} => runs'[resume'[r].id] = 0
           /\ \A s \in Resumers \ {r} :
                ~(resume[s].pc \in WinnerPcs /\ resume[s].id = resume'[r].id),
         resume'[r].pc \in {"expiring", "expired", "telling"} =>
           Overdue(resume'[r].id, clock) /\ runs'[resume'[r].id] = 0,
         \A id \in Ids : runs'[id] # runs[id] =>
           /\ runs'[id] = 1 /\ notices'[id] = 0
           /\ StatusOf(id) \in Sealed /\ ~Overdue(id, clock)
           /\ resume[r].pc = "won" /\ resume[r].id = id,
         \A id \in Ids : notices'[id] # notices[id] =>
           Overdue(id, clock) /\ runs'[id] = 0 /\ park[id] # "none"
  PROVE  OneFateInv'
<1> USE DEF TypeInv, OneFateInv
<1>1. UnparkedIsUnknown'
  <2> SUFFICES ASSUME NEW id \in Ids, park'[id] = "none"
      PROVE  /\ StatusOf(id)' = "absent" /\ runs'[id] = 0 /\ notices'[id] = 0
             /\ id \notin sweep'.due /\ sweep'.item # id
             /\ \A s \in Resumers : resume'[s].id # id
    BY DEF UnparkedIsUnknown, StatusOf
  <2>1. /\ StatusOf(id) = "absent" /\ runs[id] = 0 /\ notices[id] = 0
        /\ \A s \in Resumers : resume[s].id # id
        /\ id \notin sweep.due /\ sweep.item # id
    BY DEF UnparkedIsUnknown
  <2>2. StatusOf(id)' = "absent" /\ runs'[id] = 0 /\ notices'[id] = 0
    BY <2>1 DEF StatusesKept
  <2>3. id # Never
    BY NeverAssumption
  <2> QED
    BY <2>1, <2>2, <2>3
<1>2. WinnerIsAlone'
  <2> SUFFICES ASSUME NEW s \in Resumers, resume'[s].pc \in WinnerPcs
      PROVE  /\ StatusOf(resume[s].id)' \in Sealed
             /\ resume'[s].pc \in {"won", "telling"} => runs'[resume'[s].id] = 0
             /\ \A t \in Resumers \ {s} :
                  ~(resume'[t].pc \in WinnerPcs /\ resume'[t].id = resume'[s].id)
    BY DEF WinnerIsAlone, Sealed, StatusOf
  <2>1. CASE s = r
    BY <2>1
  <2>2. CASE s # r
    <3>1. resume'[s] = resume[s] /\ resume[s].id \in Ids
      BY <2>2 DEF ActorsKnowTheirId, WinnerPcs
    <3>2. StatusOf(resume[s].id) \in Sealed
      BY <3>1 DEF WinnerIsAlone, Sealed
    <3>3. StatusOf(resume[s].id)' \in Sealed
      BY <3>1, <3>2 DEF StatusesKept, StatusOf
    <3>4. resume'[s].pc \in {"won", "telling"} => runs'[resume'[s].id] = 0
      <4>1. resume[s].pc \in {"won", "telling"} => runs[resume[s].id] = 0
        BY DEF WinnerIsAlone, WinnerPcs
      <4>2. ~(resume[r].pc = "won" /\ resume[r].id = resume[s].id)
        BY <2>2, <3>1 DEF WinnerIsAlone, WinnerPcs
      <4>3. runs'[resume[s].id] = runs[resume[s].id]
        BY <3>1, <4>2
      <4> QED
        BY <3>1, <4>1, <4>3
    <3>5. \A t \in Resumers \ {s} :
            ~(resume'[t].pc \in WinnerPcs /\ resume'[t].id = resume'[s].id)
      BY <2>2, <3>1 DEF WinnerIsAlone
    <3> QED
      BY <3>3, <3>4, <3>5
  <2> QED
    BY <2>1, <2>2
<1>3. RunsFromResumed'
  <2> SUFFICES ASSUME NEW id \in Ids, runs'[id] > 0
      PROVE  StatusOf(id)' \in Sealed
    BY DEF RunsFromResumed, Sealed, StatusOf
  <2>1. StatusOf(id) \in Sealed
    BY DEF RunsFromResumed, Sealed
  <2> QED
    BY <2>1 DEF StatusesKept
<1>4. \A id \in Ids : Overdue(id, clock) <=> Overdue(id, clock)'
  BY DEF Overdue
<1>5. ExpiriesAreOverdue'
  <2>1. sweep'.now <= clock' /\ \A id \in sweep'.due : Overdue(id, sweep.now)'
    BY DEF ExpiriesAreOverdue, Overdue
  <2>2. sweep'.pc \in {"expiring", "expired"} =>
          Overdue(sweep.item, clock)' /\ runs'[sweep'.item] = 0
    BY <1>4 DEF ExpiriesAreOverdue, ActorsKnowTheirId
  <2>3. \A s \in Resumers : resume'[s].pc \in {"expiring", "expired", "telling"} =>
          Overdue(resume[s].id, clock)' /\ runs'[resume'[s].id] = 0
    <3> SUFFICES ASSUME NEW s \in Resumers, resume'[s].pc \in {"expiring", "expired", "telling"}
        PROVE  Overdue(resume[s].id, clock)' /\ runs'[resume'[s].id] = 0
      OBVIOUS
    <3>1. resume'[s].id \in Ids
      BY DEF ActorsKnowTheirId
    <3>2. Overdue(resume'[s].id, clock) /\ runs'[resume'[s].id] = 0
      <4>1. CASE s = r
        BY <4>1
      <4>2. CASE s # r
        <5>1. Overdue(resume[s].id, clock) /\ runs[resume[s].id] = 0 /\ resume'[s] = resume[s]
          BY <4>2 DEF ExpiriesAreOverdue
        <5> QED
          BY <3>1, <5>1
      <4> QED
        BY <4>1, <4>2
    <3> QED
      BY <3>2 DEF Overdue
  <2>4. \A id \in Ids : notices'[id] > 0 => Overdue(id, clock)'
    BY <1>4 DEF ExpiriesAreOverdue
  <2> QED
    BY <2>1, <2>2, <2>3, <2>4 DEF ExpiriesAreOverdue
<1>6. RunsAtMostOnce' /\ RunOrLapse'
  BY DEF RunsAtMostOnce, RunOrLapse, TypeOK
<1> QED
  BY <1>1, <1>2, <1>3, <1>5, <1>6

(***************************************************************************)
(* Moving on keeps the id, returning forgets it; the other calls stay.     *)
(***************************************************************************)
LEMMA GoMoves ==
  ASSUME TypeInv, NEW r \in Resumers
  PROVE  /\ \A pc : Go(r, pc) => /\ resume'[r].pc = pc /\ resume'[r].id = resume[r].id
                                /\ \A s \in Resumers \ {r} : resume'[s] = resume[s]
         /\ Return(r) => /\ resume'[r].pc = "idle" /\ resume'[r].id = Never
                         /\ \A s \in Resumers \ {r} : resume'[s] = resume[s]
<1> USE DEF TypeInv, TypeOK
<1>1. ASSUME NEW pc, Go(r, pc)
      PROVE  /\ resume'[r].pc = pc /\ resume'[r].id = resume[r].id
             /\ \A s \in Resumers \ {r} : resume'[s] = resume[s]
  <2>1. resume'[r] = [resume[r] EXCEPT !.pc = pc, !.snapshot = AbsentRecord]
    BY <1>1 DEF Go
  <2>2. resume'[r].pc = pc /\ resume'[r].id = resume[r].id
    BY <2>1 DEF ResumeState
  <2> QED
    BY <1>1, <2>2 DEF Go
<1>2. ASSUME Return(r)
      PROVE  /\ resume'[r].pc = "idle" /\ resume'[r].id = Never
             /\ \A s \in Resumers \ {r} : resume'[s] = resume[s]
  BY <1>2 DEF Return, IdleResume
<1> QED
  BY <1>1, <1>2

(***************************************************************************)
(* Whatever id a resume call answers was parked.                           *)
(***************************************************************************)
LEMMA KnownIsParked ==
  ASSUME TypeInv, OneFateInv, NEW r \in Resumers, resume[r].pc # "idle"
  PROVE  resume[r].id \in Ids /\ park[resume[r].id] # "none"
BY DEF TypeInv, OneFateInv, ActorsKnowTheirId, UnparkedIsUnknown

(***************************************************************************)
(* A step of a resume call, faulty or not, keeps the inductive invariant.  *)
(***************************************************************************)
LEMMA ResumeSafe ==
  ASSUME TypeInv, TypeInv', OneFateInv, NEW r \in Resumers, ResumeStep(r) \/ ResumeFault(r)
  PROVE  OneFateInv'
<1> USE DEF WinnerPcs, Sealed, storeVars, world, host
<1>1. CASE \E id \in Ids : ResumeRead(r, id)
  <2>1. PICK id \in Ids : ResumeRead(r, id)
    BY <1>1
  <2>2. /\ resume'[r].pc = "authorizing" /\ resume'[r].id = id /\ park[id] # "none"
        /\ \A s \in Resumers \ {r} : resume'[s] = resume[s]
    BY <2>1 DEF ResumeRead, TypeInv, TypeOK
  <2>3. UNCHANGED <<clock, expiresAt, park, sweep, records, runs, notices>>
    BY <2>1 DEF ResumeRead
  <2>4. StatusesKept
    BY <2>3 DEF StatusesKept, StatusOf
  <2> QED
    BY <2>2, <2>3, <2>4, ResumeFrame
<1>2. CASE ResumeRefused(r) \/ ResumeInvalid(r) \/ ResumeSettled(r) \/ ResumeFault(r)
  <2>1. Return(r) /\ UNCHANGED <<clock, expiresAt, park, sweep, records, runs, notices>>
    BY <1>2 DEF ResumeRefused, ResumeInvalid, ResumeSettled, ReplySettled, ResumeFault, Fault
  <2>2. StatusesKept
    BY <2>1 DEF StatusesKept, StatusOf
  <2> QED
    BY <2>1, <2>2, GoMoves, ResumeFrame
<1>3. CASE ResumeIntact(r)
  <2>1. Go(r, "validating") /\ UNCHANGED <<clock, expiresAt, park, sweep, records, runs, notices>>
    BY <1>3 DEF ResumeIntact
  <2>2. StatusesKept
    BY <2>1 DEF StatusesKept, StatusOf
  <2>3. resume[r].id \in Ids /\ park[resume[r].id] # "none"
    BY <1>3, KnownIsParked DEF ResumeIntact, Accepted
  <2> QED
    BY <2>1, <2>2, <2>3, GoMoves, ResumeFrame
<1>4. ASSUME resume[r].pc # "idle", NEW pc, ClaimOrReply(r, pc), pc \notin WinnerPcs,
             pc \in {"expiring", "expired"} => Overdue(resume[r].id, clock)
      PROVE  OneFateInv'
  <2>1. resume[r].id \in Ids /\ park[resume[r].id] # "none"
    BY <1>4, KnownIsParked
  <2>2. UNCHANGED <<clock, park, sweep, runs, notices>> /\ ClaimExpiry(resume[r].id)
    BY <1>4 DEF ClaimOrReply
  <2>3. expiresAt' = expiresAt /\ StatusesKept
    BY <2>1, <2>2, CasKeepsStatuses, ClaimType DEF TypeInv, TypeOK
  <2>4. CASE Wins(resume[r].id, "suspended")
    <3>1. Go(r, pc)
      BY <1>4, <2>4 DEF ClaimOrReply
    <3>2. runs[resume[r].id] = 0
      <4>1. runs[resume[r].id] \in Nat
        BY <2>1 DEF TypeInv, TypeOK
      <4>2. ~(runs[resume[r].id] > 0)
        BY <2>1, <2>4 DEF Wins, OneFateInv, RunsFromResumed
      <4> QED
        BY <4>1, <4>2
    <3> QED
      BY <1>4, <2>1, <2>2, <2>3, <3>1, <3>2, GoMoves, ResumeFrame
  <2>5. CASE ~Wins(resume[r].id, "suspended")
    <3>1. Return(r)
      BY <1>4, <2>5 DEF ClaimOrReply, ReplySettled
    <3> QED
      BY <2>2, <2>3, <3>1, GoMoves, ResumeFrame
  <2> QED
    BY <2>4, <2>5
<1>5. CASE ResumeOverdue(r) \/ ResumeChanged(r)
  BY <1>4, <1>5 DEF ResumeOverdue, ResumeChanged, Accepted
<1>6. CASE ResumeClaim(r)
  <2>1. resume[r].id \in Ids /\ park[resume[r].id] # "none"
    BY <1>6, KnownIsParked DEF ResumeClaim
  <2>2. UNCHANGED <<clock, park, sweep, runs, notices>> /\ MarkResumed(resume[r].id)
    BY <1>6 DEF ResumeClaim
  <2>3. expiresAt' = expiresAt /\ StatusesKept
    BY <2>1, <2>2, CasKeepsStatuses, ClaimType DEF TypeInv, TypeOK
  <2>4. CASE Wins(resume[r].id, "suspended")
    <3>1. Go(r, "won")
      BY <1>6, <2>4 DEF ResumeClaim
    <3>2. runs[resume[r].id] = 0
      <4>1. runs[resume[r].id] \in Nat
        BY <2>1 DEF TypeInv, TypeOK
      <4>2. ~(runs[resume[r].id] > 0)
        BY <2>1, <2>4 DEF Wins, OneFateInv, RunsFromResumed
      <4> QED
        BY <4>1, <4>2
    <3>3. \A s \in Resumers : ~(resume[s].pc \in WinnerPcs /\ resume[s].id = resume[r].id)
      BY <2>4 DEF Wins, OneFateInv, WinnerIsAlone
    <3>4. StatusOf(resume[r].id)' = "resumed"
      <4>1. resume'[r].id = resume[r].id
        BY <3>1, GoMoves
      <4>2. records[resume[r].id] \in Suspension /\ records'[resume[r].id] =
              [records[resume[r].id] EXCEPT !.status = "resumed", !.settledAt = clock]
        BY <2>1, <2>2, <2>4 DEF MarkResumed, Transition, TypeInv, TypeOK, StoreTypeOK
      <4> QED
        BY <4>1, <4>2 DEF StatusOf, Suspension
    <3> QED
      BY <2>1, <2>2, <2>3, <3>1, <3>2, <3>3, <3>4, GoMoves, ResumeFrame
  <2>5. CASE ~Wins(resume[r].id, "suspended")
    <3>1. Return(r)
      BY <1>6, <2>5 DEF ResumeClaim, ReplySettled
    <3> QED
      BY <2>2, <2>3, <3>1, GoMoves, ResumeFrame
  <2> QED
    BY <2>4, <2>5
<1>7. ASSUME NEW outcome, RecordTerminal(resume[r].id, outcome), Return(r),
             resume[r].pc # "idle", UNCHANGED <<clock, park, sweep, runs, notices>>
      PROVE  OneFateInv'
  <2>1. StatusesKept /\ expiresAt' = expiresAt
    BY <1>7, KnownIsParked, SweepOpsKeepStatuses DEF RecordTerminal
  <2> QED
    BY <1>7, <2>1, GoMoves, ResumeFrame
<1>8. CASE ResumeBroken(r) \/ ResumeEnd(r)
  BY <1>7, <1>8 DEF ResumeBroken, ResumeEnd
<1>9. CASE ResumeLate(r)
  <2>1. /\ resume[r].pc = "won" /\ Overdue(resume[r].id, clock) /\ Go(r, "telling")
        /\ UNCHANGED <<clock, park, sweep, runs, notices>>
    BY <1>9 DEF ResumeLate
  <2>2. resume[r].id \in Ids /\ park[resume[r].id] # "none"
    BY <2>1, KnownIsParked
  <2>3. StatusesKept /\ expiresAt' = expiresAt
    BY <1>9, <2>2, SweepOpsKeepStatuses DEF ResumeLate, RecordTerminal
  <2>4. /\ StatusOf(resume[r].id) \in Sealed /\ runs[resume[r].id] = 0
        /\ \A s \in Resumers \ {r} :
             ~(resume[s].pc \in WinnerPcs /\ resume[s].id = resume[r].id)
    BY <2>1 DEF OneFateInv, WinnerIsAlone
  <2>5. resume'[r].id = resume[r].id /\ StatusOf(resume[r].id)' \in Sealed
    BY <2>1, <2>2, <2>3, <2>4, GoMoves DEF StatusesKept, StatusOf
  <2> QED
    BY <2>1, <2>2, <2>3, <2>4, <2>5, GoMoves, ResumeFrame
<1>10. CASE ResumeTell(r)
  <2>1. /\ resume[r].pc = "telling" /\ Return(r)
        /\ notices' = [notices EXCEPT ![resume[r].id] = @ + 1]
        /\ UNCHANGED <<clock, expiresAt, park, sweep, records, runs>>
    BY <1>10 DEF ResumeTell
  <2>2. resume[r].id \in Ids /\ park[resume[r].id] # "none"
    BY <2>1, KnownIsParked
  <2>3. Overdue(resume[r].id, clock) /\ runs[resume[r].id] = 0
    BY <2>1 DEF OneFateInv, ExpiriesAreOverdue
  <2>4. StatusesKept
    BY <2>1 DEF StatusesKept, StatusOf
  <2>5. \A id \in Ids : notices'[id] # notices[id] => id = resume[r].id
    BY <2>1 DEF TypeInv, TypeOK
  <2> QED
    BY <2>1, <2>2, <2>3, <2>4, <2>5, GoMoves, ResumeFrame
<1>11. CASE ResumeRun(r)
  <2>1. /\ resume[r].pc = "won" /\ ~Overdue(resume[r].id, clock) /\ Go(r, "running")
        /\ runs' = [runs EXCEPT ![resume[r].id] = @ + 1]
        /\ UNCHANGED <<clock, expiresAt, park, sweep, records, notices>>
    BY <1>11 DEF ResumeRun
  <2>2. resume[r].id \in Ids /\ park[resume[r].id] # "none"
    BY <2>1, KnownIsParked
  <2>3. /\ StatusOf(resume[r].id) \in Sealed /\ runs[resume[r].id] = 0
        /\ \A s \in Resumers \ {r} :
             ~(resume[s].pc \in WinnerPcs /\ resume[s].id = resume[r].id)
    BY <2>1 DEF OneFateInv, WinnerIsAlone
  <2>4. StatusesKept
    BY <2>1 DEF StatusesKept, StatusOf
  <2>5. notices[resume[r].id] = 0
    <3>1. notices[resume[r].id] \in Nat
      BY <2>2 DEF TypeInv, TypeOK
    <3>2. ~(notices[resume[r].id] > 0)
      BY <2>1, <2>2 DEF OneFateInv, ExpiriesAreOverdue
    <3> QED
      BY <3>1, <3>2
  <2>6. \A id \in Ids : runs'[id] # runs[id] => id = resume[r].id /\ runs'[id] = 1
    BY <2>1, <2>3 DEF TypeInv, TypeOK
  <2>7. resume'[r].id = resume[r].id /\ StatusOf(resume[r].id)' \in Sealed
    BY <2>1, <2>2, <2>3, <2>4, GoMoves DEF StatusesKept, StatusOf
  <2> QED
    BY <2>1, <2>2, <2>3, <2>4, <2>5, <2>6, <2>7, GoMoves, ResumeFrame
<1>12. CASE ResumeNotify(r)
  <2>1. PICK pc \in {"expired", "refused"} :
          /\ resume[r].pc # "idle" /\ Go(r, pc)
          /\ UNCHANGED <<clock, expiresAt, park, sweep, records, runs>>
          /\ pc = "expired" => /\ resume[r].pc = "expiring"
                               /\ notices' = [notices EXCEPT ![resume[r].id] = @ + 1]
          /\ pc = "refused" => notices' = notices
    BY <1>12 DEF ResumeNotify
  <2>2. resume[r].id \in Ids /\ park[resume[r].id] # "none"
    BY <2>1, KnownIsParked
  <2>3. pc = "expired" => Overdue(resume[r].id, clock) /\ runs[resume[r].id] = 0
    BY <2>1 DEF OneFateInv, ExpiriesAreOverdue
  <2>4. StatusesKept
    BY <2>1 DEF StatusesKept, StatusOf
  <2>5. \A id \in Ids : notices'[id] # notices[id] => id = resume[r].id /\ pc = "expired"
    BY <2>1 DEF TypeInv, TypeOK
  <2>6. /\ resume'[r].pc = pc /\ resume'[r].id = resume[r].id
        /\ \A s \in Resumers \ {r} : resume'[s] = resume[s]
    BY <2>1, GoMoves
  <2>7. pc \notin WinnerPcs /\ runs' = runs
    BY <2>1
  <2>8. pc \in {"expiring", "expired", "telling"} =>
          Overdue(resume[r].id, clock) /\ runs'[resume[r].id] = 0
    BY <2>3, <2>7
  <2>9. \A id \in Ids : notices'[id] # notices[id] =>
          Overdue(id, clock) /\ runs'[id] = 0 /\ park[id] # "none"
    BY <2>2, <2>3, <2>5, <2>7
  <2> QED
    BY <2>1, <2>2, <2>4, <2>6, <2>7, <2>8, <2>9, ResumeFrame
<1>13. CASE ResumeFinalize(r)
  <2>1. resume[r].pc # "idle" /\ Return(r) /\ UNCHANGED <<clock, park, sweep, runs, notices>>
    BY <1>13 DEF ResumeFinalize
  <2>2. StatusesKept /\ expiresAt' = expiresAt
    BY <1>13, <2>1, KnownIsParked, CasKeepsStatuses, ClaimType
    DEF ResumeFinalize, TypeInv, TypeOK
  <2> QED
    BY <2>1, <2>2, GoMoves, ResumeFrame
<1> QED
  BY <1>1, <1>2, <1>3, <1>5, <1>6, <1>8, <1>9, <1>10, <1>11, <1>12, <1>13 DEF ResumeStep

(***************************************************************************)
(* What a step of the sweeper may do without harm: it begins no            *)
(* continuation, and it holds and tells only overdue records that were not *)
(* resumed.                                                                *)
(***************************************************************************)
LEMMA SweepFrame ==
  ASSUME TypeInv, TypeInv', OneFateInv,
         UNCHANGED <<clock, expiresAt, park, resume, runs>>, StatusesKept,
         sweep'.now <= clock,
         \A id \in sweep'.due : Overdue(id, sweep'.now) /\ park[id] # "none",
         sweep'.item # Never => park[sweep'.item] # "none",
         sweep'.pc \in {"expiring", "expired"} =>
           Overdue(sweep'.item, clock) /\ runs[sweep'.item] = 0,
         \A id \in Ids : notices'[id] # notices[id] =>
           Overdue(id, clock) /\ runs[id] = 0 /\ park[id] # "none"
  PROVE  OneFateInv'
<1> USE DEF TypeInv, OneFateInv
<1>1. UnparkedIsUnknown'
  <2> SUFFICES ASSUME NEW id \in Ids, park'[id] = "none"
      PROVE  /\ StatusOf(id)' = "absent" /\ runs'[id] = 0 /\ notices'[id] = 0
             /\ id \notin sweep'.due /\ sweep'.item # id
             /\ \A s \in Resumers : resume'[s].id # id
    BY DEF UnparkedIsUnknown, StatusOf
  <2>1. /\ StatusOf(id) = "absent" /\ runs[id] = 0 /\ notices[id] = 0
        /\ \A s \in Resumers : resume[s].id # id
    BY DEF UnparkedIsUnknown
  <2>2. id # Never
    BY NeverAssumption
  <2> QED
    BY <2>1, <2>2 DEF StatusesKept
<1>2. WinnerIsAlone'
  <2>1. \A r \in Resumers : resume[r].pc \in WinnerPcs => resume[r].id \in Ids
    BY DEF ActorsKnowTheirId, WinnerPcs
  <2>2. \A r \in Resumers : resume[r].pc \in WinnerPcs => StatusOf(resume[r].id)' \in Sealed
    BY <2>1 DEF WinnerIsAlone, StatusesKept, StatusOf, Sealed
  <2> QED
    BY <2>2 DEF WinnerIsAlone, Sealed
<1>3. RunsFromResumed'
  <2>1. \A id \in Ids : StatusOf(id)' \in Sealed \/ ~(runs[id] > 0)
    BY DEF RunsFromResumed, StatusesKept, Sealed
  <2> QED
    BY <2>1 DEF RunsFromResumed, Sealed
<1>4. ExpiriesAreOverdue'
  BY DEF ExpiriesAreOverdue, Overdue
<1>5. RunsAtMostOnce' /\ RunOrLapse'
  BY DEF RunsAtMostOnce, RunOrLapse
<1> QED
  BY <1>1, <1>2, <1>3, <1>4, <1>5

(***************************************************************************)
(* The rest of a page is still overdue, and a pass that is over knows no   *)
(* record.                                                                 *)
(***************************************************************************)
LEMMA VisitKeepsPage ==
  ASSUME TypeInv, OneFateInv
  PROVE  /\ \A id \in sweep.due : Overdue(id, sweep.now) /\ park[id] # "none"
         /\ sweep.now <= clock
         /\ \A id \in Ids : LET s == AfterVisit(id)
                            IN /\ s.now <= clock /\ s.item = Never
                               /\ s.pc \notin {"expiring", "expired"}
                               /\ \A j \in s.due : Overdue(j, s.now) /\ park[j] # "none"
         /\ PassOver.now = 0 /\ PassOver.due = {} /\ PassOver.item = Never
         /\ PassOver.pc \notin {"expiring", "expired"}
         /\ 0 <= clock
<1> USE DEF TypeInv, TypeOK, StoreTypeOK
<1>1. \A id \in sweep.due : Overdue(id, sweep.now) /\ park[id] # "none"
  BY DEF OneFateInv, ExpiriesAreOverdue, UnparkedIsUnknown, SweepState
<1>2. sweep.now <= clock /\ 0 <= clock
  BY DEF OneFateInv, ExpiriesAreOverdue
<1>3. /\ PassOver.now = 0 /\ PassOver.due = {} /\ PassOver.item = Never
      /\ PassOver.pc \notin {"expiring", "expired"}
  BY DEF PassOver, IdleSweep
<1>4. ASSUME NEW id \in Ids
      PROVE  LET s == AfterVisit(id)
             IN /\ s.now <= clock /\ s.item = Never
                /\ s.pc \notin {"expiring", "expired"}
                /\ \A j \in s.due : Overdue(j, s.now) /\ park[j] # "none"
  <2>1. CASE Rest(id) # {}
    <3>1. AfterVisit(id) = [sweep EXCEPT !.pc = "batch", !.due = Rest(id),
                                         !.cursor = id, !.item = Never]
      BY <2>1 DEF AfterVisit
    <3>2. /\ AfterVisit(id).now = sweep.now /\ AfterVisit(id).item = Never
          /\ AfterVisit(id).pc = "batch" /\ AfterVisit(id).due = Rest(id)
      BY <3>1 DEF SweepState
    <3> QED
      BY <1>1, <1>2, <3>2 DEF Rest
  <2>2. CASE Rest(id) = {} /\ sweep.full
    <3>1. AfterVisit(id) = [sweep EXCEPT !.pc = "scan", !.due = {},
                                         !.cursor = id, !.item = Never]
      BY <2>2 DEF AfterVisit
    <3>2. /\ AfterVisit(id).now = sweep.now /\ AfterVisit(id).item = Never
          /\ AfterVisit(id).pc = "scan" /\ AfterVisit(id).due = {}
      BY <3>1 DEF SweepState
    <3> QED
      BY <1>2, <3>2
  <2>3. CASE Rest(id) = {} /\ ~sweep.full
    <3>1. AfterVisit(id) = PassOver
      BY <2>3 DEF AfterVisit
    <3> QED
      BY <1>2, <1>3, <3>1
  <2> QED
    BY <2>1, <2>2, <2>3
<1> QED
  BY <1>1, <1>2, <1>3, <1>4

(***************************************************************************)
(* A step of the sweeper, faulty or not, keeps the inductive invariant.    *)
(***************************************************************************)
LEMMA SweepSafe ==
  ASSUME TypeInv, TypeInv', OneFateInv, SweepStep \/ SweepFault \/ SweepPurgeFault \/ SweepAbort
  PROVE  OneFateInv'
<1> USE DEF storeVars, world, host
<1>0. /\ IdleSweep.now = 0 /\ IdleSweep.due = {} /\ IdleSweep.item = Never
      /\ IdleSweep.pc \notin {"expiring", "expired"}
  BY DEF IdleSweep
<1>1. records' = records => StatusesKept
  BY DEF StatusesKept, StatusOf
<1>2. CASE SweepBegin
  <2>1. sweep' = [IdleSweep EXCEPT !.pc = "purge", !.now = clock, !.boot = (sweep.pc = "boot")]
    BY <1>2 DEF SweepBegin
  <2>2. sweep'.now = clock /\ sweep'.due = {} /\ sweep'.item = Never /\ sweep'.pc = "purge"
    BY <2>1 DEF IdleSweep
  <2>3. /\ UNCHANGED <<clock, expiresAt, park, resume, runs, notices>>
        /\ StatusesKept /\ clock \in Nat
    <3>1. ReleaseExpiring(clock - Lease)
      BY <1>2 DEF SweepBegin
    <3>2. StatusesKept
      BY <3>1, SweepOpsKeepStatuses
    <3>3. UNCHANGED <<clock, expiresAt, park, resume, runs, notices>>
      BY <1>2 DEF SweepBegin, ReleaseExpiring
    <3>4. clock \in Nat
      BY MaxTimeAssumption DEF TypeInv, TypeOK, StoreTypeOK
    <3> QED
      BY <3>2, <3>3, <3>4
  <2> QED
    BY <2>2, <2>3, SweepFrame
<1>3. CASE SweepPurge
  <2>1. sweep' = [sweep EXCEPT !.pc = "scan"]
    BY <1>3 DEF SweepPurge
  <2>2. /\ sweep'.now = sweep.now /\ sweep'.due = sweep.due /\ sweep'.item = sweep.item
        /\ sweep'.pc = "scan" /\ sweep.item \in Ids \union {Never}
    BY <2>1 DEF TypeInv, TypeOK, SweepState
  <2>3. /\ UNCHANGED <<clock, expiresAt, park, resume, runs, notices>> /\ StatusesKept
    BY <1>1, <1>3, SweepOpsKeepStatuses DEF SweepPurge, PurgeSettled
  <2>4. sweep.item # Never => park[sweep.item] # "none"
    BY <2>2 DEF OneFateInv, UnparkedIsUnknown
  <2> QED
    BY <2>2, <2>3, <2>4, VisitKeepsPage, SweepFrame
<1>4. CASE SweepScan
  <2>1. /\ UNCHANGED <<clock, expiresAt, park, resume, runs, notices>> /\ StatusesKept
    BY <1>1, <1>4 DEF SweepScan
  <2> DEFINE page == FindExpired(sweep.now, SweepBatch, sweep.cursor)
  <2>2. CASE sweep' = PassOver
    BY <2>1, <2>2, VisitKeepsPage, SweepFrame
  <2>3. CASE sweep' = [sweep EXCEPT !.pc = "batch", !.due = page,
                                    !.full = Cardinality(page) >= SweepBatch]
    <3>1. /\ sweep'.now = sweep.now /\ sweep'.due = page /\ sweep'.item = sweep.item
          /\ sweep'.pc = "batch" /\ sweep.item \in Ids \union {Never}
      <4> HIDE DEF page
      <4> QED
        BY <2>3 DEF TypeInv, TypeOK, SweepState
    <3>2. \A id \in page : id \in Ids /\ Overdue(id, sweep.now) /\ StatusOf(id) = "suspended"
      BY DEF FindExpired, Due
    <3>3. \A id \in page : park[id] # "none"
      BY <3>2 DEF OneFateInv, UnparkedIsUnknown
    <3>4. sweep.item # Never => park[sweep.item] # "none"
      BY <3>1 DEF OneFateInv, UnparkedIsUnknown
    <3> HIDE DEF page
    <3> QED
      BY <2>1, <3>1, <3>2, <3>3, <3>4, VisitKeepsPage, SweepFrame
  <2> QED
    BY <1>4, <2>2, <2>3 DEF SweepScan
<1>5. CASE SweepHalt \/ SweepSkip \/ SweepFault \/ SweepAbort \/ SweepReport
  <2>1. /\ UNCHANGED <<clock, expiresAt, park, resume, runs, notices>> /\ StatusesKept
    BY <1>1, <1>5 DEF SweepHalt, SweepSkip, SweepFault, SweepAbort, SweepReport, Fault
  <2>2. \/ sweep' = PassOver \/ sweep' = IdleSweep \/ \E id \in Ids : sweep' = AfterVisit(id)
    BY <1>5 DEF SweepHalt, SweepSkip, SweepFault, SweepAbort, SweepReport, TypeInv, ActorsKnowTheirId
  <2> QED
    BY <1>0, <2>1, <2>2, VisitKeepsPage, SweepFrame
<1>6. CASE SweepClaim
  <2>1. PICK id \in Ids :
          /\ id \in sweep.due
          /\ ClaimExpiry(id)
          /\ sweep' = IF Wins(id, "suspended")
                      THEN [sweep EXCEPT !.pc = "expiring", !.item = id]
                      ELSE AfterVisit(id)
    BY <1>6 DEF SweepClaim, Foremost
  <2>2. /\ UNCHANGED <<clock, expiresAt, park, resume, runs, notices>> /\ StatusesKept
    BY <1>6, <2>1, CasKeepsStatuses DEF SweepClaim, ClaimExpiry, Transition
  <2>3. CASE Wins(id, "suspended")
    <3>1. /\ sweep'.now = sweep.now /\ sweep'.due = sweep.due /\ sweep'.item = id
      BY <2>1, <2>3 DEF TypeInv, TypeOK, SweepState
    <3>2. Overdue(id, sweep.now) /\ park[id] # "none"
      BY <2>1, VisitKeepsPage
    <3>3. expiresAt[id] \in Nat \union {Never} /\ sweep.now \in Nat /\ clock \in Nat
      BY DEF TypeInv, TypeOK, StoreTypeOK, Date, SweepState
    <3>4. Overdue(id, clock)
      BY <3>2, <3>3, VisitKeepsPage DEF Overdue
    <3>5. runs[id] = 0
      <4>1. runs[id] \in Nat
        BY DEF TypeInv, TypeOK
      <4>2. ~(runs[id] > 0)
        BY <2>3 DEF Wins, OneFateInv, RunsFromResumed
      <4> QED
        BY <4>1, <4>2
    <3> QED
      BY <2>2, <3>1, <3>2, <3>4, <3>5, VisitKeepsPage, SweepFrame
  <2>4. CASE ~Wins(id, "suspended")
    BY <2>1, <2>2, <2>4, VisitKeepsPage, SweepFrame
  <2> QED
    BY <2>3, <2>4
<1>7. CASE SweepNotify
  <2>1. /\ sweep.pc = "expiring" /\ sweep' = [sweep EXCEPT !.pc = "expired"]
        /\ notices' = [notices EXCEPT ![sweep.item] = @ + 1]
        /\ UNCHANGED <<clock, expiresAt, park, resume, runs, records>>
    BY <1>7 DEF SweepNotify
  <2>2. /\ sweep'.now = sweep.now /\ sweep'.due = sweep.due /\ sweep'.item = sweep.item
    BY <2>1 DEF TypeInv, TypeOK, SweepState
  <2>3. sweep.item \in Ids /\ Overdue(sweep.item, clock) /\ runs[sweep.item] = 0
    BY <2>1 DEF TypeInv, OneFateInv, ActorsKnowTheirId, ExpiriesAreOverdue
  <2>4. park[sweep.item] # "none"
    BY <2>3 DEF OneFateInv, UnparkedIsUnknown
  <2>5. \A id \in Ids : notices'[id] # notices[id] => id = sweep.item
    BY <2>1 DEF TypeInv, TypeOK
  <2> QED
    BY <1>1, <2>1, <2>2, <2>3, <2>4, <2>5, VisitKeepsPage, SweepFrame
<1>8. CASE SweepFinalize
  <2>1. /\ sweep.item \in Ids /\ MarkExpired(sweep.item) /\ sweep' = AfterVisit(sweep.item)
        /\ UNCHANGED <<clock, park, resume, runs, notices>>
    BY <1>8 DEF SweepFinalize, TypeInv, ActorsKnowTheirId
  <2>2. StatusesKept /\ expiresAt' = expiresAt
    BY <2>1, CasKeepsStatuses DEF MarkExpired, Transition
  <2> QED
    BY <2>1, <2>2, VisitKeepsPage, SweepFrame
<1>9. CASE SweepPurgeFault
  <2>1. sweep' = [sweep EXCEPT !.pc = "scan"]
    BY <1>9 DEF SweepPurgeFault
  <2>2. /\ sweep'.now = sweep.now /\ sweep'.due = sweep.due /\ sweep'.item = sweep.item
        /\ sweep'.pc = "scan" /\ sweep.item \in Ids \union {Never}
    BY <2>1 DEF TypeInv, TypeOK, SweepState
  <2>3. /\ UNCHANGED <<clock, expiresAt, park, resume, runs, notices>> /\ StatusesKept
    BY <1>1, <1>9 DEF SweepPurgeFault, Fault
  <2>4. sweep.item # Never => park[sweep.item] # "none"
    BY <2>2 DEF OneFateInv, UnparkedIsUnknown
  <2> QED
    BY <2>2, <2>3, <2>4, VisitKeepsPage, SweepFrame
<1> QED
  BY <1>2, <1>3, <1>4, <1>5, <1>6, <1>7, <1>8, <1>9 DEF SweepStep

(***************************************************************************)
(* Time only makes more records overdue; a dead process forgets its calls, *)
(* never what was told or run.                                             *)
(***************************************************************************)
LEMMA HostSafe ==
  ASSUME TypeInv, TypeInv', OneFateInv, TimePasses \/ Start \/ Crash \/ Stop \/ Exit
  PROVE  OneFateInv'
<1> USE DEF storeVars, world, host, actorVars
<1>1. CASE TimePasses
  <2>1. /\ clock \in Nat /\ clock' = clock + 1 /\ sweep.now \in Nat
        /\ UNCHANGED <<records, expiresAt, park, resume, sweep, runs, notices>>
    BY <1>1 DEF TimePasses, Tick, TypeInv, TypeOK, StoreTypeOK, SweepState
  <2>2. \A id \in Ids : Overdue(id, clock) => Overdue(id, clock)'
    BY <2>1 DEF Overdue, TypeInv, TypeOK, StoreTypeOK, Date
  <2>3. ExpiriesAreOverdue'
    <3>1. sweep'.now <= clock' /\ \A id \in sweep'.due : Overdue(id, sweep.now)'
      BY <2>1 DEF OneFateInv, ExpiriesAreOverdue, Overdue
    <3>2. sweep'.pc \in {"expiring", "expired"} =>
            Overdue(sweep.item, clock)' /\ runs'[sweep'.item] = 0
      BY <2>1, <2>2 DEF TypeInv, OneFateInv, ExpiriesAreOverdue, ActorsKnowTheirId, Overdue
    <3>3. \A r \in Resumers : resume'[r].pc \in {"expiring", "expired", "telling"} =>
            Overdue(resume[r].id, clock)' /\ runs'[resume'[r].id] = 0
      <4> SUFFICES ASSUME NEW r \in Resumers, resume[r].pc \in {"expiring", "expired", "telling"}
          PROVE  Overdue(resume[r].id, clock)' /\ runs[resume[r].id] = 0
        BY <2>1
      <4>1. resume[r].id \in Ids /\ Overdue(resume[r].id, clock) /\ runs[resume[r].id] = 0
        BY DEF TypeInv, OneFateInv, ExpiriesAreOverdue, ActorsKnowTheirId
      <4> QED
        BY <2>1, <2>2, <4>1 DEF Overdue
    <3>4. \A id \in Ids : notices'[id] > 0 => Overdue(id, clock)'
      BY <2>1, <2>2 DEF OneFateInv, ExpiriesAreOverdue
    <3> QED
      BY <3>1, <3>2, <3>3, <3>4 DEF ExpiriesAreOverdue
  <2> QED
    BY <2>1, <2>3 DEF OneFateInv, TypeInv, ActorsKnowTheirId, UnparkedIsUnknown, WinnerIsAlone,
         RunsFromResumed, RunsAtMostOnce, RunOrLapse, StatusOf
<1>2. CASE Start \/ Crash \/ Stop \/ Exit
  <2>1. /\ UNCHANGED <<clock, records, expiresAt, runs, notices>>
        /\ \A id \in Ids : park'[id] = "none" => park[id] = "none"
        /\ sweep' = sweep \/ (sweep'.now = 0 /\ sweep'.due = {} /\ sweep'.item = Never
                              /\ sweep'.pc \notin {"expiring", "expired"})
        /\ \A r \in Resumers : resume'[r] = resume[r] \/ resume'[r] = IdleResume
    BY <1>2 DEF Start, Crash, Stop, Exit, Forget, IdleSweep, TypeInv, TypeOK
  <2>2. clock \in Nat /\ \A id \in Ids : id # Never
    BY NeverAssumption, IdsAssumption DEF TypeInv, TypeOK, StoreTypeOK
  <2>3. UnparkedIsUnknown'
    BY <2>1, <2>2 DEF OneFateInv, UnparkedIsUnknown, StatusOf, IdleResume
  <2>4. WinnerIsAlone'
    BY <2>1 DEF OneFateInv, WinnerIsAlone, WinnerPcs, StatusOf, IdleResume
  <2>5. ExpiriesAreOverdue'
    BY <2>1, <2>2 DEF OneFateInv, ExpiriesAreOverdue, Overdue, IdleResume
  <2> QED
    BY <2>1, <2>3, <2>4, <2>5 DEF OneFateInv, TypeInv, RunsFromResumed, RunsAtMostOnce,
         RunOrLapse, StatusOf
<1> QED
  BY <1>1, <1>2

(***************************************************************************)
(* The strengthened invariant holds in every reachable state.              *)
(***************************************************************************)
LEMMA OneFateInvariant == Spec => []OneFateInv
<1>1. Init => OneFateInv
  BY NeverAssumption, IdsAssumption
  DEF Init, StoreInit, OneFateInv, ActorsKnowTheirId, UnparkedIsUnknown, WinnerIsAlone, WinnerPcs,
      RunsFromResumed, ExpiriesAreOverdue, RunsAtMostOnce, RunOrLapse, StatusOf, AbsentRecord,
      IdleResume, IdleSweep
<1>2. TypeInv /\ TypeInv' /\ OneFateInv /\ [Next]_vars => OneFateInv'
  <2>1. SUFFICES ASSUME TypeInv, TypeInv', OneFateInv, [Next]_vars PROVE OneFateInv'
    OBVIOUS
  <2>2. CASE UNCHANGED vars
    BY <2>1, <2>2
    DEF vars, storeVars, host, actorVars, world, OneFateInv, ActorsKnowTheirId, UnparkedIsUnknown,
        WinnerIsAlone, RunsFromResumed, ExpiriesAreOverdue, Overdue, RunsAtMostOnce, RunOrLapse,
        StatusOf
  <2>3. CASE Next
    BY <2>1, <2>3, ParkSafe, ResumeSafe, SweepSafe, HostSafe DEF Next
  <2> QED
    BY <2>1, <2>2, <2>3
<1> QED
  BY <1>1, <1>2, TypeInvariant, PTL DEF Spec

(***************************************************************************)
(* One approval is one execution: reviveSuspension begins the continuation *)
(* of a suspension at most once, however many calls, sweeps, restarts and  *)
(* store faults there are.                                                 *)
(***************************************************************************)
THEOREM OneExecution == Spec => []RunsAtMostOnce
BY OneFateInvariant, PTL DEF OneFateInv

(***************************************************************************)
(* A suspension that ran is never reported expired to its route, and one   *)
(* reported expired never runs.                                            *)
(***************************************************************************)
THEOREM RunExcludesLapse == Spec => []RunOrLapse
BY OneFateInvariant, PTL DEF OneFateInv

(***************************************************************************)
(* The two together, as the runs check them.                               *)
(***************************************************************************)
THEOREM EachHasOneFate == Spec => []OneFate
BY OneExecution, RunExcludesLapse, PTL DEF OneFate

-----------------------------------------------------------------------------
(***************************************************************************)
(* What the suspension subsystem promises from one step to the next, on    *)
(* top of those invariants: nobody is forgotten and half runs surface, a   *)
(* suspension has one verdict and every reply repeats it (Suspension       *)
(* implements SuspensionFate), a route is told of a lapse or a refusal     *)
(* once, and a pass of the sweeper misses nobody.                          *)
(***************************************************************************)

(* Nobody is forgotten. *)

(***************************************************************************)
(* What each compare-and-swap does to each record, as its callers see it.  *)
(***************************************************************************)
Swapped(id, from, to) ==
  \A j \in Ids :
    /\ StatusOf(j)' = IF j = id /\ StatusOf(id) = from THEN to ELSE StatusOf(j)
    /\ records'[j].terminal = records[j].terminal
    /\ to # "expiring" \/ j # id \/ StatusOf(id) # from
         => records'[j].claimedAt = records[j].claimedAt

(***************************************************************************)
(* The compare-and-swaps of the store, read off their definitions: each    *)
(* moves the record it wins and touches no other.                          *)
(***************************************************************************)
LEMMA CasEffect ==
  ASSUME TypeInv, NEW id \in Ids
  PROVE  /\ MarkResumed(id) => Swapped(id, "suspended", "resumed")
         /\ ClaimExpiry(id) => /\ Swapped(id, "suspended", "expiring")
                               /\ StatusOf(id) = "suspended" => records'[id].claimedAt = clock
         /\ MarkExpired(id) => Swapped(id, "expiring", "expired")
         /\ MarkDenied(id) => Swapped(id, "expiring", "denied")
<1> USE DEF TypeInv, TypeOK, StoreTypeOK, StatusOf
<1>1. ASSUME NEW from, NEW to, Transition(id, from, to)
      PROVE  \A j \in Ids : records'[j] = IF j = id /\ StatusOf(id) = from THEN to ELSE records[j]
  BY <1>1 DEF Transition, Wins
<1> DEFINE Resumed == [records[id] EXCEPT !.status = "resumed", !.settledAt = clock]
           Claimed == [records[id] EXCEPT !.status = "expiring", !.claimedAt = clock]
           Expired == [records[id] EXCEPT !.status = "expired", !.settledAt = clock]
           Denied == [records[id] EXCEPT !.status = "denied", !.settledAt = clock]
<1>2. /\ Resumed.status = "resumed" /\ Claimed.status = "expiring"
      /\ Expired.status = "expired" /\ Denied.status = "denied"
      /\ Claimed.claimedAt = clock /\ Claimed.terminal = records[id].terminal
      /\ \A to \in {Resumed, Expired, Denied} :
           to.terminal = records[id].terminal /\ to.claimedAt = records[id].claimedAt
  <2>1. records[id] \in Suspension
    OBVIOUS
  <2> QED
    BY <2>1 DEF Suspension
<1> HIDE DEF Resumed, Claimed, Expired, Denied
<1>3. ASSUME MarkResumed(id)
      PROVE  Swapped(id, "suspended", "resumed")
  <2>1. \A j \in Ids : records'[j] = IF j = id /\ StatusOf(id) = "suspended" THEN Resumed ELSE records[j]
    BY <1>1, <1>3 DEF MarkResumed, Resumed
  <2> QED
    BY <1>2, <2>1 DEF Swapped
<1>4. ASSUME ClaimExpiry(id)
      PROVE  /\ Swapped(id, "suspended", "expiring")
             /\ StatusOf(id) = "suspended" => records'[id].claimedAt = clock
  <2>1. \A j \in Ids : records'[j] = IF j = id /\ StatusOf(id) = "suspended" THEN Claimed ELSE records[j]
    BY <1>1, <1>4 DEF ClaimExpiry, Claimed
  <2> QED
    BY <1>2, <2>1 DEF Swapped
<1>5. ASSUME MarkExpired(id)
      PROVE  Swapped(id, "expiring", "expired")
  <2>1. \A j \in Ids : records'[j] = IF j = id /\ StatusOf(id) = "expiring" THEN Expired ELSE records[j]
    BY <1>1, <1>5 DEF MarkExpired, Expired
  <2> QED
    BY <1>2, <2>1 DEF Swapped
<1>6. ASSUME MarkDenied(id)
      PROVE  Swapped(id, "expiring", "denied")
  <2>1. \A j \in Ids : records'[j] = IF j = id /\ StatusOf(id) = "expiring" THEN Denied ELSE records[j]
    BY <1>1, <1>6 DEF MarkDenied, Denied
  <2> QED
    BY <1>2, <2>1 DEF Swapped
<1> QED
  BY <1>3, <1>4, <1>5, <1>6

(***************************************************************************)
(* Healing gives claims back, purging removes what is settled, and an      *)
(* outcome changes nobody's status.                                        *)
(***************************************************************************)
LEMMA SweepOpsEffect ==
  ASSUME TypeInv
  PROVE  /\ \A before : ReleaseExpiring(before) =>
              \A j \in Ids :
                IF StatusOf(j) = "expiring" /\ records[j].claimedAt <= before
                THEN StatusOf(j)' = "suspended" /\ records'[j].terminal = records[j].terminal
                ELSE records'[j] = records[j]
         /\ \A before : PurgeSettled(before) =>
              \A j \in Ids : \/ records'[j] = records[j]
                             \/ StatusOf(j) \in Settled /\ records'[j] = AbsentRecord
         /\ \A id \in Ids : \A outcome : RecordTerminal(id, outcome) =>
              \A j \in Ids :
                /\ StatusOf(j)' = StatusOf(j)
                /\ records'[j].claimedAt = records[j].claimedAt
                /\ records'[j].terminal = IF j = id /\ StatusOf(id) # "absent" THEN outcome
                                          ELSE records[j].terminal
<1> USE DEF TypeInv, TypeOK, StoreTypeOK, StatusOf, Suspension
<1>1. ASSUME NEW before, ReleaseExpiring(before), NEW j \in Ids
      PROVE  IF StatusOf(j) = "expiring" /\ records[j].claimedAt <= before
             THEN StatusOf(j)' = "suspended" /\ records'[j].terminal = records[j].terminal
             ELSE records'[j] = records[j]
  <2> DEFINE Released == [records[j] EXCEPT !.status = "suspended", !.claimedAt = Never]
  <2>1. records[j] \in Suspension
    OBVIOUS
  <2>2. Released.status = "suspended" /\ Released.terminal = records[j].terminal
    BY <2>1
  <2>3. records'[j] = IF StatusOf(j) = "expiring" /\ records[j].claimedAt <= before
                      THEN Released ELSE records[j]
    BY <1>1 DEF ReleaseExpiring
  <2> HIDE DEF Released
  <2> QED
    BY <2>2, <2>3
<1>2. ASSUME NEW before, PurgeSettled(before), NEW j \in Ids
      PROVE  \/ records'[j] = records[j]
             \/ StatusOf(j) \in Settled /\ records'[j] = AbsentRecord
  BY <1>2 DEF PurgeSettled, Purgeable
<1>3. ASSUME NEW id \in Ids, NEW outcome, RecordTerminal(id, outcome), NEW j \in Ids
      PROVE  /\ StatusOf(j)' = StatusOf(j)
             /\ records'[j].claimedAt = records[j].claimedAt
             /\ records'[j].terminal = IF j = id /\ StatusOf(id) # "absent" THEN outcome
                                       ELSE records[j].terminal
  BY <1>3 DEF RecordTerminal
<1> QED
  BY <1>1, <1>2, <1>3

(***************************************************************************)
(* An id is held by a resume call, by the sweeper or by its park; and an   *)
(* owner other than the one that steps is unaffected by the step.          *)
(***************************************************************************)
Held(id) ==
  \/ \E r \in Resumers : resume[r].id = id /\ resume[r].pc \in ClaimPcs
  \/ sweep.item = id
  \/ park[id] = "denying"

(***************************************************************************)
(* A record is held when a claim on it stands, whoever took it.            *)
(***************************************************************************)
LEMMA HeldMeaning ==
  /\ \A id \in Ids : Holders(id) # {} <=> Held(id)
  /\ \A id \in Ids : Holders(id)' # {} <=> Held(id)'
BY DEF Holders, Held

(***************************************************************************)
(* What a step may do without forgetting anybody: it settles only what was *)
(* told, takes back no word, and claims and keeps what it holds, unless an *)
(* interruption is counted.                                                *)
(***************************************************************************)
LEMMA ForgottenFrame ==
  ASSUME TypeInv, TypeInv', NobodyIsForgottenInv,
         FinalizersHaveTold', ItemIsAClaim', StopsAreCounted',
         restarts' = 0 /\ faults' = 0 => restarts = 0 /\ faults = 0,
         \A id \in Ids :
           /\ notices[id] > 0 => notices'[id] > 0
           /\ refusals[id] > 0 => refusals'[id] > 0
           /\ park[id] = "cancelled" => park'[id] = "cancelled"
           /\ StatusOf(id)' = "expired" => StatusOf(id) = "expired" \/ notices'[id] > 0
           /\ StatusOf(id)' = "denied" => \/ StatusOf(id) = "denied" \/ refusals'[id] > 0
                                         \/ park'[id] = "cancelled"
           /\ restarts' = 0 /\ faults' = 0 /\ StatusOf(id)' = "expiring" =>
                (StatusOf(id) = "expiring" /\ Held(id) => Held(id)')
           /\ StatusOf(id)' = "expiring" => StatusOf(id) = "expiring" \/ Held(id)'
  PROVE  NobodyIsForgottenInv'
<1>1. SettledMeansTold'
  <2> SUFFICES ASSUME NEW id \in Ids
      PROVE  /\ StatusOf(id)' = "expired" => notices'[id] > 0
             /\ StatusOf(id)' = "denied" => refusals'[id] > 0 \/ park'[id] = "cancelled"
    BY DEF SettledMeansTold, StatusOf
  <2> QED
    BY DEF NobodyIsForgottenInv, SettledMeansTold
<1>2. ClaimsOwned'
  <2> SUFFICES ASSUME restarts' = 0, faults' = 0, NEW id \in Ids, StatusOf(id)' = "expiring"
      PROVE  Holders(id)' # {}
    BY DEF ClaimsOwned, StatusOf
  <2>1. StatusOf(id) = "expiring" => Held(id)
    BY HeldMeaning DEF NobodyIsForgottenInv, ClaimsOwned
  <2>2. Held(id)'
    BY <2>1
  <2> QED
    BY <2>2, HeldMeaning
<1> QED
  BY <1>1, <1>2 DEF NobodyIsForgottenInv

(***************************************************************************)
(* Parks: a denial follows the claim of the park itself.                   *)
(***************************************************************************)
LEMMA ParkForgetsNobody ==
  ASSUME TypeInv, TypeInv', NobodyIsForgottenInv, NEW id \in Ids, ParkStep(id) \/ ParkFault(id)
  PROVE  NobodyIsForgottenInv'
<1> USE DEF storeVars, host, world
<1>1. /\ UNCHANGED <<process, restarts, resume, sweep, notices, refusals>>
      /\ faults \in Nat /\ faults' \in Nat /\ (faults' = faults \/ faults' = faults + 1)
      /\ \A j \in Ids \ {id} : park'[j] = park[j]
  BY DEF ParkStep, ParkCreate, ParkAnnounce, ParkCancelled, ParkDeny, ParkFault, Fault, GoPark,
         TypeInv, TypeOK
<1>2. FinalizersHaveTold' /\ ItemIsAClaim' /\ StopsAreCounted'
  BY <1>1 DEF NobodyIsForgottenInv, FinalizersHaveTold, ItemIsAClaim, StopsAreCounted, Stopping, Up
<1>3. /\ park[id] = "cancelled" => park'[id] = "cancelled"
      /\ park[id] = "denying" => park'[id] = "cancelled"
      /\ park'[id] = "denying" <=> (ParkCancelled(id) /\ StatusOf(id) = "suspended")
  BY DEF ParkStep, ParkCreate, ParkAnnounce, ParkCancelled, ParkDeny, ParkFault, Fault, GoPark,
         TypeInv, TypeOK, Wins
<1>4. \A j \in Ids :
        \/ StatusOf(j)' = StatusOf(j)
        \/ j = id /\ StatusOf(j)' = "suspended"
        \/ j = id /\ StatusOf(j)' = "expiring" /\ park'[id] = "denying"
        \/ j = id /\ StatusOf(j)' = "denied" /\ park'[id] = "cancelled"
  <2>1. CASE ParkCreate(id)
    <3>1. PICK ttl \in Ttls : Create(id, ttl)
      BY <2>1 DEF ParkCreate
    <3> QED
      BY <3>1 DEF Create, StatusOf, AbsentRecord, TypeInv, TypeOK, StoreTypeOK
  <2>2. CASE ParkAnnounce(id) \/ ParkFault(id)
    BY <2>2 DEF ParkAnnounce, ParkFault, Fault, StatusOf
  <2>3. CASE ParkCancelled(id)
    BY <1>3, <2>3, CasEffect DEF ParkCancelled, Swapped
  <2>4. CASE ParkDeny(id)
    BY <1>3, <2>4, CasEffect DEF ParkDeny, Swapped
  <2> QED
    BY <2>1, <2>2, <2>3, <2>4 DEF ParkStep
<1>5. \A j \in Ids : faults' = 0 /\ Held(j) /\ StatusOf(j)' = "expiring" => Held(j)'
  <2> SUFFICES ASSUME NEW j \in Ids, faults' = 0, Held(j), StatusOf(j)' = "expiring"
      PROVE  Held(j)'
    OBVIOUS
  <2>1. CASE park[j] # "denying"
    BY <1>1, <2>1 DEF Held
  <2>2. CASE park[j] = "denying"
    <3>1. CASE j # id
      BY <1>1, <2>2, <3>1 DEF Held
    <3>2. CASE j = id
      <4>1. ParkDeny(id)
        BY <1>1, <2>2, <3>2 DEF ParkStep, ParkCreate, ParkAnnounce, ParkCancelled, ParkFault,
                                Fault
      <4>2. StatusOf(id)' # "expiring"
        BY <4>1, CasEffect DEF ParkDeny, Swapped
      <4> QED
        BY <3>2, <4>2
    <3> QED
      BY <3>1, <3>2
  <2> QED
    BY <2>1, <2>2
<1>6. \A j \in Ids : park'[j] = "denying" => Held(j)'
  BY DEF Held
<1> QED
  BY <1>1, <1>2, <1>3, <1>4, <1>5, <1>6, ForgottenFrame

(***************************************************************************)
(* A resume call that holds no claim before or after its step finalizes    *)
(* nothing.                                                                *)
(***************************************************************************)
LEMMA QuietCall ==
  ASSUME TypeInv, TypeInv', NobodyIsForgottenInv, NEW r \in Resumers,
         UNCHANGED <<process, restarts, park, sweep>>,
         faults' = faults \/ faults' = faults + 1,
         \A s \in Resumers \ {r} : resume'[s] = resume[s],
         resume[r].pc \notin ClaimPcs \/ faults' = faults + 1, resume'[r].pc \notin ClaimPcs,
         \A id \in Ids : /\ notices'[id] >= notices[id] /\ refusals'[id] >= refusals[id]
                         /\ StatusOf(id)' \in {"expired", "denied", "expiring"}
                              => StatusOf(id)' = StatusOf(id)
  PROVE  NobodyIsForgottenInv'
<1>1. faults \in Nat /\ restarts \in Nat
      /\ notices \in [Ids -> Nat] /\ notices' \in [Ids -> Nat]
      /\ refusals \in [Ids -> Nat] /\ refusals' \in [Ids -> Nat]
  BY DEF TypeInv, TypeOK
<1>a. \A id \in Ids : /\ notices[id] > 0 => notices'[id] > 0
                      /\ refusals[id] > 0 => refusals'[id] > 0
  <2> SUFFICES ASSUME NEW id \in Ids
      PROVE  /\ notices[id] > 0 => notices'[id] > 0
             /\ refusals[id] > 0 => refusals'[id] > 0
    OBVIOUS
  <2>1. /\ notices[id] \in Nat /\ notices'[id] \in Nat /\ notices'[id] >= notices[id]
        /\ refusals[id] \in Nat /\ refusals'[id] \in Nat /\ refusals'[id] >= refusals[id]
    BY <1>1
  <2> QED
    BY <2>1
<1>2. ItemIsAClaim' /\ StopsAreCounted'
  BY <1>1 DEF NobodyIsForgottenInv, ItemIsAClaim, StopsAreCounted, Stopping, Up
<1>3. FinalizersHaveTold'
  <2>1. \A s \in Resumers : resume'[s].pc \in ClaimPcs =>
          resume'[s] = resume[s] /\ resume[s].id \in Ids
    BY DEF TypeInv, ActorsKnowTheirId, ClaimPcs
  <2>2. \A s \in Resumers :
          /\ resume'[s].pc = "expired" => notices'[resume'[s].id] > 0
          /\ resume'[s].pc = "refused" => refusals'[resume'[s].id] > 0
    BY <1>a, <2>1 DEF NobodyIsForgottenInv, FinalizersHaveTold, ClaimPcs
  <2>3. sweep'.pc = "expired" => notices'[sweep'.item] > 0
    BY <1>a DEF NobodyIsForgottenInv, FinalizersHaveTold, TypeInv, ActorsKnowTheirId
  <2> QED
    BY <2>2, <2>3 DEF FinalizersHaveTold
<1>4. \A id \in Ids : faults' = 0 /\ Held(id) => Held(id)'
  <2> SUFFICES ASSUME NEW id \in Ids, faults' = 0, Held(id)
      PROVE  Held(id)'
    OBVIOUS
  <2>1. resume[r].pc \notin ClaimPcs
    BY <1>1
  <2> QED
    BY <2>1 DEF Held
<1> QED
  BY <1>1, <1>a, <1>2, <1>3, <1>4, ForgottenFrame

(***************************************************************************)
(* Resume calls: the winner of a claim holds it until it has told the      *)
(* route and finalized it.                                                 *)
(***************************************************************************)
LEMMA ResumeForgetsNobody ==
  ASSUME TypeInv, TypeInv', NobodyIsForgottenInv, NEW r \in Resumers,
         ResumeStep(r) \/ ResumeFault(r)
  PROVE  NobodyIsForgottenInv'
<1> USE DEF storeVars, world, host, ClaimPcs
<1>1. /\ UNCHANGED <<process, restarts, park, sweep>>
      /\ faults' = faults \/ faults' = faults + 1
      /\ ~ResumeFault(r) => faults' = faults
  BY DEF ResumeStep, ResumeRead, ResumeRefused, ResumeSettled, ResumeOverdue, ResumeChanged,
         ClaimOrReply, ResumeIntact, ResumeInvalid, ResumeClaim, ResumeLate, ResumeTell,
         ResumeRun, ResumeBroken, ResumeEnd, ResumeNotify, ResumeFinalize, ResumeFault, Fault
<1>2. /\ notices \in [Ids -> Nat] /\ refusals \in [Ids -> Nat]
      /\ resume[r].pc # "idle" => resume[r].id \in Ids
  BY DEF TypeInv, TypeOK, ActorsKnowTheirId
<1>3. CASE \E id \in Ids : ResumeRead(r, id)
  <2>1. /\ resume[r].pc = "idle" /\ resume'[r].pc = "authorizing"
        /\ \A s \in Resumers \ {r} : resume'[s] = resume[s]
        /\ UNCHANGED <<records, notices, refusals>>
    BY <1>3 DEF ResumeRead, TypeInv, TypeOK
  <2> QED
    BY <1>1, <1>2, <2>1, QuietCall DEF StatusOf
<1>4. CASE ResumeRefused(r) \/ ResumeSettled(r) \/ ResumeInvalid(r) \/ ResumeFault(r)
  <2>1. /\ Return(r) /\ UNCHANGED <<records, notices, refusals>>
        /\ resume[r].pc \notin ClaimPcs \/ faults' = faults + 1
    BY <1>4 DEF ResumeRefused, ResumeSettled, ReplySettled, ResumeInvalid, ResumeFault, Fault
  <2>2. resume'[r].pc = "idle" /\ \A s \in Resumers \ {r} : resume'[s] = resume[s]
    BY <2>1, GoMoves
  <2>3. \A id \in Ids : /\ notices'[id] >= notices[id] /\ refusals'[id] >= refusals[id]
                        /\ StatusOf(id)' = StatusOf(id)
    <3>1. records' = records /\ notices' = notices /\ refusals' = refusals
      BY <2>1
    <3>2. \A id \in Ids : notices[id] \in Nat /\ refusals[id] \in Nat
      BY <1>2
    <3> QED
      BY <3>1, <3>2 DEF StatusOf
  <2> QED
    BY <1>1, <2>1, <2>2, <2>3, QuietCall
<1>5. ASSUME NEW pc \in {"expiring", "refusing"}, ClaimOrReply(r, pc),
             resume[r].pc = "authorizing"
      PROVE  NobodyIsForgottenInv'
  <2>1. ClaimExpiry(resume[r].id) /\ UNCHANGED <<faults, notices, refusals>>
    BY <1>5 DEF ClaimOrReply
  <2>2. CASE Wins(resume[r].id, "suspended")
    <3>1. Go(r, pc)
      BY <1>5, <2>2 DEF ClaimOrReply
    <3>2. /\ resume'[r].pc = pc /\ resume'[r].id = resume[r].id
          /\ \A s \in Resumers \ {r} : resume'[s] = resume[s]
      BY <3>1, GoMoves
    <3>3. Swapped(resume[r].id, "suspended", "expiring")
      BY <1>2, <1>5, <2>1, CasEffect
    <3>4. FinalizersHaveTold' /\ ItemIsAClaim' /\ StopsAreCounted'
      BY <1>1, <2>1, <3>2
      DEF NobodyIsForgottenInv, FinalizersHaveTold, ItemIsAClaim, StopsAreCounted, Stopping, Up
    <3>5. \A j \in Ids : Held(j) => Held(j)'
      BY <1>1, <1>5, <3>2 DEF Held
    <3>6. \A j \in Ids : j = resume[r].id => Held(j)'
      BY <3>2 DEF Held
    <3>7. \A j \in Ids : \/ StatusOf(j)' = StatusOf(j)
                         \/ StatusOf(j)' = "expiring" /\ Held(j)'
      BY <3>3, <3>6 DEF Swapped
    <3> QED
      BY <1>1, <2>1, <3>4, <3>5, <3>7, ForgottenFrame
  <2>3. CASE ~Wins(resume[r].id, "suspended")
    <3>1. Return(r)
      BY <1>5, <2>3 DEF ClaimOrReply, ReplySettled
    <3>2. records' = records
      BY <2>1, <2>3 DEF ClaimExpiry, Transition
    <3> QED
      BY <1>1, <1>2, <1>5, <2>1, <3>1, <3>2, GoMoves, QuietCall DEF StatusOf
  <2> QED
    BY <2>2, <2>3
<1>6. CASE ResumeOverdue(r) \/ ResumeChanged(r)
  BY <1>5, <1>6 DEF ResumeOverdue, ResumeChanged, Accepted
<1>7. CASE ResumeIntact(r) \/ ResumeRun(r)
  <2>1. /\ UNCHANGED <<records, notices, refusals>> /\ resume[r].pc \notin ClaimPcs
        /\ Go(r, "validating") \/ Go(r, "running")
    BY <1>7 DEF ResumeIntact, Accepted, ResumeRun
  <2> QED
    BY <1>1, <1>2, <2>1, GoMoves, QuietCall DEF StatusOf
<1>8. CASE ResumeClaim(r)
  <2>1. /\ MarkResumed(resume[r].id) /\ UNCHANGED <<notices, refusals>>
        /\ resume[r].pc = "validating"
        /\ Return(r) \/ Go(r, "won")
    BY <1>8 DEF ResumeClaim, ReplySettled
  <2>2. Swapped(resume[r].id, "suspended", "resumed")
    BY <1>2, <2>1, CasEffect
  <2> QED
    BY <1>1, <1>2, <2>1, <2>2, GoMoves, QuietCall DEF Swapped
<1>9. CASE ResumeLate(r) \/ ResumeBroken(r) \/ ResumeEnd(r)
  <2>1. PICK outcome : RecordTerminal(resume[r].id, outcome)
    BY <1>9 DEF ResumeLate, ResumeBroken, ResumeEnd
  <2>2. /\ resume[r].pc \in {"won", "running"}
        /\ Return(r) \/ Go(r, "telling")
        /\ UNCHANGED <<notices, refusals>>
    BY <1>9 DEF ResumeLate, ResumeBroken, ResumeEnd
  <2>3. \A j \in Ids : StatusOf(j)' = StatusOf(j)
    BY <1>2, <2>1, <2>2, SweepOpsEffect
  <2> QED
    BY <1>1, <1>2, <2>2, <2>3, GoMoves, QuietCall
<1>10. CASE ResumeTell(r)
  <2>1. /\ resume[r].pc = "telling" /\ Return(r) /\ UNCHANGED <<records, refusals>>
        /\ notices' = [notices EXCEPT ![resume[r].id] = @ + 1]
    BY <1>10 DEF ResumeTell
  <2> QED
    BY <1>1, <1>2, <2>1, GoMoves, QuietCall DEF StatusOf
<1>11. CASE ResumeNotify(r)
  <2>1. /\ resume[r].pc \in {"expiring", "refusing"} /\ UNCHANGED <<records, faults>>
        /\ \/ /\ resume'[r].pc = "expired" /\ refusals' = refusals
              /\ notices' = [notices EXCEPT ![resume[r].id] = @ + 1]
           \/ /\ resume'[r].pc = "refused" /\ notices' = notices
              /\ refusals' = [refusals EXCEPT ![resume[r].id] = @ + 1]
        /\ resume'[r].id = resume[r].id /\ \A s \in Resumers \ {r} : resume'[s] = resume[s]
    BY <1>11, GoMoves DEF ResumeNotify
  <2>2. resume[r].id \in Ids
    BY <1>2, <2>1
  <2>3. \A j \in Ids : /\ notices[j] > 0 => notices'[j] > 0
                       /\ refusals[j] > 0 => refusals'[j] > 0
    <3>1. ASSUME NEW j \in Ids
          PROVE  /\ notices'[j] = notices[j] \/ notices'[j] = notices[j] + 1
                 /\ refusals'[j] = refusals[j] \/ refusals'[j] = refusals[j] + 1
                 /\ notices[j] \in Nat /\ refusals[j] \in Nat
      BY <1>2, <2>1
    <3> QED
      BY <3>1
  <2>4. FinalizersHaveTold'
    <3>1. \A s \in Resumers \ {r} : resume[s].pc \in {"expired", "refused"} => resume[s].id \in Ids
      BY DEF TypeInv, ActorsKnowTheirId
    <3>2. \A s \in Resumers \ {r} :
            /\ resume'[s].pc = "expired" => notices'[resume'[s].id] > 0
            /\ resume'[s].pc = "refused" => refusals'[resume'[s].id] > 0
      <4>1. \A s \in Resumers \ {r} :
              /\ resume[s].pc = "expired" => notices[resume[s].id] > 0
              /\ resume[s].pc = "refused" => refusals[resume[s].id] > 0
        BY DEF NobodyIsForgottenInv, FinalizersHaveTold
      <4> QED
        <5>1. \A s \in Resumers \ {r} : resume'[s] = resume[s]
          BY <2>1
        <5> QED
          BY <2>3, <3>1, <4>1, <5>1
    <3>3. /\ resume'[r].pc = "expired" => notices'[resume[r].id] > 0
          /\ resume'[r].pc = "refused" => refusals'[resume[r].id] > 0
      <4>1. notices[resume[r].id] \in Nat /\ refusals[resume[r].id] \in Nat
        BY <1>2, <2>2
      <4>2. CASE resume'[r].pc = "expired"
        BY <1>2, <2>1, <2>2, <4>1, <4>2
      <4>3. CASE resume'[r].pc = "refused"
        BY <1>2, <2>1, <2>2, <4>1, <4>3
      <4> QED
        BY <4>2, <4>3
    <3>4. sweep'.pc = "expired" => notices'[sweep'.item] > 0
      BY <1>1, <2>3 DEF NobodyIsForgottenInv, FinalizersHaveTold, TypeInv, ActorsKnowTheirId
    <3> QED
      BY <2>1, <3>2, <3>3, <3>4 DEF FinalizersHaveTold
  <2>5. ItemIsAClaim' /\ StopsAreCounted'
    BY <1>1, <2>1 DEF NobodyIsForgottenInv, ItemIsAClaim, StopsAreCounted, Stopping, Up
  <2>6. \A j \in Ids : Held(j) => Held(j)'
    BY <1>1, <2>1 DEF Held
  <2> QED
    BY <1>1, <2>1, <2>3, <2>4, <2>5, <2>6, ForgottenFrame DEF StatusOf
<1>12. CASE ResumeFinalize(r)
  <2>1. /\ \/ resume[r].pc = "expired" /\ MarkExpired(resume[r].id)
           \/ resume[r].pc = "refused" /\ MarkDenied(resume[r].id)
        /\ Return(r) /\ UNCHANGED <<faults, notices, refusals>>
    BY <1>12 DEF ResumeFinalize
  <2>2. /\ resume'[r].pc = "idle" /\ \A s \in Resumers \ {r} : resume'[s] = resume[s]
        /\ resume[r].id \in Ids
    BY <1>2, <2>1, GoMoves
  <2>3. FinalizersHaveTold' /\ ItemIsAClaim' /\ StopsAreCounted'
    BY <1>1, <2>1, <2>2
    DEF NobodyIsForgottenInv, FinalizersHaveTold, ItemIsAClaim, StopsAreCounted, Stopping, Up
  <2>4. \/ Swapped(resume[r].id, "expiring", "expired") /\ notices[resume[r].id] > 0
        \/ Swapped(resume[r].id, "expiring", "denied") /\ refusals[resume[r].id] > 0
    BY <2>1, <2>2, CasEffect DEF NobodyIsForgottenInv, FinalizersHaveTold
  <2>5. \A j \in Ids : Held(j) /\ j # resume[r].id => Held(j)'
    BY <1>1, <2>2 DEF Held
  <2>7. \A j \in Ids : StatusOf(j)' = "expiring" => j # resume[r].id /\ StatusOf(j) = "expiring"
    BY <2>2, <2>4 DEF Swapped
  <2>8. \A j \in Ids :
          /\ StatusOf(j)' = "expired" => StatusOf(j) = "expired" \/ notices'[j] > 0
          /\ StatusOf(j)' = "denied" => StatusOf(j) = "denied" \/ refusals'[j] > 0
    BY <2>1, <2>2, <2>4 DEF Swapped
  <2> QED
    BY <1>1, <2>1, <2>3, <2>5, <2>7, <2>8, ForgottenFrame
<1> QED
  BY <1>3, <1>4, <1>6, <1>7, <1>8, <1>9, <1>10, <1>11, <1>12 DEF ResumeStep

(***************************************************************************)
(* A step of the sweeper that touches no claim, or throws, settles nothing.*)
(***************************************************************************)
LEMMA QuietSweep ==
  ASSUME TypeInv, TypeInv', NobodyIsForgottenInv,
         UNCHANGED <<restarts, park, resume, notices, refusals>>,
         faults' = faults \/ faults' = faults + 1,
         process' = "stopping" => process = "stopping" \/ faults' = faults + 1,
         sweep.item = Never \/ faults' = faults + 1,
         sweep'.item = Never, sweep'.pc # "expired",
         \A id \in Ids : StatusOf(id)' \in {"expired", "denied", "expiring"}
                           => StatusOf(id)' = StatusOf(id)
  PROVE  NobodyIsForgottenInv'
<1>1. faults \in Nat /\ restarts \in Nat
  BY DEF TypeInv, TypeOK
<1>2. ItemIsAClaim' /\ StopsAreCounted'
  BY <1>1 DEF NobodyIsForgottenInv, ItemIsAClaim, StopsAreCounted, Stopping, Up
<1>3. FinalizersHaveTold'
  BY DEF NobodyIsForgottenInv, FinalizersHaveTold
<1>4. \A id \in Ids : faults' = 0 /\ Held(id) => Held(id)'
  BY <1>1 DEF Held
<1> QED
  BY <1>1, <1>2, <1>3, <1>4, ForgottenFrame

(***************************************************************************)
(* The sweeper: it holds the record it tells until it has finalized it.    *)
(***************************************************************************)
LEMMA SweepForgetsNobody ==
  ASSUME TypeInv, TypeInv', NobodyIsForgottenInv,
         SweepStep \/ SweepFault \/ SweepPurgeFault \/ SweepAbort
  PROVE  NobodyIsForgottenInv'
<1> USE DEF storeVars, world, host
<1>1. /\ UNCHANGED <<restarts, park, resume, refusals>>
      /\ faults' = faults \/ faults' = faults + 1
      /\ process' = "stopping" => process = "stopping" \/ faults' = faults + 1
      /\ SweepStep => faults' = faults
  BY DEF SweepStep, SweepBegin, SweepPurge, SweepScan, SweepHalt, SweepSkip, SweepClaim,
         SweepNotify, SweepFinalize, SweepReport, SweepFault, SweepPurgeFault, SweepAbort, Fault
<1>2. /\ \A id \in Ids : /\ AfterVisit(id).item = Never
                         /\ AfterVisit(id).pc \notin {"expiring", "expired"}
      /\ PassOver.item = Never /\ PassOver.pc \notin {"expiring", "expired"}
      /\ IdleSweep.item = Never /\ IdleSweep.pc \notin {"expiring", "expired"}
  BY DEF AfterVisit, PassOver, IdleSweep, TypeInv, TypeOK, SweepState
<1>3. sweep.pc \notin {"expiring", "expired"} => sweep.item = Never
  BY DEF NobodyIsForgottenInv, ItemIsAClaim
<1>4. records' = records => \A id \in Ids : StatusOf(id)' = StatusOf(id)
  BY DEF StatusOf
<1>5. CASE SweepBegin
  <2>1. sweep.item = Never /\ notices' = notices
    BY <1>3, <1>5 DEF SweepBegin
  <2>2. sweep'.item = Never /\ sweep'.pc = "purge"
    BY <1>5 DEF SweepBegin, IdleSweep
  <2>3. ReleaseExpiring(clock - Lease)
    BY <1>5 DEF SweepBegin
  <2>4. \A id \in Ids : StatusOf(id)' = StatusOf(id) \/ StatusOf(id)' = "suspended"
    BY <2>3, SweepOpsEffect DEF StatusOf
  <2> QED
    BY <1>1, <2>1, <2>2, <2>4, QuietSweep
<1>6. CASE SweepPurge \/ SweepPurgeFault
  <2>1. /\ sweep.pc = "purge" /\ sweep' = [sweep EXCEPT !.pc = "scan"] /\ notices' = notices
    BY <1>6 DEF SweepPurge, SweepPurgeFault, Fault
  <2>2. sweep.item = Never /\ sweep'.item = Never /\ sweep'.pc = "scan"
    BY <1>3, <2>1 DEF TypeInv, TypeOK, SweepState
  <2>3. records' = records \/ \E before : PurgeSettled(before)
    BY <1>6 DEF SweepPurge, SweepPurgeFault, Fault
  <2>4. \A id \in Ids : StatusOf(id)' = StatusOf(id) \/ StatusOf(id)' = "absent"
    BY <2>3, SweepOpsEffect DEF StatusOf, AbsentRecord
  <2> QED
    BY <1>1, <2>1, <2>2, <2>4, QuietSweep
<1>7. CASE SweepScan
  <2> DEFINE page == FindExpired(sweep.now, SweepBatch, sweep.cursor)
             next == [sweep EXCEPT !.pc = "batch", !.due = page,
                                   !.full = Cardinality(page) >= SweepBatch]
  <2>1. sweep.pc = "scan" /\ UNCHANGED <<records, notices>>
        /\ (sweep' = PassOver \/ sweep' = next)
    BY <1>7 DEF SweepScan
  <2>2. sweep.item = Never
    BY <1>3, <2>1
  <2>3. next.item = sweep.item /\ next.pc = "batch"
    <3> HIDE DEF page
    <3> QED
      BY DEF TypeInv, TypeOK, SweepState
  <2> HIDE DEF next
  <2> QED
    BY <1>1, <1>2, <1>4, <2>1, <2>2, <2>3, QuietSweep
<1>8. CASE SweepHalt \/ SweepSkip \/ SweepFault \/ SweepAbort \/ SweepReport
  <2>1. UNCHANGED <<records, notices>>
        /\ (sweep.pc \notin {"expiring", "expired"} \/ faults' = faults + 1)
    BY <1>8 DEF SweepHalt, SweepSkip, SweepFault, SweepAbort, SweepReport, Fault
  <2>2. \/ sweep' = PassOver \/ sweep' = IdleSweep \/ \E id \in Ids : sweep' = AfterVisit(id)
    BY <1>8 DEF SweepHalt, SweepSkip, SweepFault, SweepAbort, SweepReport, TypeInv, ActorsKnowTheirId
  <2> QED
    BY <1>1, <1>2, <1>3, <1>4, <2>1, <2>2, QuietSweep
<1>9. CASE SweepClaim
  <2>1. PICK id \in Ids :
          /\ ClaimExpiry(id)
          /\ sweep' = IF Wins(id, "suspended")
                      THEN [sweep EXCEPT !.pc = "expiring", !.item = id]
                      ELSE AfterVisit(id)
    BY <1>9 DEF SweepClaim
  <2>2. sweep.item = Never /\ Up /\ UNCHANGED <<process, faults, notices>>
    BY <1>3, <1>9 DEF SweepClaim
  <2>3. CASE Wins(id, "suspended")
    <3>1. sweep'.item = id /\ sweep'.pc = "expiring"
      BY <2>1, <2>3 DEF TypeInv, TypeOK, SweepState
    <3>2. Swapped(id, "suspended", "expiring")
      BY <2>1, CasEffect
    <3>3. FinalizersHaveTold' /\ ItemIsAClaim' /\ StopsAreCounted'
      BY <1>1, <2>2, <3>1
      DEF NobodyIsForgottenInv, FinalizersHaveTold, ItemIsAClaim, StopsAreCounted, Stopping, Up
    <3>4. \A j \in Ids : Held(j) => Held(j)'
      BY <1>1, <2>2 DEF Held
    <3>5. \A j \in Ids : j = id => Held(j)'
      BY <3>1 DEF Held
    <3>6. \A j \in Ids : \/ StatusOf(j)' = StatusOf(j)
                         \/ StatusOf(j)' = "expiring" /\ Held(j)'
      BY <3>2, <3>5 DEF Swapped
    <3> QED
      BY <1>1, <2>2, <3>3, <3>4, <3>6, ForgottenFrame
  <2>4. CASE ~Wins(id, "suspended")
    <3>1. records' = records /\ sweep' = AfterVisit(id)
      BY <2>1, <2>4 DEF ClaimExpiry, Transition
    <3> QED
      BY <1>1, <1>2, <1>4, <2>2, <3>1, QuietSweep
  <2> QED
    BY <2>3, <2>4
<1>10. CASE SweepNotify
  <2>1. /\ Up /\ sweep.pc = "expiring" /\ sweep' = [sweep EXCEPT !.pc = "expired"]
        /\ notices' = [notices EXCEPT ![sweep.item] = @ + 1]
        /\ UNCHANGED <<records, process, faults>>
    BY <1>10 DEF SweepNotify
  <2>2. sweep.item \in Ids /\ sweep'.item = sweep.item /\ sweep'.pc = "expired"
    BY <2>1 DEF TypeInv, TypeOK, ActorsKnowTheirId, SweepState
  <2>3. /\ \A j \in Ids : notices[j] > 0 => notices'[j] > 0
        /\ notices'[sweep.item] > 0
    <3>1. notices \in [Ids -> Nat]
      BY DEF TypeInv, TypeOK
    <3>2. notices[sweep.item] \in Nat /\ notices'[sweep.item] = notices[sweep.item] + 1
      BY <2>1, <2>2, <3>1
    <3>3. \A j \in Ids \ {sweep.item} : notices'[j] = notices[j]
      BY <2>1, <2>2, <3>1
    <3> QED
      BY <3>2, <3>3
  <2>4. FinalizersHaveTold'
    <3>1. \A r \in Resumers : resume[r].pc \in {"expired", "refused"} => resume[r].id \in Ids
      BY DEF TypeInv, ActorsKnowTheirId
    <3> QED
      BY <1>1, <2>2, <2>3, <3>1 DEF NobodyIsForgottenInv, FinalizersHaveTold
  <2>5. ItemIsAClaim' /\ StopsAreCounted'
    BY <1>1, <2>1, <2>2 DEF NobodyIsForgottenInv, ItemIsAClaim, StopsAreCounted, Stopping, Up
  <2>6. \A j \in Ids : Held(j) => Held(j)'
    BY <1>1, <2>2 DEF Held
  <2> QED
    BY <1>1, <1>4, <2>1, <2>3, <2>4, <2>5, <2>6, ForgottenFrame
<1>11. CASE SweepFinalize
  <2>1. /\ sweep.pc = "expired" /\ sweep.item \in Ids /\ MarkExpired(sweep.item)
        /\ sweep' = AfterVisit(sweep.item) /\ UNCHANGED <<process, faults, notices>>
    BY <1>11 DEF SweepFinalize, TypeInv, ActorsKnowTheirId
  <2>2. notices[sweep.item] > 0
    BY <2>1 DEF NobodyIsForgottenInv, FinalizersHaveTold
  <2>3. sweep'.item = Never /\ sweep'.pc \notin {"expiring", "expired"}
    BY <1>2, <2>1
  <2>4. \A j \in Ids :
          /\ StatusOf(j)' = "expiring" => StatusOf(j) = "expiring" /\ j # sweep.item
          /\ StatusOf(j)' = "expired" => StatusOf(j) = "expired" \/ notices[j] > 0
          /\ StatusOf(j)' = "denied" => StatusOf(j) = "denied"
    BY <2>1, <2>2, CasEffect DEF Swapped
  <2>5. FinalizersHaveTold' /\ ItemIsAClaim' /\ StopsAreCounted'
    BY <1>1, <2>1, <2>3
    DEF NobodyIsForgottenInv, FinalizersHaveTold, ItemIsAClaim, StopsAreCounted, Stopping, Up
  <2>6. \A j \in Ids : Held(j) /\ j # sweep.item => Held(j)'
    BY <1>1 DEF Held
  <2> QED
    BY <1>1, <2>1, <2>4, <2>5, <2>6, ForgottenFrame
<1> QED
  BY <1>5, <1>6, <1>7, <1>8, <1>9, <1>10, <1>11 DEF SweepStep

(***************************************************************************)
(* The process: it dies only by a crash or after a stop, both counted.     *)
(***************************************************************************)
LEMMA HostForgetsNobody ==
  ASSUME TypeInv, TypeInv', NobodyIsForgottenInv, TimePasses \/ Start \/ Crash \/ Stop \/ Exit
  PROVE  NobodyIsForgottenInv'
<1> USE DEF storeVars, world, host, actorVars
<1>1. /\ UNCHANGED <<records, notices, refusals, faults>>
      /\ restarts \in Nat /\ faults \in Nat
  BY DEF TimePasses, Tick, Start, Crash, Stop, Exit, TypeInv, TypeOK
<1>2. \A id \in Ids : StatusOf(id)' = StatusOf(id)
  BY <1>1 DEF StatusOf
<1>3. CASE TimePasses \/ Stop
  <2>1. /\ UNCHANGED <<park, resume, sweep>>
        /\ restarts' = restarts \/ restarts' = restarts + 1
        /\ process' = process \/ (process' = "stopping" /\ restarts' = restarts + 1)
    BY <1>3 DEF TimePasses, Stop
  <2>2. FinalizersHaveTold' /\ ItemIsAClaim' /\ StopsAreCounted'
    BY <1>1, <2>1
    DEF NobodyIsForgottenInv, FinalizersHaveTold, ItemIsAClaim, StopsAreCounted, Stopping, Up
  <2>3. \A j \in Ids : Held(j) => Held(j)'
    BY <2>1 DEF Held
  <2> QED
    BY <1>1, <1>2, <2>1, <2>2, <2>3, ForgottenFrame
<1>4. CASE Start
  <2>1. /\ UNCHANGED <<park, resume, restarts>> /\ process' = "booting"
        /\ sweep'.item = Never /\ sweep'.pc = "boot"
    BY <1>4 DEF Start, IdleSweep
  <2>2. FinalizersHaveTold' /\ ItemIsAClaim' /\ StopsAreCounted'
    BY <1>1, <2>1
    DEF NobodyIsForgottenInv, FinalizersHaveTold, ItemIsAClaim, StopsAreCounted, Stopping, Up
  <2>3. sweep.item = Never
    BY <1>4 DEF Start, NobodyIsForgottenInv, ItemIsAClaim, Up
  <2>4. \A j \in Ids : Held(j) => Held(j)'
    BY <2>1, <2>3 DEF Held
  <2> QED
    BY <1>1, <1>2, <2>1, <2>2, <2>4, ForgottenFrame
<1>5. CASE Crash \/ Exit
  <2>1. /\ process' = "down" /\ sweep' = IdleSweep
        /\ restarts' = restarts \/ restarts' = restarts + 1
        /\ restarts' > 0 \/ faults' > 0
        /\ \A r \in Resumers : resume'[r].pc = "idle"
        /\ \A id \in Ids : park[id] = "cancelled" => park'[id] = "cancelled"
    BY <1>1, <1>5 DEF Crash, Exit, Forget, IdleResume, NobodyIsForgottenInv, StopsAreCounted,
                      TypeInv, TypeOK
  <2>2. FinalizersHaveTold'
    BY <2>1 DEF FinalizersHaveTold, IdleSweep
  <2>3. ItemIsAClaim'
    BY <2>1 DEF ItemIsAClaim, IdleSweep
  <2>4. StopsAreCounted'
    BY <2>1 DEF StopsAreCounted, Stopping
  <2>5. restarts' = 0 /\ faults' = 0 => FALSE
    BY <2>1, <1>1
  <2> QED
    BY <1>1, <1>2, <2>1, <2>2, <2>3, <2>4, <2>5, ForgottenFrame
<1> QED
  BY <1>3, <1>4, <1>5

(***************************************************************************)
(* The strengthened invariant holds in every reachable state.              *)
(***************************************************************************)
LEMMA NobodyIsForgottenInvariant == Spec => []NobodyIsForgottenInv
<1>1. Init => NobodyIsForgottenInv
  BY DEF Init, StoreInit, NobodyIsForgottenInv, FinalizersHaveTold, ItemIsAClaim, StopsAreCounted,
         Stopping, SettledMeansTold, ClaimsOwned, StatusOf, AbsentRecord, IdleResume, IdleSweep
<1>2. TypeInv /\ TypeInv' /\ NobodyIsForgottenInv /\ [Next]_vars => NobodyIsForgottenInv'
  <2>1. SUFFICES ASSUME TypeInv, TypeInv', NobodyIsForgottenInv, [Next]_vars
        PROVE  NobodyIsForgottenInv'
    OBVIOUS
  <2>2. CASE UNCHANGED vars
    BY <2>1, <2>2
    DEF vars, storeVars, host, actorVars, world, NobodyIsForgottenInv, FinalizersHaveTold,
        ItemIsAClaim, StopsAreCounted, Stopping, Up, SettledMeansTold, ClaimsOwned, StatusOf, Holders
  <2>3. CASE Next
    BY <2>1, <2>3, ParkForgetsNobody, ResumeForgetsNobody, SweepForgetsNobody, HostForgetsNobody
    DEF Next
  <2> QED
    BY <2>1, <2>2, <2>3
<1> QED
  BY <1>1, <1>2, TypeInvariant, PTL DEF Spec

(***************************************************************************)
(* Nobody is left at a dead link: expireSuspension, refuseContinuation,    *)
(* the sweeper and a cancelled park tell before they finalize, and a claim *)
(* has a living owner unless an interruption left it to its lease.         *)
(***************************************************************************)
THEOREM NobodyIsLeftBehind == Spec => []NobodyIsForgotten
BY NobodyIsForgottenInvariant, PTL DEF NobodyIsForgottenInv, NobodyIsForgotten

-----------------------------------------------------------------------------
(* The stranded are reported. *)

BootIsOver == faults = 0 /\ Up /\ ~sweep.boot /\ sweep.pc \notin {"boot", "report"}

Stranded(id) == StatusOf(id) = "resumed" /\ records[id].terminal = NoOutcome

(***************************************************************************)
(* What a step may do without leaving a stranded continuation unnamed.     *)
(***************************************************************************)
LEMMA StrandedFrame ==
  ASSUME TypeInv, StrandedInv,
         sweep'.pc = "idle" => ~sweep'.boot,
         BootIsOver' => BootIsOver, reported \subseteq reported',
         \A id \in Ids : Stranded(id)' =>
           \/ Stranded(id) /\ (AtWork(id) => AtWork(id)')
           \/ AtWork(id)'
  PROVE  StrandedInv'
<1> SUFFICES ASSUME BootIsOver', NEW id \in Ids, Stranded(id)'
    PROVE  id \in reported' \/ AtWork(id)'
  BY DEF StrandedInv, BootIsOver, ResumedWithoutTerminal, Stranded, StatusOf, Up
<1>1. Stranded(id) => id \in reported \/ AtWork(id)
  BY DEF StrandedInv, BootIsOver, ResumedWithoutTerminal, Stranded
<1> QED
  BY <1>1

(***************************************************************************)
(* A resume call is at work from the moment it won until an outcome is     *)
(* recorded.                                                               *)
(***************************************************************************)
LEMMA ResumeStrandsNobody ==
  ASSUME TypeInv, TypeInv', StrandedInv, NEW r \in Resumers, ResumeStep(r) \/ ResumeFault(r)
  PROVE  StrandedInv'
<1> USE DEF storeVars, world, host
<1>0. /\ faults \in Nat
      /\ resume[r].pc # "idle" => resume[r].id \in Ids
      /\ sweep.pc = "idle" => ~sweep.boot
  BY DEF TypeInv, TypeOK, ActorsKnowTheirId, StrandedInv
<1>1. /\ UNCHANGED <<process, sweep, reported>>
      /\ faults' = faults \/ faults' = faults + 1
      /\ ResumeFault(r) => faults' = faults + 1
  BY DEF ResumeStep, ResumeRead, ResumeRefused, ResumeSettled, ResumeOverdue, ResumeChanged,
         ClaimOrReply, ResumeIntact, ResumeInvalid, ResumeClaim, ResumeLate, ResumeTell,
         ResumeRun, ResumeBroken, ResumeEnd, ResumeNotify, ResumeFinalize, ResumeFault, Fault
<1>2. BootIsOver' => BootIsOver
  BY <1>0, <1>1 DEF BootIsOver, Up
<1>3. CASE ResumeFault(r)
  <2>1. ~BootIsOver'
    BY <1>0, <1>1, <1>3 DEF BootIsOver
  <2> QED
    BY <1>0, <1>1, <2>1 DEF StrandedInv, BootIsOver, Up
<1>4. ASSUME \A s \in Resumers \ {r} : resume'[s] = resume[s],
             resume[r].pc \notin {"won", "running"}
      PROVE  \A id \in Ids : AtWork(id) => AtWork(id)'
  BY <1>4 DEF AtWork
<1>5. ASSUME \A s \in Resumers \ {r} : resume'[s] = resume[s],
             resume[r].pc \notin {"won", "running"},
             \A id \in Ids : Stranded(id)' => Stranded(id)
      PROVE  StrandedInv'
  BY <1>0, <1>1, <1>2, <1>4, <1>5, StrandedFrame
<1>6. records' = records => \A id \in Ids : Stranded(id)' => Stranded(id)
  BY DEF Stranded, StatusOf
<1>7. CASE \E id \in Ids : ResumeRead(r, id)
  <2>1. /\ resume[r].pc = "idle" /\ records' = records
        /\ \A s \in Resumers \ {r} : resume'[s] = resume[s]
    BY <1>7 DEF ResumeRead, TypeInv, TypeOK
  <2> QED
    BY <1>5, <1>6, <2>1
<1>8. CASE \/ ResumeRefused(r) \/ ResumeSettled(r) \/ ResumeIntact(r) \/ ResumeInvalid(r)
           \/ ResumeTell(r) \/ ResumeNotify(r)
  <2>1. /\ resume[r].pc \notin {"won", "running"} /\ records' = records
        /\ Return(r) \/ \E pc : Go(r, pc)
    BY <1>8 DEF ResumeRefused, ResumeSettled, ReplySettled, ResumeIntact, Accepted,
                ResumeInvalid, ResumeTell, ResumeNotify
  <2> QED
    BY <1>5, <1>6, <2>1, GoMoves
<1>9. CASE ResumeOverdue(r) \/ ResumeChanged(r) \/ ResumeFinalize(r)
  <2>1. /\ resume[r].pc \notin {"idle", "won", "running"}
        /\ Return(r) \/ \E pc : Go(r, pc)
        /\ \/ ClaimExpiry(resume[r].id) \/ MarkExpired(resume[r].id)
           \/ MarkDenied(resume[r].id)
    BY <1>9 DEF ResumeOverdue, ResumeChanged, Accepted, ClaimOrReply, ReplySettled, ResumeFinalize
  <2>2. \A id \in Ids : Stranded(id)' => Stranded(id)
    BY <1>0, <2>1, CasEffect DEF Swapped, Stranded
  <2> QED
    BY <1>5, <2>1, <2>2, GoMoves
<1>10. CASE ResumeClaim(r)
  <2>1. resume[r].pc = "validating" /\ MarkResumed(resume[r].id)
    BY <1>10 DEF ResumeClaim
  <2>2. Swapped(resume[r].id, "suspended", "resumed")
    BY <1>0, <2>1, CasEffect
  <2>3. CASE Wins(resume[r].id, "suspended")
    <3>1. Go(r, "won")
      BY <1>10, <2>3 DEF ResumeClaim
    <3>2. \A id \in Ids : id = resume[r].id => AtWork(id)'
      BY <3>1, GoMoves DEF AtWork
    <3>3. \A id \in Ids : AtWork(id) => AtWork(id)'
      BY <1>4, <2>1, <3>1, GoMoves
    <3>4. \A id \in Ids : Stranded(id)' => Stranded(id) \/ id = resume[r].id
      BY <2>2 DEF Swapped, Stranded
    <3> QED
      BY <1>0, <1>1, <1>2, <3>2, <3>3, <3>4, StrandedFrame
  <2>4. CASE ~Wins(resume[r].id, "suspended")
    <3>1. Return(r) /\ records' = records
      BY <1>10, <2>4 DEF ResumeClaim, ReplySettled, MarkResumed, Transition
    <3> QED
      BY <1>5, <1>6, <2>1, <3>1, GoMoves
  <2> QED
    BY <2>3, <2>4
<1>11. CASE ResumeRun(r)
  <2>1. resume[r].pc = "won" /\ Go(r, "running") /\ records' = records
    BY <1>11 DEF ResumeRun
  <2>2. /\ resume'[r].pc = "running" /\ resume'[r].id = resume[r].id
        /\ \A s \in Resumers \ {r} : resume'[s] = resume[s]
    BY <2>1, GoMoves
  <2>3. \A id \in Ids : AtWork(id) => AtWork(id)'
    BY <2>2 DEF AtWork
  <2> QED
    BY <1>0, <1>1, <1>2, <1>6, <2>1, <2>3, StrandedFrame
<1>12. CASE ResumeLate(r) \/ ResumeBroken(r) \/ ResumeEnd(r)
  <2>1. PICK outcome \in Outcomes : RecordTerminal(resume[r].id, outcome)
    BY <1>12 DEF ResumeLate, ResumeBroken, ResumeEnd, Outcomes
  <2>2. resume[r].pc \in {"won", "running"} /\ (Return(r) \/ Go(r, "telling"))
    BY <1>12 DEF ResumeLate, ResumeBroken, ResumeEnd
  <2>3. resume[r].id \in Ids /\ outcome # NoOutcome
    BY <1>0, <2>2, NoOutcomeAssumption
  <2>4. \A id \in Ids : Stranded(id)' => Stranded(id) /\ id # resume[r].id
    BY <2>1, <2>3, SweepOpsEffect DEF Stranded
  <2>5. \A s \in Resumers \ {r} : resume'[s] = resume[s]
    BY <2>2, GoMoves
  <2>6. \A id \in Ids : AtWork(id) /\ id # resume[r].id => AtWork(id)'
    BY <2>5 DEF AtWork
  <2> QED
    BY <1>0, <1>1, <1>2, <2>4, <2>6, StrandedFrame
<1> QED
  BY <1>3, <1>7, <1>8, <1>9, <1>10, <1>11, <1>12 DEF ResumeStep

(***************************************************************************)
(* Parks, the sweeper and the process: only the boot summary ends a boot   *)
(* scan that was not interrupted.                                          *)
(***************************************************************************)
LEMMA OthersStrandNobody ==
  ASSUME TypeInv, TypeInv', StrandedInv,
         \/ \E id \in Ids : ParkStep(id) \/ ParkFault(id)
         \/ SweepStep \/ SweepFault \/ SweepPurgeFault \/ SweepAbort
         \/ TimePasses \/ Start \/ Crash \/ Stop \/ Exit
  PROVE  StrandedInv'
<1> USE DEF storeVars, world, host, actorVars
<1>0. faults \in Nat /\ (sweep.pc = "idle" => ~sweep.boot)
  BY DEF TypeInv, TypeOK, StrandedInv
<1>1. ASSUME resume' = resume, reported' = reported,
             sweep'.pc = "idle" => ~sweep'.boot,
             BootIsOver' => BootIsOver,
             \A id \in Ids : Stranded(id)' => Stranded(id)
      PROVE  StrandedInv'
  <2>1. \A id \in Ids : AtWork(id) => AtWork(id)'
    BY <1>1 DEF AtWork
  <2> QED
    BY <1>1, <2>1, StrandedFrame
<1>2. records' = records => \A id \in Ids : Stranded(id)' => Stranded(id)
  BY DEF Stranded, StatusOf
<1>3. ASSUME ~BootIsOver', sweep'.pc = "idle" => ~sweep'.boot
      PROVE  StrandedInv'
  BY <1>3 DEF StrandedInv, BootIsOver, Up
<1>4. /\ \A id \in Ids :
           \/ AfterVisit(id) = PassOver
           \/ AfterVisit(id).boot = sweep.boot /\ AfterVisit(id).pc \in {"batch", "scan"}
      /\ ~PassOver.boot /\ PassOver.pc = IF sweep.boot THEN "report" ELSE "idle"
      /\ ~IdleSweep.boot /\ IdleSweep.pc = "idle"
  BY DEF AfterVisit, PassOver, IdleSweep, TypeInv, TypeOK, SweepState
<1>5. ASSUME NEW id \in Ids, ParkStep(id) \/ ParkFault(id)
      PROVE  StrandedInv'
  <2>1. /\ UNCHANGED <<resume, sweep, process, reported>>
        /\ faults' = faults \/ faults' = faults + 1
    BY <1>5 DEF ParkStep, ParkCreate, ParkAnnounce, ParkCancelled, ParkDeny, ParkFault, Fault
  <2>2. \A j \in Ids : Stranded(j)' => Stranded(j)
    <3>1. CASE ParkCreate(id)
      <4>1. PICK ttl \in Ttls : Create(id, ttl)
        BY <3>1 DEF ParkCreate
      <4> QED
        BY <4>1 DEF Create, StatusOf, Stranded, AbsentRecord, TypeInv, TypeOK, StoreTypeOK
    <3>2. CASE ParkAnnounce(id) \/ ParkFault(id)
      BY <1>2, <3>2 DEF ParkAnnounce, ParkFault, Fault
    <3>3. CASE ParkCancelled(id) \/ ParkDeny(id)
      BY <3>3, CasEffect DEF ParkCancelled, ParkDeny, Swapped, Stranded
    <3> QED
      BY <1>5, <3>1, <3>2, <3>3 DEF ParkStep
  <2>3. BootIsOver' => BootIsOver
    BY <1>0, <2>1 DEF BootIsOver, Up
  <2> QED
    BY <1>0, <1>1, <2>1, <2>2, <2>3
<1>6. CASE SweepBegin
  <2>1. /\ UNCHANGED <<resume, process, reported, faults>>
        /\ sweep.pc = "boot" \/ sweep.pc = "idle"
        /\ process # "down"
        /\ ReleaseExpiring(clock - Lease)
        /\ sweep' = [IdleSweep EXCEPT !.pc = "purge", !.now = clock, !.boot = (sweep.pc = "boot")]
    BY <1>6 DEF SweepBegin
  <2>2. sweep'.pc = "purge" /\ sweep'.boot = (sweep.pc = "boot")
    BY <2>1 DEF IdleSweep
  <2>3. \A j \in Ids : Stranded(j)' => Stranded(j)
    BY <2>1, SweepOpsEffect DEF StatusOf, Stranded
  <2>4. BootIsOver' => BootIsOver
    BY <1>0, <2>1, <2>2 DEF BootIsOver, Up
  <2> QED
    BY <1>1, <2>1, <2>2, <2>3, <2>4
<1>7. CASE SweepPurge
  <2>1. /\ UNCHANGED <<resume, process, reported, faults>>
        /\ sweep.pc = "purge" /\ sweep' = [sweep EXCEPT !.pc = "scan"]
        /\ records' = records \/ \E before : PurgeSettled(before)
    BY <1>7 DEF SweepPurge
  <2>2. sweep'.pc = "scan" /\ sweep'.boot = sweep.boot
    BY <2>1 DEF TypeInv, TypeOK, SweepState
  <2>3. \A j \in Ids : Stranded(j)' => Stranded(j)
    BY <2>1, SweepOpsEffect DEF StatusOf, Stranded, AbsentRecord
  <2>4. BootIsOver' => BootIsOver
    BY <2>1, <2>2 DEF BootIsOver, Up
  <2> QED
    BY <1>1, <2>1, <2>2, <2>3, <2>4
<1>8. CASE SweepScan \/ SweepHalt \/ SweepSkip \/ SweepClaim \/ SweepNotify \/ SweepFinalize
  <2> DEFINE page == FindExpired(sweep.now, SweepBatch, sweep.cursor)
             next == [sweep EXCEPT !.pc = "batch", !.due = page,
                                   !.full = Cardinality(page) >= SweepBatch]
  <2>1. UNCHANGED <<resume, process, reported, faults>>
    BY <1>8 DEF SweepScan, SweepHalt, SweepSkip, SweepClaim, SweepNotify, SweepFinalize
  <2>2. /\ sweep.pc \in {"scan", "batch", "expiring", "expired"}
        /\ \/ sweep' = PassOver
           \/ \E id \in Ids : sweep' = AfterVisit(id)
           \/ sweep' = next
           \/ \E id \in Ids : sweep' = [sweep EXCEPT !.pc = "expiring", !.item = id]
           \/ sweep' = [sweep EXCEPT !.pc = "expired"]
    BY <1>8 DEF SweepScan, SweepHalt, SweepSkip, SweepClaim, SweepNotify, SweepFinalize,
                TypeInv, ActorsKnowTheirId
  <2>3. next.pc = "batch" /\ next.boot = sweep.boot
    <3> HIDE DEF page
    <3> QED
      BY DEF TypeInv, TypeOK, SweepState
  <2>4. /\ \A id \in Ids : LET s == [sweep EXCEPT !.pc = "expiring", !.item = id]
                           IN s.pc = "expiring" /\ s.boot = sweep.boot
        /\ [sweep EXCEPT !.pc = "expired"].pc = "expired"
        /\ [sweep EXCEPT !.pc = "expired"].boot = sweep.boot
    BY DEF TypeInv, TypeOK, SweepState
  <2> HIDE DEF next
  <2>5. \/ sweep' = PassOver
        \/ sweep'.boot = sweep.boot /\ sweep'.pc \in {"batch", "scan", "expiring", "expired"}
    <3>1. ASSUME NEW id \in Ids, sweep' = [sweep EXCEPT !.pc = "expiring", !.item = id]
          PROVE  sweep'.pc = "expiring" /\ sweep'.boot = sweep.boot
      BY <2>4, <3>1
    <3>2. ASSUME sweep' = [sweep EXCEPT !.pc = "expired"]
          PROVE  sweep'.pc = "expired" /\ sweep'.boot = sweep.boot
      BY <2>4, <3>2
    <3> QED
      BY <1>4, <2>2, <2>3, <3>1, <3>2
  <2>6. sweep'.pc = "idle" => ~sweep'.boot
    BY <1>4, <2>5
  <2>7. BootIsOver' => BootIsOver
    BY <1>4, <2>1, <2>2, <2>5 DEF BootIsOver, Up
  <2>8. \A j \in Ids : Stranded(j)' => Stranded(j)
    <3>1. CASE UNCHANGED records
      BY <1>2, <3>1
    <3>2. CASE SweepClaim
      BY <3>2, CasEffect DEF SweepClaim, Swapped, Stranded
    <3>3. CASE SweepFinalize
      <4>1. sweep.item \in Ids /\ MarkExpired(sweep.item)
        BY <3>3 DEF SweepFinalize, TypeInv, ActorsKnowTheirId
      <4> QED
        BY <4>1, CasEffect DEF Swapped, Stranded
    <3> QED
      BY <1>8, <3>1, <3>2, <3>3 DEF SweepScan, SweepHalt, SweepSkip, SweepNotify
  <2> QED
    BY <1>1, <2>1, <2>6, <2>7, <2>8
<1>9. CASE SweepReport
  <2>1. /\ sweep' = IdleSweep /\ UNCHANGED <<records, faults>>
        /\ reported' = reported \union ResumedWithoutTerminal
    BY <1>9 DEF SweepReport
  <2>2. ResumedWithoutTerminal' = ResumedWithoutTerminal
    BY <2>1 DEF ResumedWithoutTerminal, StatusOf
  <2> QED
    BY <1>4, <2>1, <2>2 DEF StrandedInv
<1>10. CASE SweepFault \/ SweepPurgeFault \/ SweepAbort
  <2>1. ~BootIsOver'
    BY <1>0, <1>10 DEF SweepFault, SweepPurgeFault, SweepAbort, Fault, BootIsOver
  <2>2. \/ sweep' = IdleSweep \/ \E id \in Ids : sweep' = AfterVisit(id)
        \/ sweep' = [sweep EXCEPT !.pc = "scan"]
    BY <1>10 DEF SweepFault, SweepPurgeFault, SweepAbort, TypeInv, ActorsKnowTheirId
  <2>3. [sweep EXCEPT !.pc = "scan"].pc = "scan"
    BY DEF TypeInv, TypeOK, SweepState
  <2>4. sweep'.pc = "idle" => ~sweep'.boot
    BY <1>4, <2>2, <2>3
  <2> QED
    BY <1>3, <2>1, <2>4
<1>11. CASE TimePasses \/ Stop
  <2>1. UNCHANGED <<records, resume, sweep, reported, faults>> /\ (Up' => Up)
    BY <1>11 DEF TimePasses, Tick, Stop, Admits, Up
  <2> QED
    BY <1>0, <1>1, <1>2, <2>1 DEF BootIsOver, Up
<1>12. CASE Start \/ Crash \/ Exit
  <2>1. /\ process' = "down" \/ sweep'.pc = "boot"
        /\ ~sweep'.boot
    BY <1>12 DEF Start, Crash, Exit, Forget, IdleSweep
  <2> QED
    BY <1>3, <2>1 DEF BootIsOver, Up
<1> QED
  BY <1>5, <1>6, <1>7, <1>8, <1>9, <1>10, <1>11, <1>12 DEF SweepStep

(***************************************************************************)
(* The strengthened invariant holds in every reachable state.              *)
(***************************************************************************)
LEMMA StrandedInvariant == Spec => []StrandedInv
<1>1. Init => StrandedInv
  BY DEF Init, StoreInit, StrandedInv, Up, IdleSweep
<1>2. TypeInv /\ TypeInv' /\ StrandedInv /\ [Next]_vars => StrandedInv'
  <2>1. SUFFICES ASSUME TypeInv, TypeInv', StrandedInv, [Next]_vars
        PROVE  StrandedInv'
    OBVIOUS
  <2>2. CASE UNCHANGED vars
    BY <2>1, <2>2 DEF vars, storeVars, host, actorVars, world, StrandedInv, Up, AtWork,
                      ResumedWithoutTerminal, StatusOf
  <2>3. CASE Next
    BY <2>1, <2>3, ResumeStrandsNobody, OthersStrandNobody DEF Next
  <2> QED
    BY <2>1, <2>2, <2>3
<1> QED
  BY <1>1, <1>2, TypeInvariant, PTL DEF Spec

(***************************************************************************)
(* Only the sweeper removes a record, by purging what is settled.          *)
(***************************************************************************)
LEMMA OnlyPurgeRemoves ==
  ASSUME TypeInv, [Next]_vars, NEW id \in Ids, StatusOf(id) # "absent", StatusOf(id)' = "absent"
  PROVE  SweepPurge
<1> USE DEF storeVars, world, host, actorVars
<1>1. records' # records
  BY DEF StatusOf
<1>2. ASSUME NEW j \in Ids, ParkStep(j) \/ ParkFault(j)
      PROVE  FALSE
  <2>1. CASE ParkCreate(j)
    <3>1. PICK ttl \in Ttls : Create(j, ttl)
      BY <2>1 DEF ParkCreate
    <3> QED
      BY <3>1 DEF Create, StatusOf, AbsentRecord, TypeInv, TypeOK, StoreTypeOK
  <2>2. CASE ParkAnnounce(j) \/ ParkFault(j)
    BY <1>1, <2>2 DEF ParkAnnounce, ParkFault, Fault
  <2>3. CASE ParkCancelled(j) \/ ParkDeny(j)
    BY <2>3, CasEffect DEF ParkCancelled, ParkDeny, Swapped
  <2> QED
    BY <1>2, <2>1, <2>2, <2>3 DEF ParkStep
<1>3. ASSUME NEW r \in Resumers, ResumeStep(r) \/ ResumeFault(r)
      PROVE  FALSE
  <2>1. resume[r].pc # "idle" => resume[r].id \in Ids
    BY DEF TypeInv, ActorsKnowTheirId
  <2>2. /\ resume[r].pc # "idle"
        /\ \/ \E outcome : RecordTerminal(resume[r].id, outcome)
           \/ MarkResumed(resume[r].id) \/ ClaimExpiry(resume[r].id)
           \/ MarkExpired(resume[r].id) \/ MarkDenied(resume[r].id)
    BY <1>1, <1>3
    DEF ResumeStep, ResumeRead, ResumeRefused, ResumeSettled, ResumeOverdue, ResumeChanged,
        ClaimOrReply, ResumeIntact, Accepted, ResumeInvalid, ResumeClaim, ResumeLate, ResumeTell,
        ResumeRun, ResumeBroken, ResumeEnd, ResumeNotify, ResumeFinalize, ResumeFault, Fault
  <2>3. \A j \in Ids : StatusOf(j)' = "absent" => StatusOf(j) = "absent"
    <3>1. CASE MarkResumed(resume[r].id) \/ ClaimExpiry(resume[r].id)
      BY <2>1, <2>2, <3>1, CasEffect DEF Swapped
    <3>2. CASE MarkExpired(resume[r].id) \/ MarkDenied(resume[r].id)
      BY <2>1, <2>2, <3>2, CasEffect DEF Swapped
    <3>3. CASE \E outcome : RecordTerminal(resume[r].id, outcome)
      BY <2>1, <2>2, <3>3, SweepOpsEffect
    <3> QED
      BY <2>2, <3>1, <3>2, <3>3
  <2> QED
    BY <2>3
<1>4. ASSUME SweepStep, ~SweepPurge
      PROVE  FALSE
  <2>1. \/ ReleaseExpiring(clock - Lease)
        \/ \E j \in Ids : ClaimExpiry(j) \/ MarkExpired(j)
    BY <1>1, <1>4 DEF SweepStep, SweepBegin, SweepScan, SweepHalt, SweepSkip, SweepClaim, SweepNotify,
         SweepFinalize, SweepReport, TypeInv, ActorsKnowTheirId
  <2> QED
    BY <2>1, CasEffect, SweepOpsEffect DEF Swapped, StatusOf
<1>5. ASSUME \/ SweepFault \/ SweepPurgeFault \/ SweepAbort
             \/ TimePasses \/ Start \/ Crash \/ Stop \/ Exit \/ UNCHANGED vars
      PROVE  FALSE
  BY <1>1, <1>5 DEF SweepFault, SweepPurgeFault, SweepAbort, Fault, TimePasses, Tick, Start, Crash,
       Stop, Exit, vars
<1> QED
  BY <1>2, <1>3, <1>4, <1>5 DEF Next

(***************************************************************************)
(* Half-run continuations surface: a boot summary names what a dead        *)
(* process left resumed without an outcome before a later purge removes    *)
(* the record.                                                             *)
(***************************************************************************)
THEOREM HalfRunsSurface == Spec => StrandedAreReported
<1>1. TypeInv /\ StrandedInv /\ [Next]_vars =>
        [faults = 0 /\ ~sweep.boot =>
          \A id \in ResumedWithoutTerminal :
            (StatusOf(id)' = "absent" /\ \A r \in Resumers : resume[r].id # id)
              => id \in reported]_vars
  <2> SUFFICES ASSUME TypeInv, StrandedInv, [Next]_vars, faults = 0, ~sweep.boot,
                      NEW id \in ResumedWithoutTerminal, StatusOf(id)' = "absent",
                      \A r \in Resumers : resume[r].id # id
      PROVE  id \in reported
    BY DEF StatusOf
  <2>1. id \in Ids /\ StatusOf(id) # "absent"
    BY DEF ResumedWithoutTerminal
  <2>2. Up /\ sweep.pc = "purge"
    BY <2>1, OnlyPurgeRemoves DEF SweepPurge
  <2>3. ~AtWork(id)
    BY DEF AtWork
  <2> QED
    BY <2>2, <2>3 DEF StrandedInv
<1> QED
  BY <1>1, TypeInvariant, StrandedInvariant, PTL DEF Spec, StrandedAreReported

-----------------------------------------------------------------------------
(* A suspension has one verdict, and every reply repeats it. *)

(***************************************************************************)
(* Where a verdict on an id can be found: in a reply, in its record, in    *)
(* the snapshot of a call.                                                 *)
(***************************************************************************)
SaidOf(id, x) == \E a \in replies : a.id = id /\ a.outcome # NotRecorded /\ a.outcome = x
ReadOf(id, x) == \E r \in Resumers : resume[r].id = id /\ resume[r].snapshot.terminal = x
VerdictOn(id, x) ==
  x # NoOutcome /\ (SaidOf(id, x) \/ records[id].terminal = x \/ ReadOf(id, x))

(***************************************************************************)
(* What is told and what is known of a verdict, spelled out, in a state    *)
(* and after a step.                                                       *)
(***************************************************************************)
LEMMA VerdictMeaning ==
  /\ \A id \in Ids : \A x : x \in Told(id) <=> SaidOf(id, x)
  /\ \A id \in Ids : \A x : x \in Told(id)' <=> SaidOf(id, x)'
  /\ \A id \in Ids : \A x : x \in Verdicts(id) <=> VerdictOn(id, x)
  /\ \A id \in Ids : \A x : x \in Verdicts(id)' <=> VerdictOn(id, x)'
BY DEF Told, Verdicts, SaidOf, ReadOf, VerdictOn

(***************************************************************************)
(* What a step may do to the verdict on an id: leave it to those who knew  *)
(* it, or find the only one, once nobody is left at work.                  *)
(***************************************************************************)
KeepsVerdict(id) ==
  /\ \A x : VerdictOn(id, x)' => VerdictOn(id, x)
  /\ Undecided(id)' => Undecided(id)
  /\ runs'[id] = runs[id] \/ Undecided(id)

Decides(id, outcome) ==
  /\ \A x : VerdictOn(id, x)' => x = outcome
  /\ ~Undecided(id)'
  /\ outcome = "completed" => runs'[id] > 0
  /\ outcome = "overdue" => runs'[id] = 0

RunnersHaveRun(id) ==
  \A r \in Resumers : resume[r].pc = "running" /\ resume[r].id = id => runs[id] > 0

(***************************************************************************)
(* A step that keeps or makes the verdict on every id keeps the invariant  *)
(* of the verdicts.                                                        *)
(***************************************************************************)
LEMMA VerdictFrame ==
  ASSUME VerdictInv, NEW id \in Ids,
         KeepsVerdict(id) \/ \E outcome : Decides(id, outcome)
  PROVE  /\ \A a, b \in Verdicts(id)' : a = b
         /\ "completed" \in Verdicts(id)' => runs'[id] > 0
         /\ "overdue" \in Verdicts(id)' => runs'[id] = 0
         /\ Undecided(id)' => Verdicts(id)' = {}
<1>1. /\ \A a, b \in Verdicts(id) : a = b
      /\ "completed" \in Verdicts(id) => runs[id] > 0
      /\ "overdue" \in Verdicts(id) => runs[id] = 0
      /\ Undecided(id) => Verdicts(id) = {}
  BY DEF VerdictInv
<1>2. CASE KeepsVerdict(id)
  <2>1. \A x : x \in Verdicts(id)' => x \in Verdicts(id)
    BY <1>2, VerdictMeaning DEF KeepsVerdict
  <2>2. Undecided(id)' => Undecided(id)
    BY <1>2 DEF KeepsVerdict
  <2>3. runs'[id] = runs[id] \/ Verdicts(id) = {}
    BY <1>1, <1>2 DEF KeepsVerdict
  <2> QED
    BY <1>1, <2>1, <2>2, <2>3
<1>3. CASE \E outcome : Decides(id, outcome)
  <2>1. PICK outcome : Decides(id, outcome)
    BY <1>3
  <2>2. \A x : x \in Verdicts(id)' => x = outcome
    BY <2>1, VerdictMeaning DEF Decides
  <2> QED
    BY <2>1, <2>2 DEF Decides
<1> QED
  BY <1>2, <1>3

(***************************************************************************)
(* A step that makes no reply, begins no continuation, records no outcome  *)
(* and moves no call, unless it ends them all, leaves every verdict.       *)
(***************************************************************************)
LEMMA QuietVerdict ==
  ASSUME TypeInv, VerdictInv,
         UNCHANGED <<replies, runs>>,
         resume' = resume \/ resume' = [r \in Resumers |-> IdleResume],
         \A id \in Ids :
           /\ records'[id].terminal \in {records[id].terminal, NoOutcome}
           /\ park'[id] = "none" => park[id] = "none"
           /\ StatusOf(id)' \notin {"resumed", "absent"} =>
                StatusOf(id) \notin {"resumed", "absent"} \/ park[id] = "none"
  PROVE  VerdictInv'
<1> SUFFICES ASSUME NEW id \in Ids
    PROVE  KeepsVerdict(id) /\ RunnersHaveRun(id)'
  BY VerdictFrame DEF VerdictInv, RunnersHaveRun
<1>1. \A r \in Resumers : resume'[r].id = id => resume' = resume
  BY DEF IdleResume
<1>2. \A x : VerdictOn(id, x)' => VerdictOn(id, x)
  BY <1>1 DEF VerdictOn, SaidOf, ReadOf
<1>3. AtWork(id)' => AtWork(id)
  BY <1>1 DEF AtWork
<1>4. Undecided(id)' => Undecided(id)
  BY <1>3 DEF Undecided, StatusOf
<1>5. RunnersHaveRun(id)'
  BY <1>1 DEF RunnersHaveRun, VerdictInv
<1> QED
  BY <1>2, <1>4, <1>5 DEF KeepsVerdict

(***************************************************************************)
(* Parks, the sweeper and the process find no verdict.                     *)
(***************************************************************************)
LEMMA OthersKeepVerdicts ==
  ASSUME TypeInv, VerdictInv,
         \/ \E id \in Ids : ParkStep(id) \/ ParkFault(id)
         \/ SweepStep \/ SweepFault \/ SweepPurgeFault \/ SweepAbort
         \/ TimePasses \/ Start \/ Crash \/ Stop \/ Exit \/ UNCHANGED vars
  PROVE  VerdictInv'
<1> USE DEF storeVars, world, host, actorVars
<1>1. ASSUME NEW id \in Ids, ParkStep(id) \/ ParkFault(id)
      PROVE  VerdictInv'
  <2>1. /\ UNCHANGED <<replies, runs, resume>>
        /\ \A j \in Ids : park'[j] = "none" => park[j] = "none"
    BY <1>1 DEF ParkStep, ParkCreate, ParkAnnounce, ParkCancelled, ParkDeny, ParkFault, Fault, GoPark,
                TypeInv, TypeOK
  <2>2. \A j \in Ids :
          /\ records'[j].terminal \in {records[j].terminal, NoOutcome}
          /\ StatusOf(j)' \notin {"resumed", "absent"} =>
               StatusOf(j) \notin {"resumed", "absent"} \/ park[j] = "none"
    <3>1. CASE ParkCreate(id)
      <4>1. PICK ttl \in Ttls : Create(id, ttl)
        BY <3>1 DEF ParkCreate
      <4>2. /\ records'[id].terminal = NoOutcome
            /\ \A j \in Ids \ {id} : records'[j] = records[j]
        BY <4>1 DEF Create, AbsentRecord, TypeInv, TypeOK, StoreTypeOK
      <4> QED
        BY <3>1, <4>2 DEF ParkCreate, StatusOf
    <3>2. CASE ParkAnnounce(id) \/ ParkFault(id)
      BY <3>2 DEF ParkAnnounce, ParkFault, Fault, StatusOf
    <3>3. CASE ParkCancelled(id)
      BY <3>3, CasEffect DEF ParkCancelled, Swapped
    <3>4. CASE ParkDeny(id)
      BY <3>4, CasEffect DEF ParkDeny, Swapped
    <3> QED
      BY <1>1, <3>1, <3>2, <3>3, <3>4 DEF ParkStep
  <2> QED
    BY <2>1, <2>2, QuietVerdict
<1>2. ASSUME SweepStep
      PROVE  VerdictInv'
  <2>1. UNCHANGED <<replies, runs, resume, park>>
    BY <1>2 DEF SweepStep, SweepBegin, SweepPurge, SweepScan, SweepHalt, SweepSkip, SweepClaim,
         SweepNotify, SweepFinalize, SweepReport
  <2>2. \/ records' = records
        \/ ReleaseExpiring(clock - Lease) \/ PurgeSettled(sweep.now - Retention)
        \/ \E id \in Ids : ClaimExpiry(id) \/ MarkExpired(id)
    BY <1>2 DEF SweepStep, SweepBegin, SweepPurge, SweepScan, SweepHalt, SweepSkip, SweepClaim,
         SweepNotify, SweepFinalize, SweepReport, TypeInv, ActorsKnowTheirId
  <2>3. \A j \in Ids :
          /\ records'[j].terminal \in {records[j].terminal, NoOutcome}
          /\ StatusOf(j)' \notin {"resumed", "absent"} => StatusOf(j) \notin {"resumed", "absent"}
    <3>1. CASE records' = records
      BY <3>1 DEF StatusOf
    <3>2. CASE ReleaseExpiring(clock - Lease)
      BY <3>2, SweepOpsEffect DEF StatusOf
    <3>3. CASE PurgeSettled(sweep.now - Retention)
      BY <3>3, SweepOpsEffect DEF StatusOf, AbsentRecord
    <3>4. CASE \E id \in Ids : ClaimExpiry(id) \/ MarkExpired(id)
      BY <3>4, CasEffect DEF Swapped
    <3> QED
      BY <2>2, <3>1, <3>2, <3>3, <3>4
  <2> QED
    BY <2>1, <2>3, QuietVerdict
<1>3. ASSUME \/ SweepFault \/ SweepPurgeFault \/ SweepAbort
             \/ TimePasses \/ Start \/ Crash \/ Stop \/ Exit \/ UNCHANGED vars
      PROVE  VerdictInv'
  <2>1. /\ UNCHANGED <<replies, runs, records>>
        /\ resume' = resume \/ resume' = [r \in Resumers |-> IdleResume]
    BY <1>3 DEF SweepFault, SweepPurgeFault, SweepAbort, Fault, TimePasses, Tick, Start, Crash,
         Stop, Exit, Forget, vars
  <2>2. \A j \in Ids : park'[j] = "none" => park[j] = "none"
    BY <1>3 DEF SweepFault, SweepPurgeFault, SweepAbort, Fault, TimePasses, Tick, Start, Crash,
         Stop, Exit, Forget, vars
  <2>3. \A j \in Ids :
          /\ records'[j].terminal \in {records[j].terminal, NoOutcome}
          /\ StatusOf(j)' = StatusOf(j)
    BY <2>1 DEF StatusOf
  <2> QED
    BY <2>1, <2>2, <2>3, QuietVerdict
<1> QED
  BY <1>1, <1>2, <1>3

(***************************************************************************)
(* A call that moves on or returns no longer has a snapshot.               *)
(***************************************************************************)
LEMMA CallForgets ==
  ASSUME TypeInv, NEW r \in Resumers, Return(r) \/ \E pc : Go(r, pc)
  PROVE  /\ \A id \in Ids : \A x : x # NoOutcome /\ ReadOf(id, x)' => ReadOf(id, x)
         /\ \A s \in Resumers \ {r} : resume'[s] = resume[s]
         /\ resume'[r].id \in {resume[r].id, Never}
<1> USE DEF TypeInv, TypeOK
<1>1. resume'[r].snapshot = AbsentRecord
  <2>1. CASE Return(r)
    BY <2>1 DEF Return, IdleResume
  <2>2. ASSUME NEW pc, Go(r, pc)
        PROVE  resume'[r].snapshot = AbsentRecord
    <3>1. resume'[r] = [resume[r] EXCEPT !.pc = pc, !.snapshot = AbsentRecord]
      BY <2>2 DEF Go
    <3>2. resume[r] \in ResumeState
      OBVIOUS
    <3> QED
      BY <3>1, <3>2 DEF ResumeState
  <2> QED
    BY <2>1, <2>2
<1>2. \A s \in Resumers \ {r} : resume'[s] = resume[s]
  BY GoMoves
<1>3. resume'[r].id \in {resume[r].id, Never}
  BY GoMoves
<1>4. AbsentRecord.terminal = NoOutcome
  BY DEF AbsentRecord
<1> QED
  BY <1>1, <1>2, <1>3, <1>4 DEF ReadOf

(***************************************************************************)
(* A step of a call that finds no verdict: it says only what was known,    *)
(* and comes to work only on an id that waits.                             *)
(***************************************************************************)
LEMMA CallKeepsVerdicts ==
  ASSUME TypeInv, VerdictInv, NEW r \in Resumers,
         Return(r) \/ \E pc : Go(r, pc),
         UNCHANGED <<park, runs>>,
         resume'[r].pc # "running",
         \A id \in Ids :
           /\ records'[id].terminal = records[id].terminal
           /\ \A x : x # NoOutcome /\ SaidOf(id, x)' => VerdictOn(id, x)
           /\ StatusOf(id)' \notin {"resumed", "absent"} => StatusOf(id) \notin {"resumed", "absent"}
           /\ resume'[r].pc = "won" /\ id = resume[r].id => StatusOf(id) = "suspended"
  PROVE  VerdictInv'
<1> SUFFICES ASSUME NEW id \in Ids
    PROVE  KeepsVerdict(id) /\ RunnersHaveRun(id)'
  BY VerdictFrame DEF VerdictInv, RunnersHaveRun
<1>1. \A x : VerdictOn(id, x)' => VerdictOn(id, x)
  <2> SUFFICES ASSUME NEW x, VerdictOn(id, x)'
      PROVE  VerdictOn(id, x)
    OBVIOUS
  <2>1. x # NoOutcome
    BY DEF VerdictOn
  <2>2. CASE SaidOf(id, x)'
    BY <2>1, <2>2
  <2>3. CASE records'[id].terminal = x
    BY <2>1, <2>3 DEF VerdictOn
  <2>4. CASE ReadOf(id, x)'
    BY <2>1, <2>4, CallForgets DEF VerdictOn
  <2> QED
    BY <2>2, <2>3, <2>4 DEF VerdictOn
<1>2. AtWork(id)' => Undecided(id)
  BY CallForgets DEF AtWork, Undecided
<1>3. Undecided(id)' => Undecided(id)
  BY <1>2 DEF Undecided
<1>4. RunnersHaveRun(id)'
  BY CallForgets DEF RunnersHaveRun, VerdictInv
<1> QED
  BY <1>1, <1>3, <1>4 DEF KeepsVerdict

(***************************************************************************)
(* The winner of markResumed finds the verdict, alone: nobody knew one,    *)
(* and it ends its work.                                                   *)
(***************************************************************************)
LEMMA WinnerDecides ==
  ASSUME TypeInv, OneFateInv, VerdictInv, NEW r \in Resumers, NEW outcome,
         resume[r].pc \in {"won", "running"},
         Return(r) \/ Go(r, "telling"),
         UNCHANGED <<park, runs>>,
         outcome = "completed" => resume[r].pc = "running",
         outcome = "overdue" => resume[r].pc = "won",
         \A id \in Ids :
           /\ StatusOf(id)' = StatusOf(id)
           /\ \/ records'[id].terminal = records[id].terminal
              \/ id = resume[r].id /\ records'[id].terminal = outcome
           /\ \A x : SaidOf(id, x)' => SaidOf(id, x) \/ (id = resume[r].id /\ x = outcome)
  PROVE  VerdictInv'
<1> SUFFICES ASSUME NEW id \in Ids
    PROVE  (KeepsVerdict(id) \/ Decides(id, outcome)) /\ RunnersHaveRun(id)'
  BY VerdictFrame DEF VerdictInv, RunnersHaveRun
<1>1. /\ \A s \in Resumers \ {r} : resume'[s] = resume[s]
      /\ resume'[r].pc \notin {"won", "running"}
      /\ \A x : x # NoOutcome /\ ReadOf(id, x)' => ReadOf(id, x)
  BY GoMoves, CallForgets
<1>2. \A x : VerdictOn(id, x)' => VerdictOn(id, x) \/ (id = resume[r].id /\ x = outcome)
  BY <1>1 DEF VerdictOn
<1>3. AtWork(id)' => AtWork(id)
  BY <1>1 DEF AtWork
<1>4. RunnersHaveRun(id)'
  BY <1>1 DEF RunnersHaveRun, VerdictInv
<1>5. CASE id # resume[r].id
  BY <1>2, <1>3, <1>4, <1>5 DEF KeepsVerdict, Undecided
<1>6. CASE id = resume[r].id
  <2>1. Undecided(id)
    BY <1>6 DEF Undecided, AtWork
  <2>2. \A x : ~VerdictOn(id, x)
    BY <2>1, VerdictMeaning DEF VerdictInv
  <2>3. ~AtWork(id)'
    BY <1>1, <1>6 DEF AtWork, OneFateInv, WinnerIsAlone, WinnerPcs
  <2>4. StatusOf(id) \in {"resumed", "absent"}
    BY <1>6 DEF OneFateInv, WinnerIsAlone, WinnerPcs
  <2>5. park[id] # "none"
    BY <1>6, KnownIsParked
  <2>6. ~Undecided(id)'
    BY <2>3, <2>4, <2>5 DEF Undecided
  <2>7. resume[r].pc = "running" => runs[id] > 0
    BY <1>6 DEF VerdictInv
  <2>8. resume[r].pc = "won" => runs[id] = 0
    BY <1>6 DEF OneFateInv, WinnerIsAlone, WinnerPcs
  <2> QED
    BY <1>2, <1>4, <2>2, <2>6, <2>7, <2>8 DEF Decides
<1> QED
  BY <1>5, <1>6

(***************************************************************************)
(* What a reply adds to what was said.                                     *)
(***************************************************************************)
LEMMA ReplySays ==
  ASSUME NEW id \in Ids, NEW x
  PROVE  /\ replies' = replies => (SaidOf(id, x)' => SaidOf(id, x))
         /\ \A j, status, outcome : Acknowledge(j, status, outcome) =>
              (SaidOf(id, x)' => SaidOf(id, x) \/ (id = j /\ x = outcome /\ x # NotRecorded))
         /\ \A r \in Resumers : \A record : ReplySettled(r, record) =>
              (SaidOf(id, x)' => SaidOf(id, x) \/ (id = resume[r].id /\ x = record.terminal))
<1>1. ASSUME NEW j, NEW status, NEW outcome, Acknowledge(j, status, outcome), SaidOf(id, x)'
      PROVE  SaidOf(id, x) \/ (id = j /\ x = outcome /\ x # NotRecorded)
  BY <1>1 DEF Acknowledge, SaidOf
<1>2. ASSUME NEW r \in Resumers, NEW record, ReplySettled(r, record), SaidOf(id, x)'
      PROVE  SaidOf(id, x) \/ (id = resume[r].id /\ x = record.terminal)
  BY <1>2 DEF ReplySettled, Acknowledge, SaidOf
<1> QED
  BY <1>1, <1>2 DEF SaidOf

(***************************************************************************)
(* Every step of a resume call keeps the verdicts or finds one.            *)
(***************************************************************************)
LEMMA ResumeKeepsVerdicts ==
  ASSUME TypeInv, OneFateInv, VerdictInv, NEW r \in Resumers, ResumeStep(r) \/ ResumeFault(r)
  PROVE  VerdictInv'
<1> USE DEF storeVars, world, host
<1>0. resume[r].pc # "idle" => resume[r].id \in Ids
  BY DEF TypeInv, ActorsKnowTheirId
<1>1. CASE \E id \in Ids : ResumeRead(r, id)
  <2>1. PICK known \in Ids : ResumeRead(r, known)
    BY <1>1
  <2>2. /\ resume'[r] = [pc |-> "authorizing", id |-> known, snapshot |-> records[known]]
        /\ \A s \in Resumers \ {r} : resume'[s] = resume[s]
        /\ UNCHANGED <<records, park, runs, replies>>
    BY <2>1 DEF ResumeRead, TypeInv, TypeOK
  <2>3. \A id \in Ids : KeepsVerdict(id) /\ RunnersHaveRun(id)'
    BY <2>2 DEF KeepsVerdict, VerdictOn, SaidOf, ReadOf, Undecided, AtWork, StatusOf,
                RunnersHaveRun, VerdictInv
  <2> QED
    BY <2>3, VerdictFrame DEF VerdictInv, RunnersHaveRun
<1>2. CASE \/ ResumeRefused(r) \/ ResumeIntact(r) \/ ResumeInvalid(r)
           \/ ResumeTell(r) \/ ResumeNotify(r)
           \/ ResumeFault(r) /\ replies' = replies
  <2>1. /\ Return(r) \/ \E pc \in {"validating", "expired", "refused"} : Go(r, pc)
        /\ UNCHANGED <<park, runs, records, replies>>
    BY <1>2 DEF ResumeRefused, ResumeIntact, ResumeInvalid, ResumeTell, ResumeNotify, ResumeFault,
                Fault
  <2>2. resume'[r].pc \notin {"won", "running"}
    BY <2>1, GoMoves
  <2>3. \A id \in Ids : \A x : SaidOf(id, x)' => SaidOf(id, x)
    BY <2>1, ReplySays
  <2> QED
    BY <2>1, <2>2, <2>3, CallKeepsVerdicts DEF VerdictOn, StatusOf
<1>3. CASE ResumeSettled(r)
  <2>1. /\ ReplySettled(r, resume[r].snapshot) /\ Return(r)
        /\ UNCHANGED <<park, runs, records>>
    BY <1>3 DEF ResumeSettled, ReplySettled
  <2>2. resume'[r].pc = "idle"
    BY <2>1, GoMoves
  <2>3. \A id \in Ids : \A x : x # NoOutcome /\ SaidOf(id, x)' => VerdictOn(id, x)
    BY <2>1, ReplySays DEF VerdictOn, ReadOf
  <2> QED
    BY <2>1, <2>2, <2>3, CallKeepsVerdicts DEF StatusOf
<1>4. ASSUME NEW pc \in {"expiring", "refusing"}, ClaimOrReply(r, pc), resume[r].id \in Ids
      PROVE  VerdictInv'
  <2>1. /\ ClaimExpiry(resume[r].id) /\ UNCHANGED <<park, runs>>
        /\ \/ Go(r, pc) /\ replies' = replies
           \/ Return(r) /\ ReplySettled(r, records[resume[r].id])
    BY <1>4 DEF ClaimOrReply, ReplySettled
  <2>2. resume'[r].pc \notin {"won", "running"}
    BY <2>1, GoMoves
  <2>3. Swapped(resume[r].id, "suspended", "expiring")
    BY <1>4, <2>1, CasEffect
  <2>4. \A id \in Ids : \A x : x # NoOutcome /\ SaidOf(id, x)' => VerdictOn(id, x)
    BY <2>1, ReplySays DEF VerdictOn
  <2> QED
    BY <2>1, <2>2, <2>3, <2>4, CallKeepsVerdicts DEF Swapped
<1>5. CASE ResumeOverdue(r) \/ ResumeChanged(r)
  BY <1>0, <1>4, <1>5 DEF ResumeOverdue, ResumeChanged, Accepted
<1>6. CASE ResumeClaim(r)
  <2>1. /\ resume[r].pc = "validating" /\ MarkResumed(resume[r].id) /\ UNCHANGED <<park, runs>>
        /\ \/ Go(r, "won") /\ replies' = replies /\ StatusOf(resume[r].id) = "suspended"
           \/ Return(r) /\ ReplySettled(r, records[resume[r].id])
    BY <1>6 DEF ResumeClaim, ReplySettled, Wins
  <2>2. /\ resume'[r].pc # "running"
        /\ resume'[r].pc = "won" => StatusOf(resume[r].id) = "suspended"
    BY <2>1, GoMoves
  <2>3. Swapped(resume[r].id, "suspended", "resumed")
    BY <1>0, <2>1, CasEffect
  <2>4. \A id \in Ids : \A x : x # NoOutcome /\ SaidOf(id, x)' => VerdictOn(id, x)
    BY <2>1, ReplySays DEF VerdictOn
  <2> QED
    BY <2>1, <2>2, <2>3, <2>4, CallKeepsVerdicts DEF Swapped
<1>7. CASE ResumeRun(r)
  <2>1. /\ resume[r].pc = "won" /\ Go(r, "running") /\ UNCHANGED <<park, records, replies>>
        /\ runs' = [runs EXCEPT ![resume[r].id] = @ + 1]
    BY <1>7 DEF ResumeRun
  <2>2. /\ resume'[r].pc = "running" /\ resume'[r].id = resume[r].id
        /\ \A s \in Resumers \ {r} : resume'[s] = resume[s]
        /\ \A id \in Ids : \A x : x # NoOutcome /\ ReadOf(id, x)' => ReadOf(id, x)
    BY <2>1, GoMoves, CallForgets
  <2>3. /\ runs'[resume[r].id] > 0
        /\ \A id \in Ids : id # resume[r].id => runs'[id] = runs[id]
    <3>1. resume[r].id \in Ids /\ runs \in [Ids -> Nat]
      BY <1>0, <2>1 DEF TypeInv, TypeOK
    <3>2. runs[resume[r].id] \in Nat
      BY <3>1
    <3>3. runs'[resume[r].id] = runs[resume[r].id] + 1
      BY <2>1, <3>1
    <3> QED
      BY <2>1, <3>1, <3>2, <3>3
  <2>4. \A id \in Ids : /\ AtWork(id)' => AtWork(id)
                        /\ id = resume[r].id => AtWork(id)
    BY <2>1, <2>2 DEF AtWork
  <2>5. \A id \in Ids : KeepsVerdict(id)
    BY <2>1, <2>2, <2>3, <2>4 DEF KeepsVerdict, VerdictOn, SaidOf, Undecided, StatusOf
  <2>6. \A id \in Ids : RunnersHaveRun(id)'
    BY <2>1, <2>2, <2>3 DEF RunnersHaveRun, VerdictInv
  <2> QED
    BY <2>5, <2>6, VerdictFrame DEF VerdictInv, RunnersHaveRun
<1>8. CASE ResumeLate(r) \/ ResumeBroken(r) \/ ResumeEnd(r)
  <2>1. PICK outcome \in Outcomes :
          /\ RecordTerminal(resume[r].id, outcome)
          /\ replies' = replies \/ \E status : Acknowledge(resume[r].id, status, outcome)
          /\ resume[r].pc \in {"won", "running"}
          /\ outcome = "completed" => resume[r].pc = "running"
          /\ outcome = "overdue" => resume[r].pc = "won"
    BY <1>8 DEF ResumeLate, ResumeBroken, ResumeEnd, Outcomes
  <2>2. /\ Return(r) \/ Go(r, "telling")
        /\ UNCHANGED <<park, runs>>
    BY <1>8 DEF ResumeLate, ResumeBroken, ResumeEnd
  <2>3. \A id \in Ids :
          /\ StatusOf(id)' = StatusOf(id)
          /\ \/ records'[id].terminal = records[id].terminal
             \/ id = resume[r].id /\ records'[id].terminal = outcome
    <3>1. resume[r].id \in Ids
      BY <1>0, <2>1
    <3>2. \A id \in Ids :
            /\ StatusOf(id)' = StatusOf(id)
            /\ records'[id].terminal = IF id = resume[r].id /\ StatusOf(resume[r].id) # "absent"
                                       THEN outcome ELSE records[id].terminal
      <4> DEFINE Id == resume[r].id
      <4>1. Id \in Ids /\ RecordTerminal(Id, outcome)
        BY <2>1, <3>1
      <4> HIDE DEF Id
      <4>2. \A id \in Ids :
              /\ StatusOf(id)' = StatusOf(id)
              /\ records'[id].terminal = IF id = Id /\ StatusOf(Id) # "absent" THEN outcome
                                         ELSE records[id].terminal
        BY <4>1, SweepOpsEffect
      <4> QED
        BY <4>2 DEF Id
    <3> QED
      BY <3>2
  <2>4. \A id \in Ids : \A x : SaidOf(id, x)' => SaidOf(id, x) \/ (id = resume[r].id /\ x = outcome)
    BY <2>1, ReplySays
  <2> QED
    BY <2>1, <2>2, <2>3, <2>4, WinnerDecides
<1>9. CASE ResumeFinalize(r)
  <2>1. /\ Return(r) /\ UNCHANGED <<park, runs, replies>>
        /\ resume[r].id \in Ids
        /\ MarkExpired(resume[r].id) \/ MarkDenied(resume[r].id)
    BY <1>0, <1>9 DEF ResumeFinalize
  <2>2. resume'[r].pc = "idle"
    BY <2>1, GoMoves
  <2>3. \/ Swapped(resume[r].id, "expiring", "expired")
        \/ Swapped(resume[r].id, "expiring", "denied")
    BY <2>1, CasEffect
  <2>4. \A id \in Ids : \A x : SaidOf(id, x)' => SaidOf(id, x)
    BY <2>1, ReplySays
  <2> QED
    BY <2>1, <2>2, <2>3, <2>4, CallKeepsVerdicts DEF VerdictOn, Swapped
<1>10. CASE ResumeFault(r) /\ replies' # replies
  <2>1. PICK outcome \in {"completed", "failed"} : Acknowledge(resume[r].id, "resumed", outcome)
    BY <1>10 DEF ResumeFault
  <2>2. resume[r].pc = "running" /\ Return(r) /\ UNCHANGED <<park, runs, records>>
    BY <1>10 DEF ResumeFault, Fault
  <2>3. \A id \in Ids : \A x : SaidOf(id, x)' => SaidOf(id, x) \/ (id = resume[r].id /\ x = outcome)
    BY <2>1, ReplySays
  <2> QED
    BY <2>1, <2>2, <2>3, WinnerDecides DEF StatusOf
<1> QED
  BY <1>1, <1>2, <1>3, <1>5, <1>6, <1>7, <1>8, <1>9, <1>10 DEF ResumeStep

(***************************************************************************)
(* There is one verdict on an id in every reachable state.                 *)
(***************************************************************************)
LEMMA VerdictInvariant == Spec => []VerdictInv
<1>1. Init => VerdictInv
  <2> SUFFICES ASSUME Init, NEW id \in Ids
      PROVE  /\ \A x : ~VerdictOn(id, x)
             /\ RunnersHaveRun(id)
    BY VerdictMeaning DEF VerdictInv, RunnersHaveRun
  <2> QED
    BY DEF Init, StoreInit, VerdictOn, SaidOf, ReadOf, RunnersHaveRun, AbsentRecord, IdleResume
<1>2. TypeInv /\ OneFateInv /\ VerdictInv /\ [Next]_vars => VerdictInv'
  BY OthersKeepVerdicts, ResumeKeepsVerdicts DEF Next
<1> QED
  BY <1>1, <1>2, TypeInvariant, OneFateInvariant, PTL DEF Spec

(***************************************************************************)
(* What resume calls were told of an id is its verdict; stated of the next *)
(* state, in which a reply is judged.                                      *)
(***************************************************************************)
LEMMA RepliesAgree ==
  ASSUME TypeInv', VerdictInv', NEW id \in Ids
  PROVE  /\ \A a, b \in Told(id)' : a = b
         /\ "completed" \in Told(id)' => runs'[id] > 0
         /\ "overdue" \in Told(id)' => runs'[id] = 0
<1>1. NoOutcome \notin Told(id)'
  BY NoOutcomeAssumption DEF Told, TypeInv, TypeOK, Reply
<1>2. Told(id)' \subseteq Verdicts(id)'
  BY <1>1 DEF Verdicts
<1> QED
  BY <1>2 DEF VerdictInv

-----------------------------------------------------------------------------
(* The refinement. *)

(***************************************************************************)
(* How a step looks from outside: it takes one id on its way, or answers a *)
(* call about one, and nothing else can be seen of it.                     *)
(***************************************************************************)
FatesAre == [id \in Ids |-> FateOf(id)]
TellsAre == [id \in Ids |-> Told(id)]

(***************************************************************************)
(* Which step of the abstract specification a change of one fate is.       *)
(***************************************************************************)
LEMMA FateMoves ==
  ASSUME NEW id \in Ids,
         \A j \in Ids : j # id => FateOf(j)' = FateOf(j),
         \A j \in Ids : Told(j)' = Told(j),
         \/ FateOf(id)' = FateOf(id)
         \/ FateOf(id) = "unasked" /\ FateOf(id)' = "asked"
         \/ FateOf(id) = "asked" /\ FateOf(id)' \in {"ran", "lapsed"}
  PROVE  [Fate!FateNext]_Fate!fateVars
<1>1. TellsAre' = TellsAre
  BY DEF TellsAre
<1>2. FatesAre' = [FatesAre EXCEPT ![id] = FateOf(id)']
  BY DEF FatesAre
<1>3. FatesAre[id] = FateOf(id)
  BY DEF FatesAre
<1>4. CASE FateOf(id)' = FateOf(id)
  <2>1. FatesAre' = FatesAre
    BY <1>4 DEF FatesAre
  <2> QED
    BY <1>1, <2>1 DEF Fate!fateVars, FatesAre, TellsAre
<1>5. CASE FateOf(id) = "unasked" /\ FateOf(id)' = "asked"
  BY <1>1, <1>2, <1>3, <1>5 DEF Fate!FateNext, Fate!Ask, Fate!Becomes, FatesAre, TellsAre
<1>6. CASE FateOf(id) = "asked" /\ FateOf(id)' \in {"ran", "lapsed"}
  BY <1>1, <1>2, <1>3, <1>6
  DEF Fate!FateNext, Fate!Run, Fate!Lapse, Fate!Becomes, FatesAre, TellsAre
<1> QED
  BY <1>4, <1>5, <1>6

(***************************************************************************)
(* A reply that repeats the verdict on its id is an answer of the abstract *)
(* specification.                                                          *)
(***************************************************************************)
LEMMA AnswersAgree ==
  ASSUME NEW id \in Ids, NEW outcome \in Outcomes,
         \A j \in Ids : j # id => Told(j)' = Told(j),
         \A j \in Ids : FateOf(j)' = FateOf(j),
         Told(id)' = {outcome}, Told(id) \subseteq {outcome},
         outcome = "completed" => FateOf(id) = "ran",
         outcome = "overdue" => FateOf(id) # "ran"
  PROVE  [Fate!FateNext]_Fate!fateVars
<1>1. FatesAre' = FatesAre
  BY DEF FatesAre
<1>2. TellsAre' = [TellsAre EXCEPT ![id] = {outcome}]
  BY DEF TellsAre
<1>3. FatesAre[id] = FateOf(id) /\ TellsAre[id] \subseteq {outcome}
  BY DEF FatesAre, TellsAre
<1>4. Fate!Answer(id)
  BY <1>1, <1>2, <1>3 DEF Fate!Answer, FatesAre, TellsAre
<1> QED
  BY <1>4 DEF Fate!FateNext

(***************************************************************************)
(* The steps nobody outside sees.                                          *)
(***************************************************************************)
LEMMA UnseenSteps ==
  ASSUME UNCHANGED <<runs, notices, replies>>,
         \A id \in Ids : park'[id] = "none" <=> park[id] = "none"
  PROVE  [Fate!FateNext]_Fate!fateVars
<1>1. \A id \in Ids : FateOf(id)' = FateOf(id) /\ Told(id)' = Told(id)
  BY DEF FateOf, Told
<1> QED
  BY <1>1 DEF Fate!fateVars

(***************************************************************************)
(* A reply is an answer: with an outcome it repeats the earlier ones,      *)
(* without one it says nothing.                                            *)
(***************************************************************************)
LEMMA RepliesAreAnswers ==
  ASSUME TypeInv, TypeInv', VerdictInv', NEW id \in Ids, NEW status, NEW outcome,
         Acknowledge(id, status, outcome), UNCHANGED <<runs, notices, park>>
  PROVE  [Fate!FateNext]_Fate!fateVars
<1>1. \A j \in Ids : FateOf(j)' = FateOf(j)
  BY DEF FateOf
<1>2. \A j \in Ids : Told(j)' = IF j = id /\ outcome # NotRecorded
                                THEN Told(j) \union {outcome} ELSE Told(j)
  <2> SUFFICES ASSUME NEW j \in Ids, NEW x
      PROVE  x \in Told(j)' <=> x \in Told(j) \/ (j = id /\ outcome # NotRecorded /\ x = outcome)
    OBVIOUS
  <2>1. SaidOf(j, x)' <=> SaidOf(j, x) \/ (j = id /\ outcome # NotRecorded /\ x = outcome)
    <3> DEFINE answer == [id |-> id, status |-> status, outcome |-> outcome]
    <3>1. answer.id = id /\ answer.outcome = outcome
      OBVIOUS
    <3>2. \A a : a \in replies' <=> a \in replies \/ a = answer
      BY DEF Acknowledge
    <3> HIDE DEF answer
    <3> QED
      BY <3>1, <3>2 DEF SaidOf
  <2> QED
    BY <2>1, VerdictMeaning
<1>3. CASE outcome = NotRecorded
  BY <1>1, <1>2, <1>3 DEF Fate!fateVars
<1>4. CASE outcome # NotRecorded
  <2>1. [id |-> id, status |-> status, outcome |-> outcome] \in Reply
    BY DEF Acknowledge, TypeInv, TypeOK
  <2>2. outcome \in Outcomes
    BY <1>4, <2>1 DEF Reply
  <2>3. /\ \A a, b \in Told(id)' : a = b
        /\ "completed" \in Told(id)' => runs'[id] > 0
        /\ "overdue" \in Told(id)' => runs'[id] = 0
    BY <2>2, RepliesAgree
  <2>4. Told(id)' = {outcome} /\ Told(id) \subseteq {outcome}
    BY <1>2, <1>4, <2>3
  <2>5. /\ outcome = "completed" => FateOf(id) = "ran"
        /\ outcome = "overdue" => FateOf(id) # "ran"
    BY <2>3, <2>4 DEF FateOf
  <2> QED
    BY <1>1, <1>2, <2>2, <2>4, <2>5, AnswersAgree
<1> QED
  BY <1>3, <1>4

(***************************************************************************)
(* To tell an expiry is to lapse, the first time.                          *)
(***************************************************************************)
LEMMA NoticesAreLapses ==
  ASSUME TypeInv, OneFateInv, NEW id \in Ids, notices' = [notices EXCEPT ![id] = @ + 1],
         runs[id] = 0, park[id] # "none", UNCHANGED <<runs, park, replies>>
  PROVE  [Fate!FateNext]_Fate!fateVars
<1>1. \A j \in Ids : Told(j)' = Told(j)
  BY DEF Told
<1>2. notices'[id] = notices[id] + 1 /\ notices[id] \in Nat
  BY DEF TypeInv, TypeOK
<1>3. \A j \in Ids : j # id => FateOf(j)' = FateOf(j)
  BY DEF FateOf, TypeInv, TypeOK
<1>4. FateOf(id)' = "lapsed" /\ FateOf(id) \in {"asked", "lapsed"}
  <2>1. notices'[id] > 0
    BY <1>2
  <2> QED
    BY <2>1 DEF FateOf
<1> QED
  BY <1>1, <1>3, <1>4, FateMoves

(***************************************************************************)
(* A call that settles without running: an answer, or nothing to be seen.  *)
(***************************************************************************)
LEMMA SettledRepliesRefine ==
  ASSUME TypeInv, TypeInv', VerdictInv', NEW r \in Resumers, NEW record,
         resume[r].id \in Ids, ReplySettled(r, record), UNCHANGED <<runs, notices, park>>
  PROVE  [Fate!FateNext]_Fate!fateVars
BY RepliesAreAnswers, UnseenSteps DEF ReplySettled

(***************************************************************************)
(* Every step of a resume call is one the promise allows.                  *)
(***************************************************************************)
LEMMA ResumeRefines ==
  ASSUME TypeInv, TypeInv', OneFateInv, OneFateInv', VerdictInv', NEW r \in Resumers,
         ResumeStep(r) \/ ResumeFault(r)
  PROVE  [Fate!FateNext]_Fate!fateVars
<1> USE DEF storeVars, world, host
<1>0. /\ park' = park
      /\ resume[r].pc # "idle" => resume[r].id \in Ids /\ park[resume[r].id] # "none"
  BY KnownIsParked
  DEF ResumeStep, ResumeRead, ResumeRefused, ResumeSettled, ResumeOverdue, ResumeChanged,
      ClaimOrReply, ResumeIntact, ResumeInvalid, ResumeClaim, ResumeLate, ResumeTell,
      ResumeRun, ResumeBroken, ResumeEnd, ResumeNotify, ResumeFinalize, ResumeFault, Fault
<1>1. CASE UNCHANGED <<runs, notices, replies>>
  BY <1>0, <1>1, UnseenSteps
<1>2. CASE ResumeSettled(r) \/ ResumeOverdue(r) \/ ResumeChanged(r) \/ ResumeClaim(r)
  <2>1. /\ UNCHANGED <<runs, notices>> /\ resume[r].id \in Ids
        /\ replies' = replies \/ \E record : ReplySettled(r, record)
    BY <1>0, <1>2
    DEF ResumeSettled, ResumeOverdue, ResumeChanged, Accepted, ClaimOrReply, ResumeClaim
  <2> QED
    BY <1>0, <1>1, <2>1, SettledRepliesRefine
<1>3. CASE ResumeEnd(r) \/ ResumeFault(r)
  <2>1. /\ UNCHANGED <<runs, notices>>
        /\ \/ replies' = replies
           \/ resume[r].id \in Ids /\ \E outcome : Acknowledge(resume[r].id, "resumed", outcome)
    BY <1>0, <1>3 DEF ResumeEnd, ResumeFault, Fault
  <2> QED
    BY <1>0, <1>1, <2>1, RepliesAreAnswers
<1>4. CASE ResumeTell(r) \/ ResumeNotify(r)
  <2>1. /\ \/ notices' = notices
           \/ /\ notices' = [notices EXCEPT ![resume[r].id] = @ + 1]
              /\ resume[r].pc \in {"expiring", "telling"}
        /\ UNCHANGED <<runs, replies>> /\ resume[r].id \in Ids
        /\ park[resume[r].id] # "none"
    BY <1>0, <1>4 DEF ResumeTell, ResumeNotify
  <2>2. resume[r].pc \in {"expiring", "telling"} => runs[resume[r].id] = 0
    BY DEF OneFateInv, ExpiriesAreOverdue
  <2> QED
    BY <1>0, <1>1, <2>1, <2>2, NoticesAreLapses
<1>5. CASE ResumeRun(r)
  <2>1. PICK id \in Ids : id = resume[r].id
    BY <1>0, <1>5 DEF ResumeRun
  <2>2. /\ runs' = [runs EXCEPT ![id] = @ + 1] /\ resume[r].pc = "won"
        /\ UNCHANGED <<notices, replies>> /\ park[id] # "none"
    BY <1>0, <1>5, <2>1 DEF ResumeRun
  <2>3. runs[id] = 0 /\ runs'[id] = 1
    BY <2>1, <2>2 DEF OneFateInv, WinnerIsAlone, WinnerPcs, TypeInv, TypeOK
  <2>4. notices[id] = 0
    BY <2>2, <2>3 DEF OneFateInv, RunOrLapse
  <2>5. /\ FateOf(id) = "asked" /\ FateOf(id)' = "ran"
        /\ \A j \in Ids : j # id => FateOf(j)' = FateOf(j)
        /\ \A j \in Ids : Told(j)' = Told(j)
    BY <1>0, <2>2, <2>3, <2>4 DEF FateOf, Told, TypeInv, TypeOK
  <2> QED
    BY <2>5, FateMoves
<1>6. CASE \/ (\E id \in Ids : ResumeRead(r, id))
           \/ ResumeRefused(r) \/ ResumeIntact(r) \/ ResumeInvalid(r)
           \/ ResumeLate(r) \/ ResumeBroken(r) \/ ResumeFinalize(r)
  <2>1. UNCHANGED <<runs, notices, replies>>
    BY <1>6 DEF ResumeRead, ResumeRefused, ResumeIntact, ResumeInvalid, ResumeLate, ResumeBroken,
                ResumeFinalize
  <2> QED
    BY <1>1, <2>1
<1> QED
  BY <1>2, <1>3, <1>4, <1>5, <1>6 DEF ResumeStep

(***************************************************************************)
(* A park is asked for, or fails before it can be answered; the sweeper    *)
(* makes suspensions lapse; and no crash, stop or restart is to be seen.   *)
(***************************************************************************)
LEMMA OthersRefine ==
  ASSUME TypeInv, OneFateInv,
         \/ \E id \in Ids : ParkStep(id) \/ ParkFault(id)
         \/ SweepStep \/ SweepFault \/ SweepPurgeFault \/ SweepAbort
         \/ TimePasses \/ Start \/ Crash \/ Stop \/ Exit \/ UNCHANGED vars
  PROVE  [Fate!FateNext]_Fate!fateVars
<1> USE DEF storeVars, world, host, actorVars
<1>1. ASSUME NEW id \in Ids, ParkStep(id) \/ ParkFault(id)
      PROVE  [Fate!FateNext]_Fate!fateVars
  <2>1. /\ UNCHANGED <<runs, notices, replies>>
        /\ park'[id] # "none"
        /\ \A j \in Ids \ {id} : park'[j] = park[j]
    BY <1>1 DEF ParkStep, ParkCreate, ParkAnnounce, ParkCancelled, ParkDeny, ParkFault, Fault, GoPark,
                TypeInv, TypeOK
  <2>2. \A j \in Ids : Told(j)' = Told(j)
    BY <2>1 DEF Told
  <2>3. \A j \in Ids : j # id => FateOf(j)' = FateOf(j)
    BY <2>1 DEF FateOf
  <2>4. CASE park[id] # "none"
    BY <2>1, <2>4, UnseenSteps
  <2>5. CASE park[id] = "none"
    <3>1. runs[id] = 0 /\ notices[id] = 0
      BY <2>5 DEF OneFateInv, UnparkedIsUnknown
    <3>2. FateOf(id) = "unasked" /\ FateOf(id)' = "asked"
      BY <2>1, <2>5, <3>1 DEF FateOf
    <3> QED
      BY <2>2, <2>3, <3>2, FateMoves
  <2> QED
    BY <2>4, <2>5
<1>2. CASE SweepNotify
  <2>1. /\ notices' = [notices EXCEPT ![sweep.item] = @ + 1]
        /\ UNCHANGED <<runs, park, replies>> /\ sweep.pc = "expiring"
    BY <1>2 DEF SweepNotify
  <2>2. PICK id \in Ids : id = sweep.item
    BY <2>1 DEF TypeInv, ActorsKnowTheirId
  <2>3. runs[id] = 0 /\ park[id] # "none"
    BY <2>1, <2>2 DEF OneFateInv, ExpiriesAreOverdue, UnparkedIsUnknown
  <2> QED
    BY <2>1, <2>2, <2>3, NoticesAreLapses
<1>3. CASE SweepStep /\ ~SweepNotify
  <2>1. UNCHANGED <<runs, notices, replies, park>>
    BY <1>3 DEF SweepStep, SweepBegin, SweepPurge, SweepScan, SweepHalt, SweepSkip, SweepClaim,
         SweepFinalize, SweepReport
  <2> QED
    BY <2>1, UnseenSteps
<1>4. CASE \/ SweepFault \/ SweepPurgeFault \/ SweepAbort
           \/ TimePasses \/ Start \/ Crash \/ Stop \/ Exit \/ UNCHANGED vars
  <2>1. /\ UNCHANGED <<runs, notices, replies>>
        /\ \A id \in Ids : park'[id] = "none" <=> park[id] = "none"
    BY <1>4 DEF SweepFault, SweepPurgeFault, SweepAbort, Fault, TimePasses, Tick, Start, Crash,
         Stop, Exit, Forget, vars
  <2> QED
    BY <2>1, UnseenSteps
<1> QED
  BY <1>1, <1>2, <1>3, <1>4

(***************************************************************************)
(* The promise is kept: park.ts, revive.ts and sweeper.ts over one store,  *)
(* with their races, crashes and faults, implement SuspensionFate: each    *)
(* exchange that asked runs on once or lapses, and all who are told how it *)
(* ended are told the same.                                                *)
(***************************************************************************)
THEOREM PromiseKept == Spec => ImplementsFate
<1>1. Init => Fate!FateInit
  BY DEF Init, Fate!FateInit, FateOf, Told
<1>2. /\ TypeInv /\ TypeInv' /\ OneFateInv /\ OneFateInv' /\ VerdictInv'
      /\ [Next]_vars
      => [Fate!FateNext]_Fate!fateVars
  BY ResumeRefines, OthersRefine DEF Next
<1> QED
  BY <1>1, <1>2, TypeInvariant, OneFateInvariant, VerdictInvariant, PTL
  DEF Spec, ImplementsFate, Fate!FateSpec

-----------------------------------------------------------------------------
(* A route is told once. *)

(***************************************************************************)
(* The invariant of one id, in two parts: who has the claim, and what was  *)
(* told.                                                                   *)
(***************************************************************************)
Calm == restarts = 0 /\ faults = 0 /\ Prompt

Custody(id) ==
  /\ OwnerIsAlone(id)
  /\ ClaimIsYoung(id)
  /\ StatusOf(id) = "suspended" => \A r \in Resumers : ~Owns(r, id)

Counted(id) ==
  /\ UntoldYet(id) => notices[id] + refusals[id] = 0
  /\ notices[id] + refusals[id] <= 1

(***************************************************************************)
(* The invariant is its two parts for every id, in a state and after a     *)
(* step.                                                                   *)
(***************************************************************************)
LEMMA ToldOnceParts ==
  /\ ToldOnceInv <=> (Calm => \A id \in Ids : Custody(id) /\ Counted(id))
  /\ ToldOnceInv' <=> (Calm' => \A id \in Ids : Custody(id)' /\ Counted(id)')
BY DEF ToldOnceInv, Calm, Custody, Counted, StatusOf

(***************************************************************************)
(* A step in which nobody comes to own the id and its claim, if it is      *)
(* held, stays as it was taken.                                            *)
(***************************************************************************)
LEMMA CustodyFrame ==
  ASSUME NEW id \in Ids, Custody(id), clock' = clock,
         \A r \in Resumers : Owns(r, id)' => Owns(r, id),
         sweep'.item = id => sweep.item = id,
         park'[id] = "denying" => park[id] = "denying",
         Held(id)' => /\ Held(id) /\ StatusOf(id)' = StatusOf(id)
                      /\ records'[id].claimedAt = records[id].claimedAt,
         StatusOf(id)' = "suspended" => StatusOf(id) = "suspended"
  PROVE  Custody(id)'
<1>1. OwnerIsAlone(id)'
  BY DEF Custody, OwnerIsAlone
<1>2. ClaimIsYoung(id)'
  BY HeldMeaning DEF Custody, ClaimIsYoung
<1>3. StatusOf(id)' = "suspended" => \A r \in Resumers : ~Owns(r, id)'
  BY DEF Custody
<1> QED
  BY <1>1, <1>2, <1>3 DEF Custody

(***************************************************************************)
(* An id that waits is free: nobody owns it and nobody was told.           *)
(***************************************************************************)
Free(id) ==
  /\ \A r \in Resumers : ~Owns(r, id)
  /\ sweep.item # id /\ park[id] # "denying"
  /\ ~Held(id)

(***************************************************************************)
(* Nobody owns the claim on a record that is waiting.                      *)
(***************************************************************************)
LEMMA WaitingIsFree ==
  ASSUME NEW id \in Ids, Custody(id), StatusOf(id) = "suspended"
  PROVE  Free(id)
<1>1. ~Held(id)
  BY HeldMeaning DEF Custody, ClaimIsYoung
<1> QED
  BY <1>1 DEF Custody, Free, Held

(***************************************************************************)
(* The winner of a claim is its only owner, and its lease begins now.      *)
(***************************************************************************)
Claimant(id) ==
  \/ /\ \E r \in Resumers : /\ Owns(r, id)'
                            /\ \A s \in Resumers \ {r} : ~Owns(s, id)'
     /\ sweep'.item # id /\ park'[id] # "denying"
  \/ /\ \A r \in Resumers : ~Owns(r, id)'
     /\ ~(sweep'.item = id /\ park'[id] = "denying")

(***************************************************************************)
(* Who wins the claim on a waiting record owns it alone, and the claim is  *)
(* as young as can be.                                                     *)
(***************************************************************************)
LEMMA ClaimGivesCustody ==
  ASSUME TypeInv, NEW id \in Ids, clock' = clock, Claimant(id), StatusOf(id)' # "suspended",
         Held(id)' => StatusOf(id)' = "expiring" /\ records'[id].claimedAt = clock
  PROVE  Custody(id)'
<1>1. OwnerIsAlone(id)'
  BY DEF OwnerIsAlone, Claimant
<1>2. clock \in Nat /\ clock < clock + Lease
  BY DEF TypeInv, TypeOK, StoreTypeOK
<1>3. ClaimIsYoung(id)'
  BY <1>2, HeldMeaning DEF ClaimIsYoung
<1> QED
  BY <1>1, <1>3 DEF Custody

(***************************************************************************)
(* Telling, once: before it nobody was told, and after it nobody will be.  *)
(***************************************************************************)
LEMMA CountFrame ==
  ASSUME NEW id \in Ids, Counted(id),
         \/ /\ UntoldYet(id)' => UntoldYet(id)
            /\ notices'[id] = notices[id] /\ refusals'[id] = refusals[id]
         \/ /\ UntoldYet(id) /\ ~UntoldYet(id)'
            /\ notices'[id] + refusals'[id] = notices[id] + refusals[id] + 1
  PROVE  Counted(id)'
<1>1. CASE /\ UntoldYet(id)' => UntoldYet(id)
           /\ notices'[id] = notices[id] /\ refusals'[id] = refusals[id]
  BY <1>1 DEF Counted
<1>2. CASE /\ UntoldYet(id) /\ ~UntoldYet(id)'
           /\ notices'[id] + refusals'[id] = notices[id] + refusals[id] + 1
  BY <1>2 DEF Counted
<1> QED
  BY <1>1, <1>2

(***************************************************************************)
(* Whom a step passes by: its record, its park and its owners stay.        *)
(***************************************************************************)
LEMMA Bystander ==
  ASSUME NEW id \in Ids, Custody(id), Counted(id), clock' = clock,
         \A r \in Resumers : resume'[r].id = id /\ resume'[r].pc \in OwnerPcs =>
                               resume'[r] = resume[r],
         sweep'.item = id => sweep.item = id,
         sweep'.item = id /\ sweep'.pc = "expiring" => sweep.pc = "expiring",
         park'[id] = park[id], notices'[id] = notices[id], refusals'[id] = refusals[id],
         \/ /\ StatusOf(id)' = StatusOf(id)
            /\ records'[id].claimedAt = records[id].claimedAt
         \/ StatusOf(id)' = "absent" /\ ~Held(id)
  PROVE  Custody(id)' /\ Counted(id)'
<1> USE DEF OwnerPcs, TellerPcs, ClaimPcs
<1>1. \A r \in Resumers : Owns(r, id)' => Owns(r, id)
  BY DEF Owns
<1>2. Held(id)' => Held(id)
  BY DEF Held
<1>3. StatusOf(id)' = "suspended" => StatusOf(id) = "suspended"
  OBVIOUS
<1>4. Custody(id)'
  BY <1>1, <1>2, <1>3, CustodyFrame
<1>5. UntoldYet(id)' => UntoldYet(id)
  BY DEF UntoldYet
<1> QED
  BY <1>4, <1>5, CountFrame

(***************************************************************************)
(* Parks: the park that claims is told in its place, and denies at once.   *)
(***************************************************************************)
LEMMA ParkTellsOnce ==
  ASSUME TypeInv, OneFateInv, NEW id \in Ids, ParkStep(id),
         \A j \in Ids : Custody(j) /\ Counted(j)
  PROVE  \A j \in Ids : Custody(j)' /\ Counted(j)'
<1> USE DEF storeVars, host, world
<1>1. /\ UNCHANGED <<clock, resume, sweep, notices, refusals>>
      /\ \A j \in Ids \ {id} : park'[j] = park[j]
  BY DEF ParkStep, ParkCreate, ParkAnnounce, ParkCancelled, ParkDeny, GoPark, TypeInv, TypeOK
<1>2. \A r \in Resumers : Owns(r, id)' <=> Owns(r, id)
  BY <1>1 DEF Owns
<1>3. CASE ParkCreate(id)
  <2>1. PICK ttl \in Ttls : Create(id, ttl)
    BY <1>3 DEF ParkCreate
  <2>2. /\ StatusOf(id)' = "suspended" /\ park[id] = "none" /\ park'[id] = "created"
        /\ \A j \in Ids \ {id} : records'[j] = records[j]
    BY <1>3, <2>1
    DEF ParkCreate, GoPark, Create, StatusOf, AbsentRecord, TypeInv, TypeOK, StoreTypeOK
  <2>3. \A j \in Ids \ {id} : Custody(j)' /\ Counted(j)'
    BY <1>1, <2>2, Bystander DEF StatusOf
  <2>4. sweep.item # id /\ \A r \in Resumers : resume[r].id # id
    BY <2>2 DEF OneFateInv, UnparkedIsUnknown
  <2>5. Custody(id)'
    BY <1>1, <2>2, <2>4, HeldMeaning DEF Custody, OwnerIsAlone, ClaimIsYoung, Owns, Held
  <2>6. UntoldYet(id)
    BY <2>2 DEF UntoldYet
  <2>7. Counted(id)'
    BY <1>1, <2>6, CountFrame
  <2> QED
    BY <2>3, <2>5, <2>7
<1>4. CASE ParkAnnounce(id)
  <2>1. UNCHANGED records /\ park[id] = "created" /\ park'[id] = "announced"
    BY <1>4 DEF ParkAnnounce, GoPark, TypeInv, TypeOK
  <2>2. \A j \in Ids \ {id} : Custody(j)' /\ Counted(j)'
    BY <1>1, <2>1, Bystander DEF StatusOf
  <2>3. Custody(id)'
    BY <1>1, <1>2, <2>1, CustodyFrame DEF Held, StatusOf
  <2>4. UntoldYet(id)' => UntoldYet(id)
    BY <1>1, <2>1 DEF UntoldYet, StatusOf
  <2> QED
    BY <1>1, <2>2, <2>3, <2>4, CountFrame
<1>5. CASE ParkCancelled(id)
  <2>1. /\ Swapped(id, "suspended", "expiring")
        /\ StatusOf(id) = "suspended" => records'[id].claimedAt = clock
        /\ park[id] = "created"
        /\ park'[id] = IF StatusOf(id) = "suspended" THEN "denying" ELSE "cancelled"
    BY <1>5, CasEffect DEF ParkCancelled, GoPark, Wins, TypeInv, TypeOK
  <2>2. \A j \in Ids \ {id} : Custody(j)' /\ Counted(j)'
    BY <1>1, <2>1, Bystander DEF Swapped
  <2>3. CASE StatusOf(id) = "suspended"
    <3>1. Free(id)
      BY <2>3, WaitingIsFree
    <3>2. Claimant(id) /\ Custody(id)'
      BY <1>1, <1>2, <2>1, <2>3, <3>1, ClaimGivesCustody DEF Claimant, Free, Swapped
    <3>3. UntoldYet(id)
      BY <2>3 DEF UntoldYet
    <3> QED
      BY <1>1, <2>2, <3>2, <3>3, CountFrame
  <2>4. CASE StatusOf(id) # "suspended"
    <3>1. StatusOf(id)' = StatusOf(id) /\ records'[id].claimedAt = records[id].claimedAt
      BY <2>1, <2>4 DEF Swapped
    <3>2. Custody(id)'
      BY <1>1, <1>2, <2>1, <2>4, <3>1, CustodyFrame DEF Held
    <3>3. UntoldYet(id)' => UntoldYet(id)
      BY <1>1, <2>1, <2>4, <3>1 DEF UntoldYet
    <3> QED
      BY <1>1, <2>2, <3>2, <3>3, CountFrame
  <2> QED
    BY <2>3, <2>4
<1>6. CASE ParkDeny(id)
  <2>1. /\ Swapped(id, "expiring", "denied")
        /\ park[id] = "denying" /\ park'[id] = "cancelled"
    BY <1>6, CasEffect DEF ParkDeny, GoPark, TypeInv, TypeOK
  <2>2. \A j \in Ids \ {id} : Custody(j)' /\ Counted(j)'
    BY <1>1, <2>1, Bystander DEF Swapped
  <2>3. ~Held(id)' /\ StatusOf(id) # "suspended"
    <3>1. Held(id)
      BY <2>1 DEF Held
    <3>2. StatusOf(id) = "expiring"
      BY <3>1, HeldMeaning DEF Custody, ClaimIsYoung
    <3>3. sweep.item # id /\ \A r \in Resumers : ~Owns(r, id)
      BY <2>1 DEF Custody, OwnerIsAlone
    <3> QED
      BY <1>1, <2>1, <3>2, <3>3 DEF Held, Owns, OwnerPcs
  <2>4. Custody(id)'
    BY <1>1, <1>2, <2>1, <2>3, CustodyFrame DEF Swapped
  <2>5. UntoldYet(id)' => UntoldYet(id)
    BY <1>1, <2>1, <2>3 DEF UntoldYet, Swapped
  <2> QED
    BY <1>1, <2>2, <2>4, <2>5, CountFrame
<1> QED
  BY <1>3, <1>4, <1>5, <1>6 DEF ParkStep

(***************************************************************************)
(* A call that owns an id is its only teller.                              *)
(***************************************************************************)
LEMMA OwnerTells ==
  ASSUME TypeInv, OneFateInv, NEW r \in Resumers, NEW id \in Ids, Custody(id),
         Owns(r, id), \A s \in Resumers \ {r} : resume'[s] = resume[s],
         resume'[r].id = id => resume'[r].pc \notin TellerPcs,
         UNCHANGED <<park, sweep, records>>
  PROVE  ~UntoldYet(id)'
<1>1. StatusOf(id) # "suspended" /\ sweep.item # id
  BY DEF Custody, OwnerIsAlone
<1>2. park[id] # "none"
  BY KnownIsParked DEF Owns, OwnerPcs, ClaimPcs
<1>3. \A s \in Resumers \ {r} : ~Owns(s, id)
  BY DEF Custody, OwnerIsAlone
<1> QED
  BY <1>1, <1>2, <1>3 DEF UntoldYet, StatusOf, Owns, OwnerPcs, TellerPcs, ClaimPcs

(***************************************************************************)
(* Resume calls: a claim is told by its winner, who then only finalizes.   *)
(***************************************************************************)
LEMMA ResumeTellsOnce ==
  ASSUME TypeInv, OneFateInv, NEW r \in Resumers, ResumeStep(r),
         \A j \in Ids : Custody(j) /\ Counted(j)
  PROVE  \A j \in Ids : Custody(j)' /\ Counted(j)'
<1> USE DEF storeVars, host, world
<1>1. UNCHANGED <<clock, park, sweep>>
  BY DEF ResumeStep, ResumeRead, ResumeRefused, ResumeSettled, ResumeOverdue, ResumeChanged,
         ClaimOrReply, ResumeIntact, ResumeInvalid, ResumeClaim, ResumeLate, ResumeTell,
         ResumeRun, ResumeBroken, ResumeEnd, ResumeNotify, ResumeFinalize
<1>2. ASSUME Return(r) \/ \E pc : Go(r, pc), NEW j \in Ids, j # resume[r].id,
             StatusOf(j)' = StatusOf(j), records'[j].claimedAt = records[j].claimedAt,
             notices'[j] = notices[j], refusals'[j] = refusals[j]
      PROVE  Custody(j)' /\ Counted(j)'
  BY <1>1, <1>2, CallForgets, Bystander
<1>3. ASSUME Return(r) \/ \E pc : Go(r, pc),
             resume'[r].pc \in OwnerPcs => resume'[r].pc = "telling" /\ resume[r].pc = "won",
             UNCHANGED <<notices, refusals>>,
             \A j \in Ids : /\ StatusOf(j)' = StatusOf(j)
                            /\ records'[j].claimedAt = records[j].claimedAt
      PROVE  \A j \in Ids : Custody(j)' /\ Counted(j)'
  <2> SUFFICES ASSUME NEW j \in Ids, j = resume[r].id
      PROVE  Custody(j)' /\ Counted(j)'
    BY <1>2, <1>3
  <2>1. /\ \A s \in Resumers \ {r} : resume'[s] = resume[s]
        /\ resume'[r].id \in {resume[r].id, Never}
    BY <1>3, CallForgets
  <2>2. \A s \in Resumers : Owns(s, j)' => Owns(s, j)
    BY <1>3, <2>1 DEF Owns, OwnerPcs
  <2>3. Held(j)' => Held(j)
    BY <1>1, <1>3, <2>1 DEF Held, OwnerPcs, ClaimPcs
  <2>4. UntoldYet(j)' => UntoldYet(j)
    BY <1>1, <1>3, <2>1 DEF UntoldYet, OwnerPcs, TellerPcs, ClaimPcs
  <2> QED
    BY <1>1, <1>3, <2>2, <2>3, <2>4, CustodyFrame, CountFrame
<1>4. CASE \E id \in Ids : ResumeRead(r, id)
  <2>1. /\ resume'[r].pc = "authorizing"
        /\ \A s \in Resumers \ {r} : resume'[s] = resume[s]
        /\ UNCHANGED <<records, notices, refusals>>
    BY <1>4 DEF ResumeRead, TypeInv, TypeOK
  <2>2. "authorizing" \notin OwnerPcs
    BY DEF OwnerPcs, ClaimPcs
  <2> QED
    BY <1>1, <2>1, <2>2, Bystander DEF StatusOf
<1>5. CASE \/ ResumeRefused(r) \/ ResumeSettled(r) \/ ResumeIntact(r) \/ ResumeInvalid(r)
           \/ ResumeRun(r)
  <2>1. /\ Return(r) \/ \E pc \in {"validating", "running"} : Go(r, pc)
        /\ UNCHANGED <<records, notices, refusals>>
    BY <1>5 DEF ResumeRefused, ResumeSettled, ReplySettled, ResumeIntact, ResumeInvalid, ResumeRun
  <2>2. resume'[r].pc \notin OwnerPcs
    BY <2>1, GoMoves DEF OwnerPcs, ClaimPcs
  <2> QED
    BY <1>3, <2>1, <2>2 DEF StatusOf
<1>6. CASE ResumeLate(r) \/ ResumeBroken(r) \/ ResumeEnd(r)
  <2>1. /\ \E outcome : RecordTerminal(resume[r].id, outcome)
        /\ resume[r].pc \in {"won", "running"}
        /\ Return(r) \/ (resume[r].pc = "won" /\ Go(r, "telling"))
        /\ UNCHANGED <<notices, refusals>>
    BY <1>6 DEF ResumeLate, ResumeBroken, ResumeEnd
  <2>2. resume[r].id \in Ids
    BY <2>1 DEF TypeInv, ActorsKnowTheirId
  <2>3. \A j \in Ids : /\ StatusOf(j)' = StatusOf(j)
                       /\ records'[j].claimedAt = records[j].claimedAt
    <3> DEFINE Id == resume[r].id
    <3>1. Id \in Ids /\ \E outcome : RecordTerminal(Id, outcome)
      BY <2>1, <2>2
    <3> HIDE DEF Id
    <3> QED
      BY <3>1, SweepOpsEffect
  <2>4. resume'[r].pc \in OwnerPcs => resume'[r].pc = "telling" /\ resume[r].pc = "won"
    BY <2>1, GoMoves DEF OwnerPcs, ClaimPcs
  <2> QED
    BY <1>3, <2>1, <2>3, <2>4
<1>7. ASSUME NEW id \in Ids, id = resume[r].id, StatusOf(id) = "suspended",
             NEW pc \in {"expiring", "refusing", "won"}, Go(r, pc),
             IF pc = "won" THEN Swapped(id, "suspended", "resumed")
             ELSE Swapped(id, "suspended", "expiring") /\ records'[id].claimedAt = clock,
             UNCHANGED <<notices, refusals>>
      PROVE  \A j \in Ids : Custody(j)' /\ Counted(j)'
  <2>1. \A j \in Ids \ {id} : Custody(j)' /\ Counted(j)'
    BY <1>2, <1>7 DEF Swapped
  <2>2. Free(id)
    BY <1>7, WaitingIsFree
  <2>3. /\ resume'[r].pc = pc /\ resume'[r].id = id
        /\ \A s \in Resumers \ {r} : resume'[s] = resume[s]
    BY <1>7, GoMoves
  <2>4. Claimant(id)
    BY <1>1, <2>2, <2>3 DEF Claimant, Free, Owns, OwnerPcs, ClaimPcs
  <2>5. Held(id)' => pc # "won"
    BY <1>1, <2>2, <2>3 DEF Held, Free, ClaimPcs
  <2>6. Custody(id)'
    BY <1>1, <1>7, <2>4, <2>5, ClaimGivesCustody DEF Swapped
  <2>7. UntoldYet(id)
    BY <1>7 DEF UntoldYet
  <2> QED
    BY <1>7, <2>1, <2>6, <2>7, CountFrame
<1>8. ASSUME NEW pc \in {"expiring", "refusing"}, resume[r].id \in Ids, ClaimOrReply(r, pc)
      PROVE  \A j \in Ids : Custody(j)' /\ Counted(j)'
  <2>1. PICK id \in Ids : id = resume[r].id
    BY <1>8
  <2>2. ClaimExpiry(id) /\ UNCHANGED <<notices, refusals>>
    BY <1>8, <2>1 DEF ClaimOrReply
  <2>3. CASE StatusOf(id) = "suspended"
    <3>1. Go(r, pc)
      BY <1>8, <2>1, <2>3 DEF ClaimOrReply, Wins
    <3>2. Swapped(id, "suspended", "expiring") /\ records'[id].claimedAt = clock
      BY <2>2, <2>3, CasEffect
    <3> QED
      BY <1>7, <2>1, <2>2, <2>3, <3>1, <3>2
  <2>4. CASE StatusOf(id) # "suspended"
    <3>1. Return(r) /\ records' = records
      BY <1>8, <2>1, <2>2, <2>4 DEF ClaimOrReply, ReplySettled, Wins, ClaimExpiry, Transition
    <3>2. resume'[r].pc \notin OwnerPcs
      BY <3>1, GoMoves DEF OwnerPcs, ClaimPcs
    <3> QED
      BY <1>3, <2>2, <3>1, <3>2 DEF StatusOf
  <2> QED
    BY <2>3, <2>4
<1>9. CASE ResumeOverdue(r) \/ ResumeChanged(r)
  <2>1. /\ \E pc \in {"expiring", "refusing"} : ClaimOrReply(r, pc)
        /\ resume[r].pc = "authorizing"
    BY <1>9 DEF ResumeOverdue, ResumeChanged, Accepted
  <2> QED
    BY <1>8, <2>1 DEF TypeInv, ActorsKnowTheirId
<1>10. CASE ResumeClaim(r)
  <2>1. PICK id \in Ids : id = resume[r].id
    BY <1>10 DEF ResumeClaim, TypeInv, ActorsKnowTheirId
  <2>2. MarkResumed(id) /\ UNCHANGED <<notices, refusals>>
    BY <1>10, <2>1 DEF ResumeClaim
  <2>3. CASE StatusOf(id) = "suspended"
    <3>1. Go(r, "won") /\ Swapped(id, "suspended", "resumed")
      BY <1>10, <2>1, <2>2, <2>3, CasEffect DEF ResumeClaim, Wins
    <3> QED
      BY <1>7, <2>1, <2>2, <2>3, <3>1
  <2>4. CASE StatusOf(id) # "suspended"
    <3>1. Return(r) /\ records' = records
      BY <1>10, <2>1, <2>2, <2>4 DEF ResumeClaim, ReplySettled, Wins, MarkResumed, Transition
    <3>2. resume'[r].pc \notin OwnerPcs
      BY <3>1, GoMoves DEF OwnerPcs, ClaimPcs
    <3> QED
      BY <1>3, <2>2, <3>1, <3>2 DEF StatusOf
  <2> QED
    BY <2>3, <2>4
<1>11. CASE ResumeTell(r) \/ ResumeNotify(r)
  <2>1. PICK id \in Ids : id = resume[r].id
    BY <1>11 DEF ResumeTell, ResumeNotify, TypeInv, ActorsKnowTheirId
  <2>2. /\ Return(r) \/ \E pc \in {"expired", "refused"} : Go(r, pc)
        /\ UNCHANGED records
        /\ resume[r].pc \in TellerPcs
    BY <1>11 DEF ResumeTell, ResumeNotify, TellerPcs
  <2>3. /\ \A j \in Ids \ {id} : notices'[j] = notices[j] /\ refusals'[j] = refusals[j]
        /\ notices'[id] + refusals'[id] = notices[id] + refusals[id] + 1
    <3>1. notices \in [Ids -> Nat] /\ refusals \in [Ids -> Nat]
      BY DEF TypeInv, TypeOK
    <3>2. \/ notices' = [notices EXCEPT ![id] = @ + 1] /\ refusals' = refusals
          \/ refusals' = [refusals EXCEPT ![id] = @ + 1] /\ notices' = notices
      BY <1>11, <2>1 DEF ResumeTell, ResumeNotify
    <3>3. notices[id] \in Nat /\ refusals[id] \in Nat
      BY <3>1
    <3> QED
      BY <3>1, <3>2, <3>3
  <2>4. \A j \in Ids \ {id} : Custody(j)' /\ Counted(j)'
    BY <1>2, <2>1, <2>2, <2>3 DEF StatusOf
  <2>5. /\ \A s \in Resumers \ {r} : resume'[s] = resume[s]
        /\ resume'[r].pc \in {"idle", "expired", "refused"}
        /\ resume'[r].id \in {id, Never}
    BY <2>1, <2>2, GoMoves
  <2>6. Owns(r, id)
    BY <2>1, <2>2 DEF Owns, OwnerPcs, TellerPcs, ClaimPcs
  <2>7. UntoldYet(id)
    BY <2>1, <2>2 DEF UntoldYet
  <2>8. ~UntoldYet(id)'
    BY <1>1, <2>2, <2>5, <2>6, OwnerTells DEF TellerPcs
  <2>9. Held(id)' => Held(id)
    <3>1. ResumeTell(r) => resume'[r].pc = "idle"
      BY GoMoves DEF ResumeTell
    <3>2. ResumeNotify(r) => Held(id)
      BY <2>1 DEF ResumeNotify, Held, ClaimPcs
    <3> QED
      BY <1>1, <1>11, <2>5, <3>1, <3>2 DEF Held, ClaimPcs
  <2>10. \A s \in Resumers : Owns(s, id)' => Owns(s, id)
    BY <2>5, <2>6 DEF Owns
  <2>11. Custody(id)'
    BY <1>1, <2>2, <2>9, <2>10, CustodyFrame DEF StatusOf
  <2> QED
    BY <2>3, <2>4, <2>7, <2>8, <2>11, CountFrame
<1>12. CASE ResumeFinalize(r)
  <2>1. PICK id \in Ids : id = resume[r].id
    BY <1>12 DEF ResumeFinalize, TypeInv, ActorsKnowTheirId
  <2>2. /\ MarkExpired(id) \/ MarkDenied(id)
        /\ Return(r) /\ UNCHANGED <<notices, refusals>>
        /\ resume[r].pc \in ClaimPcs
    BY <1>12, <2>1 DEF ResumeFinalize, ClaimPcs
  <2>3. Swapped(id, "expiring", "expired") \/ Swapped(id, "expiring", "denied")
    BY <2>2, CasEffect
  <2>4. \A j \in Ids \ {id} : Custody(j)' /\ Counted(j)'
    BY <1>2, <2>1, <2>2, <2>3 DEF Swapped
  <2>5. /\ \A s \in Resumers \ {r} : resume'[s] = resume[s]
        /\ resume'[r].pc = "idle" /\ resume'[r].id = Never
    BY <2>2, GoMoves
  <2>6. Owns(r, id)
    BY <2>1, <2>2 DEF Owns, OwnerPcs
  <2>7. /\ sweep.item # id /\ park[id] # "denying"
        /\ \A s \in Resumers \ {r} : ~Owns(s, id)
        /\ StatusOf(id) # "suspended"
    BY <2>6 DEF Custody, OwnerIsAlone
  <2>8. ~Held(id)' /\ \A s \in Resumers : ~Owns(s, id)'
    BY <1>1, <2>5, <2>7 DEF Held, Owns, OwnerPcs, ClaimPcs
  <2>9. StatusOf(id)' # "suspended"
    BY <2>3, <2>7 DEF Swapped
  <2>10. Custody(id)'
    BY <1>1, <2>8, <2>9, CustodyFrame
  <2>11. UntoldYet(id)' => UntoldYet(id)
    BY <1>1, <2>5, <2>9 DEF UntoldYet, TellerPcs
  <2> QED
    BY <2>2, <2>4, <2>10, <2>11, CountFrame
<1> QED
  BY <1>4, <1>5, <1>6, <1>9, <1>10, <1>11, <1>12 DEF ResumeStep

(***************************************************************************)
(* The sweeper: no claim that is held is old enough to be given back, and  *)
(* the record it claims is told before the next one is taken.              *)
(***************************************************************************)
LEMMA SweepTellsOnce ==
  ASSUME TypeInv, OneFateInv, NobodyIsForgottenInv, Calm, SweepStep,
         \A j \in Ids : Custody(j) /\ Counted(j)
  PROVE  \A j \in Ids : Custody(j)' /\ Counted(j)'
<1> USE DEF storeVars, host, world
<1>1. UNCHANGED <<clock, park, resume, refusals>>
  BY DEF SweepStep, SweepBegin, SweepPurge, SweepScan, SweepHalt, SweepSkip, SweepClaim,
         SweepNotify, SweepFinalize, SweepReport
<1>2. sweep.pc \notin {"expiring", "expired"} => sweep.item = Never
  BY DEF NobodyIsForgottenInv, ItemIsAClaim
<1>3. \A id \in Ids : AfterVisit(id).item = Never
  BY DEF AfterVisit, PassOver, IdleSweep, TypeInv, TypeOK, SweepState
<1>4. ASSUME sweep'.item = Never, notices' = notices,
             \A j \in Ids :
               \/ /\ StatusOf(j)' = StatusOf(j)
                  /\ records'[j].claimedAt = records[j].claimedAt
               \/ StatusOf(j)' = "absent" /\ ~Held(j)
      PROVE  \A j \in Ids : Custody(j)' /\ Counted(j)'
  BY <1>1, <1>4, Bystander
<1>5. CASE SweepBegin
  <2>1. sweep'.item = Never /\ notices' = notices
    BY <1>5 DEF SweepBegin, IdleSweep
  <2>2. ASSUME NEW j \in Ids
        PROVE  /\ StatusOf(j)' = StatusOf(j)
               /\ records'[j].claimedAt = records[j].claimedAt
    <3>1. ReleaseExpiring(clock - Lease)
      BY <1>5 DEF SweepBegin
    <3>2. ~(StatusOf(j) = "expiring" /\ records[j].claimedAt <= clock - Lease)
      <4> SUFFICES ASSUME StatusOf(j) = "expiring"
          PROVE  ~(records[j].claimedAt <= clock - Lease)
        OBVIOUS
      <4>1. Holders(j) # {}
        BY DEF Calm, NobodyIsForgottenInv, ClaimsOwned
      <4>2. records[j].claimedAt \in Nat /\ clock < records[j].claimedAt + Lease
        BY <4>1 DEF Custody, ClaimIsYoung
      <4>3. clock \in Nat
        BY DEF TypeInv, TypeOK, StoreTypeOK
      <4> QED
        BY <4>2, <4>3
    <3>3. records'[j] = records[j]
      BY <3>1, <3>2, SweepOpsEffect
    <3> QED
      BY <3>3 DEF StatusOf
  <2> QED
    BY <1>4, <2>1, <2>2
<1>6. CASE SweepPurge
  <2>1. sweep'.item = Never /\ notices' = notices
    BY <1>2, <1>6 DEF SweepPurge, TypeInv, TypeOK, SweepState
  <2>2. PurgeSettled(sweep.now - Retention) \/ records' = records
    BY <1>6 DEF SweepPurge
  <2>3. ASSUME NEW j \in Ids
        PROVE  \/ records'[j] = records[j]
               \/ StatusOf(j) \in Settled /\ records'[j] = AbsentRecord
    BY <2>2, SweepOpsEffect
  <2>4. \A j \in Ids : StatusOf(j) \in Settled => ~Held(j)
    BY HeldMeaning DEF Custody, ClaimIsYoung, Settled
  <2>5. \A j \in Ids :
          \/ StatusOf(j)' = StatusOf(j) /\ records'[j].claimedAt = records[j].claimedAt
          \/ StatusOf(j)' = "absent" /\ ~Held(j)
    <3> SUFFICES ASSUME NEW j \in Ids
        PROVE  \/ StatusOf(j)' = StatusOf(j) /\ records'[j].claimedAt = records[j].claimedAt
               \/ StatusOf(j)' = "absent" /\ ~Held(j)
      OBVIOUS
    <3>1. CASE records'[j] = records[j]
      BY <3>1 DEF StatusOf
    <3>2. CASE StatusOf(j) \in Settled /\ records'[j] = AbsentRecord
      BY <2>4, <3>2 DEF StatusOf, AbsentRecord
    <3> QED
      BY <2>3, <3>1, <3>2
  <2> QED
    BY <1>4, <2>1, <2>5
<1>7. CASE SweepScan \/ SweepHalt \/ SweepSkip \/ SweepReport
  <2>1. sweep'.item = Never
    <3>1. PassOver.item = Never /\ IdleSweep.item = Never
      BY DEF PassOver, IdleSweep
    <3>2. CASE SweepScan
      <4> DEFINE page == FindExpired(sweep.now, SweepBatch, sweep.cursor)
      <4>1. \/ sweep' = PassOver
            \/ sweep' = [sweep EXCEPT !.pc = "batch", !.due = page,
                                      !.full = Cardinality(page) >= SweepBatch]
        BY <3>2 DEF SweepScan
      <4>2. sweep.item = Never
        BY <1>2, <3>2 DEF SweepScan
      <4> HIDE DEF page
      <4> QED
        BY <3>1, <4>1, <4>2 DEF TypeInv, TypeOK, SweepState
    <3> QED
      BY <1>3, <1>7, <3>1, <3>2 DEF SweepHalt, SweepSkip, SweepReport
  <2>2. UNCHANGED <<records, notices>>
    BY <1>7 DEF SweepScan, SweepHalt, SweepSkip, SweepReport
  <2> QED
    BY <1>4, <2>1, <2>2 DEF StatusOf
<1>8. CASE SweepClaim
  <2>1. PICK id \in Ids :
          /\ ClaimExpiry(id)
          /\ sweep' = IF Wins(id, "suspended") THEN [sweep EXCEPT !.pc = "expiring", !.item = id]
                      ELSE AfterVisit(id)
    BY <1>8 DEF SweepClaim
  <2>2. sweep.item = Never /\ notices' = notices
    BY <1>2, <1>8 DEF SweepClaim
  <2>3. CASE StatusOf(id) = "suspended"
    <3>1. Swapped(id, "suspended", "expiring") /\ records'[id].claimedAt = clock
      BY <2>1, <2>3, CasEffect
    <3>2. sweep'.item = id
      BY <2>1, <2>3 DEF Wins, TypeInv, TypeOK, SweepState
    <3>3. \A j \in Ids \ {id} : Custody(j)' /\ Counted(j)'
      BY <1>1, <2>2, <3>1, <3>2, Bystander DEF Swapped
    <3>4. Free(id)
      BY <2>3, WaitingIsFree
    <3>5. Claimant(id)
      BY <1>1, <3>4 DEF Claimant, Free, Owns
    <3>6. Custody(id)'
      BY <1>1, <2>3, <3>1, <3>5, ClaimGivesCustody DEF Swapped
    <3>7. UntoldYet(id)
      BY <2>3 DEF UntoldYet
    <3> QED
      BY <1>1, <2>2, <3>3, <3>6, <3>7, CountFrame
  <2>4. CASE StatusOf(id) # "suspended"
    <3>1. records' = records /\ sweep'.item = Never
      BY <1>3, <2>1, <2>4 DEF Wins, ClaimExpiry, Transition
    <3> QED
      BY <1>4, <2>2, <3>1 DEF StatusOf
  <2> QED
    BY <2>3, <2>4
<1>9. CASE SweepNotify
  <2>1. PICK id \in Ids : id = sweep.item
    BY <1>9 DEF SweepNotify, TypeInv, ActorsKnowTheirId
  <2>2. /\ sweep.pc = "expiring" /\ sweep'.pc = "expired" /\ sweep'.item = sweep.item
        /\ notices' = [notices EXCEPT ![id] = @ + 1] /\ UNCHANGED records
    BY <1>9, <2>1 DEF SweepNotify, TypeInv, TypeOK, SweepState
  <2>3. /\ \A j \in Ids \ {id} : notices'[j] = notices[j]
        /\ notices'[id] + refusals'[id] = notices[id] + refusals[id] + 1
    <3>1. notices \in [Ids -> Nat] /\ notices[id] \in Nat /\ refusals[id] \in Nat
      BY DEF TypeInv, TypeOK
    <3> QED
      BY <1>1, <2>2, <3>1
  <2>4. \A j \in Ids \ {id} : Custody(j)' /\ Counted(j)'
    BY <1>1, <2>1, <2>2, <2>3, Bystander DEF StatusOf
  <2>5. Held(id) /\ StatusOf(id) = "expiring" /\ \A r \in Resumers : ~Owns(r, id)
    <3>1. Held(id)
      BY <2>1 DEF Held
    <3> QED
      BY <2>1, <3>1, HeldMeaning DEF Custody, ClaimIsYoung, OwnerIsAlone
  <2>6. Custody(id)'
    BY <1>1, <2>1, <2>2, <2>5, CustodyFrame DEF StatusOf, Owns
  <2>7. UntoldYet(id)
    BY <2>1, <2>2 DEF UntoldYet
  <2>8. ~UntoldYet(id)'
    <3>1. park[id] # "none"
      BY <2>1 DEF OneFateInv, UnparkedIsUnknown
    <3> QED
      BY <1>1, <2>2, <2>5, <3>1
      DEF UntoldYet, StatusOf, Owns, OwnerPcs, TellerPcs, ClaimPcs
  <2> QED
    BY <2>3, <2>4, <2>6, <2>7, <2>8, CountFrame
<1>10. CASE SweepFinalize
  <2>1. PICK id \in Ids : id = sweep.item
    BY <1>10 DEF SweepFinalize, TypeInv, ActorsKnowTheirId
  <2>2. MarkExpired(id) /\ sweep'.item = Never /\ notices' = notices
    BY <1>3, <1>10, <2>1 DEF SweepFinalize
  <2>3. Swapped(id, "expiring", "expired")
    BY <2>2, CasEffect
  <2>4. \A j \in Ids \ {id} : Custody(j)' /\ Counted(j)'
    BY <1>1, <2>2, <2>3, Bystander DEF Swapped
  <2>5. Held(id) /\ park[id] # "denying" /\ \A r \in Resumers : ~Owns(r, id)
    BY <2>1 DEF Held, Custody, OwnerIsAlone
  <2>6. StatusOf(id) = "expiring"
    BY <2>5, HeldMeaning DEF Custody, ClaimIsYoung
  <2>7. ~Held(id)' /\ StatusOf(id)' = "expired" /\ \A r \in Resumers : ~Owns(r, id)'
    BY <1>1, <2>2, <2>3, <2>5, <2>6 DEF Held, Owns, OwnerPcs, Swapped
  <2>8. Custody(id)'
    BY <1>1, <2>2, <2>5, <2>7, CustodyFrame
  <2>9. UntoldYet(id)' => UntoldYet(id)
    BY <1>1, <2>2, <2>7 DEF UntoldYet
  <2> QED
    BY <1>1, <2>2, <2>4, <2>8, <2>9, CountFrame
<1> QED
  BY <1>5, <1>6, <1>7, <1>8, <1>9, <1>10 DEF SweepStep

(***************************************************************************)
(* The clock never outruns a held claim, and a calm process starts once.   *)
(***************************************************************************)
LEMMA HostTellsOnce ==
  ASSUME TypeInv, NobodyIsForgottenInv, Calm, TimePasses \/ Start \/ UNCHANGED vars,
         \A j \in Ids : Custody(j) /\ Counted(j)
  PROVE  \A j \in Ids : Custody(j)' /\ Counted(j)'
<1> USE DEF storeVars, host, world, actorVars
<1>1. UNCHANGED <<records, park, resume, notices, refusals>>
  BY DEF TimePasses, Tick, Start, vars
<1>2. CASE Start \/ UNCHANGED vars
  <2>1. /\ sweep'.item = sweep.item /\ clock' = clock
        /\ sweep'.pc = "expiring" => sweep.pc = "expiring"
    BY <1>2 DEF Start, IdleSweep, vars, NobodyIsForgottenInv, ItemIsAClaim, Up
  <2> QED
    BY <1>1, <2>1, Bystander DEF StatusOf
<1>3. CASE TimePasses
  <2> SUFFICES ASSUME NEW j \in Ids
      PROVE  Custody(j)' /\ Counted(j)'
    OBVIOUS
  <2>1. sweep' = sweep /\ clock' = clock + 1
    BY <1>3 DEF TimePasses, Tick
  <2>2. /\ Held(j)' <=> Held(j)
        /\ \A r \in Resumers : Owns(r, j)' <=> Owns(r, j)
        /\ StatusOf(j)' = StatusOf(j)
    BY <1>1, <2>1 DEF Held, Owns, StatusOf
  <2>3. ClaimIsYoung(j)'
    <3> SUFFICES ASSUME Holders(j)' # {}
        PROVE  /\ StatusOf(j)' = "expiring" /\ records'[j].claimedAt \in Nat
               /\ clock' < records'[j].claimedAt + Lease
      BY DEF ClaimIsYoung, StatusOf
    <3>1. Holders(j) # {}
      BY <2>2, HeldMeaning
    <3>2. StatusOf(j) = "expiring" /\ records[j].claimedAt \in Nat
      BY <3>1 DEF Custody, ClaimIsYoung
    <3>3. clock + 1 < records[j].claimedAt + Lease
      BY <1>3, <3>1, <3>2 DEF TimePasses, Calm
    <3> QED
      BY <1>1, <2>1, <2>2, <3>2, <3>3
  <2>4. Custody(j)'
    BY <1>1, <2>1, <2>2, <2>3 DEF Custody, OwnerIsAlone
  <2>5. UntoldYet(j)' => UntoldYet(j)
    BY <1>1, <2>1, <2>2 DEF UntoldYet
  <2> QED
    BY <1>1, <2>4, <2>5, CountFrame
<1> QED
  BY <1>2, <1>3

(***************************************************************************)
(* The inductive invariant holds in every reachable state: a step that is  *)
(* taken in calm begins in calm.                                           *)
(***************************************************************************)
LEMMA ToldOnceInvariant == Spec => []ToldOnceInv
<1>1. Init => ToldOnceInv
  <2> SUFFICES ASSUME Init, NEW id \in Ids
      PROVE  Custody(id) /\ Counted(id)
    BY ToldOnceParts
  <2>1. ~Held(id) /\ sweep.item # id /\ park[id] = "none" /\ \A r \in Resumers : ~Owns(r, id)
    BY DEF Init, Held, Owns, IdleResume, IdleSweep, OwnerPcs, ClaimPcs
  <2>2. Custody(id)
    BY <2>1, HeldMeaning DEF Custody, OwnerIsAlone, ClaimIsYoung
  <2>3. Counted(id)
    BY DEF Init, Counted
  <2> QED
    BY <2>2, <2>3
<1>2. /\ TypeInv /\ OneFateInv /\ NobodyIsForgottenInv /\ ToldOnceInv
      /\ [Next]_vars
      => ToldOnceInv'
  <2> SUFFICES ASSUME TypeInv, OneFateInv, NobodyIsForgottenInv, ToldOnceInv, [Next]_vars, Calm'
      PROVE  \A j \in Ids : Custody(j)' /\ Counted(j)'
    BY ToldOnceParts
  <2> USE DEF host, world, storeVars, actorVars
  <2>1. restarts \in Nat /\ faults \in Nat
    BY DEF TypeInv, TypeOK
  <2>2. ASSUME Fault
        PROVE  FALSE
    BY <2>1, <2>2 DEF Fault, Calm
  <2>3. ~(Crash \/ Stop)
    BY <2>1 DEF Crash, Stop, Calm
  <2>4. ~Exit
    BY <2>1 DEF Exit, Calm, NobodyIsForgottenInv, StopsAreCounted
  <2>5. \/ \E id \in Ids : ParkStep(id)
        \/ \E r \in Resumers : ResumeStep(r)
        \/ SweepStep \/ TimePasses \/ Start \/ UNCHANGED vars
    BY <2>2, <2>3, <2>4 DEF Next, ParkFault, ResumeFault, SweepFault, SweepPurgeFault, SweepAbort
  <2>6. UNCHANGED <<restarts, faults>>
    <3>1. ASSUME NEW id \in Ids, ParkStep(id)
          PROVE  UNCHANGED <<restarts, faults>>
      BY <3>1 DEF ParkStep, ParkCreate, ParkAnnounce, ParkCancelled, ParkDeny
    <3>2. ASSUME NEW r \in Resumers, ResumeStep(r)
          PROVE  UNCHANGED <<restarts, faults>>
      BY <3>2
      DEF ResumeStep, ResumeRead, ResumeRefused, ResumeSettled, ResumeOverdue, ResumeChanged,
          ClaimOrReply, ResumeIntact, ResumeInvalid, ResumeClaim, ResumeLate, ResumeTell,
          ResumeRun, ResumeBroken, ResumeEnd, ResumeNotify, ResumeFinalize
    <3>3. CASE SweepStep
      BY <3>3 DEF SweepStep, SweepBegin, SweepPurge, SweepScan, SweepHalt, SweepSkip, SweepClaim,
                  SweepNotify, SweepFinalize, SweepReport
    <3>4. CASE TimePasses \/ Start \/ UNCHANGED vars
      BY <3>4 DEF TimePasses, Tick, Start, vars
    <3> QED
      BY <2>5, <3>1, <3>2, <3>3, <3>4
  <2>7. Calm
    BY <2>6 DEF Calm
  <2>8. \A j \in Ids : Custody(j) /\ Counted(j)
    BY <2>7, ToldOnceParts
  <2> QED
    BY <2>5, <2>7, <2>8, ParkTellsOnce, ResumeTellsOnce, SweepTellsOnce, HostTellsOnce
<1> QED
  BY <1>1, <1>2, TypeInvariant, OneFateInvariant, NobodyIsForgottenInvariant, PTL DEF Spec

(***************************************************************************)
(* A route hears of one expiry or one refusal, never two or both, from the *)
(* sweeper, the parks and every resume call together, while nothing died   *)
(* or failed and no delivery outlived the lease of its claim.              *)
(***************************************************************************)
THEOREM RoutesAreToldOnce == Spec => []ToldOnceWhenCalm
<1>1. ToldOnceInv => ToldOnceWhenCalm
  BY DEF ToldOnceInv, ToldOnceWhenCalm
<1> QED
  BY <1>1, ToldOnceInvariant, PTL

-----------------------------------------------------------------------------
(* A pass misses nobody. *)

(***************************************************************************)
(* Numbers, and records in the order of the query, have a first one.       *)
(***************************************************************************)
LEMMA LeastNumber ==
  ASSUME NEW T \in SUBSET Nat, T # {}
  PROVE  \E m \in T : \A j \in T : m <= j
<1> DEFINE R == {p \in Nat \X Nat : p[1] < p[2]}
<1>1. IsWellFoundedOn(R, Nat)
  BY NatLessThanWellFounded DEF OpToRel
<1>2. PICK m \in T : \A j \in T : ~(<<j, m>> \in R)
  <2> HIDE DEF R
  <2> QED
    BY <1>1, WFMin
<1>3. \A j \in T : ~(j < m)
  <2> SUFFICES ASSUME NEW j \in T, j < m
      PROVE  FALSE
    OBVIOUS
  <2>1. <<j, m>> \in Nat \X Nat /\ <<j, m>>[1] = j /\ <<j, m>>[2] = m
    OBVIOUS
  <2> QED
    BY <1>2, <2>1
<1> QED
  BY <1>3

(***************************************************************************)
(* The order of the query for expired records, by date and then by id, is  *)
(* a strict total order.                                                   *)
(***************************************************************************)
LEMMA BeforeIsAnOrder ==
  ASSUME NEW i \in Ids, NEW j \in Ids, NEW k \in Ids,
         expiresAt[i] \in Nat, expiresAt[j] \in Nat, expiresAt[k] \in Nat
  PROVE  /\ ~Before(i, i)
         /\ i # j => Before(i, j) \/ Before(j, i)
         /\ Before(i, j) /\ Before(j, k) => Before(i, k)
<1>1. i \in Nat /\ j \in Nat /\ k \in Nat
  OBVIOUS
<1> QED
  BY <1>1 DEF Before

(***************************************************************************)
(* Records that have dates have a first one in the order of the query.     *)
(***************************************************************************)
LEMMA FirstDue ==
  ASSUME NEW T \in SUBSET Ids, T # {}, \A i \in T : expiresAt[i] \in Nat
  PROVE  \E m \in T : \A j \in T \ {m} : Before(m, j)
<1> DEFINE Dates == {expiresAt[i] : i \in T}
<1>0. Dates \in SUBSET Nat /\ Dates # {}
  <2>1. \A e \in Dates : e \in Nat
    OBVIOUS
  <2>2. PICK i \in T : TRUE
    OBVIOUS
  <2>3. expiresAt[i] \in Dates
    BY <2>2
  <2> QED
    BY <2>1, <2>3
<1>1. PICK d \in Dates : \A e \in Dates : d <= e
  <2> HIDE DEF Dates
  <2> QED
    BY <1>0, LeastNumber
<1>a. d \in Nat /\ \A i \in T : expiresAt[i] \in Nat /\ d <= expiresAt[i]
  BY <1>0, <1>1
<1>b. \E i \in T : expiresAt[i] = d
  OBVIOUS
<1> HIDE DEF Dates
<1> DEFINE First == {i \in T : expiresAt[i] = d}
<1>2. PICK m \in First : \A j \in First : m <= j
  <2>1. First \in SUBSET Nat /\ First # {}
    BY <1>b
  <2> HIDE DEF First
  <2> QED
    BY <2>1, LeastNumber
<1>3. ASSUME NEW j \in T \ {m}
      PROVE  Before(m, j)
  <2>1. expiresAt[m] = d /\ d <= expiresAt[j] /\ expiresAt[j] \in Nat /\ d \in Nat
    BY <1>a
  <2>2. expiresAt[j] = d => m <= j
    BY <1>2
  <2>3. m \in Nat /\ j \in Nat /\ m # j
    BY <1>2
  <2> QED
    BY <2>1, <2>2, <2>3 DEF Before
<1> QED
  BY <1>2, <1>3

(***************************************************************************)
(* findExpired: what is due and not on the page comes after all of it, and *)
(* the page is then full.                                                  *)
(***************************************************************************)
LEMMA PageIsPrefix ==
  ASSUME StoreTypeOK, NEW now, NEW limit \in Nat \ {0}, NEW cursor,
         NEW id \in Due(now, cursor), id \notin FindExpired(now, limit, cursor)
  PROVE  /\ Cardinality(FindExpired(now, limit, cursor)) >= limit
         /\ \A j \in FindExpired(now, limit, cursor) : Before(j, id)
<1> DEFINE due == Due(now, cursor)
           Ahead(i) == {j \in due : Before(j, i)}
           page == FindExpired(now, limit, cursor)
<1>1. /\ due \subseteq Ids
      /\ \A i \in due : expiresAt[i] \in Nat
  BY DEF Due, Overdue, StoreTypeOK, Date
<1>2. page = {i \in due : Cardinality(Ahead(i)) < limit}
  BY DEF FindExpired
<1>3. \A i \in Ids : IsFiniteSet(Ahead(i)) /\ Cardinality(Ahead(i)) \in Nat
  <2> SUFFICES ASSUME NEW i \in Ids
      PROVE  IsFiniteSet(Ahead(i)) /\ Cardinality(Ahead(i)) \in Nat
    OBVIOUS
  <2>1. Ahead(i) \in SUBSET Ids
    BY <1>1
  <2> HIDE DEF Ahead
  <2>2. IsFiniteSet(Ahead(i))
    BY <2>1, FS_Subset
  <2> QED
    BY <2>2, FS_CardinalityType
<1>4. IsFiniteSet(page) /\ Cardinality(page) \in Nat
  <2>1. page \in SUBSET Ids
    BY <1>1, <1>2
  <2> HIDE DEF page
  <2>2. IsFiniteSet(page)
    BY <2>1, FS_Subset
  <2> QED
    BY <2>2, FS_CardinalityType
<1>5. ASSUME NEW j \in page
      PROVE  Before(j, id)
  <2>1. j \in due /\ id \in due /\ j # id
    BY <1>2, <1>5
  <2>2. SUFFICES ASSUME ~Before(j, id)
        PROVE  FALSE
    OBVIOUS
  <2>3. Before(id, j)
    <3> HIDE DEF due, page
    <3> QED
      BY <1>1, <2>1, <2>2, BeforeIsAnOrder
  <2>4. Ahead(id) \in SUBSET Ahead(j)
    <3> HIDE DEF due, page
    <3> QED
      BY <1>1, <2>1, <2>3, BeforeIsAnOrder
  <2>5. Cardinality(Ahead(id)) <= Cardinality(Ahead(j))
    <3>1. IsFiniteSet(Ahead(j))
      BY <1>1, <1>3, <2>1
    <3> HIDE DEF Ahead
    <3> QED
      BY <2>4, <3>1, FS_Subset
  <2>6. Cardinality(Ahead(j)) < limit /\ ~(Cardinality(Ahead(id)) < limit)
    BY <1>2, <1>5, <2>1
  <2>7. Cardinality(Ahead(j)) \in Nat /\ Cardinality(Ahead(id)) \in Nat
    BY <1>1, <1>3, <2>1
  <2> HIDE DEF Ahead
  <2> QED
    BY <2>5, <2>6, <2>7
<1>6. Cardinality(page) >= limit
  <2>1. SUFFICES ASSUME Cardinality(page) < limit
        PROVE  FALSE
    BY <1>4
  <2>2. PICK m \in due \ page : \A j \in (due \ page) \ {m} : Before(m, j)
    <3> HIDE DEF due, page
    <3>1. due \ page \in SUBSET Ids /\ due \ page # {} /\ \A i \in due \ page : expiresAt[i] \in Nat
      BY <1>1 DEF due, page
    <3> QED
      BY <3>1, FirstDue
  <2>3. Ahead(m) \in SUBSET page
    <3> SUFFICES ASSUME NEW j \in due, Before(j, m), j \notin page
        PROVE  FALSE
      OBVIOUS
    <3> HIDE DEF due, page
    <3>1. j # m
      BY <1>1, <2>2, BeforeIsAnOrder
    <3>2. Before(m, j)
      BY <2>2, <3>1
    <3> QED
      BY <1>1, <2>2, <3>1, <3>2, BeforeIsAnOrder
  <2>4. Cardinality(Ahead(m)) <= Cardinality(page)
    <3> HIDE DEF Ahead, page
    <3> QED
      BY <1>4, <2>3, FS_Subset
  <2>5. Cardinality(Ahead(m)) \in Nat /\ ~(Cardinality(Ahead(m)) < limit)
    BY <1>1, <1>2, <1>3, <2>2
  <2> HIDE DEF Ahead, page
  <2> QED
    BY <1>4, <2>1, <2>4, <2>5
<1> QED
  BY <1>5, <1>6

(***************************************************************************)
(* What the pass could still notify, and whether it will.                  *)
(***************************************************************************)
Notifiable(id) ==
  StatusOf(id) = "suspended" /\ Overdue(id, sweep.now) /\ deploy[id] # "missing"

PassPcs == {"scan", "batch", "expiring", "expired"}

(***************************************************************************)
(* The invariant of a pass, spelled out in a state and after a step.       *)
(***************************************************************************)
LEMMA PassParts ==
  /\ PassInv <=>
       /\ sweep.pc = "purge" => sweep.cursor = Never
       /\ sweep.cursor # Never => park[sweep.cursor] # "none"
       /\ sweep.item # Never => sweep.item \in sweep.due /\ StatusOf(sweep.item) # "suspended"
       /\ (faults = 0 /\ sweep.pc \in PassPcs) =>
            \A id \in Ids : Notifiable(id) => LiesAhead(id)
  /\ PassInv' <=>
       /\ sweep'.pc = "purge" => sweep'.cursor = Never
       /\ sweep'.cursor # Never => park'[sweep'.cursor] # "none"
       /\ sweep'.item # Never => sweep'.item \in sweep'.due /\ StatusOf(sweep.item)' # "suspended"
       /\ (faults' = 0 /\ sweep'.pc \in PassPcs) =>
            \A id \in Ids : Notifiable(id)' => LiesAhead(id)'
BY DEF PassInv, Notifiable, PassPcs, StatusOf

(***************************************************************************)
(* No pass is on its way, and none is while it purges.                     *)
(***************************************************************************)
LEMMA NoPass ==
  ASSUME sweep'.pc \in {"boot", "idle", "report", "purge"},
         sweep'.cursor = Never, sweep'.item = Never
  PROVE  PassInv'
BY PassParts DEF PassPcs

(***************************************************************************)
(* A step that leaves the pass alone, and parks nothing that is already    *)
(* overdue, puts nothing behind it.                                        *)
(***************************************************************************)
LEMMA PassFrame ==
  ASSUME TypeInv, OneFateInv, PassInv, sweep' = sweep, deploy' = deploy,
         faults' = 0 => faults = 0,
         \A id \in Ids :
           /\ park[id] # "none" => park'[id] # "none" /\ expiresAt'[id] = expiresAt[id]
           /\ StatusOf(id)' = "suspended" =>
                StatusOf(id) = "suspended" \/ (park[id] = "none" /\ ~Overdue(id, sweep.now)')
  PROVE  PassInv'
<1>1. /\ sweep.due \subseteq Ids
      /\ sweep.cursor # Never => sweep.cursor \in Ids
      /\ sweep.item # Never => sweep.item \in Ids
  BY DEF TypeInv, TypeOK, SweepState
<1>2. \A id \in Ids : park[id] = "none" =>
        StatusOf(id) = "absent" /\ id \notin sweep.due /\ sweep.item # id
  BY DEF OneFateInv, UnparkedIsUnknown
<1>3. sweep.cursor # Never => park'[sweep.cursor] # "none"
  BY <1>1, PassParts
<1>4. sweep.item # Never => sweep.item \in sweep.due /\ StatusOf(sweep.item)' # "suspended"
  <2> SUFFICES ASSUME NEW id \in Ids, id = sweep.item
      PROVE  id \in sweep.due /\ StatusOf(id)' # "suspended"
    BY <1>1 DEF StatusOf
  <2>1. id \in sweep.due /\ StatusOf(id) # "suspended"
    BY PassParts
  <2> QED
    BY <1>2, <2>1
<1>5. ASSUME faults' = 0, sweep.pc \in PassPcs, NEW id \in Ids, Notifiable(id)'
      PROVE  LiesAhead(id)'
  <2>1. StatusOf(id) = "suspended" /\ park[id] # "none" /\ expiresAt'[id] = expiresAt[id]
    BY <1>2, <1>5 DEF Notifiable, Overdue
  <2>2. LiesAhead(id)
    BY <1>5, <2>1, PassParts DEF Notifiable, Overdue
  <2>3. \A j \in sweep.due : Before(j, id)' <=> Before(j, id)
    BY <1>1, <1>2, <2>1 DEF Before
  <2>4. sweep.cursor # Never => (Before(sweep.cursor, id)' <=> Before(sweep.cursor, id))
    BY <1>1, <2>1, PassParts DEF Before
  <2> QED
    BY <2>2, <2>3, <2>4 DEF LiesAhead
<1> QED
  BY <1>3, <1>4, <1>5, PassParts DEF StatusOf

(***************************************************************************)
(* No resume call makes a record wait again.                               *)
(***************************************************************************)
LEMMA CallSuspendsNobody ==
  ASSUME TypeInv, NEW r \in Resumers, ResumeStep(r) \/ ResumeFault(r), NEW j \in Ids,
         StatusOf(j)' = "suspended"
  PROVE  StatusOf(j) = "suspended"
<1> USE DEF storeVars, world, host
<1>1. CASE records' = records
  BY <1>1 DEF StatusOf
<1>2. CASE records' # records
  <2>1. PICK id \in Ids :
          \/ \E outcome : RecordTerminal(id, outcome)
          \/ MarkResumed(id) \/ ClaimExpiry(id)
          \/ MarkExpired(id) \/ MarkDenied(id)
    <3>1. resume[r].pc # "idle" => resume[r].id \in Ids
      BY DEF TypeInv, ActorsKnowTheirId
    <3> QED
      BY <1>2, <3>1
      DEF ResumeStep, ResumeRead, ResumeRefused, ResumeSettled, ResumeOverdue, ResumeChanged,
          ClaimOrReply, ResumeIntact, Accepted, ResumeInvalid, ResumeClaim, ResumeLate, ResumeTell,
          ResumeRun, ResumeBroken, ResumeEnd, ResumeNotify, ResumeFinalize, ResumeFault, Fault
  <2>2. CASE MarkResumed(id) \/ ClaimExpiry(id)
    BY <2>2, CasEffect DEF Swapped
  <2>3. CASE MarkExpired(id) \/ MarkDenied(id)
    BY <2>3, CasEffect DEF Swapped
  <2>4. CASE \E outcome : RecordTerminal(id, outcome)
    BY <2>4, SweepOpsEffect
  <2> QED
    BY <2>1, <2>2, <2>3, <2>4
<1> QED
  BY <1>1, <1>2

(***************************************************************************)
(* Parks, resume calls and the process put nothing behind a pass: what is  *)
(* parked meanwhile is not overdue for it.                                 *)
(***************************************************************************)
LEMMA OthersKeepThePass ==
  ASSUME TypeInv, OneFateInv, PassInv,
         \/ \E id \in Ids : ParkStep(id) \/ ParkFault(id)
         \/ \E r \in Resumers : ResumeStep(r) \/ ResumeFault(r)
         \/ TimePasses \/ Start \/ Crash \/ Stop \/ Exit \/ UNCHANGED vars
  PROVE  PassInv'
<1> USE DEF storeVars, world, host, actorVars
<1>0. faults \in Nat
  BY DEF TypeInv, TypeOK
<1>1. ASSUME NEW id \in Ids, ParkStep(id) \/ ParkFault(id)
      PROVE  PassInv'
  <2>1. /\ sweep' = sweep /\ deploy' = deploy
        /\ faults' = 0 => faults = 0
        /\ \A j \in Ids : park[j] # "none" => park'[j] # "none"
    BY <1>0, <1>1
    DEF ParkStep, ParkCreate, ParkAnnounce, ParkCancelled, ParkDeny, ParkFault, Fault, GoPark,
        TypeInv, TypeOK
  <2>2. ASSUME ParkCreate(id)
        PROVE  \A j \in Ids :
               /\ park[j] # "none" => park'[j] # "none" /\ expiresAt'[j] = expiresAt[j]
               /\ StatusOf(j)' = "suspended" =>
                    StatusOf(j) = "suspended" \/ (park[j] = "none" /\ ~Overdue(j, sweep.now)')
    <3>1. PICK ttl \in Ttls : Create(id, ttl)
      BY <2>2 DEF ParkCreate
    <3>2. /\ park[id] = "none"
          /\ \A j \in Ids \ {id} : records'[j] = records[j] /\ expiresAt'[j] = expiresAt[j]
          /\ expiresAt'[id] = IF ttl = Never THEN Never ELSE clock + ttl
      BY <2>2, <3>1 DEF ParkCreate, Create, TypeInv, TypeOK, StoreTypeOK
    <3>3. ~Overdue(id, sweep.now)'
      <4>1. clock \in Nat /\ sweep.now \in Nat /\ sweep.now <= clock
        BY DEF TypeInv, TypeOK, StoreTypeOK, SweepState, OneFateInv, ExpiriesAreOverdue
      <4>2. ttl # Never => ttl \in Nat \ {0}
        OBVIOUS
      <4> QED
        BY <2>1, <3>2, <4>1, <4>2 DEF Overdue
    <3>4. \A j \in Ids :
            /\ park[j] # "none" => park'[j] # "none" /\ expiresAt'[j] = expiresAt[j]
            /\ StatusOf(j)' = "suspended" =>
                 StatusOf(j) = "suspended" \/ (park[j] = "none" /\ ~Overdue(j, sweep.now)')
      <4>1. park[id] = "none" /\ ~Overdue(id, sweep.now)'
        BY <3>2, <3>3
      <4>2. \A j \in Ids \ {id} : StatusOf(j)' = StatusOf(j) /\ expiresAt'[j] = expiresAt[j]
        BY <3>2 DEF StatusOf
      <4> QED
        BY <2>1, <4>1, <4>2
    <3> QED
      BY <3>4
  <2>3. ASSUME ~ParkCreate(id)
        PROVE  \A j \in Ids :
               /\ park[j] # "none" => park'[j] # "none" /\ expiresAt'[j] = expiresAt[j]
               /\ StatusOf(j)' = "suspended" =>
                    StatusOf(j) = "suspended" \/ (park[j] = "none" /\ ~Overdue(j, sweep.now)')
    <3>1. expiresAt' = expiresAt
      BY <1>1, <2>3 DEF ParkStep, ParkAnnounce, ParkCancelled, ParkDeny, ParkFault, Fault,
                        ClaimExpiry, MarkDenied, Transition
    <3>2. \A j \in Ids : StatusOf(j)' = "suspended" => StatusOf(j) = "suspended"
      <4>1. CASE ParkAnnounce(id) \/ ParkFault(id)
        BY <4>1 DEF ParkAnnounce, ParkFault, Fault, StatusOf
      <4>2. CASE ParkCancelled(id)
        BY <4>2, CasEffect DEF ParkCancelled, Swapped
      <4>3. CASE ParkDeny(id)
        BY <4>3, CasEffect DEF ParkDeny, Swapped
      <4> QED
        BY <1>1, <2>3, <4>1, <4>2, <4>3 DEF ParkStep
    <3>3. \A j \in Ids :
            /\ park[j] # "none" => park'[j] # "none" /\ expiresAt'[j] = expiresAt[j]
            /\ StatusOf(j)' = "suspended" =>
                 StatusOf(j) = "suspended" \/ (park[j] = "none" /\ ~Overdue(j, sweep.now)')
      BY <2>1, <3>1, <3>2
    <3> QED
      BY <3>3
  <2>4. \A j \in Ids :
          /\ park[j] # "none" => park'[j] # "none" /\ expiresAt'[j] = expiresAt[j]
          /\ StatusOf(j)' = "suspended" =>
               StatusOf(j) = "suspended" \/ (park[j] = "none" /\ ~Overdue(j, sweep.now)')
    BY <2>2, <2>3
  <2> QED
    BY <2>1, <2>4, PassFrame
<1>2. ASSUME NEW r \in Resumers, ResumeStep(r) \/ ResumeFault(r)
      PROVE  PassInv'
  <2>1. /\ UNCHANGED <<sweep, deploy, park, expiresAt>>
        /\ faults' = faults \/ faults' = faults + 1
    <3> USE DEF MarkResumed, ClaimExpiry, MarkExpired, MarkDenied, Transition, RecordTerminal
    <3>1. CASE \/ (\E id \in Ids : ResumeRead(r, id)) \/ ResumeRefused(r) \/ ResumeSettled(r)
               \/ ResumeInvalid(r) \/ ResumeFault(r)
      BY <3>1 DEF ResumeRead, ResumeRefused, ResumeSettled, ResumeInvalid, ResumeFault, Fault
    <3>2. CASE ResumeOverdue(r) \/ ResumeIntact(r)
      BY <3>2 DEF ResumeOverdue, ClaimOrReply, ResumeIntact
    <3>5. CASE ResumeChanged(r)
      BY <3>5 DEF ResumeChanged, ClaimOrReply
    <3>3. CASE ResumeClaim(r) \/ ResumeLate(r) \/ ResumeTell(r) \/ ResumeRun(r)
      BY <3>3 DEF ResumeClaim, ResumeLate, ResumeTell, ResumeRun, ClaimOrReply
    <3>4. CASE ResumeBroken(r) \/ ResumeEnd(r) \/ ResumeNotify(r) \/ ResumeFinalize(r)
      BY <3>4 DEF ResumeBroken, ResumeEnd, ResumeNotify, ResumeFinalize
    <3> QED
      BY <1>2, <3>1, <3>2, <3>3, <3>4, <3>5 DEF ResumeStep
  <2>2. \A j \in Ids : StatusOf(j)' = "suspended" => StatusOf(j) = "suspended"
    BY <1>2, CallSuspendsNobody
  <2>3. sweep' = sweep /\ deploy' = deploy /\ (faults' = 0 => faults = 0)
    BY <1>0, <2>1
  <2>4. \A j \in Ids :
          /\ park[j] # "none" => park'[j] # "none" /\ expiresAt'[j] = expiresAt[j]
          /\ StatusOf(j)' = "suspended" =>
               StatusOf(j) = "suspended" \/ (park[j] = "none" /\ ~Overdue(j, sweep.now)')
    BY <2>1, <2>2
  <2> QED
    BY <2>3, <2>4, PassFrame
<1>3. CASE TimePasses \/ Stop \/ UNCHANGED vars
  <2>1. UNCHANGED <<sweep, deploy, park, expiresAt, records, faults>>
    BY <1>3 DEF TimePasses, Tick, Stop, vars
  <2> QED
    BY <2>1, PassFrame DEF StatusOf
<1>4. CASE Start \/ Crash \/ Exit
  <2>1. sweep'.pc \in {"boot", "idle"} /\ sweep'.cursor = Never /\ sweep'.item = Never
    BY <1>4 DEF Start, Crash, Exit, Forget, IdleSweep
  <2> QED
    BY <2>1, NoPass
<1> QED
  BY <1>1, <1>2, <1>3, <1>4

(***************************************************************************)
(* After a record that is settled, claimed or not this process's to        *)
(* notify: the rest of the page and what lies beyond it are still ahead.   *)
(***************************************************************************)
LEMMA VisitMissesNobody ==
  ASSUME TypeInv, OneFateInv, PassInv, NEW visited \in sweep.due,
         sweep.pc \in {"batch", "expired"}, sweep' = AfterVisit(visited),
         UNCHANGED <<expiresAt, deploy, park>>, faults' = 0 => faults = 0,
         \A id \in Ids : StatusOf(id)' = "suspended" => StatusOf(id) = "suspended",
         faults' = 0 => ~(StatusOf(visited)' = "suspended" /\ deploy[visited] # "missing")
  PROVE  /\ PassInv'
         /\ (faults' = 0 /\ sweep'.pc \in {"idle", "report"}) =>
              \A id \in Ids : StatusOf(id)' = "suspended" /\ Overdue(id, sweep.now)
                                => deploy[id] = "missing"
<1>1. visited \in Ids /\ sweep.due \subseteq Ids /\ visited # Never
  BY DEF TypeInv, TypeOK, SweepState
<1>2. park[visited] # "none"
  BY <1>1 DEF OneFateInv, UnparkedIsUnknown
<1>3. ASSUME faults' = 0, NEW id \in Ids, StatusOf(id)' = "suspended",
             Overdue(id, sweep.now), deploy[id] # "missing"
      PROVE  id \in Rest(visited) \/ (sweep.full /\ \A j \in sweep.due : Before(j, id))
  <2>1. Notifiable(id) /\ id # visited
    BY <1>3 DEF Notifiable
  <2>2. LiesAhead(id)
    BY <1>3, <2>1, PassParts DEF PassPcs
  <2> QED
    BY <2>1, <2>2 DEF LiesAhead, Rest
<1>4. CASE Rest(visited) # {}
  <2>1. /\ sweep'.pc = "batch" /\ sweep'.due = Rest(visited) /\ sweep'.cursor = visited
        /\ sweep'.item = Never /\ sweep'.now = sweep.now /\ sweep'.full = sweep.full
    BY <1>4 DEF AfterVisit, TypeInv, TypeOK, SweepState
  <2>2. ASSUME faults' = 0, NEW id \in Ids, Notifiable(id)'
        PROVE  LiesAhead(id)'
    <3>1. StatusOf(id)' = "suspended" /\ Overdue(id, sweep.now) /\ deploy[id] # "missing"
      BY <2>1, <2>2 DEF Notifiable, Overdue
    <3>2. id \in Rest(visited) \/ (sweep.full /\ \A j \in sweep.due : Before(j, id))
      BY <1>3, <2>2, <3>1
    <3>3. \A j \in sweep.due : Before(j, id)' <=> Before(j, id)
      BY DEF Before
    <3> QED
      BY <2>1, <3>2, <3>3 DEF LiesAhead, Rest
  <2> QED
    BY <1>2, <2>1, <2>2, PassParts
<1>5. CASE Rest(visited) = {} /\ sweep.full
  <2>1. /\ sweep'.pc = "scan" /\ sweep'.cursor = visited
        /\ sweep'.item = Never /\ sweep'.now = sweep.now
    BY <1>5 DEF AfterVisit, TypeInv, TypeOK, SweepState
  <2>2. ASSUME faults' = 0, NEW id \in Ids, Notifiable(id)'
        PROVE  LiesAhead(id)'
    <3>1. StatusOf(id)' = "suspended" /\ Overdue(id, sweep.now) /\ deploy[id] # "missing"
      BY <2>1, <2>2 DEF Notifiable, Overdue
    <3>2. Before(visited, id)
      BY <1>3, <1>5, <2>2, <3>1
    <3>3. Before(visited, id)'
      BY <3>2 DEF Before
    <3> QED
      BY <2>1, <3>3 DEF LiesAhead
  <2> QED
    BY <1>2, <2>1, <2>2, PassParts
<1>6. CASE Rest(visited) = {} /\ ~sweep.full
  <2>1. sweep' = PassOver
    BY <1>6 DEF AfterVisit
  <2>2. /\ sweep'.pc \in {"idle", "report"} /\ sweep'.cursor = Never /\ sweep'.item = Never
    BY <2>1 DEF PassOver, IdleSweep
  <2>3. PassInv'
    BY <2>2, NoPass
  <2> QED
    BY <1>3, <1>6, <2>3
<1> QED
  BY <1>4, <1>5, <1>6

(***************************************************************************)
(* The next page: what is due is on it or, if it is full, beyond it; and   *)
(* when there is no next page nothing was due.                             *)
(***************************************************************************)
LEMMA ScanMissesNobody ==
  ASSUME TypeInv, PassInv, NobodyIsForgottenInv, SweepScan
  PROVE  /\ PassInv'
         /\ (faults' = 0 /\ ~Stopping /\ sweep'.pc \in {"idle", "report"}) =>
              \A id \in Ids : StatusOf(id)' = "suspended" /\ Overdue(id, sweep.now)
                                => deploy[id] = "missing"
<1> USE DEF storeVars, host, world
<1> DEFINE page == FindExpired(sweep.now, SweepBatch, sweep.cursor)
<1>1. /\ sweep.pc = "scan" /\ UNCHANGED <<records, expiresAt, deploy, park, faults>>
      /\ sweep' = IF Stopping \/ page = {} THEN PassOver
                  ELSE [sweep EXCEPT !.pc = "batch", !.due = page,
                                     !.full = Cardinality(page) >= SweepBatch]
  BY DEF SweepScan
<1>2. sweep.item = Never
  BY <1>1 DEF NobodyIsForgottenInv, ItemIsAClaim
<1>3. ASSUME faults = 0, NEW id \in Ids, Notifiable(id)
      PROVE  id \in page \/ (Cardinality(page) >= SweepBatch /\ \A j \in page : Before(j, id))
  <2>1. LiesAhead(id)
    BY <1>1, <1>3, PassParts DEF PassPcs
  <2>2. id \in Due(sweep.now, sweep.cursor)
    BY <1>1, <1>3, <2>1 DEF LiesAhead, Due, Notifiable
  <2>3. StoreTypeOK /\ SweepBatch \in Nat \ {0}
    BY BatchAssumption DEF TypeInv, TypeOK
  <2> QED
    BY <2>2, <2>3, PageIsPrefix
<1>4. page = {} => ~(Cardinality(page) >= SweepBatch)
  BY BatchAssumption, FS_EmptySet
<1> HIDE DEF page
<1>5. CASE Stopping \/ page = {}
  <2>1. sweep'.pc \in {"idle", "report"} /\ sweep'.cursor = Never /\ sweep'.item = Never
    BY <1>1, <1>5 DEF PassOver, IdleSweep
  <2>2. PassInv'
    BY <2>1, NoPass
  <2>3. ASSUME faults' = 0, ~Stopping, NEW id \in Ids, StatusOf(id)' = "suspended",
               Overdue(id, sweep.now)
        PROVE  deploy[id] = "missing"
    <3>1. StatusOf(id) = "suspended"
      BY <1>1, <2>3 DEF StatusOf
    <3> QED
      BY <1>1, <1>3, <1>4, <1>5, <2>3, <3>1 DEF Notifiable
  <2> QED
    BY <2>2, <2>3
<1>6. CASE ~(Stopping \/ page = {})
  <2>1. /\ sweep'.pc = "batch" /\ sweep'.due = page /\ sweep'.cursor = sweep.cursor
        /\ sweep'.item = Never /\ sweep'.now = sweep.now
        /\ sweep'.full = (Cardinality(page) >= SweepBatch)
    BY <1>1, <1>2, <1>6 DEF TypeInv, TypeOK, SweepState
  <2>2. ASSUME faults' = 0, NEW id \in Ids, Notifiable(id)'
        PROVE  LiesAhead(id)'
    <3>1. Notifiable(id)
      BY <1>1, <2>1, <2>2 DEF Notifiable, StatusOf, Overdue
    <3>2. id \in page \/ (Cardinality(page) >= SweepBatch /\ \A j \in page : Before(j, id))
      BY <1>1, <1>3, <2>2, <3>1
    <3>3. \A j \in page : Before(j, id)' <=> Before(j, id)
      BY <1>1 DEF Before
    <3> QED
      BY <2>1, <3>2, <3>3 DEF LiesAhead
  <2>3. sweep.cursor # Never => park[sweep.cursor] # "none"
    BY PassParts
  <2> QED
    BY <1>1, <2>1, <2>2, <2>3, PassParts
<1> QED
  BY <1>5, <1>6

(***************************************************************************)
(* Every step of the sweeper keeps its pass complete.                      *)
(***************************************************************************)
LEMMA SweepMissesNobody ==
  ASSUME TypeInv, OneFateInv, PassInv, NobodyIsForgottenInv,
         SweepStep \/ SweepFault \/ SweepPurgeFault \/ SweepAbort
  PROVE  /\ PassInv'
         /\ (PassEnds /\ faults' = 0 /\ ~Stopping) =>
              \A id \in Ids : StatusOf(id)' = "suspended" /\ Overdue(id, sweep.now)
                                => deploy[id] = "missing"
<1> USE DEF storeVars, world, host, actorVars
<1> DEFINE Complete == \A id \in Ids : StatusOf(id)' = "suspended" /\ Overdue(id, sweep.now)
                                         => deploy[id] = "missing"
<1>0. /\ faults \in Nat /\ sweep \in SweepState
      /\ sweep.pc \notin {"expiring", "expired"} => sweep.item = Never
  BY DEF TypeInv, TypeOK, NobodyIsForgottenInv, ItemIsAClaim
<1> HIDE DEF Complete
<1>1. CASE SweepBegin \/ SweepReport \/ SweepHalt \/ SweepAbort
  <2>1. sweep'.pc \in {"idle", "report", "purge"} /\ sweep'.cursor = Never /\ sweep'.item = Never
    <3>1. CASE SweepBegin
      BY <3>1 DEF SweepBegin, IdleSweep
    <3>2. CASE SweepReport
      BY <3>2 DEF SweepReport, IdleSweep, PassOver
    <3>3. CASE SweepHalt
      BY <3>3 DEF SweepHalt, IdleSweep, PassOver
    <3>4. CASE SweepAbort
      BY <3>4 DEF SweepAbort, IdleSweep, PassOver
    <3> QED
      BY <1>1, <3>1, <3>2, <3>3, <3>4
  <2>2. PassEnds => ~(faults' = 0 /\ ~Stopping)
    <3>1. SweepBegin => sweep'.pc = "purge"
      BY DEF SweepBegin, IdleSweep
    <3>2. SweepReport => sweep.pc = "report"
      BY DEF SweepReport
    <3>3. SweepHalt => Stopping
      BY DEF SweepHalt
    <3>4. SweepAbort => faults' # 0
      BY <1>0 DEF SweepAbort, Fault
    <3> QED
      BY <1>1, <3>1, <3>2, <3>3, <3>4 DEF PassEnds
  <2> QED
    BY <2>1, <2>2, NoPass
<1>2. CASE SweepPurge \/ SweepPurgeFault
  <2>1. sweep.pc = "purge" /\ sweep' = [sweep EXCEPT !.pc = "scan"]
    BY <1>2 DEF SweepPurge, SweepPurgeFault
  <2>2. sweep'.pc = "scan" /\ sweep'.cursor = Never /\ sweep'.item = Never
    BY <1>0, <2>1, PassParts DEF SweepState
  <2> QED
    BY <2>1, <2>2, PassParts DEF LiesAhead, PassEnds
<1>3. CASE SweepScan
  BY <1>3, ScanMissesNobody DEF PassEnds
<1>4. ASSUME NEW visited \in sweep.due, sweep.pc \in {"batch", "expired"},
             sweep' = AfterVisit(visited),
             UNCHANGED <<expiresAt, deploy, park>>, faults' = 0 => faults = 0,
             \A id \in Ids : StatusOf(id)' = "suspended" => StatusOf(id) = "suspended",
             faults' = 0 => ~(StatusOf(visited)' = "suspended" /\ deploy[visited] # "missing")
      PROVE  PassInv' /\ (PassEnds /\ faults' = 0 => Complete)
  BY <1>4, VisitMissesNobody DEF PassEnds, Complete
<1>5. CASE SweepSkip
  <2>1. PICK id \in Ids : /\ Foremost(id, sweep.due) /\ deploy[id] = "missing"
                          /\ sweep' = AfterVisit(id)
    BY <1>5 DEF SweepSkip
  <2>2. sweep.pc = "batch" /\ UNCHANGED <<expiresAt, deploy, park, records, faults>>
    BY <1>5 DEF SweepSkip
  <2> QED
    BY <1>4, <2>1, <2>2 DEF Foremost, StatusOf, Complete
<1>6. CASE SweepClaim
  <2>1. PICK id \in Ids : /\ Foremost(id, sweep.due) /\ ClaimExpiry(id)
                          /\ sweep' = IF Wins(id, "suspended")
                                      THEN [sweep EXCEPT !.pc = "expiring", !.item = id]
                                      ELSE AfterVisit(id)
    BY <1>6 DEF SweepClaim
  <2>2. /\ sweep.pc = "batch" /\ UNCHANGED <<expiresAt, deploy, park, faults>>
        /\ id \in sweep.due
    BY <1>6, <2>1 DEF SweepClaim, ClaimExpiry, Transition, Foremost
  <2>3. Swapped(id, "suspended", "expiring")
    BY <2>1, CasEffect
  <2>4. \A j \in Ids : StatusOf(j)' = "suspended" => StatusOf(j) = "suspended" /\ j # id
    BY <2>3 DEF Swapped
  <2>5. CASE StatusOf(id) # "suspended"
    <3>1. sweep' = AfterVisit(id)
      BY <2>1, <2>5 DEF Wins
    <3> QED
      BY <1>4, <2>2, <2>4, <3>1 DEF Complete
  <2>6. CASE StatusOf(id) = "suspended"
    <3>1. /\ sweep'.pc = "expiring" /\ sweep'.item = id /\ sweep'.due = sweep.due
          /\ sweep'.cursor = sweep.cursor /\ sweep'.now = sweep.now /\ sweep'.full = sweep.full
      BY <1>0, <2>1, <2>6 DEF Wins, SweepState
    <3>2. ASSUME faults' = 0, NEW j \in Ids, Notifiable(j)'
          PROVE  LiesAhead(j)'
      <4>1. Notifiable(j)
        BY <2>2, <2>4, <3>1, <3>2 DEF Notifiable, Overdue
      <4>2. LiesAhead(j)
        BY <2>2, <3>2, <4>1, PassParts DEF PassPcs
      <4> QED
        BY <2>2, <3>1, <4>2 DEF LiesAhead, Before
    <3>3. StatusOf(id)' # "suspended"
      BY <2>4
    <3>4. StatusOf(sweep.item)' # "suspended"
      BY <3>1, <3>3 DEF StatusOf
    <3>5. sweep.cursor # Never => park[sweep.cursor] # "none"
      BY PassParts
    <3>6. PassInv'
      BY <2>2, <3>1, <3>2, <3>4, <3>5, PassParts
    <3> QED
      BY <3>1, <3>6 DEF PassEnds
  <2> QED
    BY <2>5, <2>6
<1>7. CASE SweepNotify
  <2>1. sweep.pc = "expiring" /\ UNCHANGED <<records, expiresAt, deploy, park, faults>>
    BY <1>7 DEF SweepNotify
  <2>2. /\ sweep'.pc = "expired" /\ sweep'.item = sweep.item /\ sweep'.due = sweep.due
        /\ sweep'.cursor = sweep.cursor /\ sweep'.now = sweep.now /\ sweep'.full = sweep.full
    BY <1>0, <1>7 DEF SweepNotify, SweepState
  <2>3. ASSUME faults' = 0, NEW j \in Ids, Notifiable(j)'
        PROVE  LiesAhead(j)'
    <3>1. Notifiable(j)
      BY <2>1, <2>2, <2>3 DEF Notifiable, Overdue, StatusOf
    <3>2. LiesAhead(j)
      BY <2>1, <2>3, <3>1, PassParts DEF PassPcs
    <3> QED
      BY <2>1, <2>2, <3>2 DEF LiesAhead, Before
  <2>4. /\ sweep.cursor # Never => park[sweep.cursor] # "none"
        /\ sweep.item # Never => sweep.item \in sweep.due /\ StatusOf(sweep.item) # "suspended"
    BY PassParts
  <2>5. PassInv'
    BY <2>1, <2>2, <2>3, <2>4, PassParts DEF StatusOf
  <2> QED
    BY <2>2, <2>5 DEF PassEnds
<1>8. CASE SweepFinalize
  <2>1. PICK id \in Ids : id = sweep.item
    BY <1>8 DEF SweepFinalize, TypeInv, ActorsKnowTheirId
  <2>2. /\ sweep.pc = "expired" /\ UNCHANGED <<expiresAt, deploy, park, faults>>
        /\ MarkExpired(id) /\ sweep' = AfterVisit(id)
    BY <1>8, <2>1 DEF SweepFinalize, MarkExpired, Transition
  <2>3. id \in sweep.due /\ StatusOf(id) # "suspended"
    BY <2>1, PassParts
  <2>4. \A j \in Ids : StatusOf(j)' = "suspended" => StatusOf(j) = "suspended"
    BY <2>2, CasEffect DEF Swapped
  <2> QED
    BY <1>4, <2>2, <2>3, <2>4 DEF Complete
<1>9. CASE SweepFault
  <2>1. /\ UNCHANGED <<expiresAt, deploy, park, records>> /\ faults' # 0
    BY <1>0, <1>9 DEF SweepFault, Fault
  <2>2. PICK id \in Ids : /\ id \in sweep.due /\ sweep.pc \in {"batch", "expired"}
                           /\ sweep' = AfterVisit(id)
    <3>1. sweep.pc = "expired" => sweep.item \in Ids /\ sweep.item \in sweep.due
      BY PassParts DEF TypeInv, ActorsKnowTheirId
    <3> QED
      BY <1>9, <3>1 DEF SweepFault, Foremost
  <2> QED
    BY <1>4, <2>1, <2>2 DEF StatusOf, Complete
<1> QED
  BY <1>1, <1>2, <1>3, <1>5, <1>6, <1>7, <1>8, <1>9 DEF SweepStep, Complete

(***************************************************************************)
(* Nothing lies behind a pass, in any reachable state.                     *)
(***************************************************************************)
LEMMA PassInvariant == Spec => []PassInv
<1>1. Init => PassInv
  BY PassParts DEF Init, IdleSweep, PassPcs
<1>2. /\ TypeInv /\ OneFateInv /\ NobodyIsForgottenInv /\ PassInv
      /\ [Next]_vars
      => PassInv'
  BY OthersKeepThePass, SweepMissesNobody DEF Next
<1> QED
  BY <1>1, <1>2, TypeInvariant, OneFateInvariant, NobodyIsForgottenInvariant, PTL DEF Spec

(***************************************************************************)
(* A pass misses nobody: when one ends of its own accord, every overdue    *)
(* record its process can notify has been taken, for every size of a page  *)
(* and every number of pages, whatever happens to the records meanwhile.   *)
(***************************************************************************)
THEOREM PassesAreComplete == Spec => PassMissesNobody
<1>1. /\ TypeInv /\ OneFateInv /\ NobodyIsForgottenInv /\ PassInv
      /\ [Next]_vars
      => [(PassEnds /\ faults' = 0 /\ Up' /\ ~Stopping) =>
            \A id \in Ids : StatusOf(id)' = "suspended" /\ Overdue(id, sweep.now)
                              => deploy[id] = "missing"]_vars
  <2> SUFFICES ASSUME TypeInv, OneFateInv, NobodyIsForgottenInv, PassInv, Next,
                      PassEnds, faults' = 0, Up', ~Stopping
      PROVE  \A id \in Ids : StatusOf(id)' = "suspended" /\ Overdue(id, sweep.now)
                               => deploy[id] = "missing"
    OBVIOUS
  <2> USE DEF host, storeVars, world, actorVars
  <2>1. sweep' # sweep /\ sweep'.pc # "boot"
    BY DEF PassEnds
  <2>2. ~(Start \/ Crash \/ Exit)
    BY <2>1 DEF Start, Crash, Exit, Forget, IdleSweep, Up
  <2>3. \/ SweepStep \/ SweepFault \/ SweepPurgeFault \/ SweepAbort
    BY <2>1, <2>2
    DEF Next, ParkStep, ParkCreate, ParkAnnounce, ParkCancelled, ParkDeny, ParkFault, Fault,
        ResumeStep, ResumeRead, ResumeRefused, ResumeSettled, ResumeOverdue, ResumeChanged,
        ClaimOrReply, ResumeIntact, ResumeInvalid, ResumeClaim, ResumeLate, ResumeTell,
        ResumeRun, ResumeBroken, ResumeEnd, ResumeNotify, ResumeFinalize, ResumeFault,
        TimePasses, Stop
  <2> QED
    BY <2>3, SweepMissesNobody
<1> QED
  BY <1>1, TypeInvariant, OneFateInvariant, NobodyIsForgottenInvariant, PassInvariant, PTL
  DEF Spec, PassMissesNobody
=============================================================================

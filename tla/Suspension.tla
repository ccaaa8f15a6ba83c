----------------------------- MODULE Suspension -----------------------------
(***************************************************************************)
(* The life of parked exchanges: the park (park.ts), the resume ingress    *)
(* (revive.ts), the sweeper (sweeper.ts) and the process that hosts them   *)
(* and may crash, over one durable SuspensionStore.                        *)
(*                                                                         *)
(* The runtime is single threaded, so an action is the code between two    *)
(* awaits: the pc of an actor names the await it is suspended at, and the  *)
(* snapshot it read before that await is all it knows of the record.       *)
(***************************************************************************)
EXTENDS SuspensionStore

CONSTANTS
  Resumers,    \* the concurrent calls of the resume ingress
  Lease,       \* expiryLease: how long a claim stands before it is released
  Retention,   \* how long a settled record is kept, or Never
  Cadence,     \* PURGE_CADENCE_MS
  SweepBatch,  \* SWEEP_BATCH: how many records a page holds
  Deploys,     \* what a process may find of a parked route: see deploy
  MaxRestarts, \* bound on crashes and stops
  MaxFaults,   \* bound on store operations that throw
  Prompt       \* TRUE: no delivery outlives the lease of its claim

ASSUME ResumersAssumption == IsFiniteSet(Resumers)
ASSUME LeaseAssumption == Lease \in Nat \ {0}
ASSUME RetentionAssumption == Retention \in Nat \union {Never}
ASSUME CadenceAssumption == Cadence \in Nat
ASSUME BatchAssumption == SweepBatch \in Nat \ {0}
ASSUME DeploysAssumption == Deploys \subseteq {"same", "changed", "missing"}
ASSUME BoundsAssumption == MaxRestarts \in Nat /\ MaxFaults \in Nat
ASSUME PromptAssumption == Prompt \in BOOLEAN

VARIABLES
  process,     \* "down", "booting" (routes started, boot scan to finish),
               \* "serving" (the sweep interval is armed) or "stopping"
  deploy,      \* per id, what the running process has of the parked route:
               \* its continuation as parked, a changed one, or no such route
  park,        \* per id, how far the .suspend() that creates it got
  resume,      \* per resumer, its pc, the id it answers and its snapshot
  sweep,       \* the sweeper: its pc and the locals of the pass
  lastPurgeAt, \* when this process last purged; Never forces a purge
  restarts,    \* crashes and stops so far
  faults       \* store operations that threw so far

(***************************************************************************)
(* What the outside world saw, kept for the properties.                    *)
(***************************************************************************)
VARIABLES
  runs,        \* per id, continuations begun
  notices,     \* per id, expiries its route was told of (RC5047)
  refusals,    \* per id, changed continuations its route was told of (RC5048)
  replies,     \* the acknowledgments resume calls returned
  reported     \* the ids a boot summary reported as stranded

actorVars == <<park, resume, sweep>>
world == <<runs, notices, refusals, replies, reported>>
host == <<process, deploy, restarts>>
vars == <<storeVars, host, actorVars, lastPurgeAt, faults, world>>

NoSnapshot == "none"
NotRecorded == "not recorded"

ResumePcs == {"idle", "authorizing", "validating", "won", "telling",
              "running", "expiring", "expired", "refusing", "refused"}
SweepPcs == {"boot", "idle", "purge", "scan", "batch", "expiring", "expired", "report"}
ParkPcs == {"none", "created", "denying", "announced", "cancelled", "lost"}

IdleResume == [pc |-> "idle", id |-> Never, snapshot |-> AbsentRecord]
IdleSweep == [pc |-> "idle", boot |-> FALSE, now |-> 0, due |-> {}, full |-> FALSE,
              cursor |-> Never, item |-> Never]

Up == process # "down"
Admits == process \in {"booting", "serving"}
Stopping == process = "stopping"

(***************************************************************************)
(* The claim an actor believes it holds: it won claimExpiry and has not    *)
(* finalized it yet.                                                       *)
(***************************************************************************)
ClaimPcs == {"expiring", "expired", "refusing", "refused"}

Holders(id) ==
  {r \in Resumers : resume[r].id = id /\ resume[r].pc \in ClaimPcs}
  \union (IF sweep.item = id THEN {"sweeper"} ELSE {})
  \union (IF park[id] = "denying" THEN {"park"} ELSE {})

(***************************************************************************)
(* A claim taken now can still be released before the clock stops.         *)
(***************************************************************************)
CanHeal == clock + Lease <= MaxTime

-----------------------------------------------------------------------------
(* The park: parkExchange and denyParkedOnCancellation. *)

GoPark(id, pc) == park' = [park EXCEPT ![id] = pc]

(***************************************************************************)
(* store.create commits; an exchange parks under each id at most once,     *)
(* because the sequence header advances with every park.                   *)
(***************************************************************************)
ParkCreate(id) ==
  /\ Up
  /\ park[id] = "none"
  /\ \E ttl \in Ttls : Create(id, ttl)
  /\ GoPark(id, "created")
  /\ UNCHANGED <<clock, host, resume, sweep, lastPurgeAt, faults, world>>

(***************************************************************************)
(* The token is minted and handed out; only now can anyone resume.         *)
(***************************************************************************)
ParkAnnounce(id) ==
  /\ Up
  /\ park[id] = "created"
  /\ GoPark(id, "announced")
  /\ UNCHANGED <<storeVars, host, resume, sweep, lastPurgeAt, faults, world>>

(* A mutant: the denial after the claim is forgotten. *)
ParkCancelledUndenied(id) ==
  /\ Up
  /\ park[id] = "created"
  /\ ClaimExpiry(id)
  /\ GoPark(id, "cancelled")
  /\ UNCHANGED <<clock, host, resume, sweep, lastPurgeAt, faults, world>>

(***************************************************************************)
(* The run was cancelled while create was awaited: claim, then deny, with  *)
(* no re-ask.  Losing the claim leaves the record to whoever won it.       *)
(***************************************************************************)
ParkCancelled(id) ==
  /\ Up
  /\ park[id] = "created"
  /\ ClaimExpiry(id)
  /\ GoPark(id, IF Wins(id, "suspended") THEN "denying" ELSE "cancelled")
  /\ UNCHANGED <<clock, host, resume, sweep, lastPurgeAt, faults, world>>

ParkDeny(id) ==
  /\ Up
  /\ park[id] = "denying"
  /\ MarkDenied(id)
  /\ GoPark(id, "cancelled")
  /\ UNCHANGED <<clock, host, resume, sweep, lastPurgeAt, faults, world>>

ParkStep(id) ==
  ParkCreate(id) \/ ParkAnnounce(id) \/ ParkCancelled(id) \/ ParkDeny(id)

-----------------------------------------------------------------------------
(* The resume ingress: reviveSuspension. *)

Go(r, pc) == resume' = [resume EXCEPT ![r] = [@ EXCEPT !.pc = pc, !.snapshot = AbsentRecord]]

Return(r) == resume' = [resume EXCEPT ![r] = IdleResume]

(***************************************************************************)
(* settled: the reply of a call that finds the record resumed is the       *)
(* cached outcome; one that finds it expired, denied or claimed throws.    *)
(***************************************************************************)
Acknowledge(id, status, outcome) ==
  replies' = replies \union {[id |-> id, status |-> status, outcome |-> outcome]}

(* Two mutants: the reply invents a missing outcome, or hands it out bare. *)
ReplyInvented(r, record) ==
  /\ Return(r)
  /\ IF record.status = "resumed"
     THEN Acknowledge(resume[r].id, "duplicate",
                      IF record.terminal = NoOutcome THEN "completed" ELSE record.terminal)
     ELSE UNCHANGED replies

ReplyBare(r, record) ==
  /\ Return(r)
  /\ IF record.status = "resumed"
     THEN Acknowledge(resume[r].id, "duplicate", record.terminal)
     ELSE UNCHANGED replies

ReplySettled(r, record) ==
  /\ Return(r)
  /\ IF record.status = "resumed"
     THEN Acknowledge(resume[r].id, "duplicate",
                      IF record.terminal = NoOutcome THEN NotRecorded ELSE record.terminal)
     ELSE UNCHANGED replies

(***************************************************************************)
(* The token verifies and the record is read.                              *)
(***************************************************************************)
ResumeRead(r, id) ==
  /\ Admits
  /\ resume[r].pc = "idle"
  /\ park[id] = "announced"
  /\ resume' = [resume EXCEPT ![r] =
       [pc |-> "authorizing", id |-> id, snapshot |-> records[id]]]
  /\ UNCHANGED <<storeVars, host, park, sweep, lastPurgeAt, faults, world>>

(***************************************************************************)
(* RC5055, RC5056, or RC5046: a credential of another call, a principal    *)
(* the route's hook refuses, a record the store does not hold, a route     *)
(* this process does not have.  Nothing is touched.                        *)
(***************************************************************************)
ResumeRefused(r) ==
  /\ Up
  /\ resume[r].pc = "authorizing"
  /\ Return(r)
  /\ UNCHANGED <<storeVars, host, park, sweep, lastPurgeAt, faults, world>>

(***************************************************************************)
(* The hook accepted and the snapshot was already settled or claimed.      *)
(***************************************************************************)
ResumeSettled(r) ==
  /\ Up
  /\ resume[r].pc = "authorizing"
  /\ resume[r].snapshot.status \notin {"absent", "suspended"}
  /\ ReplySettled(r, resume[r].snapshot)
  /\ UNCHANGED <<storeVars, host, park, sweep, lastPurgeAt, faults,
                 runs, notices, refusals, reported>>

Accepted(r) ==
  /\ Up
  /\ resume[r].pc = "authorizing"
  /\ resume[r].snapshot.status = "suspended"
  /\ deploy[resume[r].id] # "missing"

(***************************************************************************)
(* claimExpiry, by a call that found the deadline passed or the            *)
(* continuation changed: the winner tells the route, a loser reports what  *)
(* the winner did.                                                         *)
(***************************************************************************)
ClaimOrReply(r, pc) ==
  /\ ClaimExpiry(resume[r].id)
  /\ IF Wins(resume[r].id, "suspended")
     THEN Go(r, pc) /\ UNCHANGED replies
     ELSE ReplySettled(r, records[resume[r].id])
  /\ UNCHANGED <<clock, host, park, sweep, lastPurgeAt, faults,
                 runs, notices, refusals, reported>>

ResumeOverdue(r) ==
  /\ Accepted(r)
  /\ Overdue(resume[r].id, clock)
  /\ ClaimOrReply(r, "expiring")

ResumeChanged(r) ==
  /\ Accepted(r)
  /\ ~Overdue(resume[r].id, clock)
  /\ deploy[resume[r].id] = "changed"
  /\ ClaimOrReply(r, "refusing")

ResumeIntact(r) ==
  /\ Accepted(r)
  /\ ~Overdue(resume[r].id, clock)
  /\ deploy[resume[r].id] = "same"
  /\ Go(r, "validating")
  /\ UNCHANGED <<storeVars, host, park, sweep, lastPurgeAt, faults, world>>

(***************************************************************************)
(* RC5049: the payload fails the schema and the record stays resumable.    *)
(***************************************************************************)
ResumeInvalid(r) ==
  /\ Up
  /\ resume[r].pc = "validating"
  /\ Return(r)
  /\ UNCHANGED <<storeVars, host, park, sweep, lastPurgeAt, faults, world>>

ResumeClaim(r) ==
  /\ Up
  /\ resume[r].pc = "validating"
  /\ MarkResumed(resume[r].id)
  /\ IF Wins(resume[r].id, "suspended")
     THEN Go(r, "won") /\ UNCHANGED replies
     ELSE ReplySettled(r, records[resume[r].id])
  /\ UNCHANGED <<clock, host, park, sweep, lastPurgeAt, faults,
                 runs, notices, refusals, reported>>

(***************************************************************************)
(* The deadline passed while the payload was validated: the failure is     *)
(* recorded first and the route told after.                                *)
(***************************************************************************)
ResumeLate(r) ==
  /\ Up
  /\ resume[r].pc = "won"
  /\ Overdue(resume[r].id, clock)
  /\ RecordTerminal(resume[r].id, "overdue")
  /\ Go(r, "telling")
  /\ UNCHANGED <<clock, host, park, sweep, lastPurgeAt, faults, world>>

ResumeTell(r) ==
  /\ Up
  /\ resume[r].pc = "telling"
  /\ notices' = [notices EXCEPT ![resume[r].id] = @ + 1]
  /\ Return(r)
  /\ UNCHANGED <<storeVars, host, park, sweep, lastPurgeAt, faults,
                 runs, refusals, replies, reported>>

(* A mutant: the deadline is not read again after markResumed. *)
ResumeRunUnchecked(r) ==
  /\ Up
  /\ resume[r].pc = "won"
  /\ runs' = [runs EXCEPT ![resume[r].id] = @ + 1]
  /\ Go(r, "running")
  /\ UNCHANGED <<storeVars, host, park, sweep, lastPurgeAt, faults,
                 notices, refusals, replies, reported>>

(***************************************************************************)
(* The exchange is rebuilt and its continuation begins.                    *)
(***************************************************************************)
ResumeRun(r) ==
  /\ Up
  /\ resume[r].pc = "won"
  /\ ~Overdue(resume[r].id, clock)
  /\ runs' = [runs EXCEPT ![resume[r].id] = @ + 1]
  /\ Go(r, "running")
  /\ UNCHANGED <<storeVars, host, park, sweep, lastPurgeAt, faults,
                 notices, refusals, replies, reported>>

(***************************************************************************)
(* The stored exchange cannot be rebuilt, a subscriber throws, or the      *)
(* continuation itself does: the failure is recorded and thrown.           *)
(***************************************************************************)
ResumeBroken(r) ==
  /\ Up
  /\ \/ resume[r].pc = "won" /\ ~Overdue(resume[r].id, clock)
     \/ resume[r].pc = "running"
  /\ RecordTerminal(resume[r].id, "failed")
  /\ Return(r)
  /\ UNCHANGED <<clock, host, park, sweep, lastPurgeAt, faults, world>>

(***************************************************************************)
(* The continuation ends and its outcome is cached and returned.           *)
(***************************************************************************)
ResumeEnd(r) ==
  /\ Up
  /\ resume[r].pc = "running"
  /\ \E outcome \in {"completed", "failed"} :
       /\ RecordTerminal(resume[r].id, outcome)
       /\ Acknowledge(resume[r].id, "resumed", outcome)
  /\ Return(r)
  /\ UNCHANGED <<clock, host, park, sweep, lastPurgeAt, faults,
                 runs, notices, refusals, reported>>

(***************************************************************************)
(* expireSuspension and refuseContinuation, once the claim is won: the     *)
(* route's error channel runs, then the claim is finalized.                *)
(***************************************************************************)
ResumeNotify(r) ==
  /\ Up
  /\ \/ /\ resume[r].pc = "expiring"
        /\ notices' = [notices EXCEPT ![resume[r].id] = @ + 1]
        /\ Go(r, "expired")
        /\ UNCHANGED refusals
     \/ /\ resume[r].pc = "refusing"
        /\ refusals' = [refusals EXCEPT ![resume[r].id] = @ + 1]
        /\ Go(r, "refused")
        /\ UNCHANGED notices
  /\ UNCHANGED <<storeVars, host, park, sweep, lastPurgeAt, faults,
                 runs, replies, reported>>

ResumeFinalize(r) ==
  /\ Up
  /\ \/ resume[r].pc = "expired" /\ MarkExpired(resume[r].id)
     \/ resume[r].pc = "refused" /\ MarkDenied(resume[r].id)
  /\ Return(r)
  /\ UNCHANGED <<clock, host, park, sweep, lastPurgeAt, faults, world>>

ResumeStep(r) ==
  \/ \E id \in Ids : ResumeRead(r, id)
  \/ ResumeRefused(r) \/ ResumeSettled(r)
  \/ ResumeOverdue(r) \/ ResumeChanged(r) \/ ResumeIntact(r)
  \/ ResumeInvalid(r) \/ ResumeClaim(r)
  \/ ResumeLate(r) \/ ResumeTell(r)
  \/ ResumeRun(r) \/ ResumeBroken(r) \/ ResumeEnd(r)
  \/ ResumeNotify(r) \/ ResumeFinalize(r)

-----------------------------------------------------------------------------
(* The sweeper: sweep, purgeOnCadence, runStartScan. *)

(* Two mutants: the pass does not heal, or the interval is never armed. *)
SweepBeginUnhealed ==
  /\ \/ sweep.pc = "boot" /\ process = "booting"
     \/ sweep.pc = "idle" /\ process = "serving"
  /\ sweep' = [IdleSweep EXCEPT !.pc = "purge", !.now = clock,
                                !.boot = (sweep.pc = "boot")]
  /\ UNCHANGED <<storeVars, host, park, resume, lastPurgeAt, faults, world>>

SweepBeginAtBootOnly ==
  /\ sweep.pc = "boot" /\ process = "booting"
  /\ ReleaseExpiring(clock - Lease)
  /\ sweep' = [IdleSweep EXCEPT !.pc = "purge", !.now = clock, !.boot = TRUE]
  /\ UNCHANGED <<clock, host, park, resume, lastPurgeAt, faults, world>>

(***************************************************************************)
(* A pass freezes now and heals before it scans.  The boot scan is the     *)
(* first pass; later ones begin on the interval, which is armed when the   *)
(* boot scan is over, cleared when the shutdown begins, and skipped while  *)
(* a pass is in flight.                                                    *)
(***************************************************************************)
SweepBegin ==
  /\ \/ sweep.pc = "boot" /\ process = "booting"
     \/ sweep.pc = "idle" /\ process = "serving"
  /\ ReleaseExpiring(clock - Lease)
  /\ sweep' = [IdleSweep EXCEPT !.pc = "purge", !.now = clock,
                                !.boot = (sweep.pc = "boot")]
  /\ UNCHANGED <<clock, host, park, resume, lastPurgeAt, faults, world>>

PurgeIsDue ==
  /\ Retention # Never
  /\ lastPurgeAt # Never => sweep.now - lastPurgeAt >= Cadence

SweepPurge ==
  /\ Up
  /\ sweep.pc = "purge"
  /\ IF PurgeIsDue
     THEN PurgeSettled(sweep.now - Retention) /\ lastPurgeAt' = sweep.now
     ELSE UNCHANGED <<records, expiresAt, lastPurgeAt>>
  /\ sweep' = [sweep EXCEPT !.pc = "scan"]
  /\ UNCHANGED <<clock, host, park, resume, faults, world>>

(***************************************************************************)
(* The end of a pass: the boot scan goes on to its summary.                *)
(***************************************************************************)
PassOver == [IdleSweep EXCEPT !.pc = IF sweep.boot THEN "report" ELSE "idle"]

(* A mutant: a page that is exactly full is taken for the last one. *)
SweepScanShort ==
  /\ Up
  /\ sweep.pc = "scan"
  /\ LET page == FindExpired(sweep.now, SweepBatch, sweep.cursor)
     IN sweep' = IF Stopping \/ page = {} THEN PassOver
                 ELSE [sweep EXCEPT !.pc = "batch", !.due = page,
                                    !.full = Cardinality(page) > SweepBatch]
  /\ UNCHANGED <<storeVars, host, park, resume, lastPurgeAt, faults, world>>

(***************************************************************************)
(* The next page, strictly after the cursor; no page once shutdown began.  *)
(***************************************************************************)
SweepScan ==
  /\ Up
  /\ sweep.pc = "scan"
  /\ LET page == FindExpired(sweep.now, SweepBatch, sweep.cursor)
     IN sweep' = IF Stopping \/ page = {} THEN PassOver
                 ELSE [sweep EXCEPT !.pc = "batch", !.due = page,
                                    !.full = Cardinality(page) >= SweepBatch]
  /\ UNCHANGED <<storeVars, host, park, resume, lastPurgeAt, faults, world>>

(***************************************************************************)
(* After a record: the rest of its page, the next page after a full one,   *)
(* or the end of the pass.                                                 *)
(***************************************************************************)
Rest(id) == sweep.due \ {id}

AfterVisit(id) ==
  IF Rest(id) # {}
  THEN [sweep EXCEPT !.pc = "batch", !.due = Rest(id), !.cursor = id, !.item = Never]
  ELSE IF sweep.full
  THEN [sweep EXCEPT !.pc = "scan", !.due = {}, !.cursor = id, !.item = Never]
  ELSE PassOver

(***************************************************************************)
(* A page is left where it is when the shutdown begins.                    *)
(***************************************************************************)
SweepHalt ==
  /\ Stopping
  /\ sweep.pc = "batch"
  /\ sweep' = PassOver
  /\ UNCHANGED <<storeVars, host, park, resume, lastPurgeAt, faults, world>>

(***************************************************************************)
(* A record of a route this process does not have is left alone; any other *)
(* is claimed, and a claim that is lost was settled by somebody else.      *)
(***************************************************************************)
SweepSkip ==
  /\ Up /\ ~Stopping
  /\ sweep.pc = "batch"
  /\ \E id \in Ids :
       /\ Foremost(id, sweep.due)
       /\ deploy[id] = "missing"
       /\ sweep' = AfterVisit(id)
  /\ UNCHANGED <<storeVars, host, park, resume, lastPurgeAt, faults, world>>

SweepClaim ==
  /\ Up /\ ~Stopping
  /\ sweep.pc = "batch"
  /\ \E id \in Ids :
       /\ Foremost(id, sweep.due)
       /\ deploy[id] # "missing"
       /\ ClaimExpiry(id)
       /\ sweep' = IF Wins(id, "suspended")
                   THEN [sweep EXCEPT !.pc = "expiring", !.item = id]
                   ELSE AfterVisit(id)
  /\ UNCHANGED <<clock, host, park, resume, lastPurgeAt, faults, world>>

SweepNotify ==
  /\ Up
  /\ sweep.pc = "expiring"
  /\ notices' = [notices EXCEPT ![sweep.item] = @ + 1]
  /\ sweep' = [sweep EXCEPT !.pc = "expired"]
  /\ UNCHANGED <<storeVars, host, park, resume, lastPurgeAt, faults,
                 runs, refusals, replies, reported>>

SweepFinalize ==
  /\ Up
  /\ sweep.pc = "expired"
  /\ MarkExpired(sweep.item)
  /\ sweep' = AfterVisit(sweep.item)
  /\ UNCHANGED <<clock, host, park, resume, lastPurgeAt, faults, world>>

(***************************************************************************)
(* The boot summary names what a dead process left resumed without an      *)
(* outcome; then the interval is armed.  A mutant names nothing.           *)
(***************************************************************************)
SweepReportSilent ==
  /\ Up
  /\ sweep.pc = "report"
  /\ sweep' = IdleSweep
  /\ process' = IF process = "booting" THEN "serving" ELSE process
  /\ UNCHANGED <<storeVars, deploy, restarts, park, resume, lastPurgeAt, faults, world>>

SweepReport ==
  /\ Up
  /\ sweep.pc = "report"
  /\ reported' = reported \union ResumedWithoutTerminal
  /\ sweep' = IdleSweep
  /\ process' = IF process = "booting" THEN "serving" ELSE process
  /\ UNCHANGED <<storeVars, deploy, restarts, park, resume, lastPurgeAt, faults,
                 runs, notices, refusals, replies>>

SweepStep ==
  \/ SweepBegin \/ SweepPurge \/ SweepScan \/ SweepHalt \/ SweepSkip
  \/ SweepClaim \/ SweepNotify \/ SweepFinalize \/ SweepReport

-----------------------------------------------------------------------------
(***************************************************************************)
(* A store operation throws and changes nothing.  A resume call gives up   *)
(* at once, except that the outcome of a continuation that ran is returned *)
(* all the same; a park fails; the sweeper logs and goes on with the next  *)
(* record.                                                                 *)
(***************************************************************************)
Fault ==
  /\ Up
  /\ CanHeal
  /\ faults < MaxFaults
  /\ faults' = faults + 1
  /\ UNCHANGED <<storeVars, deploy, restarts, runs, notices, refusals, reported>>

ResumeFault(r) ==
  /\ Fault
  /\ \/ /\ resume[r].pc \in {"validating", "won", "expired", "refused"}
        /\ UNCHANGED replies
     \/ /\ Accepted(r)
        /\ Overdue(resume[r].id, clock) \/ deploy[resume[r].id] = "changed"
        /\ UNCHANGED replies
     \/ /\ resume[r].pc = "running"
        /\ \E outcome \in {"completed", "failed"} :
             Acknowledge(resume[r].id, "resumed", outcome)
  /\ Return(r)
  /\ UNCHANGED <<process, park, sweep, lastPurgeAt>>

ParkFault(id) ==
  /\ Fault
  /\ \/ park[id] \in {"none", "created"} /\ GoPark(id, "lost")
     \/ park[id] = "denying" /\ GoPark(id, "cancelled")
  /\ UNCHANGED <<process, resume, sweep, lastPurgeAt, replies>>

SweepFault ==
  /\ Fault
  /\ \/ /\ sweep.pc = "batch"
        /\ ~Stopping
        /\ \E id \in Ids : /\ Foremost(id, sweep.due)
                           /\ deploy[id] # "missing"
                           /\ sweep' = AfterVisit(id)
     \/ /\ sweep.pc = "expired"
        /\ sweep' = AfterVisit(sweep.item)
  /\ UNCHANGED <<process, park, resume, lastPurgeAt, replies>>

(***************************************************************************)
(* A purge that throws is not tried again before the next cadence.         *)
(***************************************************************************)
SweepPurgeFault ==
  /\ Fault
  /\ sweep.pc = "purge"
  /\ PurgeIsDue
  /\ lastPurgeAt' = sweep.now
  /\ sweep' = [sweep EXCEPT !.pc = "scan"]
  /\ UNCHANGED <<process, park, resume, replies>>

(***************************************************************************)
(* A heal, a page or a summary that cannot be read ends the pass; at boot  *)
(* it fails the plugin's start hook and the context stops.                 *)
(***************************************************************************)
SweepAbort ==
  /\ Fault
  /\ \/ sweep.pc = "boot" /\ process = "booting"
     \/ sweep.pc \in {"scan", "report"}
  /\ sweep' = IdleSweep
  /\ process' = IF process = "booting" THEN "stopping" ELSE process
  /\ UNCHANGED <<park, resume, lastPurgeAt, replies>>

-----------------------------------------------------------------------------
(* The process. *)

(***************************************************************************)
(* What the process forgets when it is gone: every call, every pass, the   *)
(* purge date.  The store and what was told outside remain.                *)
(***************************************************************************)
Forget ==
  /\ process' = "down"
  /\ park' = [id \in Ids |-> IF park[id] \in {"created", "denying"} THEN "lost"
                             ELSE park[id]]
  /\ resume' = [r \in Resumers |-> IdleResume]
  /\ sweep' = IdleSweep
  /\ lastPurgeAt' = Never

(***************************************************************************)
(* A process starts: its routes come up, then the boot scan begins.  The   *)
(* code it runs may no longer be the one that parked.                      *)
(***************************************************************************)
Start ==
  /\ process = "down"
  /\ process' = "booting"
  /\ deploy' \in [Ids -> Deploys]
  /\ sweep' = [IdleSweep EXCEPT !.pc = "boot"]
  /\ UNCHANGED <<storeVars, restarts, park, resume, lastPurgeAt, faults, world>>

Crash ==
  /\ Up
  /\ CanHeal
  /\ restarts < MaxRestarts
  /\ restarts' = restarts + 1
  /\ Forget
  /\ UNCHANGED <<storeVars, deploy, faults, world>>

(***************************************************************************)
(* A graceful stop: intake closes and the sweeper takes no further claim.  *)
(***************************************************************************)
Stop ==
  /\ Admits
  /\ CanHeal
  /\ restarts < MaxRestarts
  /\ restarts' = restarts + 1
  /\ process' = "stopping"
  /\ UNCHANGED <<storeVars, deploy, actorVars, lastPurgeAt, faults, world>>

(***************************************************************************)
(* Teardown waits for the pass in flight, never for the error channels and *)
(* the forced continuations of the resume calls.                           *)
(***************************************************************************)
Exit ==
  /\ Stopping
  /\ sweep.pc \in {"boot", "idle"}
  /\ CanHeal \/ \A id \in Ids : Holders(id) = {}
  /\ Forget
  /\ UNCHANGED <<storeVars, deploy, restarts, faults, world>>

(***************************************************************************)
(* Time passes.  When every delivery is prompt, none outlives its lease.   *)
(***************************************************************************)
TimePasses ==
  /\ Tick
  /\ Prompt => \A id \in Ids :
       (StatusOf(id) = "expiring" /\ Holders(id) # {}) =>
         clock + 1 < records[id].claimedAt + Lease
  /\ UNCHANGED <<host, actorVars, lastPurgeAt, faults, world>>

-----------------------------------------------------------------------------
Init ==
  /\ StoreInit
  /\ process = "down"
  /\ deploy = [id \in Ids |-> "same"]
  /\ park = [id \in Ids |-> "none"]
  /\ resume = [r \in Resumers |-> IdleResume]
  /\ sweep = IdleSweep
  /\ lastPurgeAt = Never
  /\ restarts = 0
  /\ faults = 0
  /\ runs = [id \in Ids |-> 0]
  /\ notices = [id \in Ids |-> 0]
  /\ refusals = [id \in Ids |-> 0]
  /\ replies = {}
  /\ reported = {}

Next ==
  \/ TimePasses
  \/ \E id \in Ids : ParkStep(id) \/ ParkFault(id)
  \/ \E r \in Resumers : ResumeStep(r) \/ ResumeFault(r)
  \/ SweepStep \/ SweepFault \/ SweepPurgeFault \/ SweepAbort
  \/ Start \/ Crash \/ Stop \/ Exit

Spec == Init /\ [][Next]_vars

(***************************************************************************)
(* The interval fires, the clock moves, a dead process is started again    *)
(* and a stopping one exits; an error channel that was entered returns.    *)
(* Nothing obliges anyone to resume, to crash or to stop.                  *)
(***************************************************************************)
Deliver(r) == ResumeNotify(r) \/ ResumeFinalize(r)

Fairness ==
  /\ WF_vars(TimePasses)
  /\ WF_vars(SweepStep)
  /\ WF_vars(Start)
  /\ WF_vars(Exit)
  /\ \A r \in Resumers : WF_vars(Deliver(r))
  /\ \A id \in Ids : WF_vars(ParkDeny(id))

FairSpec == Spec /\ Fairness

-----------------------------------------------------------------------------
(* Properties. *)

(***************************************************************************)
(* The shape of the state.                                                 *)
(***************************************************************************)
Reply == [id : Ids, status : {"resumed", "duplicate"},
          outcome : Outcomes \union {NotRecorded}]

ResumeState == [pc : ResumePcs, id : Ids \union {Never}, snapshot : Suspension]

SweepState == [pc : SweepPcs, boot : BOOLEAN, now : Nat, due : SUBSET Ids,
               full : BOOLEAN, cursor : Ids \union {Never}, item : Ids \union {Never}]

TypeOK ==
  /\ StoreTypeOK
  /\ process \in {"down", "booting", "serving", "stopping"}
  /\ deploy \in [Ids -> {"same", "changed", "missing"}]
  /\ park \in [Ids -> ParkPcs]
  /\ resume \in [Resumers -> ResumeState]
  /\ sweep \in SweepState
  /\ lastPurgeAt \in Date
  /\ restarts \in Nat
  /\ faults \in Nat
  /\ runs \in [Ids -> Nat]
  /\ notices \in [Ids -> Nat]
  /\ refusals \in [Ids -> Nat]
  /\ replies \subseteq Reply
  /\ reported \subseteq Ids

(***************************************************************************)
(* One approval is one execution: however many resume calls present the    *)
(* token, race each other and the sweeper, or find the process restarted,  *)
(* the continuation of a suspension begins at most once.                   *)
(***************************************************************************)
RunsAtMostOnce == \A id \in Ids : runs[id] <= 1

(***************************************************************************)
(* Run and lapse exclude each other: a continuation never begins after its *)
(* route was told the suspension expired, and no expiry is told once it    *)
(* has begun.  It is what the deadline check AFTER markResumed buys: a     *)
(* claim released in mid-delivery makes the record resumable again.        *)
(***************************************************************************)
RunOrLapse == \A id \in Ids : runs[id] = 0 \/ notices[id] = 0

(***************************************************************************)
(* Both: a suspension has one fate.                                        *)
(***************************************************************************)
OneFate == RunsAtMostOnce /\ RunOrLapse

(***************************************************************************)
(* Nobody is left at a dead link: a record that reads expired had its      *)
(* route told first, and one that reads denied had its route told the      *)
(* continuation changed, or was parked by a run that was cancelled.        *)
(***************************************************************************)
SettledMeansTold ==
  \A id \in Ids :
    /\ StatusOf(id) = "expired" => notices[id] > 0
    /\ StatusOf(id) = "denied" => refusals[id] > 0 \/ park[id] = "cancelled"

(***************************************************************************)
(* Exactly once, where the code promises more than at-least-once: while no *)
(* process died, no store call failed and no delivery outlived its lease,  *)
(* a route hears of one expiry or one refusal, never two or both, from the *)
(* sweeper and all resume calls together.                                  *)
(***************************************************************************)
ToldOnceWhenCalm ==
  (restarts = 0 /\ faults = 0 /\ Prompt) =>
    \A id \in Ids : notices[id] + refusals[id] <= 1

(***************************************************************************)
(* A claim is never lost: a record that reads expiring belongs to an actor *)
(* that is still alive, or something interrupted its owner (a restart, a   *)
(* store fault) and the lease is what frees it.                            *)
(***************************************************************************)
ClaimsOwned ==
  (restarts = 0 /\ faults = 0) =>
    \A id \in Ids : StatusOf(id) = "expiring" => Holders(id) # {}

(***************************************************************************)
(* Both: no suspension is left without anybody to settle it, or settled    *)
(* without a word.                                                         *)
(***************************************************************************)
NobodyIsForgotten == SettledMeansTold /\ ClaimsOwned

(***************************************************************************)
(* A pass misses nobody: when one ends of its own accord, every overdue    *)
(* record its process can notify has been taken, however many pages lie    *)
(* before it and however many of them belong to missing routes.            *)
(***************************************************************************)
PassEnds == sweep.pc \in {"scan", "batch", "expired"} /\ sweep'.pc \in {"idle", "report"}

PassMissesNobody ==
  [][(PassEnds /\ faults' = 0 /\ Up' /\ ~Stopping) =>
       \A id \in Ids : StatusOf(id)' = "suspended" /\ Overdue(id, sweep.now)
                         => deploy[id] = "missing"]_vars

(***************************************************************************)
(* Half-run continuations surface: what a dead process left behind is      *)
(* named by the boot summary before a later pass purges it.  The first     *)
(* purge of a boot runs ahead of the summary; it is no part of the promise.*)
(***************************************************************************)
StrandedAreReported ==
  [][faults = 0 /\ ~sweep.boot =>
       \A id \in ResumedWithoutTerminal :
         (StatusOf(id)' = "absent" /\ \A r \in Resumers : resume[r].id # id)
           => id \in reported]_vars

(***************************************************************************)
(* A suspension that waits past its deadline is settled in the end, if the *)
(* process that is finally left running has its route.                     *)
(***************************************************************************)
OverdueSettles ==
  \A id \in Ids :
    (StatusOf(id) = "suspended" /\ Overdue(id, clock)) ~>
      (StatusOf(id) \in Settled \union {"absent"} \/ deploy[id] = "missing")

(***************************************************************************)
(* A claim never sticks: it is finalized by its holder or, when the holder *)
(* is gone, given back by the next pass after its lease.                   *)
(***************************************************************************)
ClaimsResolve ==
  \A id \in Ids : StatusOf(id) = "expiring" ~> StatusOf(id) # "expiring"

(***************************************************************************)
(* Why RunsAtMostOnce and RunOrLapse hold, in the form that is inductive.  *)
(* An id nobody parked yet is unknown to everybody; the winner of          *)
(* markResumed is alone, for its record never becomes suspended again; and *)
(* whoever is about to tell an expiry, or has, did so past the deadline,   *)
(* when no continuation can begin.                                         *)
(***************************************************************************)
ActorsKnowTheirId ==
  /\ \A r \in Resumers : resume[r].pc # "idle" => resume[r].id \in Ids
  /\ sweep.pc \in {"expiring", "expired"} => sweep.item \in Ids

UnparkedIsUnknown ==
  \A id \in Ids : park[id] = "none" =>
    /\ StatusOf(id) = "absent"
    /\ runs[id] = 0
    /\ notices[id] = 0
    /\ id \notin sweep.due
    /\ sweep.item # id
    /\ \A r \in Resumers : resume[r].id # id

WinnerPcs == {"won", "telling", "running"}

WinnerIsAlone ==
  \A r \in Resumers : resume[r].pc \in WinnerPcs =>
    /\ StatusOf(resume[r].id) \in {"resumed", "absent"}
    /\ resume[r].pc \in {"won", "telling"} => runs[resume[r].id] = 0
    /\ \A s \in Resumers \ {r} :
         ~(resume[s].pc \in WinnerPcs /\ resume[s].id = resume[r].id)

RunsFromResumed ==
  \A id \in Ids : runs[id] > 0 => StatusOf(id) \in {"resumed", "absent"}

ExpiriesAreOverdue ==
  /\ sweep.now <= clock
  /\ \A id \in sweep.due : Overdue(id, sweep.now)
  /\ sweep.pc \in {"expiring", "expired"} =>
       Overdue(sweep.item, clock) /\ runs[sweep.item] = 0
  /\ \A r \in Resumers : resume[r].pc \in {"expiring", "expired", "telling"} =>
       Overdue(resume[r].id, clock) /\ runs[resume[r].id] = 0
  /\ \A id \in Ids : notices[id] > 0 => Overdue(id, clock)

OneFateInv ==
  /\ ActorsKnowTheirId
  /\ UnparkedIsUnknown
  /\ WinnerIsAlone
  /\ RunsFromResumed
  /\ ExpiriesAreOverdue
  /\ RunsAtMostOnce
  /\ RunOrLapse

(***************************************************************************)
(* Why NobodyIsForgotten holds.  Whoever is about to finalize a claim has  *)
(* told the route; the sweeper's item is a claim it has not finalized; and *)
(* a process stops only after an interruption that is counted.             *)
(***************************************************************************)
FinalizersHaveTold ==
  /\ \A r \in Resumers :
       /\ resume[r].pc = "expired" => notices[resume[r].id] > 0
       /\ resume[r].pc = "refused" => refusals[resume[r].id] > 0
  /\ sweep.pc = "expired" => notices[sweep.item] > 0

ItemIsAClaim == sweep.item # Never => Up /\ sweep.pc \in {"expiring", "expired"}

StopsAreCounted == Stopping => restarts > 0 \/ faults > 0

NobodyIsForgottenInv ==
  /\ FinalizersHaveTold
  /\ ItemIsAClaim
  /\ StopsAreCounted
  /\ SettledMeansTold
  /\ ClaimsOwned

(***************************************************************************)
(* Why ToldOnceWhenCalm holds.  While nothing goes wrong a record that is  *)
(* out of "suspended" belongs to one actor at most, which alone may still  *)
(* tell its route; a claim that is held is younger than its lease, so no   *)
(* pass gives it back; and a record that still waits was never told.       *)
(***************************************************************************)
OwnerPcs == ClaimPcs \union {"won", "telling"}
TellerPcs == {"expiring", "refusing", "won", "telling"}

Owns(r, id) == resume[r].id = id /\ resume[r].pc \in OwnerPcs

OwnerIsAlone(id) ==
  /\ \A r \in Resumers : Owns(r, id) =>
       /\ sweep.item # id
       /\ park[id] # "denying"
       /\ \A s \in Resumers \ {r} : ~Owns(s, id)
  /\ sweep.item = id => park[id] # "denying"

ClaimIsYoung(id) ==
  Holders(id) # {} =>
    /\ StatusOf(id) = "expiring"
    /\ records[id].claimedAt \in Nat
    /\ clock < records[id].claimedAt + Lease

UntoldYet(id) ==
  \/ StatusOf(id) = "suspended"
  \/ park[id] = "none"
  \/ sweep.item = id /\ sweep.pc = "expiring"
  \/ \E r \in Resumers : resume[r].id = id /\ resume[r].pc \in TellerPcs

ToldOnceInv ==
  (restarts = 0 /\ faults = 0 /\ Prompt) =>
    \A id \in Ids :
      /\ OwnerIsAlone(id)
      /\ ClaimIsYoung(id)
      /\ StatusOf(id) = "suspended" => \A r \in Resumers : ~Owns(r, id)
      /\ UntoldYet(id) => notices[id] + refusals[id] = 0
      /\ notices[id] + refusals[id] <= 1

(***************************************************************************)
(* Why StrandedAreReported holds.  Once the boot scan is over, a           *)
(* continuation without an outcome is at work or was named by a summary.   *)
(***************************************************************************)
AtWork(id) == \E r \in Resumers : resume[r].pc \in {"won", "running"} /\ resume[r].id = id

StrandedInv ==
  /\ sweep.pc = "idle" => ~sweep.boot
  /\ (faults = 0 /\ Up /\ ~sweep.boot /\ sweep.pc \notin {"boot", "report"}) =>
       \A id \in ResumedWithoutTerminal : id \in reported \/ AtWork(id)

(***************************************************************************)
(* Why PassMissesNobody holds.  While a pass is on its way, an overdue     *)
(* record its process can notify still lies ahead of it: in the rest of    *)
(* the page, beyond it if the page is full, or after the cursor.           *)
(***************************************************************************)
LiesAhead(id) ==
  IF sweep.pc = "scan"
  THEN sweep.cursor = Never \/ Before(sweep.cursor, id)
  ELSE id \in sweep.due \/ (sweep.full /\ \A j \in sweep.due : Before(j, id))

PassInv ==
  /\ sweep.pc = "purge" => sweep.cursor = Never
  /\ sweep.cursor # Never => park[sweep.cursor] # "none"
  /\ sweep.item # Never =>
       sweep.item \in sweep.due /\ StatusOf(sweep.item) # "suspended"
  /\ (faults = 0 /\ sweep.pc \in {"scan", "batch", "expiring", "expired"}) =>
       \A id \in Ids :
         (/\ StatusOf(id) = "suspended"
          /\ Overdue(id, sweep.now)
          /\ deploy[id] # "missing") => LiesAhead(id)

-----------------------------------------------------------------------------
(***************************************************************************)
(* The refinement: the fate of an id is read off what was seen outside.    *)
(***************************************************************************)
FateOf(id) ==
  IF runs[id] > 0 THEN "ran"
  ELSE IF notices[id] > 0 THEN "lapsed"
  ELSE IF park[id] # "none" THEN "asked"
  ELSE "unasked"

Told(id) ==
  {a.outcome : a \in {b \in replies : b.id = id /\ b.outcome # NotRecorded}}

(***************************************************************************)
(* Why everybody is told the same.  An outcome that is recorded, that a    *)
(* call has read or that was returned is the only one of its id; it agrees *)
(* with whether the continuation ran; and there is none while the id waits *)
(* for its verdict: not resumed, or its winner still at work.              *)
(***************************************************************************)
Verdicts(id) ==
  (Told(id)
   \union {records[id].terminal}
   \union {resume[r].snapshot.terminal : r \in {s \in Resumers : resume[s].id = id}})
  \ {NoOutcome}

Undecided(id) ==
  \/ StatusOf(id) \notin {"resumed", "absent"}
  \/ park[id] = "none"
  \/ AtWork(id)

VerdictInv ==
  \A id \in Ids :
    /\ \A a, b \in Verdicts(id) : a = b
    /\ "completed" \in Verdicts(id) => runs[id] > 0
    /\ "overdue" \in Verdicts(id) => runs[id] = 0
    /\ Undecided(id) => Verdicts(id) = {}
    /\ \A r \in Resumers : resume[r].pc = "running" /\ resume[r].id = id => runs[id] > 0

Fate == INSTANCE SuspensionFate
  WITH fate <- [id \in Ids |-> FateOf(id)],
       told <- [id \in Ids |-> Told(id)]

(***************************************************************************)
(* Parks, resumes, sweeps, restarts and faults together keep the promise:  *)
(* every step is a step of SuspensionFate or changes nothing it can see.   *)
(***************************************************************************)
ImplementsFate == Fate!FateSpec

=============================================================================

--------------------------- MODULE Endpoints_proof ----------------------------
(***************************************************************************)
(* What the components that live as long as the context promise, for every *)
(* value of the constants: the health ledger, the manager of an MCP        *)
(* process, and the connections of MCP servers over http. What the ledger  *)
(* keeps of a route is what happened to the route, seen through the        *)
(* messages it hears; the manager has one thing at a time under way; and a *)
(* connection is open only while it is cached.                             *)
(***************************************************************************)
EXTENDS Endpoints, SequenceTheorems, FiniteSetTheorems, WellFoundedInduction, TLAPS

(***************************************************************************)
(* Two breakers of one route are told apart by their labels.  The code     *)
(* does not see to that.                                                   *)
(***************************************************************************)
LabelsDiffer ==
  \A b, d \in Breakers : RouteOf[b] = RouteOf[d] /\ LabelOf[b] = LabelOf[d] => b = d

(***************************************************************************)
(* The status last announced is the one the record keeps, and the one that *)
(* the rest of the record gives.                                           *)
(***************************************************************************)
Fits(r, rec) ==
  IF heard[r] = Nothing THEN rec.lastStatus \in {"up", "inactive"}
                        ELSE rec.lastStatus = heard[r]

StatusIsKept(r) ==
  IF record[r] = Nothing THEN heard[r] = Nothing
  ELSE record[r].lastStatus = H!RouteStatus(record[r]) /\ Fits(r, record[r])

(***************************************************************************)
(* What the ledger has of a route's breakers and of its sources.  A record *)
(* is made as soon as something happened that the ledger would miss.       *)
(***************************************************************************)
Seen(r) == {<<LabelOf[b], circuit[b]>> : b \in H!Held(r)}

BreakersAreSeen(r) ==
  IF record[r] = Nothing THEN H!Held(r) = {} ELSE record[r].breakers = Seen(r)

LifecycleIsSeen(r) ==
  /\ record[r] = Nothing => r \notin dead
  /\ record[r] # Nothing => (record[r].lifecycle = "failed" <=> r \in dead)
  /\ r \in started \ (dead \union intakeAborted) =>
       record[r] # Nothing /\ record[r].lifecycle = "running"
  /\ r \in intakeAborted \ (dead \union outlived) =>
       (record[r] # Nothing => record[r].lifecycle \in {"completed", "stopped"})

Followed(r) ==
  H!Listens =>
    /\ record[r] # Nothing /\ record[r].lifecycle = "failed" => r \in dead
    /\ r \notin restarted => BreakersAreSeen(r) /\ LifecycleIsSeen(r)

LedgerInv == H!TypeOK /\ \A r \in Routes : StatusIsKept(r) /\ Followed(r)

(***************************************************************************)
(* A record is no Nothing, nor is the status it gives.                     *)
(***************************************************************************)
LEMMA RecordsAreRecords ==
  ASSUME H!ConstantsOK, NEW rec \in H!Records
  PROVE  rec # Nothing /\ H!RouteStatus(rec) \in H!Statuses /\ H!RouteStatus(rec) # Nothing
BY DEF H!ConstantsOK, H!Records, H!RouteStatus, H!Statuses

(***************************************************************************)
(* What a route starts from is a record, and one that fits.                *)
(***************************************************************************)
LEMMA NewRecords ==
  ASSUME NEW l \in H!Lifecycles, NEW s \in H!Statuses
  PROVE  /\ H!NewRecord(l, s) \in H!Records
         /\ H!NewRecord(l, s).lifecycle = l /\ H!NewRecord(l, s).breakers = {}
         /\ H!NewRecord(l, s).lastStatus = s
BY DEF H!NewRecord, H!Records

(***************************************************************************)
(* A route has a record once the ledger was asked for one, the one it had  *)
(* or a new one that fits.                                                 *)
(***************************************************************************)
LEMMA EnsuresARecord ==
  ASSUME H!ConstantsOK, H!TypeOK, NEW r \in Routes, StatusIsKept(r)
  PROVE  /\ H!EnsureRoute(r) \in H!Records /\ Fits(r, H!EnsureRoute(r))
         /\ record[r] # Nothing => H!EnsureRoute(r) = record[r]
         /\ record[r] = Nothing =>
              H!EnsureRoute(r).lifecycle = "running" /\ H!EnsureRoute(r).breakers = {}
<1>1. CASE record[r] = Nothing
  <2>1. H!EnsureRoute(r) = H!NewRecord("running", "up") BY <1>1 DEF H!EnsureRoute
  <2>2. "running" \in H!Lifecycles /\ "up" \in H!Statuses BY DEF H!Lifecycles, H!Statuses
  <2> QED BY <1>1, <2>1, <2>2, NewRecords DEF StatusIsKept, Fits
<1>2. CASE record[r] # Nothing
  BY <1>2 DEF H!EnsureRoute, StatusIsKept, H!TypeOK
<1> QED BY <1>1, <1>2

(***************************************************************************)
(* settleRoute keeps the status, touches no other route, and leaves the    *)
(* rest of the record as it is given.                                      *)
(***************************************************************************)
LEMMA Settles ==
  ASSUME H!ConstantsOK, H!TypeOK, NEW r \in Routes, NEW rec \in H!Records, Fits(r, rec),
         H!SettleRoute(r, rec)
  PROVE  /\ record' \in [Routes -> H!Records \union {Nothing}]
         /\ heard' \in [Routes -> H!Statuses \union {Nothing}]
         /\ record'[r] # Nothing
         /\ record'[r].lifecycle = rec.lifecycle /\ record'[r].breakers = rec.breakers
         /\ StatusIsKept(r)'
         /\ \A q \in Routes \ {r} : record'[q] = record[q] /\ heard'[q] = heard[q]
<1> DEFINE kept == [rec EXCEPT !.lastStatus = H!RouteStatus(rec)]
<1>1. H!RouteStatus(rec) \in H!Statuses BY RecordsAreRecords
<1>2. /\ kept \in H!Records /\ kept.lifecycle = rec.lifecycle /\ kept.breakers = rec.breakers
      /\ kept.lastStatus = H!RouteStatus(rec)
  BY <1>1 DEF H!Records
<1>3. record'[r] = kept /\ record' \in [Routes -> H!Records \union {Nothing}]
  BY <1>2 DEF H!SettleRoute, H!TypeOK
<1>4. kept # Nothing /\ H!RouteStatus(rec) # Nothing BY <1>2, RecordsAreRecords
<1>5. H!RouteStatus(kept) = H!RouteStatus(rec) BY <1>2 DEF H!RouteStatus
<1>6. \A q \in Routes \ {r} : record'[q] = record[q] /\ heard'[q] = heard[q]
  BY DEF H!SettleRoute, H!TypeOK
<1>7. heard'[r] = IF H!RouteStatus(rec) = rec.lastStatus THEN heard[r] ELSE H!RouteStatus(rec)
  BY DEF H!SettleRoute, H!TypeOK
<1>8. heard' \in [Routes -> H!Statuses \union {Nothing}]
  BY <1>1 DEF H!SettleRoute, H!TypeOK
<1>9. StatusIsKept(r)'
  <2>1. record'[r].lastStatus = H!RouteStatus(record'[r]) BY <1>2, <1>3, <1>5
  <2>2. IF heard'[r] = Nothing THEN record'[r].lastStatus \in {"up", "inactive"}
                               ELSE record'[r].lastStatus = heard'[r]
    BY <1>2, <1>3, <1>4, <1>7 DEF Fits
  <2> QED BY <1>3, <1>4, <2>1, <2>2 DEF StatusIsKept, Fits, H!RouteStatus
<1> QED BY <1>2, <1>3, <1>4, <1>6, <1>8, <1>9

(***************************************************************************)
(* A route that a step leaves alone keeps what is said of it.              *)
(***************************************************************************)
LEMMA OthersAreKept ==
  ASSUME NEW q \in Routes, StatusIsKept(q), Followed(q),
         record'[q] = record[q], heard'[q] = heard[q], H!Held(q)' = H!Held(q),
         \A b \in H!Held(q) : circuit'[b] = circuit[b],
         q \in dead' <=> q \in dead, q \in intakeAborted' <=> q \in intakeAborted,
         q \in started' <=> q \in started, q \in outlived => q \in outlived',
         q \in restarted => q \in restarted', H!Listens' => H!Listens
  PROVE  StatusIsKept(q)' /\ Followed(q)'
<1>1. StatusIsKept(q)' BY DEF StatusIsKept, Fits, H!RouteStatus
<1>2. Seen(q)' = Seen(q) BY DEF Seen
<1>3. BreakersAreSeen(q) => BreakersAreSeen(q)' BY <1>2 DEF BreakersAreSeen
<1>4. LifecycleIsSeen(q) => LifecycleIsSeen(q)' BY DEF LifecycleIsSeen
<1> QED BY <1>1, <1>3, <1>4 DEF Followed
(***************************************************************************)
(* A step about one route that keeps the others keeps the invariant.       *)
(***************************************************************************)
LEMMA OneRouteMoves ==
  ASSUME LedgerInv, NEW r \in Routes, H!TypeOK', StatusIsKept(r)', Followed(r)',
         \A q \in Routes \ {r} :
           /\ record'[q] = record[q] /\ heard'[q] = heard[q]
           /\ q \in dead' <=> q \in dead
           /\ q \in intakeAborted' <=> q \in intakeAborted
           /\ q \in started' <=> q \in started
           /\ q \in outlived => q \in outlived'
           /\ q \in restarted => q \in restarted',
         \A b \in Breakers : RouteOf[b] # r => circuit'[b] = circuit[b],
         phase' = phase
  PROVE  LedgerInv'
<1>1. ASSUME NEW q \in Routes, q # r PROVE StatusIsKept(q)' /\ Followed(q)'
  <2>1. H!Held(q)' = H!Held(q) /\ \A b \in H!Held(q) : circuit'[b] = circuit[b]
    BY <1>1 DEF H!Held
  <2>2. H!Listens' => H!Listens BY DEF H!Listens
  <2>3. StatusIsKept(q) /\ Followed(q) BY DEF LedgerInv
  <2> QED BY <1>1, <2>1, <2>2, <2>3, OthersAreKept
<1> QED BY <1>1 DEF LedgerInv

(***************************************************************************)
(* A source is ready, and its route is announced as started.               *)
(***************************************************************************)
LEMMA ReadyIsFollowed ==
  ASSUME H!ConstantsOK, LedgerInv, NEW r \in Routes, H!Ready(r)
  PROVE  LedgerInv'
<1>1. H!TypeOK /\ StatusIsKept(r) /\ Followed(r) BY DEF LedgerInv
<1>2. CASE H!Listens
  <2> DEFINE last == IF record[r] = Nothing THEN "up" ELSE record[r].lastStatus
             rec == H!NewRecord("running", last)
  <2>1. last \in H!Statuses /\ "running" \in H!Lifecycles
    BY <1>1 DEF H!TypeOK, H!Records, H!Statuses, H!Lifecycles
  <2>2. rec \in H!Records /\ rec.lifecycle = "running" /\ rec.breakers = {} /\ rec.lastStatus = last
    BY <2>1, NewRecords
  <2>3. Fits(r, rec) BY <1>1, <2>2 DEF StatusIsKept, Fits
  <2>4. H!SettleRoute(r, rec) BY <1>2 DEF H!Ready, H!RouteStarted
  <2> HIDE DEF rec
  <2>5. /\ record' \in [Routes -> H!Records \union {Nothing}]
        /\ heard' \in [Routes -> H!Statuses \union {Nothing}]
        /\ record'[r] # Nothing
        /\ record'[r].lifecycle = "running" /\ record'[r].breakers = {}
        /\ StatusIsKept(r)'
        /\ \A q \in Routes \ {r} : record'[q] = record[q] /\ heard'[q] = heard[q]
    BY <1>1, <2>2, <2>3, <2>4, Settles
  <2>6. H!TypeOK' BY <1>1, <2>5 DEF H!TypeOK, H!Ready
  <2>7. Followed(r)'
    <3>1. r \notin restarted' => r \notin dead' /\ r \notin intakeAborted' /\ H!Held(r)' = {}
      BY DEF H!Ready, H!Held
    <3>2. H!Held(r)' = {} => Seen(r)' = {} BY DEF Seen
    <3> QED BY <2>5, <3>1, <3>2 DEF Followed, BreakersAreSeen, LifecycleIsSeen
  <2> QED BY <2>5, <2>6, <2>7, OneRouteMoves DEF H!Ready
<1>3. CASE ~H!Listens
  <2>1. H!TypeOK' BY <1>1, <1>3 DEF H!TypeOK, H!Ready, H!ledgerVars
  <2>2. StatusIsKept(r)' BY <1>1, <1>3 DEF StatusIsKept, Fits, H!RouteStatus, H!Ready, H!ledgerVars
  <2>3. Followed(r)' BY <1>3 DEF Followed, H!Listens, H!Ready
  <2> QED BY <1>3, <2>1, <2>2, <2>3, OneRouteMoves DEF H!Ready, H!ledgerVars
<1> QED BY <1>2, <1>3

(***************************************************************************)
(* A source fails, and its route is down.                                  *)
(***************************************************************************)
LEMMA SourceFailsIsFollowed ==
  ASSUME H!ConstantsOK, LedgerInv, NEW r \in Routes, H!SourceFails(r)
  PROVE  LedgerInv'
<1>1. H!TypeOK /\ StatusIsKept(r) /\ Followed(r) BY DEF LedgerInv
<1>2. CASE H!Listens
  <2> DEFINE rec == [H!EnsureRoute(r) EXCEPT !.lifecycle = "failed"]
  <2>1. /\ H!EnsureRoute(r) \in H!Records /\ Fits(r, H!EnsureRoute(r))
        /\ record[r] # Nothing => H!EnsureRoute(r) = record[r]
        /\ record[r] = Nothing => H!EnsureRoute(r).breakers = {}
    BY <1>1, EnsuresARecord
  <2>2. /\ rec \in H!Records /\ rec.lifecycle = "failed"
        /\ rec.breakers = H!EnsureRoute(r).breakers /\ Fits(r, rec)
    BY <2>1 DEF H!Records, H!Lifecycles, Fits
  <2>3. H!SettleRoute(r, rec) BY <1>2 DEF H!SourceFails, H!SourceDied
  <2> HIDE DEF rec
  <2>4. /\ record' \in [Routes -> H!Records \union {Nothing}]
        /\ heard' \in [Routes -> H!Statuses \union {Nothing}]
        /\ record'[r] # Nothing
        /\ record'[r].lifecycle = "failed" /\ record'[r].breakers = H!EnsureRoute(r).breakers
        /\ StatusIsKept(r)'
        /\ \A q \in Routes \ {r} : record'[q] = record[q] /\ heard'[q] = heard[q]
    BY <1>1, <2>2, <2>3, Settles
  <2>5. H!TypeOK' BY <1>1, <2>4 DEF H!TypeOK, H!SourceFails
  <2>6. Followed(r)'
    <3>1. H!Held(r)' = H!Held(r) /\ Seen(r)' = Seen(r) BY DEF H!Held, Seen, H!SourceFails
    <3>2. r \in dead' /\ restarted' = restarted BY DEF H!SourceFails
    <3>3. r \notin restarted' => BreakersAreSeen(r)'
      <4>1. H!Held(r) = {} => Seen(r) = {} BY DEF Seen
      <4> QED BY <1>1, <1>2, <2>1, <2>4, <3>1, <3>2, <4>1 DEF Followed, BreakersAreSeen
    <3>4. LifecycleIsSeen(r)' BY <2>4, <3>2 DEF LifecycleIsSeen
    <3> QED BY <2>4, <3>2, <3>3, <3>4 DEF Followed
  <2> QED BY <2>4, <2>5, <2>6, OneRouteMoves DEF H!SourceFails
<1>3. CASE ~H!Listens
  <2>1. H!TypeOK' BY <1>1, <1>3 DEF H!TypeOK, H!SourceFails, H!ledgerVars
  <2>2. StatusIsKept(r)'
    BY <1>1, <1>3 DEF StatusIsKept, Fits, H!RouteStatus, H!SourceFails, H!ledgerVars
  <2>3. Followed(r)' BY <1>3 DEF Followed, H!Listens, H!SourceFails
  <2> QED BY <1>3, <2>1, <2>2, <2>3, OneRouteMoves DEF H!SourceFails, H!ledgerVars
<1> QED BY <1>2, <1>3

(***************************************************************************)
(* The intake of a route is aborted, and the route is inactive unless it   *)
(* failed.                                                                 *)
(***************************************************************************)
LEMMA AbortIsFollowed ==
  ASSUME H!ConstantsOK, LedgerInv, NEW r \in Routes, H!Abort(r)
  PROVE  LedgerInv'
<1>1. H!TypeOK /\ StatusIsKept(r) /\ Followed(r) BY DEF LedgerInv
<1>2. /\ H!Held(r)' = H!Held(r) /\ Seen(r)' = Seen(r) /\ restarted' = restarted /\ dead' = dead
      /\ r \in intakeAborted' /\ H!Listens' = H!Listens
  BY DEF H!Held, Seen, H!Abort, H!Listens
<1>3. CASE H!Listens /\ record[r] # Nothing /\ record[r].lifecycle # "failed"
  <2> DEFINE rec == [record[r] EXCEPT
               !.lifecycle = IF record[r].everSucceeded THEN "completed" ELSE "stopped"]
  <2>1. record[r] \in H!Records BY <1>1, <1>3 DEF H!TypeOK
  <2>2. /\ rec \in H!Records /\ rec.lifecycle \in {"completed", "stopped"}
        /\ rec.breakers = record[r].breakers /\ rec.lastStatus = record[r].lastStatus
    BY <2>1 DEF H!Records, H!Lifecycles
  <2>3. H!SettleRoute(r, rec) BY <1>3 DEF H!Abort, H!RouteStopped
  <2> HIDE DEF rec
  <2>4. Fits(r, rec) BY <1>1, <1>3, <2>2 DEF Fits, StatusIsKept
  <2>5. /\ record' \in [Routes -> H!Records \union {Nothing}]
        /\ heard' \in [Routes -> H!Statuses \union {Nothing}]
        /\ record'[r] # Nothing
        /\ record'[r].lifecycle \in {"completed", "stopped"}
        /\ record'[r].breakers = record[r].breakers
        /\ StatusIsKept(r)'
        /\ \A q \in Routes \ {r} : record'[q] = record[q] /\ heard'[q] = heard[q]
    BY <1>1, <2>2, <2>3, <2>4, Settles
  <2>6. H!TypeOK' BY <1>1, <2>5 DEF H!TypeOK, H!Abort
  <2>7. Followed(r)'
    BY <1>1, <1>2, <1>3, <2>5 DEF Followed, BreakersAreSeen, LifecycleIsSeen
  <2> QED BY <2>5, <2>6, <2>7, OneRouteMoves DEF H!Abort
<1>4. CASE ~(H!Listens /\ record[r] # Nothing /\ record[r].lifecycle # "failed")
  <2>1. record' = record /\ heard' = heard BY <1>4 DEF H!Abort, H!RouteStopped, H!ledgerVars
  <2>2. H!TypeOK' BY <1>1, <2>1 DEF H!TypeOK, H!Abort
  <2>3. StatusIsKept(r)' BY <1>1, <2>1 DEF StatusIsKept, Fits, H!RouteStatus
  <2>4. Followed(r)'
    BY <1>1, <1>2, <1>4, <2>1 DEF Followed, BreakersAreSeen, LifecycleIsSeen
  <2> QED BY <2>1, <2>2, <2>3, <2>4, OneRouteMoves DEF H!Abort
<1> QED BY <1>3, <1>4

(***************************************************************************)
(* An exchange enters, or ends and is heard of.                            *)
(***************************************************************************)
LEMMA ExchangesAreFollowed ==
  ASSUME H!ConstantsOK, LedgerInv, NEW r \in Routes,
         H!Emit(r) \/ H!Complete(r) \/ H!Fail(r) \/ H!Drop(r)
  PROVE  LedgerInv'
<1>1. H!TypeOK /\ StatusIsKept(r) /\ Followed(r) BY DEF LedgerInv
<1>2. /\ work' \in [Routes -> 0..MaxWork] /\ outlived' \subseteq Routes
      /\ outlived \subseteq outlived' /\ outlived' \subseteq outlived \union {r}
      /\ UNCHANGED <<started, dead, intakeAborted, circuit, phase, restarted>>
  <2>1. work \in [Routes -> 0..MaxWork] /\ MaxWork \in Nat /\ outlived \subseteq Routes
    BY <1>1 DEF H!TypeOK, H!ConstantsOK
  <2>2. CASE H!Emit(r) BY <2>1, <2>2 DEF H!Emit
  <2>3. CASE H!Ends(r) /\ (H!Outlives(r) \/ UNCHANGED outlived) BY <2>1, <2>3 DEF H!Ends, H!Outlives
  <2> QED BY <2>2, <2>3 DEF H!Complete, H!Fail, H!Drop
<1>3. /\ H!Held(r)' = H!Held(r) /\ Seen(r)' = Seen(r) /\ H!Listens' = H!Listens
      /\ (H!Held(r) = {} => Seen(r) = {})
  BY <1>2 DEF H!Held, Seen, H!Listens
<1>4. CASE record' = record /\ heard' = heard
  <2>1. H!TypeOK' BY <1>1, <1>2, <1>4 DEF H!TypeOK
  <2>2. StatusIsKept(r)' BY <1>1, <1>4 DEF StatusIsKept, Fits, H!RouteStatus
  <2>3. Followed(r)' BY <1>1, <1>2, <1>3, <1>4 DEF Followed, BreakersAreSeen, LifecycleIsSeen
  <2> QED BY <1>2, <1>4, <2>1, <2>2, <2>3, OneRouteMoves
<1>5. /\ H!EnsureRoute(r) \in H!Records /\ Fits(r, H!EnsureRoute(r))
      /\ record[r] # Nothing => H!EnsureRoute(r) = record[r]
      /\ record[r] = Nothing =>
           H!EnsureRoute(r).lifecycle = "running" /\ H!EnsureRoute(r).breakers = {}
  BY <1>1, EnsuresARecord
<1>6. ASSUME H!Complete(r) \/ H!Fail(r), H!Listens, StatusIsKept(r)', record'[r] # Nothing,
             record' \in [Routes -> H!Records \union {Nothing}],
             heard' \in [Routes -> H!Statuses \union {Nothing}],
             record'[r].breakers = H!EnsureRoute(r).breakers,
             record'[r].lifecycle \in {H!EnsureRoute(r).lifecycle, "running"},
             H!EnsureRoute(r).lifecycle = "failed" => record'[r].lifecycle = "failed",
             \A q \in Routes \ {r} : record'[q] = record[q] /\ heard'[q] = heard[q]
      PROVE  LedgerInv'
  <2>1. H!TypeOK' BY <1>1, <1>2, <1>6 DEF H!TypeOK
  <2>2. r \in intakeAborted => r \in outlived' BY <1>1, <1>6 DEF H!Complete, H!Fail, H!Outlives, H!TypeOK
  <2>3. Followed(r)'
    <3>1. record'[r].lifecycle = "failed" => r \in dead'
      BY <1>1, <1>2, <1>5, <1>6 DEF Followed
    <3>2. r \notin restarted' => BreakersAreSeen(r)'
      BY <1>1, <1>2, <1>3, <1>5, <1>6 DEF Followed, BreakersAreSeen
    <3>3. r \notin restarted' => LifecycleIsSeen(r)'
      BY <1>1, <1>2, <1>5, <1>6, <2>2 DEF Followed, LifecycleIsSeen
    <3> QED BY <3>1, <3>2, <3>3 DEF Followed
  <2> QED BY <1>2, <1>6, <2>1, <2>3, OneRouteMoves
<1>7. CASE H!Complete(r) /\ H!Listens
  <2> DEFINE base == H!EnsureRoute(r)
             rec == [base EXCEPT
               !.lifecycle = IF base.lifecycle = "failed" THEN base.lifecycle ELSE "running",
               !.everSucceeded = TRUE]
  <2>1. H!SettleRoute(r, rec) BY <1>7 DEF H!Complete, H!ExchangeCompleted
  <2> HIDE DEF base
  <2>2. base \in H!Records /\ Fits(r, base) BY <1>5 DEF base
  <2>3. /\ rec \in H!Records /\ rec.breakers = base.breakers /\ Fits(r, rec)
        /\ rec.lifecycle \in {base.lifecycle, "running"}
        /\ base.lifecycle = "failed" => rec.lifecycle = "failed"
    BY <2>2 DEF H!Records, H!Lifecycles, Fits
  <2> HIDE DEF rec
  <2> QED BY <1>1, <1>6, <1>7, <2>1, <2>3, Settles DEF base
<1>8. CASE H!Fail(r) /\ H!Listens
  <2>1. /\ record' = [record EXCEPT ![r] = H!EnsureRoute(r)] /\ heard' = heard
    BY <1>8 DEF H!Fail, H!ExchangeFailed
  <2>2. /\ record' \in [Routes -> H!Records \union {Nothing}] /\ record'[r] = H!EnsureRoute(r)
        /\ \A q \in Routes \ {r} : record'[q] = record[q]
    BY <1>1, <1>5, <2>1 DEF H!TypeOK
  <2>3. record'[r] # Nothing BY <1>5, <2>2, RecordsAreRecords
  <2>4. H!EnsureRoute(r).lastStatus = H!RouteStatus(H!EnsureRoute(r))
    <3>1. CASE record[r] = Nothing
      <4>1. H!EnsureRoute(r) = H!NewRecord("running", "up") BY <3>1 DEF H!EnsureRoute
      <4>2. "running" \in H!Lifecycles /\ "up" \in H!Statuses BY DEF H!Lifecycles, H!Statuses
      <4> QED BY <4>1, <4>2, NewRecords DEF H!RouteStatus
    <3>2. CASE record[r] # Nothing BY <1>1, <1>5, <3>2 DEF StatusIsKept
    <3> QED BY <3>1, <3>2
  <2>5. StatusIsKept(r)' BY <1>5, <2>1, <2>2, <2>3, <2>4 DEF StatusIsKept, Fits, H!RouteStatus
  <2>6. heard' \in [Routes -> H!Statuses \union {Nothing}] BY <1>1, <2>1 DEF H!TypeOK
  <2> QED BY <1>6, <1>8, <2>1, <2>2, <2>3, <2>5, <2>6
<1> QED BY <1>4, <1>7, <1>8 DEF H!Emit, H!Complete, H!Fail, H!Drop, H!ledgerVars
(***************************************************************************)
(* A breaker opens, or lets a probe through: its label holds its state.    *)
(***************************************************************************)
LEMMA HoldsIsFollowed ==
  ASSUME H!ConstantsOK, LabelsDiffer, LedgerInv, NEW b \in Breakers,
         NEW from \in H!CircuitStates, NEW to \in H!CircuitStates \ {"closed"}, H!Holds(b, from, to)
  PROVE  LedgerInv'
<1> DEFINE r == RouteOf[b]
           label == LabelOf[b]
<1>1. r \in Routes /\ label \in Labels BY DEF H!ConstantsOK
<1> HIDE DEF r, label
<1>2. H!TypeOK /\ StatusIsKept(r) /\ Followed(r) BY <1>1 DEF LedgerInv
<1>3. /\ circuit' = [circuit EXCEPT ![b] = to] /\ circuit' \in [Breakers -> H!CircuitStates]
      /\ outlived \subseteq outlived' /\ outlived' \subseteq Routes
      /\ r \in intakeAborted => r \in outlived'
      /\ UNCHANGED <<started, dead, intakeAborted, work, phase, restarted>>
  BY <1>1, <1>2 DEF H!Holds, H!Moves, H!Outlives, H!TypeOK, r
<1>4. H!Listens' = H!Listens BY <1>3 DEF H!Listens
<1>5. \A d \in Breakers : RouteOf[d] # r => circuit'[d] = circuit[d]
  BY <1>2, <1>3 DEF H!TypeOK, r
<1>6. CASE H!Listens
  <2> DEFINE base == H!EnsureRoute(r)
             lines == {entry \in base.breakers : entry[1] # label} \union {<<label, to>>}
             rec == [base EXCEPT !.breakers = lines]
  <2>1. H!SettleRoute(r, rec) BY <1>6 DEF H!Holds, H!CircuitOpened, r, label
  <2>2. /\ base \in H!Records /\ Fits(r, base)
        /\ record[r] # Nothing => base = record[r]
        /\ record[r] = Nothing => base.lifecycle = "running" /\ base.breakers = {}
    BY <1>1, <1>2, EnsuresARecord
  <2> HIDE DEF base
  <2>3. lines \in SUBSET (Labels \X H!CircuitStates) BY <1>1, <2>2 DEF H!Records
  <2>4. r \notin restarted => lines = Seen(r)'
    <3> SUFFICES ASSUME r \notin restarted PROVE lines = Seen(r)'
      OBVIOUS
    <3>1. base.breakers = Seen(r)
      <4>1. H!Held(r) = {} => Seen(r) = {} BY DEF Seen
      <4> QED BY <1>2, <1>6, <2>2, <4>1 DEF Followed, BreakersAreSeen
    <3>2. Seen(r)' = {<<LabelOf[d], circuit'[d]>> : d \in H!Held(r)'} BY DEF Seen
    <3>3. H!Held(r)' = H!Held(r) \union {b}
      BY <1>2, <1>3 DEF H!Held, H!TypeOK, H!CircuitStates, r
    <3>4. circuit'[b] = to /\ \A d \in H!Held(r) \ {b} : circuit'[d] = circuit[d]
      BY <1>2, <1>3 DEF H!TypeOK, H!Held
    <3>5. \A d \in H!Held(r) : LabelOf[d] # label <=> d # b
      BY DEF LabelsDiffer, H!Held, r, label
    <3>6. lines \subseteq Seen(r)'
      <4>1. <<label, to>> \in Seen(r)' BY <3>2, <3>3, <3>4 DEF label
      <4>2. ASSUME NEW e \in base.breakers, e[1] # label PROVE e \in Seen(r)'
        <5>1. PICK d \in H!Held(r) : e = <<LabelOf[d], circuit[d]>> BY <3>1, <4>2 DEF Seen
        <5>2. d # b /\ circuit'[d] = circuit[d] BY <3>4, <4>2, <5>1 DEF label
        <5> QED BY <3>2, <3>3, <5>1, <5>2
      <4> QED BY <4>1, <4>2
    <3>7. Seen(r)' \subseteq lines
      <4> SUFFICES ASSUME NEW e \in Seen(r)' PROVE e \in lines
        OBVIOUS
      <4>1. PICK d \in H!Held(r)' : e = <<LabelOf[d], circuit'[d]>> BY <3>2
      <4>2. CASE d = b BY <3>4, <4>1, <4>2 DEF label
      <4>3. CASE d # b
        <5>1. d \in H!Held(r) /\ circuit'[d] = circuit[d] BY <3>3, <3>4, <4>3
        <5>2. e \in base.breakers /\ e[1] # label BY <3>1, <3>5, <4>1, <4>3, <5>1 DEF Seen
        <5> QED BY <5>2
      <4> QED BY <4>2, <4>3
    <3> QED BY <3>6, <3>7
  <2> HIDE DEF lines
  <2>5. /\ rec \in H!Records /\ rec.breakers = lines /\ Fits(r, rec)
        /\ rec.lifecycle = base.lifecycle
    BY <2>2, <2>3 DEF H!Records, Fits
  <2> HIDE DEF rec
  <2>6. /\ record' \in [Routes -> H!Records \union {Nothing}]
        /\ heard' \in [Routes -> H!Statuses \union {Nothing}]
        /\ record'[r] # Nothing
        /\ record'[r].lifecycle = base.lifecycle /\ record'[r].breakers = lines
        /\ StatusIsKept(r)'
        /\ \A q \in Routes \ {r} : record'[q] = record[q] /\ heard'[q] = heard[q]
    BY <1>1, <1>2, <2>1, <2>5, Settles
  <2>7. H!TypeOK' BY <1>2, <1>3, <2>6 DEF H!TypeOK
  <2>8. Followed(r)'
    <3>1. record'[r].lifecycle = "failed" => r \in dead'
      BY <1>2, <1>3, <1>6, <2>2, <2>6 DEF Followed
    <3>2. r \notin restarted' => BreakersAreSeen(r)'
      BY <1>3, <2>4, <2>6 DEF BreakersAreSeen
    <3>3. r \notin restarted' => LifecycleIsSeen(r)'
      BY <1>2, <1>3, <1>6, <2>2, <2>6 DEF Followed, LifecycleIsSeen
    <3> QED BY <3>1, <3>2, <3>3 DEF Followed
  <2> QED BY <1>1, <1>3, <1>5, <2>6, <2>7, <2>8, OneRouteMoves
<1>7. CASE ~H!Listens
  <2>1. record' = record /\ heard' = heard BY <1>7 DEF H!Holds, H!ledgerVars
  <2>2. H!TypeOK' BY <1>2, <1>3, <2>1 DEF H!TypeOK
  <2>3. StatusIsKept(r)' BY <1>2, <2>1 DEF StatusIsKept, Fits, H!RouteStatus
  <2>4. Followed(r)' BY <1>4, <1>7 DEF Followed
  <2> QED BY <1>1, <1>3, <1>5, <2>1, <2>2, <2>3, <2>4, OneRouteMoves
<1> QED BY <1>6, <1>7

(***************************************************************************)
(* A breaker closes: its label is taken out.                               *)
(***************************************************************************)
LEMMA ClosesIsFollowed ==
  ASSUME H!ConstantsOK, LabelsDiffer, LedgerInv, NEW b \in Breakers, H!Closes(b)
  PROVE  LedgerInv'
<1> DEFINE r == RouteOf[b]
           label == LabelOf[b]
<1>1. r \in Routes /\ label \in Labels BY DEF H!ConstantsOK
<1> HIDE DEF r, label
<1>2. H!TypeOK /\ StatusIsKept(r) /\ Followed(r) BY <1>1 DEF LedgerInv
<1>3. /\ circuit' = [circuit EXCEPT ![b] = "closed"] /\ circuit' \in [Breakers -> H!CircuitStates]
      /\ circuit[b] = "half-open"
      /\ outlived \subseteq outlived' /\ outlived' \subseteq Routes
      /\ r \in intakeAborted => r \in outlived'
      /\ UNCHANGED <<started, dead, intakeAborted, work, phase, restarted>>
  BY <1>1, <1>2 DEF H!Closes, H!Moves, H!Outlives, H!TypeOK, H!CircuitStates, r
<1>4. H!Listens' = H!Listens BY <1>3 DEF H!Listens
<1>5. \A d \in Breakers : RouteOf[d] # r => circuit'[d] = circuit[d]
  BY <1>2, <1>3 DEF H!TypeOK, r
<1>6. CASE H!Listens /\ record[r] # Nothing
  <2> DEFINE base == record[r]
             lines == {entry \in base.breakers : entry[1] # label}
             rec == [base EXCEPT !.breakers = lines]
  <2>1. H!SettleRoute(r, rec) BY <1>6 DEF H!Closes, H!CircuitClosed, r, label
  <2>2. base \in H!Records /\ Fits(r, base) BY <1>1, <1>2, <1>6 DEF StatusIsKept, H!TypeOK
  <2>3. lines \in SUBSET (Labels \X H!CircuitStates) BY <2>2 DEF H!Records
  <2>4. r \notin restarted => lines = Seen(r)'
    <3> SUFFICES ASSUME r \notin restarted PROVE lines = Seen(r)'
      OBVIOUS
    <3>1. base.breakers = Seen(r) BY <1>2, <1>6 DEF Followed, BreakersAreSeen
    <3>2. Seen(r)' = {<<LabelOf[d], circuit'[d]>> : d \in H!Held(r)'} BY DEF Seen
    <3>3. H!Held(r)' = H!Held(r) \ {b}
      BY <1>2, <1>3 DEF H!Held, H!TypeOK, H!CircuitStates, r
    <3>4. \A d \in H!Held(r) \ {b} : circuit'[d] = circuit[d]
      BY <1>2, <1>3 DEF H!TypeOK, H!Held
    <3>5. \A d \in H!Held(r) : LabelOf[d] # label <=> d # b
      BY DEF LabelsDiffer, H!Held, r, label
    <3>6. lines \subseteq Seen(r)'
      <4> SUFFICES ASSUME NEW e \in base.breakers, e[1] # label PROVE e \in Seen(r)'
        OBVIOUS
      <4>1. PICK d \in H!Held(r) : e = <<LabelOf[d], circuit[d]>> BY <3>1 DEF Seen
      <4>2. d # b /\ circuit'[d] = circuit[d] BY <3>4, <4>1 DEF label
      <4> QED BY <3>2, <3>3, <4>1, <4>2
    <3>7. Seen(r)' \subseteq lines
      <4> SUFFICES ASSUME NEW e \in Seen(r)' PROVE e \in lines
        OBVIOUS
      <4>1. PICK d \in H!Held(r)' : e = <<LabelOf[d], circuit'[d]>> BY <3>2
      <4>2. d \in H!Held(r) /\ d # b /\ circuit'[d] = circuit[d] BY <3>3, <3>4
      <4> QED BY <3>1, <3>5, <4>1, <4>2 DEF Seen
    <3> QED BY <3>6, <3>7
  <2> HIDE DEF lines
  <2>5. /\ rec \in H!Records /\ rec.breakers = lines /\ Fits(r, rec)
        /\ rec.lifecycle = base.lifecycle
    BY <2>2, <2>3 DEF H!Records, Fits
  <2> HIDE DEF rec
  <2>6. /\ record' \in [Routes -> H!Records \union {Nothing}]
        /\ heard' \in [Routes -> H!Statuses \union {Nothing}]
        /\ record'[r] # Nothing
        /\ record'[r].lifecycle = base.lifecycle /\ record'[r].breakers = lines
        /\ StatusIsKept(r)'
        /\ \A q \in Routes \ {r} : record'[q] = record[q] /\ heard'[q] = heard[q]
    BY <1>1, <1>2, <2>1, <2>5, Settles
  <2>7. H!TypeOK' BY <1>2, <1>3, <2>6 DEF H!TypeOK
  <2>8. Followed(r)'
    BY <1>2, <1>3, <1>6, <2>4, <2>6 DEF Followed, BreakersAreSeen, LifecycleIsSeen
  <2> QED BY <1>1, <1>3, <1>5, <2>6, <2>7, <2>8, OneRouteMoves
<1>7. CASE ~(H!Listens /\ record[r] # Nothing)
  <2>1. record' = record /\ heard' = heard
    BY <1>7 DEF H!Closes, H!CircuitClosed, H!ledgerVars, r
  <2>2. H!TypeOK' BY <1>2, <1>3, <2>1 DEF H!TypeOK
  <2>3. StatusIsKept(r)' BY <1>2, <2>1 DEF StatusIsKept, Fits, H!RouteStatus
  <2>4. Followed(r)'
    <3>1. b \in H!Held(r) BY <1>3 DEF H!Held, r
    <3>2. H!Listens => r \in restarted /\ record'[r] = Nothing
      BY <1>2, <1>7, <2>1, <3>1 DEF Followed, BreakersAreSeen
    <3> QED BY <1>3, <1>4, <3>2 DEF Followed
  <2> QED BY <1>1, <1>3, <1>5, <2>1, <2>2, <2>3, <2>4, OneRouteMoves
<1> QED BY <1>6, <1>7

(***************************************************************************)
(* The start hook declares the routes it has not heard of as inactive.     *)
(***************************************************************************)
LEMMA StartHookIsFollowed ==
  ASSUME H!ConstantsOK, LedgerInv, H!StartHook
  PROVE  LedgerInv'
<1>1. H!TypeOK /\ H!Listens BY DEF LedgerInv, H!StartHook, H!Listens
<1>2. /\ record' = [r \in Routes |-> H!DeclareRoute(r)] /\ phase' = "started"
      /\ UNCHANGED <<started, dead, intakeAborted, work, circuit, heard, restarted, outlived>>
  BY DEF H!StartHook
<1>3. ASSUME NEW r \in Routes
      PROVE /\ record'[r] \in H!Records /\ record'[r] # Nothing
            /\ record[r] # Nothing => record'[r] = record[r]
            /\ record[r] = Nothing =>
                 /\ record'[r].lifecycle = "stopped" /\ record'[r].breakers = {}
                 /\ record'[r].lastStatus = "inactive"
  <2>1. "stopped" \in H!Lifecycles /\ "inactive" \in H!Statuses BY DEF H!Lifecycles, H!Statuses
  <2>2. record'[r] \in H!Records BY <1>1, <1>2, <2>1, NewRecords DEF H!DeclareRoute, H!TypeOK
  <2> QED BY <1>2, <2>1, <2>2, NewRecords, RecordsAreRecords DEF H!DeclareRoute
<1>4. H!TypeOK' BY <1>1, <1>2, <1>3 DEF H!TypeOK
<1>5. ASSUME NEW r \in Routes PROVE StatusIsKept(r)' /\ Followed(r)'
  <2>1. StatusIsKept(r) /\ Followed(r) BY DEF LedgerInv
  <2>2. H!Held(r)' = H!Held(r) /\ Seen(r)' = Seen(r) /\ (H!Held(r) = {} => Seen(r) = {})
    BY <1>2 DEF H!Held, Seen
  <2>3. StatusIsKept(r)' BY <1>2, <1>3, <2>1 DEF StatusIsKept, Fits, H!RouteStatus
  <2>4. Followed(r)'
    BY <1>1, <1>2, <1>3, <2>1, <2>2 DEF Followed, BreakersAreSeen, LifecycleIsSeen
  <2> QED BY <2>3, <2>4
<1> QED BY <1>4, <1>5 DEF LedgerInv

(***************************************************************************)
(* The context stops; the ledger listens until its teardown.               *)
(***************************************************************************)
LEMMA StopIsFollowed ==
  ASSUME LedgerInv, H!ContextStopping \/ H!Teardown \/ UNCHANGED H!vars
  PROVE  LedgerInv'
<1>1. /\ UNCHANGED <<started, dead, intakeAborted, work, circuit, record, heard, restarted, outlived>>
      /\ phase' = phase \/ phase' \in {"stopping", "stopped"}
      /\ H!Listens' => H!Listens
  BY DEF H!ContextStopping, H!Teardown, H!vars, H!routeVars, H!ledgerVars, H!Listens
<1>2. H!TypeOK' BY <1>1 DEF LedgerInv, H!TypeOK
<1>3. ASSUME NEW r \in Routes PROVE StatusIsKept(r)' /\ Followed(r)'
  <2>1. H!Held(r)' = H!Held(r) BY <1>1 DEF H!Held
  <2>2. StatusIsKept(r) /\ Followed(r) BY DEF LedgerInv
  <2> QED BY <1>1, <2>1, <2>2, OthersAreKept
<1> QED BY <1>2, <1>3 DEF LedgerInv

(***************************************************************************)
(* LedgerInv is inductive.                                                 *)
(***************************************************************************)
THEOREM LedgerIsFollowed ==
  ASSUME H!ConstantsOK, LabelsDiffer
  PROVE  H!Spec => []LedgerInv
<1>1. H!Init => LedgerInv
  <2> SUFFICES ASSUME H!Init PROVE LedgerInv
    OBVIOUS
  <2>1. H!TypeOK BY DEF H!Init, H!TypeOK, H!ConstantsOK, H!CircuitStates
  <2>2. ASSUME NEW r \in Routes PROVE StatusIsKept(r) /\ Followed(r)
    BY DEF H!Init, StatusIsKept, Followed, BreakersAreSeen, LifecycleIsSeen, H!Held
  <2> QED BY <2>1, <2>2 DEF LedgerInv
<1>2. LedgerInv /\ [H!Next]_(H!vars) => LedgerInv'
  <2> SUFFICES ASSUME LedgerInv, [H!Next]_(H!vars) PROVE LedgerInv'
    OBVIOUS
  <2>1. CASE \E r \in Routes :
               H!Ready(r) \/ H!SourceFails(r) \/ H!Abort(r) \/ H!Emit(r) \/ H!Complete(r) \/ H!Fail(r) \/ H!Drop(r)
    BY <2>1, ReadyIsFollowed, SourceFailsIsFollowed, AbortIsFollowed, ExchangesAreFollowed
  <2>2. CASE \E b \in Breakers :
               \/ H!Holds(b, "closed", "open") \/ H!Holds(b, "open", "half-open")
               \/ H!Holds(b, "half-open", "open") \/ H!Closes(b)
    <3>1. "closed" \in H!CircuitStates /\ "open" \in H!CircuitStates \ {"closed"}
          /\ "half-open" \in H!CircuitStates \ {"closed"}
      BY DEF H!CircuitStates
    <3> QED BY <2>2, <3>1, HoldsIsFollowed, ClosesIsFollowed
  <2> QED BY <2>1, <2>2, StartHookIsFollowed, StopIsFollowed DEF H!Next
<1> QED BY <1>1, <1>2, PTL DEF H!Spec

(***************************************************************************)
(* Who follows the announcements knows what the report says, and the       *)
(* report is true.                                                         *)
(***************************************************************************)
THEOREM HealthIsTold ==
  ASSUME H!ConstantsOK, LabelsDiffer
  PROVE  H!Spec => [](H!AnnouncedIsReported /\ H!ReportIsTrue)
<1>1. LedgerInv => H!AnnouncedIsReported /\ H!ReportIsTrue
  <2> SUFFICES ASSUME LedgerInv PROVE H!AnnouncedIsReported /\ H!ReportIsTrue
    OBVIOUS
  <2>1. H!AnnouncedIsReported BY DEF LedgerInv, StatusIsKept, Fits, H!AnnouncedIsReported
  <2>2. ASSUME NEW r \in Routes, H!Listens, record[r] # Nothing
        PROVE /\ H!Reported(r) = "down" => r \in dead
              /\ r \notin restarted =>
                   /\ r \in dead => H!Reported(r) = "down"
                   /\ r \in started \ (dead \union intakeAborted) =>
                        H!Reported(r) = IF H!Held(r) = {} THEN "up" ELSE "degraded"
                   /\ r \in intakeAborted \ (dead \union outlived) => H!Reported(r) = "inactive"
    <3>1. Followed(r) /\ (Seen(r) = {} <=> H!Held(r) = {}) BY DEF LedgerInv, Seen
    <3>2. H!Reported(r) = "down" => record[r].lifecycle = "failed" BY DEF H!Reported, H!RouteStatus
    <3> QED BY <2>2, <3>1, <3>2
        DEF Followed, BreakersAreSeen, LifecycleIsSeen, H!Reported, H!RouteStatus
  <2> QED BY <2>1, <2>2 DEF H!ReportIsTrue
<1> QED BY <1>1, LedgerIsFollowed, PTL

-----------------------------------------------------------------------------
(***************************************************************************)
(* The manager of an MCP process.  What ^ means, which the provers do not  *)
(* know.                                                                   *)
(***************************************************************************)
PowersArePowers ==
  /\ Multiplier ^ 0 = 1
  /\ \A n \in Nat : Multiplier ^ (n + 1) = Multiplier * Multiplier ^ n

(***************************************************************************)
(* The timers of a kind, and the calls of start() that are not up yet.     *)
(***************************************************************************)
TimersOf(kind) == {t \in timers : t.kind = kind}
NotUp == {i \in 1..Len(starts) : starts[i].pc \in {"loading", "connecting"}}
Restarting == {i \in S!UnderWay : starts[i].auto}

(***************************************************************************)
(* Undisturbed, the manager has one process, one start() or one restart    *)
(* that is due, and after a stop() only what it closes.                    *)
(***************************************************************************)
OneAtATime ==
  /\ stopping = (stop # "no")
  /\ \A i \in S!Alive : i = Len(starts) /\ client = i /\ stop \in {"no", "closing client"}
  /\ \A i \in S!UnderWay : i = Len(starts) /\ stop = "no"
  /\ \A i \in 1..Len(starts) :
       starts[i].pc = "loading" => S!Alive = {} /\ TimersOf("restart") = {}
  /\ NotUp # {} => ~running
  /\ \A t \in TimersOf("restart") :
       /\ t.due = restartTimer /\ stop = "no" /\ ~running /\ S!Alive = {}
       /\ S!UnderWay # {} => t.due > uptime
  /\ \A t, u \in TimersOf("restart") : t = u

(***************************************************************************)
(* A stability timer outlives no restart: the next process comes up after  *)
(* it fired, so one that fires while a process runs found it up in time.   *)
(***************************************************************************)
PardonsAreEarned ==
  stop = "no" =>
    /\ streak <= restartCount \/ (running /\ uptime - upSince >= S!Stable)
    /\ TimersOf("restart") # {} => restartCount < MaxRestarts
    /\ Restarting # {} => restartCount >= 1 /\ \A u \in TimersOf("restart") : uptime + S!Stable <= u.due
    /\ \A t \in TimersOf("stability") :
         /\ restartCount >= 1 /\ t.due <= uptime + S!Stable
         /\ running => upSince + S!Stable <= t.due
         /\ \A u \in TimersOf("restart") : t.due <= u.due
         /\ NotUp # {} => t.due <= uptime
         /\ \A i \in S!UnderWay : starts[i].pc # "listing"
    /\ \A t, u \in TimersOf("stability") : t = u

Steps == [pc : {"loading", "connecting", "listing", "done", "failed"},
          alive : BOOLEAN, auto : BOOLEAN]
Timers == [kind : {"restart", "stability"}, due : Nat, n : Nat]

ManagerTypes ==
  /\ S!TypeOK
  /\ timers \subseteq Timers /\ IsFiniteSet(timers)

ManagerInv ==
  /\ ManagerTypes
  /\ ~disturbed => OneAtATime
  /\ ~disturbed /\ Multiplier >= 2 => streak <= MaxRestarts /\ PardonsAreEarned

-----------------------------------------------------------------------------
(***************************************************************************)
(* Every set of numbers has a least one.                                   *)
(***************************************************************************)
LEMMA SomeAreLeast ==
  ASSUME NEW W, W \subseteq Nat, W # {}
  PROVE  \E n \in W : \A m \in W : n <= m
<1> DEFINE R == OpToRel(<, Nat)
<1>1. IsWellFoundedOn(R, Nat) BY NatLessThanWellFounded
<1>2. \A x, y \in Nat : x < y => <<x, y>> \in R BY DEF OpToRel
<1> HIDE DEF R
<1>3. PICK n \in W : \A m \in W : ~(<<m, n>> \in R) BY <1>1, WFMin
<1>4. \A m \in W : ~(m < n) BY <1>2, <1>3
<1> QED BY <1>4

(***************************************************************************)
(* A delay is never shorter than the first, and with a multiplier of 2 all *)
(* but the first last as long as a process must stay up.                   *)
(***************************************************************************)
LEMMA DelaysGrow ==
  ASSUME S!ConstantsOK, PowersArePowers, NEW n \in Nat
  PROVE  /\ S!Delay(n) \in Nat /\ S!Delay(n) >= 1
         /\ Multiplier >= 2 /\ n >= 1 => S!Delay(n) >= S!Stable
<1> DEFINE Grown(k) == /\ Multiplier ^ k \in Nat /\ Multiplier ^ k >= 1
                       /\ Multiplier >= 2 /\ k >= 1 => Multiplier ^ k >= 2
           Small == {k \in Nat : ~Grown(k)}
<1>0. Multiplier \in Nat /\ Multiplier >= 1 /\ RestartDelay \in Nat /\ RestartDelay >= 1
  BY DEF S!ConstantsOK
<1>1. Small = {}
  <2> SUFFICES ASSUME Small # {} PROVE FALSE
    OBVIOUS
  <2>1. PICK k \in Small : \A m \in Small : k <= m BY SomeAreLeast
  <2>2. k # 0 BY <2>1, <1>0 DEF PowersArePowers
  <2>3. PICK j \in Nat : k = j + 1 BY <2>1, <2>2
  <2>4. Grown(j) BY <2>1, <2>3
  <2>5. PICK p \in Nat : p = Multiplier ^ j BY <2>4
  <2>6. Multiplier ^ k = Multiplier * p BY <2>3, <2>5 DEF PowersArePowers
  <2>7. p >= 1 BY <2>4, <2>5
  <2>8. Multiplier * p \in Nat /\ Multiplier * p >= Multiplier
    <3> HIDE DEF Grown, Small
    <3>1. PICK m \in Nat : m = Multiplier BY <1>0
    <3>2. m * p \in Nat /\ m * p >= m BY <2>7
    <3> QED BY <3>1, <3>2
  <2>9. Grown(k) BY <1>0, <2>6, <2>8
  <2> QED BY <2>1, <2>9
<1>2. Grown(n) BY <1>1
<1>3. PICK p \in Nat : p = Multiplier ^ n BY <1>2
<1>4. p >= 1 /\ (Multiplier >= 2 /\ n >= 1 => p >= 2) BY <1>2, <1>3
<1> HIDE DEF Grown, Small
<1>5. PICK d \in Nat : d = RestartDelay BY <1>0
<1>6. d * p \in Nat /\ d * p >= d /\ (p >= 2 => d * p >= d * 2) BY <1>4
<1> QED BY <1>0, <1>3, <1>4, <1>5, <1>6 DEF S!Delay, S!Stable

(***************************************************************************)
(* A timer that is armed was not pending.                                  *)
(***************************************************************************)
LEMMA ArmedIsNew ==
  ASSUME timers \subseteq Timers, IsFiniteSet(timers),
         NEW kind \in {"restart", "stability"}, NEW due \in Nat
  PROVE  /\ S!Armed(kind, due) \in Timers \ timers
         /\ S!Armed(kind, due).kind = kind /\ S!Armed(kind, due).due = due
<1> DEFINE c == Cardinality(timers)
           N == {S!Timer(kind, due, n) : n \in 0..c}
           f == [n \in 0..c |-> S!Timer(kind, due, n)]
<1>1. c \in Nat BY FS_CardinalityType
<1>2. ~(N \subseteq timers)
  <2> SUFFICES ASSUME N \subseteq timers PROVE FALSE
    OBVIOUS
  <2>1. f \in Injection(0..c, timers)
    <3>1. \A n \in 0..c : f[n] \in timers OBVIOUS
    <3>2. \A m, n \in 0..c : f[m] = f[n] => m = n BY DEF S!Timer
    <3> HIDE DEF f, N
    <3>3. f \in [0..c -> timers] BY <3>1 DEF f
    <3> QED BY <3>2, <3>3 DEF Injection, IsInjective
  <2> HIDE DEF f
  <2>2. Cardinality(0..c) <= c BY <2>1, FS_Injection
  <2>3. Cardinality(0..c) = c + 1
    <3> HIDE DEF c
    <3>1. c \in Int /\ 0 \in Int BY <1>1
    <3>2. Cardinality(0..c) = IF 0 > c THEN 0 ELSE c - 0 + 1 BY <3>1, FS_Interval
    <3> QED BY <1>1, <3>2
  <2> QED BY <1>1, <2>2, <2>3
<1>3. S!Armed(kind, due) \in N \ timers BY <1>2 DEF S!Armed, S!Cardinality, Cardinality
<1>4. \A t \in N : t \in Timers /\ t.kind = kind /\ t.due = due BY <1>1 DEF S!Timer, Timers
<1> QED BY <1>3, <1>4

(***************************************************************************)
(* One call of start() goes on.                                            *)
(***************************************************************************)
LEMMA OneGoesOn ==
  ASSUME ManagerTypes, NEW i \in 1..Len(starts), NEW x \in Steps, starts' = [starts EXCEPT ![i] = x]
  PROVE  /\ starts' \in Seq(Steps) /\ Len(starts') = Len(starts) /\ starts'[i] = x
         /\ \A j \in 1..Len(starts) : j # i => starts'[j] = starts[j]
<1>1. starts \in Seq(Steps) BY DEF ManagerTypes, S!TypeOK, Steps
<1> QED BY <1>1

(***************************************************************************)
(* What it becomes.                                                        *)
(***************************************************************************)
LEMMA OneBecomes ==
  ASSUME ManagerTypes, NEW i \in 1..Len(starts), NEW pc, NEW alive
  PROVE  /\ [starts EXCEPT ![i].pc = pc]
              = [starts EXCEPT ![i] = [pc |-> pc, alive |-> starts[i].alive, auto |-> starts[i].auto]]
         /\ [starts EXCEPT ![i].alive = alive]
              = [starts EXCEPT ![i] = [pc |-> starts[i].pc, alive |-> alive, auto |-> starts[i].auto]]
<1>1. starts \in Seq(Steps) BY DEF ManagerTypes, S!TypeOK, Steps
<1>2. PICK y \in Steps : y = starts[i] BY <1>1
<1>3. y = [pc |-> y.pc, alive |-> y.alive, auto |-> y.auto] BY DEF Steps
<1>4. /\ [y EXCEPT !.pc = pc] = [pc |-> pc, alive |-> y.alive, auto |-> y.auto]
      /\ [y EXCEPT !.alive = alive] = [pc |-> y.pc, alive |-> alive, auto |-> y.auto]
  BY <1>3
<1> QED BY <1>1, <1>2, <1>4

(***************************************************************************)
(* What the types say of each, as facts about numbers.                     *)
(***************************************************************************)
LEMMA TheirTypes ==
  ASSUME S!ConstantsOK, ManagerInv
  PROVE  /\ starts \in Seq(Steps) /\ Len(starts) \in Nat
         /\ \A i \in 1..Len(starts) : starts[i] \in Steps
         /\ uptime \in Nat /\ upSince \in Nat /\ upSince <= uptime /\ restartCount \in Nat /\ streak \in Nat
         /\ S!Stable \in Nat /\ S!Stable >= 1 /\ MaxRestarts \in Nat /\ Multiplier \in Nat /\ MaxUptime \in Nat
         /\ timers \subseteq Timers /\ IsFiniteSet(timers) /\ \A t \in timers : t.due \in Nat
<1>1. starts \in Seq(Steps) BY DEF ManagerInv, ManagerTypes, S!TypeOK, Steps
<1>2. S!Stable \in Nat /\ S!Stable >= 1 /\ MaxRestarts \in Nat /\ Multiplier \in Nat /\ MaxUptime \in Nat
  BY DEF S!ConstantsOK, S!Stable
<1>3. timers \subseteq Timers /\ IsFiniteSet(timers) /\ \A t \in timers : t.due \in Nat
  BY DEF ManagerInv, ManagerTypes, Timers
<1>4. uptime \in 1..MaxUptime /\ upSince \in 0..uptime /\ restartCount \in Nat /\ streak \in Nat
  BY DEF ManagerInv, ManagerTypes, S!TypeOK
<1>5. uptime \in Nat /\ upSince \in Nat /\ upSince <= uptime BY <1>2, <1>4
<1> QED BY <1>1, <1>2, <1>3, <1>4, <1>5

(***************************************************************************)
(* The SDK is loaded: a process is spawned.                                *)
(***************************************************************************)
LEMMA SpawnIsFine ==
  ASSUME S!ConstantsOK, ManagerInv, NEW i \in 1..Len(starts), S!Spawn(i)
  PROVE  ManagerInv'
<1>1. PICK x \in Steps : /\ x = [pc |-> "connecting", alive |-> TRUE, auto |-> starts[i].auto]
                         /\ starts' = [starts EXCEPT ![i] = x]
  <2>1. starts[i] \in Steps BY TheirTypes
  <2>2. [pc |-> "connecting", alive |-> TRUE, auto |-> starts[i].auto] \in Steps
    BY <2>1 DEF Steps
  <2>3. starts' = [starts EXCEPT ![i] = [pc |-> "connecting", alive |-> TRUE, auto |-> starts[i].auto]]
    <3>1. PICK y \in Steps : y = starts[i] BY <2>1
    <3>2. [y EXCEPT !.pc = "connecting"] = [pc |-> "connecting", alive |-> y.alive, auto |-> y.auto]
      BY DEF Steps
    <3>3. PICK z : z = [pc |-> "connecting", alive |-> y.alive, auto |-> y.auto] OBVIOUS
    <3>4. PICK a : a = TRUE OBVIOUS
    <3>6. [z EXCEPT !.alive = a] = [pc |-> "connecting", alive |-> a, auto |-> y.auto] BY <3>3
    <3>5. [[y EXCEPT !.pc = "connecting"] EXCEPT !.alive = TRUE]
            = [pc |-> "connecting", alive |-> TRUE, auto |-> y.auto]
      BY <3>2, <3>3, <3>4, <3>6
    <3> QED BY <3>1, <3>5, TheirTypes DEF S!Spawn
  <2> QED BY <2>2, <2>3
<1>2. /\ starts' \in Seq(Steps) /\ Len(starts') = Len(starts) /\ starts'[i] = x
      /\ \A j \in 1..Len(starts) : j # i => starts'[j] = starts[j]
  BY <1>1, OneGoesOn DEF ManagerInv
<1>3. /\ client' = i /\ transport' = i /\ starts[i].pc = "loading"
      /\ UNCHANGED <<uptime, running, stopping, restartCount, timers, restartTimer,
                     stabilityTimer, stop, streak, upSince, disturbed>>
  BY DEF S!Spawn, S!history
<1>4. ManagerTypes'
  <2>1. client' \in 0..Len(starts') /\ transport' \in 0..Len(starts') BY <1>2, <1>3, TheirTypes
  <2> QED BY <1>2, <1>3, <2>1 DEF ManagerInv, ManagerTypes, S!TypeOK, Steps
<1>5. TimersOf("restart")' = TimersOf("restart") /\ TimersOf("stability")' = TimersOf("stability")
  BY <1>3 DEF TimersOf
<1>6. S!UnderWay' = S!UnderWay /\ NotUp' = NotUp /\ Restarting' = Restarting
  BY <1>1, <1>2, <1>3 DEF S!UnderWay, NotUp, Restarting
<1>7. ASSUME OneAtATime PROVE OneAtATime'
  <2>1. i \in S!UnderWay /\ S!Alive = {} /\ TimersOf("restart") = {} /\ i = Len(starts) /\ stop = "no"
    BY <1>3, <1>7 DEF OneAtATime, S!UnderWay
  <2>2. \A j \in S!Alive' : j = i BY <1>1, <1>2, <2>1 DEF S!Alive
  <2>3. \A j \in 1..Len(starts') : starts'[j].pc # "loading"
    BY <1>1, <1>2, <1>7, <2>1 DEF OneAtATime, S!UnderWay
  <2> QED BY <1>2, <1>3, <1>5, <1>6, <1>7, <2>1, <2>2, <2>3 DEF OneAtATime
<1>8. ASSUME PardonsAreEarned PROVE PardonsAreEarned'
  <2>1. \A j \in S!UnderWay : starts[j].pc # "listing" => starts'[j].pc # "listing"
    BY <1>1, <1>2 DEF S!UnderWay
  <2> QED BY <1>3, <1>5, <1>6, <1>8, <2>1 DEF PardonsAreEarned
<1> QED BY <1>3, <1>4, <1>7, <1>8 DEF ManagerInv

(***************************************************************************)
(* The handshake succeeds: the process is in use.                          *)
(***************************************************************************)
LEMMA ConnectIsFine ==
  ASSUME S!ConstantsOK, ManagerInv, NEW i \in 1..Len(starts), S!Connect(i)
  PROVE  ManagerInv'
<1>1. PICK x \in Steps : /\ x = [pc |-> "listing", alive |-> starts[i].alive, auto |-> starts[i].auto]
                         /\ starts' = [starts EXCEPT ![i] = x]
  <2>1. starts[i] \in Steps BY TheirTypes
  <2>2. [pc |-> "listing", alive |-> starts[i].alive, auto |-> starts[i].auto] \in Steps
    BY <2>1 DEF Steps
  <2>3. starts' = [starts EXCEPT ![i] = [pc |-> "listing", alive |-> starts[i].alive, auto |-> starts[i].auto]]
    BY OneBecomes DEF S!Connect, S!Goes, ManagerInv
  <2> QED BY <2>2, <2>3
<1>2. /\ starts' \in Seq(Steps) /\ Len(starts') = Len(starts) /\ starts'[i] = x
      /\ \A j \in 1..Len(starts) : j # i => starts'[j] = starts[j]
  BY <1>1, OneGoesOn DEF ManagerInv
<1>3. /\ running' = TRUE /\ upSince' = uptime /\ starts[i].pc = "connecting" /\ starts[i].alive /\ S!Due = {}
      /\ UNCHANGED <<uptime, client, transport, stopping, restartCount, timers, restartTimer,
                     stabilityTimer, stop, streak, disturbed>>
  BY DEF S!Connect, S!fields
<1>4. ManagerTypes'
  <2>1. client' \in 0..Len(starts') /\ transport' \in 0..Len(starts')
    BY <1>2, <1>3 DEF ManagerInv, ManagerTypes, S!TypeOK
  <2>2. upSince' \in 0..uptime' BY <1>3, TheirTypes
  <2> QED BY <1>2, <1>3, <2>1, <2>2 DEF ManagerInv, ManagerTypes, S!TypeOK, Steps
<1>5. TimersOf("restart")' = TimersOf("restart") /\ TimersOf("stability")' = TimersOf("stability")
  BY <1>3 DEF TimersOf
<1>6. S!UnderWay' = S!UnderWay /\ Restarting' = Restarting /\ S!Alive' = S!Alive
  BY <1>1, <1>2, <1>3 DEF S!UnderWay, Restarting, S!Alive
<1>7. ASSUME OneAtATime PROVE OneAtATime'
  <2>1. i \in S!UnderWay /\ i \in S!Alive /\ TimersOf("restart") = {} /\ i = Len(starts) /\ stop = "no"
    BY <1>3, <1>7 DEF OneAtATime, S!UnderWay, S!Alive
  <2>2. \A j \in 1..Len(starts') : starts'[j].pc \notin {"loading", "connecting"}
    BY <1>1, <1>2, <1>7, <2>1 DEF OneAtATime, S!UnderWay
  <2>3. NotUp' = {} BY <2>2 DEF NotUp
  <2> QED BY <1>2, <1>3, <1>5, <1>6, <1>7, <2>1, <2>2, <2>3 DEF OneAtATime
<1>8. ASSUME OneAtATime, PardonsAreEarned PROVE PardonsAreEarned'
  <2>1. stop = "no" /\ i \in NotUp /\ i \in S!Alive /\ ~running
    BY <1>3, <1>8 DEF OneAtATime, S!UnderWay, NotUp, S!Alive
  <2>2. TimersOf("stability") = {}
    BY <1>3, <1>8, <2>1 DEF PardonsAreEarned, TimersOf, S!Due
  <2>3. TimersOf("restart") = {} BY <1>8, <2>1 DEF OneAtATime
  <2> QED BY <1>3, <1>5, <1>6, <1>8, <2>1, <2>2, <2>3 DEF PardonsAreEarned
<1> QED BY <1>3, <1>4, <1>7, <1>8 DEF ManagerInv

(***************************************************************************)
(* A handshake that fails disturbs; nothing but the types is promised.     *)
(***************************************************************************)
LEMMA ConnectFailsIsFine ==
  ASSUME S!ConstantsOK, PowersArePowers, ManagerInv, NEW i \in 1..Len(starts), S!ConnectFails(i)
  PROVE  ManagerInv'
<1>1. PICK x \in Steps : starts' = [starts EXCEPT ![i] = x]
  <2>1. starts[i] \in Steps BY TheirTypes
  <2>2. [pc |-> "failed", alive |-> starts[i].alive, auto |-> starts[i].auto] \in Steps
    BY <2>1 DEF Steps
  <2>3. starts' = [starts EXCEPT ![i] = [pc |-> "failed", alive |-> starts[i].alive, auto |-> starts[i].auto]]
    BY OneBecomes DEF S!ConnectFails, S!Goes, ManagerInv
  <2> QED BY <2>2, <2>3
<1>2. starts' \in Seq(Steps) /\ Len(starts') = Len(starts)
  BY <1>1, OneGoesOn DEF ManagerInv
<1>3. /\ disturbed' = TRUE /\ starts[i].pc = "connecting"
      /\ UNCHANGED <<uptime, client, transport, running, stopping, restartCount, stabilityTimer,
                     stop, streak, upSince>>
      /\ S!HandleDisconnect \/ UNCHANGED <<timers, restartTimer>>
  BY DEF S!ConnectFails, S!fields
<1>4. timers' \subseteq Timers /\ IsFiniteSet(timers') /\ restartTimer' \in Nat
  <2>1. CASE UNCHANGED <<timers, restartTimer>> BY <2>1 DEF ManagerInv, ManagerTypes, S!TypeOK
  <2>2. CASE S!HandleDisconnect /\ restartCount < MaxRestarts
    <3>0. PICK d \in Nat : d = S!Delay(restartCount) BY TheirTypes, DelaysGrow
    <3>1. uptime + S!Delay(restartCount) \in Nat BY <3>0, TheirTypes
    <3>2. /\ restartTimer' = uptime + S!Delay(restartCount)
          /\ timers' = timers \union {S!Armed("restart", restartTimer')}
      BY <2>2, TheirTypes DEF S!HandleDisconnect
    <3>3. S!Armed("restart", restartTimer') \in Timers BY <3>1, <3>2, TheirTypes, ArmedIsNew
    <3> QED BY <3>1, <3>2, <3>3, TheirTypes, FS_AddElement
  <2> QED BY <1>3, <2>1, <2>2, TheirTypes DEF S!HandleDisconnect
<1>5. ManagerTypes'
  BY <1>2, <1>3, <1>4 DEF ManagerInv, ManagerTypes, S!TypeOK, Steps, Timers
<1> QED BY <1>3, <1>5 DEF ManagerInv

(***************************************************************************)
(* start() is over; after a restart the process has to stay up.            *)
(***************************************************************************)
LEMMA ListedIsFine ==
  ASSUME S!ConstantsOK, ManagerInv, NEW i \in 1..Len(starts), S!Listed(i)
  PROVE  ManagerInv'
<1>1. PICK x \in Steps : /\ x = [pc |-> "done", alive |-> starts[i].alive, auto |-> starts[i].auto]
                         /\ starts' = [starts EXCEPT ![i] = x]
  <2>1. starts[i] \in Steps BY TheirTypes
  <2>2. [pc |-> "done", alive |-> starts[i].alive, auto |-> starts[i].auto] \in Steps
    BY <2>1 DEF Steps
  <2>3. starts' = [starts EXCEPT ![i] = [pc |-> "done", alive |-> starts[i].alive, auto |-> starts[i].auto]]
    BY OneBecomes DEF S!Listed, S!Goes, ManagerInv
  <2> QED BY <2>2, <2>3
<1>2. /\ starts' \in Seq(Steps) /\ Len(starts') = Len(starts) /\ starts'[i] = x
      /\ \A j \in 1..Len(starts) : j # i => starts'[j] = starts[j]
  BY <1>1, OneGoesOn DEF ManagerInv
<1>3. /\ starts[i].pc = "listing"
      /\ UNCHANGED <<uptime, client, transport, running, stopping, restartCount, restartTimer,
                     stop, streak, upSince, disturbed>>
  BY DEF S!Listed, S!fields, S!history
<1>4. /\ timers' \subseteq Timers /\ IsFiniteSet(timers') /\ stabilityTimer' \in Nat
      /\ \A t \in timers' \ timers : starts[i].auto /\ t.kind = "stability" /\ t.due = uptime + S!Stable
      /\ \A t, u \in timers' \ timers : t = u
      /\ timers \subseteq timers'
  <2>1. CASE ~starts[i].auto
    <3>1. UNCHANGED <<timers, stabilityTimer>> BY <2>1 DEF S!Listed
    <3> QED BY <3>1, TheirTypes DEF ManagerInv, ManagerTypes, S!TypeOK
  <2>2. CASE starts[i].auto
    <3>1. /\ stabilityTimer' = uptime + S!Stable
          /\ timers' = timers \union {S!Armed("stability", uptime + S!Stable)}
      BY <2>2 DEF S!Listed, S!AwaitStability
    <3>2. uptime + S!Stable \in Nat BY TheirTypes
    <3>3. /\ S!Armed("stability", uptime + S!Stable) \in Timers
          /\ S!Armed("stability", uptime + S!Stable).kind = "stability"
          /\ S!Armed("stability", uptime + S!Stable).due = uptime + S!Stable
      BY <3>2, TheirTypes, ArmedIsNew
    <3> QED BY <2>2, <3>1, <3>2, <3>3, TheirTypes, FS_AddElement
  <2> QED BY <2>1, <2>2
<1>5. ManagerTypes'
  BY <1>2, <1>3, <1>4 DEF ManagerInv, ManagerTypes, S!TypeOK, Steps, Timers
<1>6. TimersOf("restart")' = TimersOf("restart") BY <1>4 DEF TimersOf
<1>7. S!Alive' = S!Alive /\ NotUp' = NotUp BY <1>1, <1>2, <1>3 DEF S!Alive, NotUp
<1>8. S!UnderWay' = S!UnderWay \ {i} BY <1>1, <1>2 DEF S!UnderWay
<1>9. ASSUME OneAtATime PROVE OneAtATime'
  <2>1. \A j \in 1..Len(starts') : starts'[j].pc = "loading" => starts[j].pc = "loading"
    BY <1>1, <1>2
  <2> QED BY <1>2, <1>3, <1>6, <1>7, <1>8, <1>9, <2>1 DEF OneAtATime
<1>10. ASSUME OneAtATime, PardonsAreEarned PROVE PardonsAreEarned'
  <2>1. i \in S!UnderWay /\ i = Len(starts) /\ stop = "no" BY <1>3, <1>10 DEF OneAtATime, S!UnderWay
  <2>2. S!UnderWay' = {} /\ NotUp' = {} /\ Restarting' = {}
    <3>1. \A j \in S!UnderWay : j = i BY <1>10, <2>1 DEF OneAtATime
    <3>2. S!UnderWay' = {} BY <1>8, <3>1
    <3> QED BY <3>2 DEF NotUp, Restarting, S!UnderWay
  <2>3. TimersOf("stability") = {} BY <1>3, <1>10, <2>1 DEF PardonsAreEarned
  <2>4. ASSUME NEW t \in TimersOf("stability")'
        PROVE /\ restartCount >= 1 /\ t.due = uptime + S!Stable
              /\ \A u \in TimersOf("restart") : t.due <= u.due
    <3>1. t \in timers' \ timers BY <2>3 DEF TimersOf
    <3>2. i \in Restarting /\ t.due = uptime + S!Stable BY <1>4, <2>1, <3>1 DEF Restarting
    <3> QED BY <1>10, <2>1, <3>2 DEF PardonsAreEarned
  <2>5. \A t, u \in TimersOf("stability")' : t = u BY <1>4, <2>3 DEF TimersOf
  <2> QED BY <1>3, <1>6, <1>10, <2>1, <2>2, <2>4, <2>5, TheirTypes DEF PardonsAreEarned
<1> QED BY <1>3, <1>5, <1>9, <1>10 DEF ManagerInv

(***************************************************************************)
(* A process ends: by itself, and then a restart is armed, or because it   *)
(* is closed.                                                              *)
(***************************************************************************)
LEMMA ExitIsFine ==
  ASSUME S!ConstantsOK, PowersArePowers, ManagerInv, NEW i \in 1..Len(starts), S!Exit(i)
  PROVE  ManagerInv'
<1>1. PICK x \in Steps : /\ x = [pc |-> starts[i].pc, alive |-> FALSE, auto |-> starts[i].auto]
                         /\ starts' = [starts EXCEPT ![i] = x]
  <2>1. starts[i] \in Steps BY TheirTypes
  <2>2. [pc |-> starts[i].pc, alive |-> FALSE, auto |-> starts[i].auto] \in Steps
    BY <2>1 DEF Steps
  <2>3. starts' = [starts EXCEPT ![i] = [pc |-> starts[i].pc, alive |-> FALSE, auto |-> starts[i].auto]]
    <3>1. PICK a \in BOOLEAN : a = FALSE OBVIOUS
    <3>2. [starts EXCEPT ![i].alive = a]
            = [starts EXCEPT ![i] = [pc |-> starts[i].pc, alive |-> a, auto |-> starts[i].auto]]
      BY OneBecomes DEF ManagerInv
    <3> QED BY <3>1, <3>2 DEF S!Exit
  <2> QED BY <2>2, <2>3
<1>2. /\ starts' \in Seq(Steps) /\ Len(starts') = Len(starts) /\ starts'[i] = x
      /\ \A j \in 1..Len(starts) : j # i => starts'[j] = starts[j]
  BY <1>1, OneGoesOn DEF ManagerInv
<1>3. /\ starts[i].alive
      /\ streak' = IF S!StayedUp THEN 0 ELSE streak
      /\ UNCHANGED <<uptime, client, transport, stopping, restartCount, stabilityTimer, stop, upSince,
                     disturbed>>
  BY DEF S!Exit, S!fields
<1>4. PICK d \in Nat : /\ d = S!Delay(restartCount) /\ d >= 1
                       /\ Multiplier >= 2 /\ restartCount >= 1 => d >= S!Stable
  BY TheirTypes, DelaysGrow
<1>5. \/ stopping /\ UNCHANGED <<running, timers, restartTimer>>
      \/ /\ ~stopping /\ running' = FALSE
         /\ \/ UNCHANGED <<timers, restartTimer>>
            \/ /\ restartCount < MaxRestarts /\ restartTimer' = uptime + d
               /\ timers' = timers \union {S!Armed("restart", uptime + d)}
  BY <1>4, TheirTypes DEF S!Exit, S!HandleDisconnect
<1>6. uptime + d \in Nat BY <1>4, TheirTypes
<1>7. /\ S!Armed("restart", uptime + d) \in Timers \ timers
      /\ S!Armed("restart", uptime + d).kind = "restart" /\ S!Armed("restart", uptime + d).due = uptime + d
  BY <1>6, TheirTypes, ArmedIsNew
<1>8. timers' \subseteq Timers /\ IsFiniteSet(timers') /\ restartTimer' \in Nat /\ running' \in BOOLEAN
  <2>1. restartTimer \in Nat /\ running \in BOOLEAN BY DEF ManagerInv, ManagerTypes, S!TypeOK
  <2>2. CASE UNCHANGED <<timers, restartTimer>> BY <1>5, <2>1, <2>2, TheirTypes
  <2>3. CASE /\ ~stopping /\ running' = FALSE /\ restartTimer' = uptime + d
             /\ timers' = timers \union {S!Armed("restart", uptime + d)}
    BY <1>6, <1>7, <2>3, TheirTypes, FS_AddElement
  <2> QED BY <1>5, <2>2, <2>3
<1>9. ManagerTypes'
  <2>1. client' \in 0..Len(starts') /\ transport' \in 0..Len(starts')
    BY <1>2, <1>3 DEF ManagerInv, ManagerTypes, S!TypeOK
  <2>2. streak' \in Nat BY <1>3, TheirTypes
  <2> QED BY <1>2, <1>3, <1>8, <2>1, <2>2 DEF ManagerInv, ManagerTypes, S!TypeOK, Steps, Timers
<1>10. TimersOf("stability")' = TimersOf("stability") BY <1>5, <1>7 DEF TimersOf
<1>11. S!UnderWay' = S!UnderWay /\ NotUp' = NotUp /\ Restarting' = Restarting
  BY <1>1, <1>2, <1>3 DEF S!UnderWay, NotUp, Restarting
<1>12. i \in S!Alive /\ i \notin S!Alive' /\ S!Alive' \subseteq S!Alive BY <1>1, <1>2, <1>3 DEF S!Alive
<1>13. ASSUME OneAtATime PROVE OneAtATime'
  <2>1. TimersOf("restart") = {} BY <1>12, <1>13 DEF OneAtATime
  <2>2. \A t, u \in TimersOf("restart")' : t = u BY <1>5, <1>7, <2>1 DEF TimersOf
  <2>3. S!Alive' = {} BY <1>12, <1>13 DEF OneAtATime
  <2>4. \A t \in TimersOf("restart")' :
          t.due = restartTimer' /\ t.due > uptime' /\ stop' = "no" /\ ~running'
    <3>1. stopping => TimersOf("restart")' = {} BY <1>5, <2>1 DEF TimersOf
    <3>2. ~stopping => stop' = "no" /\ ~running' BY <1>3, <1>5, <1>13 DEF OneAtATime
    <3>3. \A t \in TimersOf("restart")' : t.due = restartTimer' /\ t.due = uptime + d
      BY <1>5, <1>7, <2>1 DEF TimersOf
    <3> QED BY <1>3, <1>4, <3>1, <3>2, <3>3, TheirTypes
  <2>5. \A j \in 1..Len(starts') : starts'[j].pc # "loading"
    <3>1. \A j \in 1..Len(starts) : starts[j].pc # "loading" BY <1>12, <1>13 DEF OneAtATime
    <3> QED BY <1>1, <1>2, <3>1
  <2>6. NotUp' # {} => ~running' BY <1>5, <1>11, <1>13 DEF OneAtATime
  <2> QED BY <1>2, <1>3, <1>11, <1>13, <2>2, <2>3, <2>4, <2>5, <2>6 DEF OneAtATime
<1>14. ASSUME OneAtATime, PardonsAreEarned, Multiplier >= 2, streak <= MaxRestarts
       PROVE  PardonsAreEarned' /\ streak' <= MaxRestarts
  <2>1. streak' <= MaxRestarts BY <1>3, <1>14, TheirTypes
  <2>2. CASE stop # "no" BY <1>3, <2>1, <2>2 DEF PardonsAreEarned
  <2>3. CASE stop = "no"
    <3>1. TimersOf("restart") = {} /\ ~stopping BY <1>12, <1>14, <2>3 DEF OneAtATime
    <3>2. running' = FALSE BY <1>5, <3>1
    <3>3. streak' <= restartCount BY <1>3, <1>14, <2>3, TheirTypes DEF PardonsAreEarned, S!StayedUp
    <3>4. \A u \in TimersOf("restart")' : u.due = uptime + d /\ restartCount < MaxRestarts
      BY <1>5, <1>7, <3>1 DEF TimersOf
    <3>5. Restarting # {} => restartCount >= 1 BY <1>14, <2>3 DEF PardonsAreEarned
    <3>6. \A t \in TimersOf("stability") :
            restartCount >= 1 /\ t.due <= uptime + S!Stable /\ t.due \in Nat
      BY <1>14, <2>3, TheirTypes DEF PardonsAreEarned, TimersOf
    <3>7. \A t \in TimersOf("stability"), u \in TimersOf("restart")' : t.due <= u.due
      BY <1>4, <1>14, <3>4, <3>6, TheirTypes
    <3>8. Restarting # {} => \A u \in TimersOf("restart")' : uptime + S!Stable <= u.due
      BY <1>4, <1>14, <3>4, <3>5, TheirTypes
    <3>9. \A j \in S!UnderWay : starts'[j].pc = starts[j].pc BY <1>1, <1>2 DEF S!UnderWay
    <3> QED
      BY <1>3, <1>10, <1>11, <1>14, <2>1, <2>3, <3>2, <3>3, <3>4, <3>7, <3>8, <3>9 DEF PardonsAreEarned
  <2> QED BY <2>2, <2>3
<1> QED BY <1>3, <1>9, <1>13, <1>14 DEF ManagerInv

(***************************************************************************)
(* A restart is due: it has waited for the end of all else.                *)
(***************************************************************************)
LEMMA RestartIsFine ==
  ASSUME S!ConstantsOK, ManagerInv, NEW t \in timers, S!Restart(t)
  PROVE  ManagerInv'
<1>1. PICK x \in Steps : /\ x = [pc |-> "loading", alive |-> FALSE, auto |-> TRUE]
                         /\ starts' = Append(starts, x)
  BY DEF S!Restart, Steps
<1>2. /\ starts' \in Seq(Steps) /\ Len(starts') = Len(starts) + 1 /\ starts'[Len(starts) + 1] = x
      /\ \A j \in 1..Len(starts) : starts'[j] = starts[j]
      /\ \A j \in 1..Len(starts') : j \in 1..Len(starts) \/ j = Len(starts')
  BY <1>1, TheirTypes
<1>3. /\ t.kind = "restart" /\ t.due <= uptime /\ ~running
      /\ restartTimer' = 0 /\ restartCount' = restartCount + 1 /\ streak' = streak + 1
      /\ client' = 0 /\ transport' = 0 /\ stopping' = FALSE /\ timers' = timers \ {t}
      /\ UNCHANGED <<uptime, running, stop, upSince, disturbed, stabilityTimer>>
  BY DEF S!Restart, S!Restarts, S!Due, S!Fired
<1>4. timers' \subseteq Timers /\ IsFiniteSet(timers') BY <1>3, TheirTypes, FS_RemoveElement
<1>5. ManagerTypes'
  <2>1. restartCount' \in Nat /\ streak' \in Nat /\ restartTimer' \in Nat
        /\ client' \in 0..Len(starts') /\ transport' \in 0..Len(starts')
    BY <1>2, <1>3, TheirTypes
  <2> QED BY <1>2, <1>3, <1>4, <2>1 DEF ManagerInv, ManagerTypes, S!TypeOK, Steps, Timers
<1>6. t \in TimersOf("restart") BY <1>3 DEF TimersOf
<1>7. TimersOf("stability")' = TimersOf("stability") BY <1>3 DEF TimersOf
<1>8. S!Alive' \subseteq S!Alive BY <1>1, <1>2 DEF S!Alive
<1>9. ASSUME OneAtATime
      PROVE  S!UnderWay = {} /\ S!Alive = {} /\ stop = "no" /\ TimersOf("restart")' = {}
             /\ S!UnderWay' = {Len(starts')}
  <2>1. S!UnderWay = {}
    <3>1. S!UnderWay # {} => t.due > uptime BY <1>6, <1>9 DEF OneAtATime
    <3> QED BY <1>3, <3>1, TheirTypes
  <2>2. TimersOf("restart")' = {} BY <1>3, <1>6, <1>9 DEF OneAtATime, TimersOf
  <2>3. S!UnderWay' = {Len(starts')}
    <3>1. \A j \in 1..Len(starts) : starts'[j].pc \notin {"loading", "connecting", "listing"}
      BY <1>2, <2>1 DEF S!UnderWay
    <3>2. Len(starts') \in 1..Len(starts') /\ starts'[Len(starts')].pc = "loading"
      BY <1>1, <1>2, TheirTypes
    <3> QED BY <1>2, <3>1, <3>2 DEF S!UnderWay
  <2> QED BY <1>6, <1>9, <2>1, <2>2, <2>3 DEF OneAtATime
<1>10. ASSUME OneAtATime PROVE OneAtATime'
  BY <1>3, <1>8, <1>9, <1>10 DEF OneAtATime
<1>11. ASSUME OneAtATime, PardonsAreEarned PROVE PardonsAreEarned' /\ streak' <= MaxRestarts
  <2>1. streak <= restartCount /\ restartCount < MaxRestarts
    BY <1>3, <1>6, <1>9, <1>11 DEF PardonsAreEarned
  <2>2. streak' <= restartCount' /\ restartCount' >= 1 /\ streak' <= MaxRestarts
    BY <1>3, <2>1, TheirTypes
  <2>3. \A w \in TimersOf("stability") : w.due <= uptime /\ w.due \in Nat
    <3>1. \A w \in TimersOf("stability") : w.due <= t.due /\ w.due \in Nat
      BY <1>6, <1>9, <1>11, TheirTypes DEF PardonsAreEarned, TimersOf
    <3> QED BY <1>3, <3>1, TheirTypes
  <2>4. \A w, u \in TimersOf("stability") : w = u /\ w.due <= uptime + S!Stable
    BY <1>9, <1>11 DEF PardonsAreEarned
  <2>5. \A j \in S!UnderWay' : starts'[j].pc # "listing"
    <3>1. starts'[Len(starts')].pc = "loading" BY <1>1, <1>2
    <3> QED BY <1>9, <1>11, <3>1
  <2> QED BY <1>3, <1>7, <1>9, <1>11, <2>2, <2>3, <2>4, <2>5 DEF PardonsAreEarned
<1> QED BY <1>3, <1>5, <1>10, <1>11 DEF ManagerInv

(***************************************************************************)
(* A restart that finds the manager running is of a disturbed one.         *)
(***************************************************************************)
LEMMA RestartForNothingIsFine ==
  ASSUME S!ConstantsOK, ManagerInv, NEW t \in timers, S!RestartForNothing(t)
  PROVE  ManagerInv'
<1>1. /\ t.kind = "restart" /\ running
      /\ restartTimer' = 0 /\ restartCount' = restartCount + 1 /\ streak' = streak + 1
      /\ client' = 0 /\ transport' = 0 /\ stabilityTimer' = uptime + S!Stable
      /\ timers' = (timers \ {t}) \union {S!Armed("stability", uptime + S!Stable)}
      /\ UNCHANGED <<uptime, starts, running, stop, stopping, upSince, disturbed>>
  BY DEF S!RestartForNothing, S!Restarts, S!Due, S!Fired
<1>2. uptime + S!Stable \in Nat BY TheirTypes
<1>3. S!Armed("stability", uptime + S!Stable) \in Timers BY <1>2, TheirTypes, ArmedIsNew
<1>4. timers' \subseteq Timers /\ IsFiniteSet(timers')
  BY <1>1, <1>3, TheirTypes, FS_RemoveElement, FS_AddElement
<1>5. ManagerTypes'
  <2>1. restartCount' \in Nat /\ streak' \in Nat /\ restartTimer' \in Nat /\ stabilityTimer' \in Nat
        /\ client' \in 0..Len(starts') /\ transport' \in 0..Len(starts')
    BY <1>1, <1>2, TheirTypes
  <2> QED BY <1>1, <1>4, <2>1 DEF ManagerInv, ManagerTypes, S!TypeOK, Timers
<1>6. disturbed' BY <1>1 DEF ManagerInv, OneAtATime, TimersOf
<1> QED BY <1>5, <1>6 DEF ManagerInv

(***************************************************************************)
(* The process has stayed up: the count begins again.                      *)
(***************************************************************************)
LEMMA StabilityIsFine ==
  ASSUME S!ConstantsOK, ManagerInv, NEW t \in timers, S!StabilityFires(t)
  PROVE  ManagerInv'
<1>1. /\ t.kind = "stability" /\ t.due <= uptime
      /\ stabilityTimer' = 0 /\ timers' = timers \ {t}
      /\ restartCount' = IF running THEN 0 ELSE restartCount
      /\ UNCHANGED <<uptime, starts, client, transport, running, stop, stopping, restartTimer, streak,
                     upSince, disturbed>>
  BY DEF S!StabilityFires, S!Due, S!Fired, S!fields, S!history
<1>2. timers' \subseteq Timers /\ IsFiniteSet(timers') BY <1>1, TheirTypes, FS_RemoveElement
<1>3. ManagerTypes'
  <2>1. restartCount' \in Nat /\ stabilityTimer' \in Nat BY <1>1, TheirTypes
  <2> QED BY <1>1, <1>2, <2>1 DEF ManagerInv, ManagerTypes, S!TypeOK, Timers
<1>4. t \in TimersOf("stability") /\ TimersOf("restart")' = TimersOf("restart")
      /\ TimersOf("stability")' = TimersOf("stability") \ {t}
  BY <1>1 DEF TimersOf
<1>5. S!UnderWay' = S!UnderWay /\ NotUp' = NotUp /\ Restarting' = Restarting /\ S!Alive' = S!Alive
  BY <1>1 DEF S!UnderWay, NotUp, Restarting, S!Alive
<1>6. ASSUME OneAtATime PROVE OneAtATime'
  BY <1>1, <1>4, <1>5, <1>6 DEF OneAtATime
<1>7. ASSUME OneAtATime, PardonsAreEarned PROVE PardonsAreEarned'
  <2>1. CASE ~running \/ stop # "no"
    BY <1>1, <1>4, <1>5, <1>7, <2>1 DEF PardonsAreEarned
  <2>2. CASE running /\ stop = "no"
    <3>1. upSince + S!Stable <= t.due /\ TimersOf("stability")' = {}
      BY <1>4, <1>7, <2>2 DEF PardonsAreEarned
    <3>2. uptime - upSince >= S!Stable BY <1>1, <3>1, TheirTypes
    <3>3. S!UnderWay = {}
      <4>1. \A i \in S!UnderWay : i \notin NotUp /\ starts[i].pc # "listing"
        BY <1>4, <1>7, <2>2 DEF OneAtATime, PardonsAreEarned
      <4> QED BY <4>1 DEF S!UnderWay, NotUp
    <3>4. Restarting' = {} BY <1>5, <3>3 DEF Restarting
    <3>5. TimersOf("restart")' = {} BY <1>4, <1>7, <2>2 DEF OneAtATime
    <3> QED BY <1>1, <2>2, <3>1, <3>2, <3>4, <3>5, TheirTypes DEF PardonsAreEarned
  <2> QED BY <2>1, <2>2
<1> QED BY <1>1, <1>3, <1>6, <1>7 DEF ManagerInv

(***************************************************************************)
(* A stop() clears the one restart that is pending, as its field holds it. *)
(***************************************************************************)
LEMMA StopIsFine ==
  ASSUME S!ConstantsOK, ManagerInv, S!Stop
  PROVE  ManagerInv'
<1>1. /\ stop = "no" /\ stop' = "closing client" /\ stopping' = TRUE /\ timers' = timers \ S!HeldTimers
      /\ restartTimer' = 0 /\ stabilityTimer' = 0 /\ disturbed' = (disturbed \/ S!UnderWay # {})
      /\ UNCHANGED <<uptime, starts, client, transport, running, restartCount, streak, upSince>>
  BY DEF S!Stop, S!ClearTimers, S!fields
<1>2. timers' \subseteq Timers /\ IsFiniteSet(timers')
  <2>1. timers' \in SUBSET timers BY <1>1
  <2> QED BY <2>1, TheirTypes, FS_Subset
<1>3. ManagerTypes' BY <1>1, <1>2 DEF ManagerInv, ManagerTypes, S!TypeOK, Timers
<1>4. ASSUME OneAtATime, S!UnderWay = {} PROVE OneAtATime'
  <2>1. TimersOf("restart")' = {}
    <3> SUFFICES ASSUME NEW t \in TimersOf("restart")' PROVE FALSE
      OBVIOUS
    <3>1. t \in TimersOf("restart") /\ t \notin S!HeldTimers BY <1>1 DEF TimersOf
    <3>2. S!Held(t) /\ t.kind = "restart" /\ t \in timers BY <1>4, <3>1 DEF OneAtATime, TimersOf, S!Held
    <3> DEFINE Ours == {u \in timers : u.kind = "restart" /\ S!Held(u)}
    <3>3. t \in Ours /\ \A u \in Ours : u = t
      BY <1>4, <3>1, <3>2 DEF OneAtATime, TimersOf
    <3>4. (CHOOSE u \in Ours : TRUE) = t BY <3>3
    <3>5. t \in S!OneOf("restart") BY <3>4 DEF S!OneOf
    <3>6. t \in S!HeldTimers BY <3>2, <3>5 DEF S!HeldTimers
    <3> QED BY <3>1, <3>6
  <2>2. S!UnderWay' = {} /\ NotUp' = {} /\ S!Alive' = S!Alive
        /\ \A i \in 1..Len(starts') : starts'[i].pc # "loading"
    BY <1>1, <1>4 DEF S!UnderWay, NotUp, S!Alive
  <2> QED BY <1>1, <1>4, <2>1, <2>2 DEF OneAtATime
<1>5. PardonsAreEarned' BY <1>1 DEF PardonsAreEarned
<1> QED BY <1>1, <1>3, <1>4, <1>5 DEF ManagerInv

(***************************************************************************)
(* Its two closes wait for the process.                                    *)
(***************************************************************************)
LEMMA ClosingIsFine ==
  ASSUME S!ConstantsOK, ManagerInv, S!ClientCloses \/ S!TransportCloses
  PROVE  ManagerInv'
<1>1. /\ stop # "no" /\ stop' \in {"closing transport", "stopped"}
      /\ client' \in {client, 0} /\ transport' \in {transport, 0} /\ running' \in {running, FALSE}
      /\ UNCHANGED <<uptime, starts, stopping, restartCount, timers, restartTimer, stabilityTimer, streak,
                     upSince, disturbed>>
      /\ stop = "closing client" => S!Closed(client)
  BY DEF S!ClientCloses, S!TransportCloses, S!history
<1>2. ManagerTypes'
  <2>1. client' \in 0..Len(starts') /\ transport' \in 0..Len(starts')
    <3>1. client \in 0..Len(starts) /\ transport \in 0..Len(starts)
      BY DEF ManagerInv, ManagerTypes, S!TypeOK
    <3>2. 0 \in 0..Len(starts) BY TheirTypes
    <3> QED BY <1>1, <3>1, <3>2
  <2> QED BY <1>1, <2>1 DEF ManagerInv, ManagerTypes, S!TypeOK, Timers
<1>3. S!UnderWay' = S!UnderWay /\ NotUp' = NotUp /\ S!Alive' = S!Alive /\ TimersOf("restart")' = TimersOf("restart")
  BY <1>1 DEF S!UnderWay, NotUp, S!Alive, TimersOf
<1>4. ASSUME OneAtATime PROVE OneAtATime'
  <2>1. S!Alive = {} /\ S!UnderWay = {} /\ TimersOf("restart") = {}
    <3>1. S!UnderWay = {} /\ TimersOf("restart") = {} BY <1>1, <1>4 DEF OneAtATime
    <3>2. ASSUME NEW i \in S!Alive PROVE FALSE
      <4>1. client = i /\ stop = "closing client" BY <1>1, <1>4 DEF OneAtATime
      <4>2. i # 0 /\ starts[i].alive BY DEF S!Alive
      <4> QED BY <1>1, <4>1, <4>2 DEF S!Closed
    <3> QED BY <3>1, <3>2
  <2>2. \A i \in 1..Len(starts') : starts'[i].pc # "loading"
    <3>1. \A i \in 1..Len(starts) : starts[i].pc # "loading" BY <2>1 DEF S!UnderWay
    <3> QED BY <1>1, <3>1
  <2>3. NotUp = {} BY <2>1 DEF NotUp, S!UnderWay
  <2>4. stopping' = (stop' # "no") BY <1>1, <1>4 DEF OneAtATime
  <2> QED BY <1>3, <2>1, <2>2, <2>3, <2>4 DEF OneAtATime
<1>5. PardonsAreEarned' BY <1>1 DEF PardonsAreEarned
<1> QED BY <1>1, <1>2, <1>4, <1>5 DEF ManagerInv

(***************************************************************************)
(* Time passes for a process that is up, or for one that is to come.       *)
(***************************************************************************)
LEMMA TickIsFine ==
  ASSUME S!ConstantsOK, ManagerInv, S!Tick
  PROVE  ManagerInv'
<1>1. /\ uptime < MaxUptime /\ uptime' = uptime + 1 /\ S!Due = {}
      /\ \A i \in S!UnderWay : starts[i].pc # "loading" => starts[i].alive
      /\ UNCHANGED <<starts, client, transport, running, stopping, restartCount, timers, restartTimer,
                     stabilityTimer, stop, streak, upSince, disturbed>>
  BY DEF S!Tick, S!fields, S!history
<1>2. ManagerTypes'
  <2>1. uptime' \in 1..MaxUptime /\ upSince' \in 0..uptime' BY <1>1, TheirTypes
  <2> QED BY <1>1, <2>1 DEF ManagerInv, ManagerTypes, S!TypeOK, Timers
<1>3. /\ S!UnderWay' = S!UnderWay /\ NotUp' = NotUp /\ S!Alive' = S!Alive /\ Restarting' = Restarting
      /\ TimersOf("restart")' = TimersOf("restart") /\ TimersOf("stability")' = TimersOf("stability")
  BY <1>1 DEF S!UnderWay, NotUp, S!Alive, Restarting, TimersOf
<1>4. \A t \in timers : t.due > uptime /\ t.due \in Nat BY <1>1, TheirTypes DEF S!Due
<1>5. ASSUME OneAtATime PROVE OneAtATime' /\ (S!UnderWay # {} => TimersOf("restart") = {})
  <2>1. S!UnderWay # {} => TimersOf("restart") = {}
    BY <1>1, <1>5 DEF OneAtATime, S!UnderWay, S!Alive
  <2> QED BY <1>1, <1>3, <1>5, <2>1 DEF OneAtATime
<1>6. ASSUME OneAtATime, PardonsAreEarned PROVE PardonsAreEarned'
  <2>1. CASE stop # "no" BY <1>1, <2>1 DEF PardonsAreEarned
  <2>2. CASE stop = "no"
    <3>1. \A t \in TimersOf("stability") : t.due <= uptime' + S!Stable /\ NotUp = {}
      <4>1. \A t \in TimersOf("stability") : t \in timers /\ t.due <= uptime + S!Stable /\ (NotUp # {} => t.due <= uptime)
        BY <1>6, <2>2 DEF PardonsAreEarned, TimersOf
      <4> QED BY <1>1, <1>4, <4>1, TheirTypes
    <3>2. running /\ uptime - upSince >= S!Stable => uptime' - upSince >= S!Stable BY <1>1, TheirTypes
    <3>3. Restarting # {} => TimersOf("restart") = {} BY <1>5, <1>6 DEF Restarting
    <3> QED BY <1>1, <1>3, <1>6, <2>2, <3>1, <3>2, <3>3 DEF PardonsAreEarned
  <2> QED BY <2>1, <2>2
<1> QED BY <1>1, <1>2, <1>5, <1>6 DEF ManagerInv

(***************************************************************************)
(* ManagerInv is inductive.                                                *)
(***************************************************************************)
THEOREM ManagerIsKept ==
  ASSUME S!ConstantsOK, PowersArePowers
  PROVE  S!Spec => []ManagerInv
<1>1. S!Init => ManagerInv
  <2> SUFFICES ASSUME S!Init PROVE ManagerInv
    OBVIOUS
  <2>1. /\ Len(starts) = 1 /\ starts \in Seq(Steps)
        /\ \A i \in 1..Len(starts) : i = 1 /\ starts[i].pc = "loading" /\ ~starts[i].alive /\ ~starts[i].auto
    BY DEF S!Init, Steps
  <2>2. uptime \in 1..MaxUptime /\ upSince \in 0..uptime /\ client \in 0..1 /\ transport \in 0..1
    BY DEF S!Init, S!ConstantsOK
  <2>3. timers \subseteq Timers /\ IsFiniteSet(timers) BY FS_EmptySet DEF S!Init
  <2>4. ManagerTypes BY <2>1, <2>2, <2>3 DEF S!Init, ManagerTypes, S!TypeOK, Steps
  <2>5. S!Alive = {} /\ TimersOf("restart") = {} /\ TimersOf("stability") = {} /\ Restarting = {}
    BY <2>1 DEF S!Init, S!Alive, TimersOf, Restarting, S!UnderWay
  <2>6. OneAtATime BY <2>1, <2>5 DEF S!Init, OneAtATime, S!UnderWay
  <2>7. PardonsAreEarned BY <2>5 DEF S!Init, PardonsAreEarned
  <2>8. streak <= MaxRestarts BY DEF S!Init, S!ConstantsOK
  <2> QED BY <2>4, <2>6, <2>7, <2>8 DEF ManagerInv
<1>2. ManagerInv /\ [S!Next]_(S!vars) => ManagerInv'
  <2> SUFFICES ASSUME ManagerInv, [S!Next]_(S!vars) PROVE ManagerInv'
    OBVIOUS
  <2>1. CASE UNCHANGED S!vars
    BY <2>1 DEF S!vars, S!fields, S!history, ManagerInv, ManagerTypes, S!TypeOK, OneAtATime, PardonsAreEarned,
                S!UnderWay, NotUp, S!Alive, Restarting, TimersOf, Timers
  <2>2. CASE \E i \in 1..Len(starts) :
               S!Spawn(i) \/ S!Connect(i) \/ S!ConnectFails(i) \/ S!Listed(i) \/ S!Exit(i)
    BY <2>2, SpawnIsFine, ConnectIsFine, ConnectFailsIsFine, ListedIsFine, ExitIsFine
  <2>3. CASE \E t \in timers : S!Restart(t) \/ S!RestartForNothing(t) \/ S!StabilityFires(t)
    BY <2>3, RestartIsFine, RestartForNothingIsFine, StabilityIsFine
  <2> QED BY <2>1, <2>2, <2>3, StopIsFine, ClosingIsFine, TickIsFine DEF S!Next
<1> QED BY <1>1, <1>2, PTL DEF S!Spec

(***************************************************************************)
(* A calm stop() leaves no process, and a process that keeps dying is      *)
(* given up on.                                                            *)
(***************************************************************************)
THEOREM ManagerIsOrderly ==
  ASSUME S!ConstantsOK, PowersArePowers
  PROVE  S!Spec => [](S!TypeOK /\ S!CalmStopIsFinal /\ S!FlappingEnds)
<1>1. ManagerInv => S!TypeOK /\ S!CalmStopIsFinal /\ S!FlappingEnds
  BY DEF ManagerInv, ManagerTypes, S!CalmStopIsFinal, S!StopIsFinal, S!FlappingEnds, OneAtATime
<1> QED BY <1>1, ManagerIsKept, PTL

-----------------------------------------------------------------------------
(***************************************************************************)
(* The connections of the MCP servers over http.  The walk of the teardown *)
(* has dealt with what it came to, but for the connection it waits for.    *)
(***************************************************************************)
Told(c) == c \in visited /\ ~(walk = "awaiting" /\ c = visiting)

(***************************************************************************)
(* A run uses a connection of its server, and only what was asked for can  *)
(* be cached or used.                                                      *)
(***************************************************************************)
RunsUseLinks ==
  /\ \A r \in DOMAIN lists :
       /\ lists[r].on \in DOMAIN lists /\ link[lists[r].on] # "none"
       /\ L!ServerOf(lists[r].on) = L!ServerOf(r)
  /\ \A c \in L!Lists : link[c] # "none" => c \in DOMAIN lists
  /\ \A c \in L!Lists : link[c] = "none" => disposals[c] = 0

CacheIsTight ==
  /\ \A c \in L!ToSet(cached) : link[c] \in {"pending", "open"}
  /\ \A c, d \in L!ToSet(cached) : L!ServerOf(c) = L!ServerOf(d) => c = d
  /\ L!Live \subseteq L!ToSet(cached)

(***************************************************************************)
(* A connection was disposed by a run that failed, which takes it out of   *)
(* the cache, or by the walk, which leaves it there; so by each once.      *)
(***************************************************************************)
DisposalsAreDue ==
  \A c \in L!Lists :
    /\ disposals[c] > 0 => Told(c) \/ (c \in blamed /\ c \notin L!ToSet(cached))
    /\ disposals[c] > 1 => Told(c) /\ c \in blamed /\ c \notin L!ToSet(cached)
    /\ c \in L!ToSet(cached) /\ Told(c) => disposals[c] > 0

WalkIsLast ==
  /\ walk = "no" => visited = {}
  /\ walk # "no" => L!AllApplied
  /\ walk \in {"awaiting", "disposing"} => visiting \in visited
  /\ applying \in DOMAIN lists \union {NoRun}

ClientTypes ==
  /\ lists \in Seq(L!Listing) /\ Len(lists) <= MaxLists
  /\ cached \in Seq(L!Lists)
  /\ L!TypeOK

ClientsInv == ClientTypes /\ RunsUseLinks /\ CacheIsTight /\ DisposalsAreDue /\ WalkIsLast

(***************************************************************************)
(* A sequence without one of its elements.                                 *)
(***************************************************************************)
LEMMA TakesOneOut ==
  ASSUME NEW X, NEW es \in Seq(X), NEW i \in 1..Len(es)
  PROVE  /\ L!RemoveAt(es, i) \in Seq(X) /\ Len(L!RemoveAt(es, i)) = Len(es) - 1
         /\ \A j \in 1..Len(es)-1 : L!RemoveAt(es, i)[j] = IF j < i THEN es[j] ELSE es[j+1]
<1> DEFINE a == SubSeq(es, 1, i-1)
           b == SubSeq(es, i+1, Len(es))
<1>1. /\ a \in Seq(X) /\ Len(a) = i - 1 /\ \A j \in 1..i-1 : a[j] = es[j]
  BY SubSeqProperties
<1>2. /\ b \in Seq(X) /\ Len(b) = Len(es) - i /\ \A j \in 1..Len(es)-i : b[j] = es[i+j]
  BY SubSeqProperties
<1> HIDE DEF a, b
<1>3. L!RemoveAt(es, i) = a \o b BY DEF L!RemoveAt, a, b
<1>4. a \o b \in Seq(X) /\ Len(a \o b) = Len(es) - 1
  <2>1. a \o b \in Seq(X) /\ Len(a \o b) = Len(a) + Len(b)
    BY <1>1, <1>2, ConcatProperties
  <2>2. Len(es) \in Nat OBVIOUS
  <2> QED BY <2>1, <2>2, <1>1, <1>2
<1>5. ASSUME NEW j \in 1..Len(es)-1 PROVE (a \o b)[j] = IF j < i THEN es[j] ELSE es[j+1]
  <2>1. (a \o b)[j] = IF j <= Len(a) THEN a[j] ELSE b[j - Len(a)]
    <3>1. j \in 1..Len(a)+Len(b)
      <4>1. Len(es) \in Nat OBVIOUS
      <4> QED BY <4>1, <1>1, <1>2
    <3> QED BY <3>1, <1>1, <1>2, ConcatProperties
  <2>2. CASE j < i
    BY <2>1, <2>2, <1>1
  <2>3. CASE ~(j < i)
    <3>1. j - Len(a) \in 1..Len(es)-i /\ i + (j - Len(a)) = j + 1 /\ ~(j <= Len(a))
      <4>1. Len(es) \in Nat OBVIOUS
      <4> QED BY <4>1, <2>3, <1>1
    <3> QED BY <3>1, <2>1, <2>3, <1>2
  <2> QED BY <2>2, <2>3
<1> QED BY <1>3, <1>4, <1>5

(***************************************************************************)
(* A set of numbers has a least one.                                       *)
(***************************************************************************)
LEMMA MinIsLeast ==
  ASSUME NEW W, W \subseteq Nat, W # {}
  PROVE  L!Min(W) \in W /\ \A m \in W : L!Min(W) <= m
BY SomeAreLeast DEF L!Min

(***************************************************************************)
(* Taking a connection out of the cache leaves the others.                 *)
(***************************************************************************)
LEMMA ConnectionGoes ==
  ASSUME cached \in Seq(L!Lists), L!IsInjective(cached), NEW c \in L!ToSet(cached)
  PROVE  /\ L!Removed(c) \in Seq(L!Lists) /\ L!IsInjective(L!Removed(c))
         /\ L!ToSet(L!Removed(c)) = L!ToSet(cached) \ {c}
<1>1. DOMAIN cached = 1..Len(cached) /\ Len(cached) \in Nat OBVIOUS
<1>2. \E i \in DOMAIN cached : cached[i] = c BY DEF L!ToSet
<1> DEFINE i == CHOOSE k \in DOMAIN cached : cached[k] = c
           s == L!RemoveAt(cached, i)
<1>3. i \in 1..Len(cached) /\ cached[i] = c BY <1>1, <1>2
<1>4. L!Removed(c) = s BY DEF L!Removed
<1> HIDE DEF i
<1>5. /\ s \in Seq(L!Lists) /\ Len(s) = Len(cached) - 1
      /\ \A j \in 1..Len(cached)-1 : s[j] = IF j < i THEN cached[j] ELSE cached[j+1]
  BY <1>3, TakesOneOut
<1> HIDE DEF s
<1>6. DOMAIN s = 1..Len(cached)-1 BY <1>5
<1>7. \A a, b \in 1..Len(cached) : cached[a] = cached[b] => a = b BY <1>1 DEF L!IsInjective
<1>8. ASSUME NEW a \in 1..Len(cached)-1, NEW b \in 1..Len(cached)-1, s[a] = s[b] PROVE a = b
  BY <1>1, <1>3, <1>5, <1>7, <1>8
<1>9. L!IsInjective(s) BY <1>6, <1>8 DEF L!IsInjective
<1>10. ASSUME NEW d \in L!ToSet(s) PROVE d \in L!ToSet(cached) \ {c}
  <2>1. PICK j \in 1..Len(cached)-1 : d = s[j] BY <1>6 DEF L!ToSet
  <2>2. PICK k \in 1..Len(cached) : d = cached[k] /\ k # i BY <1>1, <1>3, <1>5, <2>1
  <2>3. d # c BY <1>3, <1>7, <2>2
  <2> QED BY <1>1, <2>2, <2>3 DEF L!ToSet
<1>11. ASSUME NEW d \in L!ToSet(cached) \ {c} PROVE d \in L!ToSet(s)
  <2>1. PICK k \in 1..Len(cached) : d = cached[k] BY <1>1 DEF L!ToSet
  <2>2. k # i BY <1>3, <2>1
  <2>3. CASE k < i
    <3>1. k \in 1..Len(cached)-1 /\ s[k] = d BY <1>1, <1>3, <1>5, <2>1, <2>3
    <3> QED BY <1>6, <3>1 DEF L!ToSet
  <2>4. CASE k > i
    <3>1. k-1 \in 1..Len(cached)-1 /\ s[k-1] = d BY <1>1, <1>3, <1>5, <2>1, <2>4
    <3> QED BY <1>6, <3>1 DEF L!ToSet
  <2> QED BY <1>3, <2>1, <2>2, <2>3, <2>4
<1> QED BY <1>4, <1>5, <1>9, <1>10, <1>11

(***************************************************************************)
(* The run of a step is one there is.                                      *)
(***************************************************************************)
LEMMA RunsAreListed ==
  ASSUME L!ConstantsOK, ClientTypes, RunsUseLinks, NEW r \in DOMAIN lists
  PROVE  /\ r \in L!Lists /\ lists[r] \in L!Listing /\ lists[r].on \in L!Lists
         /\ lists[r].on \in DOMAIN lists
<1>1. Len(lists) \in Nat /\ DOMAIN lists = 1..Len(lists) /\ Len(lists) <= MaxLists
  BY DEF ClientTypes
<1>2. r \in L!Lists BY <1>1 DEF L!Lists, L!ConstantsOK
<1>3. lists[r] \in L!Listing BY DEF ClientTypes
<1>4. lists[r].on \in L!Lists BY <1>3 DEF L!Listing
<1> QED BY <1>2, <1>3, <1>4 DEF RunsUseLinks

(***************************************************************************)
(* A step after which each run is for the same server, over the same       *)
(* connection.                                                             *)
(***************************************************************************)
Steady ==
  /\ lists' \in Seq(L!Listing) /\ Len(lists') = Len(lists)
  /\ \A r \in DOMAIN lists : lists'[r].server = lists[r].server /\ lists'[r].on = lists[r].on

(***************************************************************************)
(* A run that goes on to its next await changes nothing else.              *)
(***************************************************************************)
LEMMA RunsGoOn ==
  ASSUME ClientTypes, NEW r \in DOMAIN lists,
         NEW at \in {"connecting", "listing", "evicting", "done"},
         lists' = [lists EXCEPT ![r].at = at]
  PROVE  Steady
<1>1. DOMAIN lists = 1..Len(lists) /\ Len(lists) \in Nat BY DEF ClientTypes
<1>2. \A q \in DOMAIN lists : lists[q] \in L!Listing BY DEF ClientTypes
<1>3. \A q \in DOMAIN lists : /\ lists'[q] \in L!Listing
                              /\ lists'[q].server = lists[q].server /\ lists'[q].on = lists[q].on
  <2> TAKE q \in DOMAIN lists
  <2>1. CASE q = r
    <3>1. lists'[q] = [lists[r] EXCEPT !.at = at] BY <2>1
    <3> QED BY <1>2, <2>1, <3>1 DEF L!Listing
  <2>2. CASE q # r
    <3>1. lists'[q] = lists[q] BY <2>2
    <3> QED BY <1>2, <3>1
  <2> QED BY <2>1, <2>2
<1>4. lists' = [lists EXCEPT ![r] = lists'[r]] BY <1>1
<1>5. lists' \in Seq(L!Listing) /\ Len(lists') = Len(lists)
  <2>1. PICK x \in L!Listing : x = lists'[r] BY <1>3
  <2>2. lists \in Seq(L!Listing) /\ r \in 1..Len(lists) BY <1>1 DEF ClientTypes
  <2>3. lists' = [lists EXCEPT ![r] = x] BY <1>4, <2>1
  <2> QED BY <2>2, <2>3, ExceptSeq
<1> QED BY <1>3, <1>5 DEF Steady

(***************************************************************************)
(* When a connection settles, each run that waits for it goes on.          *)
(***************************************************************************)
LEMMA AllGoOn ==
  ASSUME ClientTypes, NEW c, NEW at \in {"listing", "done"}, lists' = L!Settled(c, at)
  PROVE  Steady
<1>1. DOMAIN lists = 1..Len(lists) /\ Len(lists) \in Nat BY DEF ClientTypes
<1>2. \A r \in DOMAIN lists : lists[r] \in L!Listing BY DEF ClientTypes
<1>3. \A r \in DOMAIN lists : L!Settled(c, at)[r] \in L!Listing
  BY <1>2 DEF L!Settled, L!Listing
<1>4. L!Settled(c, at) \in Seq(L!Listing) /\ Len(L!Settled(c, at)) = Len(lists)
  BY <1>1, <1>3 DEF L!Settled
<1>5. \A r \in DOMAIN lists : L!Settled(c, at)[r].server = lists[r].server /\ L!Settled(c, at)[r].on = lists[r].on
  BY <1>2 DEF L!Settled, L!Listing
<1> QED BY <1>4, <1>5 DEF Steady

(***************************************************************************)
(* While the runs keep their servers, so do the connections.               *)
(***************************************************************************)
LEMMA SteadyKeeps ==
  ASSUME L!ConstantsOK, ClientsInv, Steady
  PROVE  /\ DOMAIN lists' = DOMAIN lists /\ Len(lists') <= MaxLists
         /\ \A r \in DOMAIN lists' : lists'[r] \in L!Listing
         /\ \A c \in DOMAIN lists : L!ServerOf(c)' = L!ServerOf(c)
         /\ (\A c \in L!Lists : (link'[c] = "none") = (link[c] = "none")) /\
            (\A c \in L!Lists : link[c] = "none" => disposals'[c] = disposals[c])
              => RunsUseLinks'
<1>1. DOMAIN lists' = DOMAIN lists BY DEF Steady, ClientsInv, ClientTypes
<1>2. \A c \in DOMAIN lists : L!ServerOf(c)' = L!ServerOf(c) BY DEF Steady, L!ServerOf
<1>3. \A r \in DOMAIN lists : lists[r].on \in DOMAIN lists /\ lists[r].on \in L!Lists
  BY RunsAreListed DEF ClientsInv
<1>4. (\A c \in L!Lists : (link'[c] = "none") = (link[c] = "none")) /\
      (\A c \in L!Lists : link[c] = "none" => disposals'[c] = disposals[c])
              => RunsUseLinks'
  BY <1>1, <1>2, <1>3 DEF RunsUseLinks, ClientsInv, Steady
<1> QED BY <1>1, <1>2, <1>4 DEF Steady, ClientsInv, ClientTypes

-----------------------------------------------------------------------------
(***************************************************************************)
(* It begins with no connection at all.                                    *)
(***************************************************************************)
LEMMA ClientsStart == ASSUME L!ConstantsOK, L!Init PROVE ClientsInv
<1>1. DOMAIN lists = {} /\ L!ToSet(cached) = {} BY DEF L!Init, L!ToSet
<1>2. ClientTypes BY <1>1 DEF L!Init, ClientTypes, L!TypeOK, L!ConstantsOK, L!IsInjective
<1>3. RunsUseLinks BY <1>1 DEF L!Init, RunsUseLinks
<1>4. CacheIsTight BY <1>1 DEF L!Init, CacheIsTight, L!Live
<1>5. DisposalsAreDue /\ WalkIsLast BY <1>1 DEF L!Init, DisposalsAreDue, WalkIsLast, Told
<1> QED BY <1>2, <1>3, <1>4, <1>5 DEF ClientsInv

(***************************************************************************)
(* A run joins the connection of its server, or asks for the only one.     *)
(***************************************************************************)
LEMMA AskingIsFine ==
  ASSUME L!ConstantsOK, ClientsInv, walk = "no", NEW s \in L!Servers, L!GetOrCreate(s),
         armed' = armed, applying' \in {applying, Len(lists')}, UNCHANGED <<L!walkVars, tools, blamed>>
  PROVE  ClientsInv'
<1>0. PICK n : n = Len(lists) + 1 OBVIOUS
<1>1. /\ Len(lists) \in Nat /\ DOMAIN lists = 1..Len(lists) /\ n \in L!Lists /\ n <= MaxLists
      /\ n = Len(lists) + 1
      /\ \A r \in DOMAIN lists : lists[r] \in L!Listing
  BY <1>0 DEF L!GetOrCreate, ClientsInv, ClientTypes, L!Lists, L!ConstantsOK
<1>2. UNCHANGED <<walk, visiting, visited, tools, blamed, armed>> BY DEF L!walkVars
<1>3. \A r \in DOMAIN lists : r \in L!Lists /\ r # n BY <1>1 DEF L!Lists, L!ConstantsOK
<1>4. link[n] = "none" /\ n \notin L!ToSet(cached) /\ disposals[n] = 0
  BY <1>1, <1>3 DEF ClientsInv, RunsUseLinks, CacheIsTight
<1>5. applying \in L!Lists \union {NoRun} /\ applying \in DOMAIN lists \union {NoRun}
  BY DEF ClientsInv, ClientTypes, L!TypeOK, WalkIsLast
<1>6. ASSUME NEW c \in L!CachedFor(s),
             lists' = Append(lists, [server |-> s, on |-> c,
                                     at |-> IF link[c] = "open" THEN "listing" ELSE "connecting"]),
             UNCHANGED L!cacheVars
      PROVE  ClientsInv'
  <2>1. UNCHANGED <<link, cached, disposals>> BY <1>6 DEF L!cacheVars
  <2>2. c \in L!Lists /\ link[c] # "none" /\ c \in DOMAIN lists /\ L!ServerOf(c) = s
    BY DEF L!CachedFor, ClientsInv, CacheIsTight, RunsUseLinks, ClientTypes, L!TypeOK
  <2>3. /\ lists' \in Seq(L!Listing) /\ Len(lists') = n /\ DOMAIN lists' = 1..n
        /\ \A r \in DOMAIN lists : lists'[r] = lists[r]
        /\ lists'[n].server = s /\ lists'[n].on = c
    BY <1>1, <1>6, <2>2 DEF ClientsInv, ClientTypes, L!Listing
  <2>4. ClientTypes'
    BY <1>1, <1>5, <1>2, <2>1, <2>3 DEF ClientsInv, ClientTypes, L!TypeOK
  <2>5. \A d \in DOMAIN lists : L!ServerOf(d)' = L!ServerOf(d) BY <2>3 DEF L!ServerOf
  <2>6. \A d \in DOMAIN lists' : d = n \/ d \in DOMAIN lists BY <1>1, <2>3
  <2>7. L!ServerOf(c)' = s BY <2>2, <2>5
  <2>12. \A r \in DOMAIN lists : lists[r].on \in DOMAIN lists BY DEF ClientsInv, RunsUseLinks
  <2>13. DOMAIN lists \subseteq DOMAIN lists' BY <1>1, <2>3
  <2>14. \A r \in DOMAIN lists' :
           /\ lists'[r].on \in DOMAIN lists' /\ link'[lists'[r].on] # "none"
           /\ lists'[lists'[r].on].server = lists'[r].server
    <3> TAKE r \in DOMAIN lists'
    <3>1. CASE r = n BY <2>1, <2>2, <2>3, <2>13, <3>1 DEF L!ServerOf
    <3>2. CASE r \in DOMAIN lists
      BY <2>1, <2>3, <2>12, <2>13, <3>2 DEF ClientsInv, RunsUseLinks, L!ServerOf
    <3> QED BY <2>6, <3>1, <3>2
  <2>8. RunsUseLinks'
    BY <2>1, <2>13, <2>14 DEF ClientsInv, RunsUseLinks, L!ServerOf
  <2>9. \A d \in L!ToSet(cached) : d \in DOMAIN lists
    BY DEF ClientsInv, CacheIsTight, RunsUseLinks, ClientTypes, L!TypeOK
  <2>10. CacheIsTight' BY <2>1, <2>5, <2>9 DEF ClientsInv, CacheIsTight, L!Live
  <2>11. DisposalsAreDue' /\ WalkIsLast'
    BY <1>1, <1>2, <1>5, <2>1, <2>3, <2>13 DEF ClientsInv, DisposalsAreDue, WalkIsLast, Told
  <2> QED BY <2>4, <2>8, <2>10, <2>11 DEF ClientsInv
<1>7. ASSUME L!CachedFor(s) = {},
             lists' = Append(lists, [server |-> s, on |-> n, at |-> "connecting"]),
             cached' = Append(cached, n), link' = [link EXCEPT ![n] = "pending"],
             UNCHANGED disposals
      PROVE  ClientsInv'
  <2>3. /\ lists' \in Seq(L!Listing) /\ Len(lists') = n /\ DOMAIN lists' = 1..n
        /\ \A r \in DOMAIN lists : lists'[r] = lists[r]
        /\ lists'[n].server = s /\ lists'[n].on = n
    BY <1>1, <1>7 DEF ClientsInv, ClientTypes, L!Listing
  <2>4. /\ cached' \in Seq(L!Lists) /\ L!IsInjective(cached') /\ L!ToSet(cached') = L!ToSet(cached) \union {n}
    <3>1. cached \in Seq(L!Lists) /\ L!IsInjective(cached) BY DEF ClientsInv, ClientTypes, L!TypeOK
    <3>2. /\ Len(cached) \in Nat /\ DOMAIN cached = 1..Len(cached) /\ cached' \in Seq(L!Lists)
          /\ DOMAIN cached' = 1..Len(cached)+1 /\ cached'[Len(cached)+1] = n
          /\ \A i \in DOMAIN cached : cached'[i] = cached[i]
      BY <1>1, <1>7, <3>1
    <3>3. \A i \in DOMAIN cached : cached[i] # n BY <1>4 DEF L!ToSet
    <3>4. \A i \in DOMAIN cached' : i \in DOMAIN cached \/ i = Len(cached) + 1 BY <3>2
    <3>5. L!IsInjective(cached') BY <3>1, <3>2, <3>3, <3>4 DEF L!IsInjective
    <3>6. ASSUME NEW d \in L!ToSet(cached') PROVE d \in L!ToSet(cached) \union {n}
      BY <3>2, <3>4 DEF L!ToSet
    <3>7. ASSUME NEW d \in L!ToSet(cached) \union {n} PROVE d \in L!ToSet(cached')
      <4>1. DOMAIN cached \subseteq DOMAIN cached' /\ Len(cached)+1 \in DOMAIN cached' BY <3>2
      <4> QED BY <3>2, <4>1 DEF L!ToSet
    <3> QED BY <3>2, <3>5, <3>6, <3>7
  <2>5. link' \in [L!Lists -> {"none", "pending", "open", "failed"}]
        /\ link'[n] = "pending" /\ \A c \in L!Lists \ {n} : link'[c] = link[c]
    BY <1>1, <1>7 DEF ClientsInv, ClientTypes, L!TypeOK
  <2>6. L!ToSet(cached') \subseteq L!Lists BY <1>1, <2>4 DEF ClientsInv, ClientTypes, L!TypeOK
  <2>7. ClientTypes'
    BY <1>1, <1>5, <1>2, <1>7, <2>3, <2>4, <2>5, <2>6 DEF ClientsInv, ClientTypes, L!TypeOK
  <2>8. \A d \in DOMAIN lists : L!ServerOf(d)' = L!ServerOf(d) BY <2>3 DEF L!ServerOf
  <2>9. \A d \in DOMAIN lists' : d = n \/ d \in DOMAIN lists BY <1>1, <2>3
  <2>11. \A r \in DOMAIN lists : lists[r].on \in DOMAIN lists /\ lists[r].on \in L!Lists \ {n}
    BY <1>3, RunsAreListed DEF ClientsInv
  <2>12. DOMAIN lists \subseteq DOMAIN lists' /\ n \in DOMAIN lists' BY <1>1, <2>3
  <2>13. RunsUseLinks'
    <3>1. \A r \in DOMAIN lists' :
            /\ lists'[r].on \in DOMAIN lists' /\ link'[lists'[r].on] # "none"
            /\ lists'[lists'[r].on].server = lists'[r].server
      <4> TAKE r \in DOMAIN lists'
      <4>1. CASE r = n BY <2>3, <2>5, <2>12, <4>1
      <4>2. CASE r \in DOMAIN lists
        BY <2>3, <2>5, <2>11, <2>12, <4>2 DEF ClientsInv, RunsUseLinks, L!ServerOf
      <4> QED BY <2>9, <4>1, <4>2
    <3>2. \A c \in L!Lists : link'[c] # "none" => c \in DOMAIN lists'
      BY <2>5, <2>12 DEF ClientsInv, RunsUseLinks
    <3>3. \A c \in L!Lists : link'[c] = "none" => disposals'[c] = 0
      BY <1>7, <2>5 DEF ClientsInv, RunsUseLinks
    <3> QED BY <3>1, <3>2, <3>3 DEF RunsUseLinks, L!ServerOf
  <2>14. \A d \in L!ToSet(cached) : d \in DOMAIN lists /\ d \in L!Lists \ {n} /\ L!ServerOf(d) # s
    BY <1>3, <1>7 DEF ClientsInv, CacheIsTight, RunsUseLinks, ClientTypes, L!TypeOK, L!CachedFor
  <2>15. CacheIsTight'
    <3>1. \A c \in L!ToSet(cached') : link'[c] \in {"pending", "open"}
      BY <2>4, <2>5, <2>14 DEF ClientsInv, CacheIsTight
    <3>2. \A c, d \in L!ToSet(cached') : lists'[c].server = lists'[d].server => c = d
      BY <2>3, <2>4, <2>14 DEF ClientsInv, CacheIsTight, L!ServerOf
    <3>3. L!Live' \subseteq L!Live \union {n} BY <1>7, <2>5 DEF L!Live
    <3> QED BY <2>4, <3>1, <3>2, <3>3 DEF ClientsInv, CacheIsTight, L!ServerOf
  <2>16. n \notin visited BY DEF ClientsInv, WalkIsLast
  <2>17. DisposalsAreDue'
    BY <1>2, <1>4, <1>7, <2>4, <2>16 DEF ClientsInv, DisposalsAreDue, Told
  <2>18. WalkIsLast' BY <1>1, <1>2, <1>5, <2>3, <2>12 DEF ClientsInv, WalkIsLast
  <2> QED BY <2>7, <2>13, <2>15, <2>17, <2>18 DEF ClientsInv
<1> QED BY <1>0, <1>6, <1>7 DEF L!GetOrCreate

(***************************************************************************)
(* apply() and the intervals ask only before the teardown, which waits for *)
(* the first run of every server.                                          *)
(***************************************************************************)
LEMMA RunsAreFine ==
  ASSUME L!ConstantsOK, ClientsInv,
         L!Apply \/ L!SetupRefresh \/ \E s \in L!Servers : L!Refresh(s)
  PROVE  ClientsInv'
<1>1. CASE L!Apply
  <2>1. walk = "no" BY <1>1 DEF L!Apply, ClientsInv, WalkIsLast, L!AllApplied
  <2>2. armed \subseteq L!Servers BY DEF ClientsInv, ClientTypes, L!TypeOK
  <2>3. L!Min(L!Servers \ armed) \in L!Servers
    <3>1. L!Servers \ armed \subseteq Nat /\ L!Servers \ armed # {}
      <4>1. L!Servers \subseteq Nat BY DEF L!Servers
      <4> QED BY <1>1, <2>2, <4>1 DEF L!Apply
    <3> QED BY <3>1, MinIsLeast
  <2> QED BY <1>1, <2>1, <2>3, AskingIsFine DEF L!Apply
<1>2. CASE \E s \in L!Servers : L!Refresh(s)
  <2> QED BY <1>2, AskingIsFine DEF L!Refresh
<1>3. CASE L!SetupRefresh
  <2>1. /\ UNCHANGED <<lists, link, cached, disposals, walk, visiting, visited, tools, blamed>>
        /\ armed' = armed \union {L!ServerOf(applying)} /\ applying' = NoRun
    BY <1>3 DEF L!SetupRefresh, L!cacheVars, L!walkVars
  <2>2. walk = "no" /\ applying \in DOMAIN lists
    BY <1>3 DEF L!SetupRefresh, ClientsInv, WalkIsLast, L!AllApplied
  <2>3. L!ServerOf(applying) \in L!Servers BY <2>2, RunsAreListed DEF ClientsInv, L!ServerOf, L!Listing
  <2>4. ClientTypes' BY <2>1, <2>3 DEF ClientsInv, ClientTypes, L!TypeOK
  <2>5. RunsUseLinks' BY <2>1 DEF ClientsInv, RunsUseLinks, L!ServerOf
  <2>6. CacheIsTight' BY <2>1 DEF ClientsInv, CacheIsTight, L!Live, L!ServerOf
  <2>7. DisposalsAreDue' /\ WalkIsLast' BY <2>1, <2>2 DEF ClientsInv, DisposalsAreDue, WalkIsLast, Told
  <2> QED BY <2>4, <2>5, <2>6, <2>7 DEF ClientsInv
<1> QED BY <1>1, <1>2, <1>3

(***************************************************************************)
(* A run goes on, over the connection it has.                              *)
(***************************************************************************)
LEMMA GoingOnIsFine ==
  ASSUME L!ConstantsOK, ClientsInv, Steady,
         tools' \in [L!Servers -> L!Lists \union {NoRun}], blamed \subseteq blamed', blamed' \subseteq L!Lists,
         UNCHANGED <<link, cached, disposals, armed, applying, L!walkVars>>
  PROVE  ClientsInv'
<1>1. UNCHANGED <<link, cached, disposals, armed, applying, walk, visiting, visited>> BY DEF L!walkVars
<1>2. ClientTypes' BY <1>1, SteadyKeeps DEF ClientsInv, ClientTypes, L!TypeOK, Steady
<1>3. RunsUseLinks' BY <1>1, SteadyKeeps
<1>4. \A c \in L!ToSet(cached) : c \in DOMAIN lists
  BY DEF ClientsInv, CacheIsTight, RunsUseLinks, ClientTypes, L!TypeOK
<1>5. CacheIsTight'
  <2>1. \A c \in L!ToSet(cached) : lists'[c].server = lists[c].server BY <1>4, SteadyKeeps DEF L!ServerOf
  <2> QED BY <1>1, <2>1 DEF ClientsInv, CacheIsTight, L!Live, L!ServerOf
<1>6. DisposalsAreDue' BY <1>1 DEF ClientsInv, DisposalsAreDue, Told
<1>7. WalkIsLast' BY <1>1, SteadyKeeps DEF ClientsInv, WalkIsLast, L!AllApplied
<1> QED BY <1>2, <1>3, <1>5, <1>6, <1>7 DEF ClientsInv

(***************************************************************************)
(* A connection leaves the cache, because it failed or was disposed.       *)
(***************************************************************************)
LEMMA LeavingIsFine ==
  ASSUME L!ConstantsOK, ClientsInv, Steady, NEW c \in L!ToSet(cached), cached' = L!Removed(c),
         tools' = tools, blamed \subseteq blamed', blamed' \subseteq L!Lists,
         UNCHANGED <<armed, applying, L!walkVars>>,
         \/ link[c] = "pending" /\ link' = [link EXCEPT ![c] = "failed"] /\ disposals' = disposals
         \/ link' = link /\ disposals' = L!Disposed(c) /\ c \in blamed'
  PROVE  ClientsInv'
<1>1. UNCHANGED <<tools, armed, applying, walk, visiting, visited>> BY DEF L!walkVars
<1>2. c \in L!Lists /\ cached \in Seq(L!Lists) /\ L!IsInjective(cached) /\ link[c] # "none"
  BY DEF ClientsInv, ClientTypes, L!TypeOK, CacheIsTight
<1>3. /\ cached' \in Seq(L!Lists) /\ L!IsInjective(cached') /\ L!ToSet(cached') = L!ToSet(cached) \ {c}
  BY <1>2, ConnectionGoes
<1>4. /\ link' \in [L!Lists -> {"none", "pending", "open", "failed"}]
      /\ \A d \in L!Lists \ {c} : link'[d] = link[d]
      /\ link'[c] # "none"
  BY <1>2 DEF ClientsInv, ClientTypes, L!TypeOK
<1>5. disposals[c] <= 1 /\ disposals[c] \in Nat /\ (disposals[c] > 0 => Told(c))
  BY <1>2 DEF ClientsInv, DisposalsAreDue, ClientTypes, L!TypeOK
<1>6. /\ disposals' \in [L!Lists -> 0..2] /\ \A d \in L!Lists \ {c} : disposals'[d] = disposals[d]
      /\ disposals'[c] > 1 => Told(c)
      /\ disposals'[c] > 0 => Told(c) \/ c \in blamed'
      /\ disposals'[c] > 1 => c \in blamed'
      /\ link'[c] \in {"pending", "open"} => disposals'[c] > 0
  BY <1>2, <1>5 DEF ClientsInv, ClientTypes, L!TypeOK, L!Disposed
<1>7. ClientTypes'
  BY <1>1, <1>3, <1>4, <1>6, SteadyKeeps DEF ClientsInv, ClientTypes, L!TypeOK, Steady
<1>8. RunsUseLinks' BY <1>2, <1>4, <1>6, SteadyKeeps
<1>9. \A d \in L!ToSet(cached) : d \in DOMAIN lists /\ d \in L!Lists
  BY DEF ClientsInv, CacheIsTight, RunsUseLinks, ClientTypes, L!TypeOK
<1>10. CacheIsTight'
  <2>1. \A d \in L!ToSet(cached) : lists'[d].server = lists[d].server BY <1>9, SteadyKeeps DEF L!ServerOf
  <2>2. L!Live' \subseteq L!Live \ {c} BY <1>4, <1>6 DEF L!Live
  <2> QED BY <1>3, <1>4, <1>9, <2>1, <2>2 DEF ClientsInv, CacheIsTight, L!ServerOf
<1>11. DisposalsAreDue'
  <2>1. \A d \in L!Lists : Told(d)' = Told(d) BY <1>1 DEF Told
  <2> QED BY <1>3, <1>6, <2>1 DEF ClientsInv, DisposalsAreDue
<1>12. WalkIsLast' BY <1>1, SteadyKeeps DEF ClientsInv, WalkIsLast, L!AllApplied
<1> QED BY <1>7, <1>8, <1>10, <1>11, <1>12 DEF ClientsInv

(***************************************************************************)
(* A connection is there, or is not.                                       *)
(***************************************************************************)
LEMMA SettlingIsFine ==
  ASSUME L!ConstantsOK, ClientsInv, NEW c \in L!Lists, L!Connects(c) \/ L!ConnectFails(c)
  PROVE  ClientsInv'
<1>1. Steady BY AllGoOn DEF L!Connects, L!ConnectFails, ClientsInv
<1>2. CASE L!ConnectFails(c) /\ c \in L!ToSet(cached)
  BY <1>1, <1>2, LeavingIsFine DEF L!ConnectFails, ClientsInv, ClientTypes, L!TypeOK
<1>3. CASE L!Connects(c) \/ (L!ConnectFails(c) /\ c \notin L!ToSet(cached))
  <2>1. /\ UNCHANGED <<cached, disposals, armed, applying, walk, visiting, visited, tools, blamed>>
        /\ link[c] = "pending" 
        /\ \/ link' = [link EXCEPT ![c] = "open"]
           \/ link' = [link EXCEPT ![c] = "failed"] /\ c \notin L!ToSet(cached)
    BY <1>3 DEF L!Connects, L!ConnectFails, L!Removed, L!walkVars
  <2>2. /\ link' \in [L!Lists -> {"none", "pending", "open", "failed"}]
        /\ \A d \in L!Lists \ {c} : link'[d] = link[d]
        /\ link'[c] = "open" \/ (link'[c] = "failed" /\ c \notin L!ToSet(cached))
    BY <2>1 DEF ClientsInv, ClientTypes, L!TypeOK
  <2>3. ClientTypes' BY <1>1, <2>1, <2>2, SteadyKeeps DEF ClientsInv, ClientTypes, L!TypeOK, Steady
  <2>4. RunsUseLinks' BY <1>1, <2>1, <2>2, SteadyKeeps
  <2>5. \A d \in L!ToSet(cached) : d \in DOMAIN lists /\ d \in L!Lists
    BY DEF ClientsInv, CacheIsTight, RunsUseLinks, ClientTypes, L!TypeOK
  <2>6. CacheIsTight'
    <3>1. \A d \in L!ToSet(cached) : lists'[d].server = lists[d].server
      BY <1>1, <2>5, SteadyKeeps DEF L!ServerOf
    <3>2. L!Live' \subseteq L!Live BY <2>1, <2>2 DEF L!Live
    <3> QED BY <2>1, <2>2, <2>5, <3>1, <3>2 DEF ClientsInv, CacheIsTight, L!ServerOf
  <2>7. DisposalsAreDue' BY <2>1 DEF ClientsInv, DisposalsAreDue, Told
  <2>8. WalkIsLast' BY <1>1, <2>1, SteadyKeeps DEF ClientsInv, WalkIsLast, L!AllApplied
  <2> QED BY <2>3, <2>4, <2>6, <2>7, <2>8 DEF ClientsInv
<1> QED BY <1>2, <1>3

(***************************************************************************)
(* An answer comes, or a run fails and evicts the connection it blames.    *)
(***************************************************************************)
LEMMA EndingIsFine ==
  ASSUME L!ConstantsOK, ClientsInv, NEW r \in DOMAIN lists, L!Answers(r) \/ L!ListFails(r) \/ L!Evicted(r)
  PROVE  ClientsInv'
<1>1. r \in L!Lists /\ lists[r].on \in L!Lists /\ L!ServerOf(r) \in L!Servers
  BY RunsAreListed DEF ClientsInv, L!ServerOf, L!Listing
<1>2. blamed \subseteq L!Lists /\ tools \in [L!Servers -> L!Lists \union {NoRun}]
  BY DEF ClientsInv, ClientTypes, L!TypeOK
<1>3. Steady BY RunsGoOn DEF L!Answers, L!ListFails, L!Evicted, L!Evict, L!Ended, ClientsInv
<1>4. CASE L!Answers(r)
  BY <1>1, <1>2, <1>3, <1>4, GoingOnIsFine DEF L!Answers, L!cacheVars
<1>5. CASE L!Evicted(r)
  BY <1>2, <1>3, <1>5, GoingOnIsFine DEF L!Evicted, L!cacheVars
<1>6. CASE L!ListFails(r) /\ lists[r].on \in L!ToSet(cached)
  <2>1. PICK c : c = lists[r].on OBVIOUS
  <2>2. /\ cached' = L!Removed(c) /\ disposals' = L!Disposed(c) /\ blamed' = blamed \union {c}
        /\ UNCHANGED <<link, armed, applying, L!walkVars, tools>>
    BY <1>6, <2>1 DEF L!ListFails, L!Evict
  <2> QED BY <1>1, <1>2, <1>3, <1>6, <2>1, <2>2, LeavingIsFine
<1>7. CASE L!ListFails(r) /\ lists[r].on \notin L!ToSet(cached)
  <2>1. /\ UNCHANGED <<link, cached, disposals, armed, applying, L!walkVars, tools>>
        /\ blamed' = blamed \union {lists[r].on}
    BY <1>7 DEF L!ListFails, L!Evict
  <2> QED BY <1>1, <1>2, <1>3, <2>1, GoingOnIsFine
<1> QED BY <1>4, <1>5, <1>6, <1>7

(***************************************************************************)
(* The walk of the teardown.                                               *)
(***************************************************************************)
LEMMA WalkingIsFine ==
  ASSUME L!ConstantsOK, ClientsInv, L!Teardown \/ L!WalkOn \/ L!WalkDisposes \/ L!WalkPasses \/ L!WalkEnds
  PROVE  ClientsInv'
<1>1. UNCHANGED <<lists, link, armed, applying, tools, blamed>>
  BY DEF L!Teardown, L!WalkOn, L!WalkDisposes, L!WalkPasses, L!WalkEnds, L!cacheVars
<1>2. RunsUseLinks' \/ L!WalkDisposes
  BY <1>1 DEF L!Teardown, L!WalkOn, L!WalkPasses, L!WalkEnds, L!cacheVars, ClientsInv, RunsUseLinks, L!ServerOf
<1>3. CASE L!Teardown
  <2>1. UNCHANGED <<cached, disposals, visiting, visited>> /\ walk = "no" /\ walk' = "between" /\ L!AllApplied
    BY <1>3 DEF L!Teardown, L!cacheVars
  <2>2. ClientTypes' BY <1>1, <2>1 DEF ClientsInv, ClientTypes, L!TypeOK
  <2>3. CacheIsTight' BY <1>1, <2>1 DEF ClientsInv, CacheIsTight, L!Live, L!ServerOf
  <2>4. DisposalsAreDue' /\ WalkIsLast'
    BY <1>1, <2>1 DEF ClientsInv, DisposalsAreDue, WalkIsLast, Told, L!AllApplied
  <2> QED BY <1>2, <1>3, <2>2, <2>3, <2>4 DEF ClientsInv, L!Teardown, L!WalkDisposes
<1>4. CASE L!WalkOn
  <2>1. PICK c : c = L!NextClient OBVIOUS
  <2>2. /\ UNCHANGED <<cached, disposals>> /\ walk = "between" /\ walk' = "awaiting"
        /\ visiting' = c /\ visited' = visited \union {c}
    BY <1>4, <2>1 DEF L!WalkOn, L!cacheVars
  <2>3. c \in L!ToSet(cached) \ visited
    <3>1. DOMAIN cached \subseteq Nat BY DEF ClientsInv, ClientTypes
    <3>2. L!Min(L!Ahead) \in L!Ahead BY <1>4, <3>1, MinIsLeast DEF L!WalkOn, L!Ahead
    <3> QED BY <2>1, <3>2 DEF L!Ahead, L!NextClient, L!ToSet
  <2>4. ClientTypes' BY <1>1, <2>2, <2>3 DEF ClientsInv, ClientTypes, L!TypeOK
  <2>5. CacheIsTight' BY <1>1, <2>2 DEF ClientsInv, CacheIsTight, L!Live, L!ServerOf
  <2>6. DisposalsAreDue'
    <3>1. \A d \in L!Lists : Told(d)' = Told(d) BY <2>2, <2>3 DEF Told
    <3> QED BY <1>1, <2>2, <3>1 DEF ClientsInv, DisposalsAreDue
  <2>7. WalkIsLast' BY <1>1, <2>2 DEF ClientsInv, WalkIsLast, L!AllApplied
  <2> QED BY <1>2, <1>4, <2>2, <2>4, <2>5, <2>6, <2>7 DEF ClientsInv, L!WalkDisposes
<1>5. CASE L!WalkDisposes
  <2>1. PICK c : c = visiting OBVIOUS
  <2>2. /\ UNCHANGED <<cached, visiting, visited>> /\ walk = "awaiting" /\ walk' = "disposing"
        /\ disposals' = L!Disposed(c) /\ link[c] = "open"
    BY <1>5, <2>1 DEF L!WalkDisposes
  <2>3. c \in visited /\ c \in L!Lists BY <2>1, <2>2 DEF ClientsInv, WalkIsLast, ClientTypes, L!TypeOK
  <2>4. ~Told(c) /\ Told(c)' /\ \A d \in L!Lists \ {c} : Told(d)' = Told(d)
    BY <2>1, <2>2, <2>3 DEF Told
  <2>5. disposals[c] <= 1 /\ disposals[c] \in Nat /\ (disposals[c] > 0 => c \in blamed /\ c \notin L!ToSet(cached))
    BY <2>3, <2>4 DEF ClientsInv, DisposalsAreDue, ClientTypes, L!TypeOK
  <2>6. /\ disposals' \in [L!Lists -> 0..2] /\ disposals'[c] = disposals[c] + 1
        /\ \A d \in L!Lists \ {c} : disposals'[d] = disposals[d]
    BY <2>2, <2>3, <2>5 DEF ClientsInv, ClientTypes, L!TypeOK, L!Disposed
  <2>7. ClientTypes' BY <1>1, <2>2, <2>6 DEF ClientsInv, ClientTypes, L!TypeOK
  <2>8. CacheIsTight'
    <3>1. L!Live' \subseteq L!Live BY <1>1, <2>5, <2>6 DEF L!Live
    <3> QED BY <1>1, <2>2, <3>1 DEF ClientsInv, CacheIsTight, L!ServerOf
  <2>9. DisposalsAreDue'
    BY <1>1, <2>2, <2>4, <2>5, <2>6 DEF ClientsInv, DisposalsAreDue
  <2>10. RunsUseLinks'
    BY <1>1, <2>2, <2>3, <2>6 DEF ClientsInv, RunsUseLinks, L!ServerOf
  <2>11. WalkIsLast' BY <1>1, <2>2 DEF ClientsInv, WalkIsLast, L!AllApplied
  <2> QED BY <2>7, <2>8, <2>9, <2>10, <2>11 DEF ClientsInv
<1>6. CASE L!WalkPasses
  <2>1. /\ UNCHANGED <<cached, disposals, visiting, visited>> /\ walk' = "between"
        /\ walk \in {"awaiting", "disposing"} /\ (walk = "awaiting" => link[visiting] = "failed")
    BY <1>6 DEF L!WalkPasses, L!cacheVars
  <2>2. ClientTypes' BY <1>1, <2>1 DEF ClientsInv, ClientTypes, L!TypeOK
  <2>3. CacheIsTight' BY <1>1, <2>1 DEF ClientsInv, CacheIsTight, L!Live, L!ServerOf
  <2>4. \A c \in L!Lists : Told(c) => Told(c)' BY <2>1 DEF Told
  <2>5. \A c \in L!ToSet(cached) : Told(c)' => Told(c)
    BY <2>1 DEF Told, ClientsInv, CacheIsTight
  <2>6. DisposalsAreDue' BY <1>1, <2>1, <2>4, <2>5 DEF ClientsInv, DisposalsAreDue
  <2>7. WalkIsLast' BY <1>1, <2>1 DEF ClientsInv, WalkIsLast, L!AllApplied
  <2> QED BY <1>2, <1>6, <2>2, <2>3, <2>6, <2>7, <2>1 DEF ClientsInv, L!WalkPasses, L!WalkDisposes
<1>7. CASE L!WalkEnds
  <2>1. /\ UNCHANGED <<disposals, visiting, visited>> /\ walk = "between" /\ walk' = "over"
        /\ cached' = <<>> /\ L!Ahead = {}
    BY <1>7 DEF L!WalkEnds
  <2>2. L!ToSet(cached') = {} /\ cached' \in Seq(L!Lists) /\ L!IsInjective(cached')
    BY <2>1 DEF L!ToSet, L!IsInjective
  <2>3. ClientTypes' BY <1>1, <2>1, <2>2 DEF ClientsInv, ClientTypes, L!TypeOK
  <2>4. \A c \in L!Lists : Told(c)' = Told(c) BY <2>1 DEF Told
  <2>5. \A c \in L!ToSet(cached) : Told(c) BY <2>1 DEF Told, L!Ahead, L!ToSet
  <2>6. L!Live = {}
    BY <2>5 DEF ClientsInv, CacheIsTight, DisposalsAreDue, L!Live
  <2>7. CacheIsTight' BY <1>1, <2>1, <2>2, <2>6 DEF CacheIsTight, L!Live
  <2>8. DisposalsAreDue' BY <1>1, <2>1, <2>2, <2>4 DEF ClientsInv, DisposalsAreDue
  <2>9. WalkIsLast' BY <1>1, <2>1 DEF ClientsInv, WalkIsLast, L!AllApplied
  <2> QED BY <1>2, <1>7, <2>1, <2>3, <2>7, <2>8, <2>9 DEF ClientsInv, L!WalkDisposes
<1> QED BY <1>3, <1>4, <1>5, <1>6, <1>7

(***************************************************************************)
(* ClientsInv is inductive.                                                *)
(***************************************************************************)
THEOREM ClientsAreKept ==
  ASSUME L!ConstantsOK
  PROVE  L!Spec => []ClientsInv
<1>1. ClientsInv /\ [L!Next]_(L!vars) => ClientsInv'
  <2> SUFFICES ASSUME ClientsInv, [L!Next]_(L!vars) PROVE ClientsInv'
    OBVIOUS
  <2>1. CASE UNCHANGED L!vars
    BY <2>1 DEF L!vars, L!cacheVars, L!walkVars, ClientsInv, ClientTypes, L!TypeOK, RunsUseLinks, L!ServerOf,
                CacheIsTight, L!Live, DisposalsAreDue, Told, WalkIsLast, L!AllApplied
  <2> QED BY <2>1, RunsAreFine, SettlingIsFine, EndingIsFine, WalkingIsFine DEF L!Next
<1> QED BY <1>1, ClientsStart, PTL DEF L!Spec

(***************************************************************************)
(* A connection is closed by a run that failed on it or by the walk, by    *)
(* each once, and what is open is the one connection of its server.        *)
(***************************************************************************)
THEOREM ClientsAreClosed ==
  ASSUME L!ConstantsOK
  PROVE  L!Spec => []L!ClientsAreDisposed
<1>1. ClientsInv => L!ClientsAreDisposed
  BY DEF ClientsInv, L!ClientsAreDisposed, CacheIsTight, DisposalsAreDue, Told, L!CachedFor,
         ClientTypes, L!TypeOK
<1> QED BY <1>1, ClientsAreKept, PTL

===============================================================================

-------------------------- MODULE Operations_proof ----------------------------
(***************************************************************************)
(* What holds of each component holds of all of them together: a step of   *)
(* Operations is a step of one component and none of the others, so every  *)
(* behaviour of Operations is one of each component.  What the modules of  *)
(* proofs show of the components is true here of whichever is in focus.    *)
(***************************************************************************)
EXTENDS Operations, Wrappers_proof, Endpoints_proof

EP == INSTANCE Executor_proof

MP == INSTANCE MailSource_proof
  WITH queue <- line, at <- place, step <- loop, now <- uid, attempt <- reconnects,
       MaxAttempts <- MaxReconnects, aborted <- sourceAborted

-----------------------------------------------------------------------------
(***************************************************************************)
(* The variables of a component are the ones that rest with it.            *)
(***************************************************************************)
LEMMA TheirVariables ==
  /\ UNCHANGED executorVars => UNCHANGED E!vars
  /\ UNCHANGED dispatchVars => UNCHANGED D!vars
  /\ UNCHANGED throttleVars => UNCHANGED T!vars
  /\ UNCHANGED cacheVars => UNCHANGED C!vars
  /\ UNCHANGED dedupeVars => UNCHANGED U!vars
  /\ UNCHANGED stdioVars => UNCHANGED S!vars
  /\ UNCHANGED mailVars => UNCHANGED M!mailVars
  /\ UNCHANGED healthVars => UNCHANGED H!vars
  /\ UNCHANGED httpVars => UNCHANGED L!vars
BY DEF executorVars, dispatchVars, throttleVars, cacheVars, dedupeVars, stdioVars,
       mailVars, healthVars, httpVars, E!vars, D!vars, T!vars, C!vars, U!vars, S!vars,
       M!mailVars, M!poolVars, M!sourceVars, H!vars, H!routeVars, H!ledgerVars,
       L!vars, L!cacheVars, L!walkVars

(***************************************************************************)
(* A step of Operations is a step of each component, or leaves it alone.   *)
(***************************************************************************)
LEMMA StepsOfEach ==
  ASSUME [OpNext]_OpVars
  PROVE  /\ [E!Next]_(E!vars) /\ [Next]_vars /\ [D!Next]_(D!vars) /\ [T!Next]_(T!vars)
         /\ [C!Next]_(C!vars) /\ [U!Next]_(U!vars) /\ [S!Next]_(S!vars)
         /\ [M!MailNext]_(M!mailVars) /\ [H!Next]_(H!vars) /\ [L!Next]_(L!vars)
<1>1. CASE UNCHANGED OpVars
  BY <1>1, TheirVariables DEF OpVars
<1>2. CASE OpNext
  BY <1>2, TheirVariables DEF OpNext
<1> QED
  BY <1>1, <1>2

(***************************************************************************)
(* Every behaviour of Operations is one of each component.                 *)
(***************************************************************************)
THEOREM EachBehavesAsItsModuleSays ==
  OpSpec => /\ E!Spec /\ Spec /\ D!Spec /\ T!Spec /\ C!Spec /\ U!Spec
            /\ S!Spec /\ M!MailSpec /\ H!Spec /\ L!Spec
<1>1. OpInit => /\ E!Init /\ Init /\ D!Init /\ T!Init /\ C!Init /\ U!Init
                /\ S!Init /\ M!MailInit /\ H!Init /\ L!Init
  BY DEF OpInit
<1>2. [OpNext]_OpVars =>
        /\ [E!Next]_(E!vars) /\ [Next]_vars /\ [D!Next]_(D!vars) /\ [T!Next]_(T!vars)
        /\ [C!Next]_(C!vars) /\ [U!Next]_(U!vars) /\ [S!Next]_(S!vars)
        /\ [M!MailNext]_(M!mailVars) /\ [H!Next]_(H!vars) /\ [L!Next]_(L!vars)
  BY StepsOfEach
<1> QED
  BY <1>1, <1>2, PTL
     DEF OpSpec, Spec, E!Spec, D!Spec, T!Spec, C!Spec, U!Spec, S!Spec, M!MailSpec, H!Spec, L!Spec

-----------------------------------------------------------------------------
(***************************************************************************)
(* The executor that Executor_proof speaks of is the one of Operations.    *)
(***************************************************************************)
LEMMA SameRuns ==
  /\ EP!ConstantsOK <=> E!ConstantsOK
  /\ EP!Init <=> E!Init
  /\ [EP!Next]_(EP!vars) <=> [E!Next]_(E!vars)
  /\ EP!OneVerdict <=> E!OneVerdict
  /\ EP!EachChildEnds <=> E!EachChildEnds
  /\ EP!TypeOK <=> E!TypeOK
<1>1. EP!ConstantsOK <=> E!ConstantsOK
  BY DEF EP!ConstantsOK, E!ConstantsOK, EP!Kinds, E!Kinds, EP!Handlers, E!Handlers
<1>2. EP!Init <=> E!Init
  BY DEF EP!Init, E!Init, EP!Idle, E!Idle, EP!Entry, E!Entry
<1>3. [EP!Next]_(EP!vars) <=> [E!Next]_(E!vars)
  BY DEF EP!Next, E!Next, EP!HasThread, E!HasThread, EP!Running, E!Running, EP!Start, E!Start,
         EP!Loop, E!Loop, EP!TakeDone, E!TakeDone, EP!TakeStep, E!TakeStep, EP!TakeJoin,
         E!TakeJoin, EP!Settle, E!Settle, EP!Sweep, E!Sweep, EP!Answer, E!Answer, EP!Continue,
         E!Continue, EP!Complete, E!Complete, EP!Branch, E!Branch, EP!Drop, E!Drop, EP!Split,
         E!Split, EP!Join, E!Join, EP!Fail, E!Fail, EP!Handle, E!Handle, EP!Throws, E!Throws,
         EP!Schedules, E!Schedules, EP!Ready, E!Ready, EP!Announced, E!Announced, EP!Ended,
         E!Ended, EP!Parent, E!Parent, EP!Group, E!Group, EP!Child, E!Child, EP!ParentOf,
         E!ParentOf, EP!Entry, E!Entry, EP!Idle, E!Idle, EP!Kind, E!Kind, EP!Rest, E!Rest,
         EP!Unknown, E!Unknown, EP!Picked, E!Picked, EP!InGroup, E!InGroup, EP!Taken, E!Taken,
         EP!ToSet, E!ToSet, EP!Last, E!Last, EP!Front, E!Front, EP!Cardinality, E!Cardinality,
         EP!vars, E!vars
<1>4. EP!OneVerdict <=> E!OneVerdict
  BY DEF EP!OneVerdict, E!OneVerdict, EP!Verdicts, E!Verdicts, EP!Parent, E!Parent
<1>5. EP!EachChildEnds <=> E!EachChildEnds
  BY DEF EP!EachChildEnds, E!EachChildEnds, EP!Verdicts, E!Verdicts
<1>6. EP!TypeOK <=> E!TypeOK
  BY DEF EP!TypeOK, E!TypeOK, EP!Verdicts, E!Verdicts, EP!Running, E!Running, EP!ParentOf,
         E!ParentOf, EP!Entry, E!Entry, EP!Idle, E!Idle, EP!ToSet, E!ToSet, EP!Front, E!Front
<1> QED
  BY <1>1, <1>2, <1>3, <1>4, <1>5, <1>6

(***************************************************************************)
(* The source is told one outcome, whatever else the context does.         *)
(***************************************************************************)
THEOREM OneVerdictHolds == OpSpec => []OneVerdict
<1>1. EP!ConstantsOK
  BY ExecutorConstants, SameRuns
<1>2. EP!Spec => []EP!OneVerdict
  BY <1>1, EP!SourceIsToldOneOutcome
<1>3. E!Spec => []E!OneVerdict
  BY <1>2, SameRuns, PTL DEF EP!Spec, E!Spec
<1>4. E!OneVerdict => OneVerdict
  BY DEF OneVerdict
<1> QED
  BY <1>3, <1>4, EachBehavesAsItsModuleSays, PTL

(***************************************************************************)
(* A stored result is computed by one exchange, and its fate is shared by  *)
(* all who waited for it.                                                  *)
(***************************************************************************)
THEOREM SingleFlightHolds == OpSpec => []SingleFlight
<1>1. C!Spec => []C!SingleFlight
  BY WrapperConstants, OneLoadServesAll
<1>2. C!SingleFlight => SingleFlight
  BY DEF SingleFlight
<1> QED
  BY <1>1, <1>2, EachBehavesAsItsModuleSays, PTL

(***************************************************************************)
(* Who is dropped as a duplicate is one, and whose key was forgotten by    *)
(* eviction or by a failure is not held against it.                        *)
(***************************************************************************)
THEOREM SuppressionIsExactHolds == OpSpec => []SuppressionIsExact
<1>1. U!Spec => []U!SuppressionIsExact
  BY WrapperConstants, DedupeIsExact
<1>2. U!SuppressionIsExact => SuppressionIsExact
  BY DEF SuppressionIsExact
<1> QED
  BY <1>1, <1>2, EachBehavesAsItsModuleSays, PTL

(***************************************************************************)
(* Of a burst the last exchange runs.                                      *)
(***************************************************************************)
THEOREM LastOfBurstRunsHolds == OpSpec => []LastOfBurstRuns
<1>1. U!Spec => []U!LastOfBurstRuns
  BY WrapperConstants, BurstsKeepTheirLast
<1>2. U!LastOfBurstRuns => LastOfBurstRuns
  BY DEF LastOfBurstRuns
<1> QED
  BY <1>1, <1>2, EachBehavesAsItsModuleSays, PTL

(***************************************************************************)
(* The strategies of a dispatch spread the exchanges as they promise to.   *)
(***************************************************************************)
THEOREM StrategiesAlwaysHold == OpSpec => []StrategiesHold
<1>1. D!Spec => [](D!StrategiesHold /\ D!TypeOK)
  BY WrapperConstants, DispatchIsFair
<1>2. D!StrategiesHold => StrategiesHold
  BY DEF StrategiesHold
<1> QED
  BY <1>1, <1>2, EachBehavesAsItsModuleSays, PTL

(***************************************************************************)
(* A throttle lets pass what the rate allows, no more and no less.         *)
(***************************************************************************)
THEOREM RateIsExactHolds == OpSpec => RateIsExact
<1>1. T!Spec => []T!RateIsKept
  BY WrapperConstants, TheRateIsKept
<1>2. T!Spec => T!HoldsBackTheExcess
  BY WrapperConstants, OnlyTheExcessIsHeldBack
<1>3. T!RateIsKept => (focus = "throttle" => T!RateIsKept)
  OBVIOUS
<1> QED
  BY <1>1, <1>2, <1>3, EachBehavesAsItsModuleSays, PTL DEF RateIsExact

(***************************************************************************)
(* What the health ledger announced is what it reports, and what it        *)
(* reports is so, if the breakers of a route are told apart by their       *)
(* labels.                                                                 *)
(***************************************************************************)
THEOREM HealthIsTrueHolds == ASSUME LabelsDiffer PROVE OpSpec => []HealthIsTrue
<1>1. H!Spec => [](H!AnnouncedIsReported /\ H!ReportIsTrue)
  BY EndpointConstants, HealthIsTold
<1>2. H!AnnouncedIsReported /\ H!ReportIsTrue => HealthIsTrue
  BY DEF HealthIsTrue
<1> QED
  BY <1>1, <1>2, EachBehavesAsItsModuleSays, PTL

-----------------------------------------------------------------------------
(***************************************************************************)
(* The mail account that MailSource_proof speaks of is the one of          *)
(* Operations.                                                             *)
(***************************************************************************)
LEMMA SameMail ==
  /\ MP!SourceConstantsOK <=> M!SourceConstantsOK
  /\ MP!MailInit <=> M!MailInit
  /\ [MP!MailNext]_(MP!mailVars) <=> [M!MailNext]_(M!mailVars)
  /\ MP!ConnectionsAreCounted <=> M!ConnectionsAreCounted
  /\ MP!NoConnectionLeaks <=> M!NoConnectionLeaks
  /\ MP!SeenWereHandledBeforeStop <=> M!SeenWereHandledBeforeStop
  /\ MP!MailTypeOK <=> M!MailTypeOK
<1>1. MP!SourceConstantsOK <=> M!SourceConstantsOK
  BY DEF MP!SourceConstantsOK, M!SourceConstantsOK, MP!ConstantsOK, M!ConstantsOK
<1>2. MP!MailInit <=> M!MailInit
  BY DEF MP!MailInit, M!MailInit, MP!PoolInit, M!PoolInit, MP!Sources, M!Sources
<1>3. ASSUME NEW u PROVE MP!Search(u) = M!Search(u)
  BY DEF MP!Search, M!Search, MP!Try, M!Try, MP!Usable, M!Usable, MP!RemoveAt, M!RemoveAt,
         MP!Min, M!Min
<1>4. ASSUME NEW u PROVE MP!Release(u) <=> M!Release(u)
  BY DEF MP!Release, M!Release, MP!Freed, M!Freed, MP!Without, M!Without, MP!Usable, M!Usable,
         MP!Goes, M!Goes, MP!RemoveAt, M!RemoveAt
<1>5. ASSUME NEW u PROVE MP!Acquire(u) <=> M!Acquire(u)
  BY <1>3 DEF MP!Acquire, M!Acquire, MP!Reuse, M!Reuse, MP!Dial, M!Dial, MP!Enqueue, M!Enqueue,
              MP!Refuse, M!Refuse, MP!Goes, M!Goes, MP!Slot, M!Slot, MP!drainVars, M!drainVars
<1>6. ASSUME NEW i PROVE MP!WalkFrom(i) <=> M!WalkFrom(i)
  BY DEF MP!WalkFrom, M!WalkFrom, MP!Min, M!Min
<1>7. MP!PoolNext <=> M!PoolNext
  <2>1. ASSUME NEW v PROVE (MP!Visit(v) \/ MP!Open(v) \/ MP!Leave(v) \/ MP!TurnAway(v))
                             <=> (M!Visit(v) \/ M!Open(v) \/ M!Leave(v) \/ M!TurnAway(v))
    BY <1>4, <1>5 DEF MP!Visit, M!Visit, MP!Open, M!Open, MP!OpenMailbox, M!OpenMailbox,
                      MP!Leave, M!Leave, MP!TurnAway, M!TurnAway, MP!Usable, M!Usable, MP!Goes,
                      M!Goes, MP!drainVars, M!drainVars
  <2>2. ASSUME NEW u PROVE (MP!Land(u) \/ MP!LandLate(u) \/ MP!DialFails(u))
                             <=> (M!Land(u) \/ M!LandLate(u) \/ M!DialFails(u))
    BY DEF MP!Land, M!Land, MP!LandLate, M!LandLate, MP!DialFails, M!DialFails, MP!Without,
           M!Without, MP!Gone, M!Gone, MP!Fault, M!Fault, MP!Goes, M!Goes, MP!RemoveAt,
           M!RemoveAt, MP!drainVars, M!drainVars
  <2>3. ASSUME NEW c PROVE MP!Break(c) <=> M!Break(c)
    BY DEF MP!Break, M!Break, MP!Usable, M!Usable, MP!Fault, M!Fault, MP!drainVars, M!drainVars
  <2>4. MP!LoggedOut <=> M!LoggedOut
    BY <1>6 DEF MP!LoggedOut, M!LoggedOut, MP!Gone, M!Gone
  <2> QED
    BY <2>1, <2>2, <2>3, <2>4 DEF MP!PoolNext, M!PoolNext
<1>8. ASSUME NEW s PROVE (MP!SourceStep(s) <=> M!SourceStep(s)) /\ (MP!Abort(s) <=> M!Abort(s))
  <2>1. /\ MP!Connect(s) <=> M!Connect(s)
        /\ MP!Opened(s) <=> M!Opened(s)
        /\ MP!OpenedLate(s) <=> M!OpenedLate(s)
        /\ MP!Retry(s) <=> M!Retry(s)
    BY <1>4, <1>5 DEF MP!Connect, M!Connect, MP!Opened, M!Opened, MP!OpenedLate, M!OpenedLate,
                      MP!Retry, M!Retry, MP!OpenMailbox, M!OpenMailbox, MP!Moves, M!Moves,
                      MP!Usable, M!Usable, MP!poolVars, M!poolVars, MP!sourceVars, M!sourceVars,
                      MP!drainVars, M!drainVars, MP!boxVars, M!boxVars, MP!loopVars, M!loopVars
  <2>2. ASSUME NEW fatal
        PROVE  /\ MP!Refused(s, fatal) <=> M!Refused(s, fatal)
               /\ MP!OpenFails(s, fatal) <=> M!OpenFails(s, fatal)
               /\ MP!Lose(s, fatal) <=> M!Lose(s, fatal)
    BY <1>4 DEF MP!Refused, M!Refused, MP!OpenFails, M!OpenFails, MP!Lose, M!Lose, MP!RetryOrEnd,
                M!RetryOrEnd, MP!Failing, M!Failing, MP!Counted, M!Counted, MP!FailsInLoop,
                M!FailsInLoop, MP!Moves, M!Moves, MP!Goes, M!Goes, MP!Usable, M!Usable,
                MP!poolVars, M!poolVars, MP!sourceVars, M!sourceVars, MP!drainVars, M!drainVars,
                MP!boxVars, M!boxVars, MP!loopVars, M!loopVars
  <2>3. /\ MP!Fetch(s) <=> M!Fetch(s)
        /\ MP!Finish(s) <=> M!Finish(s)
        /\ MP!Deliver(s) <=> M!Deliver(s)
        /\ MP!HandlerResolves(s) <=> M!HandlerResolves(s)
        /\ MP!MessageIsMalformed(s) <=> M!MessageIsMalformed(s)
        /\ MP!HandlerFails(s) <=> M!HandlerFails(s)
    BY DEF MP!Fetch, M!Fetch, MP!Finish, M!Finish, MP!Deliver, M!Deliver, MP!HandlerResolves,
           M!HandlerResolves, MP!MessageIsMalformed, M!MessageIsMalformed, MP!HandlerFails,
           M!HandlerFails, MP!Settles, M!Settles, MP!Unseen, M!Unseen, MP!Message, M!Message,
           MP!Moves, M!Moves, MP!Usable, M!Usable, MP!poolVars, M!poolVars, MP!sourceVars,
           M!sourceVars, MP!drainVars, M!drainVars, MP!boxVars, M!boxVars, MP!loopVars, M!loopVars
  <2>4. /\ MP!Mark(s) <=> M!Mark(s)
        /\ MP!DiscardAndEnd(s) <=> M!DiscardAndEnd(s)
        /\ MP!Wake(s) <=> M!Wake(s)
        /\ MP!Abort(s) <=> M!Abort(s)
    BY <1>4 DEF MP!Mark, M!Mark, MP!DiscardAndEnd, M!DiscardAndEnd, MP!Wake, M!Wake, MP!Abort,
                M!Abort, MP!FlagSeen, M!FlagSeen, MP!InLoop, M!InLoop, MP!Moves, M!Moves,
                MP!Usable, M!Usable, MP!poolVars, M!poolVars, MP!sourceVars, M!sourceVars,
                MP!drainVars, M!drainVars, MP!boxVars, M!boxVars, MP!loopVars, M!loopVars
  <2> QED
    BY <2>1, <2>2, <2>3, <2>4 DEF MP!SourceStep, M!SourceStep
<1>9. MP!Sources = M!Sources
  BY DEF MP!Sources, M!Sources
<1>10. ASSUME NEW box, NEW u PROVE MP!Arrive(box, u) <=> M!Arrive(box, u)
  BY DEF MP!Arrive, M!Arrive, MP!poolVars, M!poolVars, MP!sourceVars, M!sourceVars, MP!drainVars,
         M!drainVars, MP!boxVars, M!boxVars, MP!loopVars, M!loopVars
<1>11. MP!Teardown <=> M!Teardown
  BY <1>6, <1>9 DEF MP!Teardown, M!Teardown, MP!Drain, M!Drain, MP!sourceVars, M!sourceVars
<1>12. [MP!MailNext]_(MP!mailVars) <=> [M!MailNext]_(M!mailVars)
  BY <1>7, <1>8, <1>9, <1>10, <1>11
     DEF MP!MailNext, M!MailNext, MP!mailVars, M!mailVars, MP!poolVars, M!poolVars,
         MP!sourceVars, M!sourceVars, MP!drainVars, M!drainVars, MP!boxVars, M!boxVars,
         MP!loopVars, M!loopVars
<1>13. MP!ConnectionsAreCounted <=> M!ConnectionsAreCounted
  BY DEF MP!ConnectionsAreCounted, M!ConnectionsAreCounted, MP!Serving, M!Serving, MP!Sockets,
         M!Sockets, MP!Cardinality, M!Cardinality
<1>14. MP!NoConnectionLeaks <=> M!NoConnectionLeaks
  BY DEF MP!NoConnectionLeaks, M!NoConnectionLeaks, MP!Sources, M!Sources
<1>15. MP!SeenWereHandledBeforeStop <=> M!SeenWereHandledBeforeStop
  BY DEF MP!SeenWereHandledBeforeStop, M!SeenWereHandledBeforeStop, MP!SeenWereHandled,
         M!SeenWereHandled
<1>16. MP!MailTypeOK <=> M!MailTypeOK
  BY DEF MP!MailTypeOK, M!MailTypeOK, MP!PoolTypeOK, M!PoolTypeOK, MP!Sources, M!Sources,
         MP!ToSet, M!ToSet
<1> QED
  BY <1>1, <1>2, <1>12, <1>13, <1>14, <1>15, <1>16

(***************************************************************************)
(* The pool of the mail account keeps its books, and loses no slot.        *)
(***************************************************************************)
THEOREM SlotsAreExactHolds == OpSpec => []SlotsAreExact
<1>1. MP!SourceConstantsOK
  BY EndpointConstants, SameMail
<1>2. MP!MailSpec => [](MP!ConnectionsAreCounted /\ MP!NoConnectionLeaks)
  BY <1>1, MP!ThePoolIsCounted, MP!NoSlotIsLost, PTL
<1>3. M!MailSpec => [](M!ConnectionsAreCounted /\ M!NoConnectionLeaks)
  BY <1>2, SameMail, PTL DEF MP!MailSpec, M!MailSpec
<1>4. M!ConnectionsAreCounted /\ M!NoConnectionLeaks => SlotsAreExact
  BY DEF SlotsAreExact
<1> QED
  BY <1>3, <1>4, EachBehavesAsItsModuleSays, PTL

(***************************************************************************)
(* What a source that nobody stopped marks as seen was handled.            *)
(***************************************************************************)
THEOREM SeenWereHandledBeforeStopHolds == OpSpec => []SeenWereHandledBeforeStop
<1>1. MP!SourceConstantsOK
  BY EndpointConstants, SameMail
<1>2. MP!MailSpec => []MP!SeenWereHandledBeforeStop
  BY <1>1, MP!OnlyTheHandledIsSeen
<1>3. M!MailSpec => []M!SeenWereHandledBeforeStop
  BY <1>2, SameMail, PTL DEF MP!MailSpec, M!MailSpec
<1>4. M!SeenWereHandledBeforeStop => SeenWereHandledBeforeStop
  BY DEF SeenWereHandledBeforeStop
<1> QED
  BY <1>3, <1>4, EachBehavesAsItsModuleSays, PTL

(***************************************************************************)
(* A stop() of an MCP process that met no start() under way and no failed  *)
(* handshake is final, one that keeps dying is given up on, and a          *)
(* connection over http is closed by whom it concerns, each once.          *)
(***************************************************************************)
THEOREM McpClientsAreOrderlyHolds ==
  ASSUME PowersArePowers
  PROVE  OpSpec => []McpClientsAreOrderly
<1>1. S!ConstantsOK /\ L!ConstantsOK BY EndpointConstants
<1>2. S!Spec => [](S!TypeOK /\ S!CalmStopIsFinal /\ S!FlappingEnds)
  BY <1>1, ManagerIsOrderly
<1>3. L!Spec => []L!ClientsAreDisposed
  BY <1>1, ClientsAreClosed
<1>4. S!CalmStopIsFinal /\ S!FlappingEnds /\ L!ClientsAreDisposed => McpClientsAreOrderly
  BY DEF McpClientsAreOrderly
<1> QED
  BY <1>2, <1>3, <1>4, EachBehavesAsItsModuleSays, PTL

-----------------------------------------------------------------------------
(***************************************************************************)
(* The state of every component keeps its shape, and with it the bounds    *)
(* that are part of it: of the breaker's counters, of the tokens, of the   *)
(* entries of a cache, of the keys remembered, of the reconnects.          *)
(***************************************************************************)
THEOREM AllTypesOKHolds ==
  ASSUME PowersArePowers, LabelsDiffer
  PROVE  OpSpec => []AllTypesOK
<1>1. E!Spec => []E!TypeOK
  <2>1. EP!ConstantsOK
    BY ExecutorConstants, SameRuns
  <2>2. EP!Spec => []EP!TypeOK
    BY <2>1, EP!ExecutorHasItsTypes
  <2> QED
    BY <2>2, SameRuns, PTL DEF EP!Spec, E!Spec
<1>2. M!MailSpec => []M!MailTypeOK
  <2>1. MP!SourceConstantsOK
    BY EndpointConstants, SameMail
  <2>2. MP!MailSpec => []MP!MailTypeOK
    BY <2>1, MP!MailHasItsTypes
  <2> QED
    BY <2>2, SameMail, PTL DEF MP!MailSpec, M!MailSpec
<1>3. Spec => []TypeOK
  BY BreakerIsBounded
<1>4. D!Spec => [](D!StrategiesHold /\ D!TypeOK)
  BY WrapperConstants, DispatchIsFair
<1>5. T!Spec => []T!TypeOK
  BY WrapperConstants, BucketsAreBounded
<1>6. C!Spec => []C!TypeOK
  BY WrapperConstants, CacheIsBounded
<1>7. U!Spec => []DedupeInv
  BY WrapperConstants, DedupeIsSettled
<1>8. S!Spec => [](S!TypeOK /\ S!CalmStopIsFinal /\ S!FlappingEnds)
  BY EndpointConstants, ManagerIsOrderly
<1>9. H!Spec => []LedgerInv
  BY EndpointConstants, LedgerIsFollowed
<1>10. L!Spec => []ClientsInv
  BY EndpointConstants, ClientsAreKept
<1>11. DedupeInv /\ LedgerInv /\ ClientsInv => U!TypeOK /\ H!TypeOK /\ L!TypeOK
  BY DEF DedupeInv, LedgerInv, ClientsInv, ClientTypes
<1>12. /\ E!TypeOK /\ TypeOK /\ D!TypeOK /\ T!TypeOK /\ C!TypeOK
       /\ U!TypeOK /\ S!TypeOK /\ M!MailTypeOK /\ H!TypeOK /\ L!TypeOK
       => AllTypesOK
  BY DEF AllTypesOK
<1> QED
  BY <1>1, <1>2, <1>3, <1>4, <1>5, <1>6, <1>7, <1>8, <1>9, <1>10, <1>11, <1>12,
     EachBehavesAsItsModuleSays, PTL

===============================================================================

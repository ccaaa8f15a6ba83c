---------------------------- MODULE Lifecycle_proof ----------------------------
(***************************************************************************)
(* What is proved of the context's life cycle, for every number of plugins *)
(* and routes, every kind of plugin and every work.                        *)
(***************************************************************************)
EXTENDS Lifecycle, FiniteSetTheorems, TLAPS

(***************************************************************************)
(* There is a first walk, whatever the routes.                             *)
(***************************************************************************)
LEMMA FirstWalk == 1 \in Walks /\ Walks \subseteq Nat
<1>1. Cardinality(Routes) \in Nat
  BY RoutesAssumption, FS_CardinalityType
<1> QED
  BY <1>1 DEF Walks

(***************************************************************************)
(* A shutdown keeps the shape of what it touches.                          *)
(***************************************************************************)
LEMMA ShutdownType ==
  ASSUME TypeOK, Shutdown
  PROVE  /\ stopped' \in BOOLEAN
         /\ intake' \in [Routes -> BOOLEAN]
         /\ walk' \in [Walks -> WalkState]
<1>1. CASE stopped
  BY <1>1 DEF TypeOK, Shutdown
<1>2. CASE ~stopped
  <2>1. \A k \in Walks : [walk[k] EXCEPT !.pc = "draining"] \in WalkState
    BY DEF TypeOK, WalkState
  <2>2. walk' \in [Walks -> WalkState]
    BY <1>2, <2>1 DEF TypeOK, Shutdown
  <2> QED
    BY <1>2, <2>2 DEF Shutdown
<1> QED
  BY <1>1, <1>2

(***************************************************************************)
(* Every action keeps the shape of the state.                              *)
(***************************************************************************)
LEMMA TypeStep == ASSUME TypeOK, [Next]_vars PROVE TypeOK'
<1> USE FirstWalk DEF TypeOK, Plugins, Hooked, bootVars, workVars, stopVars, NoWalk
<1>1. ASSUME Stop PROVE TypeOK'
  BY <1>1, PluginsAssumption, ShutdownType DEF Stop, Settles
<1>2. ASSUME Apply PROVE TypeOK'
  <2>1. next' \in 1..(N + 1) /\ applied' \subseteq Plugins
    BY <1>2, PluginsAssumption DEF Apply
  <2>2. walk' = walk /\ torn' = torn /\ hook' = hook /\ started' = started /\ live' = live
    BY <1>2 DEF Apply
  <2> QED
    BY <1>2, <2>1, <2>2 DEF Apply
<1>3. ASSUME BuildFails PROVE TypeOK'
  <2> DEFINE after == [walk[1] EXCEPT !.pc = "next", !.partial = TRUE]
  <2>1. after \in WalkState
    <3>1. walk[1] \in WalkState
      OBVIOUS
    <3> QED
      BY <3>1 DEF WalkState
  <2>2. walk' = [walk EXCEPT ![1] = after]
    BY <1>3 DEF BuildFails
  <2>3. walk' \in [Walks -> WalkState]
    BY <2>1, <2>2
  <2> QED
    BY <1>3, <2>3 DEF BuildFails
<1>4. ASSUME Build PROVE TypeOK'
  BY <1>4, PluginsAssumption DEF Build
<1>5. ASSUME ApplyRefused PROVE TypeOK'
  BY <1>5, PluginsAssumption DEF ApplyRefused, Settles
<1>6. ASSUME Start PROVE TypeOK'
  BY <1>6, PluginsAssumption DEF Start
<1>7. ASSUME ConfigRefused PROVE TypeOK'
  BY <1>7, PluginsAssumption DEF ConfigRefused, Wired, Settles
<1>8. ASSUME StartRoutes PROVE TypeOK'
  BY <1>8, PluginsAssumption DEF StartRoutes, Wired
<1>9. ASSUME RoutesReady PROVE TypeOK'
  BY <1>9, PluginsAssumption DEF RoutesReady
<1>10. ASSUME HookCalled PROVE TypeOK'
  BY <1>10, PluginsAssumption DEF HookCalled, LaterHooks, FirstOf
<1>11. ASSUME HookReturns PROVE TypeOK'
  BY <1>11, PluginsAssumption DEF HookReturns, Closing
<1>12. ASSUME HookThrows PROVE TypeOK'
  BY <1>12, PluginsAssumption, ShutdownType DEF HookThrows, Settles
<1>13. ASSUME HooksOver PROVE TypeOK'
  BY <1>13, PluginsAssumption DEF HooksOver, Settles
<1>14. ASSUME AutoStop PROVE TypeOK'
  BY <1>14, PluginsAssumption, ShutdownType DEF AutoStop
<1>15. ASSUME Returns PROVE TypeOK'
  BY <1>15, PluginsAssumption DEF Returns, Settled, Over
<1>16. ASSUME BuildUnwound PROVE TypeOK'
  BY <1>16, PluginsAssumption DEF BuildUnwound, Over
<1>17. ASSUME NEW r \in Routes, SourceReady(r) PROVE TypeOK'
  BY <1>17, PluginsAssumption DEF SourceReady
<1>18. ASSUME NEW r \in Routes, SourceEnds(r) PROVE TypeOK'
  BY <1>18, PluginsAssumption DEF SourceEnds
<1>19. ASSUME NEW r \in Routes, SourceFails(r) PROVE TypeOK'
  BY <1>19, PluginsAssumption DEF SourceFails
<1>20. ASSUME NEW r \in Routes, NEW w \in Work, Emit(r, w) PROVE TypeOK'
  BY <1>20, PluginsAssumption DEF Emit, Begins
<1>21. ASSUME NEW c \in Work, NEW w \in Work, Tap(c, w) PROVE TypeOK'
  BY <1>21, PluginsAssumption DEF Tap, Begins
<1>22. ASSUME NEW c \in Work, NEW w \in Work, NEW r \in Routes, Send(c, w, r) PROVE TypeOK'
  BY <1>22, PluginsAssumption DEF Send, Begins
<1>23. ASSUME NEW c \in Work, NEW w \in Work, NEW r \in Routes, Resume(c, w, r) PROVE TypeOK'
  BY <1>23, PluginsAssumption DEF Resume, Begins
<1>24. ASSUME NEW w \in Work, Ends(w) PROVE TypeOK'
  BY <1>24, PluginsAssumption DEF Ends
<1>25. ASSUME NEW k \in Walks, NEW r \in Routes, RouteDrained(k, r) PROVE TypeOK'
  <2> DEFINE after == [walk[k] EXCEPT !.drained = @ \cup {r}]
  <2>1. after \in WalkState
    <3>1. walk[k] \in WalkState
      OBVIOUS
    <3> QED
      BY <3>1 DEF WalkState
  <2>2. walk' = [walk EXCEPT ![k] = after]
    BY <1>25 DEF RouteDrained
  <2>3. walk' \in [Walks -> WalkState]
    BY <2>1, <2>2
  <2> QED
    BY <1>25, <2>3 DEF RouteDrained
<1>26. ASSUME NEW k \in Walks, DrainEnds(k) PROVE TypeOK'
  <2> DEFINE after == [walk[k] EXCEPT !.pc = "next", !.partial = ~completed]
  <2>1. after \in WalkState
    <3>1. (~completed) \in BOOLEAN
      OBVIOUS
    <3>2. walk[k] \in WalkState
      OBVIOUS
    <3> QED
      BY <3>1, <3>2 DEF WalkState
  <2>2. walk' = [walk EXCEPT ![k] = after]
    BY <1>26 DEF DrainEnds
  <2>3. walk' \in [Walks -> WalkState]
    BY <2>1, <2>2
  <2> QED
    BY <1>26, <2>3 DEF DrainEnds
<1>27. ASSUME NEW k \in Walks, Deadline(k) PROVE TypeOK'
  <2> DEFINE after == [walk[k] EXCEPT !.pc = "next", !.partial = ~completed, !.forced = TRUE]
  <2>1. after \in WalkState
    <3>1. (~completed) \in BOOLEAN
      OBVIOUS
    <3>2. walk[k] \in WalkState
      OBVIOUS
    <3> QED
      BY <3>1, <3>2 DEF WalkState
  <2>2. walk' = [walk EXCEPT ![k] = after]
    BY <1>27 DEF Deadline
  <2>3. walk' \in [Walks -> WalkState]
    BY <2>1, <2>2
  <2> QED
    BY <1>27, <2>3 DEF Deadline
<1>28. ASSUME NEW k \in Walks, TeardownCalled(k) PROVE TypeOK'
  <2>1. PICK i \in LastOf(Left(k)) : TornDown(k, i)
    BY <1>28 DEF TeardownCalled
  <2>2. i \in Plugins
    BY <2>1 DEF LastOf, Left
  <2> DEFINE after == [walk[k] EXCEPT !.pc = "closing", !.below = i]
             told == [plugin |-> i, partial |-> walk[k].partial, started |-> i \in started]
  <2>3. walk[k] \in WalkState
    OBVIOUS
  <2>4. after \in WalkState
    <3>1. i \in 1..(N + 1)
      BY <2>2, PluginsAssumption
    <3> QED
      BY <2>3, <3>1 DEF WalkState
  <2>5. walk' = [walk EXCEPT ![k] = after]
    BY <2>1 DEF TornDown
  <2>6. walk' \in [Walks -> WalkState]
    BY <2>4, <2>5
  <2>7. told \in TeardownInfo
    <3>1. (i \in started) \in BOOLEAN
      OBVIOUS
    <3>2. walk[k].partial \in BOOLEAN
      BY <2>3 DEF WalkState
    <3> QED
      BY <2>2, <3>1, <3>2 DEF TeardownInfo
  <2>8. torn' = Append(torn, told)
    BY <2>1 DEF TornDown
  <2>9. torn' \in Seq(TeardownInfo)
    BY <2>7, <2>8
  <2> QED
    BY <2>1, <2>6, <2>9 DEF TornDown
<1>29. ASSUME NEW k \in Walks, TeardownReturns(k) PROVE TypeOK'
  <2> DEFINE after == [walk[k] EXCEPT !.pc = "next"]
  <2>1. after \in WalkState
    <3>1. walk[k] \in WalkState
      OBVIOUS
    <3> QED
      BY <3>1 DEF WalkState
  <2>2. walk' = [walk EXCEPT ![k] = after]
    BY <1>29 DEF TeardownReturns
  <2>3. walk' \in [Walks -> WalkState]
    BY <2>1, <2>2
  <2> QED
    BY <1>29, <2>3 DEF TeardownReturns
<1>30. ASSUME NEW k \in Walks, WalkEnds(k) PROVE TypeOK'
  <2> DEFINE after == [walk[k] EXCEPT !.pc = "done"]
  <2>1. after \in WalkState
    <3>1. walk[k] \in WalkState
      OBVIOUS
    <3> QED
      BY <3>1 DEF WalkState
  <2>2. walk' = [walk EXCEPT ![k] = after]
    BY <1>30 DEF WalkEnds
  <2>3. walk' \in [Walks -> WalkState]
    BY <2>1, <2>2
  <2> QED
    BY <1>30, <2>3 DEF WalkEnds
<1>31. CASE UNCHANGED vars
  BY <1>31 DEF vars
<1> QED
  BY <1>1, <1>2, <1>3, <1>4, <1>5, <1>6, <1>7, <1>8, <1>9, <1>10, <1>11, <1>12, <1>13,
     <1>14, <1>15, <1>16, <1>17, <1>18, <1>19, <1>20, <1>21, <1>22, <1>23, <1>24, <1>25,
     <1>26, <1>27, <1>28, <1>29, <1>30, <1>31 DEF Next, Boots, RouteSteps, WorkSteps,
     WalkSteps

(***************************************************************************)
(* The initial state has its shape.                                        *)
(***************************************************************************)
LEMMA InitType == ASSUME Init PROVE TypeOK
<1>1. NoWalk \in WalkState
  BY PluginsAssumption DEF NoWalk, WalkState
<1>2. walk \in [Walks -> WalkState] /\ torn \in Seq(TeardownInfo)
  BY <1>1 DEF Init
<1>3. next \in 1..(N + 1) /\ hook = 0
  BY PluginsAssumption DEF Init
<1>4. boot \in {"building", "new"}
  BY DEF Init
<1> QED
  BY <1>2, <1>3, <1>4 DEF Init, TypeOK

(***************************************************************************)
(* The state has its shape in every behaviour.                             *)
(***************************************************************************)
THEOREM TypeCorrect == Spec => []TypeOK
<1>1. Init => TypeOK
  BY InitType
<1>2. TypeOK /\ [Next]_vars => TypeOK'
  BY TypeStep
<1> QED
  BY <1>1, <1>2, PTL DEF Spec

(***************************************************************************)
(* A teardown that is called adds itself to the ones called before.        *)
(***************************************************************************)
LEMMA OneMoreTorn ==
  ASSUME TypeOK, NEW k \in Walks, NEW i \in Plugins, TornDown(k, i)
  PROVE  /\ torn' \in Seq(TeardownInfo)
         /\ DOMAIN torn' = 1..(Len(torn) + 1) /\ DOMAIN torn = 1..Len(torn) /\ Len(torn) \in Nat
         /\ \A j \in DOMAIN torn : torn'[j] = torn[j]
         /\ torn'[Len(torn) + 1].plugin = i
         /\ torn'[Len(torn) + 1].partial = walk[k].partial
<1> DEFINE told == [plugin |-> i, partial |-> walk[k].partial, started |-> i \in started]
<1>1. told \in TeardownInfo
  <2>1. (i \in started) \in BOOLEAN
    OBVIOUS
  <2>2. walk[k].partial \in BOOLEAN
    BY DEF TypeOK, WalkState
  <2> QED
    BY <2>1, <2>2 DEF TeardownInfo
<1>2. torn' = Append(torn, told) /\ torn \in Seq(TeardownInfo)
  BY DEF TornDown, TypeOK
<1>3. Len(torn') = Len(torn) + 1 /\ Len(torn) \in Nat /\ torn' \in Seq(TeardownInfo)
  BY <1>1, <1>2
<1>4. \A j \in 1..Len(torn) : torn'[j] = torn[j]
  BY <1>1, <1>2
<1>5. torn'[Len(torn) + 1] = told
  BY <1>1, <1>2
<1>6. told.plugin = i /\ told.partial = walk[k].partial
  OBVIOUS
<1> HIDE DEF told
<1> QED
  BY <1>2, <1>3, <1>4, <1>5, <1>6

-----------------------------------------------------------------------------
(***************************************************************************)
(* How far start() came and what whenStarted() reported go together, and   *)
(* once a stop began the report is final.  The one exception is a build    *)
(* that failed: nobody holds its context.                                  *)
(***************************************************************************)
ReportIsFinal ==
  /\ completed <=> ready = "resolved"
  /\ boot = "building" => ~stopped
  /\ boot \in {"building", "new", "init", "coming", "hooks"} => stopped \/ ready = "pending"
  /\ boot \in {"up", "returned"} => ready # "pending"
  /\ stopped => ready # "pending" \/ boot \in {"unbuilding", "refused"}

NobodyStopped ==
  ~stopped => torn = <<>> /\ \A k \in Walks : walk[k].pc = "none"

WalksAgree ==
  \A k \in Walks : walk[k].pc \in {"next", "closing", "done"} =>
    (walk[k].partial <=> ready # "resolved")

ToldAgrees ==
  \A k \in DOMAIN torn : torn[k].partial <=> ready # "resolved"

AgreeInv == TypeOK /\ ReportIsFinal /\ NobodyStopped /\ WalksAgree /\ ToldAgrees

(***************************************************************************)
(* A shutdown begins with walks that only drain.                           *)
(***************************************************************************)
LEMMA ShutdownWalks ==
  ASSUME TypeOK, NobodyStopped, Shutdown
  PROVE  /\ stopped'
         /\ \/ UNCHANGED <<stopped, walk>>
            \/ ~stopped /\ \A k \in Walks : walk'[k].pc \in {"none", "draining"}
<1>1. CASE stopped
  BY <1>1 DEF Shutdown
<1>2. CASE ~stopped
  <2>1. \A k \in Walks : walk[k].pc = "none" /\ [walk[k] EXCEPT !.pc = "draining"].pc = "draining"
    BY <1>2 DEF NobodyStopped, TypeOK, WalkState
  <2> QED
    BY <1>2, <2>1 DEF Shutdown
<1> QED
  BY <1>1, <1>2

(***************************************************************************)
(* Every action keeps start(), the report and the teardowns in agreement.  *)
(***************************************************************************)
LEMMA AgreeStep == ASSUME AgreeInv, [Next]_vars PROVE AgreeInv'
<1>0. TypeOK'
  BY TypeStep DEF AgreeInv
<1> DEFINE Rest == ReportIsFinal /\ NobodyStopped /\ WalksAgree /\ ToldAgrees
<1> USE FirstWalk DEF AgreeInv, ReportIsFinal, NobodyStopped, WalksAgree, ToldAgrees, bootVars, workVars, stopVars
<1>1. ASSUME Stop PROVE Rest'
  <2>1. stopped' /\ (UNCHANGED <<stopped, walk>> \/ (~stopped /\ \A k \in Walks : walk'[k].pc \in {"none", "draining"}))
    BY <1>1, ShutdownWalks DEF Stop
  <2> QED
    BY <1>1, <2>1 DEF Stop, Settles, TypeOK
<1>2. ASSUME Apply PROVE Rest'
  BY <1>2 DEF Apply
<1>3. ASSUME BuildFails PROVE Rest'
  <2>1. \A k \in Walks : walk'[k].pc = "none" \/ walk'[k].partial
    BY <1>3 DEF BuildFails, TypeOK, WalkState
  <2> QED
    BY <1>3, <2>1 DEF BuildFails
<1>4. ASSUME Build PROVE Rest'
  BY <1>4 DEF Build
<1>5. ASSUME ApplyRefused PROVE Rest'
  BY <1>5 DEF ApplyRefused, Settles
<1>6. ASSUME Start PROVE Rest'
  BY <1>6 DEF Start
<1>7. ASSUME ConfigRefused PROVE Rest'
  BY <1>7 DEF ConfigRefused, Wired, Settles
<1>8. ASSUME StartRoutes PROVE Rest'
  BY <1>8 DEF StartRoutes, Wired
<1>9. ASSUME RoutesReady PROVE Rest'
  BY <1>9 DEF RoutesReady
<1>10. ASSUME HookCalled PROVE Rest'
  BY <1>10 DEF HookCalled, LaterHooks, FirstOf
<1>11. ASSUME HookReturns PROVE Rest'
  BY <1>11 DEF HookReturns, Closing
<1>12. ASSUME HookThrows PROVE Rest'
  <2>1. stopped' /\ (UNCHANGED <<stopped, walk>> \/ (~stopped /\ \A k \in Walks : walk'[k].pc \in {"none", "draining"}))
    BY <1>12, ShutdownWalks DEF HookThrows
  <2> QED
    BY <1>12, <2>1 DEF HookThrows, Settles, TypeOK
<1>13. ASSUME HooksOver PROVE Rest'
  <2>1. UNCHANGED <<stopped, walk, torn>> /\ boot = "hooks" /\ boot' = "up"
    BY <1>13 DEF HooksOver
  <2>2. CASE stopped
    <3>1. UNCHANGED <<ready, completed>> /\ ready # "pending"
      BY <1>13, <2>1, <2>2 DEF HooksOver
    <3> QED
      BY <2>1, <2>2, <3>1
  <2>3. CASE ~stopped
    <3>1. completed' /\ ready' = IF ready = "pending" THEN "resolved" ELSE ready
      BY <1>13, <2>3 DEF HooksOver, Settles
    <3>2. ready = "pending"
      BY <2>1, <2>3
    <3> QED
      BY <2>1, <2>3, <3>1, <3>2
  <2> QED
    BY <2>2, <2>3
<1>14. ASSUME AutoStop PROVE Rest'
  <2>1. stopped' /\ (UNCHANGED <<stopped, walk>> \/ (~stopped /\ \A k \in Walks : walk'[k].pc \in {"none", "draining"}))
    BY <1>14, ShutdownWalks DEF AutoStop
  <2> QED
    BY <1>14, <2>1 DEF AutoStop, TypeOK
<1>15. ASSUME Returns PROVE Rest'
  BY <1>15 DEF Returns, Settled, Over
<1>16. ASSUME BuildUnwound PROVE Rest'
  BY <1>16 DEF BuildUnwound, Over
<1>17. ASSUME NEW r \in Routes, SourceReady(r) PROVE Rest'
  BY <1>17 DEF SourceReady
<1>18. ASSUME NEW r \in Routes, SourceEnds(r) PROVE Rest'
  BY <1>18 DEF SourceEnds
<1>19. ASSUME NEW r \in Routes, SourceFails(r) PROVE Rest'
  BY <1>19 DEF SourceFails
<1>20. ASSUME NEW r \in Routes, NEW w \in Work, Emit(r, w) PROVE Rest'
  BY <1>20 DEF Emit, Begins
<1>21. ASSUME NEW c \in Work, NEW w \in Work, Tap(c, w) PROVE Rest'
  BY <1>21 DEF Tap, Begins
<1>22. ASSUME NEW c \in Work, NEW w \in Work, NEW r \in Routes, Send(c, w, r) PROVE Rest'
  BY <1>22 DEF Send, Begins
<1>23. ASSUME NEW c \in Work, NEW w \in Work, NEW r \in Routes, Resume(c, w, r) PROVE Rest'
  BY <1>23 DEF Resume, Begins
<1>24. ASSUME NEW w \in Work, Ends(w) PROVE Rest'
  BY <1>24 DEF Ends
<1>25. ASSUME NEW k \in Walks, NEW r \in Routes, RouteDrained(k, r) PROVE Rest'
  <2> DEFINE after == [walk[k] EXCEPT !.drained = @ \cup {r}]
  <2>1. walk' = [walk EXCEPT ![k] = after] /\ walk \in [Walks -> WalkState] /\ walk[k].pc # "none"
    BY <1>25 DEF RouteDrained, TypeOK
  <2>2. after.pc = "draining"
    <3>1. walk[k] \in WalkState
      BY <2>1
    <3> QED
      BY <1>25, <3>1 DEF RouteDrained, WalkState
  <2>3. UNCHANGED <<bootVars, stopped, torn>>
    BY <1>25 DEF RouteDrained
  <2>4. stopped
    BY <2>1
  <2>5. \A m \in Walks : walk'[m].pc \in {"next", "closing", "done"} => (walk'[m].partial <=> ready # "resolved")
    <3> HIDE DEF after
    <3> QED
      BY <2>1, <2>2
  <2> QED
    BY <2>3, <2>4, <2>5
<1>26. ASSUME NEW k \in Walks, DrainEnds(k) PROVE Rest'
  <2> DEFINE after == [walk[k] EXCEPT !.pc = "next", !.partial = ~completed]
  <2>1. walk' = [walk EXCEPT ![k] = after] /\ walk \in [Walks -> WalkState] /\ walk[k].pc # "none"
    BY <1>26 DEF DrainEnds, TypeOK
  <2>2. after.partial <=> ~completed
    <3>1. walk[k] \in WalkState
      BY <2>1
    <3> QED
      BY <1>26, <3>1 DEF DrainEnds, WalkState
  <2>3. UNCHANGED <<bootVars, stopped, torn>>
    BY <1>26 DEF DrainEnds
  <2>4. stopped
    BY <2>1
  <2>5. \A m \in Walks : walk'[m].pc \in {"next", "closing", "done"} => (walk'[m].partial <=> ready # "resolved")
    <3> HIDE DEF after
    <3> QED
      BY <2>1, <2>2
  <2> QED
    BY <2>3, <2>4, <2>5
<1>27. ASSUME NEW k \in Walks, Deadline(k) PROVE Rest'
  <2> DEFINE after == [walk[k] EXCEPT !.pc = "next", !.partial = ~completed, !.forced = TRUE]
  <2>1. walk' = [walk EXCEPT ![k] = after] /\ walk \in [Walks -> WalkState] /\ walk[k].pc # "none"
    BY <1>27 DEF Deadline, TypeOK
  <2>2. after.partial <=> ~completed
    <3>1. walk[k] \in WalkState
      BY <2>1
    <3> QED
      BY <1>27, <3>1 DEF Deadline, WalkState
  <2>3. UNCHANGED <<bootVars, stopped, torn>>
    BY <1>27 DEF Deadline
  <2>4. stopped
    BY <2>1
  <2>5. \A m \in Walks : walk'[m].pc \in {"next", "closing", "done"} => (walk'[m].partial <=> ready # "resolved")
    <3> HIDE DEF after
    <3> QED
      BY <2>1, <2>2
  <2> QED
    BY <2>3, <2>4, <2>5
<1>28. ASSUME NEW k \in Walks, TeardownCalled(k) PROVE Rest'
  <2>1. PICK i \in LastOf(Left(k)) : TornDown(k, i)
    BY <1>28 DEF TeardownCalled
  <2>2. i \in Plugins
    BY <2>1 DEF LastOf, Left, TypeOK
  <2> DEFINE after == [walk[k] EXCEPT !.pc = "closing", !.below = i]
  <2>3. walk[k].pc = "next" /\ walk \in [Walks -> WalkState]
    BY <1>28 DEF TeardownCalled, TypeOK
  <2>4. walk' = [walk EXCEPT ![k] = after] /\ UNCHANGED <<boot, ready, completed, stopped>>
    BY <2>1 DEF TornDown
  <2>5. after.partial <=> walk[k].partial
    BY <2>3 DEF WalkState
  <2>6. stopped
    BY <2>3
  <2>7. \A m \in Walks : walk'[m].pc \in {"next", "closing", "done"} => (walk'[m].partial <=> ready # "resolved")
    <3> HIDE DEF after
    <3> QED
      BY <2>3, <2>4, <2>5
  <2>8. \A m \in DOMAIN torn' : torn'[m].partial <=> ready # "resolved"
    <3>1. \A m \in DOMAIN torn' : m \in DOMAIN torn \/ m = Len(torn) + 1
      <4>1. DOMAIN torn' = 1..(Len(torn) + 1) /\ DOMAIN torn = 1..Len(torn) /\ Len(torn) \in Nat
        BY <2>1, <2>2, OneMoreTorn
      <4> HIDE DEF AgreeInv
      <4> QED
        BY <4>1
    <3>2. torn'[Len(torn) + 1].partial = walk[k].partial
      BY <2>1, <2>2, OneMoreTorn
    <3>3. \A m \in DOMAIN torn : torn'[m] = torn[m]
      BY <2>1, <2>2, OneMoreTorn
    <3> QED
      BY <2>3, <3>1, <3>2, <3>3
  <2> QED
    BY <2>4, <2>6, <2>7, <2>8
<1>29. ASSUME NEW k \in Walks, TeardownReturns(k) PROVE Rest'
  <2> DEFINE after == [walk[k] EXCEPT !.pc = "next"]
  <2>1. walk' = [walk EXCEPT ![k] = after] /\ walk \in [Walks -> WalkState] /\ walk[k].pc # "none"
    BY <1>29 DEF TeardownReturns, TypeOK
  <2>2. (after.partial <=> walk[k].partial) /\ walk[k].pc = "closing"
    <3>1. walk[k] \in WalkState
      BY <2>1
    <3> QED
      BY <1>29, <3>1 DEF TeardownReturns, WalkState
  <2>3. UNCHANGED <<boot, ready, completed, stopped, torn>>
    BY <1>29 DEF TeardownReturns
  <2>4. stopped
    BY <2>1
  <2>5. \A m \in Walks : walk'[m].pc \in {"next", "closing", "done"} => (walk'[m].partial <=> ready # "resolved")
    <3> HIDE DEF after
    <3> QED
      BY <2>1, <2>2
  <2> QED
    BY <2>3, <2>4, <2>5
<1>30. ASSUME NEW k \in Walks, WalkEnds(k) PROVE Rest'
  <2> DEFINE after == [walk[k] EXCEPT !.pc = "done"]
  <2>1. walk' = [walk EXCEPT ![k] = after] /\ walk \in [Walks -> WalkState] /\ walk[k].pc # "none"
    BY <1>30 DEF WalkEnds, TypeOK
  <2>2. (after.partial <=> walk[k].partial) /\ walk[k].pc = "next"
    <3>1. walk[k] \in WalkState
      BY <2>1
    <3> QED
      BY <1>30, <3>1 DEF WalkEnds, WalkState
  <2>3. UNCHANGED <<bootVars, stopped, torn>>
    BY <1>30 DEF WalkEnds
  <2>4. stopped
    BY <2>1
  <2>5. \A m \in Walks : walk'[m].pc \in {"next", "closing", "done"} => (walk'[m].partial <=> ready # "resolved")
    <3> HIDE DEF after
    <3> QED
      BY <2>1, <2>2
  <2> QED
    BY <2>3, <2>4, <2>5
<1>31. ASSUME UNCHANGED vars PROVE Rest'
  BY <1>31 DEF vars
<1> QED
  BY <1>0, <1>1, <1>2, <1>3, <1>4, <1>5, <1>6, <1>7, <1>8, <1>9, <1>10, <1>11, <1>12,
     <1>13, <1>14, <1>15, <1>16, <1>17, <1>18, <1>19, <1>20, <1>21, <1>22, <1>23, <1>24,
     <1>25, <1>26, <1>27, <1>28, <1>29, <1>30, <1>31 DEF Next, Boots, RouteSteps,
     WorkSteps, WalkSteps

(***************************************************************************)
(* They agree in the initial state.                                        *)
(***************************************************************************)
LEMMA InitAgrees == ASSUME Init PROVE AgreeInv
<1>1. TypeOK
  BY InitType
<1>2. \A k \in Walks : walk[k].pc = "none"
  BY DEF Init, NoWalk
<1> QED
  BY <1>1, <1>2 DEF Init, AgreeInv, ReportIsFinal, NobodyStopped, WalksAgree, ToldAgrees

(***************************************************************************)
(* Whatever stops the context and whenever: the plugins are told that the  *)
(* start was partial just when whenStarted() did not resolve.              *)
(***************************************************************************)
THEOREM TeardownsAreToldTheTruth == Spec => []PartialAgrees
<1>1. Init => AgreeInv
  BY InitAgrees
<1>2. AgreeInv /\ [Next]_vars => AgreeInv'
  BY AgreeStep
<1>3. AgreeInv => PartialAgrees
  <2> SUFFICES ASSUME AgreeInv, NEW k \in DOMAIN torn PROVE torn[k].partial = (ready # "resolved")
    BY DEF PartialAgrees
  <2>1. torn[k].partial \in BOOLEAN
    <3>1. torn \in Seq(TeardownInfo)
      BY DEF AgreeInv, TypeOK
    <3>2. torn[k] \in TeardownInfo
      BY <3>1
    <3> QED
      BY <3>2 DEF TeardownInfo
  <2> QED
    BY <2>1 DEF AgreeInv, ToldAgrees
<1> QED
  BY <1>1, <1>2, <1>3, PTL DEF Spec

-----------------------------------------------------------------------------
(***************************************************************************)
(* Without a listener that calls stop() in the middle of stop() there is   *)
(* one walk, and what it tore down lies at or above where it stands.       *)
(***************************************************************************)
OneWalk == \A k \in Walks : k # 1 => walk[k].pc = "none"

TornLieAbove == \A j \in DOMAIN torn : torn[j].plugin >= walk[1].below

OnceInv == OneWalk /\ TornLieAbove /\ TornDownOnce

(***************************************************************************)
(* A shutdown starts the first walk only, and does not move it.            *)
(***************************************************************************)
LEMMA ShutdownStartsOne ==
  ASSUME TypeOK, OneWalk, Shutdown, Reenters = FALSE
  PROVE  OneWalk' /\ walk'[1].below = walk[1].below
<1>1. CASE stopped
  BY <1>1 DEF Shutdown, OneWalk
<1>2. CASE ~stopped
  <2>1. \A k \in Walks : walk'[k] = IF k = 1 THEN [walk[k] EXCEPT !.pc = "draining"] ELSE walk[k]
    BY <1>2 DEF Shutdown, Shutdowns
  <2>2. [walk[1] EXCEPT !.pc = "draining"].below = walk[1].below
    BY FirstWalk DEF TypeOK, WalkState
  <2> QED
    BY <2>1, <2>2, FirstWalk DEF OneWalk
<1> QED
  BY <1>1, <1>2

(***************************************************************************)
(* Every action keeps the one walk and the order of its teardowns.         *)
(***************************************************************************)
LEMMA OnceStep == ASSUME TypeOK, OnceInv, [Next]_vars, Reenters = FALSE PROVE OnceInv'
<1> USE FirstWalk DEF OnceInv, OneWalk, TornLieAbove, TornDownOnce, bootVars, workVars, stopVars
<1>1. ASSUME Stop PROVE OnceInv'
  <2>1. Shutdown /\ torn' = torn
    BY <1>1 DEF Stop
  <2>2. OneWalk' /\ walk'[1].below = walk[1].below
    BY <2>1, ShutdownStartsOne
  <2> QED
    BY <2>1, <2>2
<1>2. ASSUME Apply PROVE OnceInv'
  BY <1>2 DEF Apply
<1>3. ASSUME BuildFails PROVE OnceInv'
  <2>1. torn' = torn /\ \A m \in Walks : m # 1 => walk'[m] = walk[m]
    BY <1>3 DEF BuildFails, TypeOK
  <2>2. walk'[1].below = walk[1].below
    BY <1>3 DEF BuildFails, TypeOK, WalkState
  <2> QED
    BY <2>1, <2>2
<1>4. ASSUME Build PROVE OnceInv'
  BY <1>4 DEF Build
<1>5. ASSUME ApplyRefused PROVE OnceInv'
  BY <1>5 DEF ApplyRefused
<1>6. ASSUME Start PROVE OnceInv'
  BY <1>6 DEF Start
<1>7. ASSUME ConfigRefused PROVE OnceInv'
  BY <1>7 DEF ConfigRefused, Wired
<1>8. ASSUME StartRoutes PROVE OnceInv'
  BY <1>8 DEF StartRoutes, Wired
<1>9. ASSUME RoutesReady PROVE OnceInv'
  BY <1>9 DEF RoutesReady
<1>10. ASSUME HookCalled PROVE OnceInv'
  BY <1>10 DEF HookCalled, LaterHooks, FirstOf
<1>11. ASSUME HookReturns PROVE OnceInv'
  BY <1>11 DEF HookReturns, Closing
<1>12. ASSUME HookThrows PROVE OnceInv'
  <2>1. Shutdown /\ torn' = torn
    BY <1>12 DEF HookThrows
  <2>2. OneWalk' /\ walk'[1].below = walk[1].below
    BY <2>1, ShutdownStartsOne
  <2> QED
    BY <2>1, <2>2
<1>13. ASSUME HooksOver PROVE OnceInv'
  BY <1>13 DEF HooksOver
<1>14. ASSUME AutoStop PROVE OnceInv'
  <2>1. Shutdown /\ torn' = torn
    BY <1>14 DEF AutoStop
  <2>2. OneWalk' /\ walk'[1].below = walk[1].below
    BY <2>1, ShutdownStartsOne
  <2> QED
    BY <2>1, <2>2
<1>15. ASSUME Returns PROVE OnceInv'
  BY <1>15 DEF Returns, Settled, Over
<1>16. ASSUME BuildUnwound PROVE OnceInv'
  BY <1>16 DEF BuildUnwound, Over
<1>17. ASSUME NEW r \in Routes, SourceReady(r) PROVE OnceInv'
  BY <1>17 DEF SourceReady
<1>18. ASSUME NEW r \in Routes, SourceEnds(r) PROVE OnceInv'
  BY <1>18 DEF SourceEnds
<1>19. ASSUME NEW r \in Routes, SourceFails(r) PROVE OnceInv'
  BY <1>19 DEF SourceFails
<1>20. ASSUME NEW r \in Routes, NEW w \in Work, Emit(r, w) PROVE OnceInv'
  BY <1>20 DEF Emit, Begins
<1>21. ASSUME NEW c \in Work, NEW w \in Work, Tap(c, w) PROVE OnceInv'
  BY <1>21 DEF Tap, Begins
<1>22. ASSUME NEW c \in Work, NEW w \in Work, NEW r \in Routes, Send(c, w, r) PROVE OnceInv'
  BY <1>22 DEF Send, Begins
<1>23. ASSUME NEW c \in Work, NEW w \in Work, NEW r \in Routes, Resume(c, w, r) PROVE OnceInv'
  BY <1>23 DEF Resume, Begins
<1>24. ASSUME NEW w \in Work, Ends(w) PROVE OnceInv'
  BY <1>24 DEF Ends
<1>25. ASSUME NEW k \in Walks, NEW r \in Routes, RouteDrained(k, r) PROVE OnceInv'
  <2>1. k = 1 /\ torn' = torn
    BY <1>25 DEF RouteDrained
  <2>2. \A m \in Walks : m # 1 => walk'[m] = walk[m]
    BY <1>25, <2>1 DEF RouteDrained, TypeOK
  <2>3. walk'[1].below = walk[1].below
    BY <1>25, <2>1 DEF RouteDrained, TypeOK, WalkState
  <2> QED
    BY <2>1, <2>2, <2>3
<1>26. ASSUME NEW k \in Walks, DrainEnds(k) PROVE OnceInv'
  <2>1. k = 1 /\ torn' = torn
    BY <1>26 DEF DrainEnds
  <2>2. \A m \in Walks : m # 1 => walk'[m] = walk[m]
    BY <1>26, <2>1 DEF DrainEnds, TypeOK
  <2>3. walk'[1].below = walk[1].below
    BY <1>26, <2>1 DEF DrainEnds, TypeOK, WalkState
  <2> QED
    BY <2>1, <2>2, <2>3
<1>27. ASSUME NEW k \in Walks, Deadline(k) PROVE OnceInv'
  <2>1. k = 1 /\ torn' = torn
    BY <1>27 DEF Deadline
  <2>2. \A m \in Walks : m # 1 => walk'[m] = walk[m]
    BY <1>27, <2>1 DEF Deadline, TypeOK
  <2>3. walk'[1].below = walk[1].below
    BY <1>27, <2>1 DEF Deadline, TypeOK, WalkState
  <2> QED
    BY <2>1, <2>2, <2>3
<1>28. ASSUME NEW k \in Walks, TeardownCalled(k) PROVE OnceInv'
  <2>1. PICK i \in LastOf(Left(k)) : TornDown(k, i)
    BY <1>28 DEF TeardownCalled
  <2>2. k = 1
    BY <1>28 DEF TeardownCalled
  <2>3. i \in Plugins /\ i < walk[1].below
    BY <2>1, <2>2 DEF LastOf, Left, TypeOK
  <2>4. walk \in [Walks -> WalkState]
    BY DEF TypeOK
  <2>5. walk'[1].below = i /\ \A m \in Walks : m # 1 => walk'[m] = walk[m]
    BY <2>1, <2>2, <2>4 DEF TornDown, WalkState
  <2>6. /\ DOMAIN torn' = 1..(Len(torn) + 1) /\ DOMAIN torn = 1..Len(torn) /\ Len(torn) \in Nat
        /\ \A j \in DOMAIN torn : torn'[j] = torn[j]
        /\ torn'[Len(torn) + 1].plugin = i
    BY <2>1, <2>3, OneMoreTorn
  <2>7. i \in Nat /\ walk[1].below \in Nat
    BY <2>3, <2>4, PluginsAssumption DEF Plugins, WalkState
  <2>8. \A j \in DOMAIN torn : torn[j].plugin \in Nat
    <3>1. \A j \in DOMAIN torn : torn[j] \in TeardownInfo
      BY DEF TypeOK
    <3> QED
      BY <3>1, PluginsAssumption DEF TeardownInfo, Plugins
  <2>9. \A j \in DOMAIN torn : torn[j].plugin > i
    BY <2>3, <2>7, <2>8
  <2>10. TornLieAbove'
    BY <2>5, <2>6, <2>7, <2>8, <2>9
  <2>11. TornDownOnce'
    BY <2>6, <2>9
  <2> QED
    BY <2>5, <2>10, <2>11
<1>29. ASSUME NEW k \in Walks, TeardownReturns(k) PROVE OnceInv'
  <2>1. k = 1 /\ torn' = torn
    BY <1>29 DEF TeardownReturns
  <2>2. \A m \in Walks : m # 1 => walk'[m] = walk[m]
    BY <1>29, <2>1 DEF TeardownReturns, TypeOK
  <2>3. walk'[1].below = walk[1].below
    BY <1>29, <2>1 DEF TeardownReturns, TypeOK, WalkState
  <2> QED
    BY <2>1, <2>2, <2>3
<1>30. ASSUME NEW k \in Walks, WalkEnds(k) PROVE OnceInv'
  <2>1. k = 1 /\ torn' = torn
    BY <1>30 DEF WalkEnds
  <2>2. \A m \in Walks : m # 1 => walk'[m] = walk[m]
    BY <1>30, <2>1 DEF WalkEnds, TypeOK
  <2>3. walk'[1].below = walk[1].below
    BY <1>30, <2>1 DEF WalkEnds, TypeOK, WalkState
  <2> QED
    BY <2>1, <2>2, <2>3
<1>31. CASE UNCHANGED vars
  BY <1>31 DEF vars
<1> QED
  BY <1>1, <1>2, <1>3, <1>4, <1>5, <1>6, <1>7, <1>8, <1>9, <1>10, <1>11, <1>12, <1>13,
     <1>14, <1>15, <1>16, <1>17, <1>18, <1>19, <1>20, <1>21, <1>22, <1>23, <1>24, <1>25,
     <1>26, <1>27, <1>28, <1>29, <1>30, <1>31 DEF Next, Boots, RouteSteps, WorkSteps,
     WalkSteps

(***************************************************************************)
(* However many callers stop the context, and however the start fails      *)
(* meanwhile: every plugin is torn down at most once, the last one first.  *)
(***************************************************************************)
THEOREM StopIsIdempotent == ASSUME Reenters = FALSE PROVE Spec => []TornDownOnce
<1>1. Init => TypeOK /\ OnceInv
  <2> SUFFICES ASSUME Init PROVE TypeOK /\ OnceInv
    OBVIOUS
  <2>1. TypeOK
    BY InitType
  <2>2. OneWalk
    BY DEF Init, OneWalk, NoWalk
  <2>3. DOMAIN torn = {}
    BY DEF Init
  <2> QED
    BY <2>1, <2>2, <2>3 DEF OnceInv, TornLieAbove, TornDownOnce
<1>2. TypeOK /\ OnceInv /\ [Next]_vars => (TypeOK /\ OnceInv)'
  BY TypeStep, OnceStep
<1>3. OnceInv => TornDownOnce
  BY DEF OnceInv
<1> QED
  BY <1>1, <1>2, <1>3, PTL DEF Spec

-----------------------------------------------------------------------------
(***************************************************************************)
(* What a walk has done so far.                                            *)
(***************************************************************************)
SameWalk(k) ==
  /\ walk'[k].below = walk[k].below /\ walk'[k].drained = walk[k].drained
  /\ walk'[k].forced = walk[k].forced

(***************************************************************************)
(* What a shutdown does: nothing, or it closes every intake and starts     *)
(* walks that have drained and torn down nothing.                          *)
(***************************************************************************)
LEMMA ShutdownEffect ==
  ASSUME TypeOK, NobodyStopped, Shutdown
  PROVE  /\ stopped'
         /\ \/ stopped /\ UNCHANGED <<walk, intake>>
            \/ /\ ~stopped /\ \A r \in Routes : ~intake'[r]
               /\ \A k \in Walks : walk'[k].pc \in {"none", "draining"} /\ SameWalk(k)
<1>1. CASE stopped
  BY <1>1 DEF Shutdown
<1>2. CASE ~stopped
  <2>1. \A k \in Walks : LET w == [walk[k] EXCEPT !.pc = "draining"]
                         IN /\ walk[k].pc = "none" /\ w.pc = "draining"
                            /\ w.below = walk[k].below /\ w.drained = walk[k].drained
                            /\ w.forced = walk[k].forced
    BY <1>2 DEF NobodyStopped, TypeOK, WalkState
  <2>2. \A k \in Walks : walk'[k] = walk[k] \/ walk'[k] = [walk[k] EXCEPT !.pc = "draining"]
    BY <1>2 DEF Shutdown
  <2> QED
    BY <1>2, <2>1, <2>2 DEF Shutdown, SameWalk
<1> QED
  BY <1>1, <1>2

(***************************************************************************)
(* What a walk does in a step, and that nobody else moves meanwhile.       *)
(***************************************************************************)
Drains(k) ==
  /\ walk[k].pc = "draining" /\ walk'[k].pc = "draining"
  /\ walk'[k].below = walk[k].below /\ walk'[k].forced = walk[k].forced
  /\ UNCHANGED <<live, torn>>
  /\ \E r \in Routes : /\ walk'[k].drained = walk[k].drained \cup {r}
                       /\ \A w \in Work : Running(w) => home[w] # r

StopsDraining(k) ==
  /\ walk[k].pc = "draining" /\ walk'[k].pc = "next"
  /\ walk'[k].below = walk[k].below /\ walk'[k].drained = walk[k].drained
  /\ walk'[k].forced \/ (walk[k].drained = Routes /\ walk'[k].forced = walk[k].forced)
  /\ UNCHANGED <<live, torn>>

TearsDown(k) ==
  /\ walk[k].pc = "next" /\ walk'[k].pc = "closing"
  /\ walk'[k].drained = walk[k].drained /\ walk'[k].forced = walk[k].forced
  /\ \E i \in LastOf(Left(k)) : TornDown(k, i) /\ walk'[k].below = i

Closes(k) ==
  /\ walk[k].pc = "closing" /\ walk'[k].pc = "next" /\ SameWalk(k)
  /\ hook # walk[k].below /\ torn' = torn
  /\ live' = IF Kind[walk[k].below] = "server" THEN live \ {walk[k].below} ELSE live

Finishes(k) ==
  /\ walk[k].pc = "next" /\ walk'[k].pc = "done" /\ SameWalk(k)
  /\ Left(k) = {} /\ UNCHANGED <<live, torn>>

(***************************************************************************)
(* A walk's step is one of these.                                          *)
(***************************************************************************)
LEMMA WalkEffect ==
  ASSUME TypeOK, NEW k \in Walks, WalkSteps(k)
  PROVE  /\ UNCHANGED <<boot, next, hook, applied, started, source, intake, workVars, stopped>>
         /\ \A m \in Walks \ {k} : walk'[m] = walk[m]
         /\ \/ Drains(k) \/ StopsDraining(k) \/ TearsDown(k) \/ Closes(k) \/ Finishes(k)
<1> USE DEF bootVars
<1>0. walk \in [Walks -> WalkState] /\ walk[k] \in WalkState
  BY DEF TypeOK
<1>1. ASSUME NEW r \in Routes, RouteDrained(k, r)
      PROVE  Drains(k) /\ \A m \in Walks \ {k} : walk'[m] = walk[m]
  <2> DEFINE after == [walk[k] EXCEPT !.drained = @ \cup {r}]
  <2>1. walk' = [walk EXCEPT ![k] = after]
    BY <1>1 DEF RouteDrained
  <2>2. /\ after.pc = walk[k].pc /\ after.below = walk[k].below /\ after.forced = walk[k].forced
        /\ after.drained = walk[k].drained \cup {r}
    BY <1>0 DEF WalkState
  <2> HIDE DEF after
  <2>3. walk'[k] = after /\ \A m \in Walks \ {k} : walk'[m] = walk[m]
    BY <1>0, <2>1
  <2> QED
    BY <1>1, <2>2, <2>3 DEF RouteDrained, Drains
<1>2. ASSUME DrainEnds(k)
      PROVE  StopsDraining(k) /\ \A m \in Walks \ {k} : walk'[m] = walk[m]
  <2> DEFINE after == [walk[k] EXCEPT !.pc = "next", !.partial = ~completed]
  <2>1. walk' = [walk EXCEPT ![k] = after]
    BY <1>2 DEF DrainEnds
  <2>2. /\ after.pc = "next" /\ after.below = walk[k].below /\ after.forced = walk[k].forced
        /\ after.drained = walk[k].drained
    BY <1>0 DEF WalkState
  <2> HIDE DEF after
  <2>3. walk'[k] = after /\ \A m \in Walks \ {k} : walk'[m] = walk[m]
    BY <1>0, <2>1
  <2> QED
    BY <1>2, <2>2, <2>3 DEF DrainEnds, StopsDraining
<1>3. ASSUME Deadline(k)
      PROVE  StopsDraining(k) /\ \A m \in Walks \ {k} : walk'[m] = walk[m]
  <2> DEFINE after == [walk[k] EXCEPT !.pc = "next", !.partial = ~completed, !.forced = TRUE]
  <2>1. walk' = [walk EXCEPT ![k] = after]
    BY <1>3 DEF Deadline
  <2>2. /\ after.pc = "next" /\ after.below = walk[k].below /\ after.forced = TRUE
        /\ after.drained = walk[k].drained
    BY <1>0 DEF WalkState
  <2> HIDE DEF after
  <2>3. walk'[k] = after /\ \A m \in Walks \ {k} : walk'[m] = walk[m]
    BY <1>0, <2>1
  <2> QED
    BY <1>3, <2>2, <2>3 DEF Deadline, StopsDraining
<1>4. ASSUME TeardownCalled(k)
      PROVE  TearsDown(k) /\ \A m \in Walks \ {k} : walk'[m] = walk[m]
  <2>0. PICK i \in LastOf(Left(k)) : TornDown(k, i)
    BY <1>4 DEF TeardownCalled
  <2> DEFINE after == [walk[k] EXCEPT !.pc = "closing", !.below = i]
  <2>1. walk' = [walk EXCEPT ![k] = after]
    BY <2>0 DEF TornDown
  <2>2. /\ after.pc = "closing" /\ after.below = i /\ after.forced = walk[k].forced
        /\ after.drained = walk[k].drained
    BY <1>0 DEF WalkState
  <2> HIDE DEF after
  <2>3. walk'[k] = after /\ \A m \in Walks \ {k} : walk'[m] = walk[m]
    BY <1>0, <2>1
  <2> QED
    BY <1>4, <2>0, <2>2, <2>3 DEF TeardownCalled, TearsDown
<1>5. ASSUME TeardownReturns(k)
      PROVE  Closes(k) /\ \A m \in Walks \ {k} : walk'[m] = walk[m]
  <2> DEFINE after == [walk[k] EXCEPT !.pc = "next"]
  <2>1. walk' = [walk EXCEPT ![k] = after]
    BY <1>5 DEF TeardownReturns
  <2>2. /\ after.pc = "next" /\ after.below = walk[k].below /\ after.forced = walk[k].forced
        /\ after.drained = walk[k].drained
    BY <1>0 DEF WalkState
  <2> HIDE DEF after
  <2>3. walk'[k] = after /\ \A m \in Walks \ {k} : walk'[m] = walk[m]
    BY <1>0, <2>1
  <2> QED
    BY <1>5, <2>2, <2>3 DEF TeardownReturns, Closes, SameWalk
<1>6. ASSUME WalkEnds(k)
      PROVE  Finishes(k) /\ \A m \in Walks \ {k} : walk'[m] = walk[m]
  <2> DEFINE after == [walk[k] EXCEPT !.pc = "done"]
  <2>1. walk' = [walk EXCEPT ![k] = after]
    BY <1>6 DEF WalkEnds
  <2>2. /\ after.pc = "done" /\ after.below = walk[k].below /\ after.forced = walk[k].forced
        /\ after.drained = walk[k].drained
    BY <1>0 DEF WalkState
  <2> HIDE DEF after
  <2>3. walk'[k] = after /\ \A m \in Walks \ {k} : walk'[m] = walk[m]
    BY <1>0, <2>1
  <2> QED
    BY <1>6, <2>2, <2>3 DEF WalkEnds, Finishes, SameWalk
<1>7. UNCHANGED <<boot, next, hook, applied, started, source, intake, workVars, stopped>>
  BY DEF WalkSteps, RouteDrained, DrainEnds, Deadline, TeardownCalled, TornDown, TeardownReturns,
         WalkEnds
<1> QED
  BY <1>1, <1>2, <1>3, <1>4, <1>5, <1>6, <1>7 DEF WalkSteps

-----------------------------------------------------------------------------
(***************************************************************************)
(* Nothing is in flight when the teardowns begin: once a stop began no     *)
(* intake is open, so nothing enters a route, and what a drained route has *)
(* in flight can only have come from itself.  A build that failed has no   *)
(* source and no work.                                                     *)
(***************************************************************************)
ClosedOnceStopped ==
  stopped => \/ \A r \in Routes : ~intake[r]
             \/ boot \in {"unbuilding", "refused"} /\ \A r \in Routes : source[r] = "idle"

FreshIsIdle ==
  boot = "building" => /\ \A r \in Routes : source[r] = "idle"
                       /\ \A w \in Work : ~Running(w)

DrainedStaysQuiet ==
  \A k \in Walks :
    /\ walk[k].pc = "none" => walk[k].drained = {}
    /\ \A r \in walk[k].drained : \A w \in Work : Running(w) => home[w] # r

WorkHasHome == \A w \in Work : Running(w) => home[w] \in Routes

QuietInv == WorkHasHome /\ ClosedOnceStopped /\ FreshIsIdle /\ DrainedStaysQuiet /\ QuietTeardown

(***************************************************************************)
(* A step that starts no work, and lets no walk begin its teardowns, keeps *)
(* the walks quiet.                                                        *)
(***************************************************************************)
LEMMA QuietFrame ==
  ASSUME QuietInv,
         \A w \in Work : Running(w)' => Running(w) /\ home'[w] = home[w],
         \A k \in Walks : \/ walk'[k] = walk[k]
                          \/ walk'[k].pc \in {"none", "draining"} /\ SameWalk(k)
                               /\ (walk'[k].pc = "none" => walk[k].pc = "none")
  PROVE  WorkHasHome' /\ DrainedStaysQuiet' /\ QuietTeardown'
<1> USE DEF QuietInv, SameWalk
<1>1. WorkHasHome'
  BY DEF WorkHasHome
<1>2. ASSUME NEW k \in Walks
      PROVE  /\ walk'[k].pc = "none" => walk'[k].drained = {}
             /\ \A r \in walk'[k].drained : \A w \in Work : Running(w)' => home'[w] # r
  BY <1>2 DEF DrainedStaysQuiet
<1>3. QuietTeardown'
  BY DEF QuietTeardown
<1> QED
  BY <1>1, <1>2, <1>3 DEF DrainedStaysQuiet

(***************************************************************************)
(* The steps of build() and start() that leave the walks alone.            *)
(***************************************************************************)
PlainBoots ==
  \/ Apply \/ Build \/ ApplyRefused \/ Start \/ ConfigRefused \/ StartRoutes \/ RoutesReady
  \/ HookCalled \/ HookReturns \/ HooksOver \/ Returns \/ BuildUnwound

(***************************************************************************)
(* Such a step closes no intake, begins no work and moves no source once   *)
(* a build failed.                                                         *)
(***************************************************************************)
LEMMA BootsStayQuiet ==
  ASSUME TypeOK, QuietInv, PlainBoots
  PROVE  QuietInv'
<1> USE DEF bootVars, workVars, stopVars
<1>1. UNCHANGED <<intake, status, home, stopped, walk>>
  BY DEF PlainBoots, Apply, Build, ApplyRefused, Start, ConfigRefused, StartRoutes, RoutesReady,
         HookCalled, HookReturns, HooksOver, Returns, BuildUnwound
<1>2. /\ boot' = "building" => boot = "building"
      /\ boot \in {"unbuilding", "refused"} => boot' \in {"unbuilding", "refused"}
      /\ source' = source \/ boot \notin {"building", "unbuilding", "refused"}
  BY DEF PlainBoots, Apply, Build, ApplyRefused, Start, ConfigRefused, StartRoutes, RoutesReady,
         HookCalled, HookReturns, HooksOver, Returns, BuildUnwound, Wired, TypeOK
<1>3. WorkHasHome' /\ DrainedStaysQuiet' /\ QuietTeardown'
  BY <1>1, QuietFrame DEF Running
<1>4. ClosedOnceStopped'
  BY <1>1, <1>2 DEF QuietInv, ClosedOnceStopped
<1>5. FreshIsIdle'
  BY <1>1, <1>2 DEF QuietInv, FreshIsIdle, Running
<1> QED
  BY <1>3, <1>4, <1>5 DEF QuietInv

(***************************************************************************)
(* Work that begins outside any other work comes in by an open intake, so  *)
(* nobody stopped; what a tap begins has its home where its parent has.    *)
(***************************************************************************)
LEMMA WorkStaysQuiet ==
  ASSUME TypeOK, NobodyStopped, QuietInv, Resumes = FALSE, NEW w \in Work, WorkSteps(w)
  PROVE  QuietInv'
<1> USE DEF bootVars, workVars, stopVars
<1>1. /\ UNCHANGED <<boot, intake, stopped, walk>>
      /\ \A r \in Routes : source'[r] = "idle" <=> source[r] = "idle"
  BY DEF WorkSteps, Emit, Tap, Send, Resume, Ends, TypeOK
<1>2. ClosedOnceStopped'
  BY <1>1 DEF QuietInv, ClosedOnceStopped
<1>3. ASSUME NEW r \in Routes, NEW c, Begins(w, r, c), source[r] # "idle", intake[r]
      PROVE  QuietInv'
  <2>1. ~stopped /\ boot # "building"
    BY <1>3 DEF QuietInv, ClosedOnceStopped, FreshIsIdle
  <2>2. \A k \in Walks : walk'[k].pc = "none" /\ walk'[k].drained = {}
    BY <1>1, <2>1 DEF NobodyStopped, QuietInv, DrainedStaysQuiet
  <2>3. WorkHasHome'
    BY <1>3 DEF Begins, TypeOK, QuietInv, WorkHasHome, Running
  <2> QED
    BY <1>1, <1>2, <2>1, <2>2, <2>3 DEF QuietInv, FreshIsIdle, DrainedStaysQuiet, QuietTeardown
<1>4. CASE \E r \in Routes : Emit(r, w)
  BY <1>3, <1>4 DEF Emit
<1>5. CASE \E c \in Work, r \in Routes : Send(c, w, r) \/ Resume(c, w, r)
  BY <1>3, <1>5 DEF Send, Resume
<1>6. CASE \E c \in Work : Tap(c, w)
  <2>1. PICK c \in Work : Tap(c, w)
    BY <1>6
  <2>2. /\ Running(c) /\ home'[w] = home[c] /\ walk' = walk
        /\ \A v \in Work \ {w} : (Running(v)' <=> Running(v)) /\ home'[v] = home[v]
    BY <2>1 DEF Tap, Begins, Running, TypeOK
  <2>3. WorkHasHome'
    BY <2>2 DEF QuietInv, WorkHasHome
  <2>4. DrainedStaysQuiet'
    BY <2>2 DEF QuietInv, DrainedStaysQuiet
  <2>5. QuietTeardown'
    BY <2>2 DEF QuietInv, QuietTeardown
  <2>6. boot # "building"
    BY <2>2 DEF QuietInv, FreshIsIdle
  <2> QED
    BY <1>1, <1>2, <2>3, <2>4, <2>5, <2>6 DEF QuietInv, FreshIsIdle
<1>7. CASE Ends(w)
  <2>1. \A v \in Work : Running(v)' => Running(v) /\ home'[v] = home[v]
    BY <1>7 DEF Ends, Running, TypeOK
  <2>2. WorkHasHome' /\ DrainedStaysQuiet' /\ QuietTeardown'
    BY <1>1, <2>1, QuietFrame
  <2>3. FreshIsIdle'
    BY <1>1, <2>1 DEF QuietInv, FreshIsIdle
  <2> QED
    BY <1>2, <2>2, <2>3 DEF QuietInv
<1> QED
  BY <1>4, <1>5, <1>6, <1>7 DEF WorkSteps

(***************************************************************************)
(* A walk goes on to the teardowns when every route is drained, or forced. *)
(***************************************************************************)
LEMMA WalksStayQuiet ==
  ASSUME TypeOK, QuietInv, NEW k \in Walks, WalkSteps(k)
  PROVE  QuietInv'
<1>1. /\ UNCHANGED <<boot, source, intake, status, home, stopped>>
      /\ \A m \in Walks \ {k} : walk'[m] = walk[m]
      /\ \/ Drains(k) \/ StopsDraining(k) \/ TearsDown(k) \/ Closes(k) \/ Finishes(k)
  BY WalkEffect DEF workVars
<1>2. \A w \in Work : (Running(w)' <=> Running(w)) /\ home'[w] = home[w]
  BY <1>1 DEF Running
<1>3. walk'[k].pc # "none"
  BY <1>1 DEF Drains, StopsDraining, TearsDown, Closes, Finishes
<1>4. \A r \in walk'[k].drained : \A w \in Work : Running(w) => home[w] # r
  <2>1. CASE Drains(k)
    BY <2>1 DEF Drains, QuietInv, DrainedStaysQuiet
  <2>2. CASE ~Drains(k)
    <3>1. walk'[k].drained = walk[k].drained
      BY <1>1, <2>2 DEF StopsDraining, TearsDown, Closes, Finishes, SameWalk
    <3> QED
      BY <3>1 DEF QuietInv, DrainedStaysQuiet
  <2> QED
    BY <2>1, <2>2
<1>5. ASSUME walk'[k].pc \in {"next", "closing", "done"}, ~walk'[k].forced, NEW w \in Work
      PROVE  ~Running(w)
  <2>1. CASE StopsDraining(k)
    <3>1. walk[k].drained = Routes
      BY <1>5, <2>1 DEF StopsDraining
    <3> QED
      BY <3>1 DEF QuietInv, DrainedStaysQuiet, WorkHasHome
  <2>2. CASE ~StopsDraining(k)
    <3>1. walk[k].pc \in {"next", "closing", "done"} /\ walk'[k].forced = walk[k].forced
      BY <1>1, <1>5, <2>2 DEF Drains, TearsDown, Closes, Finishes, SameWalk
    <3> QED
      BY <1>5, <3>1 DEF QuietInv, QuietTeardown
  <2> QED
    BY <2>1, <2>2
<1>6. WorkHasHome' /\ ClosedOnceStopped' /\ FreshIsIdle'
  BY <1>1, <1>2 DEF QuietInv, WorkHasHome, ClosedOnceStopped, FreshIsIdle
<1>7. DrainedStaysQuiet'
  BY <1>1, <1>2, <1>3, <1>4 DEF QuietInv, DrainedStaysQuiet
<1>8. QuietTeardown'
  BY <1>1, <1>2, <1>5 DEF QuietInv, QuietTeardown
<1> QED
  BY <1>6, <1>7, <1>8 DEF QuietInv

(***************************************************************************)
(* Every action keeps the teardowns quiet.                                 *)
(***************************************************************************)
LEMMA QuietStep ==
  ASSUME TypeOK, NobodyStopped, QuietInv, Resumes = FALSE, [Next]_vars
  PROVE  QuietInv'
<1> USE DEF bootVars, workVars, stopVars
<1>1. CASE Stop \/ HookThrows \/ AutoStop
  <2>1. /\ Shutdown /\ UNCHANGED <<source, status, home>>
        /\ boot \notin {"building", "unbuilding"} /\ boot' # "building"
        /\ boot' = boot \/ boot = "hooks"
    <3>1. HookThrows => hook # 0
      BY FailingAssumption DEF HookThrows
    <3> QED
      BY <1>1, <3>1 DEF Stop, HookThrows, AutoStop, TypeOK
  <2>2. /\ stopped'
        /\ \/ stopped /\ UNCHANGED <<walk, intake>>
           \/ /\ ~stopped /\ \A r \in Routes : ~intake'[r]
              /\ \A k \in Walks : walk'[k].pc \in {"none", "draining"} /\ SameWalk(k)
    BY <2>1, ShutdownEffect
  <2>3. \A k \in Walks : \/ walk'[k] = walk[k]
                         \/ walk'[k].pc \in {"none", "draining"} /\ SameWalk(k)
                              /\ (walk'[k].pc = "none" => walk[k].pc = "none")
    BY <2>2 DEF NobodyStopped
  <2>4. WorkHasHome' /\ DrainedStaysQuiet' /\ QuietTeardown'
    BY <2>1, <2>3, QuietFrame DEF Running
  <2>5. ClosedOnceStopped'
    BY <2>1, <2>2 DEF QuietInv, ClosedOnceStopped
  <2>6. FreshIsIdle'
    BY <2>1 DEF FreshIsIdle
  <2> QED
    BY <2>4, <2>5, <2>6 DEF QuietInv
<1>2. CASE BuildFails
  <2>1. /\ boot = "building" /\ boot' = "unbuilding" /\ UNCHANGED <<source, status, home>>
    BY <1>2 DEF BuildFails
  <2>2. \A w \in Work : ~Running(w)'
    BY <2>1 DEF QuietInv, FreshIsIdle, Running
  <2>3. \A k \in Walks : walk'[k].pc = "none" => walk'[k].drained = {}
    <3>1. \A k \in Walks \ {1} : walk'[k] = walk[k]
      BY <1>2 DEF BuildFails, TypeOK
    <3>2. walk'[1].pc = "next"
      BY <1>2, FirstWalk DEF BuildFails, TypeOK, WalkState
    <3> QED
      BY <3>1, <3>2 DEF QuietInv, DrainedStaysQuiet
  <2>4. WorkHasHome' /\ DrainedStaysQuiet' /\ QuietTeardown'
    BY <2>2, <2>3 DEF WorkHasHome, DrainedStaysQuiet, QuietTeardown
  <2>5. ClosedOnceStopped' /\ FreshIsIdle'
    BY <2>1 DEF QuietInv, ClosedOnceStopped, FreshIsIdle
  <2> QED
    BY <2>4, <2>5 DEF QuietInv
<1>3. CASE \E r \in Routes : RouteSteps(r)
  <2>1. /\ UNCHANGED <<boot, status, home, stopped, walk>>
        /\ \A r \in Routes : intake'[r] => intake[r]
        /\ \A r \in Routes : source'[r] = "idle" <=> source[r] = "idle"
    BY <1>3 DEF RouteSteps, SourceReady, SourceEnds, SourceFails, TypeOK
  <2>2. WorkHasHome' /\ DrainedStaysQuiet' /\ QuietTeardown'
    BY <2>1, QuietFrame DEF Running
  <2>3. ClosedOnceStopped' /\ FreshIsIdle'
    BY <2>1 DEF QuietInv, ClosedOnceStopped, FreshIsIdle, Running
  <2> QED
    BY <2>2, <2>3 DEF QuietInv
<1>4. CASE UNCHANGED vars
  <2>1. WorkHasHome' /\ DrainedStaysQuiet' /\ QuietTeardown'
    BY <1>4, QuietFrame DEF vars, Running
  <2> QED
    BY <1>4, <2>1 DEF vars, QuietInv, ClosedOnceStopped, FreshIsIdle, Running
<1> QED
  BY <1>1, <1>2, <1>3, <1>4, BootsStayQuiet, WorkStaysQuiet, WalksStayQuiet
  DEF Next, Boots, PlainBoots

(***************************************************************************)
(* A stop whose drain was not cut short tears the plugins down with        *)
(* nothing in flight, for any number of routes and pieces of work.  Work   *)
(* that resumes an exchange parked in another route is excluded: a resume  *)
(* enters its route past the intake.                                       *)
(***************************************************************************)
THEOREM TeardownsAreQuiet == ASSUME Resumes = FALSE PROVE Spec => []QuietTeardown
<1>1. Init => AgreeInv /\ QuietInv
  <2> SUFFICES ASSUME Init PROVE AgreeInv /\ QuietInv
    OBVIOUS
  <2>1. \A k \in Walks : walk[k].pc = "none" /\ walk[k].drained = {}
    BY DEF Init, NoWalk
  <2> QED
    BY <2>1, InitAgrees
    DEF Init, QuietInv, WorkHasHome, ClosedOnceStopped, FreshIsIdle, DrainedStaysQuiet,
        QuietTeardown, Running
<1>2. AgreeInv /\ QuietInv /\ [Next]_vars => (AgreeInv /\ QuietInv)'
  BY AgreeStep, QuietStep DEF AgreeInv
<1>3. QuietInv => QuietTeardown
  BY DEF QuietInv
<1> QED
  BY <1>1, <1>2, <1>3, PTL DEF Spec

(***************************************************************************)
(* No start hook begins once a teardown was called, whenever the stop came *)
(* between two hooks.                                                      *)
(***************************************************************************)
THEOREM NoHookComesLate == Spec => NoHookAfterTeardown
<1>1. Init => AgreeInv
  BY InitAgrees
<1>2. AgreeInv /\ [Next]_vars => AgreeInv'
  BY AgreeStep
<1>3. AgreeInv /\ [Next]_vars => [hook' \notin {0, hook} => torn = <<>>]_vars
  <2> SUFFICES ASSUME AgreeInv, Next, hook' \notin {0, hook}
      PROVE  torn = <<>>
    OBVIOUS
  <2>1. HookCalled
    BY DEF Next, Boots, Stop, Apply, BuildFails, Build, ApplyRefused, Start, ConfigRefused,
           StartRoutes, RoutesReady, HookReturns, HookThrows, HooksOver, AutoStop, Returns,
           BuildUnwound, RouteSteps, SourceReady, SourceEnds, SourceFails, WorkSteps, Emit,
           Tap, Send, Resume, Ends, WalkSteps, RouteDrained, DrainEnds, Deadline,
           TeardownCalled, TornDown, TeardownReturns, WalkEnds, bootVars
  <2> QED
    BY <2>1 DEF HookCalled, AgreeInv, NobodyStopped
<1> QED
  BY <1>1, <1>2, <1>3, PTL DEF Spec, NoHookAfterTeardown

-----------------------------------------------------------------------------
(***************************************************************************)
(* The stop leaves nothing behind.  In a context that was built, plugins   *)
(* apply one after the other before anything else; a walk has torn down    *)
(* all that applied from where it stands upwards; and whoever is refused   *)
(* hears of it after the walk.                                             *)
(***************************************************************************)
WhatIsTorn == {torn[k].plugin : k \in DOMAIN torn}

AppliedBeforeUse ==
  /\ boot # "init"
  /\ boot = "building" => applied = 1..(next - 1)
  /\ boot \notin {"building", "unbuilding", "refused"} => applied = Plugins

RefusedIsOver == boot = "refused" => Over

WalkedIsTorn(k) ==
  /\ walk[k].pc \in {"none", "draining"} => walk[k].below = N + 1
  /\ walk[k].pc = "done" => Left(k) = {}
  /\ \A i \in applied : i >= walk[k].below => i \in WhatIsTorn

ExitInv ==
  /\ AppliedBeforeUse /\ RefusedIsOver
  /\ WhatIsTorn \subseteq applied
  /\ \A k \in Walks : WalkedIsTorn(k)

(***************************************************************************)
(* A teardown adds its plugin to what is torn down.                        *)
(***************************************************************************)
LEMMA TornGrows ==
  ASSUME TypeOK, NEW k \in Walks, NEW i \in Plugins, TornDown(k, i)
  PROVE  WhatIsTorn' = WhatIsTorn \cup {i}
<1>1. /\ DOMAIN torn' = 1..(Len(torn) + 1) /\ DOMAIN torn = 1..Len(torn) /\ Len(torn) \in Nat
      /\ \A j \in DOMAIN torn : torn'[j] = torn[j]
      /\ torn'[Len(torn) + 1].plugin = i
  BY OneMoreTorn
<1>2. /\ Len(torn) + 1 \in DOMAIN torn'
      /\ \A j : j \in DOMAIN torn' <=> j \in DOMAIN torn \/ j = Len(torn) + 1
  BY <1>1
<1> QED
  BY <1>1, <1>2 DEF WhatIsTorn

(***************************************************************************)
(* A step that applies nothing once somebody stopped, and moves no walk    *)
(* that tears down, keeps what the walks have torn.                        *)
(***************************************************************************)
LEMMA WalkedFrame ==
  ASSUME TypeOK, \A k \in Walks : WalkedIsTorn(k), WhatIsTorn \subseteq applied,
         torn' = torn, applied' = applied,
         \A k \in Walks : walk'[k] = walk[k] \/ (walk'[k].pc \in {"none", "draining"}
                                                 /\ walk[k].pc = "none" /\ SameWalk(k))
  PROVE  WhatIsTorn' \subseteq applied' /\ \A k \in Walks : WalkedIsTorn(k)'
<1>1. WhatIsTorn' = WhatIsTorn
  BY DEF WhatIsTorn
<1> SUFFICES ASSUME NEW k \in Walks
    PROVE  WalkedIsTorn(k)'
  BY <1>1
<1>2. walk'[k].below = walk[k].below
  BY DEF SameWalk
<1>3. Left(k)' = Left(k)
  BY <1>2 DEF Left
<1>4. WalkedIsTorn(k)
  OBVIOUS
<1> QED
  BY <1>1, <1>2, <1>3, <1>4 DEF WalkedIsTorn

(***************************************************************************)
(* A walk tears down the last plugin it has left, and ends when it has     *)
(* none.                                                                   *)
(***************************************************************************)
LEMMA WalksTearDown ==
  ASSUME TypeOK, ExitInv, NEW k \in Walks, WalkSteps(k)
  PROVE  ExitInv'
<1>1. /\ UNCHANGED <<boot, next, applied>>
      /\ \A m \in Walks \ {k} : walk'[m] = walk[m]
      /\ \/ Drains(k) \/ StopsDraining(k) \/ TearsDown(k) \/ Closes(k) \/ Finishes(k)
  BY WalkEffect
<1>2. applied \subseteq Nat /\ N \in Nat /\ walk[k].below \in Nat
  <2>1. walk[k] \in WalkState
    BY DEF TypeOK
  <2> QED
    BY <2>1, PluginsAssumption DEF TypeOK, Plugins, WalkState
<1>3. AppliedBeforeUse' /\ RefusedIsOver'
  <2>1. walk[k].pc # "done"
    BY <1>1 DEF Drains, StopsDraining, TearsDown, Closes, Finishes
  <2>2. Over => Over'
    BY <1>1, <2>1, FirstWalk DEF Over
  <2> QED
    BY <1>1, <2>2 DEF ExitInv, AppliedBeforeUse, RefusedIsOver
<1>4. CASE TearsDown(k)
  <2>1. PICK i \in LastOf(Left(k)) : TornDown(k, i) /\ walk'[k].below = i
    BY <1>4 DEF TearsDown
  <2>2. /\ i \in applied /\ i < walk[k].below /\ i \in Nat /\ i \in Plugins
        /\ \A j \in applied : j < walk[k].below => j <= i
    BY <1>2, <2>1 DEF LastOf, Left, TypeOK
  <2>3. WhatIsTorn' = WhatIsTorn \cup {i}
    BY <2>1, <2>2, TornGrows
  <2>4. WalkedIsTorn(k)'
    <3>1. walk'[k].pc = "closing"
      BY <1>4 DEF TearsDown
    <3>2. ASSUME NEW j \in applied, j >= i
          PROVE  j \in WhatIsTorn'
      <4>1. j = i \/ j >= walk[k].below
        BY <1>2, <2>2, <3>2
      <4> QED
        BY <2>3, <4>1 DEF ExitInv, WalkedIsTorn
    <3> QED
      BY <1>1, <2>1, <3>1, <3>2 DEF WalkedIsTorn
  <2>5. \A m \in Walks \ {k} : WalkedIsTorn(m)'
    BY <1>1, <2>3 DEF ExitInv, WalkedIsTorn, Left
  <2>6. WhatIsTorn' \subseteq applied'
    BY <1>1, <2>2, <2>3 DEF ExitInv
  <2> QED
    BY <1>3, <2>4, <2>5, <2>6 DEF ExitInv
<1>5. CASE ~TearsDown(k)
  <2>1. torn' = torn /\ walk'[k].below = walk[k].below
    BY <1>1, <1>5 DEF Drains, StopsDraining, Closes, Finishes, SameWalk
  <2>2. WhatIsTorn' = WhatIsTorn
    BY <2>1 DEF WhatIsTorn
  <2>3. \A m \in Walks : Left(m)' = Left(m)
    BY <1>1, <2>1 DEF Left
  <2>4. WalkedIsTorn(k)'
    <3>1. WalkedIsTorn(k)
      BY DEF ExitInv
    <3>2. walk'[k].pc \in {"none", "draining"} => walk[k].pc = "draining"
      BY <1>1, <1>5 DEF Drains, StopsDraining, Closes, Finishes
    <3>3. walk'[k].pc = "done" => Left(k) = {}
      BY <1>1, <1>5 DEF Drains, StopsDraining, Closes, Finishes
    <3> QED
      BY <1>1, <2>1, <2>2, <2>3, <3>1, <3>2, <3>3 DEF WalkedIsTorn
  <2>5. \A m \in Walks \ {k} : WalkedIsTorn(m)'
    BY <1>1, <2>2, <2>3 DEF ExitInv, WalkedIsTorn
  <2> QED
    BY <1>1, <1>3, <2>2, <2>4, <2>5 DEF ExitInv
<1> QED
  BY <1>4, <1>5

(***************************************************************************)
(* The steps of build() and start() that leave the walks alone.            *)
(***************************************************************************)
LEMMA BootsKeepTrack ==
  ASSUME TypeOK, NobodyStopped, ReportIsFinal, ExitInv, PlainBoots, Built, Refusable = FALSE
  PROVE  ExitInv'
<1> USE DEF bootVars, workVars, stopVars
<1>1. UNCHANGED <<stopped, walk, torn>>
  BY DEF PlainBoots, Apply, Build, ApplyRefused, Start, ConfigRefused, StartRoutes, RoutesReady,
         HookCalled, HookReturns, HooksOver, Returns, BuildUnwound
<1>2. ~ApplyRefused /\ ~Start /\ ~ConfigRefused /\ boot # "init"
  BY DEF ApplyRefused, Start, ConfigRefused, ExitInv, AppliedBeforeUse
<1>3. CASE Apply
  <2>1. /\ boot = "building" /\ boot' = "building" /\ next <= N /\ next' = next + 1
        /\ applied' = applied \cup {next}
    BY <1>2, <1>3 DEF Apply
  <2>2. next \in Nat \ {0} /\ N \in Nat
    BY PluginsAssumption DEF TypeOK
  <2>3. applied = 1..(next - 1) /\ applied' = 1..(next' - 1)
    BY <2>1, <2>2 DEF ExitInv, AppliedBeforeUse
  <2>4. torn = <<>> /\ \A k \in Walks : walk'[k].pc = "none"
    BY <1>1, <2>1 DEF NobodyStopped, ReportIsFinal
  <2>5. WhatIsTorn' = {}
    BY <1>1, <2>4 DEF WhatIsTorn
  <2>6. \A k \in Walks : WalkedIsTorn(k)'
    <3> SUFFICES ASSUME NEW k \in Walks
        PROVE  WalkedIsTorn(k)'
      OBVIOUS
    <3>1. walk'[k].below = N + 1
      BY <1>1, <2>4 DEF ExitInv, WalkedIsTorn
    <3>2. \A i \in applied' : i < N + 1
      BY <2>1, <2>2, <2>3
    <3>3. \A i \in applied' : i \in Nat
      BY <2>1, <2>2, <2>3
    <3> QED
      BY <2>2, <2>4, <3>1, <3>2, <3>3 DEF WalkedIsTorn
  <2> QED
    BY <2>1, <2>3, <2>5, <2>6 DEF ExitInv, AppliedBeforeUse, RefusedIsOver
<1>4. CASE ~Apply
  <2>1. applied' = applied /\ boot' # "init" /\ boot' # "building"
    BY <1>2, <1>4 DEF PlainBoots, Build, StartRoutes, RoutesReady, HookCalled, HookReturns,
                      HooksOver, Returns, BuildUnwound, Wired, TypeOK
  <2>2. WhatIsTorn' \subseteq applied' /\ \A k \in Walks : WalkedIsTorn(k)'
    BY <1>1, <2>1, WalkedFrame DEF ExitInv
  <2>3. boot' \in {"unbuilding", "refused"} \/ applied' = Plugins
    <3>1. CASE Build
      <4>1. next > N /\ next \in 1..(N + 1) /\ N \in Nat
        BY <3>1, PluginsAssumption DEF Build, TypeOK
      <4>2. next - 1 = N
        BY <4>1
      <4> QED
        BY <2>1, <3>1, <4>2 DEF Build, ExitInv, AppliedBeforeUse, Plugins
    <3>2. CASE ~Build
      BY <1>2, <1>4, <2>1, <3>2
      DEF PlainBoots, StartRoutes, RoutesReady, HookCalled, HookReturns, HooksOver, Returns,
          BuildUnwound, Wired, ExitInv, AppliedBeforeUse, TypeOK
    <3> QED
      BY <3>1, <3>2
  <2>4. boot' = "refused" => Over'
    BY <1>1, <1>2, <1>4
    DEF PlainBoots, Build, StartRoutes, RoutesReady, HookCalled, HookReturns, HooksOver,
        Returns, BuildUnwound, Wired, Over, ExitInv, RefusedIsOver, TypeOK
  <2> QED
    BY <2>1, <2>2, <2>3, <2>4 DEF ExitInv, AppliedBeforeUse, RefusedIsOver
<1> QED
  BY <1>3, <1>4

(***************************************************************************)
(* Every action keeps track of what is torn down.                          *)
(***************************************************************************)
LEMMA ExitStep ==
  ASSUME TypeOK, NobodyStopped, ReportIsFinal, ExitInv, Built, Refusable = FALSE, [Next]_vars
  PROVE  ExitInv'
<1> USE DEF bootVars, workVars, stopVars
<1>1. CASE Stop \/ HookThrows \/ AutoStop
  <2>1. /\ Shutdown /\ applied' = applied /\ torn' = torn
        /\ boot' = boot \/ (boot = "hooks" /\ boot' = "unwinding")
        /\ boot # "building"
    <3>1. HookThrows => hook # 0
      BY FailingAssumption DEF HookThrows
    <3> QED
      BY <1>1, <3>1 DEF Stop, HookThrows, AutoStop, TypeOK
  <2>2. \/ stopped /\ walk' = walk
        \/ /\ ~stopped
           /\ \A k \in Walks : walk'[k].pc \in {"none", "draining"} /\ SameWalk(k)
    BY <2>1, ShutdownEffect
  <2>3. \A k \in Walks : walk'[k] = walk[k] \/ (walk'[k].pc \in {"none", "draining"}
                                                /\ walk[k].pc = "none" /\ SameWalk(k))
    BY <2>2 DEF NobodyStopped
  <2>4. WhatIsTorn' \subseteq applied' /\ \A k \in Walks : WalkedIsTorn(k)'
    BY <2>1, <2>3, WalkedFrame DEF ExitInv
  <2>5. Over => Over'
    BY <2>3, FirstWalk DEF Over
  <2>6. AppliedBeforeUse' /\ RefusedIsOver'
    BY <2>1, <2>5 DEF ExitInv, AppliedBeforeUse, RefusedIsOver
  <2> QED
    BY <2>4, <2>6 DEF ExitInv
<1>2. CASE BuildFails
  <2>1. boot = "building" /\ boot' = "unbuilding" /\ applied' = applied /\ torn' = torn
    BY <1>2 DEF BuildFails
  <2>2. ~stopped
    BY <2>1 DEF ReportIsFinal
  <2>3. \A k \in Walks : walk'[k].below = walk[k].below /\ walk'[k].pc \in {"none", "next"}
    <3>1. /\ \A k \in Walks \ {1} : walk'[k] = walk[k]
          /\ walk'[1].pc = "next" /\ walk'[1].below = walk[1].below
      BY <1>2, FirstWalk DEF BuildFails, TypeOK, WalkState
    <3> QED
      BY <2>2, <3>1 DEF NobodyStopped
  <2>4. WhatIsTorn' = WhatIsTorn
    BY <2>1 DEF WhatIsTorn
  <2>5. \A k \in Walks : WalkedIsTorn(k)'
    BY <2>1, <2>2, <2>3, <2>4 DEF ExitInv, WalkedIsTorn, NobodyStopped
  <2> QED
    BY <2>1, <2>4, <2>5 DEF ExitInv, AppliedBeforeUse, RefusedIsOver
<1>3. CASE UNCHANGED vars \/ (\E r \in Routes : RouteSteps(r)) \/ (\E w \in Work : WorkSteps(w))
  <2>1. UNCHANGED <<boot, next, applied, walk, torn>>
    BY <1>3 DEF vars, RouteSteps, SourceReady, SourceEnds, SourceFails, WorkSteps, Emit, Tap,
                Send, Resume, Ends
  <2>2. WhatIsTorn' \subseteq applied' /\ \A k \in Walks : WalkedIsTorn(k)'
    BY <2>1, WalkedFrame DEF ExitInv
  <2> QED
    BY <2>1, <2>2 DEF ExitInv, AppliedBeforeUse, RefusedIsOver, Over
<1> QED
  BY <1>1, <1>2, <1>3, BootsKeepTrack, WalksTearDown DEF Next, Boots, PlainBoots

(***************************************************************************)
(* What is torn down stays dead: a walk that is past a plugin waited for   *)
(* its hook, and no hook is called once somebody stopped.  A sweeper's     *)
(* hook is the exception: it may arm its interval while the teardown       *)
(* waits for it.                                                           *)
(***************************************************************************)
Past(k, i) == i > walk[k].below \/ (i = walk[k].below /\ walk[k].pc # "closing")

LiveInv ==
  /\ live \subseteq applied
  /\ \A k \in Walks : \A i \in applied : Past(k, i) => i \notin live /\ hook # i

(***************************************************************************)
(* Before a stop, no walk is past anything.                                *)
(***************************************************************************)
LEMMA NothingIsPast ==
  ASSUME TypeOK, NobodyStopped, ExitInv, ~stopped
  PROVE  \A k \in Walks : walk[k].below = N + 1 /\ \A i \in Plugins : ~Past(k, i)
<1>1. \A k \in Walks : walk[k].pc = "none" /\ walk[k].below = N + 1
  BY DEF NobodyStopped, ExitInv, WalkedIsTorn
<1>2. \A i \in Plugins : i \in Nat /\ i < N + 1
  BY PluginsAssumption DEF Plugins
<1>3. N \in Nat
  BY PluginsAssumption
<1> QED
  BY <1>1, <1>2, <1>3 DEF Past

(***************************************************************************)
(* A step in which no plugin comes to life, no hook is called, and no walk *)
(* gets past a plugin, keeps the dead dead.                                *)
(***************************************************************************)
LEMMA LiveFrame ==
  ASSUME LiveInv, applied' = applied, live' \subseteq live, hook' \in {0, hook},
         0 \notin applied,
         \A k \in Walks : /\ walk'[k].below = walk[k].below
                          /\ walk'[k].pc # "closing" => walk[k].pc # "closing"
  PROVE  LiveInv'
BY DEF LiveInv, Past

(***************************************************************************)
(* A teardown is called on the next plugin, and returns when the plugin's  *)
(* hook is over.                                                           *)
(***************************************************************************)
LEMMA WalksKill ==
  ASSUME TypeOK, ExitInv, LiveInv, \A i \in Plugins : Kind[i] # "sweeper",
         NEW k \in Walks, WalkSteps(k)
  PROVE  LiveInv'
<1>1. /\ UNCHANGED <<hook, applied>>
      /\ \A m \in Walks \ {k} : walk'[m] = walk[m]
      /\ \/ Drains(k) \/ StopsDraining(k) \/ TearsDown(k) \/ Closes(k) \/ Finishes(k)
  BY WalkEffect
<1>2. /\ applied \subseteq Nat \ {0} /\ applied \subseteq Plugins /\ live \subseteq Hooked
      /\ walk[k].below \in Nat
  <2>1. walk[k] \in WalkState
    BY DEF TypeOK
  <2> QED
    BY <2>1, PluginsAssumption DEF TypeOK, Plugins, WalkState
<1>3. CASE Drains(k) \/ StopsDraining(k) \/ Finishes(k)
  <2>1. live' = live /\ walk'[k].below = walk[k].below /\ walk[k].pc # "closing"
    BY <1>3 DEF Drains, StopsDraining, Finishes, SameWalk
  <2> QED
    BY <1>1, <1>2, <2>1, LiveFrame
<1>4. CASE TearsDown(k)
  <2>1. PICK i \in LastOf(Left(k)) : TornDown(k, i) /\ walk'[k].below = i
    BY <1>4 DEF TearsDown
  <2>2. /\ i \in applied /\ i < walk[k].below /\ i \in Nat /\ i \in Plugins
        /\ \A j \in applied : j < walk[k].below => j <= i
    BY <1>2, <2>1 DEF LastOf, Left
  <2>3. live' = live
    BY <2>1, <2>2 DEF TornDown
  <2>4. walk'[k].pc = "closing" /\ walk[k].pc = "next"
    BY <1>4 DEF TearsDown
  <2>5. ASSUME NEW j \in applied, Past(k, j)'
        PROVE  Past(k, j)
    <3>1. j > i
      BY <2>1, <2>4, <2>5 DEF Past
    <3>2. j \in Nat /\ ~(j < walk[k].below)
      BY <1>2, <2>2, <3>1
    <3> QED
      BY <1>2, <2>4, <3>2 DEF Past
  <2> QED
    BY <1>1, <2>3, <2>5 DEF LiveInv, Past
<1>5. CASE Closes(k)
  <2> DEFINE b == walk[k].below
  <2>1. /\ walk[k].pc = "closing" /\ walk'[k].below = b /\ hook # b
        /\ live' = IF Kind[b] = "server" THEN live \ {b} ELSE live
    BY <1>5 DEF Closes, SameWalk
  <2>2. b \notin live'
    <3>1. CASE b \in Plugins
      <4>1. Kind[b] \in {"plain", "server"}
        BY <3>1, PluginsAssumption DEF Plugins
      <4> QED
        BY <1>2, <2>1, <4>1 DEF Hooked
    <3>2. CASE b \notin Plugins
      BY <1>2, <2>1, <3>2 DEF Hooked
    <3> QED
      BY <3>1, <3>2
  <2>3. \A j \in applied : Past(k, j)' => j = b \/ Past(k, j)
    BY <1>1, <2>1 DEF Past
  <2>4. live' \subseteq live
    BY <2>1
  <2> HIDE DEF b
  <2> QED
    BY <1>1, <2>1, <2>2, <2>3, <2>4 DEF LiveInv, Past
<1> QED
  BY <1>1, <1>3, <1>4, <1>5

(***************************************************************************)
(* Every action keeps the dead dead.                                       *)
(***************************************************************************)
LEMMA LiveStep ==
  ASSUME TypeOK, NobodyStopped, ReportIsFinal, ExitInv, LiveInv, Built,
         \A i \in Plugins : Kind[i] # "sweeper", [Next]_vars
  PROVE  LiveInv'
<1> USE DEF bootVars, workVars, stopVars
<1>1. 0 \notin applied /\ applied \subseteq Plugins /\ Hooked \subseteq Plugins
  BY PluginsAssumption DEF TypeOK, Plugins, Hooked
<1>2. CASE Stop \/ HookThrows \/ AutoStop
  <2>1. Shutdown /\ applied' = applied /\ live' = live /\ hook' \in {0, hook}
    BY <1>2 DEF Stop, HookThrows, AutoStop
  <2>2. \A k \in Walks : walk'[k].below = walk[k].below /\ (walk'[k].pc # "closing" => walk[k].pc # "closing")
    BY <2>1, ShutdownEffect DEF SameWalk, NobodyStopped
  <2> QED
    BY <1>1, <2>1, <2>2, LiveFrame
<1>3. CASE BuildFails
  <2>1. applied' = applied /\ live' = live /\ hook' = hook /\ ~stopped
    BY <1>3 DEF BuildFails, ReportIsFinal
  <2>2. \A k \in Walks : walk'[k].below = walk[k].below /\ walk[k].pc # "closing"
    <3>1. /\ \A k \in Walks \ {1} : walk'[k] = walk[k]
          /\ walk'[1].below = walk[1].below
      BY <1>3, FirstWalk DEF BuildFails, TypeOK, WalkState
    <3> QED
      BY <2>1, <3>1 DEF NobodyStopped
  <2> QED
    BY <1>1, <2>1, <2>2, LiveFrame
<1>4. CASE Apply
  <2>1. /\ UNCHANGED <<live, hook, walk>> /\ applied' = applied \cup {next}
        /\ next \in Plugins /\ boot = "building"
    BY <1>4, PluginsAssumption DEF Apply, TypeOK, Plugins, ExitInv, AppliedBeforeUse
  <2>2. ~stopped
    BY <2>1 DEF ReportIsFinal
  <2>3. \A k \in Walks : \A i \in applied' : ~Past(k, i)
    BY <1>1, <2>1, <2>2, NothingIsPast
  <2>4. \A k \in Walks : \A i \in applied' : ~Past(k, i)'
    BY <2>1, <2>3 DEF Past
  <2> QED
    BY <2>1, <2>4 DEF LiveInv
<1>5. CASE HookCalled
  <2>1. /\ ~stopped /\ UNCHANGED <<applied, live, walk>>
    BY <1>5 DEF HookCalled
  <2>2. \A k \in Walks : \A i \in applied' : ~Past(k, i)'
    BY <1>1, <2>1, NothingIsPast DEF Past
  <2> QED
    BY <2>1, <2>2 DEF LiveInv
<1>6. CASE HookReturns
  <2>1. /\ hook # 0 /\ hook' = 0 /\ live' \subseteq live \cup {hook}
        /\ UNCHANGED <<applied, walk>>
    BY <1>6 DEF HookReturns
  <2>2. hook \in applied
    BY <1>1, <2>1 DEF TypeOK, ExitInv, AppliedBeforeUse
  <2>3. \A k \in Walks : \A i \in applied : Past(k, i)' <=> Past(k, i)
    BY <2>1 DEF Past
  <2> QED
    BY <1>1, <2>1, <2>2, <2>3 DEF LiveInv
<1>7. CASE \/ Build \/ ApplyRefused \/ Start \/ ConfigRefused \/ StartRoutes \/ RoutesReady
           \/ HooksOver \/ Returns \/ BuildUnwound \/ UNCHANGED vars
           \/ (\E r \in Routes : RouteSteps(r)) \/ (\E w \in Work : WorkSteps(w))
  <2>1. UNCHANGED <<applied, live, hook, walk>>
    BY <1>7 DEF Build, ApplyRefused, Start, ConfigRefused, StartRoutes, RoutesReady, HooksOver,
                Returns, BuildUnwound, vars, RouteSteps, SourceReady, SourceEnds, SourceFails,
                WorkSteps, Emit, Tap, Send, Resume, Ends
  <2> QED
    BY <1>1, <2>1, LiveFrame
<1> QED
  BY <1>2, <1>3, <1>4, <1>5, <1>6, <1>7, WalksKill DEF Next, Boots

(***************************************************************************)
(* Nothing is torn down, live or applied in a context that is new.         *)
(***************************************************************************)
LEMMA InitExits == ASSUME Init, Built PROVE ExitInv /\ LiveInv
<1>1. \A k \in Walks : walk[k].pc = "none" /\ walk[k].below = N + 1
  BY DEF Init, NoWalk
<1>2. applied = {} /\ live = {} /\ next = 1 /\ boot = "building" /\ WhatIsTorn = {}
  BY DEF Init, WhatIsTorn
<1>3. 1..(next - 1) = {}
  BY <1>2
<1> QED
  BY <1>1, <1>2, <1>3 DEF ExitInv, AppliedBeforeUse, RefusedIsOver, WalkedIsTorn, LiveInv

(***************************************************************************)
(* Every exit of a context that was built tears down exactly the plugins   *)
(* that applied: a stop, a start that is refused and a build that fails,   *)
(* for any number and kinds of plugins and however many shutdowns overlap. *)
(* A configuration that is refused is excluded, start() does not unwind    *)
(* then.                                                                   *)
(***************************************************************************)
THEOREM EveryExitTearsDown ==
  ASSUME Built, Refusable = FALSE
  PROVE  Spec => [](AppliedAreTornDown /\ RefusedMeansTornDown)
<1>1. Init => AgreeInv /\ ExitInv
  BY InitAgrees, InitExits
<1>2. AgreeInv /\ ExitInv /\ [Next]_vars => (AgreeInv /\ ExitInv)'
  BY AgreeStep, ExitStep DEF AgreeInv
<1>3. AgreeInv /\ ExitInv => AppliedAreTornDown /\ RefusedMeansTornDown
  <2> SUFFICES ASSUME AgreeInv, ExitInv
      PROVE  Over => applied = WhatIsTorn
    BY DEF AppliedAreTornDown, RefusedMeansTornDown, ExitInv, RefusedIsOver, WhatIsTorn
  <2> SUFFICES ASSUME Over, NEW i \in applied
      PROVE  i \in WhatIsTorn
    BY DEF ExitInv
  <2>1. walk[1].pc = "done" /\ walk[1] \in WalkState /\ i \in Nat
    BY FirstWalk, PluginsAssumption DEF Over, AgreeInv, TypeOK, Plugins
  <2>2. ~(i < walk[1].below) /\ walk[1].below \in Nat
    BY <2>1, FirstWalk, PluginsAssumption DEF ExitInv, WalkedIsTorn, Left, WalkState
  <2> QED
    BY <2>1, <2>2, FirstWalk DEF ExitInv, WalkedIsTorn
<1> QED
  BY <1>1, <1>2, <1>3, PTL DEF Spec

(***************************************************************************)
(* And nothing stays live after it: whoever was told that it is over has   *)
(* nothing left behind.  Sweepers are excluded: one whose boot scan ends   *)
(* while its teardown waits arms its interval then.                        *)
(***************************************************************************)
THEOREM TeardownLeavesNothing ==
  ASSUME Built, Refusable = FALSE, \A i \in Plugins : Kind[i] # "sweeper"
  PROVE  Spec => []TeardownIsComplete
<1>1. Init => AgreeInv /\ ExitInv /\ LiveInv
  BY InitAgrees, InitExits
<1>2. AgreeInv /\ ExitInv /\ LiveInv /\ [Next]_vars => (AgreeInv /\ ExitInv /\ LiveInv)'
  BY AgreeStep, ExitStep, LiveStep DEF AgreeInv
<1>3. AgreeInv /\ ExitInv /\ LiveInv => NothingStaysLive
  <2> SUFFICES ASSUME AgreeInv, ExitInv, LiveInv, Over, NEW i \in live
      PROVE  FALSE
    BY DEF NothingStaysLive
  <2>1. walk[1].pc = "done" /\ walk[1] \in WalkState /\ i \in Nat /\ i \in applied
    BY FirstWalk, PluginsAssumption DEF Over, AgreeInv, TypeOK, Plugins, LiveInv
  <2>2. ~(i < walk[1].below) /\ walk[1].below \in Nat
    BY <2>1, FirstWalk, PluginsAssumption DEF ExitInv, WalkedIsTorn, Left, WalkState
  <2>3. Past(1, i)
    BY <2>1, <2>2 DEF Past
  <2> QED
    BY <2>1, <2>3, FirstWalk DEF LiveInv
<1>4. Spec => [](AppliedAreTornDown /\ RefusedMeansTornDown)
  BY EveryExitTearsDown
<1> QED
  BY <1>1, <1>2, <1>3, <1>4, PTL DEF Spec, TeardownIsComplete

=============================================================================

------------------------------ MODULE Executor -------------------------------
(***************************************************************************)
(* The step loop (pipeline/executor.ts, runPipeline) with the two steps    *)
(* that work on its queue: split (operations/split.ts) and aggregate       *)
(* (operations/aggregate.ts).  Several runs share one context, and with it *)
(* the map of the parents their splits set aside.                          *)
(*                                                                         *)
(* Between two awaits a run cannot be disturbed: a run awaits the step it  *)
(* executes, and while one is on its way from a step to the next, no other *)
(* run moves.                                                              *)
(***************************************************************************)
EXTENDS Naturals, Sequences, SequencesExt, FiniteSets

CONSTANTS
  Runs,      \* the exchanges that enter the routes of the context (numbers)
  Deployments,  \* the routes they enter: a step list and what the error
                \* handler does ("none" without one), per run
  Branches,  \* the step lists of the branches of a choice
  MaxFan     \* bound on the children of a split

Kinds == {"task", "filter", "cached", "choice", "halt", "split", "aggregate"}
Handlers == {"none", "recover", "drop", "throw"}

ConstantsOK ==
  /\ Runs \subseteq Nat
  /\ Deployments \subseteq [Runs -> [steps : Seq(Kinds), handler : Handlers]]
  /\ Branches \subseteq Seq(Kinds)
  /\ MaxFan \in Nat

VARIABLES
  route,    \* per run, its route
  queue,    \* per run, the exchanges scheduled and the steps they have left
  step,     \* per run, the entry whose step is executing, if any
  parentMap,   \* the split groups whose parent is set aside
  storeMade,   \* the first split has put that map on the context
  known,    \* per run, preExistingGroups; Unknown when there was no map yet
  found,    \* per run, the aggregate step that executes found its parent
  verdict,  \* per run: "idle", "running", "returned", or how it ended
  ends,     \* per started exchange, its events: a split and how it ended
  exposed   \* groups made while another run was executing (for properties)

vars == <<route, queue, step, parentMap, storeMade, known, found,
          verdict, ends, exposed>>

(***************************************************************************)
(* An exchange is named after its run and the splits it comes from.  Each  *)
(* split of an exchange makes a group of its own, named after the exchange *)
(* and the events it had by then, and its k-th child is that group's k-th. *)
(* The split hierarchy of an entry is its path.                            *)
(***************************************************************************)
Parent(r) == <<r>>
Group(id) == Append(id, Len(ends[id]))
Child(group, k) == Append(group, k)
ParentOf(group) == Front(group)

Entry(id, path, steps) == [id |-> id, path |-> path, steps |-> steps]
Idle == Entry(<<>>, <<>>, <<>>)

Kind(r) == IF step[r] = Idle THEN "none" ELSE Head(step[r].steps)
Rest(r) == Tail(step[r].steps)

Init ==
  /\ route \in Deployments
  /\ queue = [r \in Runs |-> <<>>]
  /\ step = [r \in Runs |-> Idle]
  /\ parentMap = {}
  /\ storeMade = FALSE
  /\ known = [r \in Runs |-> {}]
  /\ found = [r \in Runs |-> FALSE]
  /\ verdict = [r \in Runs |-> "idle"]
  /\ ends = [id \in {} |-> <<>>]
  /\ exposed = {}

Running(r) == verdict[r] = "running"

(***************************************************************************)
(* The events of exchanges: begun ones are started if they were not yet.   *)
(***************************************************************************)
Announced(log, begun) ==
  [id \in DOMAIN log \union begun |-> IF id \in DOMAIN log THEN log[id] ELSE <<>>]

Ended(log, ids, how) ==
  [id \in DOMAIN log \union ids |->
     IF id \notin ids THEN log[id]
     ELSE Append(IF id \in DOMAIN log THEN log[id] ELSE <<>>, how)]

-----------------------------------------------------------------------------
(***************************************************************************)
(* The route's handler announces the exchange and calls runPipeline, which *)
(* remembers the groups it finds; none, if there is no map yet.  A mutant  *)
(* does not look.                                                          *)
(***************************************************************************)
Unknown == {<<>>}

StartForgetful(r) ==
  /\ verdict[r] = "idle"
  /\ verdict' = [verdict EXCEPT ![r] = "running"]
  /\ queue' = [queue EXCEPT ![r] = <<Entry(Parent(r), <<>>, route[r].steps)>>]
  /\ known' = [known EXCEPT ![r] = {}]
  /\ ends' = Announced(ends, {Parent(r)})
  /\ UNCHANGED <<route, step, parentMap, storeMade, found, exposed>>

Start(r) ==
  /\ verdict[r] = "idle"
  /\ verdict' = [verdict EXCEPT ![r] = "running"]
  /\ queue' = [queue EXCEPT ![r] = <<Entry(Parent(r), <<>>, route[r].steps)>>]
  /\ known' = [known EXCEPT ![r] = IF storeMade THEN parentMap ELSE Unknown]
  /\ ends' = Announced(ends, {Parent(r)})
  /\ UNCHANGED <<route, step, parentMap, storeMade, found, exposed>>

Ready(r) == Running(r) /\ step[r] = Idle /\ queue[r] # <<>>

(***************************************************************************)
(* An exchange without steps left has completed, if it is a child.         *)
(***************************************************************************)
TakeDone(r) ==
  LET e == Head(queue[r])
  IN /\ Ready(r)
     /\ e.steps = <<>>
     /\ queue' = [queue EXCEPT ![r] = Tail(@)]
     /\ ends' = IF e.id # Parent(r) /\ e.id \in DOMAIN ends
                THEN Ended(ends, {e.id}, "completed") ELSE ends
     /\ UNCHANGED <<route, step, parentMap, storeMade, known, found,
                    verdict, exposed>>

TakeStep(r) ==
  LET e == Head(queue[r])
  IN /\ Ready(r)
     /\ e.steps # <<>>
     /\ Head(e.steps) # "aggregate" \/ e.path = <<>>
     /\ queue' = [queue EXCEPT ![r] = Tail(@)]
     /\ step' = [step EXCEPT ![r] = e]
     /\ ends' = Announced(ends, {e.id})
     /\ UNCHANGED <<route, parentMap, storeMade, known, found, verdict,
                    exposed>>

(***************************************************************************)
(* What a sequence has at some of its places, in the same order.           *)
(***************************************************************************)
Picked(s, places) ==
  [k \in 1..Cardinality(places) |->
     s[CHOOSE i \in places : Cardinality({j \in places : j <= i}) = k]]

(***************************************************************************)
(* takePending leaves what does not belong to the group; a mutant leaves   *)
(* everything.                                                             *)
(***************************************************************************)
InGroup(e, group) == e.path # <<>> /\ Last(e.path) = group

Peeked(rest, group) == rest

Taken(rest, group) == Picked(rest, {i \in DOMAIN rest : ~InGroup(rest[i], group)})

(***************************************************************************)
(* An aggregate step looks the parent up, takes the siblings out of the    *)
(* queue, announces all of them as completed and awaits the aggregator.    *)
(***************************************************************************)
TakeJoin(r) ==
  LET e == Head(queue[r])
      group == Last(e.path)
      siblings == {q \in ToSet(Tail(queue[r])) : InGroup(q, group)}
      joined == {e.id} \union {q.id : q \in siblings}
  IN /\ Ready(r)
     /\ e.steps # <<>> /\ Head(e.steps) = "aggregate" /\ e.path # <<>>
     /\ queue' = [queue EXCEPT ![r] = Taken(Tail(@), group)]
     /\ step' = [step EXCEPT ![r] = e]
     /\ found' = [found EXCEPT ![r] = group \in parentMap]
     /\ ends' = Ended(Announced(ends, {e.id}), joined, "completed")
     /\ UNCHANGED <<route, parentMap, storeMade, known, verdict, exposed>>

-----------------------------------------------------------------------------
(* How a step settles, and what the loop schedules then. *)

(* A mutant: what goes on is scheduled ahead of the others. *)
SchedulesFirst(r, entries) ==
  /\ step' = [step EXCEPT ![r] = Idle]
  /\ queue' = [queue EXCEPT ![r] = entries \o @]

Schedules(r, entries) ==
  /\ step' = [step EXCEPT ![r] = Idle]
  /\ queue' = [queue EXCEPT ![r] = @ \o entries]

Continue(r) ==
  /\ \/ Kind(r) \in {"task", "filter", "cached"}
     \/ Kind(r) = "aggregate" /\ step[r].path = <<>>
  /\ Schedules(r, <<[step[r] EXCEPT !.steps = Rest(r)]>>)
  /\ UNCHANGED <<route, parentMap, storeMade, known, found, verdict,
                 ends, exposed>>

(***************************************************************************)
(* "complete": the answer was in the cache and no step is left to run.     *)
(***************************************************************************)
Complete(r) ==
  /\ Kind(r) = "cached"
  /\ Schedules(r, <<[step[r] EXCEPT !.steps = <<>>]>>)
  /\ UNCHANGED <<route, parentMap, storeMade, known, found, verdict,
                 ends, exposed>>

Branch(r) ==
  /\ Kind(r) = "choice"
  /\ \E b \in Branches :
       Schedules(r, <<[step[r] EXCEPT !.steps = b \o Rest(r)]>>)
  /\ UNCHANGED <<route, parentMap, storeMade, known, found, verdict,
                 ends, exposed>>

(***************************************************************************)
(* A filter rejects, no branch of a choice matches, or the branch halts.   *)
(***************************************************************************)
Drop(r) ==
  /\ Kind(r) \in {"filter", "choice", "halt"}
  /\ Schedules(r, <<>>)
  /\ ends' = Ended(ends, {step[r].id}, "dropped")
  /\ UNCHANGED <<route, parentMap, storeMade, known, found, verdict, exposed>>

Split(r) ==
  LET e == step[r]
      group == Group(e.id)
  IN /\ Kind(r) = "split"
     /\ \E n \in 0..MaxFan :
          Schedules(r, [k \in 1..n |->
                          Entry(Child(group, k), Append(e.path, group), Rest(r))])
     /\ parentMap' = parentMap \union {group}
     /\ storeMade' = TRUE
     /\ exposed' = IF \E o \in Runs \ {r} : Running(o) THEN exposed \union {group}
                   ELSE exposed
     /\ ends' = Ended(ends, {e.id}, "split")
     /\ UNCHANGED <<route, known, found, verdict>>

(***************************************************************************)
(* The parent comes back with the aggregated body; without it, the child   *)
(* that reached the aggregate step first goes on in its place.             *)
(***************************************************************************)
Join(r) ==
  LET e == step[r]
      group == Last(e.path)
  IN /\ Kind(r) = "aggregate" /\ e.path # <<>>
     /\ parentMap' = parentMap \ {group}
     /\ Schedules(r, <<Entry(IF found[r] THEN ParentOf(group) ELSE e.id,
                             Front(e.path), Rest(r))>>)
     /\ UNCHANGED <<route, storeMade, known, found, verdict, ends, exposed>>

(***************************************************************************)
(* A step throws.  A throwing aggregator has given its group up.           *)
(***************************************************************************)
Throws(r) ==
  /\ Kind(r) \in {"task", "filter", "cached", "choice", "split", "aggregate"}
  /\ parentMap' = IF Kind(r) = "aggregate" /\ step[r].path # <<>>
                  THEN parentMap \ {Last(step[r].path)} ELSE parentMap

(* A mutant: a failed exchange ends the loop even without an error handler. *)
FailAndStop(r) ==
  /\ Throws(r)
  /\ route[r].handler = "none"
  /\ step' = [step EXCEPT ![r] = Idle]
  /\ queue' = [queue EXCEPT ![r] = <<>>]
  /\ ends' = Ended(ends, {step[r].id}, "failed")
  /\ UNCHANGED <<route, storeMade, known, found, verdict, exposed>>

(***************************************************************************)
(* Without an error handler the exchange fails and the loop goes on.       *)
(***************************************************************************)
Fail(r) ==
  /\ Throws(r)
  /\ route[r].handler = "none"
  /\ Schedules(r, <<>>)
  /\ ends' = Ended(ends, {step[r].id}, "failed")
  /\ UNCHANGED <<route, storeMade, known, found, verdict, exposed>>

(***************************************************************************)
(* The error handler recovers, drops the exchange or throws itself; the    *)
(* run returns at once, with whatever is still queued.  A mutant leaves    *)
(* the queue to be worked off.                                             *)
(***************************************************************************)
HandleAndGoOn(r) ==
  /\ Throws(r)
  /\ route[r].handler # "none"
  /\ Schedules(r, <<>>)
  /\ verdict' = [verdict EXCEPT ![r] = "returned"]
  /\ ends' = ends
  /\ UNCHANGED <<route, storeMade, known, found, exposed>>

Handle(r) ==
  /\ Throws(r)
  /\ route[r].handler # "none"
  /\ step' = [step EXCEPT ![r] = Idle]
  /\ queue' = [queue EXCEPT ![r] = <<>>]
  /\ verdict' = [verdict EXCEPT ![r] = "returned"]
  /\ ends' = CASE route[r].handler = "recover" -> ends
               [] route[r].handler = "drop" -> Ended(ends, {step[r].id}, "dropped")
               [] route[r].handler = "throw" -> Ended(ends, {step[r].id}, "failed")
  /\ UNCHANGED <<route, storeMade, known, found, exposed>>

(***************************************************************************)
(* The queue is empty: the groups that appeared during the run go.         *)
(***************************************************************************)
Sweep(r) ==
  /\ Running(r) /\ step[r] = Idle /\ queue[r] = <<>>
  /\ parentMap' = IF known[r] = Unknown THEN parentMap ELSE parentMap \intersect known[r]
  /\ verdict' = [verdict EXCEPT ![r] = "returned"]
  /\ UNCHANGED <<route, queue, step, storeMade, known, found, ends, exposed>>

(* A mutant: only a failed exchange is not announced as completed. *)
AnswerDroppedToo(r) ==
  LET own == ToSet(ends[Parent(r)])
      fate == IF "failed" \in own THEN "failed" ELSE "completed"
  IN /\ verdict[r] = "returned"
     /\ verdict' = [verdict EXCEPT ![r] = fate]
     /\ ends' = IF fate = "completed" THEN Ended(ends, {Parent(r)}, "completed") ELSE ends
     /\ UNCHANGED <<route, queue, step, parentMap, storeMade, known, found, exposed>>

(***************************************************************************)
(* The route announces the exchange as completed unless it has failed or   *)
(* was dropped itself.                                                     *)
(***************************************************************************)
Answer(r) ==
  LET own == ToSet(ends[Parent(r)])
      fate == IF "failed" \in own THEN "failed"
              ELSE IF "dropped" \in own THEN "dropped" ELSE "completed"
  IN /\ verdict[r] = "returned"
     /\ verdict' = [verdict EXCEPT ![r] = fate]
     /\ ends' = IF fate = "completed" THEN Ended(ends, {Parent(r)}, "completed") ELSE ends
     /\ UNCHANGED <<route, queue, step, parentMap, storeMade, known, found, exposed>>

Settle(r) ==
  \/ Continue(r) \/ Complete(r) \/ Branch(r) \/ Drop(r) \/ Split(r) \/ Join(r)
  \/ Fail(r) \/ Handle(r)

Loop(r) == TakeDone(r) \/ TakeStep(r) \/ TakeJoin(r) \/ Settle(r) \/ Sweep(r) \/ Answer(r)

(***************************************************************************)
(* One thread: nobody interrupts a run that is between two steps.          *)
(***************************************************************************)
HasThread(r) == \A o \in Runs \ {r} : Running(o) => step[o] # Idle

Next == \E r \in Runs : HasThread(r) /\ (Start(r) \/ Loop(r))

Spec == Init /\ [][Next]_vars

-----------------------------------------------------------------------------
(***************************************************************************)
(* The shape of the state: one exchange at a time executes, and only a run *)
(* that has not returned has work.                                         *)
(***************************************************************************)
Verdicts == {"failed", "dropped", "completed"}

TypeOK ==
  /\ route \in Deployments
  /\ verdict \in [Runs -> {"idle", "running", "returned"} \union Verdicts]
  /\ found \in [Runs -> BOOLEAN]
  /\ \A r \in Runs : ~Running(r) => step[r] = Idle /\ queue[r] = <<>>
  /\ \A r \in Runs : \A e \in ToSet(queue[r]) \union {step[r]} :
       e # Idle => e.id \in DOMAIN ends \/ ParentOf(Front(e.id)) \in DOMAIN ends
  /\ \A id \in DOMAIN ends :
       ToSet(ends[id]) \subseteq {"split"} \union Verdicts

Terminals(id) == SelectSeq(ends[id], LAMBDA how : how # "split")

Undisturbed(r) == \A group \in exposed : Head(group) # r

(***************************************************************************)
(* Nobody is lost in the queue: when a run without an error handler has    *)
(* answered, every exchange it started has completed, failed, been dropped *)
(* or gone on as the children of a further split, whichever of its         *)
(* siblings failed and whatever other runs did to its groups.              *)
(***************************************************************************)
EachChildEnds ==
  \A id \in DOMAIN ends :
    verdict[Head(id)] \in Verdicts /\ route[Head(id)].handler = "none" =>
      ends[id] # <<>>

(***************************************************************************)
(* An exchange ends once: a child that was joined does not complete again, *)
(* and two ends are announced only when the aggregator throws after its    *)
(* children were announced as completed.  (A disturbed join may announce   *)
(* more: see JoinFindsParent.)                                             *)
(***************************************************************************)
EndsOnce ==
  \A id \in DOMAIN ends : Undisturbed(Head(id)) =>
    \/ Len(Terminals(id)) <= 1
    \/ Terminals(id) \in {<<"completed", "failed">>, <<"completed", "dropped">>}

(***************************************************************************)
(* No exchange of a run is lost, and none is counted twice.                *)
(***************************************************************************)
ChildrenEndOnce == EachChildEnds /\ EndsOnce

(***************************************************************************)
(* The source is told one outcome, and it is the only one announced for    *)
(* the exchange it sent, however its children, its joins and the error     *)
(* handler ended.                                                          *)
(***************************************************************************)
OneVerdict ==
  \A r \in Runs : verdict[r] \in Verdicts =>
    \E n \in DOMAIN ends[Parent(r)] :
      /\ ends[Parent(r)][n] = verdict[r]
      /\ \A m \in DOMAIN ends[Parent(r)] \ {n} : ends[Parent(r)][m] = "split"

(***************************************************************************)
(* A join is complete: when an exchange reaches its aggregate step, every  *)
(* other exchange of the run that stems from the same split is at that     *)
(* step too, so none is joined before it was processed and none comes too  *)
(* late.  Only branches of a choice may be of different lengths.           *)
(***************************************************************************)
AtJoin(r) ==
  Running(r) /\ step[r] = Idle /\ queue[r] # <<>> /\ LET e == Head(queue[r])
  IN e.path # <<>> /\ e.steps # <<>> /\ Head(e.steps) = "aggregate"

JoinIsComplete ==
  \A r \in Runs : AtJoin(r) /\ "choice" \notin ToSet(route[r].steps) =>
    \A e \in ToSet(queue[r]) : Last(Head(queue[r]).path) \in ToSet(e.path) =>
      e.path = Head(queue[r]).path /\ e.steps = Head(queue[r]).steps

(***************************************************************************)
(* A run's groups are safe from every run that starts after its splits:    *)
(* its joins find the parent unless another run was under way when the     *)
(* group was made.                                                         *)
(***************************************************************************)
Joining(r) == Kind(r) = "aggregate" /\ step[r].path # <<>>

YoungerRunsKeepOut ==
  \A r \in Runs : Joining(r) => found[r] \/ Last(step[r].path) \in exposed

(***************************************************************************)
(* "Only touch groups that did not exist before runSteps started, to avoid *)
(* deleting entries owned by concurrent handlers on the same context"      *)
(* (executor.ts): a join finds the parent it will continue.                *)
(***************************************************************************)
JoinFindsParent == \A r \in Runs : Joining(r) => found[r]

=============================================================================

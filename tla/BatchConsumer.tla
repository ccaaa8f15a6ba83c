---------------------------- MODULE BatchConsumer ----------------------------
(***************************************************************************)
(* The batch consumer (consumers/batch.ts): messages are collected into a  *)
(* batch that is handed to the route when it is full or when its timer     *)
(* fires, while earlier batches may still be in the handler.               *)
(*                                                                         *)
(* An action is the code between two awaits: the parse of one message, the *)
(* handler of one batch, and the timer callback.                           *)
(***************************************************************************)
EXTENDS Naturals, Sequences, SequencesExt, FiniteSets

CONSTANTS
  Messages,  \* the messages the source emits
  Size       \* options.size

ConstantsOK == Size \in Nat \ {0}

VARIABLES
  source,   \* per message: "unsent", "parsing", or "taken" by the consumer
  batch,    \* the messages collected so far
  waiters,  \* resolvers: the messages whose promise the batch will settle
  timer,    \* a flush is scheduled
  running,  \* deliveries awaiting the handler: what it got, whom it answers
  stopped,  \* route:stopping was seen
  promise,  \* per message: "pending", "resolved" or "rejected"
  handled   \* per message, how often the route was given it

vars == <<source, batch, waiters, timer, running, stopped, promise, handled>>

Delivery == [messages : Seq(Messages), waiters : Seq(Messages), batched : BOOLEAN]

Settle(targets, fate) ==
  promise' = [m \in Messages |-> IF m \in targets /\ promise[m] = "pending"
                                 THEN fate ELSE promise[m]]

(***************************************************************************)
(* The handler is called; it ends in Finish.                               *)
(***************************************************************************)
Begin(messages, answered, batched) ==
  /\ running' = running \union
       {[messages |-> messages, waiters |-> answered, batched |-> batched]}
  /\ handled' = [m \in Messages |-> IF m \in ToSet(messages) THEN handled[m] + 1
                                    ELSE handled[m]]

Init ==
  /\ source = [m \in Messages |-> "unsent"]
  /\ batch = <<>>
  /\ waiters = <<>>
  /\ timer = FALSE
  /\ running = {}
  /\ stopped = FALSE
  /\ promise = [m \in Messages |-> "pending"]
  /\ handled = [m \in Messages |-> 0]

(***************************************************************************)
(* A message reaches the consumer: emitted while the route runs, or parsed *)
(* at last, which may be after the stop.                                   *)
(***************************************************************************)
Arrives(m) ==
  \/ source[m] = "unsent" /\ ~stopped
  \/ source[m] = "parsing"

(***************************************************************************)
(* The source emits a message whose parse function must be awaited.        *)
(***************************************************************************)
Emit(m) ==
  /\ Arrives(m)
  /\ source[m] = "unsent"
  /\ source' = [source EXCEPT ![m] = "parsing"]
  /\ UNCHANGED <<batch, waiters, timer, running, stopped, promise, handled>>

(***************************************************************************)
(* A message that does not parse is handed to the route on its own.        *)
(***************************************************************************)
ParseFails(m) ==
  /\ Arrives(m)
  /\ source[m] = "parsing"
  /\ source' = [source EXCEPT ![m] = "taken"]
  /\ Begin(<<m>>, <<m>>, FALSE)
  /\ UNCHANGED <<batch, waiters, timer, stopped, promise>>

(***************************************************************************)
(* flushBatch takes batch and resolvers before it awaits the handler.  Two *)
(* mutants: one empties the batch only when the handler is done, one       *)
(* leaves the resolvers behind for the next flush.                         *)
(***************************************************************************)
FlushUncleared(messages, answered) ==
  /\ Begin(messages, answered, TRUE)
  /\ batch' = messages
  /\ waiters' = <<>>

FlushKeepingWaiters(messages, answered) ==
  /\ Begin(messages, answered, TRUE)
  /\ batch' = <<>>
  /\ waiters' = answered

Flush(messages, answered) ==
  /\ Begin(messages, answered, TRUE)
  /\ batch' = <<>>
  /\ waiters' = <<>>

(* A mutant: the size is compared before the message is added. *)
CollectLate(m) ==
  /\ Arrives(m)
  /\ source' = [source EXCEPT ![m] = "taken"]
  /\ timer' = (timer \/ Len(batch) = 0)
  /\ IF Len(batch) >= Size
     THEN Flush(Append(batch, m), Append(waiters, m))
     ELSE /\ batch' = Append(batch, m)
          /\ waiters' = Append(waiters, m)
          /\ UNCHANGED <<running, handled>>
  /\ UNCHANGED <<stopped, promise>>

(***************************************************************************)
(* A message without a parse function is collected as it is emitted, one   *)
(* with such a function once it is parsed.  The first message of a batch   *)
(* replaces the timer, the last one flushes the batch.                     *)
(***************************************************************************)
Collect(m) ==
  /\ Arrives(m)
  /\ source' = [source EXCEPT ![m] = "taken"]
  /\ timer' = (timer \/ Len(batch) = 0)
  /\ IF Len(batch) + 1 >= Size
     THEN Flush(Append(batch, m), Append(waiters, m))
     ELSE /\ batch' = Append(batch, m)
          /\ waiters' = Append(waiters, m)
          /\ UNCHANGED <<running, handled>>
  /\ UNCHANGED <<stopped, promise>>

(* A mutant: the timer ticks and nothing is flushed. *)
TimerLost ==
  /\ timer
  /\ timer' = FALSE
  /\ UNCHANGED <<source, batch, waiters, running, stopped, promise, handled>>

TimerFires ==
  /\ timer
  /\ timer' = FALSE
  /\ IF batch # <<>>
     THEN Flush(batch, waiters)
     ELSE UNCHANGED <<batch, waiters, running, handled>>
  /\ UNCHANGED <<source, stopped, promise>>

(***************************************************************************)
(* The handler is done: the promises of this delivery are settled, and a   *)
(* flush then clears whatever timer is scheduled by now.  A merge that     *)
(* throws ends its delivery in the same way.                               *)
(***************************************************************************)
Finish(d) ==
  /\ d \in running
  /\ running' = running \ {d}
  /\ \E fate \in {"resolved", "rejected"} : Settle(ToSet(d.waiters), fate)
  /\ timer' = (timer /\ ~d.batched)
  /\ UNCHANGED <<source, batch, waiters, stopped, handled>>

(***************************************************************************)
(* route:stopping rejects every promise that waits for the batch; the      *)
(* messages themselves stay in it.                                         *)
(***************************************************************************)
Stop ==
  /\ ~stopped
  /\ stopped' = TRUE
  /\ timer' = FALSE
  /\ Settle(ToSet(waiters), "rejected")
  /\ waiters' = <<>>
  /\ UNCHANGED <<source, batch, running, handled>>

Next ==
  \/ \E m \in Messages : Emit(m) \/ ParseFails(m) \/ Collect(m)
  \/ TimerFires
  \/ \E d \in running : Finish(d)
  \/ Stop

Spec == Init /\ [][Next]_vars

(***************************************************************************)
(* Parsers and handlers return and timers fire.  Nothing obliges the       *)
(* source to emit or the route to stop.                                    *)
(***************************************************************************)
Parsed(m) == source[m] = "parsing" /\ (Collect(m) \/ ParseFails(m))

Fairness ==
  /\ \A m \in Messages : WF_vars(Parsed(m))
  /\ WF_vars(TimerFires)
  /\ WF_vars(\E d \in running : Finish(d))

FairSpec == Spec /\ Fairness

-----------------------------------------------------------------------------
(***************************************************************************)
(* The shape of the state; no batch grows past its size, not even while    *)
(* earlier ones are handled.                                               *)
(***************************************************************************)
TypeOK ==
  /\ source \in [Messages -> {"unsent", "parsing", "taken"}]
  /\ batch \in Seq(Messages) /\ Len(batch) < Size
  /\ waiters \in Seq(Messages)
  /\ timer \in BOOLEAN
  /\ running \subseteq Delivery /\ \A d \in running : Len(d.messages) <= Size
  /\ stopped \in BOOLEAN
  /\ promise \in [Messages -> {"pending", "resolved", "rejected"}]
  /\ handled \in [Messages -> Nat]

(***************************************************************************)
(* However flushes by size, flushes by time and slow handlers overlap, the *)
(* route is given each message at most once.                               *)
(***************************************************************************)
HandledAtMostOnce == \A m \in Messages : handled[m] <= 1

(***************************************************************************)
(* A promise is answered by the delivery that carried its message: it      *)
(* resolves only after the handler had the message, and while a delivery   *)
(* runs, the promises it will settle are those of its own messages, bar    *)
(* the ones a stop has rejected already.                                   *)
(***************************************************************************)
AnsweredByOwnBatch ==
  /\ \A m \in Messages : promise[m] = "resolved" => handled[m] > 0
  /\ \A d \in running : ToSet(d.waiters) \subseteq ToSet(d.messages)
  /\ \A d \in running : \A m \in ToSet(d.messages) \ ToSet(d.waiters) :
       stopped /\ promise[m] = "rejected"

(***************************************************************************)
(* Both: the deliveries and the answers to them are those of the messages. *)
(***************************************************************************)
DeliveriesAreExact == HandledAtMostOnce /\ AnsweredByOwnBatch

(***************************************************************************)
(* A message collected into a batch reaches the route, unless the route is *)
(* stopped first, as long as no batch begins while a flush is running.     *)
(***************************************************************************)
PartialBatchIsFlushed ==
  [](batch # <<>> => \A d \in running : ~d.batched) =>
    \A m \in Messages :
      (m \in ToSet(batch) /\ ~stopped) ~> (handled[m] > 0 \/ stopped)

(***************************************************************************)
(* "Maximum wait time in milliseconds before flushing a partial batch":    *)
(* what was collected reaches the route whatever else is running.          *)
(***************************************************************************)
NoBatchIsForgotten ==
  \A m \in Messages :
    (m \in ToSet(batch) /\ ~stopped) ~> (handled[m] > 0 \/ stopped)

=============================================================================

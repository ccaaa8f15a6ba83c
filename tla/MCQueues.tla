------------------------------ MODULE MCQueues -------------------------------
(***************************************************************************)
(* The two places of a route where exchanges wait for one another: a       *)
(* bulkhead and a batch consumer.  They share no state, so a behaviour     *)
(* follows one of them, its focus, while the other one rests.              *)
(*                                                                         *)
(* Exchanges are numbers; the first Many of them share one key.            *)
(***************************************************************************)
EXTENDS Bulkhead

CONSTANTS Messages, Size

VARIABLES focus, source, batch, resolvers, timer, running, stopped, promise, handled

B == INSTANCE BatchConsumer WITH waiters <- resolvers

ASSUME BatchAssumption == B!ConstantsOK

Many == 5
Crowded == [e \in Exchanges |-> IF e <= Many THEN "crowded" ELSE "quiet"]

batchVars == <<source, batch, resolvers, timer, running, stopped, promise, handled>>

QInit == Init /\ B!Init /\ focus \in {"bulkhead", "batch"}

QNext ==
  /\ \/ focus = "bulkhead" /\ Next /\ UNCHANGED batchVars
     \/ focus = "batch" /\ B!Next /\ UNCHANGED vars
  /\ UNCHANGED focus

QSpec ==
  /\ QInit /\ [][QNext]_<<focus, vars, batchVars>>
  /\ \A e \in Exchanges : WF_vars(Finish(e))
  /\ B!Fairness

-----------------------------------------------------------------------------
(***************************************************************************)
(* The shape of the state of both.                                         *)
(***************************************************************************)
BothTypeOK == TypeOK /\ B!TypeOK

(***************************************************************************)
(* The properties of the batch consumer: a message is delivered and        *)
(* answered once and by its own batch, and a partial batch is flushed.     *)
(***************************************************************************)
DeliveriesAreExact == B!DeliveriesAreExact
PartialBatchIsFlushed == B!PartialBatchIsFlushed

=============================================================================

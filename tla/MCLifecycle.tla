---------------------------- MODULE MCLifecycle -----------------------------
(***************************************************************************)
(* The plugins of the model-checked contexts, in registration order.       *)
(***************************************************************************)
EXTENDS Lifecycle, TLC

ServersOutside == [i \in 1..N |-> IF i \in {1, N} THEN "server" ELSE "plain"]

ServerLast == [i \in 1..N |-> IF i = N THEN "server" ELSE "plain"]

SweeperLast == [i \in 1..N |-> IF i = N THEN "sweeper" ELSE "plain"]

Symmetry == Permutations(Work)

=============================================================================

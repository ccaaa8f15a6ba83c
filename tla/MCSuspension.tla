----------------------------- MODULE MCSuspension -----------------------------
(* Suspension as TLC checks it: resume calls are interchangeable. *)
EXTENDS Suspension, TLC

Symmetry == Permutations(Resumers)

=============================================================================

--------------------------- MODULE SuspensionFate ---------------------------
(***************************************************************************)
(* What suspending an exchange promises to the people around it, with the  *)
(* store, the claims, the leases and the crashes left out: an exchange     *)
(* that asked for an answer either runs on, once, or lapses, and everybody *)
(* who is told how it ended is told the same.                              *)
(***************************************************************************)
CONSTANTS Ids, Outcomes

VARIABLES
  fate,  \* "unasked", "asked", "ran" or "lapsed"
  told   \* the recorded outcomes acknowledged to callers, per id

fateVars == <<fate, told>>

FateInit ==
  /\ fate = [id \in Ids |-> "unasked"]
  /\ told = [id \in Ids |-> {}]

Becomes(id, from, to) ==
  /\ fate[id] = from
  /\ fate' = [fate EXCEPT ![id] = to]
  /\ UNCHANGED told

Ask(id) == Becomes(id, "unasked", "asked")
Run(id) == Becomes(id, "asked", "ran")
Lapse(id) == Becomes(id, "asked", "lapsed")

(***************************************************************************)
(* An answer repeats the earlier ones; work that did not run is never      *)
(* reported completed, work that ran is never reported overdue.            *)
(***************************************************************************)
Answer(id) ==
  \E outcome \in Outcomes :
    /\ told[id] \subseteq {outcome}
    /\ outcome = "completed" => fate[id] = "ran"
    /\ outcome = "overdue" => fate[id] # "ran"
    /\ told' = [told EXCEPT ![id] = {outcome}]
    /\ UNCHANGED fate

FateNext == \E id \in Ids : Ask(id) \/ Run(id) \/ Lapse(id) \/ Answer(id)

FateSpec == FateInit /\ [][FateNext]_fateVars

=============================================================================

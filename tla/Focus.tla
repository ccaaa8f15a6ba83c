--------------------------------- MODULE Focus ---------------------------------
(***************************************************************************)
(* Components that share no state are followed one at a time: a behaviour  *)
(* has a focus, and the other components rest.                             *)
(***************************************************************************)
VARIABLE focus

(***************************************************************************)
(* Who rests has made the first of its choices.                            *)
(***************************************************************************)
First(choices) == CHOOSE c \in choices : TRUE

=============================================================================

------------------------------ MODULE MCRoutes -------------------------------
(***************************************************************************)
(* The routes of the model-checked runs of the executor: split, joined,    *)
(* nested and branching ones, a lone aggregate, under each kind of error   *)
(* handler.                                                                *)
(***************************************************************************)
Flat == <<"cached", "split", "filter", "aggregate", "task">>
Nested == <<"split", "split", "filter", "aggregate", "aggregate">>
Layered == <<"split", "filter", "split", "aggregate", "aggregate">>
Unjoined == <<"split", "split", "task">>
Branching == <<"split", "choice", "aggregate">>
AggregateOnly == <<"aggregate", "filter">>

Paths == {<<"task">>, <<"task", "halt">>}

(***************************************************************************)
(* The first run takes any of these, the second one only splits and joins. *)
(***************************************************************************)
Busy ==
  [steps : {Flat, AggregateOnly}, handler : {"none", "recover", "drop", "throw"}]
    \union [steps : {Unjoined, Branching}, handler : {"none", "recover"}]
    \union {[steps |-> Layered, handler |-> "none"], [steps |-> Nested, handler |-> "recover"]}
Other == [steps |-> <<"split", "aggregate">>, handler |-> "none"]

Pairs == {<<b, Other>> : b \in Busy}

=============================================================================

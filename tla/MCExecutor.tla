----------------------------- MODULE MCExecutor -----------------------------
(***************************************************************************)
(* Two runs of these routes.                                               *)
(***************************************************************************)
EXTENDS Executor, MCRoutes

=============================================================================

------------------------------ MODULE Operations ------------------------------
(***************************************************************************)
(* What exchanges go through: the executor of the steps of their routes,   *)
(* the operations that keep state from one exchange to the next, and what  *)
(* lives as long as the context.                                           *)
(* They share no state, so a behaviour follows one of them, its focus,     *)
(* while the others rest.                                                  *)
(***************************************************************************)
EXTENDS Wrappers, Endpoints

CONSTANTS Runs, Deployments, Branches, MaxFan

VARIABLES
  route, queue, step, parentMap, storeMade, known, found, verdict, ends, exposed

executorVars ==
  <<route, queue, step, parentMap, storeMade, known, found, verdict, ends, exposed>>

E == INSTANCE Executor

ASSUME ExecutorConstants == E!ConstantsOK

-----------------------------------------------------------------------------
OpInit ==
  /\ focus \in {"executor", "breaker", "dispatch", "throttle", "cache", "dedupe", "stdio", "mail",
               "health", "http"}
  /\ Init /\ E!Init /\ D!Init /\ T!Init /\ C!Init /\ U!Init /\ S!Init /\ M!MailInit
  /\ H!Init /\ L!Init
  /\ focus = "executor" \/ route = First(Deployments)
  /\ focus = "dispatch" \/ strategy = First(Strategies)
  /\ focus = "throttle" \/ mode = "delay"
  /\ focus = "dedupe" \/ ~debounces
  /\ focus = "mail" \/ polls = {}

OpNext ==
  /\ UNCHANGED focus
  /\ \/ /\ focus = "executor" /\ E!Next
        /\ UNCHANGED <<vars, dispatchVars, throttleVars, cacheVars,
                       dedupeVars, stdioVars, mailVars, healthVars, httpVars>>
     \/ /\ focus = "breaker" /\ Next
        /\ UNCHANGED <<executorVars, dispatchVars, throttleVars, cacheVars,
                       dedupeVars, stdioVars, mailVars, healthVars, httpVars>>
     \/ /\ focus = "dispatch" /\ D!Next
        /\ UNCHANGED <<executorVars, vars, throttleVars, cacheVars,
                       dedupeVars, stdioVars, mailVars, healthVars, httpVars>>
     \/ /\ focus = "throttle" /\ T!Next
        /\ UNCHANGED <<executorVars, vars, dispatchVars, cacheVars,
                       dedupeVars, stdioVars, mailVars, healthVars, httpVars>>
     \/ /\ focus = "cache" /\ C!Next
        /\ UNCHANGED <<executorVars, vars, dispatchVars, throttleVars,
                       dedupeVars, stdioVars, mailVars, healthVars, httpVars>>
     \/ /\ focus = "dedupe" /\ U!Next
        /\ UNCHANGED <<executorVars, vars, dispatchVars, throttleVars,
                       cacheVars, stdioVars, mailVars, healthVars, httpVars>>
     \/ /\ focus = "stdio" /\ S!Next
        /\ UNCHANGED <<executorVars, vars, dispatchVars, throttleVars,
                       cacheVars, dedupeVars, mailVars, healthVars, httpVars>>
     \/ /\ focus = "mail" /\ M!MailNext
        /\ UNCHANGED <<executorVars, vars, dispatchVars, throttleVars,
                       cacheVars, dedupeVars, stdioVars, healthVars, httpVars>>
     \/ /\ focus = "health" /\ H!Next
        /\ UNCHANGED <<executorVars, vars, dispatchVars, throttleVars,
                       cacheVars, dedupeVars, stdioVars, mailVars, httpVars>>
     \/ /\ focus = "http" /\ L!Next
        /\ UNCHANGED <<executorVars, vars, dispatchVars, throttleVars,
                       cacheVars, dedupeVars, stdioVars, mailVars, healthVars>>

OpVars ==
  <<focus, executorVars, vars, dispatchVars, throttleVars, cacheVars, dedupeVars, stdioVars,
    mailVars, healthVars, httpVars>>

OpSpec == OpInit /\ [][OpNext]_OpVars

-----------------------------------------------------------------------------
(***************************************************************************)
(* The shape of the state of each of them.                                 *)
(***************************************************************************)
AllTypesOK ==
  /\ focus = "executor" => E!TypeOK
  /\ focus = "breaker" => TypeOK
  /\ focus = "dispatch" => D!TypeOK
  /\ focus = "throttle" => T!TypeOK
  /\ focus = "cache" => C!TypeOK
  /\ focus = "dedupe" => U!TypeOK
  /\ focus = "stdio" => S!TypeOK
  /\ focus = "mail" => M!MailTypeOK
  /\ focus = "health" => H!TypeOK
  /\ focus = "http" => L!TypeOK

(***************************************************************************)
(* The properties of the executor, as its module states them.              *)
(***************************************************************************)
ChildrenEndOnce == focus = "executor" => E!ChildrenEndOnce
OneVerdict == focus = "executor" => E!OneVerdict
JoinIsComplete == focus = "executor" => E!JoinIsComplete
YoungerRunsKeepOut == focus = "executor" => E!YoungerRunsKeepOut

=============================================================================

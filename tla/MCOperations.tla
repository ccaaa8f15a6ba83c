---------------------------- MODULE MCOperations ------------------------------
(***************************************************************************)
(* The instances on which the components of Operations are run.            *)
(***************************************************************************)
EXTENDS Operations, MCRoutes

CONSTANTS Poller, Reader, Archivist

(***************************************************************************)
(* Failover is followed for fewer exchanges than the other strategies, its *)
(* exchanges interleave.                                                   *)
(***************************************************************************)
AllStrategies == {"round-robin", "weighted", "sticky", "failover"}
Sent == [s \in AllStrategies |-> IF s = "failover" THEN 3 ELSE 7]
AllWeights == [0..TargetCount-1 -> 1..3]

(***************************************************************************)
(* All exchanges but the last have one key.                                *)
(***************************************************************************)
Hot(exchanges, last) == [c \in exchanges |-> IF c = last THEN "other" ELSE "hot"]
HotCalls == Hot(Calls, 5)
HotDeduped == Hot(Deduped, 4)

(***************************************************************************)
(* One source and two visitors, one in the source's mailbox and one not.   *)
(***************************************************************************)
MailUsers == {Poller, Reader, Archivist}
MailVisitors == {Reader, Archivist}
MailFolders == [u \in MailUsers |-> IF u = Archivist THEN "archive" ELSE "inbox"]

(***************************************************************************)
(* A route with a breaker around each of two of its steps.                 *)
(***************************************************************************)
BreakerRoutes == <<1, 1>>
BreakerLabels == <<"http", "mail">>

=============================================================================

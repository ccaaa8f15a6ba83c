----------------------------- MODULE MailSource ------------------------------
(***************************************************************************)
(* The mail source (adapters/mail/source.ts) on pooled connections: it     *)
(* acquires a connection for as long as it runs, fetches the unseen mail   *)
(* of its folder, gives each message to its route and marks it Seen, waits *)
(* for more, and acquires another connection when its own fails.           *)
(***************************************************************************)
EXTENDS ImapPool

CONSTANTS
  Uids,      \* the numbers messages have within a mailbox
  MaxAttempts

Sources == Users \ Visitors

SourceConstantsOK ==
  /\ ConstantsOK
  /\ MaxAttempts \in Nat \ {0} /\ Uids # {}

VARIABLES
  polls,     \* the sources with a pollIntervalMs; the others use IDLE
  step,      \* where subscribe() is
  using,     \* the connection its loop took before it began to deliver, or 0
  todo, now, \* the fetched messages ahead, and the one in the route
  attempt,   \* the reconnect attempts begun
  aborted,   \* the sources whose subscription is aborted
  mail, seen,\* the messages there are and those marked Seen
  handled    \* the messages whose handler resolved or that proved malformed

sourceVars == <<polls, step, using, todo, now, attempt, aborted, mail, seen, handled>>
mailVars == <<poolVars, sourceVars>>
boxVars == <<mail, seen, handled>>
loopVars == <<using, todo, now>>

Message(s, u) == <<Folder[s], u>>
Moves(s, to) == step' = [step EXCEPT ![s] = to]

MailInit ==
  /\ PoolInit
  /\ polls \in SUBSET Sources
  /\ step = [s \in Sources |-> "connecting"]
  /\ using = [s \in Sources |-> 0]
  /\ todo = [s \in Sources |-> {}]
  /\ now \in [Sources -> {CHOOSE u \in Uids : TRUE}]
  /\ attempt = [s \in Sources |-> 0]
  /\ aborted = {} /\ seen = {} /\ handled = {}
  /\ mail = {<<box, u>> : box \in Boxes \ {Folder[s] : s \in Sources}, u \in Uids}

-----------------------------------------------------------------------------
(***************************************************************************)
(* acquireAndOpen, first of initialConnect, later of reconnectWithBackoff. *)
(* Only the latter looks at the abort once it has a connection.            *)
(***************************************************************************)
Connect(s) ==
  /\ step[s] \in {"connecting", "reconnecting"}
  /\ Acquire(s)
  /\ UNCHANGED sourceVars

Opened(s) ==
  /\ \/ step[s] = "connecting"
     \/ step[s] = "reconnecting" /\ s \notin aborted
  /\ OpenMailbox(s)
  /\ Moves(s, "ready")
  /\ attempt' = [attempt EXCEPT ![s] = 0]
  /\ UNCHANGED <<queue, drainVars, at, held, faults, polls, loopVars, aborted, boxVars>>

OpenedLate(s) ==
  /\ step[s] = "reconnecting" /\ s \in aborted
  /\ at[s] = "serving" /\ Usable(held[s])
  /\ conns' = [conns EXCEPT ![held[s]].box = Folder[s]]
  /\ Release(s)
  /\ Moves(s, "ended")
  /\ UNCHANGED <<drainVars, faults, polls, loopVars, attempt, aborted, boxVars>>

(***************************************************************************)
(* acquireAndOpen fails: by a refusal, or because the mailbox cannot be    *)
(* opened.  A fatal error, of the authentication say, or of the last       *)
(* attempt ends the source.                                                *)
(***************************************************************************)
RetryOrEnd(s, fatal) ==
  IF fatal \/ attempt[s] >= MaxAttempts \/ (s \in aborted /\ step[s] = "connecting")
  THEN Moves(s, "ended") /\ UNCHANGED attempt
  ELSE Moves(s, "waiting") /\ attempt' = [attempt EXCEPT ![s] = @ + 1]

Failing(s) == Usable(held[s]) => faults < MaxFaults
Counted(s) == faults' = IF Usable(held[s]) THEN faults + 1 ELSE faults

Refused(s, fatal) ==
  /\ step[s] \in {"connecting", "reconnecting"}
  /\ at[s] = "refused"
  /\ Goes(s, "away", 0)
  /\ RetryOrEnd(s, fatal)
  /\ UNCHANGED <<conns, entries, queue, drainVars, faults,
                 polls, loopVars, aborted, boxVars>>

OpenFails(s, fatal) ==
  /\ step[s] \in {"connecting", "reconnecting"}
  /\ at[s] = "serving" /\ Failing(s) /\ Counted(s)
  /\ Release(s)
  /\ RetryOrEnd(s, fatal)
  /\ UNCHANGED <<conns, drainVars, polls, loopVars, aborted, boxVars>>

(* The backoff is over, or cut short by the abort. *)
Retry(s) ==
  /\ step[s] = "waiting"
  /\ Moves(s, IF s \in aborted THEN "ended" ELSE "reconnecting")
  /\ UNCHANGED <<poolVars, polls, loopVars, attempt, aborted, boxVars>>

-----------------------------------------------------------------------------
(***************************************************************************)
(* The top of pollLoop and idleLoop: fetchMessages, a break of the         *)
(* connection, or the end.                                                 *)
(***************************************************************************)
Unseen(box) == {u \in Uids : <<box, u>> \in mail \ seen}

Fetch(s) ==
  /\ step[s] = "ready" /\ s \notin aborted /\ Usable(held[s])
  /\ using' = [using EXCEPT ![s] = held[s]]
  /\ todo' = [todo EXCEPT ![s] = Unseen(conns[held[s]].box)]
  /\ Moves(s, "delivering")
  /\ UNCHANGED <<poolVars, polls, now, attempt, aborted, boxVars>>

(***************************************************************************)
(* A fetch or an IDLE fails: the connection is released and another one is *)
(* acquired.  A mutant keeps the slot of the old one.                      *)
(***************************************************************************)
FailsInLoop(s) ==
  /\ step[s] = "ready" \/ (step[s] = "pausing" /\ s \notin polls)
  /\ s \notin aborted
  /\ Failing(s) /\ Counted(s)

LoseKeepingSlot(s, fatal) ==
  /\ FailsInLoop(s)
  /\ Goes(s, "away", 0)
  /\ Moves(s, IF fatal THEN "ended" ELSE "waiting")
  /\ attempt' = [attempt EXCEPT ![s] = 1]
  /\ UNCHANGED <<conns, entries, queue, drainVars, polls, loopVars, aborted, boxVars>>

Lose(s, fatal) ==
  /\ FailsInLoop(s)
  /\ Release(s)
  /\ Moves(s, IF fatal THEN "ended" ELSE "waiting")
  /\ attempt' = [attempt EXCEPT ![s] = 1]
  /\ UNCHANGED <<conns, drainVars, polls, loopVars, aborted, boxVars>>

(* The loop ends after an abort, between two messages or while it waits. *)
Finish(s) ==
  /\ step[s] \in {"ready", "delivering", "pausing"} /\ s \in aborted
  /\ Moves(s, "ended")
  /\ UNCHANGED <<poolVars, polls, loopVars, attempt, aborted, boxVars>>

(***************************************************************************)
(* Each message goes to the route, and is marked Seen if that succeeds or  *)
(* it was malformed; another failure leaves it for a later cycle.          *)
(***************************************************************************)
Deliver(s) ==
  /\ step[s] = "delivering" /\ s \notin aborted
  /\ IF todo[s] = {}
     THEN /\ Moves(s, "pausing")
          /\ using' = [using EXCEPT ![s] = 0]
          /\ UNCHANGED <<todo, now>>
     ELSE \E u \in todo[s] :
            /\ now' = [now EXCEPT ![s] = u]
            /\ todo' = [todo EXCEPT ![s] = @ \ {u}]
            /\ Moves(s, "handling")
            /\ UNCHANGED using
  /\ UNCHANGED <<poolVars, polls, attempt, aborted, boxVars>>

Settles(s, to) ==
  /\ step[s] = "handling"
  /\ handled' = handled \union {Message(s, now[s])}
  /\ Moves(s, to)
  /\ UNCHANGED <<poolVars, polls, loopVars, attempt, aborted, mail, seen>>

HandlerResolves(s) == Settles(s, "marking")
MessageIsMalformed(s) == Settles(s, "discarding")

(* A mutant marks the message whatever the handler's error. *)
HandlerFailsUnread(s) ==
  /\ step[s] = "handling"
  /\ Moves(s, "marking")
  /\ UNCHANGED <<poolVars, polls, loopVars, attempt, aborted, boxVars>>

HandlerFails(s) ==
  /\ step[s] = "handling"
  /\ Moves(s, "delivering")
  /\ UNCHANGED <<poolVars, polls, loopVars, attempt, aborted, boxVars>>

(***************************************************************************)
(* markMessagesSeen flags the number in whatever mailbox the connection    *)
(* has open, and never throws.  A malformed message may then end the       *)
(* source (onParseError "abort").                                          *)
(***************************************************************************)
FlagSeen(s) ==
  LET c == using[s]
  IN /\ seen' = IF Usable(c) THEN seen \union ({<<conns[c].box, now[s]>>} \intersect mail)
                             ELSE seen
     /\ UNCHANGED <<conns, drainVars, faults, polls, loopVars, attempt, aborted,
                    mail, handled>>

Mark(s) ==
  /\ step[s] \in {"marking", "discarding"}
  /\ FlagSeen(s)
  /\ Moves(s, "delivering")
  /\ UNCHANGED <<entries, queue, at, held>>

DiscardAndEnd(s) ==
  /\ step[s] = "discarding"
  /\ FlagSeen(s)
  /\ Moves(s, "ended")
  /\ IF s \in aborted THEN UNCHANGED <<entries, queue, at, held>> ELSE Release(s)

(* The poll interval is over, or IDLE resolves. *)
Wake(s) ==
  /\ step[s] = "pausing" /\ s \notin aborted
  /\ Moves(s, "ready")
  /\ UNCHANGED <<poolVars, polls, loopVars, attempt, aborted, boxVars>>

-----------------------------------------------------------------------------
(***************************************************************************)
(* The subscription is aborted: releaseClient gives the connection back    *)
(* that the loop has, if it has one yet.                                   *)
(***************************************************************************)
InLoop(s) ==
  step[s] \in {"ready", "delivering", "handling", "marking", "discarding", "pausing"}

Abort(s) ==
  /\ s \notin aborted /\ step[s] # "ended"
  /\ aborted' = aborted \union {s}
  /\ IF InLoop(s) THEN Release(s) ELSE UNCHANGED <<entries, queue, at, held>>
  /\ UNCHANGED <<conns, drainVars, faults, polls, step, loopVars, attempt, boxVars>>

Arrive(box, u) ==
  /\ <<box, u>> \notin mail
  /\ mail' = mail \union {<<box, u>>}
  /\ UNCHANGED <<poolVars, polls, step, loopVars, attempt, aborted, seen, handled>>

(***************************************************************************)
(* The manager is drained when the context is torn down, after every       *)
(* source was aborted; work in flight may outlive that.                    *)
(***************************************************************************)
Teardown ==
  /\ \A s \in Sources : s \in aborted \/ step[s] = "ended"
  /\ Drain
  /\ UNCHANGED sourceVars

SourceStep(s) ==
  \/ Connect(s) \/ Opened(s) \/ OpenedLate(s) \/ Retry(s)
  \/ \E fatal \in BOOLEAN : Refused(s, fatal) \/ OpenFails(s, fatal) \/ Lose(s, fatal)
  \/ Fetch(s) \/ Finish(s) \/ Deliver(s)
  \/ HandlerResolves(s) \/ MessageIsMalformed(s) \/ HandlerFails(s)
  \/ Mark(s) \/ DiscardAndEnd(s) \/ Wake(s)

MailNext ==
  \/ PoolNext /\ UNCHANGED sourceVars
  \/ \E s \in Sources : SourceStep(s) \/ Abort(s)
  \/ \E box \in Boxes, u \in Uids : Arrive(box, u)
  \/ Teardown

MailSpec == MailInit /\ [][MailNext]_mailVars

-----------------------------------------------------------------------------
(***************************************************************************)
(* The shape of the state.                                                 *)
(***************************************************************************)
MailTypeOK ==
  /\ PoolTypeOK
  /\ polls \subseteq Sources
  /\ step \in [Sources -> {"connecting", "waiting", "reconnecting", "ready", "delivering",
                           "handling", "marking", "discarding", "pausing", "ended"}]
  /\ using \in [Sources -> 0..Len(conns)]
  /\ todo \in [Sources -> SUBSET Uids]
  /\ now \in [Sources -> Uids]
  /\ attempt \in [Sources -> 0..MaxAttempts]
  /\ aborted \subseteq Sources
  /\ mail \subseteq Boxes \X Uids
  /\ seen \subseteq mail /\ handled \subseteq mail

(***************************************************************************)
(* What a comment on drainOnce says: a message is marked Seen only after   *)
(* its handler resolved; a malformed one is marked too.                    *)
(***************************************************************************)
SeenWereHandled == seen \subseteq handled

(***************************************************************************)
(* As long as no source is stopped that is so, through every failure of a  *)
(* handler and every change of connection.                                 *)
(***************************************************************************)
SeenWereHandledBeforeStop == aborted = {} => SeenWereHandled

(***************************************************************************)
(* No slot is lost: whatever breaks, and whoever gives up, each connection *)
(* in use has a user who is still to release it, which a source that is    *)
(* over or waits to reconnect is not, as long as no source is stopped.     *)
(***************************************************************************)
NoConnectionLeaks ==
  aborted = {} =>
    \A i \in DOMAIN entries : entries[i].inUse =>
      \E u \in Users : /\ held[u] = entries[i].client
                       /\ u \in Sources => step[u] \notin {"waiting", "ended"}

=============================================================================

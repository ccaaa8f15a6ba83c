------------------------------ MODULE ImapPool -------------------------------
(***************************************************************************)
(* The pool of IMAP connections of one mail account (ImapPool,             *)
(* adapters/mail/client-manager.ts), and the steps that visit a mailbox    *)
(* through it: operations on mail and enrichments.                         *)
(*                                                                         *)
(* An acquire or a release runs without an await but for the connect and   *)
(* the wait in line, so an action is what runs between two awaits.         *)
(***************************************************************************)
EXTENDS Naturals, Sequences, SequencesExt, FiniteSets, FiniteSetsExt

CONSTANTS
  Users,     \* who uses the pool
  Visitors,  \* those of them that visit a mailbox and leave
  Boxes, Folder,  \* the mailboxes, and the one each user works in
  NoBox,     \* no mailbox is open
  PoolSize,
  MaxFaults  \* bound on connections that break and calls that fail

ConstantsOK ==
  /\ Visitors \subseteq Users
  /\ Folder \in [Users -> Boxes] /\ NoBox \notin Boxes
  /\ PoolSize \in Nat \ {0} /\ MaxFaults \in Nat

VARIABLES
  conns,    \* the connections ever dialled, each with how it is and the mailbox
            \* it has open, which is the one trackMailbox notes
  entries,  \* the slots: a connection and whether it is in use
  queue,    \* the users in the wait line
  drained,
  closing,  \* the connection drain() is logging out, 0 for none, and the index
  cursor,   \* of its slot when that began
  at,       \* where each user's acquire is: "away", "dialling", "queued",
            \* "serving" or "refused"
  held,     \* the connection it dials or got, 0 for none
  faults

poolVars == <<conns, entries, queue, drained, closing, cursor, at, held, faults>>
drainVars == <<drained, closing, cursor>>

PoolInit ==
  /\ conns = <<>> /\ entries = <<>> /\ queue = <<>>
  /\ drained = FALSE /\ closing = 0 /\ cursor = 0
  /\ at = [u \in Users |-> "away"]
  /\ held = [u \in Users |-> 0]
  /\ faults = 0

Usable(c) == conns[c].state = "open"
Gone == [state |-> "gone", box |-> NoBox]

Goes(u, to, c) == at' = [at EXCEPT ![u] = to] /\ held' = [held EXCEPT ![u] = c]

Fault == faults < MaxFaults /\ faults' = faults + 1

-----------------------------------------------------------------------------
(***************************************************************************)
(* The first idle connection on one of the boxes: taken, or dropped from   *)
(* the pool when it is dead.                                               *)
(***************************************************************************)
Try(slots, boxes) ==
  LET idle == {i \in DOMAIN slots : ~slots[i].inUse /\ conns[slots[i].client].box \in boxes}
      i == Min(idle)
  IN IF idle = {} THEN [client |-> 0, slots |-> slots]
     ELSE IF Usable(slots[i].client)
     THEN [client |-> slots[i].client, slots |-> [slots EXCEPT ![i].inUse = TRUE]]
     ELSE [client |-> 0, slots |-> RemoveAt(slots, i)]

Search(u) ==
  LET same == Try(entries, {Folder[u]})
  IN IF same.client # 0 THEN same ELSE Try(same.slots, Boxes \union {NoBox})

(* acquire finds an idle connection. *)
Reuse(u) ==
  /\ ~drained
  /\ Search(u).client # 0
  /\ entries' = Search(u).slots
  /\ Goes(u, "serving", Search(u).client)
  /\ UNCHANGED <<conns, queue, drainVars, faults>>

(***************************************************************************)
(* acquire reserves a slot and dials.  A mutant takes the slot only when   *)
(* the connection is there.                                                *)
(***************************************************************************)
Slot(c) == [client |-> c, inUse |-> TRUE]

DialUnreserved(u) ==
  LET c == Len(conns) + 1
  IN /\ ~drained
     /\ Search(u).client = 0
     /\ Cardinality({i \in DOMAIN entries : Usable(entries[i].client)}) < PoolSize
     /\ entries' = Append(Search(u).slots, Slot(c))
     /\ conns' = Append(conns, [state |-> "dialling", box |-> NoBox])
     /\ Goes(u, "dialling", c)
     /\ UNCHANGED <<queue, drainVars, faults>>

Dial(u) ==
  LET c == Len(conns) + 1
  IN /\ ~drained
     /\ Search(u).client = 0 /\ Len(Search(u).slots) < PoolSize
     /\ entries' = Append(Search(u).slots, Slot(c))
     /\ conns' = Append(conns, [state |-> "dialling", box |-> NoBox])
     /\ Goes(u, "dialling", c)
     /\ UNCHANGED <<queue, drainVars, faults>>

(* acquire finds the pool full. *)
Enqueue(u) ==
  /\ ~drained
  /\ Search(u).client = 0 /\ Len(Search(u).slots) >= PoolSize
  /\ entries' = Search(u).slots
  /\ queue' = Append(queue, u)
  /\ Goes(u, "queued", 0)
  /\ UNCHANGED <<conns, drainVars, faults>>

(* acquire on a drained pool. *)
Refuse(u) ==
  /\ drained
  /\ Goes(u, "refused", 0)
  /\ UNCHANGED <<conns, entries, queue, drainVars, faults>>

Acquire(u) ==
  /\ at[u] = "away"
  /\ Reuse(u) \/ Dial(u) \/ Enqueue(u) \/ Refuse(u)

(***************************************************************************)
(* The connect of an acquire resolves; a pool that was drained meanwhile   *)
(* does not serve it, and it is logged out.                                *)
(***************************************************************************)
Without(slots, c) ==
  IF \E i \in DOMAIN slots : slots[i].client = c
  THEN RemoveAt(slots, CHOOSE i \in DOMAIN slots : slots[i].client = c)
  ELSE slots

Land(u) ==
  /\ at[u] = "dialling" /\ ~drained
  /\ conns' = [conns EXCEPT ![held[u]].state = "open"]
  /\ Goes(u, "serving", held[u])
  /\ UNCHANGED <<entries, queue, drainVars, faults>>

LandLate(u) ==
  /\ at[u] = "dialling" /\ drained
  /\ conns' = [conns EXCEPT ![held[u]] = Gone]
  /\ entries' = Without(entries, held[u])
  /\ Goes(u, "refused", 0)
  /\ UNCHANGED <<queue, drainVars, faults>>

(* The connect fails: the reservation is released, and nobody is told. *)
DialFails(u) ==
  /\ at[u] = "dialling" /\ Fault
  /\ conns' = [conns EXCEPT ![held[u]] = Gone]
  /\ entries' = Without(entries, held[u])
  /\ Goes(u, "refused", 0)
  /\ UNCHANGED <<queue, drainVars>>

-----------------------------------------------------------------------------
(***************************************************************************)
(* release: a dead connection leaves the pool, a live one goes straight to *)
(* the first in line, or is idle.                                          *)
(***************************************************************************)
Freed(c) == [i \in DOMAIN entries |->
              IF entries[i].client = c THEN [entries[i] EXCEPT !.inUse = FALSE]
                                       ELSE entries[i]]

(* A mutant: the slot is freed also when the connection is handed over. *)
ReleaseTwice(u) ==
  LET c == held[u]
      pooled == \E i \in DOMAIN entries : entries[i].client = c
  IN /\ entries' = IF Usable(c) THEN Freed(c) ELSE Without(entries, c)
     /\ IF pooled /\ Usable(c) /\ queue # <<>>
        THEN /\ queue' = Tail(queue)
             /\ at' = [at EXCEPT ![u] = "away", ![Head(queue)] = "serving"]
             /\ held' = [held EXCEPT ![u] = 0, ![Head(queue)] = c]
        ELSE Goes(u, "away", 0) /\ UNCHANGED queue

Release(u) ==
  LET c == held[u]
      pooled == \E i \in DOMAIN entries : entries[i].client = c
  IN IF pooled /\ Usable(c) /\ queue # <<>>
     THEN /\ queue' = Tail(queue)
          /\ at' = [at EXCEPT ![u] = "away", ![Head(queue)] = "serving"]
          /\ held' = [held EXCEPT ![u] = 0, ![Head(queue)] = c]
          /\ UNCHANGED entries
     ELSE /\ entries' = IF Usable(c) THEN Freed(c) ELSE Without(entries, c)
          /\ Goes(u, "away", 0)
          /\ UNCHANGED queue

(***************************************************************************)
(* mailboxOpen and trackMailbox on the user's connection.                  *)
(***************************************************************************)
OpenMailbox(u) ==
  /\ at[u] = "serving" /\ Usable(held[u])
  /\ conns' = [conns EXCEPT ![held[u]].box = Folder[u]]
  /\ UNCHANGED entries

(***************************************************************************)
(* A visitor: an operation on mail or an enrichment.  It opens its mailbox *)
(* and, whether its work succeeds or not, releases its connection; an      *)
(* append opens none.                                                      *)
(***************************************************************************)
Visit(v) == Acquire(v)

Open(v) ==
  /\ at[v] = "serving" /\ conns[held[v]].box # Folder[v]
  /\ OpenMailbox(v)
  /\ UNCHANGED <<queue, drainVars, at, held, faults>>

Leave(v) ==
  /\ at[v] = "serving"
  /\ Release(v)
  /\ UNCHANGED <<conns, drainVars, faults>>

TurnAway(v) ==
  /\ at[v] = "refused"
  /\ Goes(v, "away", 0)
  /\ UNCHANGED <<conns, entries, queue, drainVars, faults>>

(* A connection breaks; its slot still notes the mailbox. *)
Break(c) ==
  /\ Usable(c) /\ Fault
  /\ conns' = [conns EXCEPT ![c].state = "gone"]
  /\ UNCHANGED <<entries, queue, drainVars, at, held>>

-----------------------------------------------------------------------------
(***************************************************************************)
(* drain: the line is refused, and each connection logged out in turn.     *)
(* The loop walks the slots by index while others still remove theirs.     *)
(***************************************************************************)
WalkFrom(i) ==
  LET ahead == {j \in i..Len(entries) : conns[entries[j].client].state # "dialling"}
  IN IF ahead = {}
     THEN entries' = <<>> /\ closing' = 0 /\ cursor' = 0
     ELSE /\ cursor' = Min(ahead)
          /\ closing' = entries[Min(ahead)].client
          /\ UNCHANGED entries

Drain ==
  /\ ~drained
  /\ drained' = TRUE
  /\ queue' = <<>>
  /\ at' = [u \in Users |-> IF at[u] = "queued" THEN "refused" ELSE at[u]]
  /\ WalkFrom(1)
  /\ UNCHANGED <<conns, held, faults>>

LoggedOut ==
  /\ closing # 0
  /\ conns' = [conns EXCEPT ![closing] = Gone]
  /\ WalkFrom(cursor + 1)
  /\ UNCHANGED <<queue, drained, at, held, faults>>

PoolNext ==
  \/ \E v \in Visitors : Visit(v) \/ Open(v) \/ Leave(v) \/ TurnAway(v)
  \/ \E u \in Users : Land(u) \/ LandLate(u) \/ DialFails(u)
  \/ \E c \in DOMAIN conns : Break(c)
  \/ LoggedOut

-----------------------------------------------------------------------------
(***************************************************************************)
(* The shape of the state.                                                 *)
(***************************************************************************)
PoolTypeOK ==
  /\ \A c \in DOMAIN conns :
       /\ conns[c].state \in {"dialling", "open", "gone"}
       /\ conns[c].box \in Boxes \union {NoBox}
  /\ \A i \in DOMAIN entries :
       /\ entries[i].client \in DOMAIN conns
       /\ entries[i].inUse \in BOOLEAN
  /\ ToSet(queue) = {u \in Users : at[u] = "queued"}
  /\ drained \in BOOLEAN
  /\ closing \in {0} \union DOMAIN conns
  /\ cursor \in 0..Len(conns)
  /\ at \in [Users -> {"away", "dialling", "queued", "serving", "refused"}]
  /\ held \in [Users -> {0} \union DOMAIN conns]
  /\ faults \in 0..MaxFaults

(***************************************************************************)
(* The account never has more connections than its pool's size, those that *)
(* are being dialled included; no connection serves two users, or is idle  *)
(* while it serves one or while somebody waits in line.                    *)
(***************************************************************************)
Serving == {u \in Users : at[u] = "serving"}
Sockets == {c \in DOMAIN conns : conns[c].state \in {"dialling", "open"}}

ConnectionsAreCounted ==
  /\ Cardinality(Sockets) <= PoolSize
  /\ \A u, w \in Serving : held[u] = held[w] => u = w
  /\ \A i \in DOMAIN entries : ~entries[i].inUse =>
       queue = <<>> /\ \A u \in Serving : held[u] # entries[i].client

=============================================================================

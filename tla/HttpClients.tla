----------------------------- MODULE HttpClients -----------------------------
(***************************************************************************)
(* The clients of the MCP servers reached over http: the plugin lists the  *)
(* tools of each, once when it is applied and then at an interval, over a  *)
(* connection that the runs of one server share                            *)
(* (packages/ai/src/mcp/plugin.ts and http-client-cache.ts).               *)
(*                                                                         *)
(* A connection is named after the run that asked for it.                  *)
(***************************************************************************)
EXTENDS Naturals, Sequences, SequencesExt, FiniteSetsExt

CONSTANTS
  ServerCount,
  MaxLists,  \* bound on the runs of listHttpClientTools
  NoRun

ConstantsOK ==
  /\ ServerCount \in Nat \ {0} /\ MaxLists \in Nat
  /\ NoRun \notin 1..MaxLists

Servers == 1..ServerCount
Lists == 1..MaxLists

VARIABLES
  lists,     \* the runs so far: the server, where it is, whose connection it uses
  link,      \* how far each connection is
  cached,    \* the connections in the cache, in the order they came in
  armed,     \* the servers whose interval is set, once their first run has ended
  applying,  \* the run that apply() awaits
  walk,      \* where disposeAll is,
  visiting,  \* the connection it is at
  visited,   \* and those it came to
  tools,     \* the run whose answer is registered for each server
  disposals, \* how often each connection was disposed
  blamed     \* the connections on which a run failed

cacheVars == <<link, cached, disposals>>
walkVars == <<walk, visiting, visited>>
vars == <<lists, cacheVars, armed, applying, walkVars, tools, blamed>>

Init ==
  /\ lists = <<>>
  /\ link = [c \in Lists |-> "none"]
  /\ cached = <<>>
  /\ armed = {} /\ applying = NoRun
  /\ walk = "no" /\ visiting = NoRun /\ visited = {}
  /\ tools = [s \in Servers |-> NoRun]
  /\ disposals = [c \in Lists |-> 0]
  /\ blamed = {}

ServerOf(c) == lists[c].server
CachedFor(s) == {c \in ToSet(cached) : ServerOf(c) = s}
AllApplied == armed = Servers /\ applying = NoRun

Removed(c) ==
  IF c \in ToSet(cached)
  THEN RemoveAt(cached, CHOOSE i \in DOMAIN cached : cached[i] = c)
  ELSE cached
Disposed(c) == [disposals EXCEPT ![c] = @ + 1]
Ended(r) == [lists EXCEPT ![r].at = "done"]

-----------------------------------------------------------------------------
(***************************************************************************)
(* A run joins the connection that is cached, or asks for one.             *)
(***************************************************************************)
GetOrCreate(s) ==
  LET r == Len(lists) + 1
  IN /\ r <= MaxLists
     /\ \/ /\ \E c \in CachedFor(s) :
                lists' = Append(lists, [server |-> s, on |-> c,
                           at |-> IF link[c] = "open" THEN "listing" ELSE "connecting"])
           /\ UNCHANGED cacheVars
        \/ /\ CachedFor(s) = {}
           /\ lists' = Append(lists, [server |-> s, on |-> r, at |-> "connecting"])
           /\ cached' = Append(cached, r)
           /\ link' = [link EXCEPT ![r] = "pending"]
           /\ UNCHANGED disposals

Apply ==
  /\ applying = NoRun /\ armed # Servers
  /\ GetOrCreate(Min(Servers \ armed))
  /\ applying' = Len(lists')
  /\ UNCHANGED <<armed, walkVars, tools, blamed>>

SetupRefresh ==
  /\ applying # NoRun /\ lists[applying].at = "done"
  /\ armed' = armed \union {ServerOf(applying)}
  /\ applying' = NoRun
  /\ UNCHANGED <<lists, cacheVars, walkVars, tools, blamed>>

Refresh(s) ==
  /\ s \in armed /\ walk = "no"
  /\ GetOrCreate(s)
  /\ UNCHANGED <<armed, applying, walkVars, tools, blamed>>

(***************************************************************************)
(* An attempt settles for all who wait for it.  One that failed has left   *)
(* the cache before any of them looks, so they have nothing to evict.      *)
(***************************************************************************)
Settled(c, at) ==
  [r \in DOMAIN lists |-> IF lists[r].on = c THEN [lists[r] EXCEPT !.at = at] ELSE lists[r]]

Connects(c) ==
  /\ link[c] = "pending"
  /\ link' = [link EXCEPT ![c] = "open"]
  /\ lists' = Settled(c, "listing")
  /\ UNCHANGED <<cached, disposals, armed, applying, walkVars, tools, blamed>>

ConnectFails(c) ==
  /\ link[c] = "pending"
  /\ link' = [link EXCEPT ![c] = "failed"]
  /\ cached' = Removed(c)
  /\ lists' = Settled(c, "done")
  /\ UNCHANGED <<disposals, armed, applying, walkVars, tools, blamed>>

Answers(r) ==
  /\ lists[r].at = "listing"
  /\ tools' = [tools EXCEPT ![ServerOf(r)] = r]
  /\ lists' = Ended(r)
  /\ UNCHANGED <<cacheVars, armed, applying, walkVars, blamed>>

(* Mutants: the entry of the server goes, whoever made it; and a run that  *)
(* failed disposes what it used, whoever evicted it.                       *)
EvictAny(r) ==
  /\ \A c \in CachedFor(ServerOf(r)) : cached' = Removed(c) /\ disposals' = Disposed(c)
  /\ CachedFor(ServerOf(r)) = {} => UNCHANGED <<cached, disposals>>
  /\ lists' = Ended(r)

EvictAlways(r) ==
  /\ cached' = Removed(lists[r].on)
  /\ disposals' = Disposed(lists[r].on)
  /\ lists' = [lists EXCEPT ![r].at = "evicting"]

Evict(r) ==
  LET c == lists[r].on
  IN IF c \in ToSet(cached)
     THEN /\ cached' = Removed(c)
          /\ disposals' = Disposed(c)
          /\ lists' = [lists EXCEPT ![r].at = "evicting"]
     ELSE /\ lists' = Ended(r)
          /\ UNCHANGED <<cached, disposals>>

ListFails(r) ==
  /\ lists[r].at = "listing"
  /\ blamed' = blamed \union {lists[r].on}
  /\ Evict(r)
  /\ UNCHANGED <<link, armed, applying, walkVars, tools>>

Evicted(r) ==
  /\ lists[r].at = "evicting"
  /\ lists' = Ended(r)
  /\ UNCHANGED <<cacheVars, armed, applying, walkVars, tools, blamed>>

-----------------------------------------------------------------------------
(***************************************************************************)
(* Teardown: the intervals end, and disposeAll walks the cache, in which   *)
(* entries stay until the walk is over.  Entries only leave meanwhile.     *)
(***************************************************************************)
Ahead == {i \in DOMAIN cached : cached[i] \notin visited}
NextClient == cached[Min(Ahead)]

Teardown ==
  /\ AllApplied /\ walk = "no"
  /\ walk' = "between"
  /\ UNCHANGED <<lists, cacheVars, armed, applying, visiting, visited, tools, blamed>>

WalkOn ==
  /\ walk = "between" /\ Ahead # {}
  /\ walk' = "awaiting"
  /\ visiting' = NextClient
  /\ visited' = visited \union {NextClient}
  /\ UNCHANGED <<lists, cacheVars, armed, applying, tools, blamed>>

WalkDisposes ==
  /\ walk = "awaiting" /\ link[visiting] = "open"
  /\ walk' = "disposing"
  /\ disposals' = Disposed(visiting)
  /\ UNCHANGED <<lists, link, cached, armed, applying, visiting, visited, tools, blamed>>

WalkPasses ==
  /\ walk = "disposing" \/ (walk = "awaiting" /\ link[visiting] = "failed")
  /\ walk' = "between"
  /\ UNCHANGED <<lists, cacheVars, armed, applying, visiting, visited, tools, blamed>>

WalkEnds ==
  /\ walk = "between" /\ Ahead = {}
  /\ walk' = "over"
  /\ cached' = <<>>
  /\ UNCHANGED <<lists, link, disposals, armed, applying, visiting, visited, tools, blamed>>

Next ==
  \/ Apply \/ SetupRefresh \/ \E s \in Servers : Refresh(s)
  \/ \E c \in Lists : Connects(c) \/ ConnectFails(c)
  \/ \E r \in DOMAIN lists : Answers(r) \/ ListFails(r) \/ Evicted(r)
  \/ Teardown \/ WalkOn \/ WalkDisposes \/ WalkPasses \/ WalkEnds

Spec == Init /\ [][Next]_vars

-----------------------------------------------------------------------------
(***************************************************************************)
(* The shape of the state.                                                 *)
(***************************************************************************)
Listing == [server : Servers, on : Lists, at : {"connecting", "listing", "evicting", "done"}]

TypeOK ==
  /\ Len(lists) <= MaxLists /\ \A r \in DOMAIN lists : lists[r] \in Listing
  /\ link \in [Lists -> {"none", "pending", "open", "failed"}]
  /\ ToSet(cached) \subseteq Lists /\ IsInjective(cached)
  /\ armed \subseteq Servers /\ applying \in Lists \union {NoRun}
  /\ walk \in {"no", "between", "awaiting", "disposing", "over"}
  /\ visiting \in Lists \union {NoRun} /\ visited \subseteq Lists
  /\ tools \in [Servers -> Lists \union {NoRun}]
  /\ disposals \in [Lists -> 0..2]
  /\ blamed \subseteq Lists

(***************************************************************************)
(* Connections are neither leaked nor taken from their users: what is not  *)
(* disposed is one connection of a server, in the cache as long as there   *)
(* is one; who is disposed failed a run or met the teardown; and only a    *)
(* run that fails when the walk has come to its connection repeats what    *)
(* the walk does.                                                          *)
(***************************************************************************)
Live == {c \in Lists : link[c] \in {"pending", "open"} /\ disposals[c] = 0}

ClientsAreDisposed ==
  /\ Live \subseteq ToSet(cached)
  /\ \A s \in Servers : \A c, d \in CachedFor(s) : c = d
  /\ \A c \in Lists :
       /\ disposals[c] > 0 => c \in blamed \union visited
       /\ disposals[c] > 1 => c \in blamed \intersect visited

=============================================================================

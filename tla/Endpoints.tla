------------------------------- MODULE Endpoints -------------------------------
(***************************************************************************)
(* What lives as long as the context: the clients of MCP servers, both     *)
(* processes and those reached over http, the connections of a mail        *)
(* account with the source that reads it, and the health ledger that hears *)
(* of all routes.                                                          *)
(***************************************************************************)
EXTENDS Integers, Focus

CONSTANTS
  MaxRestarts, RestartDelay, Multiplier, MaxStarts, MaxUptime,        \* MCP process
  Users, Visitors, Boxes, NoBox, Folder, PoolSize, MaxFaults, Uids, MaxReconnects,
  Routes, Breakers, RouteOf, Labels, LabelOf, MaxWork, Nothing,       \* health
  ServerCount, MaxLists, NoRun                                        \* MCP over http

VARIABLES
  uptime, starts, client, transport, running, stopping, restartCount, timers,
  restartTimer, stabilityTimer, stop, streak, upSince, disturbed,
  conns, entries, line, drained, closing, cursor, place, held, faults,
  polls, loop, using, todo, uid, reconnects, sourceAborted, mail, seen, handled,
  started, dead, intakeAborted, work, circuit, phase, record, heard, restarted, outlived,
  lists, link, cached, armed, applying, walk, visiting, visited, tools, disposals, blamed

stdioVars ==
  <<uptime, starts, client, transport, running, stopping, restartCount, timers,
    restartTimer, stabilityTimer, stop, streak, upSince, disturbed>>
mailVars ==
  <<conns, entries, line, drained, closing, cursor, place, held, faults,
    polls, loop, using, todo, uid, reconnects, sourceAborted, mail, seen, handled>>
healthVars ==
  <<started, dead, intakeAborted, work, circuit, phase, record, heard, restarted, outlived>>
httpVars ==
  <<lists, link, cached, armed, applying, walk, visiting, visited, tools, disposals, blamed>>

S == INSTANCE StdioClient WITH MaxTime <- MaxUptime, now <- uptime

M == INSTANCE MailSource
  WITH queue <- line, at <- place, step <- loop, now <- uid, attempt <- reconnects,
       MaxAttempts <- MaxReconnects, aborted <- sourceAborted

H == INSTANCE HealthLedger WITH aborted <- intakeAborted

L == INSTANCE HttpClients

ASSUME EndpointConstants ==
  S!ConstantsOK /\ M!SourceConstantsOK /\ H!ConstantsOK /\ L!ConstantsOK

-----------------------------------------------------------------------------
(***************************************************************************)
(* The properties of the clients of MCP servers, of the mail account, and  *)
(* of the health ledger, as their modules state them.                      *)
(***************************************************************************)
McpClientsAreOrderly ==
  /\ focus = "stdio" => S!CalmStopIsFinal /\ S!FlappingEnds
  /\ focus = "http" => L!ClientsAreDisposed
SlotsAreExact == focus = "mail" => M!ConnectionsAreCounted /\ M!NoConnectionLeaks
SeenWereHandledBeforeStop == focus = "mail" => M!SeenWereHandledBeforeStop
HealthIsTrue == focus = "health" => H!AnnouncedIsReported /\ H!ReportIsTrue

(***************************************************************************)
(* What comments say of the stop() of the manager of an MCP server, and of *)
(* mail that is marked Seen.                                               *)
(***************************************************************************)
StopIsFinal == S!StopIsFinal
SeenWereHandled == M!SeenWereHandled

=============================================================================

---------------------------- MODULE MCDashboard ----------------------------
(***************************************************************************)
(* The two halves of a dashboard, one at a time: with the keywords as the  *)
(* source of the status (and none printed), a page that opens up to two    *)
(* sockets; with the process as the source, a game server that starts and  *)
(* exits under a page without a socket, and keywords among its lines.      *)
(***************************************************************************)
EXTENDS Dashboard

CONSTANTS x, padded, y, empty, ready, bye, note, k1, k2, none

MCText == {x, padded, y, empty}
MCCleaned == [m \in MCText \cup {ready, bye, note} |-> IF m = padded THEN x ELSE m]
MCBlank == {empty}
MCSocket == {k1, k2}

BySource(keyword, process) ==
  [s \in Source |-> IF s = "server-keyword" THEN keyword ELSE process]

MCPrints == BySource(MCText, {x, ready, bye})
MCMaxChanges == BySource(0, 2)
MCMaxSockets == BySource(2, 0)
=============================================================================

---------------------------- MODULE MCNodeProcess ----------------------------
(* Model values for NodeProcess: two connections, so that lines compete for *)
(* the guard, and two processes, so that a server is started anew.          *)
EXTENDS NodeProcess

CONSTANTS c1, c2, p1, p2

MCConn == {c1, c2}
MCConnOne == {c1}
MCProc == {p1, p2}
=============================================================================

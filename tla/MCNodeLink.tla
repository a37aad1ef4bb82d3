---------------------------- MODULE MCNodeLink ----------------------------
(* Model values for NodeLink: two nodes, and the boot task beside two      *)
(* change_node slots, enough for a switch to race another and the boot.     *)
(* MCTaskPair is for the runs in which streams fail at any moment.         *)
EXTENDS NodeLink

CONSTANTS n1, n2, boot, t1, t2

MCNode == {n1, n2}
MCTask == {boot, t1, t2}
MCTaskPair == {boot, t1}
=============================================================================

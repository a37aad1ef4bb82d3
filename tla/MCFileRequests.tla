--------------------------- MODULE MCFileRequests ---------------------------
(* Model values for FileRequests: a handler of each kind, and one that      *)
(* writes.                                                                 *)
EXTENDS FileRequests

CONSTANTS k, s, l, w

MCKeeper == {k}
MCStreamer == {s}
MCLister == {l}
MCWriter == {w}
MCNone == {}
=============================================================================

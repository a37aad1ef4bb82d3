----------------------------- MODULE MCPgStore -----------------------------
(* Instances of PgStore for TLC. *)
EXTENDS PgStore

CONSTANTS a, v, w, h1, s1, x, y

MCName == {a, NoName}
MCValue == {v, NoValue}
MCHandler == {h1}
MCStream == {s1}
MCButton == <<x, y>>
MCLink == {NoLink, w}

\* Users, whose password an edit may leave; nodes, which streams create; and a
\* server without a name.
MCCalls ==
  {o \in RowOp :
     \/ /\ o.table = "users" /\ o.name = a
        /\ o.edited = (IF o.kind = "edit" THEN NoValue ELSE v)
        /\ o.kind = "remove" => o.kept = v
     \/ /\ o.table = "nodes" /\ o.name = a /\ o.kind # "edit"
        /\ o.kept = v /\ o.edited = v
     \/ /\ o.table = "servers" /\ o.name = NoName /\ o.kind = "create"
        /\ o.kept = v /\ o.edited = v}
=============================================================================

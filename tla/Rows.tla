-------------------------------- MODULE Rows --------------------------------
(***************************************************************************)
(* The rows the panel keeps in four tables of its PostgreSQL database, and *)
(* what one statement does to them.                                        *)
(***************************************************************************)
CONSTANTS
  Name,     \* keys of rows
  NoName,   \* the empty one
  Value,    \* what a column holds
  NoValue   \* an empty password

ASSUME RowsAssumption ==
  /\ NoName \in Name
  /\ NoValue \in Value

Table == {"users", "nodes", "servers", "intergrations"}

\* kept: the columns that an edit may leave as they are, a user's password and
\* a server's sandbox and node; edited: the others.
Row == [table : Table, name : Name, kept : Value, edited : Value]
RowOp == [kind : {"create", "edit", "remove"}, table : Table, name : Name,
          kept : Value, edited : Value]

Keyed(d, o) == {r \in d : r.table = o.table /\ r.name = o.name}

\* create_user_in_db refuses an empty password, create_server_in_db an empty name.
Lacking(o) ==
  /\ o.kind = "create"
  /\ \/ o.table = "users" /\ o.kept = NoValue
     \/ o.table = "servers" /\ o.name = NoName

\* A key is created once.  An edit or a removal that finds no row is an error,
\* except for the edit of a user.
Refused(d, o) ==
  \/ o.kind = "create" /\ Keyed(d, o) # {}
  \/ Lacking(o)
  \/ o.kind = "remove" /\ Keyed(d, o) = {}
  \/ o.kind = "edit" /\ o.table # "users" /\ Keyed(d, o) = {}

Leaves(o) == o.table = "servers" \/ (o.table = "users" /\ o.kept = NoValue)

Inserted(o) ==
  [table |-> o.table, name |-> o.name, kept |-> o.kept, edited |-> o.edited]

Effect(d, o) ==
  IF o.kind = "create" THEN d \cup {Inserted(o)}
  ELSE IF o.kind = "remove" THEN d \ Keyed(d, o)
  ELSE (d \ Keyed(d, o)) \cup
         {[r EXCEPT !.kept = IF Leaves(o) THEN @ ELSE o.kept, !.edited = o.edited] :
            r \in Keyed(d, o)}

\* One statement: it changes the rows, or nothing.
Run(d, o) == IF Refused(d, o) THEN d ELSE Effect(d, o)
=============================================================================

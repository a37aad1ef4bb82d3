------------------------------ MODULE Elements ------------------------------
(***************************************************************************)
(* The documents the panel's JSON database stores and what each operation  *)
(* does to one.  Users, nodes, servers, integrations and settings are      *)
(* elements with a name; an operation touches the elements of its name.    *)
(***************************************************************************)
EXTENDS Naturals

CONSTANTS
  Name,      \* names of elements
  Value,     \* what an element holds beside its name
  NoValue,   \* an empty password, server name or address
  Settings,  \* the name that stands for the settings and the buttons
  Default,   \* what Settings holds in JsonBackendContent::default()
  Sort       \* what kind of element each name stands for

\* A "custom" node is one that an operator gave an address, NodeType::Custom.
Sorts == {"user", "server", "custom", "node", "integration", "settings"}

ASSUME ElementsAssumption ==
  /\ Settings \in Name
  /\ Default \in Value
  /\ NoValue \notin Value
  /\ Sort \in [Name -> Sorts]
  /\ \A n \in Name : Sort[n] = "settings" <=> n = Settings

\* The elements that nobody creates without a password, a name or an address.
Needy == {"user", "server", "custom", "settings"}

Element ==
  {e \in [name : Name, value : Value \cup {NoValue}] :
     e.value = NoValue => Sort[e.name] \notin Needy}

\* JsonBackendContent::default(): no users, nodes, servers or integrations.
DefaultDoc == {[name |-> Settings, value |-> Default]}

\* The operations of the database traits that something calls.  Settings are
\* edited, never created or removed; nobody edits a server or a node.
Op == [kind : {"create", "remove"}, name : Name \ {Settings},
       value : Value \cup {NoValue}]
      \cup [kind : {"edit"}, name : {n \in Name : Sort[n] \in {"user", "integration"}},
            value : Value \cup {NoValue}]
      \cup [kind : {"edit"}, name : {Settings}, value : Value]
      \cup [kind : {"read"}, name : {Settings}, value : {NoValue}]

Named(d, n) == {e \in d : e.name = n}

\* Where the result of writing is propagated: set_settings, the buttons.
Checked(o) == o.name = Settings

\* Variants with a bug each: creating does not look for the name, and editing
\* stores an empty password.
RefusedEmpty(d, o) ==
  o.kind = "create" /\ o.value = NoValue /\ Sort[o.name] \in Needy

EffectEmpty(d, o) ==
  IF o.kind = "create" THEN d \cup {[name |-> o.name, value |-> o.value]}
  ELSE IF o.kind = "remove" THEN d \ Named(d, o.name)
  ELSE (d \ Named(d, o.name)) \cup
         {[e EXCEPT !.value = o.value] : e \in Named(d, o.name)}

\* create_*_in_db refuses a name it holds, a user without a password, a server
\* without a name and a custom node without an address.
Refused(d, o) ==
  /\ o.kind = "create"
  /\ \/ o.value = NoValue /\ Sort[o.name] \in Needy
     \/ Named(d, o.name) # {}

\* edit_user_in_db keeps the password when it gets an empty one.
Keeps(o) == o.value = NoValue /\ Sort[o.name] = "user"

\* The document that the operation writes.
Effect(d, o) ==
  IF o.kind = "create" THEN d \cup {[name |-> o.name, value |-> o.value]}
  ELSE IF o.kind = "remove" THEN d \ Named(d, o.name)
  ELSE (d \ Named(d, o.name)) \cup
         {[e EXCEPT !.value = IF Keeps(o) THEN @ ELSE o.value] :
            e \in Named(d, o.name)}
=============================================================================

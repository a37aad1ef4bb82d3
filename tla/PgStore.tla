------------------------------ MODULE PgStore ------------------------------
(***************************************************************************)
(* The panel's PostgreSQL database (pgdatabase.rs).  Every statement is    *)
(* atomic and goes to the server on its own: no operation is a             *)
(* transaction.  A creation looks for its key before it inserts; restoring *)
(* the buttons deletes them and inserts the defaults one by one.           *)
(*                                                                         *)
(* Handlers call under the write guard of AppState, one at a time.  The    *)
(* stream tasks that record a node call without it.  A handler whose       *)
(* client goes away is dropped where it waits, and its guard with it; the  *)
(* statement it sent may still run, as may one whose connection was lost.  *)
(* Equal statements that are still to run count once.                      *)
(***************************************************************************)
EXTENDS Rows, Naturals, Sequences

CONSTANTS
  Handler,   \* tasks that hold the AppState lock while they call
  Stream,    \* tasks that call without it
  Main,      \* the task of main, which calls before anything is served
  Admin, AdminPerms,  \* ADMIN_USER, and what it may do
  Button,    \* the default buttons, in the order they are inserted
  Link,      \* links of buttons
  NoLink,    \* the link of a default button
  NoOp,
  Free,      \* the lock has no holder
  Calls,     \* bound: the operations on rows that are called
  MaxCuts    \* bound: how often a caller goes away or loses its connection

Task == Handler \cup Stream \cup {Main}
Label == {Button[i] : i \in DOMAIN Button}

\* What handlers do to the buttons and the settings, and the statements of it.
ButtonOp ==
  [kind : {"restore", "toggle"}]
  \cup [kind : {"link"}, name : Label, link : Link]
  \cup [kind : {"settings"}, toggled : BOOLEAN]
Clear == [kind |-> "clear"]
AddDefault(n) == [kind |-> "default", name |-> n]
SetFlag(b) == [kind |-> "settings", toggled |-> b]
ButtonStatement ==
  {Clear} \cup {AddDefault(n) : n \in Label}
  \cup [kind : {"link"}, name : Label, link : Link]
  \cup [kind : {"settings"}, toggled : BOOLEAN]

ASSUME PgStoreAssumption ==
  /\ Main \notin Handler \cup Stream
  /\ Handler \cap Stream = {}
  /\ Free \notin Task
  /\ Admin \in Name /\ AdminPerms \in Value
  /\ Button \in Seq(Label) /\ Len(Button) > 0
  /\ \A i, j \in DOMAIN Button : Button[i] = Button[j] => i = j
  /\ NoLink \in Link
  /\ NoOp \notin RowOp \cup ButtonOp
  /\ RowOp \cap (ButtonOp \cup ButtonStatement) = {}
  /\ Calls \subseteq RowOp
  /\ MaxCuts \in Nat

VARIABLES
  rows,     \* the rows of users, nodes, servers and intergrations
  buttons,  \* the rows of buttons
  toggled,  \* settings.toggled_default_buttons
  late,     \* statements sent by callers that are gone, which may still run
  process,  \* the panel: down, booting or serving
  lock,     \* who holds the AppState lock
  pc,       \* where each task stands
  op,       \* the operation it performs
  flag,     \* new_state of toggle_default_buttons
  count,    \* how many default buttons it has inserted
  answer,   \* what the operation returns
  partial,  \* history: work on the buttons was cut off, and not made up for
  cuts

data == <<rows, buttons, toggled>>
vars == <<rows, buttons, toggled, late, process, lock, pc, op, flag, count,
          answer, partial, cuts>>

Stage == {"idle", "select", "look", "set", "clear", "restore", "statement", "return"}
NoAnswer == "none"

DefaultRow(n) == [name |-> n, link |-> NoLink]
Defaults == {DefaultRow(n) : n \in Label}
Missing == {b \in Defaults : \A c \in buttons : c.name # b.name}
HasButton(n) == \E b \in buttons : b.name = n

-----------------------------------------------------------------------------
(* Statements. *)

\* Variant with a bug: the tables have no primary keys.
WorksUnkeyed(s) ==
  /\ s.kind = "default" => ~HasButton(s.name)
  /\ s.kind = "link" => HasButton(s.name)

\* The server runs a statement, or answers that it cannot.
Works(s) ==
  /\ s \in RowOp => ~Refused(rows, s)
  /\ s.kind = "default" => ~HasButton(s.name)
  /\ s.kind = "link" => HasButton(s.name)

\* buttons after a statement; UPDATE makes the type of a button custom.
ButtonsAfter(s) ==
  CASE s.kind = "clear"   -> {}
    [] s.kind = "default" -> buttons \cup {DefaultRow(s.name)}
    [] s.kind = "link"    ->
         {IF b.name = s.name THEN [b EXCEPT !.link = s.link] ELSE b : b \in buttons}
    [] OTHER              -> buttons

Runs(s) ==
  /\ rows' = IF s \in RowOp THEN Effect(rows, s) ELSE rows
  /\ buttons' = IF s \in RowOp THEN buttons ELSE ButtonsAfter(s)
  /\ toggled' = IF s \in RowOp \/ s.kind # "settings" THEN toggled ELSE s.toggled

\* The statement that a task waits for, if it changes anything.
Sends(t) == pc[t] \in {"set", "clear", "restore", "statement"}
Sent(t) ==
  CASE pc[t] = "set"       -> SetFlag(flag[t])
    [] pc[t] = "clear"     -> Clear
    [] pc[t] = "restore"   -> AddDefault(Button[count[t] + 1])
    [] pc[t] = "statement" -> op[t]

\* Cutting t off leaves the buttons incomplete, or a statement about them.
Touches(t) ==
  \/ pc[t] \in {"clear", "restore"}
  \/ pc[t] = "statement" /\ op[t] \notin RowOp /\ op[t].kind = "link"

\* The operation of ensure_admin_user, if ENABLE_ADMIN_USER says so.
EnsuresAdmin ==
  \/ /\ pc' = [pc EXCEPT ![Main] = "select"]
     /\ \E v \in Value :
          op' = [op EXCEPT ![Main] = [kind |-> "create", table |-> "users", name |-> Admin,
                                      kept |-> v, edited |-> AdminPerms]]
  \/ UNCHANGED <<pc, op>>

\* The tables are made, with the default buttons and no other row.  The rest
\* of the first start is that of every start: Boot.
Init ==
  /\ rows = {} /\ buttons = Defaults /\ toggled = FALSE /\ late = {}
  /\ process = "down"
  /\ lock = Free
  /\ pc = [t \in Task |-> "idle"]
  /\ op = [t \in Task |-> NoOp]
  /\ flag = [t \in Task |-> FALSE]
  /\ count = [t \in Task |-> 0]
  /\ answer = [t \in Task |-> NoAnswer]
  /\ partial = FALSE
  /\ cuts = 0

-----------------------------------------------------------------------------
(* The process. *)

\* ensure_database_conn is one round trip that runs whole or not at all, and
\* main goes on when it fails.  What the dead process sent has run by then.
Boot ==
  /\ process = "down" /\ late = {}
  /\ process' = "booting"
  /\ \/ buttons' = buttons \cup Missing /\ partial' = FALSE
     \/ UNCHANGED <<buttons, partial>>
  /\ EnsuresAdmin
  /\ UNCHANGED <<rows, toggled, late, lock, flag, count, answer, cuts>>

Serve ==
  /\ process = "booting" /\ pc[Main] = "idle"
  /\ process' = "serving"
  /\ UNCHANGED <<data, late, lock, pc, op, flag, count, answer, partial, cuts>>

\* The tasks in gone end where they are, with what they sent still to run.
Gone(gone) ==
  /\ cuts < MaxCuts
  /\ cuts' = cuts + 1
  /\ \E left \in SUBSET {Sent(t) : t \in {u \in gone : Sends(u)}} :
       late' = late \cup left
  /\ partial' = (partial \/ \E t \in gone : Touches(t))
  /\ pc' = [t \in Task |-> IF t \in gone THEN "idle" ELSE pc[t]]
  /\ op' = [t \in Task |-> IF t \in gone THEN NoOp ELSE op[t]]
  /\ flag' = [t \in Task |-> IF t \in gone THEN FALSE ELSE flag[t]]
  /\ count' = [t \in Task |-> IF t \in gone THEN 0 ELSE count[t]]
  /\ answer' = [t \in Task |-> IF t \in gone THEN NoAnswer ELSE answer[t]]
  /\ lock' = IF lock \in gone THEN Free ELSE lock
  /\ UNCHANGED data

Crash ==
  /\ process # "down"
  /\ process' = "down"
  /\ Gone(Task)

\* The client of a handler closes its connection: the handler is dropped.
HangUp(t) ==
  /\ pc[t] # "idle"
  /\ Gone({t})
  /\ UNCHANGED process

\* The server gets to a statement whose caller is gone.
RunLate(s) ==
  /\ late' = late \ {s}
  /\ IF Works(s) THEN Runs(s) ELSE UNCHANGED data
  /\ UNCHANGED <<process, lock, pc, op, flag, count, answer, partial, cuts>>

-----------------------------------------------------------------------------
(* The calls. *)

\* Where an operation begins: a creation selects its key first.
Start(o) ==
  IF o \in RowOp THEN IF o.kind = "create" THEN "select" ELSE "statement"
  ELSE CASE o.kind = "restore" -> "clear"
         [] o.kind = "toggle"  -> "look"
         [] OTHER              -> "statement"

Begins(t, o) ==
  /\ op' = [op EXCEPT ![t] = o]
  /\ pc' = [pc EXCEPT ![t] = Start(o)]
  /\ UNCHANGED <<data, late, process, flag, count, answer, partial, cuts>>

HandlerCalls(t, o) ==
  /\ process = "serving" /\ pc[t] = "idle" /\ lock = Free
  /\ lock' = t
  /\ Begins(t, o)

\* handle_all_stream_values creates the node that fetch_all_nodes did not show.
StreamCalls(t, o) ==
  /\ process = "serving" /\ pc[t] = "idle"
  /\ o.kind = "create" /\ o.table = "nodes"
  /\ Inserted(o) \notin rows
  /\ Begins(t, o)
  /\ UNCHANGED lock

Answers(t, a) ==
  /\ pc' = [pc EXCEPT ![t] = "return"]
  /\ answer' = [answer EXCEPT ![t] = a]

Goes(t, stage) ==
  /\ pc' = [pc EXCEPT ![t] = stage]
  /\ UNCHANGED answer

(* Variants with a bug each, substituted for the action they vary. *)

\* rows_affected() is not looked at.
StatementUncounted(t) ==
  /\ pc[t] = "statement"
  /\ IF Works(op[t]) THEN Runs(op[t]) ELSE UNCHANGED data
  /\ Answers(t, "created")
  /\ UNCHANGED <<late, process, lock, op, flag, count, partial, cuts>>

\* The toggle resets when the default buttons are switched off.
SetSwapped(t) ==
  /\ pc[t] = "set"
  /\ toggled' = flag[t]
  /\ IF flag[t] THEN Answers(t, "created") ELSE Goes(t, "clear")
  /\ UNCHANGED <<rows, buttons, late, process, lock, op, flag, count, partial, cuts>>

\* The last default button is left out.
RestoreShort(t) ==
  /\ pc[t] = "restore"
  /\ buttons' = buttons \cup {DefaultRow(Button[count[t] + 1])}
  /\ count' = [count EXCEPT ![t] = @ + 1]
  /\ IF count[t] + 2 >= Len(Button) THEN Answers(t, "created") ELSE Goes(t, "restore")
  /\ UNCHANGED <<rows, toggled, late, process, lock, op, flag, partial, cuts>>

-----------------------------------------------------------------------------
\* SELECT ... WHERE the key is that of the new row.
Select(t) ==
  /\ pc[t] = "select"
  /\ IF Keyed(rows, op[t]) # {} \/ Lacking(op[t]) THEN Answers(t, "error")
     ELSE Goes(t, "statement")
  /\ UNCHANGED <<data, late, process, lock, op, flag, count, partial, cuts>>

\* INSERT, UPDATE or DELETE: a key that is there, or rows_affected() = 0, is
\* the error that Works foresees.
Statement(t) ==
  /\ pc[t] = "statement"
  /\ IF Works(op[t]) THEN Runs(op[t]) /\ Answers(t, "created")
     ELSE Answers(t, "error") /\ UNCHANGED data
  /\ UNCHANGED <<late, process, lock, op, flag, count, partial, cuts>>

\* toggle_default_buttons reads the flag, writes its opposite, and resets.
Look(t) ==
  /\ pc[t] = "look"
  /\ flag' = [flag EXCEPT ![t] = ~toggled]
  /\ Goes(t, "set")
  /\ UNCHANGED <<data, late, process, lock, op, count, partial, cuts>>

Set(t) ==
  /\ pc[t] = "set"
  /\ toggled' = flag[t]
  /\ IF flag[t] THEN Goes(t, "clear") ELSE Answers(t, "created")
  /\ UNCHANGED <<rows, buttons, late, process, lock, op, flag, count, partial, cuts>>

\* A reset that no late statement can disturb makes up for one cut off.
ClearButtons(t) ==
  /\ pc[t] = "clear"
  /\ buttons' = {}
  /\ partial' = (partial /\ late \cap ButtonStatement # {})
  /\ Goes(t, "restore")
  /\ UNCHANGED <<rows, toggled, late, process, lock, op, flag, count, cuts>>

Restore(t) ==
  /\ pc[t] = "restore"
  /\ LET n == Button[count[t] + 1] IN
     IF HasButton(n) THEN Answers(t, "error") /\ UNCHANGED <<buttons, count>>
     ELSE /\ buttons' = buttons \cup {DefaultRow(n)}
          /\ count' = [count EXCEPT ![t] = @ + 1]
          /\ IF count[t] + 1 = Len(Button) THEN Answers(t, "created")
             ELSE Goes(t, "restore")
  /\ UNCHANGED <<rows, toggled, late, process, lock, op, flag, partial, cuts>>

\* The connection is lost, before the server has the statement or after.
Fail(t) ==
  /\ pc[t] \notin {"idle", "return"} /\ cuts < MaxCuts
  /\ cuts' = cuts + 1
  /\ Answers(t, "error")
  /\ late' \in {late} \cup (IF Sends(t) THEN {late \cup {Sent(t)}} ELSE {})
  /\ partial' = (partial \/ Touches(t))
  /\ UNCHANGED <<data, process, lock, op, flag, count>>

Return(t) ==
  /\ pc[t] = "return"
  /\ pc' = [pc EXCEPT ![t] = "idle"]
  /\ op' = [op EXCEPT ![t] = NoOp]
  /\ flag' = [flag EXCEPT ![t] = FALSE]
  /\ count' = [count EXCEPT ![t] = 0]
  /\ answer' = [answer EXCEPT ![t] = NoAnswer]
  /\ lock' = IF lock = t THEN Free ELSE lock
  /\ UNCHANGED <<data, late, process, partial, cuts>>

Proceed(t) ==
  \/ Select(t) \/ Statement(t) \/ Look(t) \/ Set(t)
  \/ ClearButtons(t) \/ Restore(t) \/ Fail(t) \/ Return(t)

Next ==
  \/ Boot \/ Serve \/ Crash
  \/ \E t \in Handler : HangUp(t)
  \/ \E s \in late : RunLate(s)
  \/ \E t \in Handler, o \in Calls \cup ButtonOp : HandlerCalls(t, o)
  \/ \E t \in Stream, o \in Calls : StreamCalls(t, o)
  \/ \E t \in Task : Proceed(t)

Spec == Init /\ [][Next]_vars

-----------------------------------------------------------------------------
(* Properties. *)

TypeOK ==
  /\ rows \in SUBSET Row
  /\ \A r, q \in rows : r.table = q.table /\ r.name = q.name => r = q
  /\ buttons \in SUBSET [name : Label, link : Link]
  /\ \A b, c \in buttons : b.name = c.name => b = c
  /\ toggled \in BOOLEAN
  /\ late \in SUBSET (RowOp \cup ButtonStatement)
  /\ process \in {"down", "booting", "serving"}
  /\ lock \in Handler \cup {Free}
  /\ pc \in [Task -> Stage]
  /\ op \in [Task -> RowOp \cup ButtonOp \cup {NoOp}]
  /\ flag \in [Task -> BOOLEAN]
  /\ count \in [Task -> 0..Len(Button)]
  /\ answer \in [Task -> {NoAnswer, "created", "error"}]
  /\ partial \in BOOLEAN
  /\ cuts \in 0..MaxCuts

\* Unless work on them was cut off, and until a restart or a whole reset makes
\* up for it, every default button is there while nobody is resetting them.
ButtonsWhole ==
  ~partial /\ (\A t \in Task : pc[t] # "restore") => \A n \in Label : HasButton(n)

\* A reset, or a toggle to the default buttons, that answers "created" has left
\* the default buttons and no custom link.
ResetAnswered ==
  \A t \in Handler :
    /\ answer[t] = "created" /\ op[t] \notin RowOp /\ ~partial
    /\ op[t].kind = "restore" \/ (op[t].kind = "toggle" /\ flag[t])
    => buttons = Defaults

\* The operations on rows, as Tables sees them.
RowCalls == [t \in Task |-> IF op[t] \in RowOp THEN op[t] ELSE NoOp]
RowAnswers == [t \in Task |-> IF op[t] \in RowOp THEN answer[t] ELSE NoAnswer]
RowOrphans == late \cap RowOp

tables == INSTANCE Tables WITH
  orphans <- RowOrphans, op <- RowCalls, answer <- RowAnswers

\* With callers that take no lock, are dropped or lose their connection, the
\* operations on rows are those of four tables, each atomic.
ImplementsTables == tables!Spec
=============================================================================

------------------------------- MODULE Tables -------------------------------
(***************************************************************************)
(* What the panel's PostgreSQL database promises its callers: operations   *)
(* on the rows of four tables, each taking effect at one moment between    *)
(* its call and its answer.  An operation whose caller is gone, or was     *)
(* told of an error, may still take effect, later and once.                *)
(***************************************************************************)
EXTENDS Rows

CONSTANTS
  Task,     \* tasks that call the database
  NoOp      \* a task that calls nothing

VARIABLES
  rows,     \* the rows of the four tables
  orphans,  \* operations given up that may still take effect
  op,       \* the operation each task calls
  answer    \* what it answers, once it has

vars == <<rows, orphans, op, answer>>

NoAnswer == "none"

Init ==
  /\ rows = {}
  /\ orphans = {}
  /\ op = [t \in Task |-> NoOp]
  /\ answer = [t \in Task |-> NoAnswer]

Call(t, o) ==
  /\ op[t] = NoOp
  /\ op' = [op EXCEPT ![t] = o]
  /\ UNCHANGED <<rows, orphans, answer>>

Pending(t) == op[t] # NoOp /\ answer[t] = NoAnswer

Refuse(t) ==
  /\ Pending(t) /\ Refused(rows, op[t])
  /\ answer' = [answer EXCEPT ![t] = "error"]
  /\ UNCHANGED <<rows, orphans, op>>

Change(t) ==
  /\ Pending(t) /\ ~Refused(rows, op[t])
  /\ rows' = Effect(rows, op[t])
  /\ answer' = [answer EXCEPT ![t] = "created"]
  /\ UNCHANGED <<orphans, op>>

\* The answer is lost, and perhaps not the operation.
Fail(t) ==
  /\ Pending(t)
  /\ answer' = [answer EXCEPT ![t] = "error"]
  /\ orphans' \in {orphans, orphans \cup {op[t]}}
  /\ UNCHANGED <<rows, op>>

Return(t) ==
  /\ answer[t] # NoAnswer
  /\ op' = [op EXCEPT ![t] = NoOp]
  /\ answer' = [answer EXCEPT ![t] = NoAnswer]
  /\ UNCHANGED <<rows, orphans>>

\* Callers go away; what they called may still take effect.
Abandon(gone) ==
  /\ op' = [t \in Task |-> IF t \in gone THEN NoOp ELSE op[t]]
  /\ answer' = [t \in Task |-> IF t \in gone THEN NoAnswer ELSE answer[t]]
  /\ \E left \in SUBSET {op[t] : t \in {u \in gone : Pending(u)}} :
       orphans' = orphans \cup left
  /\ UNCHANGED rows

RunOrphan(o) ==
  /\ orphans' = orphans \ {o}
  /\ rows' = Run(rows, o)
  /\ UNCHANGED <<op, answer>>

Next ==
  \/ \E t \in Task :
       \/ \E o \in RowOp : Call(t, o)
       \/ Refuse(t) \/ Change(t) \/ Fail(t) \/ Return(t)
  \/ \E gone \in SUBSET Task : Abandon(gone)
  \/ \E o \in orphans : RunOrphan(o)

Spec == Init /\ [][Next]_vars
=============================================================================

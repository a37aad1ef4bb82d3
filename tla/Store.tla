------------------------------- MODULE Store -------------------------------
(***************************************************************************)
(* What the JSON database promises its callers: every operation takes      *)
(* effect at one moment between its call and its answer.  A crash drops    *)
(* the operations under way, and may drop the document: then all of it, to *)
(* the default or to a file that no start will ever parse again.           *)
(***************************************************************************)
EXTENDS Elements

CONSTANTS
  Task,    \* tasks that call the database
  NoOp     \* a task that calls nothing

VARIABLES
  doc,     \* the elements stored
  broken,  \* the file does not parse
  op,      \* the operation each task calls
  answer   \* what it answers, once it took effect

vars == <<doc, broken, op, answer>>

Answer(is, d) == [is |-> is, docs |-> d]
NoAnswer == Answer("none", {})
Answers == [is : {"none", "created", "error", "read"}, docs : SUBSET Element]

Init ==
  /\ doc = DefaultDoc
  /\ broken = FALSE
  /\ op = [t \in Task |-> NoOp]
  /\ answer = [t \in Task |-> NoAnswer]

Call(t, o) ==
  /\ ~broken
  /\ op[t] = NoOp
  /\ op' = [op EXCEPT ![t] = o]
  /\ UNCHANGED <<doc, broken, answer>>

Read(t) ==
  /\ op[t] # NoOp /\ answer[t] = NoAnswer
  /\ op[t].kind = "read"
  /\ answer' = [answer EXCEPT ![t] = Answer("read", doc)]
  /\ UNCHANGED <<doc, broken, op>>

Refuse(t) ==
  /\ op[t] # NoOp /\ answer[t] = NoAnswer
  /\ Refused(doc, op[t])
  /\ answer' = [answer EXCEPT ![t] = Answer("error", {})]
  /\ UNCHANGED <<doc, broken, op>>

Change(t) ==
  /\ op[t] # NoOp /\ answer[t] = NoAnswer
  /\ op[t].kind # "read" /\ ~Refused(doc, op[t])
  /\ doc' = Effect(doc, op[t])
  /\ answer' = [answer EXCEPT ![t] = Answer("created", {})]
  /\ UNCHANGED <<broken, op>>

Return(t) ==
  /\ answer[t] # NoAnswer
  /\ op' = [op EXCEPT ![t] = NoOp]
  /\ answer' = [answer EXCEPT ![t] = NoAnswer]
  /\ UNCHANGED <<doc, broken>>

Crash ==
  /\ op' = [t \in Task |-> NoOp]
  /\ answer' = [t \in Task |-> NoAnswer]
  /\ \/ UNCHANGED <<doc, broken>>
     \/ doc' = DefaultDoc /\ broken' \in BOOLEAN

Next ==
  \/ \E t \in Task :
       \/ \E o \in Op : Call(t, o)
       \/ Read(t) \/ Refuse(t) \/ Change(t) \/ Return(t)
  \/ Crash

Spec == Init /\ [][Next]_vars
=============================================================================

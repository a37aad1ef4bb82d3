---------------------------- MODULE FileRequests ----------------------------
(***************************************************************************)
(* How the panel's handlers read files of a node.  A handler subscribes to *)
(* the broadcast channel, sends numbered requests on it and waits for an   *)
(* answer with its number; the link's task publishes what the node answers *)
(* on the same channel, under a read guard of the AppState lock.           *)
(*                                                                         *)
(* The lock is tokio's fair RwLock: tasks queue, and a reader does not     *)
(* pass a writer that came before it.  get_files_content holds a guard     *)
(* while it takes a second one and while it waits for its answers;         *)
(* stream_file_download and get_files drop theirs before they ask.         *)
(***************************************************************************)
EXTENDS Naturals, Sequences

CONSTANTS
  Keeper,    \* tasks that run get_files_content
  Streamer,  \* tasks that run stream_file_download
  Lister,    \* tasks that run get_files
  Writer,    \* handlers that take the lock for writing
  Link,      \* the link's task
  None,
  Requests,  \* bound: requests of one call
  Looped,    \* the first request of get_files' loop over the entries
  MaxCalls   \* bound: calls of one handler

Handler == Keeper \cup Streamer \cup Lister
Task == Handler \cup Writer \cup {Link}

ASSUME FileRequestsAssumption ==
  /\ Requests \in Nat \ {0} /\ Looped \in Nat /\ MaxCalls \in Nat
  /\ None \notin Task
  /\ Link \notin Handler \cup Writer
  /\ Handler \cap Writer = {}
  /\ Lister \cap (Keeper \cup Streamer) = {} /\ Keeper \cap Streamer = {}

VARIABLES
  queue,    \* tasks that wait for the lock, in order
  guards,   \* read guards of each task
  writer,   \* the task with the write guard
  pc,       \* where each task stands
  number,   \* TcpFs.request_id: the number of its next request
  heard,    \* what was published since it subscribed
  at,       \* how much of that its receiver has read
  pending,  \* requests the node has and will answer
  line,     \* the answer the link handles
  calls     \* calls each handler has begun

lockVars == <<queue, guards, writer>>
callVars == <<number, heard, at, calls>>
nodeVars == <<pending, line>>
vars == <<lockVars, pc, callVars, nodeVars>>

\* An answer names the handler and the call it is for; the code's has only n.
Answer == [by : Handler, call : 1..MaxCalls, n : 0..(Requests - 1)]

\* Where a task waits for the lock, with which mode, and where it is then.
Waits == {"enter", "again", "want", "hold"}
ModeOf(s) == IF s = "want" THEN "write" ELSE "read"
Granted(s) ==
  CASE s = "enter" -> "check" [] s = "again" -> "subscribe"
    [] s = "want" -> "write" [] s = "hold" -> "publish"

Stage == Waits \cup {"idle", "check", "subscribe", "send", "await", "return",
                     "write", "publish"}

\* get_files subscribes under its first guard, the others under the second.
Subscribed(t) ==
  \/ pc[t] \in {"send", "await"}
  \/ t \in Lister /\ pc[t] \in {"again", "subscribe"}

\* t joins the queue for the lock.
Queues(t, s) ==
  /\ queue' = Append(queue, t)
  /\ pc' = [pc EXCEPT ![t] = s]

Drops(t) == guards' = [guards EXCEPT ![t] = @ - 1]

Init ==
  /\ queue = <<>> /\ writer = None
  /\ guards = [t \in Task |-> 0]
  /\ pc = [t \in Task |-> "idle"]
  /\ number = [t \in Handler |-> 0]
  /\ heard = [t \in Handler |-> <<>>]
  /\ at = [t \in Handler |-> 0]
  /\ calls = [t \in Handler |-> 0]
  /\ pending = {} /\ line = None

-----------------------------------------------------------------------------
(* Variants with a bug each, substituted for the action they vary. *)

\* Every handler keeps its first guard.
CheckKeeps(t) ==
  /\ pc[t] = "check"
  /\ UNCHANGED guards
  /\ Queues(t, "again")
  /\ heard' = [heard EXCEPT ![t] = <<>>]
  /\ UNCHANGED <<writer, number, at, calls, nodeVars>>

\* Each answer goes to one of the receivers, as on an mpsc channel.
PublishToOne ==
  /\ pc[Link] = "publish"
  /\ \E t \in Handler :
       heard' = [heard EXCEPT ![t] = IF Subscribed(t) THEN Append(@, line) ELSE @]
  /\ Drops(Link)
  /\ pc' = [pc EXCEPT ![Link] = "idle"]
  /\ UNCHANGED <<queue, writer, number, at, calls, nodeVars>>

-----------------------------------------------------------------------------
(* The lock. *)

\* Whoever is first in the queue gets its guard when it can have it.
Grant ==
  /\ queue # <<>> /\ writer = None
  /\ LET t == Head(queue) IN
       /\ IF ModeOf(pc[t]) = "read"
          THEN guards' = [guards EXCEPT ![t] = @ + 1] /\ UNCHANGED writer
          ELSE /\ \A u \in Task : guards[u] = 0
               /\ writer' = t /\ UNCHANGED guards
       /\ pc' = [pc EXCEPT ![t] = Granted(pc[t])]
  /\ queue' = Tail(queue)
  /\ UNCHANGED <<callVars, nodeVars>>

\* A handler that changes AppState or the database, or opens a socket.
WriterAsks(w) ==
  /\ pc[w] = "idle"
  /\ Queues(w, "want")
  /\ UNCHANGED <<guards, writer, callVars, nodeVars>>

WriterLeaves(w) ==
  /\ pc[w] = "write"
  /\ writer' = None
  /\ pc' = [pc EXCEPT ![w] = "idle"]
  /\ UNCHANGED <<queue, guards, callVars, nodeVars>>

-----------------------------------------------------------------------------
(* A handler that reads files. *)

Begin(t) ==
  /\ pc[t] = "idle" /\ calls[t] < MaxCalls
  /\ Queues(t, "enter")
  /\ calls' = [calls EXCEPT ![t] = @ + 1]
  /\ UNCHANGED <<guards, writer, number, heard, at, nodeVars>>

\* authorize, and a second read guard.
Check(t) ==
  /\ pc[t] = "check"
  /\ IF t \in Keeper THEN UNCHANGED guards ELSE Drops(t)
  /\ Queues(t, "again")
  /\ heard' = [heard EXCEPT ![t] = <<>>]
  /\ UNCHANGED <<writer, number, at, calls, nodeVars>>

\* Who has no permission is sent away.
Refuse(t) ==
  /\ pc[t] = "check" /\ t \notin Lister
  /\ pc' = [pc EXCEPT ![t] = "return"]
  /\ UNCHANGED <<lockVars, callVars, nodeVars>>

\* TcpFs::new: the requests of a call are numbered from zero.
Subscribe(t) ==
  /\ pc[t] = "subscribe"
  /\ Drops(t)
  /\ pc' = [pc EXCEPT ![t] = "send"]
  /\ number' = [number EXCEPT ![t] = 0]
  /\ UNCHANGED <<queue, writer, heard, at, calls, nodeVars>>

\* send_request.  A call uses several receivers, clones of one TcpFs: the
\* one that waits for this answer subscribed at some moment of the call.
Send(t) ==
  /\ pc[t] = "send"
  /\ pc' = [pc EXCEPT ![t] = "await"]
  /\ pending' = pending \cup {[by |-> t, call |-> calls[t], n |-> number[t]]}
  /\ \E i \in {0, at[t], Len(heard[t])} : at' = [at EXCEPT ![t] = i]
  /\ UNCHANGED <<lockVars, number, heard, calls, line>>

\* The call goes on to its next request, or to its end.
GoesOn(t) ==
  /\ pc' = [pc EXCEPT ![t] = IF number[t] = Requests - 1 THEN "return" ELSE "send"]
  /\ number' = [number EXCEPT ![t] = @ + 1]

\* recv_response returns the first answer with the number it waits for.
Takes(t, m) == m.n = number[t] /\ GoesOn(t)

Skips(t, m) ==
  /\ m.n # number[t]
  /\ UNCHANGED <<pc, number>>

\* A variant: what follows an answer to another request is passed over.
HearSkipsTwo(t) ==
  /\ pc[t] = "await" /\ at[t] < Len(heard[t])
  /\ LET m == heard[t][at[t] + 1] IN
       \/ Takes(t, m) /\ at' = [at EXCEPT ![t] = @ + 1]
       \/ Skips(t, m) /\ at' = [at EXCEPT ![t] = @ + 2]
  /\ UNCHANGED <<lockVars, heard, calls, nodeVars>>

Hear(t) ==
  /\ pc[t] = "await" /\ at[t] < Len(heard[t])
  /\ at' = [at EXCEPT ![t] = @ + 1]
  /\ LET m == heard[t][at[t] + 1] IN Takes(t, m) \/ Skips(t, m)
  /\ UNCHANGED <<lockVars, heard, calls, nodeVars>>

\* The ten seconds of recv_response are looked at when some message has come,
\* and tcp_tx carries more than answers: lines of the console, requests of
\* others.  The time limits of get_files need no message; its loop over the
\* entries has none, and leaves out an entry whose request fails.
GivesUp(t) ==
  /\ pc[t] = "await"
  /\ IF t \in Lister /\ number[t] >= Looped THEN GoesOn(t)
     ELSE pc' = [pc EXCEPT ![t] = "return"] /\ UNCHANGED number
  /\ UNCHANGED <<lockVars, heard, at, calls, nodeVars>>

\* The handler ends, and its guard with it.
Return(t) ==
  /\ pc[t] = "return"
  /\ pc' = [pc EXCEPT ![t] = "idle"]
  /\ guards' = [guards EXCEPT ![t] = 0]
  /\ number' = [number EXCEPT ![t] = 0]
  /\ heard' = [heard EXCEPT ![t] = <<>>]
  /\ at' = [at EXCEPT ![t] = 0]
  /\ UNCHANGED <<queue, writer, calls, nodeVars>>

-----------------------------------------------------------------------------
(* The link.  The node answers each request in a task of its own: in any   *)
(* order.                                                                  *)

LinkReads ==
  /\ pc[Link] = "idle"
  /\ \E m \in pending : line' = m /\ pending' = pending \ {m}
  /\ Queues(Link, "hold")
  /\ UNCHANGED <<guards, writer, callVars>>

\* process_stream_data sends the line on tcp_tx with the guard in hand.
Publish ==
  /\ pc[Link] = "publish"
  /\ heard' = [t \in Handler |-> IF Subscribed(t) THEN Append(heard[t], line)
                                 ELSE heard[t]]
  /\ Drops(Link)
  /\ pc' = [pc EXCEPT ![Link] = "idle"]
  /\ UNCHANGED <<queue, writer, number, at, calls, nodeVars>>

Proceeds(t) == Check(t) \/ Refuse(t) \/ Subscribe(t) \/ Send(t) \/ Hear(t) \/ Return(t)

Next ==
  \/ Grant
  \/ \E w \in Writer : WriterAsks(w) \/ WriterLeaves(w)
  \/ \E t \in Handler :
       \/ Begin(t) \/ Proceeds(t) \/ GivesUp(t)
  \/ LinkReads \/ Publish

\* The runtime polls every ready task, and a link that is up reads what the
\* node sends.  Nobody need ask for anything, and no time limit need pass.
Fairness ==
  /\ WF_vars(Grant) /\ WF_vars(LinkReads) /\ WF_vars(Publish)
  /\ \A w \in Writer : WF_vars(WriterLeaves(w))
  /\ \A t \in Handler : WF_vars(Proceeds(t))

Spec == Init /\ [][Next]_vars
FairSpec == Spec /\ Fairness

-----------------------------------------------------------------------------
(* Properties. *)

TypeOK ==
  /\ queue \in Seq(Task)
  /\ guards \in [Task -> 0..2]
  /\ writer \in Writer \cup {None}
  /\ pc \in [Task -> Stage]
  /\ number \in [Handler -> 0..Requests]
  /\ heard \in [Handler -> Seq(Answer)]
  /\ at \in [Handler -> Nat]
  /\ \A t \in Handler : at[t] <= Len(heard[t])
  /\ pending \in SUBSET Answer
  /\ line \in Answer \cup {None}
  /\ calls \in [Handler -> 0..MaxCalls]

\* The answer to the request a handler waits for is never lost: the node will
\* send it, the link has it in hand, or it is ahead of the handler's receiver.
AnswerComes ==
  \A t \in Handler : pc[t] = "await" =>
    LET own == [by |-> t, call |-> calls[t], n |-> number[t]] IN
      \/ own \in pending
      \/ line = own /\ pc[Link] \in {"hold", "publish"}
      \/ \E i \in 1..Len(heard[t]) : i > at[t] /\ heard[t][i] = own

\* No handler that drops its guard waits for the node with one in hand, and
\* so none keeps the link from publishing the answer.
WaitsFree ==
  \A t \in Handler \ Keeper : pc[t] \in {"again", "send", "await"} => guards[t] = 0

\* A handler that waits for an answer comes to an end.
Returns == \A t \in Handler : pc[t] = "await" ~> pc[t] = "idle"

\* A handler that wants to write gets to: readers do not keep it out.
WriterServed == \A w \in Writer : pc[w] = "want" ~> pc[w] = "write"
=============================================================================

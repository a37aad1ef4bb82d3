------------------------- MODULE FileRequestsProofs -------------------------
(***************************************************************************)
(* That the lock of FileRequests is handed out as its callers expect, that *)
(* no handler but get_files_content keeps it while it waits for the node,  *)
(* and that no answer is lost: for any number of handlers, requests and    *)
(* calls.                                                                  *)
(***************************************************************************)
EXTENDS FileRequests, TLAPS

USE FileRequestsAssumption

Busy == {"check", "again", "subscribe", "send", "await", "return"}

\* Each kind of task goes through stages of its own.
Kinds ==
  /\ \A t \in Handler : pc[t] \in {"idle", "enter"} \cup Busy
  /\ \A w \in Writer : pc[w] \in {"idle", "want", "write"}
  /\ pc[Link] \in {"idle", "hold", "publish"}

\* A task is in the queue once, and waits there.
Queued ==
  /\ \A i \in 1..Len(queue) : pc[queue[i]] \in Waits
  /\ \A i, j \in 1..Len(queue) : queue[i] = queue[j] => i = j

\* The read guards a task has at each stage.
GuardsHeld ==
  \A t \in Task :
    /\ pc[t] \in {"idle", "enter", "want", "write", "hold"} => guards[t] = 0
    /\ pc[t] \in {"again", "send", "await"} =>
         guards[t] = IF t \in Keeper THEN 1 ELSE 0
    /\ pc[t] \in {"check", "publish"} => guards[t] = 1
    /\ pc[t] = "subscribe" => guards[t] = IF t \in Keeper THEN 2 ELSE 1
    /\ pc[t] = "return" => guards[t] \in {0, 1}

\* A request is one of the call's, and its call was begun.
Numbered ==
  \A t \in Handler :
    /\ pc[t] \in {"enter"} \cup Busy => calls[t] > 0
    /\ pc[t] \in {"send", "await"} => number[t] < Requests

\* A handler has read nothing before it waits for an answer.
Unread == \A t \in Handler : pc[t] \notin {"send", "await", "return"} => at[t] = 0

\* A link that publishes has an answer to publish.
LineRead == pc[Link] \in {"hold", "publish"} => line \in Answer

Inv == TypeOK /\ Kinds /\ Queued /\ GuardsHeld /\ Numbered /\ Unread /\ LineRead

-----------------------------------------------------------------------------
\* Init establishes the invariant.
LEMMA InitInv == Init => Inv /\ AnswerComes
<1> SUFFICES ASSUME Init PROVE Inv /\ AnswerComes
  OBVIOUS
<1> USE DEF Init, Handler, Task
<1>1. TypeOK
  BY DEF TypeOK, Stage, Waits
<1>2. Kinds /\ Numbered /\ Unread /\ LineRead /\ AnswerComes
  BY DEF Kinds, Numbered, Unread, LineRead, AnswerComes, Busy
<1>3. Queued
  BY DEF Queued
<1>4. GuardsHeld
  BY DEF GuardsHeld
<1> QED
  BY <1>1, <1>2, <1>3, <1>4 DEF Inv

\* A task that is not in the queue joins it.
LEMMA Joins ==
  ASSUME Inv, NEW t \in Task, NEW s \in Waits, pc[t] \notin Waits, Queues(t, s)
  PROVE  queue' \in Seq(Task) /\ pc' \in [Task -> Stage] /\ Queued'
<1> USE DEF Inv, TypeOK, Queues
<1>1. queue' \in Seq(Task) /\ pc' \in [Task -> Stage]
  BY DEF Stage
<1>2. /\ Len(queue') = Len(queue) + 1
      /\ \A i \in 1..Len(queue) : queue'[i] = queue[i]
      /\ queue'[Len(queue) + 1] = t
  OBVIOUS
<1>3. ASSUME NEW i \in 1..Len(queue) PROVE queue[i] \in Task /\ queue[i] # t
  BY DEF Queued
<1>4. pc'[t] = s /\ \A u \in Task \ {t} : pc'[u] = pc[u]
  BY DEF Waits
<1>5. \A i \in 1..Len(queue') : pc'[queue'[i]] \in Waits
  BY <1>2, <1>3, <1>4 DEF Queued
<1>6. \A i, j \in 1..Len(queue') : queue'[i] = queue'[j] => i = j
  BY <1>2, <1>3 DEF Queued
<1> QED
  BY <1>1, <1>5, <1>6 DEF Queued

\* A task that neither is in the queue nor joins it leaves the queue as it is.
LEMMA Moves ==
  ASSUME Inv, NEW t \in Task, NEW s \in Stage, pc[t] \notin Waits,
         pc' = [pc EXCEPT ![t] = s], UNCHANGED queue
  PROVE  queue' \in Seq(Task) /\ pc' \in [Task -> Stage] /\ Queued'
<1> USE DEF Inv, TypeOK
<1>1. ASSUME NEW i \in 1..Len(queue)
      PROVE  queue[i] \in Task /\ queue[i] # t /\ pc'[queue[i]] = pc[queue[i]]
  BY DEF Queued
<1> QED
  BY <1>1 DEF Queued

\* The first of the queue leaves it.
LEMMA Leaves ==
  ASSUME Inv, queue # <<>>, queue' = Tail(queue),
         NEW s \in Stage, pc' = [pc EXCEPT ![Head(queue)] = s]
  PROVE  /\ Head(queue) \in Task /\ pc[Head(queue)] \in Waits
         /\ queue' \in Seq(Task) /\ pc' \in [Task -> Stage] /\ Queued'
<1> USE DEF Inv, TypeOK
<1>1. /\ Head(queue) = queue[1] /\ 1 \in 1..Len(queue) /\ Head(queue) \in Task
      /\ queue' \in Seq(Task) /\ Len(queue') = Len(queue) - 1
      /\ \A i \in 1..Len(queue') : queue'[i] = queue[i + 1] /\ i + 1 \in 1..Len(queue)
  OBVIOUS
<1>2. ASSUME NEW i \in 1..Len(queue')
      PROVE  /\ queue'[i] \in Task /\ queue'[i] # Head(queue)
             /\ pc'[queue'[i]] = pc[queue'[i]] /\ pc[queue'[i]] \in Waits
  BY <1>1 DEF Queued
<1>3. \A i, j \in 1..Len(queue') : queue'[i] = queue'[j] => i = j
  BY <1>1 DEF Queued
<1> QED
  BY <1>1, <1>2, <1>3 DEF Queued

-----------------------------------------------------------------------------
\* The lock hands out a guard.
LEMMA GrantStep == Inv /\ Grant => Inv'
<1> SUFFICES ASSUME Inv, Grant PROVE Inv'
  OBVIOUS
<1> USE DEF Inv
<1> DEFINE t == Head(queue)
<1>1. Granted(pc[t]) \in Stage
  <2>1. t \in Task /\ pc[t] \in Waits
    BY DEF Grant, TypeOK, Queued
  <2> QED
    BY <2>1 DEF Granted, Stage, Waits
<1>2. /\ t \in Task /\ pc[t] \in Waits
      /\ queue' \in Seq(Task) /\ pc' \in [Task -> Stage] /\ Queued'
  BY <1>1, Leaves DEF Grant
<1>3. guards' \in [Task -> 0..2] /\ writer' \in Writer \cup {None}
  <2>1. CASE pc[t] = "want"
    BY <1>2, <2>1 DEF Grant, ModeOf, TypeOK, Kinds, Handler, Task, Busy
  <2>2. CASE pc[t] # "want"
    <3>1. guards[t] \in 0..1
      BY <1>2, <2>2 DEF GuardsHeld, Waits
    <3>2. guards' = [guards EXCEPT ![t] = @ + 1] /\ UNCHANGED writer
      BY <2>2 DEF Grant, ModeOf
    <3>3. guards[t] + 1 \in 0..2
      BY <3>1
    <3> QED
      BY <1>2, <3>2, <3>3 DEF TypeOK
  <2> QED
    BY <2>1, <2>2
<1>4. TypeOK'
  BY <1>2, <1>3 DEF Grant, TypeOK, callVars, nodeVars
<1>5. Kinds' /\ Numbered' /\ Unread' /\ LineRead'
  <2>1. pc' = [pc EXCEPT ![t] = Granted(pc[t])] /\ UNCHANGED <<callVars, nodeVars>>
    BY DEF Grant
  <2>2. /\ pc[t] = "enter" => pc'[t] = "check"
        /\ pc[t] = "again" => pc'[t] = "subscribe"
        /\ pc[t] = "want" => pc'[t] = "write"
        /\ pc[t] = "hold" => pc'[t] = "publish"
    BY <1>2, <2>1 DEF Granted, TypeOK, Waits
  <2> QED
    BY <1>2, <2>1, <2>2 DEF Kinds, Numbered, Unread, LineRead, TypeOK, Waits, Busy, Handler, Task,
       callVars, nodeVars
<1>6. GuardsHeld'
  <2>1. pc' = [pc EXCEPT ![t] = Granted(pc[t])]
    BY DEF Grant
  <2>2. CASE pc[t] = "want"
    <3>1. pc'[t] = "write" /\ UNCHANGED guards
      BY <1>2, <2>1, <2>2 DEF Grant, Granted, ModeOf, TypeOK
    <3> QED
      BY <1>2, <2>1, <2>2, <3>1 DEF GuardsHeld, TypeOK
  <2>3. CASE pc[t] # "want"
    <3>1. guards' = [guards EXCEPT ![t] = @ + 1]
      BY <2>3 DEF Grant, ModeOf
    <3>2. \/ pc[t] = "enter" /\ pc'[t] = "check"
          \/ pc[t] = "again" /\ pc'[t] = "subscribe"
          \/ pc[t] = "hold" /\ pc'[t] = "publish"
      BY <1>2, <2>1, <2>3 DEF Granted, TypeOK, Waits
    <3> QED
      BY <1>2, <2>1, <3>1, <3>2 DEF GuardsHeld, TypeOK
  <2> QED
    BY <2>2, <2>3
<1> QED
  BY <1>2, <1>4, <1>5, <1>6

\* A task begins to wait for the lock, for the first time.
LEMMA AskStep ==
  Inv /\ ((\E w \in Writer : WriterAsks(w)) \/ (\E t \in Handler : Begin(t))) => Inv'
<1> SUFFICES ASSUME Inv, (\E w \in Writer : WriterAsks(w)) \/ (\E t \in Handler : Begin(t))
             PROVE  Inv'
  OBVIOUS
<1> USE DEF Inv
<1>1. CASE \E w \in Writer : WriterAsks(w)
  <2> PICK w \in Writer : WriterAsks(w)
    BY <1>1
  <2>1. queue' \in Seq(Task) /\ pc' \in [Task -> Stage] /\ Queued'
    BY Joins DEF WriterAsks, Task, Waits
  <2>2. TypeOK'
    BY <2>1 DEF WriterAsks, TypeOK, callVars, nodeVars
  <2>3. GuardsHeld'
    BY DEF WriterAsks, Queues, TypeOK, GuardsHeld, Task
  <2>4. Kinds'
    BY DEF WriterAsks, Queues, TypeOK, Kinds, Handler, Task, Busy
  <2>5. Numbered' /\ Unread' /\ LineRead'
    BY DEF WriterAsks, Queues, TypeOK, Kinds, Numbered, Unread, LineRead, Handler, Task, Busy,
       callVars, nodeVars
  <2> QED
    BY <2>1, <2>2, <2>3, <2>4, <2>5
<1>2. CASE \E t \in Handler : Begin(t)
  <2> PICK t \in Handler : Begin(t)
    BY <1>2
  <2>1. queue' \in Seq(Task) /\ pc' \in [Task -> Stage] /\ Queued'
    BY Joins DEF Begin, Task, Waits
  <2>2. TypeOK'
    <3>1. calls' \in [Handler -> 0..MaxCalls]
      BY DEF Begin, TypeOK
    <3> QED
      BY <2>1, <3>1 DEF Begin, TypeOK, nodeVars
  <2>3. GuardsHeld'
    BY DEF Begin, Queues, TypeOK, GuardsHeld, Task
  <2>4. Kinds'
    BY DEF Begin, Queues, TypeOK, Kinds, Handler, Task, Busy
  <2>5. Numbered' /\ Unread'
    BY DEF Begin, Queues, TypeOK, Numbered, Unread, Handler, Task, Busy
  <2>6. LineRead'
    BY DEF Begin, Queues, TypeOK, LineRead, Handler, Task, nodeVars
  <2> QED
    BY <2>1, <2>2, <2>3, <2>4, <2>5, <2>6
<1> QED
  BY <1>1, <1>2

\* A writer leaves, or a handler is refused.
LEMMA StopStep ==
  Inv /\ ((\E w \in Writer : WriterLeaves(w)) \/ (\E t \in Handler : Refuse(t)))
    => Inv'
<1> SUFFICES ASSUME Inv,
               \/ \E w \in Writer : WriterLeaves(w)
               \/ \E t \in Handler : Refuse(t)
             PROVE  Inv'
  OBVIOUS
<1> USE DEF Inv
<1>1. CASE \E w \in Writer : WriterLeaves(w)
  <2> PICK w \in Writer : WriterLeaves(w)
    BY <1>1
  <2>1. queue' \in Seq(Task) /\ pc' \in [Task -> Stage] /\ Queued'
    BY Moves DEF WriterLeaves, Task, Waits, Stage
  <2>2. TypeOK'
    BY <2>1 DEF WriterLeaves, TypeOK, callVars, nodeVars
  <2>3. GuardsHeld'
    BY DEF WriterLeaves, TypeOK, GuardsHeld, Task
  <2>4. Kinds'
    BY DEF WriterLeaves, TypeOK, Kinds, Handler, Task, Busy
  <2>5. Numbered' /\ Unread' /\ LineRead'
    BY DEF WriterLeaves, TypeOK, Kinds, Numbered, Unread, LineRead, Handler, Task, Busy,
       callVars, nodeVars
  <2> QED
    BY <2>1, <2>2, <2>3, <2>4, <2>5
<1>2. CASE \E t \in Handler : Refuse(t)
  <2> PICK t \in Handler : Refuse(t)
    BY <1>2
  <2>1. queue' \in Seq(Task) /\ pc' \in [Task -> Stage] /\ Queued'
    BY Moves DEF Refuse, lockVars, Task, Waits, Stage
  <2>2. TypeOK'
    BY <2>1 DEF Refuse, TypeOK, lockVars, callVars, nodeVars
  <2>3. GuardsHeld'
    BY DEF Refuse, lockVars, TypeOK, GuardsHeld, Task
  <2> QED
    BY <2>1, <2>2, <2>3 DEF Refuse, TypeOK, Kinds, Numbered, Unread, LineRead,
       Handler, Task, Busy, lockVars, callVars, nodeVars
<1> QED
  BY <1>1, <1>2

\* A handler checks who asks, and asks for the lock again.
LEMMA CheckStep == ASSUME Inv, NEW t \in Handler, Check(t) PROVE Inv'
<1> USE DEF Inv, Check
<1>1. queue' \in Seq(Task) /\ pc' \in [Task -> Stage] /\ Queued'
  BY Joins DEF Task, Waits
<1>2. guards' = [guards EXCEPT ![t] = IF t \in Keeper THEN 1 ELSE 0]
  BY DEF Drops, GuardsHeld, TypeOK, Task
<1>3. TypeOK'
  <2>1. heard' \in [Handler -> Seq(Answer)] /\ \A u \in Handler : at[u] <= Len(heard'[u])
    <3>1. at[t] = 0
      BY DEF Unread
    <3>2. heard'[t] = <<>> /\ Len(heard'[t]) = 0
      BY DEF TypeOK
    <3> QED
      BY <3>1, <3>2 DEF TypeOK
  <2>2. guards' \in [Task -> 0..2]
    <3>1. (IF t \in Keeper THEN 1 ELSE 0) \in 0..2
      OBVIOUS
    <3> QED
      BY <1>2, <3>1 DEF TypeOK
  <2> QED
    BY <1>1, <2>1, <2>2 DEF TypeOK, nodeVars
<1>4. GuardsHeld'
  BY <1>2 DEF GuardsHeld, Queues, TypeOK, Task
<1>5. Kinds'
  BY DEF Queues, TypeOK, Kinds, Handler, Task, Busy
<1>6. Numbered' /\ Unread' /\ LineRead'
  BY DEF Queues, TypeOK, Numbered, Unread, LineRead, Handler, Task, Busy, nodeVars
<1> QED
  BY <1>1, <1>3, <1>4, <1>5, <1>6

\* A handler subscribes and is ready to send its first request.
LEMMA SubscribeStep == ASSUME Inv, NEW t \in Handler, Subscribe(t) PROVE Inv'
<1> USE DEF Inv, Subscribe
<1>1. queue' \in Seq(Task) /\ pc' \in [Task -> Stage] /\ Queued'
  BY Moves DEF Task, Waits, Stage
<1>2. guards' = [guards EXCEPT ![t] = IF t \in Keeper THEN 1 ELSE 0]
  <2>1. guards[t] = IF t \in Keeper THEN 2 ELSE 1
    BY DEF GuardsHeld, Task
  <2>2. guards[t] - 1 = IF t \in Keeper THEN 1 ELSE 0
    BY <2>1
  <2> QED
    BY <2>2 DEF Drops
<1>3. TypeOK'
  <2>1. guards' \in [Task -> 0..2]
    <3>1. (IF t \in Keeper THEN 1 ELSE 0) \in 0..2
      OBVIOUS
    <3> QED
      BY <1>2, <3>1 DEF TypeOK
  <2>2. number' \in [Handler -> 0..Requests]
    BY DEF TypeOK
  <2> QED
    BY <1>1, <2>1, <2>2 DEF TypeOK, nodeVars
<1>4. GuardsHeld'
  BY <1>2 DEF GuardsHeld, TypeOK, Task
<1>5. Kinds' /\ LineRead'
  BY DEF TypeOK, Kinds, LineRead, Handler, Task, Busy, nodeVars
<1>6. Numbered' /\ Unread'
  BY DEF TypeOK, Numbered, Unread, Handler, Task, Busy
<1> QED
  BY <1>1, <1>3, <1>4, <1>5, <1>6

\* A handler sends a request.
LEMMA SendStep == ASSUME Inv, NEW t \in Handler, Send(t) PROVE Inv'
<1> USE DEF Inv, Send
<1>1. queue' \in Seq(Task) /\ pc' \in [Task -> Stage] /\ Queued'
  BY Moves DEF lockVars, Task, Waits, Stage
<1>2. TypeOK'
  <2>1. [by |-> t, call |-> calls[t], n |-> number[t]] \in Answer
    <3>1. calls[t] > 0 /\ number[t] < Requests
      BY DEF Numbered, Busy
    <3>2. calls[t] \in 0..MaxCalls /\ number[t] \in 0..Requests
      BY DEF TypeOK
    <3>3. calls[t] \in 1..MaxCalls /\ number[t] \in 0..(Requests - 1)
      BY <3>1, <3>2
    <3> QED
      BY <3>3 DEF Answer
  <2>2. /\ \A i \in {0, at[t], Len(heard[t])} : i \in Nat /\ i <= Len(heard[t])
        /\ at \in [Handler -> Nat]
    BY DEF TypeOK
  <2>3. at' \in [Handler -> Nat] /\ \A u \in Handler : at'[u] <= Len(heard[u])
    BY <2>2 DEF TypeOK
  <2> QED
    BY <1>1, <2>1, <2>3 DEF TypeOK, lockVars
<1>3. GuardsHeld'
  BY DEF GuardsHeld, TypeOK, lockVars, Task
<1>4. Kinds' /\ LineRead'
  BY DEF TypeOK, Kinds, LineRead, Handler, Task, Busy
<1>5. Numbered' /\ Unread'
  BY DEF TypeOK, Numbered, Unread, Handler, Task, Busy
<1> QED
  BY <1>1, <1>2, <1>3, <1>4, <1>5

\* A handler hears an answer, to its request or to another, or gives up: it
\* waits on, goes on or ends.
LEMMA HearStep ==
  ASSUME Inv, NEW t \in Handler, Hear(t) \/ GivesUp(t) PROVE Inv'
<1> USE DEF Inv
<1> DEFINE m == heard[t][at[t] + 1]
<1>1. /\ pc[t] = "await"
      /\ UNCHANGED <<queue, guards, writer, heard, calls, pending, line>>
      /\ GoesOn(t) \/ (UNCHANGED number /\ \E s \in {"await", "return"} :
                         pc' = [pc EXCEPT ![t] = s])
  <2>1. CASE Hear(t)
    <3>1. pc = [pc EXCEPT ![t] = "await"]
      BY <2>1 DEF Hear, TypeOK
    <3> QED
      BY <2>1, <3>1 DEF Hear, Takes, Skips, lockVars, nodeVars
  <2>2. CASE GivesUp(t)
    BY <2>2 DEF GivesUp, lockVars, nodeVars
  <2> QED
    BY <2>1, <2>2
<1>9. at' \in [Handler -> Nat] /\ \A u \in Handler :
        at'[u] <= Len(heard[u]) /\ (u # t => at'[u] = at[u])
  <2>1. CASE Hear(t)
    <3>1. at[t] \in Nat /\ Len(heard[t]) \in Nat /\ at[t] < Len(heard[t])
      BY <2>1 DEF Hear, TypeOK
    <3>2. at[t] + 1 \in Nat /\ at[t] + 1 <= Len(heard[t])
      BY <3>1
    <3> QED
      BY <2>1, <3>2 DEF Hear, TypeOK
  <2>2. CASE GivesUp(t)
    BY <2>2 DEF GivesUp, TypeOK
  <2> QED
    BY <2>1, <2>2
<1>2. PICK s \in {"await", "send", "return"} : pc' = [pc EXCEPT ![t] = s]
  BY <1>1 DEF GoesOn
<1>3. /\ number' \in [Handler -> 0..Requests]
      /\ \A u \in Handler : pc'[u] \in {"send", "await"} => number'[u] < Requests
  <2>1. number[t] \in 0..(Requests - 1)
    BY <1>1 DEF Numbered, TypeOK
  <2>2. CASE GoesOn(t)
    <3>1. number[t] + 1 \in 0..Requests
      BY <2>1
    <3>2. number' \in [Handler -> 0..Requests] /\ number'[t] = number[t] + 1
      BY <2>2, <3>1 DEF GoesOn, TypeOK
    <3>3. ASSUME pc'[t] = "send" PROVE number'[t] < Requests
      <4>1. number[t] # Requests - 1
        BY <2>2, <3>3 DEF GoesOn, TypeOK, Task
      <4> QED
        BY <2>1, <3>2, <4>1
    <3>4. pc'[t] # "await"
      BY <2>2 DEF GoesOn, TypeOK, Task
    <3> QED
      BY <1>2, <2>2, <3>2, <3>3, <3>4 DEF GoesOn, Numbered, TypeOK, Task
  <2>3. CASE UNCHANGED number
    BY <1>1, <1>2, <2>1, <2>3 DEF Numbered, TypeOK, Task
  <2> QED
    BY <1>1, <2>2, <2>3
<1>4. queue' \in Seq(Task) /\ pc' \in [Task -> Stage] /\ Queued'
  BY <1>1, <1>2, Moves DEF Task, Waits, Stage
<1>5. TypeOK'
  BY <1>1, <1>3, <1>4, <1>9 DEF TypeOK
<1>6. GuardsHeld'
  BY <1>1, <1>2 DEF GuardsHeld, TypeOK, Task
<1>7. Kinds' /\ LineRead'
  BY <1>1, <1>2 DEF TypeOK, Kinds, LineRead, Handler, Task, Busy
<1>8. Numbered' /\ Unread'
  BY <1>1, <1>2, <1>3, <1>9 DEF TypeOK, Numbered, Unread, Handler, Task, Busy
<1> QED
  BY <1>4, <1>5, <1>6, <1>7, <1>8

\* A handler ends.
LEMMA ReturnStep == ASSUME Inv, NEW t \in Handler, Return(t) PROVE Inv'
<1> USE DEF Inv, Return
<1>1. queue' \in Seq(Task) /\ pc' \in [Task -> Stage] /\ Queued'
  BY Moves DEF Task, Waits, Stage
<1>2. TypeOK'
  <2>1. guards' \in [Task -> 0..2] /\ number' \in [Handler -> 0..Requests]
    <3>1. 0 \in 0..2 /\ 0 \in 0..Requests
      OBVIOUS
    <3>2. guards' \in [Task -> 0..2]
      BY <3>1 DEF TypeOK
    <3>3. number' \in [Handler -> 0..Requests]
      BY <3>1 DEF TypeOK
    <3> QED
      BY <3>2, <3>3
  <2>2. /\ heard' \in [Handler -> Seq(Answer)] /\ at' \in [Handler -> Nat]
        /\ \A u \in Handler : at'[u] <= Len(heard'[u])
    BY DEF TypeOK
  <2> QED
    BY <1>1, <2>1, <2>2 DEF TypeOK, nodeVars
<1>3. GuardsHeld'
  BY DEF GuardsHeld, TypeOK, Task
<1>4. Kinds' /\ LineRead'
  BY DEF TypeOK, Kinds, LineRead, Handler, Task, Busy, nodeVars
<1>5. Numbered' /\ Unread'
  BY DEF TypeOK, Numbered, Unread, Handler, Task, Busy
<1> QED
  BY <1>1, <1>2, <1>3, <1>4, <1>5

\* The link takes an answer from the node.
LEMMA LinkReadsStep == Inv /\ LinkReads => Inv'
<1> SUFFICES ASSUME Inv, LinkReads PROVE Inv'
  OBVIOUS
<1> USE DEF Inv, LinkReads
<1>1. queue' \in Seq(Task) /\ pc' \in [Task -> Stage] /\ Queued'
  BY Joins DEF Task, Waits
<1>2. line' \in Answer /\ pending' \in SUBSET Answer
  BY DEF TypeOK
<1>3. TypeOK'
  BY <1>1, <1>2 DEF TypeOK, callVars
<1>4. GuardsHeld'
  BY DEF GuardsHeld, Queues, TypeOK, Task
<1>5. Kinds' /\ LineRead'
  BY <1>2 DEF Queues, TypeOK, Kinds, LineRead, Handler, Task
<1>6. Numbered' /\ Unread'
  BY DEF Queues, TypeOK, Numbered, Unread, Handler, Task, callVars
<1> QED
  BY <1>1, <1>3, <1>4, <1>5, <1>6

\* The link publishes an answer.
LEMMA PublishStep == Inv /\ Publish => Inv'
<1> SUFFICES ASSUME Inv, Publish PROVE Inv'
  OBVIOUS
<1> USE DEF Inv, Publish
<1>1. queue' \in Seq(Task) /\ pc' \in [Task -> Stage] /\ Queued'
  BY Moves DEF Task, Waits, Stage
<1>2. guards' = [guards EXCEPT ![Link] = 0]
  <2>1. guards[Link] = 1
    BY DEF GuardsHeld, Task
  <2> QED
    BY <2>1 DEF Drops
<1>3. \A u \in Handler : heard'[u] \in Seq(Answer) /\ Len(heard[u]) <= Len(heard'[u])
  BY DEF TypeOK, LineRead
<1>4. TypeOK'
  <2>1. guards' \in [Task -> 0..2]
    <3>1. 0 \in 0..2
      OBVIOUS
    <3> QED
      BY <1>2, <3>1 DEF TypeOK
  <2>2. heard' \in [Handler -> Seq(Answer)]
    BY <1>3
  <2>3. \A u \in Handler : at[u] <= Len(heard'[u])
    BY <1>3 DEF TypeOK
  <2> QED
    BY <1>1, <2>1, <2>2, <2>3 DEF TypeOK, nodeVars
<1>5. GuardsHeld'
  BY <1>2 DEF GuardsHeld, TypeOK, Task
<1>6. Kinds' /\ LineRead'
  BY DEF TypeOK, Kinds, LineRead, Handler, Task
<1>7. Numbered' /\ Unread'
  BY DEF TypeOK, Numbered, Unread, Handler, Task
<1> QED
  BY <1>1, <1>4, <1>5, <1>6, <1>7

\* The invariant is inductive.
LEMMA InvStep == Inv /\ [Next]_vars => Inv'
<1> SUFFICES ASSUME Inv, [Next]_vars PROVE Inv'
  OBVIOUS
<1>1. CASE Grant
  BY <1>1, GrantStep
<1>2. CASE \E w \in Writer : WriterAsks(w) \/ WriterLeaves(w)
  BY <1>2, AskStep, StopStep
<1>3. CASE \E t \in Handler : Begin(t) \/ GivesUp(t)
  BY <1>3, AskStep, HearStep
<1>4. CASE \E t \in Handler : Proceeds(t)
  BY <1>4, CheckStep, StopStep, SubscribeStep, SendStep, HearStep, ReturnStep DEF Proceeds
<1>5. CASE LinkReads \/ Publish
  BY <1>5, LinkReadsStep, PublishStep
<1>6. CASE UNCHANGED vars
  BY <1>6 DEF Inv, TypeOK, Kinds, Queued, GuardsHeld, Numbered, Unread, LineRead,
     vars, lockVars, callVars, nodeVars
<1> QED
  BY <1>1, <1>2, <1>3, <1>4, <1>5, <1>6 DEF Next

\* Every variable keeps its type.
THEOREM TypeCorrect == Spec => []TypeOK
<1>1. Inv => TypeOK
  BY DEF Inv
<1> QED
  BY InitInv, InvStep, <1>1, PTL DEF Spec

\* A handler of a list or a download has no guard while it waits for the node,
\* or for the lock a second time: main.rs drops the guard of get_files and of
\* stream_file_download before either.
THEOREM FreeWaits == Spec => []WaitsFree
<1>1. Inv => WaitsFree
  BY DEF Inv, GuardsHeld, WaitsFree, Handler, Task
<1> QED
  BY InitInv, InvStep, <1>1, PTL DEF Spec

-----------------------------------------------------------------------------
\* An answer on its way stays on its way until the handler takes it.
LEMMA AnswerStep == Inv /\ AnswerComes /\ [Next]_vars => AnswerComes'
<1> SUFFICES ASSUME Inv, AnswerComes, [Next]_vars, NEW t \in Handler, pc'[t] = "await"
             PROVE  (\/ [by |-> t, call |-> calls[t], n |-> number[t]] \in pending
                     \/ /\ line = [by |-> t, call |-> calls[t], n |-> number[t]]
                        /\ pc[Link] \in {"hold", "publish"}
                     \/ \E i \in 1..Len(heard[t]) :
                          /\ i > at[t]
                          /\ heard[t][i] = [by |-> t, call |-> calls[t], n |-> number[t]])'
  BY DEF AnswerComes
<1> USE DEF Inv
<1> DEFINE own == [by |-> t, call |-> calls[t], n |-> number[t]]
           Ahead == \E i \in 1..Len(heard[t]) : i > at[t] /\ heard[t][i] = own
           InHand == line = own /\ pc[Link] \in {"hold", "publish"}
           Coming == own \in pending \/ InHand \/ Ahead
<1>0. pc[t] = "await" => Coming
  BY DEF AnswerComes
<1>1. SUFFICES Coming'
  OBVIOUS
<1>2. t \in Task /\ t # Link /\ Link \in Task
  BY DEF Handler, Task
<1>3. CASE Grant
  <2>1. pc' = [pc EXCEPT ![Head(queue)] = Granted(pc[Head(queue)])] /\ Head(queue) \in Task
    BY <1>3 DEF Grant, TypeOK
  <2>2. pc[Head(queue)] \in Waits
    BY <1>3 DEF Grant, Queued, TypeOK
  <2>3. pc[t] = "await"
    BY <1>2, <2>1, <2>2 DEF TypeOK, Granted, Waits
  <2>4. pc[Link] \in {"hold", "publish"} => pc'[Link] \in {"hold", "publish"}
    BY <1>2, <2>1, <2>2 DEF TypeOK, Granted, Waits
  <2> QED
    BY <1>0, <1>3, <2>3, <2>4 DEF Grant, callVars, nodeVars
<1>4. CASE \E w \in Writer : WriterAsks(w) \/ WriterLeaves(w)
  <2> PICK w \in Writer : WriterAsks(w) \/ WriterLeaves(w)
    BY <1>4
  <2>1. w # t /\ w # Link
    OBVIOUS
  <2>2. pc'[t] = pc[t] /\ pc'[Link] = pc[Link]
    BY <1>2, <2>1 DEF WriterAsks, WriterLeaves, Queues, TypeOK
  <2> QED
    BY <1>0, <2>2 DEF WriterAsks, WriterLeaves, callVars, nodeVars
<1>5. CASE LinkReads
  <2>1. pc'[t] = pc[t] /\ pc[Link] = "idle" /\ pc'[Link] = "hold" /\ UNCHANGED callVars
    BY <1>2, <1>5 DEF LinkReads, Queues, TypeOK
  <2>2. PICK m \in pending : line' = m /\ pending' = pending \ {m}
    BY <1>5 DEF LinkReads
  <2> QED
    BY <1>0, <2>1, <2>2 DEF callVars
<1>6. CASE Publish
  <2>1. pc'[t] = pc[t] /\ UNCHANGED <<pending, line, number, at, calls>>
    BY <1>2, <1>6 DEF Publish, TypeOK, nodeVars
  <2>2. heard'[t] = Append(heard[t], line)
    BY <1>6, <2>1 DEF Publish, Subscribed
  <2>3. heard[t] \in Seq(Answer) /\ line \in Answer /\ at[t] \in Nat /\ at[t] <= Len(heard[t])
    BY <1>6 DEF Publish, TypeOK, LineRead
  <2>4. CASE InHand
    <3>1. Len(heard'[t]) = Len(heard[t]) + 1 /\ heard'[t][Len(heard'[t])] = line
      BY <2>2, <2>3
    <3> QED
      BY <2>1, <2>3, <2>4, <3>1
  <2>5. CASE Ahead
    <3>1. PICK i \in 1..Len(heard[t]) : i > at[t] /\ heard[t][i] = own
      BY <2>5
    <3>2. i \in 1..Len(heard'[t]) /\ heard'[t][i] = heard[t][i]
      BY <2>2, <2>3
    <3> QED
      BY <2>1, <3>1, <3>2
  <2> QED
    BY <1>0, <2>1, <2>4, <2>5
<1>7. CASE Send(t)
  BY <1>7 DEF Send
<1>8. CASE Hear(t)
  <2> DEFINE m == heard[t][at[t] + 1]
  <2>1. /\ pc[t] = "await" /\ at'[t] = at[t] + 1
        /\ UNCHANGED <<heard, calls, pending, line>>
        /\ Takes(t, m) \/ Skips(t, m)
    BY <1>8 DEF Hear, TypeOK, nodeVars
  <2>2. ~Takes(t, m)
    BY <1>2 DEF Takes, GoesOn, TypeOK
  <2>3. m.n # number[t] /\ UNCHANGED <<pc, number>>
    BY <2>1, <2>2 DEF Skips
  <2>4. at[t] \in Nat /\ calls'[t] = calls[t] /\ number'[t] = number[t]
    BY <2>1, <2>3 DEF TypeOK
  <2>5. own' = own
    BY <2>4
  <2>6. CASE Ahead
    <3>1. PICK i \in 1..Len(heard[t]) : i > at[t] /\ heard[t][i] = own
      BY <2>6
    <3>2. i # at[t] + 1
      <4>1. heard[t][i].n = number[t]
        BY <3>1
      <4> QED
        BY <2>3, <4>1
    <3>3. i > at'[t]
      BY <2>1, <2>4, <3>1, <3>2
    <3>4. i \in 1..Len(heard'[t]) /\ heard'[t][i] = own'
      BY <2>1, <2>5, <3>1
    <3> QED
      BY <3>3, <3>4
  <2>7. CASE InHand
    BY <2>1, <2>3, <2>4, <2>7
  <2>8. CASE own \in pending
    BY <2>1, <2>4, <2>8
  <2> QED
    BY <1>0, <2>1, <2>6, <2>7, <2>8
<1>9. CASE Begin(t) \/ Check(t) \/ Refuse(t) \/ Subscribe(t) \/ Return(t) \/ GivesUp(t)
  BY <1>2, <1>9 DEF Begin, Check, Refuse, Subscribe, Return, GivesUp, GoesOn, Queues,
     TypeOK
<1>10. CASE \E u \in Handler \ {t} : Begin(u) \/ Proceeds(u) \/ GivesUp(u)
  <2> PICK u \in Handler \ {t} : Begin(u) \/ Proceeds(u) \/ GivesUp(u)
    BY <1>10
  <2>1. u \in Task /\ u # Link
    BY DEF Handler, Task
  <2>2. pc'[t] = pc[t] /\ pc'[Link] = pc[Link]
    BY <1>2, <2>1 DEF Begin, Proceeds, Check, Refuse, Subscribe, Send, Hear, Takes, Skips,
       Return, GivesUp, GoesOn, Queues, TypeOK
  <2>3. calls'[t] = calls[t] /\ line' = line /\ pending \subseteq pending'
    BY DEF Begin, Proceeds, Check, Refuse, Subscribe, Send, Hear, Return, GivesUp, TypeOK,
       callVars, nodeVars
  <2>4. number'[t] = number[t]
    BY DEF Begin, Proceeds, Check, Refuse, Subscribe, Send, Hear, Takes, Skips, Return,
       GivesUp, GoesOn, TypeOK, callVars
  <2>5. heard'[t] = heard[t] /\ at'[t] = at[t]
    BY DEF Begin, Proceeds, Check, Refuse, Subscribe, Send, Hear, Return, GivesUp, TypeOK,
       callVars
  <2> QED
    BY <1>0, <2>2, <2>3, <2>4, <2>5
<1>11. CASE UNCHANGED vars
  BY <1>0, <1>11 DEF vars, lockVars, callVars, nodeVars
<1> QED
  BY <1>3, <1>4, <1>5, <1>6, <1>7, <1>8, <1>9, <1>10, <1>11 DEF Next, Proceeds

\* The answer a handler waits for is with the node, in the link's hands or
\* ahead of the handler's receiver: it subscribes before it sends
\* (TcpFs::new), and reads every message once (recv_response).
THEOREM AnswersCome == Spec => []AnswerComes
BY InitInv, InvStep, AnswerStep, PTL DEF Spec
=============================================================================

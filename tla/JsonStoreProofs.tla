-------------------------- MODULE JsonStoreProofs --------------------------
(***************************************************************************)
(* What TLAPS proves of JsonStore for any names, values and tasks.         *)
(* Whatever interleaves, fails or crashes, a file that parses holds a      *)
(* valid document.  Under the lock alone and with a disk that works, every *)
(* behaviour is one of Store.                                              *)
(***************************************************************************)
EXTENDS JsonStore, TLAPS

USE ElementsAssumption, JsonStoreAssumption

\* Operations and documents keep their types.
LEMMA EffectType ==
  ASSUME NEW d \in SUBSET Element, NEW o \in Op, ~Refused(d, o),
         o.kind # "read"
  PROVE  Effect(d, o) \in SUBSET Element
<1>0. o.kind = "edit" => Sort[o.name] \in {"user", "integration", "settings"}
  BY DEF Op
<1>1. ASSUME NEW e \in Named(d, o.name), o.kind = "edit"
      PROVE  [e EXCEPT !.value = IF Keeps(o) THEN @ ELSE o.value] \in Element
  <2>1. e \in Element /\ e.name = o.name /\ o.value \in Value \cup {NoValue}
    BY <1>1 DEF Named, Op
  <2>2. o.value = NoValue => Sort[o.name] # "settings"
    BY <1>1 DEF Op
  <2>3. CASE Keeps(o)
    BY <2>1, <2>3 DEF Element
  <2>4. CASE ~Keeps(o)
    <3>1. o.value = NoValue => Sort[o.name] \notin Needy
      BY <1>0, <1>1, <2>2, <2>4 DEF Keeps, Needy
    <3> QED
      BY <2>1, <2>4, <3>1 DEF Element
  <2> QED
    BY <2>3, <2>4
<1>2. o.kind = "edit" => {[e EXCEPT !.value = IF Keeps(o) THEN @ ELSE o.value] :
          e \in Named(d, o.name)} \in SUBSET Element
  BY <1>1
<1>3. d \ Named(d, o.name) \in SUBSET Element
  OBVIOUS
<1>4. ASSUME o.kind = "create"
      PROVE  [name |-> o.name, value |-> o.value] \in Element
  BY <1>4 DEF Refused, Op, Element, Needy
<1>5. o.kind \in {"create", "edit", "remove"}
  BY DEF Op
<1> QED
  BY <1>2, <1>3, <1>4, <1>5 DEF Effect

\* The default document is valid and typed.
LEMMA DefaultValid == Valid(DefaultDoc) /\ DefaultDoc \in SUBSET Element
<1> DEFINE e == [name |-> Settings, value |-> Default]
<1>1. e \in DefaultDoc /\ e.name = Settings /\ e \in Element
  BY DEF DefaultDoc, Element
<1>2. Named(DefaultDoc, Settings) # {}
  BY <1>1 DEF Named
<1> QED
  BY <1>1, <1>2 DEF Valid, DefaultDoc

\* An operation that is not refused leaves a valid document valid.
LEMMA EffectValid ==
  ASSUME NEW d \in SUBSET Element, NEW o \in Op, Valid(d), ~Refused(d, o),
         o.kind # "read"
  PROVE  Valid(Effect(d, o))
<1>1. CASE o.kind = "create"
  <2>1. o.name \in Name \ {Settings} /\ Named(d, o.name) = {}
    BY <1>1 DEF Refused, Op
  <2>2. Effect(d, o) = d \cup {[name |-> o.name, value |-> o.value]}
    BY <1>1 DEF Effect
  <2> QED
    BY <2>1, <2>2 DEF Valid, Named
<1>2. CASE o.kind = "remove"
  <2>1. o.name # Settings /\ Effect(d, o) = d \ Named(d, o.name)
    BY <1>2 DEF Effect, Op
  <2> QED
    BY <2>1 DEF Valid, Named
<1>3. CASE o.kind = "edit"
  <2> DEFINE new(e) == [e EXCEPT !.value = IF Keeps(o) THEN @ ELSE o.value]
  <2>1. Effect(d, o) = (d \ Named(d, o.name)) \cup {new(e) : e \in Named(d, o.name)}
    BY <1>3 DEF Effect
  <2>2. \A e \in Named(d, o.name) : new(e).name = o.name
    BY DEF Named, Element
  <2>3. \A e, f \in Named(d, o.name) : e = f
    BY DEF Valid, Named
  <2>4. \A e \in d \ Named(d, o.name) : e.name # o.name
    BY DEF Named
  <2> HIDE DEF new
  <2>5. \A e, f \in Effect(d, o) : e.name = f.name => e = f
    BY <2>1, <2>2, <2>3, <2>4 DEF Valid
  <2>6. Named(Effect(d, o), Settings) # {}
    <3>1. PICK s \in d : s.name = Settings
      BY DEF Valid, Named
    <3>2. CASE o.name = Settings
      BY <2>1, <2>2, <3>1, <3>2 DEF Named
    <3>3. CASE o.name # Settings
      BY <2>1, <3>1, <3>3 DEF Named
    <3> QED
      BY <3>2, <3>3
  <2> QED
    BY <2>5, <2>6 DEF Valid
<1> QED
  BY <1>1, <1>2, <1>3 DEF Op

-----------------------------------------------------------------------------
(* Any interleaving. *)

\* The file that parses and every copy about to be written are valid, and a
\* task that is not idle performs an operation.
ValidInv ==
  /\ FileValid
  /\ \A t \in Task : pc[t] \in {"truncate", "write"} => Valid(snap[t])
  /\ \A t \in Task : pc[t] # "idle" => op[t] \in Op

\* Every step preserves types and validity.
LEMMA ValidStep ==
  ASSUME TypeOK, ValidInv, [Next]_vars
  PROVE  TypeOK' /\ ValidInv'
<1> USE DEF TypeOK, Stage, Whole, Empty, Torn, Answer, NoAnswer
<1>0. Seen \in SUBSET Element /\ Valid(Seen)
  BY DefaultValid DEF Seen, ValidInv, FileValid
<1>1. CASE Boot
  <2>1. \A x \in Value \cup {NoValue} : CreateAdmin(x) \in Op
    BY DEF CreateAdmin, Op
  <2>2. file' \in {Whole(Seen), Empty, Torn} /\ Main \in Task
    BY <1>1 DEF Boot, Task
  <2>3. pc' \in [Task -> Stage] /\ op' \in [Task -> Op \cup {NoOp}]
    <3>1. EnsuresAdmin /\ Main \in Task
      BY <1>1, <2>2 DEF Boot
    <3>2. pc' \in [Task -> Stage]
      BY <3>1 DEF EnsuresAdmin
    <3>3. op' \in [Task -> Op \cup {NoOp}]
      <4>1. CASE UNCHANGED <<pc, op>>
        BY <4>1
      <4>2. CASE \E x \in Value \cup {NoValue} : op' = [op EXCEPT ![Main] = CreateAdmin(x)]
        BY <2>1, <3>1, <4>2
      <4> QED
        BY <3>1, <4>1, <4>2 DEF EnsuresAdmin
    <3> QED
      BY <3>2, <3>3
  <2>4. UNCHANGED <<lock, snap, answer, crashes>> /\ process' = "booting"
    BY <1>1 DEF Boot
  <2>5. TypeOK'
    BY <1>0, <2>2, <2>3, <2>4
  <2>6. ASSUME NEW t \in Task
        PROVE  /\ pc'[t] \in {"truncate", "write"} => pc[t] \in {"truncate", "write"}
               /\ pc'[t] # "idle" => op'[t] \in Op
    <3>1. CASE UNCHANGED <<pc, op>>
      BY <3>1 DEF ValidInv
    <3>2. CASE ~UNCHANGED <<pc, op>>
      <4>1. PICK x \in Value \cup {NoValue} :
              /\ op' = [op EXCEPT ![Main] = CreateAdmin(x)]
              /\ pc' = [pc EXCEPT ![Main] = "load"]
        BY <1>1, <3>2 DEF Boot, EnsuresAdmin
      <4> QED
        BY <2>1, <2>2, <4>1 DEF ValidInv
    <3> QED
      BY <3>1, <3>2
  <2> QED
    BY <1>0, <2>2, <2>4, <2>5, <2>6 DEF ValidInv, FileValid
<1>2. CASE Serve \/ BootDies
  BY <1>2 DEF Serve, BootDies, ValidInv, FileValid
<1>3. CASE Crash
  <2>1. file' = file \/ file' = Torn
    BY <1>3 DEF Crash
  <2> QED
    BY <1>3, <2>1 DEF Crash, ValidInv, FileValid
<1>4. ASSUME NEW t \in Handler, NEW o \in Op, HandlerCalls(t, o)
      PROVE  TypeOK' /\ ValidInv'
  BY <1>4 DEF HandlerCalls, ValidInv, FileValid, Task
<1>5. ASSUME NEW t \in Stream, NEW o \in Op, StreamCalls(t, o)
      PROVE  TypeOK' /\ ValidInv'
  BY <1>5 DEF StreamCalls, ValidInv, FileValid, Task
<1>6. ASSUME NEW t \in Task, Proceed(t) PROVE TypeOK' /\ ValidInv'
  <2>1. CASE LoadFails(t) \/ LoadReads(t) \/ LoadRefuses(t)
    <3>1. \E a \in [is : {"none", "created", "error", "read"},
                    docs : SUBSET Element] : Answers(t, a) /\ UNCHANGED file
      BY <1>0, <2>1 DEF LoadFails, LoadReads, LoadRefuses
    <3> QED
      BY <2>1, <3>1
      DEF Answers, ValidInv, FileValid, LoadFails, LoadReads, LoadRefuses
  <2>2. CASE LoadChanges(t)
    <3>1. op[t] \in Op /\ op[t].kind # "read" /\ ~Refused(Seen, op[t])
      BY <2>2 DEF LoadChanges, ValidInv
    <3>2. Effect(Seen, op[t]) \in SUBSET Element /\ Valid(Effect(Seen, op[t]))
      BY <1>0, <3>1, EffectType, EffectValid
    <3> QED
      BY <2>2, <3>2 DEF LoadChanges, ValidInv, FileValid
  <2>3. CASE Truncate(t)
    BY <2>3 DEF Truncate, ValidInv, FileValid
  <2>4. CASE Write(t)
    BY <2>4 DEF Write, Answers, ValidInv, FileValid
  <2>5. CASE WriteFails(t)
    BY <2>5 DEF WriteFails, Answers, ValidInv, FileValid
  <2>6. CASE Return(t)
    BY <2>6 DEF Return, ValidInv, FileValid
  <2> QED
    BY <1>6, <2>1, <2>2, <2>3, <2>4, <2>5, <2>6 DEF Proceed
<1>7. CASE UNCHANGED vars
  BY <1>7 DEF vars, ValidInv, FileValid
<1> QED
  BY <1>1, <1>2, <1>3, <1>4, <1>5, <1>6, <1>7 DEF Next

\* The invariant of any interleaving.
LEMMA ValidAlways == Spec => [](TypeOK /\ ValidInv)
<1>1. Init => TypeOK /\ ValidInv
  BY DEF Init, TypeOK, ValidInv, FileValid, Stage, Empty, Answer, NoAnswer
<1> QED
  BY <1>1, ValidStep, PTL DEF Spec

\* Every variable keeps its type.
THEOREM TypeCorrect == Spec => []TypeOK
  BY ValidAlways, PTL

\* No race, failure or crash puts a name twice into a file that parses, or
\* leaves it without settings.
THEOREM ValidFile == Spec => []FileValid
<1>1. ValidInv => FileValid
  BY DEF ValidInv
<1> QED
  BY <1>1, ValidAlways, PTL

-----------------------------------------------------------------------------
(* Under the lock, with a disk that works.  The lock leaves one task under *)
(* way, so what it read is still the file when it writes.                  *)

\* At most one task is under way: main's while booting, or the lock's holder.
Alone ==
  /\ \A t, u \in Task : pc[t] # "idle" /\ pc[u] # "idle" => t = u
  /\ \A t \in Handler : pc[t] # "idle" => lock = t /\ process = "serving"
  /\ pc[Main] # "idle" => process = "booting"

\* What a task has of its call at each stage.
CallsInOrder ==
  \A t \in Task :
    /\ pc[t] = "idle" <=> op[t] = NoOp
    /\ pc[t] # "return" <=> answer[t] = NoAnswer

\* The file is whole while the process runs, save under the one that writes.
FileFollows ==
  /\ process # "down" /\ Writers = {} => file.is = "whole"
  /\ Writers # {} => file = Empty

\* A copy is the document of the file with the operation done to it.
CopyFresh ==
  \A t \in Task : pc[t] = "truncate" =>
    /\ op[t].kind # "read" /\ ~Refused(file.doc, op[t])
    /\ snap[t] = Effect(file.doc, op[t])

\* What was created is in the copy, and then in the file.
CreatedFollows ==
  \A t \in Task : op[t] # NoOp /\ op[t].kind = "create" =>
    /\ pc[t] = "write" => Named(snap[t], op[t].name) # {}
    /\ answer[t].is = "created" => Named(file.doc, op[t].name) # {}

LockInv == Alone /\ CallsInOrder /\ FileFollows /\ CopyFresh /\ CreatedFollows

\* A creation leaves an element of the name.
LEMMA EffectCreates ==
  ASSUME NEW d, NEW o \in Op, o.kind = "create"
  PROVE  Named(Effect(d, o), o.name) # {}
<1> DEFINE e == [name |-> o.name, value |-> o.value]
<1>1. e \in Effect(d, o) /\ e.name = o.name
  BY DEF Effect
<1> QED
  BY <1>1 DEF Named

\* Every step under the lock preserves the lock invariant.
LEMMA LockStep ==
  ASSUME Stream = {}, ~DiskErrors, TypeOK, ValidInv, LockInv, [Next]_vars
  PROVE  LockInv'
<1> USE DEF TypeOK, ValidInv, LockInv, Alone, CallsInOrder, FileFollows, Writers,
            Task, Empty, Torn, Whole, Answer, NoAnswer
<1>1. CASE Boot
  BY <1>1 DEF Boot, EnsuresAdmin, CopyFresh, CreatedFollows, CreateAdmin, Op
<1>2. CASE Serve \/ BootDies
  BY <1>2 DEF Serve, BootDies, CopyFresh, CreatedFollows
<1>3. CASE Crash
  BY <1>3 DEF Crash, CopyFresh, CreatedFollows
<1>4. ASSUME NEW t \in Handler, NEW o \in Op, HandlerCalls(t, o) PROVE LockInv'
  BY <1>4 DEF HandlerCalls, CopyFresh, CreatedFollows
<1>6. ASSUME NEW t \in Task, Proceed(t) PROVE LockInv'
  <2>1. CASE LoadFails(t) \/ LoadReads(t) \/ LoadRefuses(t)
    BY <2>1 DEF LoadFails, LoadReads, LoadRefuses, Answers, CopyFresh,
                CreatedFollows
  <2>2. CASE LoadChanges(t)
    <3>1. Seen = file.doc
      BY <2>2 DEF LoadChanges, Seen
    <3> QED
      BY <2>2, <3>1 DEF LoadChanges, CopyFresh, CreatedFollows
  <2>3. CASE Truncate(t)
    <3>1. op[t].kind = "create" => Named(snap[t], op[t].name) # {}
      BY <2>3, EffectCreates DEF Truncate, CopyFresh
    <3> QED
      BY <2>3, <3>1 DEF Truncate, CopyFresh, CreatedFollows
  <2>4. CASE Write(t)
    BY <2>4 DEF Write, Answers, CopyFresh, CreatedFollows
  <2>6. CASE Return(t)
    BY <2>6 DEF Return, CopyFresh, CreatedFollows
  <2> QED
    BY <1>6, <2>1, <2>2, <2>3, <2>4, <2>6 DEF Proceed, WriteFails
<1>7. CASE UNCHANGED vars
  BY <1>7 DEF vars, CopyFresh, CreatedFollows
<1> QED
  BY <1>1, <1>2, <1>3, <1>4, <1>6, <1>7 DEF Next

\* The lock invariant holds throughout.
LEMMA LockAlways ==
  ASSUME Stream = {}, ~DiskErrors
  PROVE  Spec => [](TypeOK /\ ValidInv /\ LockInv)
<1>1. Init => LockInv
  BY DEF Init, LockInv, Alone, CallsInOrder, FileFollows, CopyFresh,
         CreatedFollows, Writers, Task, NoAnswer, Answer
<1>2. TypeOK /\ ValidInv /\ LockInv /\ [Next]_vars => LockInv'
  BY LockStep
<1> QED
  BY <1>1, <1>2, ValidAlways, PTL DEF Spec

\* When create_*_in_db returns CREATED to a handler, the element is there.
THEOREM CreatedThere ==
  ASSUME Stream = {}, ~DiskErrors PROVE Spec => []CreatedIsThere
<1>1. TypeOK /\ LockInv => CreatedIsThere
  <2> SUFFICES ASSUME TypeOK, LockInv, Writers = {}, NEW t \in Handler,
                      answer[t].is = "created", op[t].kind = "create"
               PROVE  file.is = "whole" /\ Named(file.doc, op[t].name) # {}
    BY DEF CreatedIsThere
  <2>1. t \in Task /\ answer[t] # NoAnswer
    BY DEF Task, NoAnswer, Answer
  <2>2. pc[t] = "return" /\ op[t] # NoOp
    BY <2>1 DEF LockInv, CallsInOrder
  <2>3. process # "down"
    BY <2>2 DEF LockInv, Alone
  <2> QED
    BY <2>1, <2>2, <2>3 DEF LockInv, FileFollows, CreatedFollows
<1> QED
  BY <1>1, LockAlways, PTL

-----------------------------------------------------------------------------
(* The refinement.  A write takes effect in Store when it truncates.       *)

\* The one task that writes is the one whose copy Stored takes.
LEMMA StoredCopy ==
  ASSUME LockInv, NEW t \in Task, pc[t] = "write"
  PROVE  Stored = snap[t] /\ Writers = {t}
<1>1. Writers = {t}
  BY DEF LockInv, Alone, Writers
<1>2. (CHOOSE u \in Writers : TRUE) = t
  BY <1>1
<1>3. file.is # "whole"
  BY <1>1 DEF LockInv, FileFollows, Empty
<1> QED
  BY <1>1, <1>2, <1>3 DEF Stored

\* Without a writer it is the document of the file.
LEMMA StoredFile ==
  ASSUME Writers = {}
  PROVE  /\ Stored = IF file.is = "whole" THEN file.doc ELSE DefaultDoc
         /\ TypeOK => Answered = answer
  BY DEF Stored, Answered, Writers, TypeOK

\* The operators of Store are those of JsonStore.
LEMMA SameOperators ==
  /\ store!DefaultDoc = DefaultDoc
  /\ store!NoAnswer = NoAnswer
  /\ \A is, d : store!Answer(is, d) = Answer(is, d)
  /\ \A d, o : store!Refused(d, o) = Refused(d, o)
  /\ \A d, o : store!Effect(d, o) = Effect(d, o)
  /\ store!Op = Op
  BY DEF store!DefaultDoc, DefaultDoc, store!NoAnswer, NoAnswer, store!Answer,
         Answer, store!Refused, Refused, store!Effect, Effect, store!Named,
         Named, store!Op, Op,
         store!Needy, Needy, store!Keeps, Keeps

\* Every step under the lock is a step of Store, or changes nothing there.
LEMMA StoreStep ==
  ASSUME Stream = {}, ~DiskErrors, TypeOK, ValidInv, LockInv, LockInv', TypeOK',
         [Next]_vars
  PROVE  [store!Next]_(store!vars)
<1> USE SameOperators
<1> DEFINE broken == file.is = "torn"
<1>1. CASE Boot
  <2>1. Writers = {} /\ Writers' = {}
    BY <1>1 DEF Boot, EnsuresAdmin, Writers, LockInv, Alone, TypeOK, Task
  <2>2. Stored' = Stored /\ ~broken /\ ~broken'
    BY <1>1, <2>1 DEF Boot, Stored, Seen, Whole
  <2>3. Answered' = Answered
    BY <1>1, <2>1 DEF Boot, EnsuresAdmin, Answered, Writers
  <2>4. CASE UNCHANGED <<pc, op>>
    BY <2>2, <2>3, <2>4 DEF store!vars
  <2>5. CASE ~UNCHANGED <<pc, op>>
    <3>1. PICK x \in Value \cup {NoValue} : op' = [op EXCEPT ![Main] = CreateAdmin(x)]
      BY <1>1, <2>5 DEF Boot, EnsuresAdmin
    <3>2. Main \in Task /\ CreateAdmin(x) \in Op /\ pc[Main] = "idle"
      BY <1>1 DEF Boot, Task, CreateAdmin, Op, LockInv, Alone
    <3>3. store!Call(Main, CreateAdmin(x))
      BY <3>1, <3>2, <2>2, <2>3 DEF store!Call, LockInv, CallsInOrder
    <3> QED
      BY <3>2, <3>3 DEF store!Next
  <2> QED
    BY <2>4, <2>5
<1>2. CASE Serve
  BY <1>2 DEF Serve, store!vars, Stored, Answered, Writers
<1>3. CASE BootDies
  <2>1. Writers = {} /\ Writers' = {} /\ \A t \in Task : pc[t] = "idle"
    BY <1>3 DEF BootDies, Writers, LockInv, Alone, TypeOK, Task
  <2>2. Stored' = DefaultDoc /\ broken'
    BY <1>3, <2>1 DEF BootDies, Stored, Torn
  <2>3. /\ op = [t \in Task |-> NoOp] /\ op' = op
        /\ Answered' = [t \in Task |-> NoAnswer]
    BY <1>3, <2>1 DEF BootDies, Answered, LockInv, CallsInOrder, TypeOK
  <2> QED
    BY <2>2, <2>3 DEF store!Next, store!Crash
<1>7. CASE Crash
  <2>1. Writers' = {} /\ op' = [t \in Task |-> NoOp]
    BY <1>7 DEF Crash, Writers
  <2>2. Answered' = [t \in Task |-> NoAnswer]
    BY <1>7 DEF Crash, Answered
  <2>3. (Stored' = Stored /\ broken' = broken) \/ Stored' = DefaultDoc
    <3>1. CASE Writers = {}
      BY <1>7, <2>1, <3>1 DEF Crash, Stored
    <3>2. CASE Writers # {}
      BY <1>7, <2>1, <3>2 DEF Crash, Stored, LockInv, FileFollows, Empty, Torn
    <3> QED
      BY <3>1, <3>2
  <2> QED
    BY <2>1, <2>2, <2>3 DEF store!Next, store!Crash
<1>4. ASSUME NEW t \in Handler, NEW o \in Op, HandlerCalls(t, o)
      PROVE  store!Next
  <2>1. t \in Task /\ Writers = {} /\ Writers' = {} /\ ~broken
    BY <1>4 DEF HandlerCalls, Task, Writers, LockInv, Alone, FileFollows, TypeOK
  <2>2. Stored' = Stored /\ broken' = broken /\ Answered' = Answered
    BY <1>4, <2>1 DEF HandlerCalls, Stored, Answered, Writers
  <2>3. store!Call(t, o)
    BY <1>4, <2>1, <2>2 DEF HandlerCalls, store!Call, LockInv, CallsInOrder
  <2> QED
    BY <2>1, <2>3 DEF store!Next
<1>5. ASSUME NEW t \in Task, Proceed(t) PROVE [store!Next]_(store!vars)
  <2>0. op[t] # NoOp \/ pc[t] = "idle"
    BY DEF LockInv, CallsInOrder
  <2>1. CASE LoadFails(t)
    BY <2>1 DEF LoadFails, LockInv, Alone, FileFollows, Writers, TypeOK, Task
  <2>2. ASSUME pc[t] = "load" PROVE /\ Writers = {} /\ Answered = answer
                                   /\ Stored = file.doc /\ Seen = file.doc
                                   /\ ~broken /\ op[t] # NoOp
                                   /\ answer[t] = NoAnswer
    BY <2>0, <2>2, StoredFile
    DEF LockInv, Alone, FileFollows, CallsInOrder, Writers, TypeOK, Task, Seen
  <2>3. ASSUME NEW a, pc[t] = "load", Answers(t, a), UNCHANGED file
        PROVE  /\ Stored' = Stored /\ broken' = broken
               /\ Answered' = [Answered EXCEPT ![t] = a]
    <3>1. Writers' = {}
      BY <2>2, <2>3 DEF Answers, Writers, TypeOK
    <3> QED
      BY <2>2, <2>3, <3>1 DEF Answers, Stored, Answered, Writers, TypeOK
  <2>4. CASE LoadReads(t)
    BY <2>2, <2>3, <2>4 DEF LoadReads, Answers, store!Read, store!Next
  <2>5. CASE LoadRefuses(t)
    BY <2>2, <2>3, <2>5 DEF LoadRefuses, Answers, store!Refuse, store!Next
  <2>6. CASE LoadChanges(t)
    <3>1. Writers' = {} /\ Writers = {}
      BY <2>2, <2>6 DEF LoadChanges, Writers, TypeOK
    <3> QED
      BY <2>6, <3>1 DEF LoadChanges, store!vars, Stored, Answered, Writers
  <2>7. CASE Truncate(t)
    <3>1. Writers = {} /\ Writers' = {t} /\ process # "down"
      BY <2>7 DEF Truncate, Writers, LockInv, Alone, TypeOK, Task
    <3>2. /\ op[t] # NoOp /\ op[t].kind # "read" /\ ~Refused(Stored, op[t])
          /\ answer[t] = NoAnswer /\ file.is = "whole" /\ ~broken
          /\ Stored = file.doc /\ snap[t] = Effect(Stored, op[t])
      BY <2>7, <3>1 DEF Truncate, Stored, LockInv, FileFollows, CopyFresh,
                        CallsInOrder
    <3>3. (CHOOSE u \in Writers' : TRUE) = t
      BY <3>1
    <3>4. Stored' = Effect(Stored, op[t]) /\ ~broken'
      BY <2>7, <3>1, <3>2, <3>3 DEF Truncate, Stored, Empty
    <3>5. Answered = answer
      BY <3>1, StoredFile
    <3>6. Answered' = [Answered EXCEPT ![t] = Answer("created", {})]
      BY <2>7, <3>1, <3>5 DEF Truncate, Answered, Writers, TypeOK
    <3>7. store!Change(t)
      BY <2>7, <3>2, <3>4, <3>5, <3>6 DEF Truncate, store!Change
    <3> QED
      BY <3>7 DEF store!Next
  <2>8. CASE Write(t)
    <3>1. Stored = snap[t] /\ Writers = {t} /\ file = Empty
      BY <2>8, StoredCopy DEF Write, LockInv, FileFollows
    <3>2. file' = Whole(snap[t]) /\ Writers' = {}
      BY <2>8, <3>1 DEF Write, Answers, Empty, Writers, TypeOK
    <3>3. Stored' = Stored /\ broken' = broken /\ op' = op
      BY <2>8, <3>1, <3>2 DEF Write, Answers, Stored, Whole, Empty
    <3>4. Answered' = Answered
      BY <2>8, <3>1, <3>2 DEF Write, Answers, Answered, Writers, TypeOK
    <3> QED
      BY <3>3, <3>4 DEF store!vars
  <2>9. CASE Return(t)
    <3>1. Writers = {} /\ Writers' = {}
      BY <2>9 DEF Return, Writers, LockInv, Alone, TypeOK
    <3>2. Stored' = Stored /\ broken' = broken /\ Answered = answer
      BY <2>9, <3>1, StoredFile DEF Return, Stored
    <3>3. Answered' = [Answered EXCEPT ![t] = NoAnswer]
      BY <2>9, <3>1, <3>2 DEF Return, Answered, Writers, TypeOK
    <3>4. answer[t] # NoAnswer
      BY <2>9 DEF Return, LockInv, CallsInOrder
    <3> QED
      BY <2>9, <3>2, <3>3, <3>4 DEF Return, store!Return, store!Next
  <2> QED
    BY <1>5, <2>1, <2>4, <2>5, <2>6, <2>7, <2>8, <2>9 DEF Proceed, WriteFails
<1>6. CASE UNCHANGED vars
  BY <1>6 DEF vars, store!vars, Stored, Answered, Writers
<1> QED
  BY <1>1, <1>2, <1>3, <1>4, <1>5, <1>6, <1>7 DEF Next

\* Under the lock, with a disk that works, the database implements Store: an
\* operation takes effect at one moment, and a crash loses all or nothing.
THEOREM Implements ==
  ASSUME Stream = {}, ~DiskErrors PROVE Spec => ImplementsStore
<1>1. Init => store!Init
  <2> SUFFICES ASSUME Init PROVE store!Init
    OBVIOUS
  <2>1. Writers = {} /\ Stored = DefaultDoc /\ file.is # "torn"
    BY DEF Init, Writers, Stored, Empty
  <2>2. Answered = [t \in Task |-> NoAnswer]
    BY DEF Init, Answered
  <2> QED
    BY <2>1, <2>2, SameOperators DEF Init, store!Init
<1>2. /\ TypeOK /\ ValidInv /\ LockInv
      /\ TypeOK' /\ LockInv' /\ [Next]_vars
      => [store!Next]_(store!vars)
  BY StoreStep
<1> QED
  BY <1>1, <1>2, LockAlways, PTL DEF Spec, ImplementsStore, store!Spec
=============================================================================

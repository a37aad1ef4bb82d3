----------------------------- MODULE JsonStore -----------------------------
(***************************************************************************)
(* The panel's JSON database (jsondatabase.rs).  An operation reads and    *)
(* parses the whole file, changes the document, and writes all of it back: *)
(* opening the file truncates it, and the contents follow.  The file has   *)
(* no lock of its own.  Handlers call the database under the AppState      *)
(* RwLock; the stream tasks that record a node (handle_all_stream_values)  *)
(* clone the database and call it without the lock.                        *)
(*                                                                         *)
(* Readers of the lock are modelled as taking it alone: they change        *)
(* nothing, so letting several in changes no document.                     *)
(***************************************************************************)
EXTENDS Elements

CONSTANTS
  Handler,     \* tasks that hold the AppState lock while they call
  Stream,      \* tasks that call without it
  Main,        \* the task of main, which calls before anything is served
  Admin,       \* ADMIN_USER
  NoOp,
  Free,        \* the lock has no holder
  DiskErrors,  \* may a write, or the sync after it, fail?
  MaxCrashes   \* bound: how often the process dies

ASSUME JsonStoreAssumption ==
  /\ Main \notin Handler \cup Stream
  /\ Handler \cap Stream = {}
  /\ Admin \in Name /\ Sort[Admin] = "user"
  /\ NoOp \notin Op
  /\ Free \notin Handler \cup Stream \cup {Main}
  /\ DiskErrors \in BOOLEAN
  /\ MaxCrashes \in Nat

Task == Handler \cup Stream \cup {Main}

VARIABLES
  file,     \* what database.json holds
  process,  \* the panel: down, booting or serving
  lock,     \* who holds the AppState lock
  pc,       \* where each task stands
  op,       \* the operation it performs
  snap,     \* the document it is about to write
  answer,   \* what the operation returns
  crashes

vars == <<file, process, lock, pc, op, snap, answer, crashes>>

\* The file parses, is empty, or is neither: part of a document, or a
\* document with the tail of a longer one behind it.
Whole(d) == [is |-> "whole", doc |-> d]
Empty == [is |-> "empty", doc |-> {}]
Torn == [is |-> "torn", doc |-> {}]

Stage == {"idle", "load", "truncate", "write", "return"}

Answer(is, d) == [is |-> is, docs |-> d]
NoAnswer == Answer("none", {})

\* Tasks between truncating the file and filling it.
Writers == {t \in Task : pc[t] = "write"}

\* What get_database makes of a file that it can parse, or that is empty.
Seen == IF file.is = "whole" THEN file.doc ELSE DefaultDoc

\* The operation of ensure_admin_user, if ENABLE_ADMIN_USER says so.
CreateAdmin(v) == [kind |-> "create", name |-> Admin, value |-> v]

EnsuresAdmin ==
  \/ /\ pc' = [pc EXCEPT ![Main] = "load"]
     /\ \E v \in Value \cup {NoValue} : op' = [op EXCEPT ![Main] = CreateAdmin(v)]
  \/ UNCHANGED <<pc, op>>

Init ==
  /\ file = Empty                \* JsonBackend::new creates it
  /\ process = "down"
  /\ lock = Free
  /\ pc = [t \in Task |-> "idle"]
  /\ op = [t \in Task |-> NoOp]
  /\ snap = [t \in Task |-> {}]
  /\ answer = [t \in Task |-> NoAnswer]
  /\ crashes = 0

-----------------------------------------------------------------------------
(* Variants with a bug each, substituted for the action they vary. *)

\* JsonBackend::new rewrites every file it opens.
BootResets ==
  /\ process = "down" /\ file.is # "torn"
  /\ process' = "booting"
  /\ file' = Whole(DefaultDoc)
  /\ EnsuresAdmin
  /\ UNCHANGED <<lock, snap, answer, crashes>>

\* A handler that writes takes the lock as a reader.
HandlerCallsShared(t, o) ==
  /\ process = "serving" /\ pc[t] = "idle"
  /\ op' = [op EXCEPT ![t] = o]
  /\ pc' = [pc EXCEPT ![t] = "load"]
  /\ UNCHANGED <<file, process, lock, snap, answer, crashes>>

-----------------------------------------------------------------------------
(* The process.  JsonBackend::new puts the default into an empty file and  *)
(* does not ask whether that worked.  It writes it into one that does not  *)
(* parse as well, which parses no better for it, and main then returns at  *)
(* get_settings()?: no action starts on it.                                *)

Boot ==
  /\ process = "down" /\ file.is # "torn"
  /\ process' = "booting"
  /\ \/ file' = Whole(Seen)
     \/ DiskErrors /\ file.is = "empty" /\ file' \in {Empty, Torn}
  /\ EnsuresAdmin
  /\ UNCHANGED <<lock, snap, answer, crashes>>

\* The process dies within the write of JsonBackend::new.  Nothing else runs
\* by then, so its start and its end are one step.
BootDies ==
  /\ process = "down" /\ file.is = "empty" /\ crashes < MaxCrashes
  /\ crashes' = crashes + 1
  /\ file' = Torn
  /\ UNCHANGED <<process, lock, pc, op, snap, answer>>

\* ensure_admin_user ignores its result; get_settings()? does not.
Serve ==
  /\ process = "booting" /\ pc[Main] = "idle"
  /\ process' = IF file.is = "torn" THEN "down" ELSE "serving"
  /\ UNCHANGED <<file, lock, pc, op, snap, answer, crashes>>

\* The process dies; what a write was doing stays where it was.
Crash ==
  /\ process # "down" /\ crashes < MaxCrashes
  /\ crashes' = crashes + 1
  /\ process' = "down"
  /\ lock' = Free
  /\ file' = file \/ (file' = Torn /\ Writers # {})
  /\ pc' = [t \in Task |-> "idle"]
  /\ op' = [t \in Task |-> NoOp]
  /\ snap' = [t \in Task |-> {}]
  /\ answer' = [t \in Task |-> NoAnswer]

-----------------------------------------------------------------------------
(* The calls. *)

\* A handler calls with the lock in hand.
HandlerCalls(t, o) ==
  /\ process = "serving" /\ pc[t] = "idle" /\ lock = Free
  /\ lock' = t
  /\ op' = [op EXCEPT ![t] = o]
  /\ pc' = [pc EXCEPT ![t] = "load"]
  /\ UNCHANGED <<file, process, snap, answer, crashes>>

\* A stream task creates the node that fetch_all_nodes did not show it, under
\* the address of its stream.
StreamCalls(t, o) ==
  /\ process = "serving" /\ pc[t] = "idle"
  /\ o.kind = "create" /\ file.is # "torn"
  /\ Sort[o.name] \in {"custom", "node"} /\ o.value # NoValue
  /\ [name |-> o.name, value |-> o.value] \notin Seen
  /\ op' = [op EXCEPT ![t] = o]
  /\ pc' = [pc EXCEPT ![t] = "load"]
  /\ UNCHANGED <<file, process, lock, snap, answer, crashes>>

Answers(t, a) ==
  /\ pc' = [pc EXCEPT ![t] = "return"]
  /\ answer' = [answer EXCEPT ![t] = a]
  /\ UNCHANGED <<process, lock, op, snap, crashes>>

\* The file does not parse, or another task has written part of it.
LoadFails(t) ==
  /\ pc[t] = "load"
  /\ file.is = "torn" \/ Writers # {}
  /\ Answers(t, Answer("error", {}))
  /\ UNCHANGED file

LoadReads(t) ==
  /\ pc[t] = "load" /\ file.is # "torn" /\ op[t].kind = "read"
  /\ Answers(t, Answer("read", Seen))
  /\ UNCHANGED file

LoadRefuses(t) ==
  /\ pc[t] = "load" /\ file.is # "torn" /\ Refused(Seen, op[t])
  /\ Answers(t, Answer("error", {}))
  /\ UNCHANGED file

\* The operation changes its copy; one that finds nothing to remove or to
\* edit writes the document back as it was.
LoadChanges(t) ==
  /\ pc[t] = "load" /\ file.is # "torn"
  /\ op[t].kind # "read" /\ ~Refused(Seen, op[t])
  /\ snap' = [snap EXCEPT ![t] = Effect(Seen, op[t])]
  /\ pc' = [pc EXCEPT ![t] = "truncate"]
  /\ UNCHANGED <<file, process, lock, op, answer, crashes>>

\* write_database opens the file with truncate(true).
Truncate(t) ==
  /\ pc[t] = "truncate"
  /\ file' = Empty
  /\ pc' = [pc EXCEPT ![t] = "write"]
  /\ UNCHANGED <<process, lock, op, snap, answer, crashes>>

\* A shorter document leaves the tail of a longer one behind it.
Write(t) ==
  /\ pc[t] = "write"
  /\ \/ file' = Whole(snap[t])
     \/ /\ file' = Torn
        /\ file.is # "empty" /\ ~(file.is = "whole" /\ file.doc \subseteq snap[t])
  /\ Answers(t, Answer("created", {}))

\* The open, the write, or the sync after it fails.  Most operations drop the
\* result.
WriteFails(t) ==
  /\ DiskErrors
  /\ \/ pc[t] = "truncate" /\ UNCHANGED file
     \/ pc[t] = "write" /\ file' \in {file, Torn, Whole(snap[t])}
  /\ Answers(t, Answer(IF Checked(op[t]) THEN "error" ELSE "created", {}))

Return(t) ==
  /\ pc[t] = "return"
  /\ pc' = [pc EXCEPT ![t] = "idle"]
  /\ op' = [op EXCEPT ![t] = NoOp]
  /\ snap' = [snap EXCEPT ![t] = {}]
  /\ answer' = [answer EXCEPT ![t] = NoAnswer]
  /\ lock' = IF t \in Handler THEN Free ELSE lock
  /\ UNCHANGED <<file, process, crashes>>

Proceed(t) ==
  \/ LoadFails(t) \/ LoadReads(t) \/ LoadRefuses(t) \/ LoadChanges(t)
  \/ Truncate(t) \/ Write(t) \/ WriteFails(t) \/ Return(t)

Next ==
  \/ Boot \/ BootDies \/ Serve \/ Crash
  \/ \E t \in Handler, o \in Op : HandlerCalls(t, o)
  \/ \E t \in Stream, o \in Op : StreamCalls(t, o)
  \/ \E t \in Task : Proceed(t)

Spec == Init /\ [][Next]_vars

-----------------------------------------------------------------------------
(* Properties. *)

TypeOK ==
  /\ file.is \in {"whole", "empty", "torn"} /\ file.doc \in SUBSET Element
  /\ process \in {"down", "booting", "serving"}
  /\ lock \in Handler \cup {Free}
  /\ pc \in [Task -> Stage]
  /\ op \in [Task -> Op \cup {NoOp}]
  /\ snap \in [Task -> SUBSET Element]
  /\ answer \in [Task -> [is : {"none", "created", "error", "read"},
                          docs : SUBSET Element]]
  /\ crashes \in 0..MaxCrashes

\* A document has its settings, and no name twice.
Valid(d) ==
  /\ Named(d, Settings) # {}
  /\ \A e, f \in d : e.name = f.name => e = f

\* A file that parses holds a valid document, whatever interleaves or fails.
FileValid == file.is = "whole" => Valid(file.doc)

\* The element a handler created is there when the call returns.
CreatedIsThere ==
  Writers = {} => \A t \in Handler :
    answer[t].is = "created" /\ op[t].kind = "create" =>
      file.is = "whole" /\ Named(file.doc, op[t].name) # {}

\* The document of Store: a write takes effect when it truncates the file.
Stored ==
  IF file.is = "whole" THEN file.doc
  ELSE IF Writers # {} THEN snap[CHOOSE t \in Writers : TRUE]
  ELSE DefaultDoc
Answered == [t \in Task |-> IF pc[t] = "write" THEN Answer("created", {})
                            ELSE answer[t]]

store == INSTANCE Store WITH
  doc <- Stored, broken <- (file.is = "torn"), answer <- Answered

\* Under the lock and with a disk that works, the database is a store whose
\* operations are atomic, and a crash loses everything or nothing.
ImplementsStore == store!Spec
=============================================================================

----------------------------- MODULE NodeProcess -----------------------------
(***************************************************************************)
(* How the node daemon runs one game server: the connection tasks, which   *)
(* start it, stop it and report on it, their writer tasks, which follow    *)
(* its output, and the health monitor, which notices that it has exited.   *)
(*                                                                         *)
(* Each field of AppState has a mutex of its own, and an action is one     *)
(* critical section.  Three mutexes are held across an await or another    *)
(* critical section, and are modelled as held:                             *)
(*   authenticated_origins, whose guard lives as long as the line that     *)
(*     its connection handles: the daemon handles one line at a time;      *)
(*   server_running, held while a reply to server_state waits for room in  *)
(*     the connection's queue, while the monitor resets the state, and     *)
(*     while a writer greets its peer;                                     *)
(*   server_output_tx, held by the writer that greets.                     *)
(***************************************************************************)
EXTENDS Naturals, FiniteSets

CONSTANTS
  Conn,          \* connections
  Proc,          \* processes the daemon may spawn
  None,          \* no process, no connection
  OutCapacity,   \* capacity of a connection's out_tx queue
  MaxLines       \* bound: lines that all connections receive

ASSUME NodeProcessAssumption ==
  /\ None \notin Proc
  /\ None \notin Conn
  /\ OutCapacity \in Nat \ {0}
  /\ MaxLines \in Nat

VARIABLES
  reader,     \* where the task that reads each connection stands
  writer,     \* where the task that writes to it stands
  peer,       \* connections whose other end is open
  queue,      \* replies in out_tx
  rx,         \* the process whose output the writer follows
  unsure,     \* needs_server_status_check
  guard,      \* who holds authenticated_origins
  child,      \* the process that start_server_with_broadcast spawned
  monitor,    \* where the health monitor stands
  running,    \* AppState.server_running
  process,    \* AppState.server_process
  outputTx,   \* AppState.server_output_tx: the process it carries
  stdin,      \* shared_stdin: the process it leads to
  alive,      \* processes that run
  streaming,  \* processes whose channel a task of the daemon still holds
  spawned,    \* processes ever spawned
  lines       \* lines received

connVars  == <<peer, queue, rx, unsure>>
stateVars == <<running, process, outputTx, stdin>>
procVars  == <<alive, streaming, spawned>>
vars == <<reader, writer, connVars, guard, child, monitor, stateVars, procVars,
          lines>>

\* Where handling a line begins: start_server, stop_server, server_state.
Line == {"check", "stop", "state"}

\* A reader reads, waits for the guard with a line, or handles the line.
Starting == {"check", "take", "untrack", "spawn", "stdin", "process",
             "output", "run"}
Handling == Starting \cup {"stop", "state", "reply"}
ReaderStage == Handling \cup {"none", "read", "wait", "end"}

WriterStage == {"none", "check", "greet", "select", "gone"}
MonitorStage == {"idle", "exited", "missing", "reset", "silence"}

\* The mutexes that are held from one action to a later one.
OutputFree == \A c \in Conn : writer[c] # "greet"
RunningFree ==
  /\ OutputFree
  /\ \A c \in Conn : reader[c] # "reply"
  /\ monitor \notin {"reset", "silence"}

\* Every sender of the process's output is gone.
Closed(p) == p # outputTx /\ p \notin streaming

Reads(c, from, to) == reader[c] = from /\ reader' = [reader EXCEPT ![c] = to]
Writes(c, from, to) == writer[c] = from /\ writer' = [writer EXCEPT ![c] = to]

\* The line is done: its guard is dropped with it.
Done(c, from) == Reads(c, from, "read") /\ guard' = None

Init ==
  /\ reader = [c \in Conn |-> "none"]
  /\ writer = [c \in Conn |-> "none"]
  /\ peer = {}
  /\ queue = [c \in Conn |-> 0]
  /\ rx = [c \in Conn |-> None]
  /\ unsure = [c \in Conn |-> TRUE]
  /\ guard = None
  /\ child = [c \in Conn |-> None]
  /\ monitor = "idle"
  /\ running = FALSE
  /\ process = None /\ outputTx = None /\ stdin = None
  /\ alive = {} /\ streaming = {} /\ spawned = {}
  /\ lines = 0

-----------------------------------------------------------------------------
(* Variants with a bug each, substituted for the action they vary. *)

\* The guard is dropped once the origin is known: lines are handled at once.
HandleUnguarded(c, l) ==
  /\ guard = None
  /\ Reads(c, "wait", l)
  /\ UNCHANGED <<writer, connVars, guard, child, monitor, stateVars, procVars,
                 lines>>

\* The new pipe is stored only when there was none: nobody clears the old one.
SetStdinOnce(c) ==
  /\ Reads(c, "stdin", "process")
  /\ stdin' = IF stdin = None THEN child[c] ELSE stdin
  /\ UNCHANGED <<writer, connVars, guard, child, monitor, running, process,
                 outputTx, procVars, lines>>

\* The monitor takes every process it finds for one that has exited.
MonitorSuspects ==
  /\ monitor = "idle" /\ RunningFree /\ running
  /\ monitor' = "exited"
  /\ UNCHANGED <<reader, writer, connVars, guard, child, stateVars, procVars,
                 lines>>

\* The reset clears the process and leaves the flag as it was.
ResetForgetsFlag ==
  /\ RunningFree
  /\ \/ monitor = "exited" /\ monitor' = "reset"
     \/ monitor = "missing" /\ monitor' = "silence"
  /\ UNCHANGED <<reader, writer, connVars, guard, child, stateVars, procVars,
                 lines>>

\* A writer whose channel is closed goes on waiting for it.
ClosedIgnored(c) ==
  /\ writer[c] = "select" /\ rx[c] # None /\ Closed(rx[c])
  /\ UNCHANGED vars

\* One reply too many fits in the queue.
ReplyOverfills(c) ==
  /\ Done(c, "reply")
  /\ queue[c] <= OutCapacity
  /\ queue' = [queue EXCEPT ![c] = @ + 1]
  /\ UNCHANGED <<writer, peer, rx, unsure, child, monitor, stateVars, procVars,
                 lines>>

-----------------------------------------------------------------------------
(* Connections. *)

\* The accept loop spawns the reader, which subscribes and spawns the writer.
Connect(c) ==
  /\ RunningFree
  /\ Reads(c, "none", "read")
  /\ peer' = peer \cup {c}
  /\ LET sub == IF running THEN outputTx ELSE None IN
       /\ rx' = [rx EXCEPT ![c] = sub]
       /\ unsure' = [unsure EXCEPT ![c] = (sub = None)]
       /\ Writes(c, "none", IF sub = None THEN "check" ELSE "select")
  /\ UNCHANGED <<queue, guard, child, monitor, stateVars, procVars, lines>>

PeerCloses(c) ==
  /\ c \in peer
  /\ peer' = peer \ {c}
  /\ UNCHANGED <<reader, writer, queue, rx, unsure, guard, child, monitor,
                 stateVars, procVars, lines>>

\* read returns 0: the reader ends, and leaves the writer behind.
ReaderEnds(c) ==
  /\ c \notin peer
  /\ Reads(c, "read", "end")
  /\ UNCHANGED <<writer, connVars, guard, child, monitor, stateVars, procVars,
                 lines>>

Receive(c) ==
  /\ lines < MaxLines
  /\ Reads(c, "read", "wait")
  /\ lines' = lines + 1
  /\ UNCHANGED <<writer, connVars, guard, child, monitor, stateVars, procVars>>

\* The origin is authenticated, and the guard stays for the whole line.
Handle(c, l) ==
  /\ guard = None
  /\ guard' = c
  /\ Reads(c, "wait", l)
  /\ UNCHANGED <<writer, connVars, child, monitor, stateVars, procVars, lines>>

\* The origin is not authenticated: the reader breaks out of its loop.
Refuse(c) ==
  /\ guard = None
  /\ Reads(c, "wait", "end")
  /\ UNCHANGED <<writer, connVars, guard, child, monitor, stateVars, procVars,
                 lines>>

-----------------------------------------------------------------------------
(* start_server_with_broadcast. *)

\* It returns at once when a server runs.
StartChecks(c) ==
  /\ RunningFree
  /\ IF running THEN Done(c, "check") ELSE Reads(c, "check", "take") /\ UNCHANGED guard
  /\ UNCHANGED <<writer, connVars, child, monitor, stateVars, procVars, lines>>

\* The process it finds is killed, and has exited when kill() returns.
StartTakes(c) ==
  /\ Reads(c, "take", "untrack")
  /\ process' = None
  /\ alive' = alive \ {process}
  /\ UNCHANGED <<writer, connVars, guard, child, monitor, running, outputTx,
                 stdin, streaming, spawned, lines>>

StartUntracks(c) ==
  /\ OutputFree
  /\ Reads(c, "untrack", "spawn")
  /\ outputTx' = None
  /\ UNCHANGED <<writer, connVars, guard, child, monitor, running, process,
                 stdin, procVars, lines>>

StartSpawns(c) ==
  /\ Reads(c, "spawn", "stdin")
  /\ \E p \in Proc \ spawned :
       /\ child' = [child EXCEPT ![c] = p]
       /\ alive' = alive \cup {p}
       /\ streaming' = streaming \cup {p}
       /\ spawned' = spawned \cup {p}
  /\ UNCHANGED <<writer, connVars, guard, monitor, stateVars, lines>>

\* No current server, no provider, no start command, or spawn() fails.
StartFails(c) ==
  /\ Done(c, "spawn")
  /\ UNCHANGED <<writer, connVars, child, monitor, stateVars, procVars, lines>>

StartSetsStdin(c) ==
  /\ Reads(c, "stdin", "process")
  /\ stdin' = child[c]
  /\ UNCHANGED <<writer, connVars, guard, child, monitor, running, process,
                 outputTx, procVars, lines>>

StartSetsProcess(c) ==
  /\ Reads(c, "process", "output")
  /\ process' = child[c]
  /\ UNCHANGED <<writer, connVars, guard, child, monitor, running, outputTx,
                 stdin, procVars, lines>>

StartSetsOutput(c) ==
  /\ OutputFree
  /\ Reads(c, "output", "run")
  /\ outputTx' = child[c]
  /\ UNCHANGED <<writer, connVars, guard, child, monitor, running, process,
                 stdin, procVars, lines>>

StartSetsRunning(c) ==
  /\ RunningFree
  /\ Done(c, "run")
  /\ running' = TRUE
  /\ UNCHANGED <<writer, connVars, child, monitor, process, outputTx, stdin,
                 procVars, lines>>

-----------------------------------------------------------------------------
(* stop_server and server_state. *)

\* The stop keyword goes down the pipe, if there is one: nothing else of the
\* state changes, and an error of the pipe is dropped.
Stop(c) ==
  /\ Done(c, "stop")
  /\ UNCHANGED <<writer, connVars, child, monitor, stateVars, procVars, lines>>

\* The flag is locked, and stays locked until the reply is sent.
Report(c) ==
  /\ RunningFree
  /\ Reads(c, "state", "reply")
  /\ UNCHANGED <<writer, connVars, guard, child, monitor, stateVars, procVars,
                 lines>>

\* send waits for room, and fails at once when the writer has ended.
Reply(c) ==
  /\ Done(c, "reply")
  /\ IF writer[c] = "gone"
     THEN UNCHANGED queue
     ELSE queue[c] < OutCapacity /\ queue' = [queue EXCEPT ![c] = @ + 1]
  /\ UNCHANGED <<writer, peer, rx, unsure, child, monitor, stateVars, procVars,
                 lines>>

-----------------------------------------------------------------------------
(* The writer of a connection. *)

\* needs_server_status_check: subscribe if a server runs, and greet the peer
\* with both mutexes in hand.
WriterChecks(c) ==
  /\ RunningFree
  /\ IF running /\ outputTx # None
     THEN /\ Writes(c, "check", "greet")
          /\ rx' = [rx EXCEPT ![c] = outputTx]
          /\ unsure' = [unsure EXCEPT ![c] = FALSE]
     ELSE Writes(c, "check", "select") /\ UNCHANGED <<rx, unsure>>
  /\ UNCHANGED <<reader, peer, queue, guard, child, monitor, stateVars,
                 procVars, lines>>

WriterGreets(c) ==
  /\ Writes(c, "greet", "select")
  /\ UNCHANGED <<reader, connVars, guard, child, monitor, stateVars, procVars,
                 lines>>

\* After each branch of select the loop starts over.
Again(c) == Writes(c, "select", IF unsure[c] THEN "check" ELSE "select")

WriterReplies(c) ==
  /\ queue[c] > 0
  /\ queue' = [queue EXCEPT ![c] = @ - 1]
  /\ Again(c)
  /\ UNCHANGED <<reader, peer, rx, unsure, guard, child, monitor, stateVars,
                 procVars, lines>>

\* recv says Closed, and says it again until the writer subscribes anew.
WriterClosed(c) ==
  /\ rx[c] # None /\ Closed(rx[c])
  /\ unsure' = [unsure EXCEPT ![c] = TRUE]
  /\ Writes(c, "select", "check")
  /\ UNCHANGED <<reader, peer, queue, rx, guard, child, monitor, stateVars,
                 procVars, lines>>

\* retry_interval ticks, or 100 ms pass.
WriterSleeps(c) ==
  /\ unsure[c]
  /\ Again(c)
  /\ UNCHANGED <<reader, connVars, guard, child, monitor, stateVars, procVars,
                 lines>>

\* A write to a peer that has closed fails, and the writer ends.
WriterFails(c) ==
  /\ c \notin peer
  /\ \/ Writes(c, "greet", "gone")
     \/ (queue[c] > 0 \/ rx[c] \in alive) /\ Writes(c, "select", "gone")
  /\ UNCHANGED <<reader, connVars, guard, child, monitor, stateVars, procVars,
                 lines>>

-----------------------------------------------------------------------------
(* The health monitor.  It drops both of its guards before it resets the   *)
(* state, and takes them again one after the other.                        *)

MonitorLooks ==
  /\ monitor = "idle" /\ RunningFree /\ running
  /\ \/ process = None /\ monitor' = "missing"
     \/ process # None /\ process \notin alive /\ monitor' = "exited"
  /\ UNCHANGED <<reader, writer, connVars, guard, child, stateVars, procVars,
                 lines>>

MonitorResets ==
  /\ RunningFree
  /\ \/ monitor = "exited" /\ monitor' = "reset"
     \/ monitor = "missing" /\ monitor' = "silence"
  /\ running' = FALSE
  /\ UNCHANGED <<reader, writer, connVars, guard, child, process, outputTx,
                 stdin, procVars, lines>>

\* The child is dropped, which kills nothing.
MonitorForgets ==
  /\ monitor = "reset" /\ monitor' = "silence"
  /\ process' = None
  /\ UNCHANGED <<reader, writer, connVars, guard, child, running, outputTx,
                 stdin, procVars, lines>>

MonitorSilences ==
  /\ OutputFree
  /\ monitor = "silence" /\ monitor' = "idle"
  /\ outputTx' = None
  /\ UNCHANGED <<reader, writer, connVars, guard, child, running, process,
                 stdin, procVars, lines>>

-----------------------------------------------------------------------------
(* The server process. *)

ProcessExits(p) ==
  /\ p \in alive
  /\ alive' = alive \ {p}
  /\ UNCHANGED <<reader, writer, connVars, guard, child, monitor, stateVars,
                 streaming, spawned, lines>>

\* The tasks that read stdout and stderr come to the end of them.  They are
\* spawned, and the starter's own sender dropped, once the flag is set.
StreamEnds(p) ==
  /\ p \in streaming \ alive
  /\ \A c \in Conn : reader[c] \in Starting => child[c] # p
  /\ streaming' = streaming \ {p}
  /\ UNCHANGED <<reader, writer, connVars, guard, child, monitor, stateVars,
                 alive, spawned, lines>>

\* What a reader does with what it received.
Proceeds(c) ==
  \/ \E l \in Line : Handle(c, l)
  \/ Refuse(c) \/ ReaderEnds(c)
  \/ StartChecks(c) \/ StartTakes(c) \/ StartUntracks(c)
  \/ StartSpawns(c) \/ StartFails(c)
  \/ StartSetsStdin(c) \/ StartSetsProcess(c)
  \/ StartSetsOutput(c) \/ StartSetsRunning(c)
  \/ Stop(c) \/ Report(c) \/ Reply(c)

WriterStep(c) ==
  \/ WriterChecks(c) \/ WriterGreets(c) \/ WriterReplies(c)
  \/ WriterClosed(c) \/ WriterSleeps(c) \/ WriterFails(c)

MonitorStep ==
  \/ MonitorLooks \/ MonitorResets \/ MonitorForgets \/ MonitorSilences

Next ==
  \/ \E c \in Conn :
       \/ Connect(c) \/ PeerCloses(c)
       \/ Receive(c) \/ Proceeds(c) \/ WriterStep(c)
  \/ MonitorStep
  \/ \E p \in Proc : ProcessExits(p) \/ StreamEnds(p)

\* The runtime polls every ready task, tokio's mutexes are first in first
\* out, and select! picks among its ready branches at random: so a step that
\* is possible again and again is taken.  A peer that stays reads what it is
\* sent, and an exited server leaves nobody behind who holds its pipes.
\* Nothing obliges a client to send a line or a server to exit.
Fairness ==
  /\ \A c \in Conn :
       /\ SF_vars(Proceeds(c))
       /\ SF_vars(WriterChecks(c) \/ WriterGreets(c) \/ WriterFails(c))
       /\ SF_vars(WriterReplies(c))
       /\ SF_vars(WriterClosed(c) \/ WriterSleeps(c))
  /\ SF_vars(MonitorStep)
  /\ \A p \in Proc : WF_vars(StreamEnds(p))

Spec == Init /\ [][Next]_vars
FairSpec == Spec /\ Fairness

-----------------------------------------------------------------------------
(* Properties. *)

TypeOK ==
  /\ reader \in [Conn -> ReaderStage]
  /\ writer \in [Conn -> WriterStage]
  /\ peer \in SUBSET Conn
  /\ queue \in [Conn -> 0..OutCapacity]
  /\ rx \in [Conn -> Proc \cup {None}]
  /\ unsure \in [Conn -> BOOLEAN]
  /\ guard \in Conn \cup {None}
  /\ child \in [Conn -> Proc \cup {None}]
  /\ monitor \in MonitorStage
  /\ running \in BOOLEAN
  /\ process \in Proc \cup {None}
  /\ outputTx \in Proc \cup {None}
  /\ stdin \in Proc \cup {None}
  /\ alive \in SUBSET Proc
  /\ streaming \in SUBSET Proc
  /\ spawned \in SUBSET Proc
  /\ lines \in 0..MaxLines

\* However starts, stops and the monitor interleave, the daemon never has two
\* servers at work: a process it loses track of would keep the port and the
\* world files.  Nothing but the guard of the line keeps two starts apart.
OneServer == \A p, q \in alive : p = q

\* No panel is told that the server is down while one runs.
DownIsDown ==
  \A c \in Conn : reader[c] = "reply" /\ ~running => alive = {}

\* A stop goes to the server that runs, not into the pipe of an earlier one:
\* the monitor leaves shared_stdin as it was.
StopReachesServer ==
  \A c \in Conn : reader[c] = "stop" => alive \subseteq {stdin}

\* The flag follows the process: a server that has exited is not running
\* forever.
ExitNoticed ==
  \A p \in Proc : (process = p /\ running /\ p \notin alive) ~> ~running

\* A writer comes to follow the server that runs, if it goes on running:
\* also one that followed the server before it.
OutputFollowed ==
  \A c \in Conn, p \in Proc :
    (outputTx = p /\ running /\ writer[c] \in {"check", "select"}) ~>
      (rx[c] = p \/ outputTx # p \/ c \notin peer)
=============================================================================

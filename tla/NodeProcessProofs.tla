-------------------------- MODULE NodeProcessProofs --------------------------
(***************************************************************************)
(* That the daemon of NodeProcess runs one server and reports on it truly, *)
(* for any number of connections, processes and lines.                     *)
(***************************************************************************)
EXTENDS NodeProcess, TLAPS

USE NodeProcessAssumption

\* A line that is being handled has the guard.
GuardHeld == \A c \in Conn : reader[c] \in Handling => guard = c

\* The stages of a start after its check, split where it spawns.
Early == {"take", "untrack", "spawn"}
Late == {"stdin", "process", "output", "run"}

\* A start under way found nothing that runs, and the monitor rests.
StartAlone ==
  \A c \in Conn : reader[c] \in Early \cup Late => ~running /\ monitor = "idle"

\* What a start has spawned and stored so far.
StartStored ==
  \A c \in Conn :
    /\ reader[c] \in Early \cup {"stdin", "process"} => process = None
    /\ reader[c] \in Early => alive = {}
    /\ reader[c] \in Late => alive \subseteq {child[c]} /\ child[c] \in Proc
    /\ reader[c] \in Late \ {"stdin"} => stdin = child[c]
    /\ reader[c] \in {"output", "run"} => process = child[c]

\* With no start under way, what runs is what AppState holds.
Tracked ==
  (\A c \in Conn : reader[c] \notin Early \cup Late) =>
    /\ running => process # None /\ stdin = process /\ alive \subseteq {process}
    /\ ~running => alive = {} /\ (monitor = "idle" => process = None)

\* The monitor resets what it saw exit, and never finds the process missing.
MonitorSure ==
  /\ monitor # "missing"
  /\ monitor = "exited" => running /\ alive = {}
  /\ monitor \in {"reset", "silence"} => ~running
  /\ monitor = "silence" => process = None

ServerInv == GuardHeld /\ StartAlone /\ StartStored /\ Tracked /\ MonitorSure

-----------------------------------------------------------------------------
\* Type correctness is inductive on its own.
LEMMA TypeStep == TypeOK /\ [Next]_vars => TypeOK'
<1> SUFFICES ASSUME TypeOK, [Next]_vars PROVE TypeOK'
  OBVIOUS
<1> USE DEF TypeOK, ReaderStage, Handling, Starting, WriterStage, MonitorStage,
        Line, Reads, Writes, Done, Again, connVars, stateVars, procVars
<1>1. ASSUME NEW c \in Conn, Connect(c) PROVE TypeOK'
  BY <1>1 DEF Connect
<1>2. ASSUME NEW c \in Conn, PeerCloses(c) \/ Receive(c) PROVE TypeOK'
  BY <1>2 DEF PeerCloses, Receive
<1>3. ASSUME NEW c \in Conn, Proceeds(c) PROVE TypeOK'
  <2>1. CASE \E l \in Line : Handle(c, l)
    BY <2>1 DEF Handle
  <2>2. CASE Refuse(c) \/ ReaderEnds(c)
    BY <2>2 DEF Refuse, ReaderEnds
  <2>3. CASE StartChecks(c) \/ StartTakes(c) \/ StartUntracks(c)
    BY <2>3 DEF StartChecks, StartTakes, StartUntracks
  <2>4. CASE StartSpawns(c)
    BY <2>4 DEF StartSpawns
  <2>5. CASE StartFails(c) \/ StartSetsStdin(c) \/ StartSetsProcess(c)
    BY <2>5 DEF StartFails, StartSetsStdin, StartSetsProcess
  <2>6. CASE StartSetsOutput(c)
    BY <2>6 DEF StartSetsOutput
  <2>9. CASE StartSetsRunning(c)
    BY <2>9 DEF StartSetsRunning
  <2>7. CASE Stop(c) \/ Report(c)
    BY <2>7 DEF Stop, Report
  <2>8. CASE Reply(c)
    <3>1. queue[c] \in 0..OutCapacity /\ queue[c] < OutCapacity
            => queue[c] + 1 \in 0..OutCapacity
      OBVIOUS
    <3>2. queue' \in [Conn -> 0..OutCapacity]
      BY <2>8, <3>1 DEF Reply
    <3> QED
      BY <2>8, <3>2 DEF Reply
  <2> QED
    BY <1>3, <2>1, <2>2, <2>3, <2>4, <2>5, <2>6, <2>7, <2>8, <2>9
       DEF Proceeds
<1>4. ASSUME NEW c \in Conn, WriterStep(c) PROVE TypeOK'
  <2>1. CASE WriterChecks(c)
    <3>1. CASE running /\ outputTx # None
      <4>1. rx' = [rx EXCEPT ![c] = outputTx]
        BY <2>1, <3>1 DEF WriterChecks
      <4>2. unsure' = [unsure EXCEPT ![c] = FALSE]
        BY <2>1, <3>1 DEF WriterChecks
      <4>3. writer' = [writer EXCEPT ![c] = "greet"]
        BY <2>1, <3>1 DEF WriterChecks
      <4>4. UNCHANGED <<reader, peer, queue, guard, child, monitor, stateVars,
                        procVars, lines>>
        BY <2>1 DEF WriterChecks
      <4> QED
        BY <4>1, <4>2, <4>3, <4>4
    <3>2. CASE ~(running /\ outputTx # None)
      BY <2>1, <3>2 DEF WriterChecks
    <3> QED
      BY <3>1, <3>2
  <2>4. CASE WriterGreets(c)
    BY <2>4 DEF WriterGreets
  <2>2. CASE WriterReplies(c)
    <3>1. queue[c] \in 0..OutCapacity /\ queue[c] > 0
            => queue[c] - 1 \in 0..OutCapacity
      OBVIOUS
    <3>2. queue' \in [Conn -> 0..OutCapacity]
      BY <2>2, <3>1 DEF WriterReplies
    <3> QED
      BY <2>2, <3>2 DEF WriterReplies
  <2>3. CASE WriterClosed(c) \/ WriterSleeps(c) \/ WriterFails(c)
    BY <2>3 DEF WriterClosed, WriterSleeps, WriterFails
  <2> QED
    BY <1>4, <2>1, <2>2, <2>3, <2>4 DEF WriterStep
<1>5. ASSUME MonitorStep PROVE TypeOK'
  BY <1>5 DEF MonitorStep, MonitorLooks, MonitorResets, MonitorForgets,
              MonitorSilences
<1>6. ASSUME NEW p \in Proc, ProcessExits(p) \/ StreamEnds(p) PROVE TypeOK'
  BY <1>6 DEF ProcessExits, StreamEnds
<1>7. CASE UNCHANGED vars
  BY <1>7 DEF vars
<1> QED
  BY <1>1, <1>2, <1>3, <1>4, <1>5, <1>6, <1>7 DEF Next

\* Every variable keeps its type.
THEOREM TypeCorrect == Spec => []TypeOK
<1>1. Init => TypeOK
  <2> SUFFICES ASSUME Init PROVE TypeOK
    OBVIOUS
  <2>1. 0 \in 0..OutCapacity /\ 0 \in 0..MaxLines
    OBVIOUS
  <2> QED
    BY <2>1 DEF Init, TypeOK, ReaderStage, WriterStage, MonitorStage
<1> QED
  BY <1>1, TypeStep, PTL DEF Spec

-----------------------------------------------------------------------------
\* What a step of a reader outside a start leaves alone.
Elsewhere == <<guard, child, monitor, running, process, stdin, alive>>

\* Steps that touch nothing ServerInv speaks of, but readers that are neither
\* in a start nor handle a line without the guard.
LEMMA Aside ==
  ASSUME ServerInv, UNCHANGED Elsewhere,
         \A c \in Conn : reader'[c] \in Handling => guard = c,
         \A c \in Conn : reader'[c] \in Early \cup Late
                          \/ reader[c] \in Early \cup Late => reader'[c] = reader[c]
  PROVE  ServerInv'
<1> USE DEF ServerInv, Elsewhere, Early, Late
<1>1. GuardHeld'
  BY DEF GuardHeld
<1>2. StartAlone' /\ StartStored'
  BY DEF StartAlone, StartStored
<1>3. Tracked' /\ MonitorSure'
  BY DEF Tracked, MonitorSure
<1> QED
  BY <1>1, <1>2, <1>3

\* Nothing breaks ServerInv: the guard keeps a second start away, and the flag
\* keeps the monitor away while one start is under way.
LEMMA ServerStep == TypeOK /\ ServerInv /\ [Next]_vars => ServerInv'
<1> SUFFICES ASSUME TypeOK, ServerInv, [Next]_vars PROVE ServerInv'
  OBVIOUS
<1> USE DEF Reads, Done
<1>t. reader \in [Conn -> ReaderStage] /\ guard \in Conn \cup {None}
      /\ child \in [Conn -> Proc \cup {None}]
  BY DEF TypeOK
<1>1. ASSUME NEW c \in Conn,
             Connect(c) \/ Receive(c) \/ ReaderEnds(c) \/ Refuse(c) \/ Report(c)
      PROVE ServerInv'
  <2>1. UNCHANGED Elsewhere
    BY <1>1 DEF Connect, Receive, ReaderEnds, Refuse, Report, Elsewhere,
       stateVars, procVars
  <2>2. \E f, t \in {"none", "read", "wait", "end", "state", "reply"} :
          /\ reader[c] = f /\ reader' = [reader EXCEPT ![c] = t]
          /\ t \in Handling => f \in Handling
    BY <1>1 DEF Connect, Receive, ReaderEnds, Refuse, Report, Handling, Starting
  <2>3. \A d \in Conn : reader'[d] \in Handling => guard = d
    BY <2>2, <1>t DEF ServerInv, GuardHeld
  <2>4. \A d \in Conn : reader'[d] \in Early \cup Late
                         \/ reader[d] \in Early \cup Late => reader'[d] = reader[d]
    BY <2>2, <1>t DEF Early, Late
  <2> QED
    BY <2>1, <2>3, <2>4, Aside
<1>2. ASSUME NEW c \in Conn, PeerCloses(c) \/ WriterStep(c) PROVE ServerInv'
  <2>1. UNCHANGED Elsewhere /\ reader' = reader
    BY <1>2 DEF PeerCloses, WriterStep, WriterChecks, WriterGreets,
       WriterReplies, WriterClosed, WriterSleeps, WriterFails, Elsewhere,
       stateVars, procVars
  <2>2. \A d \in Conn : reader'[d] \in Handling => guard = d
    BY <2>1 DEF ServerInv, GuardHeld
  <2> QED
    BY <2>1, <2>2, Aside
<1>3. ASSUME NEW c \in Conn, NEW l \in Line, Handle(c, l) PROVE ServerInv'
  <2>1. \A d \in Conn : reader[d] \notin Handling
    BY <1>3, NodeProcessAssumption DEF Handle, ServerInv, GuardHeld
  <2>2. UNCHANGED <<child, monitor, running, process, stdin, alive>>
    BY <1>3 DEF Handle, stateVars, procVars
  <2>3. guard' = c /\ reader' = [reader EXCEPT ![c] = l]
    BY <1>3 DEF Handle
  <2>4. \A d \in Conn : reader'[d] \notin Early \cup Late
    BY <2>1, <2>3, <1>t DEF Early, Late, Handling, Starting, Line
  <2>5. GuardHeld'
    BY <2>1, <2>3, <1>t DEF GuardHeld
  <2>6. Tracked' /\ MonitorSure'
    BY <2>1, <2>2 DEF ServerInv, Tracked, MonitorSure, Early, Late, Handling,
       Starting
  <2> QED
    BY <2>4, <2>5, <2>6 DEF ServerInv, StartAlone, StartStored, Early, Late
<1>a. ASSUME NEW c \in Conn, reader[c] \in Handling
      PROVE \A d \in Conn \ {c} : reader[d] \notin Handling
  BY <1>a DEF ServerInv, GuardHeld
<1>4. ASSUME NEW c \in Conn, Stop(c) \/ Reply(c) \/ (running /\ StartChecks(c))
      PROVE ServerInv'
  <2>1. UNCHANGED <<child, monitor, running, process, stdin, alive>>
    BY <1>4 DEF Stop, Reply, StartChecks, stateVars, procVars
  <2>2. reader[c] \in {"stop", "reply", "check"} /\ reader' = [reader EXCEPT ![c] = "read"]
    BY <1>4 DEF Stop, Reply, StartChecks
  <2>3. \A d \in Conn : reader'[d] \notin Handling
    BY <2>2, <1>a, <1>t DEF Handling, Starting
  <2>4. \A d \in Conn : reader[d] \notin Early \cup Late
    BY <2>2, <1>a DEF Early, Late, Handling, Starting
  <2>5. Tracked' /\ MonitorSure'
    BY <2>1, <2>4 DEF ServerInv, Tracked, MonitorSure
  <2> QED
    BY <2>3, <2>5 DEF ServerInv, GuardHeld, StartAlone, StartStored, Early, Late,
       Handling, Starting
<1>5. ASSUME NEW c \in Conn, ~running, StartChecks(c) PROVE ServerInv'
  <2>1. UNCHANGED Elsewhere
    BY <1>5 DEF StartChecks, Elsewhere, stateVars, procVars
  <2>2. reader[c] = "check" /\ reader' = [reader EXCEPT ![c] = "take"]
    BY <1>5 DEF StartChecks
  <2>3. \A d \in Conn : reader[d] \notin Early \cup Late
    BY <2>2, <1>a DEF Early, Late, Handling, Starting
  <2>4. monitor = "idle" /\ process = None /\ alive = {}
    BY <1>5, <2>3 DEF StartChecks, RunningFree, ServerInv, Tracked, MonitorSure,
       TypeOK, MonitorStage
  <2>5. \A d \in Conn \ {c} : reader'[d] \notin Handling
    BY <2>2, <1>a, <1>t DEF Handling, Starting
  <2>6. reader'[c] = "take" /\ guard' = c
    BY <2>1, <2>2, <1>t DEF ServerInv, GuardHeld, Handling, Starting, Elsewhere
  <2>7. GuardHeld' /\ StartAlone' /\ StartStored'
    BY <1>5, <2>1, <2>4, <2>5, <2>6 DEF GuardHeld, StartAlone, StartStored, Early,
       Late, Handling, Starting, Elsewhere
  <2>8. Tracked' /\ MonitorSure'
    BY <1>5, <2>1, <2>4, <2>6 DEF Tracked, MonitorSure, Early, Elsewhere
  <2> QED
    BY <2>7, <2>8 DEF ServerInv
<1>b. ASSUME NEW c \in Conn, NEW to \in Early \cup Late,
             reader[c] \in Early \cup Late,
             reader' = [reader EXCEPT ![c] = to],
             UNCHANGED <<guard, monitor, running>>
      PROVE  /\ reader'[c] = to /\ guard = c /\ GuardHeld' /\ StartAlone'
             /\ \A d \in Conn \ {c} : reader'[d] \notin Early \cup Late
             /\ MonitorSure' /\ Tracked'
  <2>1. \A d \in Conn \ {c} : reader[d] \notin Handling
    BY <1>a, <1>b DEF Early, Late, Handling, Starting
  <2>2. reader'[c] = to /\ \A d \in Conn \ {c} : reader'[d] = reader[d]
    BY <1>b, <1>t
  <2>3. guard = c /\ ~running /\ monitor = "idle"
    BY <1>b DEF ServerInv, GuardHeld, StartAlone, Early, Late, Handling, Starting
  <2>4. GuardHeld'
    BY <1>b, <2>1, <2>2, <2>3 DEF GuardHeld
  <2>5. StartAlone' /\ MonitorSure'
    BY <1>b, <2>3 DEF StartAlone, MonitorSure
  <2>6. \A d \in Conn \ {c} : reader'[d] \notin Early \cup Late
    BY <2>1, <2>2 DEF Early, Late, Handling, Starting
  <2>7. Tracked'
    BY <1>b, <2>2 DEF Tracked
  <2> QED
    BY <2>2, <2>3, <2>4, <2>5, <2>6, <2>7
<1>6. ASSUME NEW c \in Conn, StartTakes(c) PROVE ServerInv'
  <2>1. /\ reader[c] = "take" /\ reader' = [reader EXCEPT ![c] = "untrack"]
        /\ UNCHANGED <<guard, monitor, running>>
    BY <1>6 DEF StartTakes, stateVars
  <2>2. /\ reader'[c] = "untrack" /\ GuardHeld' /\ StartAlone' /\ MonitorSure'
        /\ Tracked' /\ \A d \in Conn \ {c} : reader'[d] \notin Early \cup Late
    BY <2>1, <1>b DEF Early, Late
  <2>3. StartStored'
    BY <1>6, <1>t, <2>1, <2>2 DEF StartTakes, ServerInv, StartStored, Early, Late,
       stateVars, procVars
  <2> QED
    BY <2>2, <2>3 DEF ServerInv
<1>7. ASSUME NEW c \in Conn, StartUntracks(c) PROVE ServerInv'
  <2>1. /\ reader[c] = "untrack" /\ reader' = [reader EXCEPT ![c] = "spawn"]
        /\ UNCHANGED <<guard, monitor, running>>
    BY <1>7 DEF StartUntracks, stateVars
  <2>2. /\ reader'[c] = "spawn" /\ GuardHeld' /\ StartAlone' /\ MonitorSure'
        /\ Tracked' /\ \A d \in Conn \ {c} : reader'[d] \notin Early \cup Late
    BY <2>1, <1>b DEF Early, Late
  <2>3. StartStored'
    BY <1>7, <1>t, <2>1, <2>2 DEF StartUntracks, ServerInv, StartStored, Early, Late,
       stateVars, procVars
  <2> QED
    BY <2>2, <2>3 DEF ServerInv
<1>8. ASSUME NEW c \in Conn, StartSpawns(c) PROVE ServerInv'
  <2>1. /\ reader[c] = "spawn" /\ reader' = [reader EXCEPT ![c] = "stdin"]
        /\ UNCHANGED <<guard, monitor, running>>
    BY <1>8 DEF StartSpawns, stateVars
  <2>2. /\ reader'[c] = "stdin" /\ GuardHeld' /\ StartAlone' /\ MonitorSure'
        /\ Tracked' /\ \A d \in Conn \ {c} : reader'[d] \notin Early \cup Late
    BY <2>1, <1>b DEF Early, Late
  <2>3. StartStored'
    BY <1>8, <1>t, <2>1, <2>2 DEF StartSpawns, ServerInv, StartStored, Early, Late,
       stateVars, procVars
  <2> QED
    BY <2>2, <2>3 DEF ServerInv
<1>9. ASSUME NEW c \in Conn, StartSetsStdin(c) PROVE ServerInv'
  <2>1. /\ reader[c] = "stdin" /\ reader' = [reader EXCEPT ![c] = "process"]
        /\ UNCHANGED <<guard, monitor, running>>
    BY <1>9 DEF StartSetsStdin, stateVars
  <2>2. /\ reader'[c] = "process" /\ GuardHeld' /\ StartAlone' /\ MonitorSure'
        /\ Tracked' /\ \A d \in Conn \ {c} : reader'[d] \notin Early \cup Late
    BY <2>1, <1>b DEF Early, Late
  <2>3. StartStored'
    BY <1>9, <1>t, <2>1, <2>2 DEF StartSetsStdin, ServerInv, StartStored, Early, Late,
       stateVars, procVars
  <2> QED
    BY <2>2, <2>3 DEF ServerInv
<1>10. ASSUME NEW c \in Conn, StartSetsProcess(c) PROVE ServerInv'
  <2>1. /\ reader[c] = "process" /\ reader' = [reader EXCEPT ![c] = "output"]
        /\ UNCHANGED <<guard, monitor, running>>
    BY <1>10 DEF StartSetsProcess, stateVars
  <2>2. /\ reader'[c] = "output" /\ GuardHeld' /\ StartAlone' /\ MonitorSure'
        /\ Tracked' /\ \A d \in Conn \ {c} : reader'[d] \notin Early \cup Late
    BY <2>1, <1>b DEF Early, Late
  <2>3. StartStored'
    BY <1>10, <1>t, <2>1, <2>2 DEF StartSetsProcess, ServerInv, StartStored, Early, Late,
       stateVars, procVars
  <2> QED
    BY <2>2, <2>3 DEF ServerInv
<1>11. ASSUME NEW c \in Conn, StartSetsOutput(c) PROVE ServerInv'
  <2>1. /\ reader[c] = "output" /\ reader' = [reader EXCEPT ![c] = "run"]
        /\ UNCHANGED <<guard, monitor, running>>
    BY <1>11 DEF StartSetsOutput, stateVars
  <2>2. /\ reader'[c] = "run" /\ GuardHeld' /\ StartAlone' /\ MonitorSure'
        /\ Tracked' /\ \A d \in Conn \ {c} : reader'[d] \notin Early \cup Late
    BY <2>1, <1>b DEF Early, Late
  <2>3. StartStored'
    BY <1>11, <1>t, <2>1, <2>2 DEF StartSetsOutput, ServerInv, StartStored, Early, Late,
       stateVars, procVars
  <2> QED
    BY <2>2, <2>3 DEF ServerInv
<1>12. ASSUME NEW c \in Conn, StartFails(c) \/ StartSetsRunning(c) PROVE ServerInv'
  <2>1. /\ reader[c] \in {"spawn", "run"} /\ reader' = [reader EXCEPT ![c] = "read"]
        /\ UNCHANGED <<monitor, process, stdin, alive>>
    BY <1>12 DEF StartFails, StartSetsRunning, stateVars, procVars
  <2>2. \A d \in Conn : reader'[d] \notin Handling
    BY <2>1, <1>a, <1>t DEF Handling, Starting
  <2>3. monitor = "idle" /\ ~running
    BY <2>1 DEF ServerInv, StartAlone, Early, Late
  <2>4. CASE StartFails(c)
    <3>1. ~running' /\ process = None /\ alive = {}
      BY <2>3, <2>4 DEF StartFails, ServerInv, StartStored, Early, Late, stateVars
    <3> QED
      BY <2>1, <2>2, <2>3, <3>1 DEF ServerInv, GuardHeld, StartAlone,
         StartStored, Tracked, MonitorSure, Early, Late, Handling, Starting
  <2>5. CASE StartSetsRunning(c)
    <3>1. /\ running' /\ process = child[c] /\ stdin = child[c]
          /\ alive \subseteq {child[c]} /\ child[c] \in Proc
      BY <2>5 DEF StartSetsRunning, ServerInv, StartStored, Early, Late
    <3> QED
      BY <2>1, <2>2, <2>3, <3>1, NodeProcessAssumption DEF ServerInv, GuardHeld,
         StartAlone, StartStored, Tracked, MonitorSure, Early, Late, Handling,
         Starting
  <2> QED
    BY <1>12, <2>4, <2>5
<1>13. ASSUME MonitorStep PROVE ServerInv'
  <2>1. UNCHANGED <<reader, guard, child, stdin, alive>>
    BY <1>13 DEF MonitorStep, MonitorLooks, MonitorResets, MonitorForgets,
       MonitorSilences, stateVars, procVars
  <2>2. running \/ monitor # "idle"
    BY <1>13 DEF MonitorStep, MonitorLooks, MonitorResets, MonitorForgets,
       MonitorSilences
  <2>3. \A c \in Conn : reader[c] \notin Early \cup Late
    BY <2>2 DEF ServerInv, StartAlone
  <2>4. /\ running => process # None /\ stdin = process /\ alive \subseteq {process}
        /\ ~running => alive = {} /\ (monitor = "idle" => process = None)
    BY <2>3 DEF ServerInv, Tracked
  <2>5. Tracked' /\ MonitorSure'
    BY <1>13, <2>1, <2>4 DEF MonitorStep, MonitorLooks, MonitorResets,
       MonitorForgets, MonitorSilences, ServerInv, MonitorSure, Tracked, stateVars
  <2> QED
    BY <2>1, <2>3, <2>5 DEF ServerInv, GuardHeld, StartAlone, StartStored, Early, Late
<1>14. ASSUME NEW p \in Proc, ProcessExits(p) \/ StreamEnds(p) PROVE ServerInv'
  <2>1. UNCHANGED <<reader, guard, child, monitor, running, process, stdin>>
        /\ alive' \subseteq alive
    BY <1>14 DEF ProcessExits, StreamEnds, stateVars, procVars
  <2> QED
    BY <2>1 DEF ServerInv, GuardHeld, StartAlone, StartStored, Tracked, MonitorSure
<1>15. CASE UNCHANGED vars
  BY <1>15 DEF vars, stateVars, procVars, ServerInv, GuardHeld, StartAlone,
     StartStored, Tracked, MonitorSure
<1>16. ASSUME NEW c \in Conn, Proceeds(c) PROVE ServerInv'
  BY <1>16, <1>1, <1>3, <1>4, <1>5, <1>6, <1>7, <1>8, <1>9, <1>10, <1>11, <1>12
     DEF Proceeds
<1> QED
  BY <1>1, <1>2, <1>13, <1>14, <1>15, <1>16 DEF Next

LEMMA ServerAlways == Spec => [](TypeOK /\ ServerInv)
<1>1. Init => ServerInv
  BY NodeProcessAssumption DEF Init, ServerInv, GuardHeld, StartAlone,
     StartStored, Tracked, MonitorSure, Early, Late, Handling, Starting
<1> QED
  BY <1>1, TypeCorrect, ServerStep, PTL DEF Spec

-----------------------------------------------------------------------------
\* At most one server process is at work, whatever starts, stops, exits and
\* resets interleave.
THEOREM OneAtWork == Spec => []OneServer
<1>1. TypeOK /\ ServerInv => OneServer
  <2> SUFFICES ASSUME TypeOK, ServerInv PROVE OneServer
    OBVIOUS
  <2>1. CASE \E c \in Conn : reader[c] \in Early \cup Late
    BY <2>1 DEF ServerInv, StartStored, OneServer
  <2>2. CASE \A c \in Conn : reader[c] \notin Early \cup Late
    BY <2>2 DEF ServerInv, Tracked, OneServer, TypeOK
  <2> QED
    BY <2>1, <2>2
<1> QED
  BY <1>1, ServerAlways, PTL

\* The handler of a line shares the daemon with no start.
LEMMA NoStart ==
  ASSUME ServerInv, NEW c \in Conn, reader[c] \in {"stop", "reply"}
  PROVE  \A d \in Conn : reader[d] \notin Early \cup Late
BY DEF ServerInv, GuardHeld, Early, Late, Handling, Starting

\* A reply that says the server is down is true when it is made.
THEOREM TrueReports == Spec => []DownIsDown
<1>1. ServerInv => DownIsDown
  BY NoStart DEF ServerInv, Tracked, DownIsDown
<1> QED
  BY <1>1, ServerAlways, PTL

\* What runs when stop_server is handled reads the pipe it is written to.
THEOREM StopArrives == Spec => []StopReachesServer
<1>1. TypeOK /\ ServerInv => StopReachesServer
  BY NoStart DEF ServerInv, Tracked, StopReachesServer, TypeOK
<1> QED
  BY <1>1, ServerAlways, PTL

\* The branch of the monitor for a server that runs without a process is never
\* taken.
THEOREM NeverMissing == Spec => [](monitor # "missing")
<1>1. ServerInv => monitor # "missing"
  BY DEF ServerInv, MonitorSure
<1> QED
  BY <1>1, ServerAlways, PTL
=============================================================================

----------------------------- MODULE Dashboard -----------------------------
(***************************************************************************)
(* What a browser shows of the game server: its console and its status.    *)
(* The link publishes the lines of the node on ws_tx; for each WebSocket a *)
(* task forwards them; the page collects them and shows them in batches,   *)
(* and opens a socket anew when one closes.  The status comes over a       *)
(* stream of its own: every three seconds the panel sends the status it    *)
(* has, and may ask the node for the next one.                             *)
(*                                                                         *)
(* Messages that the page hides (everything is published once more as it   *)
(* came) are left out.  They may fill the channel at any moment, and with  *)
(* it make a receiver lag.  So are the entries that the page writes itself *)
(* ("[WS] connected"), and the count on an entry.                          *)
(***************************************************************************)
EXTENDS Naturals, Sequences, FiniteSets

CONSTANTS
  Text,        \* what the game server prints
  Ready,       \* the line that contains the start keyword
  Bye,         \* the line that contains the stop keyword
  ReadyNote,   \* "Server is ready for connections!"
  Cleaned,     \* what cleanOutput leaves of each message
  Blank,       \* of these, the empty text and "undefined", which are not shown
  Socket,
  NoSocket,
  MaxLines,    \* bound: lines the game server prints
  MaxBreaks,   \* bound: connections that close
  Window,      \* messages under way on a socket before a send waits
  \* Bounds by the source of the status:
  Prints,      \* the lines that the game server prints
  MaxChanges,  \* its starts and exits
  MaxSockets   \* the sockets that the page opens

VARIABLES
  running,    \* the game server runs
  lines,      \* lines under way from the node
  asked,      \* a server_state request is under way to the node
  replies,    \* answers to it under way
  statusType, \* cached_status_type
  status,     \* current_node.status
  log,        \* what has been published on ws_tx
  printed, changes, breaks,
  fwd,        \* by socket: its forwarding task
  at,         \* by socket: how much of log its receiver has read, the message
              \* that its task is sending included
  pipe,       \* by socket: messages under way to the browser
  conn,       \* by socket: its readyState, "closing" once the peer is gone
  ws,         \* the page's current socket
  timers,     \* reconnects to come
  filtering,  \* the duplicates filter is on
  oldMessage,
  pending,    \* entries for the next batch
  history,    \* consoleHistory
  shown,      \* statusStore
  came,       \* history: the messages the page has had, each with its socket
  from,       \* history: by socket, how much of log came before it subscribed
  doubled     \* history: the page opened a socket beside one that was connecting

nodeVars == <<running, lines, asked, replies, printed, changes>>
panelVars == <<statusType, status, log>>
taskVars == <<fwd, at>>
pageVars == <<ws, timers, filtering, oldMessage, pending, history, doubled>>
vars == <<nodeVars, panelVars, taskVars, pipe, conn, pageVars, shown, came, from, breaks>>

Source == {"server-keyword", "server-process"}
Line == Text \cup {Ready, Bye}

ASSUME BoundsAssumption ==
  /\ NoSocket \notin Socket
  /\ \A m \in Line \cup {ReadyNote} : Cleaned[m] # NoSocket
  /\ MaxLines \in Nat /\ MaxBreaks \in Nat /\ Window \in Nat \ {0}
  /\ Prints \in [Source -> SUBSET Line] /\ MaxChanges \in [Source -> Nat]
  /\ MaxSockets \in [Source -> 0..Cardinality(Socket)]

Init ==
  /\ running \in BOOLEAN /\ lines = <<>> /\ asked = FALSE /\ replies = <<>>
  /\ statusType \in Source
  /\ status = "unknown" /\ log = <<>>
  /\ printed = 0 /\ changes = 0 /\ breaks = 0
  /\ fwd = [k \in Socket |-> "none"] /\ at = [k \in Socket |-> 0]
  /\ pipe = [k \in Socket |-> <<>>] /\ conn = [k \in Socket |-> "unused"]
  /\ ws = NoSocket /\ timers = 0 /\ filtering \in BOOLEAN /\ oldMessage = NoSocket
  /\ pending = <<>> /\ history = <<>>
  /\ shown = "unknown"
  /\ came = <<>> /\ from = [k \in Socket |-> 0] /\ doubled = FALSE

-----------------------------------------------------------------------------
(* The node.                                                               *)

NodeOnly == UNCHANGED <<panelVars, taskVars, pipe, conn, pageVars, shown, came, from, breaks>>

PrintsLine ==
  /\ running /\ printed < MaxLines
  /\ \E t \in Prints[statusType] : lines' = Append(lines, t)
  /\ printed' = printed + 1
  /\ UNCHANGED <<running, asked, replies, changes>> /\ NodeOnly

Changes ==
  /\ changes < MaxChanges[statusType]
  /\ changes' = changes + 1
  /\ running' = ~running
  /\ UNCHANGED <<lines, asked, replies, printed>> /\ NodeOnly

\* Answers and output come by different queues.
Answers ==
  /\ asked /\ asked' = FALSE
  /\ Len(replies) < Window
  /\ replies' = Append(replies, running)
  /\ UNCHANGED <<running, lines, printed, changes>> /\ NodeOnly

-----------------------------------------------------------------------------
(* The link and the panel.                                                 *)

LinkOnly == UNCHANGED <<taskVars, pipe, conn, pageVars, shown, came, from, breaks>>

\* handle_all_stream_values: a keyword sets the status; the line is published.
LinkPrints ==
  /\ lines # <<>>
  /\ lines' = Tail(lines)
  /\ LET t == Head(lines)
     IN  /\ status' = CASE t = Ready -> "up" [] t = Bye -> "down" [] OTHER -> status
         /\ log' = log \o (IF t = Ready THEN <<ReadyNote, t>> ELSE <<t>>)
  /\ UNCHANGED <<running, asked, replies, printed, changes, statusType>> /\ LinkOnly

LinkReplies ==
  /\ replies # <<>>
  /\ replies' = Tail(replies)
  /\ status' = IF Head(replies) THEN "up" ELSE "down"
  /\ UNCHANGED <<running, lines, asked, printed, changes, statusType, log>> /\ LinkOnly

\* The panel asks only while it knows no status.
TickOnce ==
  /\ asked' = (asked \/ (statusType = "server-process" /\ status = "unknown"))
  /\ shown' = status
  /\ UNCHANGED <<running, lines, replies, printed, changes, panelVars, taskVars, pipe, conn,
                 pageVars, came, from, breaks>>

\* ongoing_server_status; equal requests under way count once.
Tick ==
  /\ asked' = (asked \/ statusType = "server-process")
  /\ shown' = status
  /\ UNCHANGED <<running, lines, replies, printed, changes, panelVars, taskVars, pipe, conn,
                 pageVars, came, from, breaks>>

-----------------------------------------------------------------------------
(* handle_socket: the task that forwards.                                  *)

TaskOnly == UNCHANGED <<nodeVars, panelVars, conn, pageVars, shown, came, breaks>>

\* ws_handler let the socket in; from here on it hears what is published.
Subscribes(k) ==
  /\ fwd[k] = "none" /\ conn[k] \in {"connecting", "open"}
  /\ fwd' = [fwd EXCEPT ![k] = "recv"]
  /\ at' = [at EXCEPT ![k] = Len(log)]
  /\ from' = [from EXCEPT ![k] = Len(log)]
  /\ UNCHANGED pipe /\ TaskOnly

Takes(k) ==
  /\ fwd[k] = "recv" /\ at[k] < Len(log)
  /\ at' = [at EXCEPT ![k] = @ + 1]
  /\ fwd' = [fwd EXCEPT ![k] = "send"]
  /\ UNCHANGED <<from, pipe>> /\ TaskOnly

\* The task is over, and its receiver with it.
Ends(k) ==
  /\ fwd' = [fwd EXCEPT ![k] = "ended"]
  /\ at' = [at EXCEPT ![k] = 0]

\* The receiver skips what the channel has lost, and goes on.
LagSkips(k) ==
  /\ fwd[k] = "recv"
  /\ at' = [at EXCEPT ![k] = Len(log)]
  /\ UNCHANGED <<from, fwd, pipe>> /\ TaskOnly

\* recv returns Lagged, and "while let Ok" ends the task.  The socket stays.
Lags(k) ==
  /\ fwd[k] = "recv"
  /\ Ends(k)
  /\ UNCHANGED <<from, pipe>> /\ TaskOnly

Gone(k) == conn[k] \in {"failed", "closing", "closed"}

Sends(k) ==
  /\ fwd[k] = "send"
  /\ IF Gone(k)
       THEN Ends(k) /\ UNCHANGED pipe
       ELSE /\ Len(pipe[k]) < Window
            /\ pipe' = [pipe EXCEPT ![k] = Append(@, at[k])]
            /\ fwd' = [fwd EXCEPT ![k] = "recv"]
            /\ UNCHANGED at
  /\ UNCHANGED from /\ TaskOnly

\* A connection that fails before it opens brings nothing; another one may
\* still bring some of what is under way.
Breaks(k) ==
  /\ breaks < MaxBreaks /\ breaks' = breaks + 1
  /\ \/ /\ conn[k] = "connecting"
        /\ conn' = [conn EXCEPT ![k] = "failed"]
        /\ pipe' = [pipe EXCEPT ![k] = <<>>]
     \/ /\ conn[k] = "open"
        /\ conn' = [conn EXCEPT ![k] = "closing"]
        /\ \E n \in 0..Len(pipe[k]) : pipe' = [pipe EXCEPT ![k] = SubSeq(@, 1, n)]
  /\ UNCHANGED <<nodeVars, panelVars, taskVars, pageVars, shown, came, from>>

-----------------------------------------------------------------------------
(* The page: ServerConsoleState.                                           *)

PageOnly == UNCHANGED <<nodeVars, panelVars, taskVars, shown, from, breaks, filtering>>

\* readyState is OPEN until the close event has run.
IsOpen(k) == k # NoSocket /\ conn[k] \in {"open", "closing"}

OutOfSockets ==
  \/ \A k \in Socket : conn[k] # "unused"
  \/ Cardinality({k \in Socket : conn[k] # "unused"}) = MaxSockets[statusType]

\* connectWebSocket replaces a socket that is not open, a connecting one too.
Connects ==
  IF IsOpen(ws) THEN UNCHANGED <<ws, conn, doubled>>
  ELSE LET k == CHOOSE j \in Socket : conn[j] = "unused"
       IN  /\ ~OutOfSockets
           /\ conn' = [conn EXCEPT ![k] = "connecting"]
           /\ ws' = k
           /\ doubled' = (doubled \/ \E j \in Socket : conn[j] \in {"connecting", "failed"})

\* Home.svelte calls init whenever it is shown.
Mounts ==
  /\ Connects
  /\ UNCHANGED <<timers, oldMessage, pending, history, pipe, came>> /\ PageOnly

Reconnects ==
  /\ timers > 0 /\ timers' = timers - 1
  /\ \/ Connects
     \/ /\ OutOfSockets
        /\ UNCHANGED <<ws, conn, doubled>>
  /\ UNCHANGED <<oldMessage, pending, history, pipe, came>> /\ PageOnly

Opens(k) ==
  /\ conn[k] = "connecting"
  /\ conn' = [conn EXCEPT ![k] = "open"]
  /\ UNCHANGED <<ws, timers, oldMessage, pending, history, pipe, came, doubled>> /\ PageOnly

\* filterMessage and addConsoleEntry.  A text that equals the one before it only
\* raises a count; the one before it may be a blank, which is not shown.
Receives(k) ==
  /\ conn[k] \in {"open", "closing"} /\ pipe[k] # <<>>
  /\ LET i == Head(pipe[k])
         text == Cleaned[log[i]]
     IN  /\ came' = Append(came, <<k, i>>)
         /\ pending' = IF text \in Blank \/ (filtering /\ oldMessage = text) THEN pending
                       ELSE Append(pending, text)
         /\ oldMessage' = IF filtering THEN text ELSE oldMessage
  /\ pipe' = [pipe EXCEPT ![k] = Tail(@)]
  /\ UNCHANGED <<conn, ws, timers, history, doubled>> /\ PageOnly

\* The close event.
Closes(k) ==
  /\ conn[k] \in {"failed", "closing"} /\ pipe[k] = <<>>
  /\ conn' = [conn EXCEPT ![k] = "closed"]
  /\ timers' = timers + 1
  /\ UNCHANGED <<ws, oldMessage, pending, history, pipe, came, doubled>> /\ PageOnly

Flushes ==
  /\ pending # <<>>
  /\ history' = history \o pending
  /\ pending' = <<>>
  /\ UNCHANGED <<conn, ws, timers, oldMessage, pipe, came, doubled>> /\ PageOnly

-----------------------------------------------------------------------------
Next ==
  \/ Changes \/ Answers \/ PrintsLine
  \/ LinkPrints \/ LinkReplies \/ Tick
  \/ Mounts \/ Reconnects \/ Flushes
  \/ \E k \in Socket :
       \/ Subscribes(k) \/ Takes(k) \/ Lags(k) \/ Sends(k) \/ Breaks(k)
       \/ Opens(k) \/ Receives(k) \/ Closes(k)

Spec == Init /\ [][Next]_vars

\* The tasks of the panel and the events of the page are served in the end, and
\* the status stream goes on ticking.  No line, break or visit need ever happen.
Fairness ==
  /\ WF_vars(Answers) /\ WF_vars(LinkPrints) /\ WF_vars(LinkReplies)
  /\ WF_vars(Tick) /\ WF_vars(Flushes)
  /\ \A k \in Socket : /\ WF_vars(Subscribes(k)) /\ WF_vars(Takes(k)) /\ WF_vars(Sends(k))
                        /\ WF_vars(Opens(k)) /\ WF_vars(Receives(k)) /\ WF_vars(Closes(k))

FairSpec == Spec /\ Fairness

-----------------------------------------------------------------------------
(* Properties.                                                             *)

\* Of the first n messages the page has had, those from a socket.
Heard(k, n) == {i \in 1..n : came[i][1] = k}

\* Of the messages the page has had, those it shows: with the duplicates
\* filter, the first of each run of equal texts; and no blank.
Told(i) == Cleaned[log[came[i][2]]]
Opening(i) == filtering => i = 1 \/ Told(i) # Told(i - 1)
Kept == {i \in 1..Len(came) : Told(i) \notin Blank /\ Opening(i)}

NoGaps ==
  \A i \in 1..Len(came) :
    came[i][2] = from[came[i][1]] + Cardinality(Heard(came[i][1], i))
InOrder == doubled \/ \A i \in 2..Len(came) : came[i - 1][2] < came[i][2]
Shows(console) ==
  /\ Len(console) = Cardinality(Kept)
  /\ \A i \in Kept : console[Cardinality({j \in Kept : j <= i})] = Told(i)

\* What the page has had from a socket is what was published since the socket
\* subscribed, from the first message on and without a gap, however the lag of
\* its receiver, the batches and the break of the connection fall; and unless
\* the page opened one socket beside another, no message comes twice or before
\* an older one.  The console shows these messages in the order they came, but
\* for those without a text; and the duplicates filter hides a message only when
\* its text, margins aside, equals that of the one before it
\* (handle_socket, main.rs:2190; connectWebSocket, filterMessage and cleanOutput,
\* serverConsoleStore.svelte.ts:141, 191 and 290).
ConsoleFaithful == NoGaps /\ InOrder /\ Shows(history \o pending)

Deaf(k) == fwd[k] = "ended"

\* When the game server has gone quiet, the console of a page whose socket is
\* open has everything published since the socket subscribed, unless its task
\* has ended; and with the process as the source of the status the page shows
\* whether the game server runs, whatever keyword lines and late answers have
\* said on the way (ongoing_server_status, main.rs:2668).
Settles ==
  <>[](/\ pending = <<>>
       /\ \A k \in Socket : conn[k] = "open" /\ ~Deaf(k) =>
            Cardinality(Heard(k, Len(came))) = Len(log) - from[k]
       /\ statusType = "server-process" => shown = IF running THEN "up" ELSE "down")
=============================================================================

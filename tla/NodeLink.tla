------------------------------ MODULE NodeLink ------------------------------
(***************************************************************************)
(* How the panel server keeps its TCP link to a node: the boot task        *)
(* (try_initial_connection, then connect_to_server), the change_node       *)
(* handler and the connect_to_server task each one spawns, all of them     *)
(* over one AppState behind a RwLock.                                      *)
(*                                                                         *)
(* An action is one critical section of that lock, or one outcome of an    *)
(* await: what a task does between two awaits without touching AppState is *)
(* merged into the neighbouring action.  A task slot stands for one        *)
(* change_node request and for the connect_to_server task it spawns; slot  *)
(* Initial is the task main spawns.  Node addresses stand for nodes.       *)
(***************************************************************************)
EXTENDS Naturals, FiniteSets

CONSTANTS
  Node,          \* addresses a link can be opened to
  BootNode,      \* TCPURL, the address the boot task connects to
  NoNode,        \* the empty NodeAndTCP::default()
  Task,          \* slots for connect_to_server tasks
  Initial,       \* the slot of the boot task
  Attempts,      \* INITIAL_CONNECTION_ATTEMPTS
  MaxTokens,     \* bound: cancellation tokens ever created
  MayStall,      \* nodes that may stop serving while their port stays open
  Overlap,       \* may change_node run while another link is being set up?
  StreamErrors   \* may a read, a write or the processing of a line fail?

ASSUME NodeLinkAssumption ==
  /\ BootNode \in Node
  /\ NoNode \notin Node
  /\ Initial \in Task
  /\ Attempts \in Nat
  /\ MaxTokens \in Nat
  /\ MayStall \in SUBSET Node
  /\ Overlap \in BOOLEAN
  /\ StreamErrors \in BOOLEAN

VARIABLES
  pc,           \* where each task stands
  url,          \* the tcp_url of each task
  rxGen,        \* which tcp_tx channel the task's rx subscribes to
  tok,          \* handle_stream's cloned_token, 0 outside the loop
  peer,         \* tasks whose stream the node has not closed
  cancelToken,  \* AppState.cancel_current_conn: the tokens are numbered
  cancelled,    \* tokens on which cancel() was called
  tcpGen,       \* AppState.tcp_tx: 0 the one of main, 1 the boot task's
  connStatus,   \* AppState.tcp_conn_status
  currentNode,  \* AppState.current_node
  nodeStatus,   \* AppState.current_node.status
  attempts,     \* probes the boot task has left
  up,           \* nodes that accept connections
  sick          \* those of up that do not serve what they accept: they leave
                \* what is written unread, or reset a stream as it opens

streamVars == <<rxGen, tok, peer>>
tokenVars  == <<cancelToken, cancelled>>
nodeVars   == <<currentNode, nodeStatus>>
hosts      == <<up, sick>>
vars == <<pc, url, streamVars, tokenVars, tcpGen, connStatus, nodeVars,
          attempts, hosts>>

\* The stages of a task.  "probe" and "swap" are the boot task's, "cancel"
\* and "assign" the change_node handler's, the others connect_to_server's.
\* A link is "live" at the select! of handle_stream, the one place where it
\* looks at its token, and "busy" in the body of a branch: in write_all, or
\* waiting for AppState to pass a line on.
Stage == {"probe", "swap", "cancel", "assign", "subscribe", "connecting",
          "handshake", "retry", "live", "busy", "free"}

Linked == {"live", "busy"}

Status == {"Up", "Down"}

\* Tasks that are setting a link up, and may still register a stream.
Establishing == {t \in Task : pc[t] \notin Linked \cup {"free"}}
Settled == Establishing = {}

\* Leaves a token for every task that may still register.
TokenBudget == cancelToken + Cardinality(Establishing) < MaxTokens

\* Task t passes from one stage to the next.
Moves(t, from, to) == pc[t] = from /\ pc' = [pc EXCEPT ![t] = to]

Init ==
  /\ \E s \in {"probe", "free"} :       \* ENABLE_INITIAL_CONNECTION
       pc = [t \in Task |-> IF t = Initial THEN s ELSE "free"]
  /\ url = [t \in Task |-> BootNode]
  /\ rxGen = [t \in Task |-> 0]
  /\ tok = [t \in Task |-> 0]
  /\ peer = {}
  /\ cancelToken = 0
  /\ cancelled = {}
  /\ tcpGen = 0
  /\ connStatus = "Up"                  \* main runs check_channel_health
  /\ currentNode = NoNode
  /\ nodeStatus = "Down"
  /\ attempts = Attempts
  /\ up \in SUBSET Node
  /\ sick = {}

-----------------------------------------------------------------------------
(* Variants with a bug each.  No specification uses them: substituted for  *)
(* the action they vary, they show that a property can fail.               *)

\* The probe counter, a u64, is decremented before it is compared.
ProbeUnderflows ==
  /\ pc[Initial] = "probe"
  /\ attempts' = attempts - 1
  /\ pc' = [pc EXCEPT ![Initial] = IF attempts = 0 THEN "free" ELSE "probe"]
  /\ UNCHANGED <<url, streamVars, tokenVars, tcpGen, connStatus, nodeVars, hosts>>

\* The boot task subscribes to the channel it is about to replace.
SwapChannelsLate ==
  /\ Moves(Initial, "swap", "connecting")
  /\ tcpGen' = 1
  /\ rxGen' = [rxGen EXCEPT ![Initial] = tcpGen]
  /\ UNCHANGED <<url, tok, peer, tokenVars, connStatus, nodeVars, attempts, hosts>>

\* change_node forgets the link it replaces.
CancelNothing(t) ==
  /\ Moves(t, "cancel", "assign")
  /\ UNCHANGED <<url, streamVars, tokenVars, tcpGen, connStatus, nodeVars,
                 attempts, hosts>>

\* change_node leaves current_node as it was.
AssignNothing(t) ==
  /\ Moves(t, "assign", "subscribe")
  /\ UNCHANGED <<url, streamVars, tokenVars, tcpGen, connStatus, nodeVars,
                 attempts, hosts>>

\* The new stream goes on under the token of the one before it.
RegisterOldToken(t) ==
  /\ Moves(t, "connecting", "handshake") /\ url[t] \in up
  /\ connStatus' = "Up"
  /\ peer' = peer \cup {t}
  /\ UNCHANGED <<url, rxGen, tok, tokenVars, tcpGen, nodeVars, attempts, hosts>>

\* Every task gives up at its first timeout.
EveryoneGivesUp(t) ==
  /\ Moves(t, "connecting", "free")
  /\ connStatus' = "Down"
  /\ UNCHANGED <<url, streamVars, tokenVars, tcpGen, nodeVars, attempts, hosts>>

\* The loop looks at the token in AppState, not at the one it cloned.
LatestTokenCancelled(t) ==
  /\ tok[t] = cancelToken /\ cancelToken \in cancelled
  /\ Moves(t, "live", "free")
  /\ tok' = [tok EXCEPT ![t] = 0]
  /\ peer' = peer \ {t}
  /\ UNCHANGED <<url, rxGen, tokenVars, tcpGen, connStatus, nodeVars, attempts,
                 hosts>>

-----------------------------------------------------------------------------
(* The boot task. *)

\* One attempt_connection of try_initial_connection succeeds; the probe's
\* stream is dropped because create_handler is false.
ProbeSucceeds ==
  /\ attempts > 0 /\ BootNode \in up
  /\ Moves(Initial, "probe", "swap")
  /\ UNCHANGED <<url, streamVars, tokenVars, tcpGen, connStatus, nodeVars,
                 attempts, hosts>>

\* An attempt is refused or times out; with none left the task gives up.
ProbeFails ==
  /\ pc[Initial] = "probe"
  /\ IF attempts > 1
     THEN attempts' = attempts - 1 /\ UNCHANGED pc
     ELSE attempts' = 0 /\ pc' = [pc EXCEPT ![Initial] = "free"]
  /\ UNCHANGED <<url, streamVars, tokenVars, tcpGen, connStatus, nodeVars, hosts>>

\* The boot task replaces the broadcast channels under the write lock, then
\* enters connect_to_server with end_if_timeout.
SwapChannels ==
  /\ Moves(Initial, "swap", "subscribe")
  /\ tcpGen' = 1
  /\ UNCHANGED <<url, streamVars, tokenVars, connStatus, nodeVars, attempts, hosts>>

-----------------------------------------------------------------------------
(* The change_node handler.  A request for a node the database does not    *)
(* hold, or without the permission, returns before it changes anything.    *)

ChangeNode(t, n) ==
  /\ t # Initial
  /\ Overlap \/ Settled
  /\ TokenBudget
  /\ Moves(t, "free", "cancel")
  /\ url' = [url EXCEPT ![t] = n]
  /\ UNCHANGED <<streamVars, tokenVars, tcpGen, connStatus, nodeVars, attempts,
                 hosts>>

\* arc_state.write().await.cancel_current_conn.cancel()
CancelCurrent(t) ==
  /\ Moves(t, "cancel", "assign")
  /\ cancelled' = cancelled \cup {cancelToken}
  /\ UNCHANGED <<url, streamVars, cancelToken, tcpGen, connStatus, nodeVars,
                 attempts, hosts>>

\* A second critical section sets current_node, whose other fields take
\* their defaults, and the handler spawns connect_to_server.
AssignNode(t) ==
  /\ Moves(t, "assign", "subscribe")
  /\ currentNode' = url[t]
  /\ nodeStatus' = "Down"
  /\ UNCHANGED <<url, streamVars, tokenVars, tcpGen, connStatus, attempts, hosts>>

-----------------------------------------------------------------------------
(* connect_to_server. *)

Subscribe(t) ==
  /\ Moves(t, "subscribe", "connecting")
  /\ rxGen' = [rxGen EXCEPT ![t] = tcpGen]
  /\ UNCHANGED <<url, tok, peer, tokenVars, tcpGen, connStatus, nodeVars,
                 attempts, hosts>>

\* TcpStream::connect succeeds, and the write lock installs a new token.
Register(t) ==
  /\ Moves(t, "connecting", "handshake") /\ url[t] \in up
  /\ cancelToken < MaxTokens
  /\ cancelToken' = cancelToken + 1
  /\ connStatus' = "Up"
  /\ peer' = peer \cup {t}
  /\ UNCHANGED <<url, rxGen, tok, cancelled, tcpGen, nodeVars, attempts, hosts>>

\* The stream is reset before peer_addr(), whose ? ends the task for good.
PeerGone(t) ==
  /\ Moves(t, "connecting", "free") /\ url[t] \in sick
  /\ UNCHANGED <<url, streamVars, tokenVars, tcpGen, connStatus, nodeVars,
                 attempts, hosts>>

ConnectRefused(t) ==
  /\ Moves(t, "connecting", "retry") /\ url[t] \notin up
  /\ connStatus' = "Down"
  /\ UNCHANGED <<url, streamVars, tokenVars, tcpGen, nodeVars, attempts, hosts>>

\* CONNECTION_TIMEOUT passes: end_if_timeout is set for the boot task only.
ConnectTimesOut(t) ==
  /\ Moves(t, "connecting", IF t = Initial THEN "free" ELSE "retry")
  /\ connStatus' = "Down"
  /\ UNCHANGED <<url, streamVars, tokenVars, tcpGen, nodeVars, attempts, hosts>>

\* sleep(CONNECTION_RETRY_DELAY) ends and the loop starts over.
RetryElapses(t) ==
  /\ Moves(t, "retry", "subscribe")
  /\ UNCHANGED <<url, streamVars, tokenVars, tcpGen, connStatus, nodeVars,
                 attempts, hosts>>

-----------------------------------------------------------------------------
(* handle_stream: its greeting, then its select loop.  Leaving it with     *)
(* Done ends the task; leaving it with an error goes to the retry delay.   *)

CloneToken(t) ==
  /\ Moves(t, "handshake", "live")
  /\ tok' = [tok EXCEPT ![t] = cancelToken]
  /\ UNCHANGED <<url, rxGen, peer, tokenVars, tcpGen, connStatus, nodeVars,
                 attempts, hosts>>

\* The stream of t is dropped, and with it the task's own copy of the token.
DropStream(t) ==
  /\ tok' = [tok EXCEPT ![t] = 0]
  /\ peer' = peer \ {t}
  /\ UNCHANGED <<url, rxGen, tokenVars, tcpGen, connStatus, nodeVars, attempts,
                 hosts>>

\* A line, an internal message or a command for the node takes the loop out
\* of select!.
TurnBegins(t) ==
  /\ Moves(t, "live", "busy")
  /\ UNCHANGED <<url, streamVars, tokenVars, tcpGen, connStatus, nodeVars,
                 attempts, hosts>>

\* The write is done, or the line has been passed on.
TurnEnds(t) ==
  /\ Moves(t, "busy", "live")
  /\ UNCHANGED <<url, streamVars, tokenVars, tcpGen, connStatus, nodeVars,
                 attempts, hosts>>

\* select! finds the token cancelled: shutdown, and Done.
LinkCancelled(t) ==
  /\ tok[t] \in cancelled
  /\ Moves(t, "live", "free")
  /\ DropStream(t)

\* next_line returns None: Done as well, so nobody connects again.
LinkClosed(t) ==
  /\ t \notin peer
  /\ Moves(t, "live", "free")
  /\ DropStream(t)

\* next_line, write_all or process_stream_data returns an error.
LinkFails(t) ==
  /\ StreamErrors
  /\ TokenBudget
  /\ \E s \in {"handshake"} \cup Linked : Moves(t, s, "retry")
  /\ DropStream(t)

\* A line of the node carries server_state, or a start or stop keyword:
\* handle_all_stream_values writes the status of whatever node is current by
\* the time it has the lock.
NodeReports(t, s) ==
  /\ Moves(t, "busy", "live")
  /\ nodeStatus' = s
  /\ UNCHANGED <<url, streamVars, tokenVars, tcpGen, connStatus,
                 currentNode, attempts, hosts>>

-----------------------------------------------------------------------------
\* refresh_status: AppState owns a sender and a receiver of the channel that
\* check_channel_health pings, so the ping always comes back.
RefreshStatus ==
  /\ connStatus' = "Up"
  /\ UNCHANGED <<pc, url, streamVars, tokenVars, tcpGen, nodeVars, attempts, hosts>>

\* The environment: node daemons start and stop, which closes their streams,
\* and stall or recover while their port stays open.
NodeStarts(n) ==
  /\ n \notin up
  /\ up' = up \cup {n}
  /\ UNCHANGED <<pc, url, streamVars, tokenVars, tcpGen, connStatus, nodeVars,
                 attempts, sick>>

NodeStops(n) ==
  /\ n \in up
  /\ up' = up \ {n}
  /\ sick' = sick \ {n}
  /\ peer' = {t \in peer : url[t] # n}
  /\ UNCHANGED <<pc, url, rxGen, tok, tokenVars, tcpGen, connStatus, nodeVars,
                 attempts>>

NodeStalls(n) ==
  /\ n \in up \cap MayStall
  /\ sick' = IF n \in sick THEN sick \ {n} ELSE sick \cup {n}
  /\ UNCHANGED <<pc, url, streamVars, tokenVars, tcpGen, connStatus, nodeVars,
                 attempts, up>>

BootStep == ProbeSucceeds \/ ProbeFails \/ SwapChannels

TaskStep(t) ==
  \/ \E n \in Node : ChangeNode(t, n)
  \/ CancelCurrent(t)
  \/ AssignNode(t)
  \/ Subscribe(t)
  \/ Register(t)
  \/ PeerGone(t)
  \/ ConnectRefused(t)
  \/ ConnectTimesOut(t)
  \/ RetryElapses(t)
  \/ CloneToken(t)
  \/ TurnBegins(t)
  \/ TurnEnds(t)
  \/ LinkCancelled(t)
  \/ LinkClosed(t)
  \/ LinkFails(t)
  \/ \E s \in Status : NodeReports(t, s)

Next ==
  \/ BootStep
  \/ \E t \in Task : TaskStep(t)
  \/ RefreshStatus
  \/ \E n \in Node : NodeStarts(n) \/ NodeStops(n) \/ NodeStalls(n)

\* The runtime polls every ready task, AppState is granted to those that wait
\* for it, and select! picks among its ready branches at random, so it does
\* not pass over the same one forever.  A write ends when its node reads or
\* its stream is closed; nothing ends one to a node that has stalled.  A
\* connect that could succeed again and again is not refused or late forever.
\* Nothing obliges a node to start or an operator to switch.
Fairness ==
  /\ WF_vars(BootStep)
  /\ \A t \in Task :
       /\ WF_vars(CancelCurrent(t)) /\ WF_vars(AssignNode(t))
       /\ WF_vars(Subscribe(t)) /\ WF_vars(RetryElapses(t))
       /\ WF_vars(CloneToken(t))
       /\ WF_vars((url[t] \notin sick \/ t \notin peer) /\ TurnEnds(t))
       /\ SF_vars(LinkCancelled(t))
       /\ SF_vars(Register(t))

Spec == Init /\ [][Next]_vars
FairSpec == Spec /\ Fairness

-----------------------------------------------------------------------------
(* Properties. *)

\* Every variable keeps its type; cancel() only reaches tokens that exist.
TypeOK ==
  /\ pc \in [Task -> Stage]
  /\ url \in [Task -> Node]
  /\ rxGen \in [Task -> {0, 1}]
  /\ tok \in [Task -> 0..cancelToken]
  /\ peer \in SUBSET Task
  /\ cancelToken \in Nat
  /\ cancelled \in SUBSET (0..cancelToken)
  /\ tcpGen \in {0, 1}
  /\ connStatus \in Status
  /\ currentNode \in Node \cup {NoNode}
  /\ nodeStatus \in Status
  /\ attempts \in 0..Attempts
  /\ up \in SUBSET Node
  /\ sick \in SUBSET up

\* t runs its loop on a token nobody cancelled: it will go on.
Holds(t) == pc[t] \in Linked /\ tok[t] \notin cancelled

\* At most one link goes on: change_node ends the one it replaces.  Two of
\* them would both read every command sent on tcp_tx.
ExclusiveLink == \A t, u \in Task : Holds(t) /\ Holds(u) => t = u

\* With no switch in flight, the link that goes on leads to current_node, or
\* is the boot link before any switch: main leaves current_node empty.
LinkServesCurrentNode ==
  \A t \in Task : Holds(t) /\ Settled =>
    currentNode = IF currentNode = NoNode /\ t = Initial THEN NoNode ELSE url[t]

\* The link that goes on subscribes to the channel the handlers send on.
LinkHearsHandlers == \A t \in Task : Holds(t) => rxGen[t] = tcpGen

\* Even when switches overlap and streams fail, the boot link never
\* subscribes to the channel the boot task replaced.
BootLinkHearsHandlers ==
  pc[Initial] \in {"connecting", "handshake"} \cup Linked => rxGen[Initial] = tcpGen

\* A link whose token was cancelled leaves the loop, even if it was busy when
\* it was cancelled and is kept busy with lines and commands, as long as its
\* node reads what it writes.  A link caught in a write to a node that has
\* stalled stays where it is.
CancelledLinkEnds ==
  \A t \in Task :
    (pc[t] \in Linked /\ tok[t] \in cancelled /\ [](url[t] \notin sick))
      ~> pc[t] \notin Linked

\* change_node does not give up: while its node accepts connections and keeps
\* them from some point on, a task it spawned gets a link.
SwitchConnects ==
  \A t \in Task \ {Initial} :
    (pc[t] = "subscribe" /\ [](url[t] \in up \ sick)) ~> pc[t] \in Linked

\* Once every node stays up and reads what it is sent, a switch comes to a
\* state with one link, which goes to the current node: the links of earlier
\* switches are gone.
SwitchConverges ==
  \A t \in Task \ {Initial} :
    (pc[t] = "subscribe" /\ [](up = Node /\ sick = {})) ~>
      \E u \in Task :
        /\ pc[u] \in Linked /\ url[u] = currentNode
        /\ \A v \in Task \ {u} : pc[v] \notin Linked
=============================================================================

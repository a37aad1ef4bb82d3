--------------------------- MODULE ServerRegistry ---------------------------
(***************************************************************************)
(* The servers that exist, the current one, and the output filter: what    *)
(* the panel has in its database and in AppState, and what the node has in *)
(* its own, in memory and in db.json.  A handler of the panel changes its  *)
(* database under the AppState lock and broadcasts commands; every link to *)
(* the node takes what is broadcast while it is subscribed.  The node      *)
(* handles a line per connection, one connection at a time, and a handler  *)
(* there takes two more locks.                                             *)
(*                                                                         *)
(* Names stand for whole entries; each server has a directory of its own.  *)
(* (The name a node reports for itself fills in an empty one of the        *)
(* panel's current server; names here are never empty.)                    *)
(***************************************************************************)
EXTENDS Naturals, Sequences

CONSTANTS
  Server,     \* names of servers
  Builtin,    \* the server a node always starts with
  Filter,     \* values of the filter
  NoFilter,   \* the default one
  Setter,     \* requests that set the filter
  Asks,       \* whether deletes ask for the files to go too
  Conn,       \* connections to the node
  None,
  MaxOps,     \* bound: operations of the panel
  MaxBreaks   \* bound: links that end, crashes and restarts

ASSUME RegistryAssumption ==
  /\ Builtin \in Server /\ NoFilter \in Filter
  /\ Asks \subseteq BOOLEAN
  /\ None \notin Server \cup Conn \cup Filter
  /\ MaxOps \in Nat /\ MaxBreaks \in Nat

VARIABLES
  servers,   \* panel: the servers in its database
  current,   \* panel: AppState.current_server
  filter,    \* panel: the filter in its settings
  setting,   \* panel: where each set_settings request stands
  old,       \* panel: the filter each of them replaced
  inner,     \* internal_tx: filters a link has still to pass on
  links,     \* connections whose link is subscribed
  queue,     \* by connection: commands on their way to the node
  up,        \* the node runs
  line,      \* by connection: the command the node handles
  pc,        \* by connection: where its handler stands
  seen,      \* by connection: the current server a delete has read
  origins,   \* who holds authenticated_origins
  dbLock,    \* who holds db
  curLock,   \* who holds current_server
  db,        \* node: the database in memory
  nodeCur,   \* node: AppState.current_server
  file,      \* node: db.json
  dirs,      \* node: servers whose directory exists
  ops,       \* operations of the panel so far
  breaks,    \* links ended, crashes and restarts so far
  lost,      \* history: a command was lost, or not sent for what was stored
  mixed,     \* history: commands came over two connections
  stale,     \* history: current was changed and the node not told
  refused    \* history: servers whose delete the node refused

panelVars == <<servers, current, filter, setting, old>>
linkVars == <<inner, links, queue>>
lineVars == <<line, pc, seen, origins, dbLock, curLock>>
storeVars == <<db, nodeCur, file, dirs>>
pastVars == <<lost, mixed, stale, refused>>
vars == <<panelVars, linkVars, up, lineVars, storeVars, ops, breaks, pastVars>>

\* handle_stream: a link's first commands; server_name touches nothing.
Greeting == [do |-> "data", of |-> None, files |-> FALSE]

Command == [do : {"create", "set", "delete"}, of : Server, files : BOOLEAN]
           \cup [do : {"filter"}, of : Filter, files : {FALSE}] \cup {Greeting}
Cmd(d, s) == [do |-> d, of |-> s, files |-> FALSE]
ASSUME CommandAssumption == None \notin Command

\* Commands that change the node; server_data only answers.
Telling == {x \in Command : x.do # "data"}
Tells(q) == \E i \in 1..Len(q) : q[i] \in Telling

Database == [current : Server \cup {None}, index : SUBSET Server, filter : Filter]
DefaultDb == [current |-> None, index |-> {}, filter |-> NoFilter]
Torn == [current |-> None, index |-> {}, filter |-> None]

\* main: load_db resets a file that does not parse, and the built-in server
\* is put in.
LoadedAsIs(f) == f
Loaded(f) == IF f = Torn THEN DefaultDb ELSE f
Started(f) == [Loaded(f) EXCEPT !.index = @ \cup {Builtin}]

Init ==
  /\ servers = {} /\ current = None /\ filter = NoFilter
  /\ setting = [s \in Setter |-> "idle"] /\ old = [s \in Setter |-> NoFilter]
  /\ inner = <<>> /\ links = {} /\ queue = [c \in Conn |-> <<>>]
  /\ up = TRUE
  /\ line = [c \in Conn |-> None] /\ pc = [c \in Conn |-> "read"]
  /\ seen = [c \in Conn |-> None]
  /\ origins = None /\ dbLock = None /\ curLock = None
  /\ db = Started(DefaultDb) /\ nodeCur = None /\ file = db
  /\ dirs = {Builtin}
  /\ ops = 0 /\ breaks = 0
  /\ lost = FALSE /\ mixed = FALSE /\ stale = FALSE /\ refused = {}

-----------------------------------------------------------------------------
(* Links.                                                                  *)

\* Connections that carry something, or may.
Carries(c) == Tells(queue[c]) \/ line[c] \in Telling
InUse == links \cup {c \in Conn : Carries(c)}

\* tcp_tx.send: every subscribed link gets the commands.  AppState keeps a
\* receiver, so that without a link they are lost and the send succeeds.
Broadcast(cmds) ==
  /\ queue' = [c \in Conn |-> IF c \in links THEN queue[c] \o cmds ELSE queue[c]]
  /\ lost' = (lost \/ links = {})
  /\ mixed' = (mixed \/ \E c, d \in InUse : c # d)

LinkUp(c) ==
  /\ up /\ c \notin links /\ queue[c] = <<>> /\ line[c] = None
  /\ links' = links \cup {c}
  /\ queue' = [queue EXCEPT ![c] = <<Greeting>>]
  /\ UNCHANGED <<panelVars, inner, up, lineVars, storeVars, ops, breaks, pastVars>>

\* A link ends; the node still reads what was sent before.
LinkDown(c) ==
  /\ c \in links /\ breaks < MaxBreaks
  /\ links' = links \ {c}
  /\ \E n \in 0..Len(queue[c]) :
       /\ queue' = [queue EXCEPT ![c] = SubSeq(@, 1, n)]
       /\ lost' = (\/ lost \/ \E i \in (n + 1)..Len(queue[c]) : queue[c][i] \in Telling
                   \/ links' = {} /\ inner # <<>>)
  /\ inner' = IF links' = {} THEN <<>> ELSE inner
  /\ breaks' = breaks + 1
  /\ UNCHANGED <<panelVars, up, lineVars, storeVars, ops, mixed, stale, refused>>

-----------------------------------------------------------------------------
(* Handlers of the panel.  Each holds the AppState lock from end to end,   *)
(* set_settings three times.                                               *)

Operates == ops < MaxOps /\ ops' = ops + 1
PanelKeeps == UNCHANGED <<links, up, lineVars, storeVars, breaks, refused>>
SettingsKeep == UNCHANGED <<filter, setting, old, inner>>

\* The server is current before the database is asked.  (The server_data
\* sent at the end carries metadata, by which the node drops it.)
AddServer(s) ==
  /\ Operates
  /\ current' = s
  /\ s \notin servers /\ servers' = servers \cup {s}
  /\ stale' = FALSE
  /\ Broadcast(<<Cmd("create", s), Cmd("set", s)>>)
  /\ PanelKeeps /\ SettingsKeep

\* It exists already, or the database fails.
AddFails(s) ==
  /\ Operates
  /\ current' = s /\ stale' = TRUE
  /\ UNCHANGED <<servers, queue, lost, mixed>> /\ PanelKeeps /\ SettingsKeep

\* The database fails when the settings are read, after the server is stored.
AddUntold(s) ==
  /\ Operates
  /\ current' = s /\ stale' = TRUE
  /\ s \notin servers /\ servers' = servers \cup {s}
  /\ lost' = TRUE
  /\ UNCHANGED <<queue, mixed>> /\ PanelKeeps /\ SettingsKeep

DeleteServer(s, files) ==
  /\ Operates
  /\ servers' = servers \ {s}
  /\ Broadcast(<<[do |-> "delete", of |-> s, files |-> files]>>)
  /\ UNCHANGED <<current, stale>> /\ PanelKeeps /\ SettingsKeep

SetServer(s) ==
  /\ Operates
  /\ s \in servers
  /\ current' = s /\ stale' = FALSE
  /\ Broadcast(<<Cmd("set", s)>>)
  /\ UNCHANGED servers /\ PanelKeeps /\ SettingsKeep

\* set_settings stores the settings and lets go of the lock; then
\* notify_node_of_settings takes it again, reads what is stored by now and
\* compares it with what this request replaced.
SetSettings(r, v) ==
  /\ Operates
  /\ setting[r] = "idle"
  /\ old' = [old EXCEPT ![r] = filter]
  /\ filter' = v
  /\ setting' = [setting EXCEPT ![r] = "notify"]
  /\ UNCHANGED <<servers, current, inner, queue, lost, mixed, stale>> /\ PanelKeeps

NotifyCoalesced(r) ==
  /\ setting[r] = "notify"
  /\ setting' = [setting EXCEPT ![r] = "idle"]
  /\ IF old[r] = filter \/ links = {} \/ \E p \in Setter \ {r} : setting[p] = "notify"
       THEN inner' = inner /\ lost' = (lost \/ (links = {} /\ old[r] # filter))
       ELSE inner' = Append(inner, filter) /\ lost' = lost
  /\ UNCHANGED <<servers, current, filter, old, queue, ops, mixed, stale>> /\ PanelKeeps

NotifyNode(r) ==
  /\ setting[r] = "notify"
  /\ setting' = [setting EXCEPT ![r] = "idle"]
  /\ IF old[r] = filter \/ links = {}
       THEN inner' = inner /\ lost' = (lost \/ old[r] # filter)
       ELSE inner' = Append(inner, filter) /\ lost' = lost
  /\ UNCHANGED <<servers, current, filter, old, queue, ops, mixed, stale>> /\ PanelKeeps

\* A link takes the filter and publishes it for the node.  (With two links
\* each does: then the model, like the code, may only be late.)
PassOn ==
  /\ inner # <<>>
  /\ inner' = Tail(inner)
  /\ Broadcast(<<Cmd("filter", Head(inner))>>)
  /\ UNCHANGED <<panelVars, ops, stale>> /\ PanelKeeps

\* A panel starts with the current server of its settings; only a client
\* that sends set_settings puts one there, whatever the current one is.
PanelRestarts ==
  /\ breaks < MaxBreaks /\ breaks' = breaks + 1
  /\ current' \in Server \cup {None} /\ stale' = (current' # None)
  /\ setting' = [r \in Setter |-> "idle"]
  /\ inner' = <<>> /\ links' = {}
  /\ queue' \in {[c \in Conn |-> <<>>], queue}
  /\ lost' = (\/ lost \/ inner # <<>> \/ \E r \in Setter : setting[r] # "idle"
              \/ queue' # queue /\ \E c \in Conn : Tells(queue[c]))
  /\ UNCHANGED <<servers, filter, old, up, lineVars, storeVars, ops, mixed, refused>>

-----------------------------------------------------------------------------
(* Handlers of the node, a step between any two points where they wait.    *)

NodeKeeps == UNCHANGED <<panelVars, inner, links, up, ops, breaks, lost, mixed, stale>>
Goto(c, p) == pc' = [pc EXCEPT ![c] = p]
At(c, p) == pc[c] = p

First(do) == CASE do \in {"create", "set", "filter"} -> "db"
               [] do = "delete" -> "look"
               [] do = "data" -> "current"

TakeLineShared(c) ==
  /\ up /\ At(c, "read") /\ queue[c] # <<>>
  /\ line' = [line EXCEPT ![c] = Head(queue[c])]
  /\ queue' = [queue EXCEPT ![c] = Tail(@)]
  /\ Goto(c, First(line'[c].do))
  /\ UNCHANGED <<seen, origins, dbLock, curLock, storeVars, refused>> /\ NodeKeeps

\* The guard of authenticated_origins lives until the line is done.
TakeLine(c) ==
  /\ up /\ At(c, "read") /\ queue[c] # <<>>
  /\ origins = None /\ origins' = c
  /\ line' = [line EXCEPT ![c] = Head(queue[c])]
  /\ queue' = [queue EXCEPT ![c] = Tail(@)]
  /\ Goto(c, First(line'[c].do))
  /\ UNCHANGED <<seen, dbLock, curLock, storeVars, refused>> /\ NodeKeeps

LineDone(c) ==
  /\ At(c, "done")
  /\ origins' = None
  /\ line' = [line EXCEPT ![c] = None] /\ seen' = [seen EXCEPT ![c] = None]
  /\ Goto(c, "read")
  /\ UNCHANGED <<queue, dbLock, curLock, storeVars, refused>> /\ NodeKeeps

\* delete_server reads the current server first, and fails without one.
LookCurrent(c) ==
  /\ At(c, "look") /\ curLock = None
  /\ seen' = [seen EXCEPT ![c] = nodeCur]
  /\ IF nodeCur = None
       THEN Goto(c, "done") /\ refused' = refused \cup {line[c].of}
       ELSE Goto(c, "db") /\ UNCHANGED refused
  /\ UNCHANGED <<queue, line, origins, dbLock, curLock, storeVars>> /\ NodeKeeps

LockDb(c) ==
  /\ At(c, "db") /\ dbLock = None
  /\ dbLock' = c
  /\ Goto(c, "change")
  /\ UNCHANGED <<queue, line, seen, origins, curLock, storeVars, refused>> /\ NodeKeeps

Create(c) ==
  /\ At(c, "change") /\ line[c].do = "create"
  /\ db' = [db EXCEPT !.index = @ \cup {line[c].of}]
  /\ refused' = refused \ {line[c].of}
  /\ Goto(c, "save")
  /\ UNCHANGED <<queue, line, seen, origins, dbLock, curLock, nodeCur, file, dirs>> /\ NodeKeeps

SetCurrent(c) ==
  /\ At(c, "change") /\ line[c].do = "set"
  /\ db' = [db EXCEPT !.current = line[c].of, !.index = @ \cup {line[c].of}]
  /\ Goto(c, "save")
  /\ UNCHANGED <<queue, line, seen, origins, dbLock, curLock, nodeCur, file, dirs, refused>> /\ NodeKeeps

SetFilter(c) ==
  /\ At(c, "change") /\ line[c].do = "filter"
  /\ db' = [db EXCEPT !.filter = line[c].of]
  /\ Goto(c, "save")
  /\ UNCHANGED <<queue, line, seen, origins, dbLock, curLock, nodeCur, file, dirs, refused>> /\ NodeKeeps

DeleteForgets(c) ==
  /\ At(c, "change") /\ line[c].do = "delete"
  /\ db' = [db EXCEPT !.current = IF line[c].of = seen[c] THEN None ELSE @,
                      !.index = @ \ {line[c].of}]
  /\ Goto(c, "save")
  /\ UNCHANGED <<queue, line, seen, origins, dbLock, curLock, nodeCur, file, dirs, refused>> /\ NodeKeeps

DeleteCurrentOnly(c) ==
  /\ At(c, "change") /\ line[c].do = "delete"
  /\ curLock = None
  /\ IF line[c].of = seen[c]
       THEN nodeCur' = None /\ db' = [db EXCEPT !.current = None, !.index = @ \ {line[c].of}]
       ELSE UNCHANGED <<nodeCur, db>>
  /\ Goto(c, "save")
  /\ UNCHANGED <<queue, line, seen, origins, dbLock, curLock, file, dirs, refused>> /\ NodeKeeps

\* With db locked, current_server is locked to clear it.
Delete(c) ==
  /\ At(c, "change") /\ line[c].do = "delete"
  /\ IF line[c].of = seen[c]
       THEN /\ curLock = None
            /\ nodeCur' = None
            /\ db' = [db EXCEPT !.current = None, !.index = @ \ {line[c].of}]
       ELSE /\ db' = [db EXCEPT !.index = @ \ {line[c].of}]
            /\ UNCHANGED nodeCur
  /\ Goto(c, "save")
  /\ UNCHANGED <<queue, line, seen, origins, dbLock, curLock, file, dirs, refused>> /\ NodeKeeps

\* save_db: fs::write empties the file and then writes it.
Truncate(c) ==
  /\ pc[c] \in {"save", "save again"}
  /\ file' = Torn
  /\ Goto(c, IF At(c, "save") THEN "write" ELSE "write again")
  /\ UNCHANGED <<queue, line, seen, origins, dbLock, curLock, db, nodeCur, dirs, refused>> /\ NodeKeeps

\* set_server keeps db locked.
Write(c) ==
  /\ At(c, "write")
  /\ file' = db
  /\ dbLock' = IF line[c].do = "set" THEN c ELSE None
  /\ Goto(c, CASE line[c].do = "set" -> "assign"
               [] line[c].do = "create" -> "hooks"
               [] line[c].do = "delete" -> "files"
               [] line[c].do = "filter" -> "done")
  /\ UNCHANGED <<queue, line, seen, origins, curLock, db, nodeCur, dirs, refused>> /\ NodeKeeps

AssignOnce(c) ==
  /\ At(c, "assign") /\ curLock = None
  /\ nodeCur' = IF nodeCur = None THEN line[c].of ELSE nodeCur
  /\ dbLock' = None
  /\ Goto(c, "done")
  /\ UNCHANGED <<queue, line, seen, origins, curLock, db, file, dirs, refused>> /\ NodeKeeps

\* set_server: with db locked, current_server is locked and set.
Assign(c) ==
  /\ At(c, "assign") /\ curLock = None
  /\ nodeCur' = line[c].of
  /\ dbLock' = None
  /\ Goto(c, "done")
  /\ UNCHANGED <<queue, line, seen, origins, curLock, db, file, dirs, refused>> /\ NodeKeeps

\* create_server runs the provider's hooks, none to three: each saves the
\* database once more (run_command_live_output), as often as it likes here,
\* and makes the directory if it runs in the sandbox.
NoMoreHooks(c) ==
  /\ At(c, "hooks") /\ dbLock = None
  /\ Goto(c, "done")
  /\ UNCHANGED <<queue, line, seen, origins, dbLock, curLock, storeVars, refused>> /\ NodeKeeps

StartHooks(c) ==
  /\ At(c, "hooks") /\ dbLock = None
  /\ dbLock' = c
  /\ Goto(c, "save again")
  /\ UNCHANGED <<queue, line, seen, origins, curLock, storeVars, refused>> /\ NodeKeeps

RunHooks(c) ==
  /\ At(c, "write again")
  /\ file' = db
  /\ dbLock' = None
  /\ dirs' \in {dirs, dirs \cup {line[c].of}}
  /\ Goto(c, "hooks")
  /\ UNCHANGED <<queue, line, seen, origins, curLock, db, nodeCur, refused>> /\ NodeKeeps

\* delete_server removes the directory of the server that was current, if
\* the index still has it.
RemoveFiles(c) ==
  /\ At(c, "files") /\ dbLock = None
  /\ dirs' = IF line[c].files /\ seen[c] \in db.index THEN dirs \ {seen[c]} ELSE dirs
  /\ Goto(c, "done")
  /\ UNCHANGED <<queue, line, seen, origins, dbLock, curLock, db, nodeCur, file, refused>> /\ NodeKeeps

\* server_data: the guard in the "if let" lives while the paths are looked
\* up in db.
ServerData(c) ==
  /\ At(c, "current") /\ curLock = None
  /\ IF nodeCur = None
       THEN Goto(c, "done") /\ UNCHANGED curLock
       ELSE Goto(c, "lookup") /\ curLock' = c
  /\ UNCHANGED <<queue, line, seen, origins, dbLock, storeVars, refused>> /\ NodeKeeps

LookUp(c) ==
  /\ At(c, "lookup") /\ dbLock = None
  /\ curLock' = None
  /\ Goto(c, "done")
  /\ UNCHANGED <<queue, line, seen, origins, dbLock, storeVars, refused>> /\ NodeKeeps

LineStep(c) ==
  \/ LookCurrent(c) \/ LockDb(c)
  \/ Create(c) \/ SetCurrent(c) \/ SetFilter(c) \/ Delete(c)
  \/ Truncate(c) \/ Write(c) \/ Assign(c)
  \/ StartHooks(c) \/ RunHooks(c) \/ NoMoreHooks(c) \/ RemoveFiles(c)
  \/ ServerData(c) \/ LookUp(c) \/ LineDone(c)

NodeCrashes ==
  /\ up /\ breaks < MaxBreaks /\ breaks' = breaks + 1
  /\ up' = FALSE
  /\ links' = {} /\ inner' = <<>>
  /\ queue' = [c \in Conn |-> <<>>]
  /\ line' = [c \in Conn |-> None] /\ pc' = [c \in Conn |-> "read"]
  /\ seen' = [c \in Conn |-> None]
  /\ origins' = None /\ dbLock' = None /\ curLock' = None
  /\ lost' = (lost \/ inner # <<>> \/ \E c \in Conn : Carries(c))
  /\ UNCHANGED <<panelVars, storeVars, ops, mixed, stale, refused>>

NodeStarts ==
  /\ ~up
  /\ up' = TRUE
  /\ db' = Started(file)
  /\ file' = db'
  /\ nodeCur' = db'.current
  /\ UNCHANGED <<panelVars, linkVars, lineVars, dirs, ops, breaks, pastVars>>

-----------------------------------------------------------------------------
Next ==
  \/ \E c \in Conn : LinkUp(c) \/ LinkDown(c) \/ TakeLine(c) \/ LineStep(c)
  \/ \E s \in Server : AddServer(s) \/ AddFails(s) \/ AddUntold(s)
  \/ \E s \in Server : SetServer(s) \/ \E f \in Asks : DeleteServer(s, f)
  \/ \E r \in Setter : NotifyNode(r) \/ \E v \in Filter : SetSettings(r, v)
  \/ PassOn \/ PanelRestarts \/ NodeCrashes \/ NodeStarts

Spec == Init /\ [][Next]_vars

-----------------------------------------------------------------------------
TypeOK ==
  /\ servers \subseteq Server /\ current \in Server \cup {None} /\ filter \in Filter
  /\ setting \in [Setter -> {"idle", "notify"}] /\ old \in [Setter -> Filter]
  /\ inner \in Seq(Filter) /\ links \subseteq Conn /\ queue \in [Conn -> Seq(Command)]
  /\ up \in BOOLEAN
  /\ line \in [Conn -> Command \cup {None}]
  /\ pc \in [Conn -> {"read", "look", "db", "change", "save", "write", "assign", "hooks",
                      "save again", "write again", "files", "current", "lookup", "done"}]
  /\ seen \in [Conn -> Server \cup {None}]
  /\ {origins, dbLock, curLock} \subseteq Conn \cup {None}
  /\ db \in Database /\ nodeCur \in Server \cup {None}
  /\ file \in Database \cup {Torn} /\ dirs \subseteq Server
  /\ ops \in 0..MaxOps /\ breaks \in 0..MaxBreaks
  /\ {lost, mixed, stale} \subseteq BOOLEAN /\ refused \subseteq Server

\* While no handler has the node's database locked, the current server that
\* the daemon uses is the one it stored, it is in the index, and db.json holds
\* what is in memory: across crashes, a reset of the file, a delete that read
\* the current server before it took the lock, and a set_server that assigns
\* it after it saved (handle_commands_with_metadata, save_db, load_db).
NodeConsistent ==
  up /\ dbLock = None =>
    /\ nodeCur = db.current /\ nodeCur \in db.index \cup {None}
    /\ file = db

\* The locks that a handler waits for while it is at a step.
WaitsDb(c) == pc[c] \in {"db", "hooks", "files", "lookup"}
WaitsCur(c) ==
  \/ pc[c] \in {"look", "current", "assign"}
  \/ At(c, "change") /\ line[c].do = "delete" /\ line[c].of = seen[c]

\* No two handlers wait for each other: set_server and delete_server take
\* current_server under db, server_data takes db under current_server, and
\* only the guard of authenticated_origins keeps them apart.
NoEmbrace ==
  \A c, d \in Conn : ~(dbLock = c /\ WaitsCur(c) /\ curLock = d /\ WaitsDb(d))

\* Nothing is on its way.
Quiet ==
  /\ up /\ inner = <<>>
  /\ \A c \in Conn : queue[c] = <<>> /\ line[c] = None
  /\ \A r \in Setter : setting[r] = "idle"
Reliable == ~lost /\ ~mixed

\* If no command was lost, all were sent and none came over a second
\* connection, then with nothing on its way the node knows the panel's
\* servers, and only these, the built-in one, and those whose delete it
\* refused for want of a current one.
IndexAgrees ==
  Quiet /\ Reliable =>
    /\ servers \subseteq db.index
    /\ db.index \subseteq servers \cup {Builtin} \cup refused

\* Likewise the node's current server is the panel's, unless the panel's was
\* deleted, comes from an add_server that failed or, at a start, from the
\* settings: in these cases nothing tells the node, and the two may part.
CurrentAgrees ==
  Quiet /\ Reliable /\ ~stale /\ current \in servers => nodeCur = current

\* And the node's filter is the panel's, though requests that overlap compare
\* what they replaced with what another stored.
FilterAgrees == Quiet /\ Reliable => db.filter = filter
=============================================================================

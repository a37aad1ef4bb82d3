------------------------ MODULE ServerRegistryProofs ------------------------
(***************************************************************************)
(* Proofs about ServerRegistry, for every set of servers, of filters, of   *)
(* requests and of connections.                                            *)
(***************************************************************************)
EXTENDS ServerRegistry, SequenceTheorems, TLAPS

USE RegistryAssumption

\* The steps at which a handler has db locked.
Inside == {"change", "save", "write", "assign", "save again", "write again"}

\* The steps at which a command may stand.
Suits(p, do) ==
  /\ p \in {"look", "files"} => do = "delete"
  /\ p \in {"hooks", "save again", "write again"} => do = "create"
  /\ p = "assign" => do = "set"
  /\ p \in {"db", "change", "save", "write"} => do \in {"create", "set", "filter", "delete"}

\* What a connection handles fits where it stands, and at most one handles
\* anything: the one that holds the guard of authenticated_origins.
Fits(c) ==
  /\ pc[c] = "read" <=> origins # c
  /\ pc[c] # "read" => up /\ line[c] \in Command /\ Suits(pc[c], line[c].do)
  /\ dbLock = c <=> pc[c] \in Inside
  /\ curLock = c <=> pc[c] = "lookup"

Standing == \A c \in Conn : Fits(c)

\* set_server has changed the database and not yet current_server.
Setting(c) == pc[c] \in {"save", "write", "assign"} /\ line[c].do = "set"

CurrentKnown(d) == d.current \in d.index \cup {None}

Stored ==
  /\ file = Torn \/ CurrentKnown(file)
  /\ up => CurrentKnown(db)
  /\ up /\ dbLock = None => file = db
  /\ up /\ (\A c \in Conn : ~Setting(c)) => nodeCur = db.current
  /\ \A c \in Conn :
       /\ pc[c] \in {"db", "change"} /\ line[c].do = "delete" =>
            seen[c] = nodeCur /\ seen[c] # None
       /\ Setting(c) => db.current = line[c].of
       /\ pc[c] = "assign" => file = db

IInv == TypeOK /\ Standing /\ Stored

\* The parts of TypeOK.
PanelTyped ==
  /\ servers \subseteq Server /\ current \in Server \cup {None} /\ filter \in Filter
  /\ setting \in [Setter -> {"idle", "notify"}] /\ old \in [Setter -> Filter]
LinkTyped ==
  /\ inner \in Seq(Filter) /\ links \subseteq Conn /\ queue \in [Conn -> Seq(Command)]
LineTyped ==
  /\ line \in [Conn -> Command \cup {None}]
  /\ pc \in [Conn -> {"read", "look", "db", "change", "save", "write", "assign", "hooks",
                      "save again", "write again", "files", "current", "lookup", "done"}]
  /\ seen \in [Conn -> Server \cup {None}]
  /\ origins \in Conn \cup {None} /\ dbLock \in Conn \cup {None}
  /\ curLock \in Conn \cup {None}
StoreTyped ==
  /\ db \in Database /\ nodeCur \in Server \cup {None}
  /\ file \in Database \cup {Torn} /\ dirs \subseteq Server
CountTyped == up \in BOOLEAN /\ ops \in 0..MaxOps /\ breaks \in 0..MaxBreaks
PastTyped ==
  lost \in BOOLEAN /\ mixed \in BOOLEAN /\ stale \in BOOLEAN /\ refused \subseteq Server

LEMMA TypeParts ==
  /\ TypeOK <=> PanelTyped /\ LinkTyped /\ LineTyped /\ StoreTyped /\ CountTyped /\ PastTyped
  /\ TypeOK' <=> PanelTyped' /\ LinkTyped' /\ LineTyped' /\ StoreTyped' /\ CountTyped' /\ PastTyped'
<1>1. \A a, b, c, S : {a, b, c} \subseteq S <=> a \in S /\ b \in S /\ c \in S
  OBVIOUS
<1>2. TypeOK <=> PanelTyped /\ LinkTyped /\ LineTyped /\ StoreTyped /\ CountTyped /\ PastTyped
  <2>1. {lost, mixed, stale} \subseteq BOOLEAN <=>
          lost \in BOOLEAN /\ mixed \in BOOLEAN /\ stale \in BOOLEAN
    BY <1>1, Zenon
  <2>2. {origins, dbLock, curLock} \subseteq Conn \cup {None} <=>
          /\ origins \in Conn \cup {None} /\ dbLock \in Conn \cup {None}
          /\ curLock \in Conn \cup {None}
    BY <1>1, Zenon
  <2> QED
    BY <2>1, <2>2
    DEF TypeOK, PanelTyped, LinkTyped, LineTyped, StoreTyped, CountTyped, PastTyped
<1>3. TypeOK' <=> PanelTyped' /\ LinkTyped' /\ LineTyped' /\ StoreTyped' /\ CountTyped' /\ PastTyped'
  <2>1. {lost', mixed', stale'} \subseteq BOOLEAN <=>
          lost' \in BOOLEAN /\ mixed' \in BOOLEAN /\ stale' \in BOOLEAN
    BY <1>1, Zenon
  <2>2. {origins', dbLock', curLock'} \subseteq Conn \cup {None} <=>
          /\ origins' \in Conn \cup {None} /\ dbLock' \in Conn \cup {None}
          /\ curLock' \in Conn \cup {None}
    BY <1>1, Zenon
  <2> QED
    BY <2>1, <2>2
    DEF TypeOK, PanelTyped, LinkTyped, LineTyped, StoreTyped, CountTyped, PastTyped
<1> QED
  BY <1>2, <1>3

-----------------------------------------------------------------------------
LEMMA StartedTyped ==
  ASSUME NEW f \in Database \cup {Torn}, f = Torn \/ CurrentKnown(f)
  PROVE  Started(f) \in Database /\ CurrentKnown(Started(f))
<1>1. Loaded(f) \in Database /\ CurrentKnown(Loaded(f))
  BY DEF Loaded, DefaultDb, Database, CurrentKnown
<1> QED
  BY <1>1 DEF Started, Database, CurrentKnown

LEMMA CmdTyped ==
  ASSUME NEW e \in {"create", "set"}, NEW s \in Server
  PROVE  Cmd(e, s) \in Command
BY DEF Cmd, Command

LEMMA GreetingTyped == Greeting \in Command /\ Greeting.do = "data" /\ <<Greeting>> \in Seq(Command)
BY DEF Greeting, Command

LEMMA CommandKinds ==
  ASSUME NEW l \in Command
  PROVE  \/ l.do \in {"create", "set", "delete"} /\ l.of \in Server
         \/ l.do = "filter" /\ l.of \in Filter
         \/ l.do = "data"
<1>1. CASE l \in [do : {"create", "set", "delete"}, of : Server, files : BOOLEAN]
  BY <1>1
<1>2. CASE l \in [do : {"filter"}, of : Filter, files : {FALSE}]
  BY <1>2
<1>3. CASE l = Greeting
  BY <1>3 DEF Greeting
<1> QED
  BY <1>1, <1>2, <1>3 DEF Command

LEMMA BroadcastTyped ==
  ASSUME TypeOK, NEW cmds \in Seq(Command), Broadcast(cmds)
  PROVE  queue' \in [Conn -> Seq(Command)] /\ lost' \in BOOLEAN /\ mixed' \in BOOLEAN
<1>1. queue' \in [Conn -> Seq(Command)]
  <2>1. ASSUME NEW c \in Conn PROVE queue[c] \o cmds \in Seq(Command)
    BY ConcatProperties DEF TypeOK
  <2> QED
    BY <2>1 DEF TypeOK, Broadcast
<1>2. lost \in BOOLEAN /\ mixed \in BOOLEAN
  BY DEF TypeOK
<1>3. lost' \in BOOLEAN /\ mixed' \in BOOLEAN
  BY <1>2 DEF Broadcast
<1> QED
  BY <1>1, <1>3

LEMMA InitHolds == Init => IInv
<1> SUFFICES ASSUME Init PROVE IInv
  OBVIOUS
<1>1. DefaultDb \in Database /\ CurrentKnown(DefaultDb)
  BY DEF DefaultDb, Database, CurrentKnown
<1>2. db \in Database /\ CurrentKnown(db) /\ db.current = None
  BY <1>1, StartedTyped DEF Init, Started, Loaded, DefaultDb, Database, CurrentKnown, Torn
<1>3. TypeOK
  <2>1. PanelTyped
    BY DEF Init, PanelTyped
  <2>2. LinkTyped
    BY EmptySeq DEF Init, LinkTyped
  <2>3. LineTyped
    BY DEF Init, LineTyped
  <2>4. StoreTyped
    BY <1>2 DEF Init, StoreTyped
  <2>5. CountTyped
    BY DEF Init, CountTyped
  <2>6. PastTyped
    BY Zenon DEF Init, PastTyped
  <2> QED
    BY <2>1, <2>2, <2>3, <2>4, <2>5, <2>6, TypeParts
<1>4. Standing
  BY DEF Init, Standing, Fits, Suits, Inside
<1>5. Stored
  BY <1>2 DEF Init, Stored, Setting
<1> QED
  BY <1>3, <1>4, <1>5 DEF IInv

-----------------------------------------------------------------------------
(* Steps that do not touch the handlers and the stores of the node. *)

LEMMA Outside ==
  ASSUME IInv, UNCHANGED <<lineVars, storeVars, up>>
  PROVE  LineTyped' /\ StoreTyped' /\ Standing' /\ Stored'
<1>1. LineTyped' /\ StoreTyped'
  BY TypeParts DEF IInv, lineVars, storeVars, LineTyped, StoreTyped
<1>2. Standing'
  BY DEF IInv, lineVars, Standing, Fits
<1>3. Stored'
  BY DEF IInv, lineVars, storeVars, Stored, Setting, CurrentKnown
<1> QED
  BY <1>1, <1>2, <1>3

LEMMA PanelStep ==
  ASSUME IInv,
         \/ \E s \in Server : AddServer(s) \/ AddFails(s) \/ AddUntold(s)
         \/ \E s \in Server : SetServer(s) \/ \E f \in BOOLEAN : DeleteServer(s, f)
         \/ PassOn
  PROVE  IInv'
<1> USE DEF Operates, PanelKeeps, SettingsKeep
<1>1. PanelTyped /\ LinkTyped /\ CountTyped /\ PastTyped /\ TypeOK
  BY TypeParts DEF IInv
<1>2. \A b, d \in Command : <<b>> \in Seq(Command) /\ <<b, d>> \in Seq(Command)
  OBVIOUS
<1>3. ASSUME NEW s \in Server, AddServer(s) PROVE IInv'
  <2>1. PanelTyped'
    BY <1>1, <1>3 DEF AddServer, PanelTyped
  <2>2. inner' \in Seq(Filter) /\ links' \subseteq Conn
    BY <1>1, <1>3 DEF AddServer, LinkTyped
  <2>3. queue' \in [Conn -> Seq(Command)] /\ lost' \in BOOLEAN /\ mixed' \in BOOLEAN
    <3>1. <<Cmd("create", s), Cmd("set", s)>> \in Seq(Command)
      BY <1>2, CmdTyped
    <3> QED
      BY <1>1, <1>3, <3>1, BroadcastTyped DEF AddServer
  <2>4. stale' \in BOOLEAN
    BY <1>3 DEF AddServer
  <2>5. UNCHANGED <<lineVars, storeVars, up, refused, breaks>> /\ ops' \in 0..MaxOps
    BY <1>1, <1>3 DEF AddServer, CountTyped
  <2>6. CountTyped' /\ PastTyped'
    BY <1>1, <2>3, <2>4, <2>5 DEF CountTyped, PastTyped
  <2> QED
    BY <2>1, <2>2, <2>3, <2>5, <2>6, Outside, TypeParts DEF IInv, LinkTyped
<1>7. ASSUME NEW s \in Server, AddFails(s) \/ AddUntold(s) PROVE IInv'
  <2>1. PanelTyped'
    BY <1>1, <1>7 DEF AddFails, AddUntold, PanelTyped
  <2>2. LinkTyped'
    BY <1>1, <1>7 DEF AddFails, AddUntold, LinkTyped
  <2>3. lost' \in BOOLEAN /\ mixed' = mixed /\ stale' \in BOOLEAN
    BY <1>1, <1>7 DEF AddFails, AddUntold, PastTyped
  <2>4. UNCHANGED <<lineVars, storeVars, up, refused, breaks>> /\ ops' \in 0..MaxOps
    BY <1>1, <1>7 DEF AddFails, AddUntold, CountTyped
  <2>5. CountTyped' /\ PastTyped'
    BY <1>1, <2>3, <2>4 DEF CountTyped, PastTyped
  <2> QED
    BY <2>1, <2>2, <2>4, <2>5, Outside, TypeParts DEF IInv
<1>4. ASSUME NEW s \in Server, SetServer(s) PROVE IInv'
  <2>1. PanelTyped'
    BY <1>1, <1>4 DEF SetServer, PanelTyped
  <2>2. inner' \in Seq(Filter) /\ links' \subseteq Conn
    BY <1>1, <1>4 DEF SetServer, LinkTyped
  <2>3. queue' \in [Conn -> Seq(Command)] /\ lost' \in BOOLEAN /\ mixed' \in BOOLEAN
    BY <1>1, <1>2, <1>4, CmdTyped, BroadcastTyped DEF SetServer
  <2>4. stale' \in BOOLEAN
    BY <1>4 DEF SetServer
  <2>5. UNCHANGED <<lineVars, storeVars, up, refused, breaks>> /\ ops' \in 0..MaxOps
    BY <1>1, <1>4 DEF SetServer, CountTyped
  <2>6. CountTyped' /\ PastTyped'
    BY <1>1, <2>3, <2>4, <2>5 DEF CountTyped, PastTyped
  <2> QED
    BY <2>1, <2>2, <2>3, <2>5, <2>6, Outside, TypeParts DEF IInv, LinkTyped
<1>5. ASSUME NEW s \in Server, NEW f \in BOOLEAN, DeleteServer(s, f) PROVE IInv'
  <2>1. PanelTyped'
    BY <1>1, <1>5 DEF DeleteServer, PanelTyped
  <2>2. inner' \in Seq(Filter) /\ links' \subseteq Conn
    BY <1>1, <1>5 DEF DeleteServer, LinkTyped
  <2>3. queue' \in [Conn -> Seq(Command)] /\ lost' \in BOOLEAN /\ mixed' \in BOOLEAN
    <3>1. [do |-> "delete", of |-> s, files |-> f] \in Command
      BY DEF Command
    <3> QED
      BY <1>1, <1>2, <1>5, <3>1, BroadcastTyped DEF DeleteServer
  <2>4. UNCHANGED <<lineVars, storeVars, up, refused, breaks, stale>> /\ ops' \in 0..MaxOps
    BY <1>1, <1>5 DEF DeleteServer, CountTyped
  <2>5. CountTyped' /\ PastTyped'
    BY <1>1, <2>3, <2>4 DEF CountTyped, PastTyped
  <2> QED
    BY <2>1, <2>2, <2>3, <2>4, <2>5, Outside, TypeParts DEF IInv, LinkTyped
<1>6. ASSUME PassOn PROVE IInv'
  <2>1. PanelTyped'
    BY <1>1, <1>6 DEF PassOn, panelVars, PanelTyped
  <2>2. Head(inner) \in Filter /\ Tail(inner) \in Seq(Filter)
    BY <1>1, <1>6, HeadTailProperties DEF PassOn, LinkTyped
  <2>3. queue' \in [Conn -> Seq(Command)] /\ lost' \in BOOLEAN /\ mixed' \in BOOLEAN
    <3>1. Cmd("filter", Head(inner)) \in Command
      BY <2>2 DEF Cmd, Command
    <3> QED
      BY <1>1, <1>2, <1>6, <3>1, BroadcastTyped DEF PassOn
  <2>4. UNCHANGED <<lineVars, storeVars, up, refused, breaks, stale, ops, links>>
    BY <1>6 DEF PassOn
  <2>5. CountTyped' /\ PastTyped'
    BY <1>1, <2>3, <2>4 DEF CountTyped, PastTyped
  <2>6. LinkTyped'
    BY <1>1, <1>6, <2>2, <2>3, <2>4 DEF PassOn, LinkTyped
  <2> QED
    BY <2>1, <2>4, <2>5, <2>6, Outside, TypeParts DEF IInv
<1> QED
  BY <1>3, <1>4, <1>5, <1>6, <1>7

LEMMA SettingsStep ==
  ASSUME IInv, NEW r \in Setter, NotifyNode(r) \/ \E v \in Filter : SetSettings(r, v)
  PROVE  IInv'
<1> USE DEF Operates, PanelKeeps
<1>1. PanelTyped /\ LinkTyped /\ CountTyped /\ PastTyped
  BY TypeParts DEF IInv
<1>2. ASSUME NEW v \in Filter, SetSettings(r, v) PROVE IInv'
  <2>1. PanelTyped'
    BY <1>1, <1>2 DEF SetSettings, PanelTyped
  <2>2. LinkTyped'
    BY <1>1, <1>2 DEF SetSettings, LinkTyped
  <2>3. CountTyped'
    BY <1>1, <1>2 DEF SetSettings, CountTyped
  <2>4. UNCHANGED <<lineVars, storeVars, up, refused, lost, mixed, stale>>
    BY <1>2 DEF SetSettings
  <2>5. PastTyped'
    BY <1>1, <2>4 DEF PastTyped
  <2> QED
    BY <2>1, <2>2, <2>3, <2>4, <2>5, Outside, TypeParts DEF IInv
<1>3. ASSUME NotifyNode(r) PROVE IInv'
  <2>1. PanelTyped'
    BY <1>1, <1>3 DEF NotifyNode, PanelTyped
  <2>2. inner' \in Seq(Filter)
    <3>1. inner' = inner \/ inner' = Append(inner, filter)
      BY <1>3, Zenon DEF NotifyNode
    <3>2. inner \in Seq(Filter) /\ filter \in Filter
      BY <1>1 DEF LinkTyped, PanelTyped
    <3> QED
      BY <3>1, <3>2, AppendProperties
  <2>3. LinkTyped'
    BY <1>1, <1>3, <2>2 DEF NotifyNode, LinkTyped
  <2>4. CountTyped'
    BY <1>1, <1>3 DEF NotifyNode, CountTyped
  <2>5. UNCHANGED <<lineVars, storeVars, up, refused, mixed, stale>>
    BY <1>3 DEF NotifyNode
  <2>6. lost' \in BOOLEAN
    <3>1. lost' = (lost \/ old[r] # filter) \/ lost' = lost
      BY <1>3 DEF NotifyNode
    <3> QED
      BY <1>1, <3>1, Zenon DEF PastTyped
  <2>7. PastTyped'
    BY <1>1, <2>5, <2>6 DEF PastTyped
  <2> QED
    BY <2>1, <2>3, <2>4, <2>5, <2>7, Outside, TypeParts DEF IInv
<1> QED
  BY <1>2, <1>3

LEMMA LinkStep ==
  ASSUME IInv, NEW c \in Conn, LinkUp(c) \/ LinkDown(c)
  PROVE  IInv'
<1>1. PanelTyped /\ LinkTyped /\ CountTyped /\ PastTyped
  BY TypeParts DEF IInv
<1>2. ASSUME LinkUp(c) PROVE IInv'
  <2>1. UNCHANGED <<panelVars, inner, up, lineVars, storeVars, ops, breaks, pastVars>>
    BY <1>2 DEF LinkUp
  <2>2. PanelTyped' /\ LinkTyped'
    BY <1>1, <1>2, <2>1, GreetingTyped DEF LinkUp, panelVars, PanelTyped, LinkTyped
  <2>3. CountTyped' /\ PastTyped'
    BY <1>1, <2>1 DEF pastVars, CountTyped, PastTyped
  <2> QED
    BY <2>1, <2>2, <2>3, Outside, TypeParts DEF IInv
<1>3. ASSUME LinkDown(c) PROVE IInv'
  <2>1. UNCHANGED <<panelVars, up, lineVars, storeVars, ops, mixed, stale, refused>>
    BY <1>3 DEF LinkDown
  <2>2. PICK n \in 0..Len(queue[c]) :
          /\ queue' = [queue EXCEPT ![c] = SubSeq(@, 1, n)]
          /\ lost' = (\/ lost \/ \E i \in (n + 1)..Len(queue[c]) : queue[c][i] \in Telling
                      \/ links' = {} /\ inner # <<>>)
    BY <1>3 DEF LinkDown
  <2>3. SubSeq(queue[c], 1, n) \in Seq(Command)
    BY <1>1, SubSeqProperties DEF LinkTyped
  <2>4. LinkTyped'
    BY <1>1, <1>3, <2>2, <2>3, EmptySeq DEF LinkDown, LinkTyped
  <2>5. PanelTyped' /\ CountTyped'
    BY <1>1, <1>3, <2>1 DEF LinkDown, panelVars, PanelTyped, CountTyped
  <2>6. lost' \in BOOLEAN
    BY <1>1, <2>2, Zenon DEF PastTyped
  <2>7. PastTyped'
    BY <1>1, <2>1, <2>6 DEF PastTyped
  <2> QED
    BY <2>1, <2>4, <2>5, <2>7, Outside, TypeParts DEF IInv
<1> QED
  BY <1>2, <1>3

LEMMA RestartStep ==
  ASSUME IInv, PanelRestarts \/ NodeCrashes \/ NodeStarts
  PROVE  IInv'
<1>1. PanelTyped /\ LinkTyped /\ LineTyped /\ StoreTyped /\ CountTyped /\ PastTyped
  BY TypeParts DEF IInv
<1>2. ASSUME PanelRestarts PROVE IInv'
  <2>1. /\ UNCHANGED <<servers, filter, old, up, lineVars, storeVars, ops, mixed, refused>>
        /\ stale' \in BOOLEAN
    BY <1>2 DEF PanelRestarts
  <2>2. PanelTyped'
    BY <1>1, <1>2, <2>1 DEF PanelRestarts, PanelTyped
  <2>3. LinkTyped'
    <3>1. [c \in Conn |-> <<>>] \in [Conn -> Seq(Command)] /\ queue \in [Conn -> Seq(Command)]
      BY <1>1, EmptySeq DEF LinkTyped
    <3>2. inner' = <<>> /\ links' = {} /\ queue' \in {[c \in Conn |-> <<>>], queue}
      BY <1>2 DEF PanelRestarts
    <3> QED
      BY <3>1, <3>2, EmptySeq DEF LinkTyped
  <2>4. CountTyped'
    BY <1>1, <1>2, <2>1 DEF PanelRestarts, CountTyped
  <2>5. lost' \in BOOLEAN
    BY <1>1, <1>2, Zenon DEF PanelRestarts, PastTyped
  <2>6. PastTyped'
    BY <1>1, <2>1, <2>5 DEF PastTyped
  <2> QED
    BY <2>1, <2>2, <2>3, <2>4, <2>6, Outside, TypeParts DEF IInv
<1>3. ASSUME NodeCrashes PROVE IInv'
  <2>1. UNCHANGED <<panelVars, storeVars, ops, mixed, stale, refused>> /\ up' = FALSE
    BY <1>3 DEF NodeCrashes
  <2>2. PanelTyped' /\ StoreTyped'
    BY <1>1, <2>1 DEF panelVars, storeVars, PanelTyped, StoreTyped
  <2>3. LinkTyped' /\ LineTyped'
    BY <1>1, <1>3, EmptySeq DEF NodeCrashes, LinkTyped, LineTyped
  <2>4. CountTyped'
    <3>1. breaks < MaxBreaks /\ breaks' = breaks + 1
      BY <1>3, Zenon DEF NodeCrashes
    <3>2. ops' = ops /\ up' \in BOOLEAN
      BY <2>1, Zenon
    <3>3. breaks \in 0..MaxBreaks /\ ops \in 0..MaxOps
      BY <1>1 DEF CountTyped
    <3>4. breaks' \in 0..MaxBreaks
      BY <3>1, <3>3
    <3> QED
      BY <3>2, <3>3, <3>4 DEF CountTyped
  <2>5. lost' \in BOOLEAN
    BY <1>1, <1>3, Zenon DEF NodeCrashes, PastTyped
  <2>6. PastTyped'
    BY <1>1, <2>1, <2>5 DEF PastTyped
  <2>7. Standing'
    BY <1>3 DEF NodeCrashes, Standing, Fits, Suits, Inside
  <2>8. Stored'
    BY <1>3, <2>1 DEF NodeCrashes, IInv, Stored, Setting, CurrentKnown, storeVars
  <2> QED
    BY <2>2, <2>3, <2>4, <2>6, <2>7, <2>8, TypeParts DEF IInv
<1>4. ASSUME NodeStarts PROVE IInv'
  <2>1. UNCHANGED <<panelVars, linkVars, lineVars, dirs, ops, breaks, pastVars>> /\ up' = TRUE
    BY <1>4 DEF NodeStarts
  <2>2. PanelTyped' /\ LinkTyped' /\ LineTyped'
    BY <1>1, <2>1 DEF panelVars, linkVars, lineVars, PanelTyped, LinkTyped, LineTyped
  <2>3. CountTyped'
    BY <1>1, <2>1 DEF CountTyped
  <2>4. PastTyped'
    BY <1>1, <2>1 DEF pastVars, PastTyped
  <2>5. db' \in Database /\ CurrentKnown(db')
    BY <1>1, <1>4, StartedTyped DEF NodeStarts, IInv, Stored, StoreTyped
  <2>6. file' = db' /\ nodeCur' = db'.current
    BY <1>4 DEF NodeStarts
  <2>7. StoreTyped'
    BY <1>1, <2>1, <2>5, <2>6 DEF StoreTyped, Database
  <2>8. \A c \in Conn : pc[c] = "read" /\ pc'[c] = "read"
    BY <1>4, <2>1 DEF NodeStarts, IInv, Standing, Fits, lineVars
  <2>9. Standing'
    BY <2>1, <2>8 DEF IInv, Standing, Fits, lineVars
  <2>10. Stored'
    BY <2>5, <2>6, <2>8 DEF Stored, Setting
  <2> QED
    BY <2>2, <2>3, <2>4, <2>7, <2>9, <2>10, TypeParts DEF IInv
<1> QED
  BY <1>2, <1>3, <1>4

-----------------------------------------------------------------------------
(* Steps of the handlers of the node. *)

\* While a connection handles a line, no other one does.
LEMMA OneAtATime ==
  ASSUME IInv, NEW c \in Conn, pc[c] # "read"
  PROVE  /\ \A d \in Conn \ {c} : pc[d] = "read"
         /\ dbLock \in {c, None} /\ curLock \in {c, None}
         /\ origins = c /\ up /\ line[c] \in Command
<1>1. LineTyped
  BY TypeParts DEF IInv
<1>2. origins = c
  BY DEF IInv, Standing, Fits
<1>3. \A d \in Conn \ {c} : pc[d] = "read" /\ dbLock # d /\ curLock # d
  BY <1>2 DEF IInv, Standing, Fits, Inside
<1> QED
  BY <1>1, <1>2, <1>3 DEF IInv, Standing, Fits, LineTyped

\* A step of a handler that goes to a step which suits its command, and whose
\* locks are right there, keeps the connections as they should stand.
LEMMA Moves ==
  ASSUME IInv, NEW c \in Conn, pc[c] # "read", NEW p,
         p \in {"look", "db", "change", "save", "write", "assign", "hooks", "save again",
                "write again", "files", "current", "lookup", "done"},
         Goto(c, p), UNCHANGED <<queue, line, origins>>, NodeKeeps,
         Suits(p, line[c].do),
         dbLock' = IF p \in Inside THEN c ELSE None,
         curLock' = IF p = "lookup" THEN c ELSE None,
         seen' \in [Conn -> Server \cup {None}], refused' \subseteq Server,
         StoreTyped'
  PROVE  TypeOK' /\ Standing' /\ pc'[c] = p /\ \A d \in Conn \ {c} : pc'[d] = "read"
<1>1. PanelTyped /\ LinkTyped /\ LineTyped /\ CountTyped /\ PastTyped
  BY TypeParts DEF IInv
<1>2. UNCHANGED <<panelVars, inner, links, up, ops, breaks, lost, mixed, stale>>
  BY DEF NodeKeeps
<1>3. PanelTyped' /\ LinkTyped'
  BY <1>1, <1>2 DEF panelVars, PanelTyped, LinkTyped
<1>4. CountTyped'
  BY <1>1, <1>2 DEF CountTyped
<1>5. PastTyped'
  BY <1>1, <1>2 DEF PastTyped
<1>6. pc' = [pc EXCEPT ![c] = p]
  BY DEF Goto
<1>7. LineTyped'
  BY <1>1, <1>6 DEF LineTyped
<1>8. pc'[c] = p /\ \A d \in Conn \ {c} : pc'[d] = "read" /\ pc[d] = "read"
  BY <1>1, <1>6, OneAtATime DEF LineTyped
<1>9. \A d \in Conn : Fits(d)'
  BY <1>2, <1>8, OneAtATime DEF Fits, Inside
<1> QED
  BY <1>3, <1>4, <1>5, <1>7, <1>8, <1>9, TypeParts DEF Standing

LEMMA TakeStep ==
  ASSUME IInv, NEW c \in Conn, TakeLine(c)
  PROVE  IInv'
<1>1. PanelTyped /\ LinkTyped /\ LineTyped /\ StoreTyped /\ CountTyped /\ PastTyped
  BY TypeParts DEF IInv
<1>2. /\ UNCHANGED <<panelVars, inner, links, up, ops, breaks, lost, mixed, stale>>
      /\ UNCHANGED <<seen, dbLock, curLock, storeVars, refused>>
      /\ up /\ pc[c] = "read" /\ origins = None /\ origins' = c
  BY DEF TakeLine, NodeKeeps, At
<1>3. PICK l \in Command : l = Head(queue[c]) /\ Tail(queue[c]) \in Seq(Command)
  BY <1>1, HeadTailProperties DEF TakeLine, LinkTyped
<1>4. /\ line' = [line EXCEPT ![c] = l]
      /\ queue' = [queue EXCEPT ![c] = Tail(@)]
      /\ pc' = [pc EXCEPT ![c] = First(l.do)]
  BY <1>1, <1>3 DEF TakeLine, Goto, LineTyped
<1>5. First(l.do) \in {"db", "look", "current"} /\ Suits(First(l.do), l.do)
  BY CommandKinds DEF First, Suits
<1>6. \A d \in Conn : pc[d] = "read" /\ dbLock # d /\ curLock # d
  BY <1>2 DEF IInv, Standing, Fits, Inside
<1>7. PanelTyped' /\ StoreTyped'
  BY <1>1, <1>2 DEF panelVars, storeVars, PanelTyped, StoreTyped
<1>8. LinkTyped'
  BY <1>1, <1>2, <1>3, <1>4 DEF LinkTyped
<1>9. LineTyped'
  BY <1>1, <1>2, <1>4, <1>5 DEF LineTyped
<1>10. CountTyped'
  BY <1>1, <1>2 DEF CountTyped
<1>11. PastTyped'
  BY <1>1, <1>2 DEF PastTyped
<1>12. pc'[c] = First(l.do) /\ line'[c] = l /\ \A d \in Conn \ {c} : pc'[d] = "read"
  BY <1>1, <1>4, <1>6 DEF LineTyped
<1>13. Standing'
  BY <1>2, <1>5, <1>6, <1>12 DEF Standing, Fits, Inside
<1>14. First(l.do) = "db" => l.do # "delete"
  BY DEF First, Command
<1>15. Stored'
  BY <1>2, <1>5, <1>6, <1>12, <1>14 DEF IInv, Stored, Setting, CurrentKnown, storeVars
<1> QED
  BY <1>7, <1>8, <1>9, <1>10, <1>11, <1>13, <1>15, TypeParts DEF IInv

LEMMA DoneStep ==
  ASSUME IInv, NEW c \in Conn, LineDone(c)
  PROVE  IInv'
<1>1. PanelTyped /\ LinkTyped /\ LineTyped /\ StoreTyped /\ CountTyped /\ PastTyped
  BY TypeParts DEF IInv
<1>2. /\ UNCHANGED <<panelVars, inner, links, up, ops, breaks, lost, mixed, stale>>
      /\ UNCHANGED <<queue, dbLock, curLock, storeVars, refused>>
      /\ pc[c] = "done" /\ origins' = None /\ pc' = [pc EXCEPT ![c] = "read"]
      /\ line' = [line EXCEPT ![c] = None] /\ seen' = [seen EXCEPT ![c] = None]
  BY DEF LineDone, NodeKeeps, At, Goto
<1>3. /\ PanelTyped' /\ LinkTyped' /\ StoreTyped'
  BY <1>1, <1>2 DEF panelVars, storeVars, PanelTyped, LinkTyped, StoreTyped
<1>4. LineTyped'
  BY <1>1, <1>2 DEF LineTyped
<1>5. CountTyped'
  BY <1>1, <1>2 DEF CountTyped
<1>6. PastTyped'
  BY <1>1, <1>2 DEF PastTyped
<1>7. \A d \in Conn : pc'[d] = "read" /\ (d # c => pc[d] = "read")
  BY <1>1, <1>2, OneAtATime DEF LineTyped
<1>8. Standing'
  BY <1>2, <1>7 DEF IInv, Standing, Fits, Inside
<1>9. \A d \in Conn : ~Setting(d) /\ ~Setting(d)'
  BY <1>2, <1>7 DEF Setting
<1>10. Stored'
  BY <1>2, <1>7, <1>9 DEF IInv, Stored, CurrentKnown, storeVars
<1> QED
  BY <1>3, <1>4, <1>5, <1>6, <1>8, <1>10, TypeParts DEF IInv

\* What a create, set or delete names.
LEMMA OfServer ==
  ASSUME NEW l \in Command, l.do \notin {"filter", "data"}
  PROVE  l.of \in Server
BY CommandKinds

LEMMA HandlerStep ==
  ASSUME IInv, NEW c \in Conn, LineStep(c)
  PROVE  IInv'
<1> USE DEF At
<1>1. LineTyped /\ StoreTyped /\ PastTyped
  BY TypeParts DEF IInv
<1>2. Fits(c) /\ Stored
  BY DEF IInv, Standing
<1>3. ASSUME LookCurrent(c) PROVE IInv'
  <2>1. CASE nodeCur = None
    <3>1. pc[c] = "look" /\ Goto(c, "done") /\ NodeKeeps /\ UNCHANGED <<queue, line, origins>>
      BY <1>3, <2>1 DEF LookCurrent
    <3>2. Suits("done", line[c].do)
      BY <1>2, <3>1 DEF Fits, Suits
    <3>3. StoreTyped'
      BY <1>3, <2>1, <1>1 DEF LookCurrent, storeVars, StoreTyped
    <3>4. /\ dbLock' = IF "done" \in Inside THEN c ELSE None
          /\ curLock' = IF "done" = "lookup" THEN c ELSE None
      BY <1>3, <2>1, <1>2, <3>1, OneAtATime DEF LookCurrent, Fits, Inside
    <3>5. seen' \in [Conn -> Server \cup {None}] /\ refused' \subseteq Server
      <4>1. line[c].of \in Server
        BY <1>2, <3>1, OneAtATime, OfServer DEF Fits, Suits
      <4>2. seen' = [seen EXCEPT ![c] = nodeCur] /\ refused' = refused \cup {line[c].of}
        BY <1>3, <2>1 DEF LookCurrent
      <4> QED
        BY <1>1, <4>1, <4>2 DEF LineTyped, StoreTyped, PastTyped
    <3>6. TypeOK' /\ Standing' /\ pc'[c] = "done" /\ \A d \in Conn \ {c} : pc'[d] = "read"
      BY <3>1, <3>2, <3>3, <3>4, <3>5, Moves
    <3>7. Stored'
      BY <1>3, <2>1, <1>1, <1>2, <3>1, <3>4, <3>6, OneAtATime
      DEF LookCurrent, NodeKeeps, Stored, Setting, CurrentKnown, Inside, storeVars, LineTyped
    <3> QED
      BY <3>6, <3>7 DEF IInv
  <2>2. CASE nodeCur # None
    <3>1. pc[c] = "look" /\ Goto(c, "db") /\ NodeKeeps /\ UNCHANGED <<queue, line, origins>>
      BY <1>3, <2>2 DEF LookCurrent
    <3>2. Suits("db", line[c].do)
      BY <1>2, <3>1 DEF Fits, Suits
    <3>3. StoreTyped'
      BY <1>3, <2>2, <1>1 DEF LookCurrent, storeVars, StoreTyped
    <3>4. /\ dbLock' = IF "db" \in Inside THEN c ELSE None
          /\ curLock' = IF "db" = "lookup" THEN c ELSE None
      BY <1>3, <2>2, <1>2, <3>1, OneAtATime DEF LookCurrent, Fits, Inside
    <3>5. seen' \in [Conn -> Server \cup {None}] /\ refused' \subseteq Server
      BY <1>3, <2>2, <1>1 DEF LookCurrent, LineTyped, StoreTyped, PastTyped
    <3>6. TypeOK' /\ Standing' /\ pc'[c] = "db" /\ \A d \in Conn \ {c} : pc'[d] = "read"
      BY <3>1, <3>2, <3>3, <3>4, <3>5, Moves
    <3>7. Stored'
      <4>1. /\ UNCHANGED <<db, nodeCur, file, up, line>>
            /\ seen' = [seen EXCEPT ![c] = nodeCur] /\ dbLock' = dbLock
        BY <1>3, <3>1 DEF LookCurrent, NodeKeeps, storeVars
      <4>2. \A d \in Conn : ~Setting(d) /\ ~Setting(d)'
        BY <1>2, <3>1, <3>6, OneAtATime DEF Setting
      <4>3. seen'[c] = nodeCur'
        BY <1>1, <4>1 DEF LineTyped
      <4>4. /\ file' = Torn \/ CurrentKnown(file)'
            /\ up' => CurrentKnown(db)'
            /\ up' /\ dbLock' = None => file' = db'
            /\ up' => nodeCur' = db'.current
        BY <1>2, <4>1, <4>2 DEF Stored, CurrentKnown
      <4>5. ASSUME NEW d \in Conn
            PROVE  (pc'[d] \in {"db", "change"} => d = c) /\ pc'[d] # "assign"
        BY <3>6
      <4> QED
        BY <2>2, <4>1, <4>2, <4>3, <4>4, <4>5 DEF Stored
    <3> QED
      BY <3>6, <3>7 DEF IInv
  <2> QED
    BY <2>1, <2>2
<1>4. ASSUME LockDb(c) PROVE IInv'
  <2>1. pc[c] = "db" /\ Goto(c, "change") /\ NodeKeeps /\ UNCHANGED <<queue, line, origins>>
    BY <1>4 DEF LockDb
  <2>2. Suits("change", line[c].do)
    BY <1>2, <2>1 DEF Fits, Suits
  <2>3. StoreTyped'
    BY <1>4, <1>1 DEF LockDb, storeVars, StoreTyped
  <2>4. /\ dbLock' = IF "change" \in Inside THEN c ELSE None
        /\ curLock' = IF "change" = "lookup" THEN c ELSE None
    BY <1>4, <1>2, <2>1, OneAtATime DEF LockDb, Fits, Inside
  <2>5. seen' \in [Conn -> Server \cup {None}] /\ refused' \subseteq Server
    BY <1>4, <1>1 DEF LockDb, LineTyped, PastTyped
  <2>6. TypeOK' /\ Standing' /\ pc'[c] = "change" /\ \A d \in Conn \ {c} : pc'[d] = "read"
    BY <2>1, <2>2, <2>3, <2>4, <2>5, Moves
  <2>7. Stored'
    BY <1>4, <1>2, <2>1, <2>4, <2>6, OneAtATime
    DEF LockDb, NodeKeeps, Stored, Setting, CurrentKnown, Inside, storeVars
  <2> QED
    BY <2>6, <2>7 DEF IInv
<1>5. ASSUME Create(c) PROVE IInv'
  <2>1. pc[c] = "change" /\ Goto(c, "save") /\ NodeKeeps /\ UNCHANGED <<queue, line, origins>>
    BY <1>5 DEF Create
  <2>2. Suits("save", line[c].do)
    BY <1>5, <1>2, <2>1 DEF Create, Fits, Suits
  <2>3. StoreTyped'
    <3>1. line[c].of \in Server
      BY <1>5, <2>1, OneAtATime, OfServer DEF Create
    <3> QED
      BY <1>5, <1>1, <3>1 DEF Create, Database, StoreTyped
  <2>4. /\ dbLock' = IF "save" \in Inside THEN c ELSE None
        /\ curLock' = IF "save" = "lookup" THEN c ELSE None
    BY <1>5, <1>2, <2>1, OneAtATime DEF Create, Fits, Inside
  <2>5. seen' \in [Conn -> Server \cup {None}] /\ refused' \subseteq Server
    BY <1>5, <1>1 DEF Create, LineTyped, PastTyped
  <2>6. TypeOK' /\ Standing' /\ pc'[c] = "save" /\ \A d \in Conn \ {c} : pc'[d] = "read"
    BY <2>1, <2>2, <2>3, <2>4, <2>5, Moves
  <2>7. Stored'
    BY <1>5, <1>1, <1>2, <2>1, <2>4, <2>6, OneAtATime
    DEF Create, NodeKeeps, Stored, Setting, CurrentKnown, Inside, StoreTyped, Database
  <2> QED
    BY <2>6, <2>7 DEF IInv
<1>6. ASSUME SetCurrent(c) PROVE IInv'
  <2>1. pc[c] = "change" /\ Goto(c, "save") /\ NodeKeeps /\ UNCHANGED <<queue, line, origins>>
    BY <1>6 DEF SetCurrent
  <2>2. Suits("save", line[c].do)
    BY <1>6, <1>2, <2>1 DEF SetCurrent, Fits, Suits
  <2>3. StoreTyped'
    <3>1. line[c].of \in Server
      BY <1>6, <2>1, OneAtATime, OfServer DEF SetCurrent
    <3> QED
      BY <1>6, <1>1, <3>1 DEF SetCurrent, Database, StoreTyped
  <2>4. /\ dbLock' = IF "save" \in Inside THEN c ELSE None
        /\ curLock' = IF "save" = "lookup" THEN c ELSE None
    BY <1>6, <1>2, <2>1, OneAtATime DEF SetCurrent, Fits, Inside
  <2>5. seen' \in [Conn -> Server \cup {None}] /\ refused' \subseteq Server
    BY <1>6, <1>1 DEF SetCurrent, LineTyped, PastTyped
  <2>6. TypeOK' /\ Standing' /\ pc'[c] = "save" /\ \A d \in Conn \ {c} : pc'[d] = "read"
    BY <2>1, <2>2, <2>3, <2>4, <2>5, Moves
  <2>7. Stored'
    BY <1>6, <1>1, <1>2, <2>1, <2>4, <2>6, OneAtATime
    DEF SetCurrent, NodeKeeps, Stored, Setting, CurrentKnown, Inside, StoreTyped, Database
  <2> QED
    BY <2>6, <2>7 DEF IInv
<1>7. ASSUME SetFilter(c) PROVE IInv'
  <2>1. pc[c] = "change" /\ Goto(c, "save") /\ NodeKeeps /\ UNCHANGED <<queue, line, origins>>
    BY <1>7 DEF SetFilter
  <2>2. Suits("save", line[c].do)
    BY <1>7, <1>2, <2>1 DEF SetFilter, Fits, Suits
  <2>3. StoreTyped'
    <3>1. line[c].of \in Filter
      BY <1>7, <2>1, OneAtATime, CommandKinds DEF SetFilter
    <3> QED
      BY <1>7, <1>1, <3>1 DEF SetFilter, Database, StoreTyped
  <2>4. /\ dbLock' = IF "save" \in Inside THEN c ELSE None
        /\ curLock' = IF "save" = "lookup" THEN c ELSE None
    BY <1>7, <1>2, <2>1, OneAtATime DEF SetFilter, Fits, Inside
  <2>5. seen' \in [Conn -> Server \cup {None}] /\ refused' \subseteq Server
    BY <1>7, <1>1 DEF SetFilter, LineTyped, PastTyped
  <2>6. TypeOK' /\ Standing' /\ pc'[c] = "save" /\ \A d \in Conn \ {c} : pc'[d] = "read"
    BY <2>1, <2>2, <2>3, <2>4, <2>5, Moves
  <2>7. Stored'
    BY <1>7, <1>1, <1>2, <2>1, <2>4, <2>6, OneAtATime
    DEF SetFilter, NodeKeeps, Stored, Setting, CurrentKnown, Inside, StoreTyped, Database
  <2> QED
    BY <2>6, <2>7 DEF IInv
<1>8. ASSUME Delete(c) PROVE IInv'
  <2>1. CASE line[c].of = seen[c]
    <3>1. pc[c] = "change" /\ Goto(c, "save") /\ NodeKeeps /\ UNCHANGED <<queue, line, origins>>
      BY <1>8, <2>1 DEF Delete
    <3>2. Suits("save", line[c].do)
      BY <1>8, <2>1, <1>2, <3>1 DEF Delete, Fits, Suits
    <3>3. StoreTyped'
      <4>1. line[c].of \in Server
        BY <1>8, <2>1, <3>1, OneAtATime, OfServer DEF Delete
      <4>2. db' \in Database
        BY <1>8, <2>1, <1>1, <4>1 DEF Delete, Database, StoreTyped
      <4>3. nodeCur' = None /\ UNCHANGED <<file, dirs>>
        BY <1>8, <2>1 DEF Delete
      <4> QED
        BY <1>1, <4>2, <4>3 DEF StoreTyped
    <3>4. /\ dbLock' = IF "save" \in Inside THEN c ELSE None
          /\ curLock' = IF "save" = "lookup" THEN c ELSE None
      BY <1>8, <2>1, <1>2, <3>1, OneAtATime DEF Delete, Fits, Inside
    <3>5. seen' \in [Conn -> Server \cup {None}] /\ refused' \subseteq Server
      BY <1>8, <2>1, <1>1 DEF Delete, LineTyped, PastTyped
    <3>6. TypeOK' /\ Standing' /\ pc'[c] = "save" /\ \A d \in Conn \ {c} : pc'[d] = "read"
      BY <3>1, <3>2, <3>3, <3>4, <3>5, Moves
    <3>7. Stored'
      <4>1. \A d \in Conn : ~Setting(d) /\ ~Setting(d)'
        BY <1>8, <2>1, <3>1, <3>6, OneAtATime DEF Delete, Setting
      <4>2. up /\ up' /\ nodeCur = db.current /\ seen[c] = nodeCur /\ CurrentKnown(db)
        BY <1>8, <2>1, <1>2, <3>1, <4>1, OneAtATime DEF Delete, NodeKeeps, Stored
      <4>3. CurrentKnown(db') /\ nodeCur' = db'.current
        BY <1>8, <2>1, <1>1, <4>2 DEF Delete, CurrentKnown, StoreTyped, Database
      <4>4. dbLock' = c /\ file' = file
        BY <1>8, <2>1, <3>4 DEF Delete, Inside
      <4> QED
        BY <1>2, <3>6, <4>1, <4>3, <4>4 DEF Stored, CurrentKnown
    <3> QED
      BY <3>6, <3>7 DEF IInv
  <2>2. CASE line[c].of # seen[c]
    <3>1. pc[c] = "change" /\ Goto(c, "save") /\ NodeKeeps /\ UNCHANGED <<queue, line, origins>>
      BY <1>8, <2>2 DEF Delete
    <3>2. Suits("save", line[c].do)
      BY <1>8, <2>2, <1>2, <3>1 DEF Delete, Fits, Suits
    <3>3. StoreTyped'
      <4>1. line[c].of \in Server
        BY <1>8, <2>2, <3>1, OneAtATime, OfServer DEF Delete
      <4> QED
        BY <1>8, <2>2, <1>1, <4>1 DEF Delete, Database, StoreTyped
    <3>4. /\ dbLock' = IF "save" \in Inside THEN c ELSE None
          /\ curLock' = IF "save" = "lookup" THEN c ELSE None
      BY <1>8, <2>2, <1>2, <3>1, OneAtATime DEF Delete, Fits, Inside
    <3>5. seen' \in [Conn -> Server \cup {None}] /\ refused' \subseteq Server
      BY <1>8, <2>2, <1>1 DEF Delete, LineTyped, PastTyped
    <3>6. TypeOK' /\ Standing' /\ pc'[c] = "save" /\ \A d \in Conn \ {c} : pc'[d] = "read"
      BY <3>1, <3>2, <3>3, <3>4, <3>5, Moves
    <3>7. Stored'
      <4>1. \A d \in Conn : ~Setting(d) /\ ~Setting(d)'
        BY <1>8, <2>2, <3>1, <3>6, OneAtATime DEF Delete, Setting
      <4>2. up /\ up' /\ nodeCur = db.current /\ seen[c] = nodeCur /\ CurrentKnown(db)
        BY <1>8, <2>2, <1>2, <3>1, <4>1, OneAtATime DEF Delete, NodeKeeps, Stored
      <4>3. CurrentKnown(db') /\ nodeCur' = db'.current
        BY <1>8, <2>2, <1>1, <4>2 DEF Delete, CurrentKnown, StoreTyped, Database
      <4>4. dbLock' = c /\ file' = file
        BY <1>8, <2>2, <3>4 DEF Delete, Inside
      <4> QED
        BY <1>2, <3>6, <4>1, <4>3, <4>4 DEF Stored, CurrentKnown
    <3> QED
      BY <3>6, <3>7 DEF IInv
  <2> QED
    BY <2>1, <2>2
<1>9. ASSUME Truncate(c) PROVE IInv'
  <2>1. CASE pc[c] = "save"
    <3>1. pc[c] \in {"save", "save again"} /\ Goto(c, "write") /\ NodeKeeps /\ UNCHANGED <<queue, line, origins>>
      BY <1>9, <2>1 DEF Truncate
    <3>2. Suits("write", line[c].do)
      BY <1>9, <2>1, <1>2, <3>1 DEF Fits, Suits
    <3>3. StoreTyped'
      BY <1>9, <2>1, <1>1 DEF Truncate, StoreTyped
    <3>4. /\ dbLock' = IF "write" \in Inside THEN c ELSE None
          /\ curLock' = IF "write" = "lookup" THEN c ELSE None
      BY <1>9, <2>1, <1>2, <3>1, OneAtATime DEF Truncate, Fits, Inside
    <3>5. seen' \in [Conn -> Server \cup {None}] /\ refused' \subseteq Server
      BY <1>9, <2>1, <1>1 DEF Truncate, LineTyped, PastTyped
    <3>6. TypeOK' /\ Standing' /\ pc'[c] = "write" /\ \A d \in Conn \ {c} : pc'[d] = "read"
      BY <3>1, <3>2, <3>3, <3>4, <3>5, Moves
    <3>7. Stored'
      BY <1>9, <2>1, <1>2, <3>1, <3>4, <3>6, OneAtATime
      DEF Truncate, NodeKeeps, Stored, Setting, CurrentKnown, Inside
    <3> QED
      BY <3>6, <3>7 DEF IInv
  <2>2. CASE pc[c] = "save again"
    <3>1. pc[c] \in {"save", "save again"} /\ Goto(c, "write again") /\ NodeKeeps /\ UNCHANGED <<queue, line, origins>>
      BY <1>9, <2>2 DEF Truncate
    <3>2. Suits("write again", line[c].do)
      BY <1>9, <2>2, <1>2, <3>1 DEF Fits, Suits
    <3>3. StoreTyped'
      BY <1>9, <2>2, <1>1 DEF Truncate, StoreTyped
    <3>4. /\ dbLock' = IF "write again" \in Inside THEN c ELSE None
          /\ curLock' = IF "write again" = "lookup" THEN c ELSE None
      BY <1>9, <2>2, <1>2, <3>1, OneAtATime DEF Truncate, Fits, Inside
    <3>5. seen' \in [Conn -> Server \cup {None}] /\ refused' \subseteq Server
      BY <1>9, <2>2, <1>1 DEF Truncate, LineTyped, PastTyped
    <3>6. TypeOK' /\ Standing' /\ pc'[c] = "write again" /\ \A d \in Conn \ {c} : pc'[d] = "read"
      BY <3>1, <3>2, <3>3, <3>4, <3>5, Moves
    <3>7. Stored'
      BY <1>9, <2>2, <1>2, <3>1, <3>4, <3>6, OneAtATime
      DEF Truncate, NodeKeeps, Stored, Setting, CurrentKnown, Inside
    <3> QED
      BY <3>6, <3>7 DEF IInv
  <2> QED
    BY <2>1, <2>2, <1>9 DEF Truncate
<1>10. ASSUME Write(c) PROVE IInv'
  <2>1. CASE line[c].do = "set"
    <3>1. pc[c] = "write" /\ Goto(c, "assign") /\ NodeKeeps /\ UNCHANGED <<queue, line, origins>>
      BY <1>10, <2>1 DEF Write
    <3>2. Suits("assign", line[c].do)
      BY <1>10, <2>1, <1>2, <3>1 DEF Fits, Suits
    <3>3. StoreTyped'
      BY <1>10, <2>1, <1>1 DEF Write, StoreTyped
    <3>4. /\ dbLock' = IF "assign" \in Inside THEN c ELSE None
          /\ curLock' = IF "assign" = "lookup" THEN c ELSE None
      BY <1>10, <2>1, <1>2, <3>1, OneAtATime DEF Write, Fits, Inside
    <3>5. seen' \in [Conn -> Server \cup {None}] /\ refused' \subseteq Server
      BY <1>10, <2>1, <1>1 DEF Write, LineTyped, PastTyped
    <3>6. TypeOK' /\ Standing' /\ pc'[c] = "assign" /\ \A d \in Conn \ {c} : pc'[d] = "read"
      BY <3>1, <3>2, <3>3, <3>4, <3>5, Moves
    <3>7. Stored'
      <4>1. Setting(c) /\ Setting(c)' /\ up /\ up'
        BY <1>10, <2>1, <3>1, <3>6, OneAtATime DEF NodeKeeps, Setting
      <4>2. file' = db /\ db' = db
        BY <1>10, <2>1 DEF Write
      <4>3. CurrentKnown(db) /\ db.current = line[c].of
        BY <1>2, <4>1 DEF Stored
      <4>4. \A d \in Conn \ {c} : ~Setting(d)'
        BY <3>6 DEF Setting
      <4> QED
        BY <3>1, <3>6, <4>1, <4>2, <4>3, <4>4 DEF Stored, CurrentKnown
    <3> QED
      BY <3>6, <3>7 DEF IInv
  <2>2. CASE line[c].do = "create"
    <3>1. pc[c] = "write" /\ Goto(c, "hooks") /\ NodeKeeps /\ UNCHANGED <<queue, line, origins>>
      BY <1>10, <2>2 DEF Write
    <3>2. Suits("hooks", line[c].do)
      BY <1>10, <2>2, <1>2, <3>1 DEF Fits, Suits
    <3>3. StoreTyped'
      BY <1>10, <2>2, <1>1 DEF Write, StoreTyped
    <3>4. /\ dbLock' = IF "hooks" \in Inside THEN c ELSE None
          /\ curLock' = IF "hooks" = "lookup" THEN c ELSE None
      BY <1>10, <2>2, <1>2, <3>1, OneAtATime DEF Write, Fits, Inside
    <3>5. seen' \in [Conn -> Server \cup {None}] /\ refused' \subseteq Server
      BY <1>10, <2>2, <1>1 DEF Write, LineTyped, PastTyped
    <3>6. TypeOK' /\ Standing' /\ pc'[c] = "hooks" /\ \A d \in Conn \ {c} : pc'[d] = "read"
      BY <3>1, <3>2, <3>3, <3>4, <3>5, Moves
    <3>7. Stored'
      BY <1>10, <2>2, <1>2, <3>1, <3>4, <3>6, OneAtATime
      DEF Write, NodeKeeps, Stored, Setting, CurrentKnown, Inside
    <3> QED
      BY <3>6, <3>7 DEF IInv
  <2>3. CASE line[c].do = "delete"
    <3>1. pc[c] = "write" /\ Goto(c, "files") /\ NodeKeeps /\ UNCHANGED <<queue, line, origins>>
      BY <1>10, <2>3 DEF Write
    <3>2. Suits("files", line[c].do)
      BY <1>10, <2>3, <1>2, <3>1 DEF Fits, Suits
    <3>3. StoreTyped'
      BY <1>10, <2>3, <1>1 DEF Write, StoreTyped
    <3>4. /\ dbLock' = IF "files" \in Inside THEN c ELSE None
          /\ curLock' = IF "files" = "lookup" THEN c ELSE None
      BY <1>10, <2>3, <1>2, <3>1, OneAtATime DEF Write, Fits, Inside
    <3>5. seen' \in [Conn -> Server \cup {None}] /\ refused' \subseteq Server
      BY <1>10, <2>3, <1>1 DEF Write, LineTyped, PastTyped
    <3>6. TypeOK' /\ Standing' /\ pc'[c] = "files" /\ \A d \in Conn \ {c} : pc'[d] = "read"
      BY <3>1, <3>2, <3>3, <3>4, <3>5, Moves
    <3>7. Stored'
      BY <1>10, <2>3, <1>2, <3>1, <3>4, <3>6, OneAtATime
      DEF Write, NodeKeeps, Stored, Setting, CurrentKnown, Inside
    <3> QED
      BY <3>6, <3>7 DEF IInv
  <2>4. CASE line[c].do = "filter"
    <3>1. pc[c] = "write" /\ Goto(c, "done") /\ NodeKeeps /\ UNCHANGED <<queue, line, origins>>
      BY <1>10, <2>4 DEF Write
    <3>2. Suits("done", line[c].do)
      BY <1>10, <2>4, <1>2, <3>1 DEF Fits, Suits
    <3>3. StoreTyped'
      BY <1>10, <2>4, <1>1 DEF Write, StoreTyped
    <3>4. /\ dbLock' = IF "done" \in Inside THEN c ELSE None
          /\ curLock' = IF "done" = "lookup" THEN c ELSE None
      BY <1>10, <2>4, <1>2, <3>1, OneAtATime DEF Write, Fits, Inside
    <3>5. seen' \in [Conn -> Server \cup {None}] /\ refused' \subseteq Server
      BY <1>10, <2>4, <1>1 DEF Write, LineTyped, PastTyped
    <3>6. TypeOK' /\ Standing' /\ pc'[c] = "done" /\ \A d \in Conn \ {c} : pc'[d] = "read"
      BY <3>1, <3>2, <3>3, <3>4, <3>5, Moves
    <3>7. Stored'
      BY <1>10, <2>4, <1>2, <3>1, <3>4, <3>6, OneAtATime
      DEF Write, NodeKeeps, Stored, Setting, CurrentKnown, Inside
    <3> QED
      BY <3>6, <3>7 DEF IInv
  <2> QED
    BY <2>1, <2>2, <2>3, <2>4, <1>2, <1>10 DEF Write, Fits, Suits
<1>11. ASSUME Assign(c) PROVE IInv'
  <2>1. pc[c] = "assign" /\ Goto(c, "done") /\ NodeKeeps /\ UNCHANGED <<queue, line, origins>>
    BY <1>11 DEF Assign
  <2>2. Suits("done", line[c].do)
    BY <1>2, <2>1 DEF Fits, Suits
  <2>3. StoreTyped'
    <3>1. line[c].of \in Server
      BY <1>2, <2>1, OneAtATime, OfServer DEF Fits, Suits
    <3> QED
      BY <1>11, <1>1, <3>1 DEF Assign, StoreTyped
  <2>4. /\ dbLock' = IF "done" \in Inside THEN c ELSE None
        /\ curLock' = IF "done" = "lookup" THEN c ELSE None
    BY <1>11, <1>2, <2>1, OneAtATime DEF Assign, Fits, Inside
  <2>5. seen' \in [Conn -> Server \cup {None}] /\ refused' \subseteq Server
    BY <1>11, <1>1 DEF Assign, LineTyped, PastTyped
  <2>6. TypeOK' /\ Standing' /\ pc'[c] = "done" /\ \A d \in Conn \ {c} : pc'[d] = "read"
    BY <2>1, <2>2, <2>3, <2>4, <2>5, Moves
  <2>7. Stored'
    <3>1. Setting(c) /\ db.current = line[c].of /\ file = db /\ up /\ up'
      BY <1>2, <2>1, OneAtATime DEF NodeKeeps, Fits, Suits, Setting, Stored
    <3>2. nodeCur' = db'.current /\ file' = db' /\ db' = db /\ CurrentKnown(db)
      BY <1>11, <1>2, <3>1 DEF Assign, Stored
    <3> QED
      BY <2>6, <3>1, <3>2 DEF Stored, Setting, CurrentKnown
  <2> QED
    BY <2>6, <2>7 DEF IInv
<1>12. ASSUME StartHooks(c) PROVE IInv'
  <2>1. pc[c] = "hooks" /\ Goto(c, "save again") /\ NodeKeeps /\ UNCHANGED <<queue, line, origins>>
    BY <1>12 DEF StartHooks
  <2>2. Suits("save again", line[c].do)
    BY <1>2, <2>1 DEF Fits, Suits
  <2>3. StoreTyped'
    BY <1>12, <1>1 DEF StartHooks, storeVars, StoreTyped
  <2>4. /\ dbLock' = IF "save again" \in Inside THEN c ELSE None
        /\ curLock' = IF "save again" = "lookup" THEN c ELSE None
    BY <1>12, <1>2, <2>1, OneAtATime DEF StartHooks, Fits, Inside
  <2>5. seen' \in [Conn -> Server \cup {None}] /\ refused' \subseteq Server
    BY <1>12, <1>1 DEF StartHooks, LineTyped, PastTyped
  <2>6. TypeOK' /\ Standing' /\ pc'[c] = "save again" /\ \A d \in Conn \ {c} : pc'[d] = "read"
    BY <2>1, <2>2, <2>3, <2>4, <2>5, Moves
  <2>7. Stored'
    BY <1>12, <1>2, <2>1, <2>4, <2>6, OneAtATime
    DEF StartHooks, NodeKeeps, Stored, Setting, CurrentKnown, Inside, storeVars
  <2> QED
    BY <2>6, <2>7 DEF IInv
<1>13. ASSUME RunHooks(c) PROVE IInv'
  <2>1. pc[c] = "write again" /\ Goto(c, "hooks") /\ NodeKeeps /\ UNCHANGED <<queue, line, origins>>
    BY <1>13 DEF RunHooks
  <2>2. Suits("hooks", line[c].do)
    BY <1>2, <2>1 DEF Fits, Suits
  <2>3. StoreTyped'
    <3>1. line[c].of \in Server
      BY <1>2, <2>1, OneAtATime, OfServer DEF Fits, Suits
    <3> QED
      BY <1>13, <1>1, <3>1 DEF RunHooks, StoreTyped
  <2>4. /\ dbLock' = IF "hooks" \in Inside THEN c ELSE None
        /\ curLock' = IF "hooks" = "lookup" THEN c ELSE None
    BY <1>13, <1>2, <2>1, OneAtATime DEF RunHooks, Fits, Inside
  <2>5. seen' \in [Conn -> Server \cup {None}] /\ refused' \subseteq Server
    BY <1>13, <1>1 DEF RunHooks, LineTyped, PastTyped
  <2>6. TypeOK' /\ Standing' /\ pc'[c] = "hooks" /\ \A d \in Conn \ {c} : pc'[d] = "read"
    BY <2>1, <2>2, <2>3, <2>4, <2>5, Moves
  <2>7. Stored'
    BY <1>13, <1>2, <2>1, <2>4, <2>6, OneAtATime
    DEF RunHooks, NodeKeeps, Stored, Setting, CurrentKnown, Inside, Fits
  <2> QED
    BY <2>6, <2>7 DEF IInv
<1>14. ASSUME RemoveFiles(c) PROVE IInv'
  <2>1. pc[c] = "files" /\ Goto(c, "done") /\ NodeKeeps /\ UNCHANGED <<queue, line, origins>>
    BY <1>14 DEF RemoveFiles
  <2>2. Suits("done", line[c].do)
    BY <1>2, <2>1 DEF Fits, Suits
  <2>3. StoreTyped'
    BY <1>14, <1>1 DEF RemoveFiles, StoreTyped
  <2>4. /\ dbLock' = IF "done" \in Inside THEN c ELSE None
        /\ curLock' = IF "done" = "lookup" THEN c ELSE None
    BY <1>14, <1>2, <2>1, OneAtATime DEF RemoveFiles, Fits, Inside
  <2>5. seen' \in [Conn -> Server \cup {None}] /\ refused' \subseteq Server
    BY <1>14, <1>1 DEF RemoveFiles, LineTyped, PastTyped
  <2>6. TypeOK' /\ Standing' /\ pc'[c] = "done" /\ \A d \in Conn \ {c} : pc'[d] = "read"
    BY <2>1, <2>2, <2>3, <2>4, <2>5, Moves
  <2>7. Stored'
    BY <1>14, <1>2, <2>1, <2>4, <2>6, OneAtATime
    DEF RemoveFiles, NodeKeeps, Stored, Setting, CurrentKnown, Inside, Fits
  <2> QED
    BY <2>6, <2>7 DEF IInv
<1>15. ASSUME ServerData(c) PROVE IInv'
  <2>1. CASE nodeCur = None
    <3>1. pc[c] = "current" /\ Goto(c, "done") /\ NodeKeeps /\ UNCHANGED <<queue, line, origins>>
      BY <1>15, <2>1 DEF ServerData
    <3>2. Suits("done", line[c].do)
      BY <1>2, <3>1 DEF Fits, Suits
    <3>3. StoreTyped'
      BY <1>15, <2>1, <1>1 DEF ServerData, storeVars, StoreTyped
    <3>4. /\ dbLock' = IF "done" \in Inside THEN c ELSE None
          /\ curLock' = IF "done" = "lookup" THEN c ELSE None
      BY <1>15, <2>1, <1>2, <3>1, OneAtATime DEF ServerData, Fits, Inside
    <3>5. seen' \in [Conn -> Server \cup {None}] /\ refused' \subseteq Server
      BY <1>15, <2>1, <1>1 DEF ServerData, LineTyped, PastTyped
    <3>6. TypeOK' /\ Standing' /\ pc'[c] = "done" /\ \A d \in Conn \ {c} : pc'[d] = "read"
      BY <3>1, <3>2, <3>3, <3>4, <3>5, Moves
    <3>7. Stored'
      BY <1>15, <2>1, <1>2, <3>1, <3>4, <3>6, OneAtATime
      DEF ServerData, NodeKeeps, Stored, Setting, CurrentKnown, Inside, storeVars
    <3> QED
      BY <3>6, <3>7 DEF IInv
  <2>2. CASE nodeCur # None
    <3>1. pc[c] = "current" /\ Goto(c, "lookup") /\ NodeKeeps /\ UNCHANGED <<queue, line, origins>>
      BY <1>15, <2>2 DEF ServerData
    <3>2. Suits("lookup", line[c].do)
      BY <1>2, <3>1 DEF Fits, Suits
    <3>3. StoreTyped'
      BY <1>15, <2>2, <1>1 DEF ServerData, storeVars, StoreTyped
    <3>4. /\ dbLock' = IF "lookup" \in Inside THEN c ELSE None
          /\ curLock' = IF "lookup" = "lookup" THEN c ELSE None
      BY <1>15, <2>2, <1>2, <3>1, OneAtATime DEF ServerData, Fits, Inside
    <3>5. seen' \in [Conn -> Server \cup {None}] /\ refused' \subseteq Server
      BY <1>15, <2>2, <1>1 DEF ServerData, LineTyped, PastTyped
    <3>6. TypeOK' /\ Standing' /\ pc'[c] = "lookup" /\ \A d \in Conn \ {c} : pc'[d] = "read"
      BY <3>1, <3>2, <3>3, <3>4, <3>5, Moves
    <3>7. Stored'
      BY <1>15, <2>2, <1>2, <3>1, <3>4, <3>6, OneAtATime
      DEF ServerData, NodeKeeps, Stored, Setting, CurrentKnown, Inside, storeVars
    <3> QED
      BY <3>6, <3>7 DEF IInv
  <2> QED
    BY <2>1, <2>2
<1>16. ASSUME LookUp(c) PROVE IInv'
  <2>1. pc[c] = "lookup" /\ Goto(c, "done") /\ NodeKeeps /\ UNCHANGED <<queue, line, origins>>
    BY <1>16 DEF LookUp
  <2>2. Suits("done", line[c].do)
    BY <1>2, <2>1 DEF Fits, Suits
  <2>3. StoreTyped'
    BY <1>16, <1>1 DEF LookUp, storeVars, StoreTyped
  <2>4. /\ dbLock' = IF "done" \in Inside THEN c ELSE None
        /\ curLock' = IF "done" = "lookup" THEN c ELSE None
    BY <1>16, <1>2, <2>1, OneAtATime DEF LookUp, Fits, Inside
  <2>5. seen' \in [Conn -> Server \cup {None}] /\ refused' \subseteq Server
    BY <1>16, <1>1 DEF LookUp, LineTyped, PastTyped
  <2>6. TypeOK' /\ Standing' /\ pc'[c] = "done" /\ \A d \in Conn \ {c} : pc'[d] = "read"
    BY <2>1, <2>2, <2>3, <2>4, <2>5, Moves
  <2>7. Stored'
    BY <1>16, <1>2, <2>1, <2>4, <2>6, OneAtATime
    DEF LookUp, NodeKeeps, Stored, Setting, CurrentKnown, Inside, storeVars, Fits
  <2> QED
    BY <2>6, <2>7 DEF IInv
<1>17. ASSUME LineDone(c) PROVE IInv'
  BY <1>17, DoneStep
<1>18. ASSUME NoMoreHooks(c) PROVE IInv'
  <2>1. pc[c] = "hooks" /\ Goto(c, "done") /\ NodeKeeps /\ UNCHANGED <<queue, line, origins>>
    BY <1>18 DEF NoMoreHooks
  <2>2. Suits("done", line[c].do)
    BY <1>2, <2>1 DEF Fits, Suits
  <2>3. StoreTyped'
    BY <1>18, <1>1 DEF NoMoreHooks, storeVars, StoreTyped
  <2>4. /\ dbLock' = IF "done" \in Inside THEN c ELSE None
        /\ curLock' = IF "done" = "lookup" THEN c ELSE None
    BY <1>18, <1>2, <2>1, OneAtATime DEF NoMoreHooks, Fits, Inside
  <2>5. seen' \in [Conn -> Server \cup {None}] /\ refused' \subseteq Server
    BY <1>18, <1>1 DEF NoMoreHooks, LineTyped, PastTyped
  <2>6. TypeOK' /\ Standing' /\ pc'[c] = "done" /\ \A d \in Conn \ {c} : pc'[d] = "read"
    BY <2>1, <2>2, <2>3, <2>4, <2>5, Moves
  <2>7. Stored'
    BY <1>18, <1>2, <2>1, <2>4, <2>6, OneAtATime
    DEF NoMoreHooks, NodeKeeps, Stored, Setting, CurrentKnown, Inside, storeVars
  <2> QED
    BY <2>6, <2>7 DEF IInv
<1> QED
  BY <1>3, <1>4, <1>5, <1>6, <1>7, <1>8, <1>9, <1>10, <1>11, <1>12, <1>13, <1>14, <1>15, <1>16,
     <1>17, <1>18 DEF LineStep

-----------------------------------------------------------------------------
LEMMA Inductive == IInv /\ [Next]_vars => IInv'
<1> SUFFICES ASSUME IInv, [Next]_vars PROVE IInv'
  OBVIOUS
<1>1. CASE UNCHANGED vars
  <2>1. UNCHANGED <<panelVars, linkVars, up, lineVars, storeVars, ops, breaks, pastVars>>
    BY <1>1 DEF vars
  <2>2. PanelTyped' /\ LinkTyped'
    BY <2>1, TypeParts DEF IInv, panelVars, linkVars, PanelTyped, LinkTyped
  <2>3. CountTyped' /\ PastTyped'
    BY <2>1, TypeParts DEF IInv, pastVars, CountTyped, PastTyped
  <2> QED
    BY <2>1, <2>2, <2>3, Outside, TypeParts DEF IInv
<1>2. CASE \E c \in Conn : LinkUp(c) \/ LinkDown(c) \/ TakeLine(c) \/ LineStep(c)
  BY <1>2, LinkStep, TakeStep, HandlerStep
<1>3. CASE \/ \E s \in Server : AddServer(s) \/ AddFails(s) \/ AddUntold(s)
           \/ \E s \in Server : SetServer(s) \/ \E f \in Asks : DeleteServer(s, f)
  <2>1. Asks \subseteq BOOLEAN
    OBVIOUS
  <2> QED
    BY <1>3, <2>1, PanelStep
<1>4. CASE \E r \in Setter : NotifyNode(r) \/ \E v \in Filter : SetSettings(r, v)
  BY <1>4, SettingsStep
<1>5. CASE PassOn
  BY <1>5, PanelStep
<1>6. CASE PanelRestarts \/ NodeCrashes \/ NodeStarts
  BY <1>6, RestartStep
<1> QED
  BY <1>1, <1>2, <1>3, <1>4, <1>5, <1>6 DEF Next

\* The state stays well formed, every connection of the node handles what
\* suits where it stands, and the node's stores are as they should be at each
\* step of a handler.
THEOREM Invariant == Spec => []IInv
BY InitHolds, Inductive, PTL DEF Spec

\* What is stored and what is on its way stays of the kind the code has.
THEOREM TypesHold == Spec => []TypeOK
<1>1. IInv => TypeOK
  BY DEF IInv
<1> QED
  BY <1>1, Invariant, PTL

\* Whatever the crashes and the order in which commands come, when no handler
\* has the node's database locked its current server is the stored one, is in
\* the index, and db.json is what is in memory.
THEOREM ConsistencyHolds == Spec => []NodeConsistent
<1>1. IInv => NodeConsistent
  <2> SUFFICES ASSUME IInv, up, dbLock = None
               PROVE  nodeCur = db.current /\ nodeCur \in db.index \cup {None} /\ file = db
    BY DEF NodeConsistent
  <2>1. \A c \in Conn : ~Setting(c)
    BY DEF IInv, Standing, Fits, Inside, Setting
  <2> QED
    BY <2>1 DEF IInv, Stored, CurrentKnown
<1> QED
  BY <1>1, Invariant, PTL

\* No two handlers of the node ever wait for each other's lock.
THEOREM NoEmbraceHolds == Spec => []NoEmbrace
<1>1. IInv => NoEmbrace
  <2> SUFFICES ASSUME IInv, NEW c \in Conn, NEW d \in Conn, dbLock = c, curLock = d
               PROVE  FALSE
    BY DEF NoEmbrace
  <2>1. pc[c] \in Inside /\ pc[d] = "lookup"
    BY DEF IInv, Standing, Fits
  <2>2. c = d
    BY <2>1, OneAtATime DEF Inside
  <2> QED
    BY <2>1, <2>2 DEF Inside
<1> QED
  BY <1>1, Invariant, PTL
-----------------------------------------------------------------------------
(* What the two sides agree on.  The panel changes its state when it sends  *)
(* a command and the node when it handles it, so the invariant speaks of    *)
(* the commands in between: the last one that matters decides, and if none  *)
(* matters, what the node has already.                                      *)

\* Nothing matters in q; the last that matters in q is good.
Free(q, K) == \A i \in 1..Len(q) : q[i] \notin K
Ends(q, K, G) ==
  \E i \in 1..Len(q) : q[i] \in G /\ \A j \in (i + 1)..Len(q) : q[j] \notin K

\* The command in hand has not had its effect.
Waits(c) == pc[c] \in {"look", "db", "change"} \/ Setting(c)

\* After what is on its way over c, the node agrees: K are the commands that
\* matter, G those that bring it about, "now" says that it does already.
After(c, K, G, now) == IF Waits(c) /\ line[c] \in K THEN line[c] \in G ELSE now
Due(c, K, G, now) == Ends(queue[c], K, G) \/ (Free(queue[c], K) /\ After(c, K, G, now))

OneCarries == \A c, d \in Conn : Carries(c) /\ Carries(d) => c = d

Entries(s) == {x \in Command : x.do \in {"create", "set", "delete"} /\ x.of = s}
Puts(s) == {x \in Command : x.do \in {"create", "set"} /\ x.of = s}
Drops(s) == {x \in Command : x.do = "delete" /\ x.of = s}
Choices(s) == {x \in Command : x.do = "set" \/ (x.do = "delete" /\ x.of = s)}
Chooses(s) == {x \in Command : x.do = "set" /\ x.of = s}
Filters == {x \in Command : x.do = "filter"}
FiltersTo(v) == {x \in Command : x.do = "filter" /\ x.of = v}

HasNow(s) == s \in db.index
LacksNow(s) == s \notin db.index \/ s = Builtin \/ s \in refused
IndexNow == \A s \in Server : (s \in servers => HasNow(s)) /\ (s \notin servers => LacksNow(s))
IndexDue(c) ==
  \A s \in Server :
    /\ s \in servers => Due(c, Entries(s), Puts(s), HasNow(s))
    /\ s \notin servers => Due(c, Entries(s), Drops(s), LacksNow(s))

CurrentNow == ~stale /\ current \in servers => nodeCur = current
CurrentDue(c) ==
  ~stale /\ current \in servers => Due(c, Choices(current), Chooses(current), nodeCur = current)

\* A filter that the node has not is on its way, or a request will send it.
Coming ==
  \/ \E r \in Setter : setting[r] = "notify" /\ old[r] # filter
  \/ inner # <<>> /\ inner[Len(inner)] = filter
FilterNow == Coming \/ (inner = <<>> /\ db.filter = filter)
FilterDue(c) == Coming \/ (inner = <<>> /\ Due(c, Filters, FiltersTo(filter), db.filter = filter))

AllNow == IndexNow /\ CurrentNow /\ FilterNow
AllDue(c) == IndexDue(c) /\ CurrentDue(c) /\ FilterDue(c)

\* A node that is down left its database as it was.
Rests == ~up => file = db /\ nodeCur = db.current

Agreed ==
  /\ OneCarries /\ Rests
  /\ \A c \in Conn : Carries(c) => AllDue(c)
  /\ (\A c \in Conn : ~Carries(c)) => AllNow
AInv == IInv /\ (Reliable => Agreed)

-----------------------------------------------------------------------------
LEMMA EndsEmpty == \A K, G : Free(<<>>, K) /\ ~Ends(<<>>, K, G)
BY DEF Free, Ends

\* Handling the head of a queue, and sending more, as Free and Ends see it.
LEMMA EndsTail ==
  ASSUME NEW q \in Seq(Command), q # <<>>, NEW K, NEW G
  PROVE  /\ Free(q, K) <=> Head(q) \notin K /\ Free(Tail(q), K)
         /\ Ends(q, K, G) <=> Ends(Tail(q), K, G) \/ (Head(q) \in G /\ Free(Tail(q), K))
<1> DEFINE n == Len(q)
           t == Tail(q)
<1>1. n \in Nat /\ n >= 1 /\ Len(t) = n - 1
  BY EmptySeq, HeadTailProperties
<1>2. \A i \in 1..(n - 1) : t[i] = q[i + 1]
  BY <1>1, HeadTailProperties
<1>3. Head(q) = q[1]
  OBVIOUS
<1>4. \A j \in 2..n : j - 1 \in 1..(n - 1) /\ t[j - 1] = q[j]
  BY <1>1, <1>2
<1> HIDE DEF n, t
<1>5. Free(q, K) <=> q[1] \notin K /\ Free(t, K)
  <2>1. Free(q, K) <=> \A i \in 1..n : q[i] \notin K
    BY DEF Free, n
  <2>2. Free(t, K) <=> \A i \in 1..(n - 1) : t[i] \notin K
    BY <1>1 DEF Free
  <2>3. \A i \in 1..n : i = 1 \/ i \in 2..n
    BY <1>1
  <2>4. \A i \in 1..(n - 1) : i + 1 \in 1..n
    BY <1>1
  <2>5. 1 \in 1..n
    BY <1>1
  <2> QED
    BY <2>1, <2>2, <2>3, <2>4, <2>5, <1>2, <1>4, Zenon
<1>6. ASSUME Ends(q, K, G) PROVE Ends(t, K, G) \/ (q[1] \in G /\ Free(t, K))
  <2>1. PICK i \in 1..n : q[i] \in G /\ \A j \in (i + 1)..n : q[j] \notin K
    BY <1>6 DEF Ends, n
  <2>2. CASE i = 1
    BY <2>1, <2>2, <1>1, <1>2 DEF Free
  <2>3. CASE i # 1
    <3>1. i - 1 \in 1..(n - 1) /\ t[i - 1] \in G
      BY <2>1, <2>3, <1>1, <1>4
    <3>2. \A j \in ((i - 1) + 1)..(n - 1) : t[j] \notin K
      <4> TAKE j \in ((i - 1) + 1)..(n - 1)
      <4>1. j \in 1..(n - 1) /\ j + 1 \in (i + 1)..n
        BY <1>1
      <4> QED
        BY <1>2, <2>1, <4>1
    <3> QED
      BY <3>1, <3>2, <1>1 DEF Ends
  <2> QED
    BY <2>2, <2>3
<1>7. ASSUME Ends(t, K, G) PROVE Ends(q, K, G)
  <2>1. PICK i \in 1..(n - 1) : t[i] \in G /\ \A j \in (i + 1)..(n - 1) : t[j] \notin K
    BY <1>7, <1>1 DEF Ends
  <2>2. i + 1 \in 1..n /\ q[i + 1] \in G
    BY <2>1, <1>1, <1>2
  <2>3. \A j \in ((i + 1) + 1)..n : q[j] \notin K
    <3> TAKE j \in ((i + 1) + 1)..n
    <3>1. j - 1 \in (i + 1)..(n - 1) /\ j \in 2..n
      BY <1>1
    <3> QED
      BY <2>1, <3>1, <1>4
  <2> QED
    BY <2>2, <2>3 DEF Ends, n
<1>8. ASSUME q[1] \in G, Free(t, K) PROVE Ends(q, K, G)
  <2>1. \A j \in (1 + 1)..n : q[j] \notin K
    <3> TAKE j \in (1 + 1)..n
    <3>1. j - 1 \in 1..(n - 1) /\ t[j - 1] = q[j]
      BY <1>1, <1>4
    <3> QED
      BY <1>8, <3>1, <1>1 DEF Free
  <2>2. 1 \in 1..n
    BY <1>1
  <2> QED
    BY <1>8, <2>1, <2>2 DEF Ends, n
<1> QED
  BY <1>3, <1>5, <1>6, <1>7, <1>8 DEF t

LEMMA EndsConcat ==
  ASSUME NEW q \in Seq(Command), NEW t \in Seq(Command), NEW K, NEW G
  PROVE  /\ Free(q, K) /\ Free(t, K) => Free(q \o t, K)
         /\ Ends(q, K, G) /\ Free(t, K) => Ends(q \o t, K, G)
         /\ Ends(t, K, G) => Ends(q \o t, K, G)
<1> DEFINE n == Len(q)
           m == Len(t)
           u == q \o t
<1>1. n \in Nat /\ m \in Nat /\ Len(u) = n + m
  BY ConcatProperties, LenProperties
<1>2. /\ \A i \in 1..n : u[i] = q[i]
      /\ \A i \in (n + 1)..(n + m) : u[i] = t[i - n] /\ i - n \in 1..m
  BY <1>1, ConcatProperties
<1>3. \A i \in 1..m : n + i \in (n + 1)..(n + m) /\ u[n + i] = t[i]
  <2> TAKE i \in 1..m
  <2>1. n + i \in (n + 1)..(n + m) /\ (n + i) - n = i
    BY <1>1
  <2> QED
    BY <1>2, <2>1
<1>4. \A i \in 1..(n + m) : i \in 1..n \/ i \in (n + 1)..(n + m)
  BY <1>1
<1> HIDE DEF n, m, u
<1>5. ASSUME Free(t, K) PROVE \A i \in (n + 1)..(n + m) : u[i] \notin K
  BY <1>5, <1>2 DEF Free, m
<1>6. ASSUME Free(q, K), Free(t, K) PROVE Free(u, K)
  <2>1. \A i \in 1..n : q[i] \notin K
    BY <1>6 DEF Free, n
  <2>2. \A i \in 1..(n + m) : u[i] \notin K
    BY <1>2, <1>4, <1>5, <1>6, <2>1
  <2> QED
    BY <2>2, <1>1 DEF Free
<1>7. ASSUME Ends(q, K, G), Free(t, K) PROVE Ends(u, K, G)
  <2>1. PICK i \in 1..n : q[i] \in G /\ \A j \in (i + 1)..n : q[j] \notin K
    BY <1>7 DEF Ends, n
  <2>2. i \in 1..(n + m) /\ u[i] \in G
    BY <2>1, <1>1, <1>2
  <2>3. \A j \in (i + 1)..(n + m) : u[j] \notin K
    <3> TAKE j \in (i + 1)..(n + m)
    <3>1. (j \in (i + 1)..n /\ j \in 1..n) \/ j \in (n + 1)..(n + m)
      BY <1>1
    <3> QED
      BY <2>1, <3>1, <1>2, <1>5, <1>7
  <2> QED
    BY <2>2, <2>3, <1>1 DEF Ends
<1>8. ASSUME Ends(t, K, G) PROVE Ends(u, K, G)
  <2>1. PICK i \in 1..m : t[i] \in G /\ \A j \in (i + 1)..m : t[j] \notin K
    BY <1>8 DEF Ends, m
  <2>2. n + i \in 1..(n + m) /\ u[n + i] \in G
    BY <2>1, <1>1, <1>3
  <2>3. \A j \in ((n + i) + 1)..(n + m) : u[j] \notin K
    <3> TAKE j \in ((n + i) + 1)..(n + m)
    <3>1. j \in (n + 1)..(n + m) /\ j - n \in (i + 1)..m
      BY <1>1
    <3> QED
      BY <2>1, <3>1, <1>2
  <2> QED
    BY <2>2, <2>3, <1>1 DEF Ends
<1> QED
  BY <1>6, <1>7, <1>8 DEF u

LEMMA EndsShort ==
  ASSUME NEW x \in Command, NEW y \in Command, NEW K, NEW G
  PROVE  /\ <<x>> \in Seq(Command) /\ <<x, y>> \in Seq(Command)
         /\ <<x>> # <<>> /\ <<x, y>> # <<>>
         /\ x \notin K => Free(<<x>>, K)
         /\ x \notin K /\ y \notin K => Free(<<x, y>>, K)
         /\ x \in G => Ends(<<x>>, K, G)
         /\ x \notin G => ~Ends(<<x>>, K, G)
         /\ y \in G => Ends(<<x, y>>, K, G)
<1> DEFINE t == <<x, y>>
<1>0. t \in Seq(Command) /\ Len(t) = 2 /\ t[1] = x /\ t[2] = y /\ t # <<>>
  OBVIOUS
<1> HIDE DEF t
<1>1. x \notin K /\ y \notin K => Free(t, K)
  <2>1. \A i \in 1..2 : i = 1 \/ i = 2
    OBVIOUS
  <2> QED
    BY <1>0, <2>1 DEF Free
<1>2. ASSUME y \in G PROVE Ends(t, K, G)
  <2>1. 2 \in 1..2 /\ t[2] \in G /\ \A j \in (2 + 1)..2 : t[j] \notin K
    BY <1>0, <1>2
  <2> QED
    BY <2>1, <1>0 DEF Ends
<1>3. /\ <<x>> \in Seq(Command) /\ <<x>> # <<>>
      /\ x \notin K => Free(<<x>>, K)
      /\ x \in G => Ends(<<x>>, K, G)
      /\ x \notin G => ~Ends(<<x>>, K, G)
  BY DEF Free, Ends
<1> QED
  BY <1>0, <1>1, <1>2, <1>3 DEF t

\* What is cut off a queue without changing the node.
LEMMA EndsCut ==
  ASSUME NEW q \in Seq(Command), NEW k \in 0..Len(q), NEW K, NEW G,
         \A i \in (k + 1)..Len(q) : q[i] \notin K /\ q[i] \notin G
  PROVE  /\ Free(SubSeq(q, 1, k), K) <=> Free(q, K)
         /\ Ends(SubSeq(q, 1, k), K, G) <=> Ends(q, K, G)
<1> DEFINE n == Len(q)
           s == SubSeq(q, 1, k)
<1>1. n \in Nat /\ k \in Nat /\ k <= n /\ Len(s) = k /\ \A i \in 1..k : s[i] = q[i]
  BY LenProperties, SubSeqProperties
<1>2. /\ \A i \in 1..n : i \in 1..k \/ i \in (k + 1)..n
      /\ \A i \in 1..k : i \in 1..n
  BY <1>1
<1>3. \A i \in (k + 1)..n : q[i] \notin K /\ q[i] \notin G
  OBVIOUS
<1> HIDE DEF n, s
<1>4. Free(s, K) <=> Free(q, K)
  <2>1. (Free(s, K) <=> \A i \in 1..k : s[i] \notin K) /\ (Free(q, K) <=> \A i \in 1..n : q[i] \notin K)
    BY <1>1 DEF Free, n
  <2> QED
    BY <1>1, <1>2, <1>3, <2>1, Zenon
<1>5. ASSUME Ends(s, K, G) PROVE Ends(q, K, G)
  <2>1. PICK i \in 1..k : s[i] \in G /\ \A j \in (i + 1)..k : s[j] \notin K
    BY <1>1, <1>5 DEF Ends
  <2>2. i \in 1..n /\ q[i] \in G
    BY <1>1, <1>2, <2>1
  <2>3. \A j \in (i + 1)..n : q[j] \notin K
    <3> TAKE j \in (i + 1)..n
    <3>1. (j \in (i + 1)..k /\ j \in 1..k) \/ j \in (k + 1)..n
      BY <1>1
    <3> QED
      BY <1>1, <1>3, <2>1, <3>1
  <2> QED
    BY <2>2, <2>3 DEF Ends, n
<1>6. ASSUME Ends(q, K, G) PROVE Ends(s, K, G)
  <2>1. PICK i \in 1..n : q[i] \in G /\ \A j \in (i + 1)..n : q[j] \notin K
    BY <1>6 DEF Ends, n
  <2>2. i \in 1..k /\ s[i] \in G
    BY <1>1, <1>2, <1>3, <2>1
  <2>3. \A j \in (i + 1)..k : s[j] \notin K
    <3> TAKE j \in (i + 1)..k
    <3>1. j \in (i + 1)..n /\ j \in 1..k
      BY <1>1
    <3> QED
      BY <1>1, <2>1, <3>1
  <2> QED
    BY <1>1, <2>2, <2>3 DEF Ends
<1> QED
  BY <1>4, <1>5, <1>6 DEF s

-----------------------------------------------------------------------------
(* One connection carries everything. *)

LEMMA IdleReads ==
  ASSUME IInv, NEW c \in Conn, line[c] = None \/ pc[c] = "read"
  PROVE  pc[c] = "read" /\ ~Waits(c)
<1>1. pc[c] = "read"
  BY CommandAssumption DEF IInv, Standing, Fits
<1> QED
  BY <1>1 DEF Waits, Setting

LEMMA IdleReadsNext ==
  ASSUME IInv', NEW c \in Conn, line'[c] = None \/ pc'[c] = "read"
  PROVE  pc'[c] = "read" /\ ~Waits(c)'
<1>1. pc'[c] = "read"
  BY CommandAssumption DEF IInv, Standing, Fits
<1> QED
  BY <1>1 DEF Waits, Setting

LEMMA Matters ==
  \A s : /\ Entries(s) \subseteq Telling /\ Puts(s) \subseteq Telling /\ Drops(s) \subseteq Telling
         /\ Choices(s) \subseteq Telling /\ Chooses(s) \subseteq Telling
         /\ Filters \subseteq Telling /\ FiltersTo(s) \subseteq Telling
BY DEF Entries, Puts, Drops, Choices, Chooses, Filters, FiltersTo, Telling

LEMMA NothingTold ==
  ASSUME NEW q, ~Tells(q), NEW K \in SUBSET Telling, NEW G \in SUBSET Telling
  PROVE  Free(q, K) /\ ~Ends(q, K, G)
BY DEF Tells, Free, Ends

\* A connection that carries no command that changes the node.
LEMMA Idle ==
  ASSUME IInv, NEW c \in Conn, ~Carries(c)
  PROVE  /\ ~Waits(c) /\ pc[c] \notin Inside
         /\ \A K, G \in SUBSET Telling : Free(queue[c], K) /\ ~Ends(queue[c], K, G)
<1>1. pc[c] # "read" => line[c].do = "data" /\ Suits(pc[c], line[c].do)
  <2>1. pc[c] # "read" => line[c] \in Command /\ Suits(pc[c], line[c].do)
    BY DEF IInv, Standing, Fits
  <2> QED
    BY <2>1 DEF Carries, Telling
<1>2. ~Waits(c) /\ pc[c] \notin Inside
  BY <1>1 DEF Suits, Waits, Setting, Inside
<1> QED
  BY <1>2, NothingTold DEF Carries

LEMMA IdleNext ==
  ASSUME IInv', NEW c \in Conn, ~Carries(c)'
  PROVE  /\ ~Waits(c)'
         /\ \A K, G \in SUBSET Telling : Free(queue'[c], K) /\ ~Ends(queue'[c], K, G)
<1>1. pc'[c] # "read" => line'[c].do = "data" /\ Suits(pc'[c], line'[c].do)
  <2>1. pc'[c] # "read" => line'[c] \in Command /\ Suits(pc'[c], line'[c].do)
    BY DEF IInv, Standing, Fits
  <2> QED
    BY <2>1 DEF Carries, Telling
<1>2. ~Waits(c)'
  BY <1>1 DEF Suits, Waits, Setting
<1> QED
  BY <1>2, NothingTold DEF Carries

\* Whether it carries something or not, what agrees after the one connection agrees.
LEMMA Carrier ==
  ASSUME IInv, Agreed, NEW c \in Conn, \A d \in Conn \ {c} : ~Carries(d)
  PROVE  AllDue(c)
<1>1. CASE Carries(c)
  BY <1>1 DEF Agreed
<1>2. CASE ~Carries(c)
  <2>1. /\ ~Waits(c)
        /\ \A K, G \in SUBSET Telling : Free(queue[c], K) /\ ~Ends(queue[c], K, G)
    BY <1>2, Idle
  <2>2. AllNow
    BY <1>2, Zenon DEF Agreed
  <2> QED
    BY <2>1, <2>2, Matters
    DEF AllNow, AllDue, IndexNow, CurrentNow, FilterNow, IndexDue, CurrentDue, FilterDue, Due, After
<1> QED
  BY <1>1, <1>2

LEMMA CarrierNext ==
  ASSUME IInv', Rests', NEW c \in Conn, \A d \in Conn \ {c} : ~Carries(d)', AllDue(c)'
  PROVE  Agreed'
<1>1. OneCarries'
  BY DEF OneCarries
<1>2. \A d \in Conn : Carries(d)' => AllDue(d)'
  OBVIOUS
<1>3. ASSUME \A d \in Conn : ~Carries(d)' PROVE AllNow'
  <2>1. /\ ~Waits(c)'
        /\ \A K, G \in SUBSET Telling : Free(queue'[c], K) /\ ~Ends(queue'[c], K, G)
    BY <1>3, IdleNext
  <2> QED
    BY <2>1, Matters
    DEF AllNow, AllDue, IndexNow, CurrentNow, FilterNow, IndexDue, CurrentDue, FilterDue, Due, After
<1> QED
  BY <1>1, <1>2, <1>3 DEF Agreed

\* What is handled is alone on its way.
LEMMA Alone ==
  ASSUME IInv, Agreed, NEW c \in Conn, Carries(c)
  PROVE  (\A d \in Conn \ {c} : ~Carries(d)) /\ AllDue(c)
BY DEF Agreed, OneCarries

\* A step that changes nothing of what is compared, nor of the commands that
\* change the node.
LEMMA Steady ==
  ASSUME IInv', Agreed, Rests',
         UNCHANGED <<servers, filter, setting, old, inner, db, nodeCur, refused>>,
         UNCHANGED <<current, stale>> \/ stale' \/ current' \notin servers,
         \A d \in Conn :
           /\ Carries(d)' => Carries(d)
           /\ Waits(d)' <=> Waits(d)
           /\ Waits(d) => line'[d] = line[d]
           /\ \A K, G \in SUBSET Telling : /\ Free(queue'[d], K) <=> Free(queue[d], K)
                                           /\ Ends(queue'[d], K, G) <=> Ends(queue[d], K, G)
  PROVE  Agreed'
<1>1. OneCarries'
  BY DEF Agreed, OneCarries
<1>2. ASSUME NEW d \in Conn, AllDue(d) PROVE AllDue(d)'
  <2>1. \A K, G \in SUBSET Telling : /\ Free(queue'[d], K) <=> Free(queue[d], K)
                                     /\ Ends(queue'[d], K, G) <=> Ends(queue[d], K, G)
    OBVIOUS
  <2>2. (Waits(d)' <=> Waits(d)) /\ (Waits(d) => line'[d] = line[d])
    OBVIOUS
  <2>3. IndexDue(d)'
    <3> SUFFICES ASSUME NEW s \in Server
                 PROVE  /\ s \in servers => Due(d, Entries(s), Puts(s), HasNow(s))'
                        /\ s \notin servers => Due(d, Entries(s), Drops(s), LacksNow(s))'
      BY DEF IndexDue
    <3>1. /\ s \in servers => Due(d, Entries(s), Puts(s), HasNow(s))
          /\ s \notin servers => Due(d, Entries(s), Drops(s), LacksNow(s))
      BY <1>2 DEF AllDue, IndexDue
    <3>2. /\ Entries(s) \in SUBSET Telling /\ Puts(s) \in SUBSET Telling
          /\ Drops(s) \in SUBSET Telling
      BY Matters
    <3> QED
      BY <2>1, <2>2, <3>1, <3>2 DEF Due, After, HasNow, LacksNow
  <2>4. CurrentDue(d)'
    <3> SUFFICES ASSUME ~stale', current' \in servers, UNCHANGED <<current, stale>>
                 PROVE  Due(d, Choices(current), Chooses(current), nodeCur = current)'
      BY DEF CurrentDue
    <3>1. Due(d, Choices(current), Chooses(current), nodeCur = current)
      BY <1>2 DEF AllDue, CurrentDue
    <3>2. Choices(current) \in SUBSET Telling /\ Chooses(current) \in SUBSET Telling
      BY Matters
    <3> QED
      BY <2>1, <2>2, <3>1, <3>2 DEF Due, After
  <2>5. FilterDue(d)'
    <3>1. (Coming' <=> Coming) /\ FilterDue(d)
      BY <1>2 DEF Coming, AllDue
    <3>2. Filters \in SUBSET Telling /\ FiltersTo(filter) \in SUBSET Telling
      BY Matters
    <3> QED
      BY <2>1, <2>2, <3>1, <3>2 DEF FilterDue, Due, After
  <2> QED
    BY <2>3, <2>4, <2>5 DEF AllDue
<1>3. ASSUME \A d \in Conn : ~Carries(d)' PROVE AllNow'
  <2>1. CASE \E d \in Conn : Carries(d)
    <3>1. PICK d \in Conn : Carries(d)
      BY <2>1
    <3>2. AllDue(d)'
      BY <1>2, <3>1 DEF Agreed
    <3>3. /\ ~Waits(d)'
          /\ \A K, G \in SUBSET Telling : Free(queue'[d], K) /\ ~Ends(queue'[d], K, G)
      BY <1>3, IdleNext
    <3> QED
      BY <3>2, <3>3, Matters
      DEF AllNow, AllDue, IndexNow, CurrentNow, FilterNow, IndexDue, CurrentDue, FilterDue, Due, After
  <2>2. CASE \A d \in Conn : ~Carries(d)
    <3>1. AllNow
      BY <2>2, Zenon DEF Agreed
    <3> QED
      BY <3>1 DEF AllNow, IndexNow, CurrentNow, FilterNow, Coming, HasNow, LacksNow
  <2> QED
    BY <2>1, <2>2
<1> QED
  BY <1>1, <1>2, <1>3 DEF Agreed

-----------------------------------------------------------------------------
(* Steps of the panel and of the links. *)

LEMMA BroadcastAlone ==
  ASSUME IInv, NEW cmds \in Seq(Command), Broadcast(cmds), UNCHANGED line,
         ~lost', ~mixed'
  PROVE  /\ ~lost /\ ~mixed
         /\ \E c \in Conn : /\ \A d \in Conn \ {c} : ~Carries(d) /\ ~Carries(d)'
                            /\ queue'[c] = queue[c] \o cmds
<1>1. ~lost /\ ~mixed /\ links # {} /\ \A c, d \in InUse : c = d
  BY Zenon DEF Broadcast
<1>2. links \subseteq Conn
  BY TypeParts DEF IInv, LinkTyped
<1>3. PICK c \in Conn : c \in links
  BY <1>1, <1>2
<1>4. \A d \in Conn \ {c} : d \notin InUse
  BY <1>1, <1>3 DEF InUse
<1>5. \A d \in Conn \ {c} : d \notin links /\ ~Carries(d)
  BY <1>4 DEF InUse
<1>6. queue'[c] = queue[c] \o cmds
  BY <1>3 DEF Broadcast
<1>7. \A d \in Conn \ {c} : ~Carries(d)'
  BY <1>5 DEF Broadcast, Carries
<1> QED
  BY <1>1, <1>5, <1>6, <1>7

\* Commands that do not matter change nothing, one that brings it about does.
LEMMA DueSent ==
  ASSUME IInv, NEW c \in Conn, NEW cmds \in Seq(Command), NEW K, NEW G,
         queue'[c] = queue[c] \o cmds
  PROVE  /\ Ends(queue[c], K, G) /\ Free(cmds, K) => Ends(queue'[c], K, G)
         /\ Free(queue[c], K) /\ Free(cmds, K) => Free(queue'[c], K)
         /\ Ends(cmds, K, G) => Ends(queue'[c], K, G)
<1>1. queue[c] \in Seq(Command)
  BY TypeParts DEF IInv, LinkTyped
<1> QED
  BY <1>1, EndsConcat

LEMMA AddAgrees ==
  ASSUME IInv, IInv', Reliable => Agreed, NEW s \in Server, AddServer(s)
  PROVE  Reliable' => Agreed'
<1> SUFFICES ASSUME Reliable' PROVE Agreed'
  OBVIOUS
<1>1. UNCHANGED <<filter, setting, old, inner, links, up, lineVars, storeVars, refused>>
  BY DEF AddServer, PanelKeeps, SettingsKeep
<1>2. UNCHANGED <<line, pc, db, nodeCur, file>> /\ \A c \in Conn : Waits(c)' <=> Waits(c)
  BY <1>1 DEF lineVars, storeVars, Waits, Setting
<1>3. Agreed'
  <2> DEFINE x == Cmd("create", s)
             y == Cmd("set", s)
             cmds == <<x, y>>
  <2>1. /\ x \in Command /\ x.do = "create" /\ x.of = s
        /\ y \in Command /\ y.do = "set" /\ y.of = s
    BY CmdTyped DEF Cmd
  <2>2. Broadcast(cmds) /\ current' = s /\ servers' = servers \cup {s} /\ cmds \in Seq(Command)
    BY <2>1, EndsShort DEF AddServer
  <2>3. ~lost' /\ ~mixed'
    BY DEF Reliable
  <2> HIDE DEF x, y
  <2>4. PICK c \in Conn : /\ \A d \in Conn \ {c} : ~Carries(d) /\ ~Carries(d)'
                          /\ queue'[c] = queue[c] \o cmds
    BY <1>2, <2>2, <2>3, BroadcastAlone
  <2>5. Agreed /\ AllDue(c)
    <3>1. ~lost /\ ~mixed
      BY <1>2, <2>2, <2>3, BroadcastAlone
    <3> QED
      BY <3>1, <2>4, Carrier DEF Reliable
  <2>6. /\ \A t \in Server \ {s} : Free(cmds, Entries(t))
        /\ Ends(cmds, Entries(s), Puts(s)) /\ Ends(cmds, Choices(s), Chooses(s))
        /\ Free(cmds, Filters)
    <3>1. \A t \in Server \ {s} : x \notin Entries(t) /\ y \notin Entries(t)
      BY <2>1 DEF Entries
    <3>2. y \in Puts(s) /\ y \in Chooses(s)
      BY <2>1 DEF Puts, Chooses
    <3>3. x \notin Filters /\ y \notin Filters
      BY <2>1 DEF Filters
    <3> QED
      BY <2>1, <3>1, <3>2, <3>3, EndsShort
  <2> HIDE DEF cmds
  <2>7. IndexDue(c)'
    <3> SUFFICES ASSUME NEW t \in Server
                 PROVE  /\ t \in servers' => Due(c, Entries(t), Puts(t), HasNow(t))'
                        /\ t \notin servers' => Due(c, Entries(t), Drops(t), LacksNow(t))'
      BY DEF IndexDue
    <3>1. CASE t = s
      BY <2>2, <2>4, <2>6, <3>1, DueSent DEF Due
    <3>2. CASE t # s
      <4>1. Free(cmds, Entries(t)) /\ (t \in servers' <=> t \in servers)
        BY <2>2, <2>6, <3>2
      <4>2. Due(c, Entries(t), Puts(t), HasNow(t)) => Due(c, Entries(t), Puts(t), HasNow(t))'
        BY <1>2, <2>2, <2>4, <4>1, DueSent DEF Due, After, HasNow
      <4>3. Due(c, Entries(t), Drops(t), LacksNow(t)) => Due(c, Entries(t), Drops(t), LacksNow(t))'
        BY <1>1, <1>2, <2>2, <2>4, <4>1, DueSent DEF Due, After, LacksNow
      <4> QED
        BY <2>5, <4>1, <4>2, <4>3 DEF AllDue, IndexDue
    <3> QED
      BY <3>1, <3>2
  <2>8. CurrentDue(c)'
    BY <2>2, <2>4, <2>6, DueSent DEF CurrentDue, Due
  <2>9. FilterDue(c)'
    <3>1. CASE Coming
      BY <1>1, <3>1 DEF Coming, FilterDue
    <3>2. CASE ~Coming
      BY <1>1, <1>2, <2>2, <2>4, <2>5, <2>6, <3>2, DueSent DEF AllDue, FilterDue, Due, After
    <3> QED
      BY <3>1, <3>2
  <2>10. Rests'
    BY <1>1, <1>2, <2>5 DEF Agreed, Rests
  <2> QED
    BY <2>4, <2>7, <2>8, <2>9, <2>10, CarrierNext DEF AllDue
<1> QED
  BY <1>3

\* An add that fails tells the node nothing; one that is stored and not told
\* counts as a loss.
LEMMA AddFailsAgrees ==
  ASSUME IInv, IInv', Reliable => Agreed, NEW s \in Server, AddFails(s) \/ AddUntold(s)
  PROVE  Reliable' => Agreed'
<1> SUFFICES ASSUME Reliable' PROVE Agreed'
  OBVIOUS
<1>1. AddFails(s)
  BY DEF AddUntold, Reliable
<1>2. /\ UNCHANGED <<servers, filter, setting, old, inner, queue, up, lineVars, storeVars, refused>>
      /\ UNCHANGED <<lost, mixed>> /\ stale'
  BY <1>1 DEF AddFails, PanelKeeps, SettingsKeep
<1>3. UNCHANGED <<line, pc, db, nodeCur, file>> /\ \A c \in Conn : Waits(c)' <=> Waits(c)
  BY <1>2 DEF lineVars, storeVars, Waits, Setting
<1>4. Agreed /\ Rests'
  BY <1>2, <1>3 DEF Reliable, Agreed, Rests
<1>5. \A c \in Conn : Carries(c)' <=> Carries(c)
  BY <1>2, <1>3 DEF Carries
<1> QED
  BY <1>2, <1>3, <1>4, <1>5, Steady


LEMMA SetAgrees ==
  ASSUME IInv, IInv', Reliable => Agreed, NEW s \in Server, SetServer(s)
  PROVE  Reliable' => Agreed'
<1> SUFFICES ASSUME Reliable' PROVE Agreed'
  OBVIOUS
<1>1. UNCHANGED <<servers, filter, setting, old, inner, links, up, lineVars, storeVars, refused>>
  BY DEF SetServer, PanelKeeps, SettingsKeep
<1>2. UNCHANGED <<line, pc, db, nodeCur, file>> /\ \A c \in Conn : Waits(c)' <=> Waits(c)
  BY <1>1 DEF lineVars, storeVars, Waits, Setting
<1> DEFINE x == Cmd("set", s)
           cmds == <<x>>
<1>3. x \in Command /\ x.do = "set" /\ x.of = s
  BY CmdTyped DEF Cmd
<1>4. Broadcast(cmds) /\ s \in servers /\ current' = s /\ cmds \in Seq(Command)
  BY <1>3, EndsShort DEF SetServer
<1>5. ~lost' /\ ~mixed'
  BY DEF Reliable
<1> HIDE DEF x
<1>6. PICK c \in Conn : /\ \A d \in Conn \ {c} : ~Carries(d) /\ ~Carries(d)'
                        /\ queue'[c] = queue[c] \o cmds
  BY <1>2, <1>4, <1>5, BroadcastAlone
<1>7. Agreed /\ AllDue(c)
  <2>1. ~lost /\ ~mixed
    BY <1>2, <1>4, <1>5, BroadcastAlone
  <2> QED
    BY <2>1, <1>6, Carrier DEF Reliable
<1>8. /\ \A t \in Server \ {s} : Free(cmds, Entries(t))
      /\ Ends(cmds, Entries(s), Puts(s)) /\ Ends(cmds, Choices(s), Chooses(s))
      /\ Free(cmds, Filters)
  <2>1. /\ \A t \in Server \ {s} : x \notin Entries(t)
        /\ x \in Puts(s) /\ x \in Chooses(s) /\ x \notin Filters
    BY <1>3 DEF Entries, Puts, Chooses, Filters
  <2> QED
    BY <1>3, <2>1, EndsShort
<1> HIDE DEF cmds
<1>9. IndexDue(c)'
  <2> SUFFICES ASSUME NEW t \in Server
               PROVE  /\ t \in servers => Due(c, Entries(t), Puts(t), HasNow(t))'
                      /\ t \notin servers => Due(c, Entries(t), Drops(t), LacksNow(t))'
    BY <1>1 DEF IndexDue
  <2>1. CASE t = s
    BY <1>4, <1>6, <1>8, <2>1, DueSent DEF Due
  <2>2. CASE t # s
    <3>1. Free(cmds, Entries(t))
      BY <1>8, <2>2
    <3>2. Due(c, Entries(t), Puts(t), HasNow(t)) => Due(c, Entries(t), Puts(t), HasNow(t))'
      BY <1>2, <1>4, <1>6, <3>1, DueSent DEF Due, After, HasNow
    <3>3. Due(c, Entries(t), Drops(t), LacksNow(t)) => Due(c, Entries(t), Drops(t), LacksNow(t))'
      BY <1>1, <1>2, <1>4, <1>6, <3>1, DueSent DEF Due, After, LacksNow
    <3> QED
      BY <1>7, <3>2, <3>3 DEF AllDue, IndexDue
  <2> QED
    BY <2>1, <2>2
<1>10. CurrentDue(c)'
  BY <1>4, <1>6, <1>8, DueSent DEF CurrentDue, Due
<1>11. FilterDue(c)'
  <2>1. CASE Coming
    BY <1>1, <2>1 DEF Coming, FilterDue
  <2>2. CASE ~Coming
    BY <1>1, <1>2, <1>4, <1>6, <1>7, <1>8, <2>2, DueSent DEF AllDue, FilterDue, Due, After
  <2> QED
    BY <2>1, <2>2
<1>12. Rests'
  BY <1>1, <1>2, <1>7 DEF Agreed, Rests
<1> QED
  BY <1>6, <1>9, <1>10, <1>11, <1>12, CarrierNext DEF AllDue
LEMMA DeleteAgrees ==
  ASSUME IInv, IInv', Reliable => Agreed, NEW s \in Server, NEW f \in BOOLEAN,
         DeleteServer(s, f)
  PROVE  Reliable' => Agreed'
<1> SUFFICES ASSUME Reliable' PROVE Agreed'
  OBVIOUS
<1>1. /\ UNCHANGED <<current, filter, setting, old, inner, links, up, stale>>
      /\ UNCHANGED <<lineVars, storeVars, refused>>
  BY DEF DeleteServer, PanelKeeps, SettingsKeep
<1>2. UNCHANGED <<line, pc, db, nodeCur, file>> /\ \A c \in Conn : Waits(c)' <=> Waits(c)
  BY <1>1 DEF lineVars, storeVars, Waits, Setting
<1> DEFINE x == [do |-> "delete", of |-> s, files |-> f]
           cmds == <<x>>
<1>3. x \in Command /\ x.do = "delete" /\ x.of = s
  BY DEF Command
<1>4. Broadcast(cmds) /\ servers' = servers \ {s} /\ cmds \in Seq(Command)
  BY <1>3, EndsShort DEF DeleteServer
<1>5. ~lost' /\ ~mixed'
  BY DEF Reliable
<1> HIDE DEF x
<1>6. PICK c \in Conn : /\ \A d \in Conn \ {c} : ~Carries(d) /\ ~Carries(d)'
                        /\ queue'[c] = queue[c] \o cmds
  BY <1>2, <1>4, <1>5, BroadcastAlone
<1>7. Agreed /\ AllDue(c)
  <2>1. ~lost /\ ~mixed
    BY <1>2, <1>4, <1>5, BroadcastAlone
  <2> QED
    BY <2>1, <1>6, Carrier DEF Reliable
<1>8. /\ \A t \in Server \ {s} : Free(cmds, Entries(t)) /\ Free(cmds, Choices(t))
      /\ Ends(cmds, Entries(s), Drops(s))
      /\ Free(cmds, Filters)
  <2>1. /\ \A t \in Server \ {s} : x \notin Entries(t) /\ x \notin Choices(t)
        /\ x \in Drops(s) /\ x \notin Filters
    BY <1>3 DEF Entries, Drops, Choices, Filters
  <2> QED
    BY <1>3, <2>1, EndsShort
<1> HIDE DEF cmds
<1>9. IndexDue(c)'
  <2> SUFFICES ASSUME NEW t \in Server
               PROVE  /\ t \in servers' => Due(c, Entries(t), Puts(t), HasNow(t))'
                      /\ t \notin servers' => Due(c, Entries(t), Drops(t), LacksNow(t))'
    BY DEF IndexDue
  <2>1. CASE t = s
    BY <1>4, <1>6, <1>8, <2>1, DueSent DEF Due
  <2>2. CASE t # s
    <3>1. Free(cmds, Entries(t)) /\ (t \in servers' <=> t \in servers)
      BY <1>4, <1>8, <2>2
    <3>2. Due(c, Entries(t), Puts(t), HasNow(t)) => Due(c, Entries(t), Puts(t), HasNow(t))'
      BY <1>2, <1>4, <1>6, <3>1, DueSent DEF Due, After, HasNow
    <3>3. Due(c, Entries(t), Drops(t), LacksNow(t)) => Due(c, Entries(t), Drops(t), LacksNow(t))'
      BY <1>1, <1>2, <1>4, <1>6, <3>1, DueSent DEF Due, After, LacksNow
    <3> QED
      BY <1>7, <3>1, <3>2, <3>3 DEF AllDue, IndexDue
  <2> QED
    BY <2>1, <2>2
<1>10. CurrentDue(c)'
  <2> SUFFICES ASSUME ~stale, current \in servers, current # s
               PROVE  Due(c, Choices(current), Chooses(current), nodeCur = current)'
    BY <1>1, <1>4 DEF CurrentDue
  <2>1. current \in Server \ {s}
    BY TypeParts DEF IInv, PanelTyped
  <2>2. Free(cmds, Choices(current))
    BY <1>8, <2>1
  <2>3. Due(c, Choices(current), Chooses(current), nodeCur = current)
    BY <1>7 DEF AllDue, CurrentDue
  <2> QED
    BY <1>1, <1>2, <1>4, <1>6, <2>2, <2>3, DueSent DEF Due, After
<1>11. FilterDue(c)'
  <2>1. CASE Coming
    BY <1>1, <2>1 DEF Coming, FilterDue
  <2>2. CASE ~Coming
    BY <1>1, <1>2, <1>4, <1>6, <1>7, <1>8, <2>2, DueSent DEF AllDue, FilterDue, Due, After
  <2> QED
    BY <2>1, <2>2
<1>12. Rests'
  BY <1>1, <1>2, <1>7 DEF Agreed, Rests
<1> QED
  BY <1>6, <1>9, <1>10, <1>11, <1>12, CarrierNext DEF AllDue

LEMMA PassAgrees ==
  ASSUME IInv, IInv', Reliable => Agreed, PassOn
  PROVE  Reliable' => Agreed'
<1> SUFFICES ASSUME Reliable' PROVE Agreed'
  OBVIOUS
<1>1. UNCHANGED <<panelVars, links, up, stale, lineVars, storeVars, refused>>
  BY DEF PassOn, PanelKeeps
<1>2. /\ UNCHANGED <<servers, current, filter, setting, old, line, pc, db, nodeCur, file>>
      /\ \A c \in Conn : Waits(c)' <=> Waits(c)
  BY <1>1 DEF panelVars, lineVars, storeVars, Waits, Setting
<1> DEFINE h == Head(inner)
           x == Cmd("filter", h)
           cmds == <<x>>
<1>3. /\ h \in Filter /\ inner # <<>> /\ inner' = Tail(inner) /\ inner \in Seq(Filter)
      /\ x \in Command /\ x.do = "filter" /\ x.of = h
  <2>1. inner # <<>> /\ inner' = Tail(inner) /\ inner \in Seq(Filter)
    BY TypeParts DEF PassOn, IInv, LinkTyped
  <2>2. h \in Filter
    BY <2>1, HeadTailProperties
  <2> QED
    BY <2>1, <2>2 DEF Cmd, Command
<1>4. Broadcast(cmds) /\ cmds \in Seq(Command)
  BY <1>3, EndsShort DEF PassOn
<1>5. ~lost' /\ ~mixed'
  BY DEF Reliable
<1> HIDE DEF x
<1>6. PICK c \in Conn : /\ \A d \in Conn \ {c} : ~Carries(d) /\ ~Carries(d)'
                        /\ queue'[c] = queue[c] \o cmds
  BY <1>2, <1>4, <1>5, BroadcastAlone
<1>7. Agreed /\ AllDue(c)
  <2>1. ~lost /\ ~mixed
    BY <1>2, <1>4, <1>5, BroadcastAlone
  <2> QED
    BY <2>1, <1>6, Carrier DEF Reliable
<1>8. /\ \A t \in Server : Free(cmds, Entries(t)) /\ Free(cmds, Choices(t))
      /\ Ends(cmds, Filters, FiltersTo(h))
  <2>1. /\ \A t \in Server : x \notin Entries(t) /\ x \notin Choices(t)
        /\ x \in FiltersTo(h)
    BY <1>3 DEF Entries, Choices, FiltersTo
  <2> QED
    BY <1>3, <2>1, EndsShort
<1> HIDE DEF cmds
<1>9. IndexDue(c)'
  <2> SUFFICES ASSUME NEW t \in Server
               PROVE  /\ t \in servers => Due(c, Entries(t), Puts(t), HasNow(t))'
                      /\ t \notin servers => Due(c, Entries(t), Drops(t), LacksNow(t))'
    BY <1>2 DEF IndexDue
  <2>1. Free(cmds, Entries(t))
    BY <1>8
  <2>2. Due(c, Entries(t), Puts(t), HasNow(t)) => Due(c, Entries(t), Puts(t), HasNow(t))'
    BY <1>2, <1>4, <1>6, <2>1, DueSent DEF Due, After, HasNow
  <2>3. Due(c, Entries(t), Drops(t), LacksNow(t)) => Due(c, Entries(t), Drops(t), LacksNow(t))'
    BY <1>1, <1>2, <1>4, <1>6, <2>1, DueSent DEF Due, After, LacksNow
  <2> QED
    BY <1>7, <2>2, <2>3 DEF AllDue, IndexDue
<1>10. CurrentDue(c)'
  <2> SUFFICES ASSUME ~stale, current \in servers
               PROVE  Due(c, Choices(current), Chooses(current), nodeCur = current)'
    BY <1>1, <1>2 DEF CurrentDue
  <2>1. current \in Server
    BY TypeParts DEF IInv, PanelTyped
  <2>2. Free(cmds, Choices(current))
    BY <1>8, <2>1
  <2>3. Due(c, Choices(current), Chooses(current), nodeCur = current)
    BY <1>7 DEF AllDue, CurrentDue
  <2> QED
    BY <1>1, <1>2, <1>4, <1>6, <2>2, <2>3, DueSent DEF Due, After
<1>11. FilterDue(c)'
  <2>1. CASE \E r \in Setter : setting[r] = "notify" /\ old[r] # filter
    BY <1>2, <2>1 DEF Coming, FilterDue
  <2>2. CASE inner[Len(inner)] = filter /\ Tail(inner) = <<>>
    <3>1. Len(inner) = 1
      <4>1. Len(Tail(inner)) = Len(inner) - 1 /\ Len(inner) \in Nat
        BY <1>3, HeadTailProperties, LenProperties
      <4>2. Len(Tail(inner)) = 0
        BY <2>2, EmptySeq
      <4> QED
        BY <4>1, <4>2
    <3>2. h = filter
      BY <1>3, <2>2, <3>1
    <3> QED
      BY <1>2, <1>3, <1>4, <1>6, <1>8, <2>2, <3>2, DueSent DEF FilterDue, Due
  <2>3. CASE inner[Len(inner)] = filter /\ Tail(inner) # <<>>
    <3>1. Len(Tail(inner)) \in 1..Len(Tail(inner)) /\ Len(Tail(inner)) + 1 = Len(inner)
      BY <1>3, <2>3, HeadTailProperties, EmptySeq
    <3>2. Tail(inner)[Len(Tail(inner))] = inner[Len(inner)]
      BY <1>3, <3>1, HeadTailProperties
    <3> QED
      BY <1>2, <1>3, <2>3, <3>2 DEF Coming, FilterDue
  <2> QED
    BY <1>3, <1>7, <2>1, <2>2, <2>3 DEF AllDue, FilterDue, Coming
<1>12. Rests'
  BY <1>1, <1>2, <1>7 DEF Agreed, Rests
<1> QED
  BY <1>6, <1>9, <1>10, <1>11, <1>12, CarrierNext DEF AllDue

LEMMA SettingsAgree ==
  ASSUME IInv, Reliable => Agreed, NEW r \in Setter,
         NotifyNode(r) \/ \E v \in Filter : SetSettings(r, v)
  PROVE  Reliable' => Agreed'
<1> SUFFICES ASSUME Reliable' PROVE Agreed'
  OBVIOUS
<1>1. UNCHANGED <<servers, current, links, queue, up, mixed, stale, lineVars, storeVars, refused>>
  BY DEF NotifyNode, SetSettings, PanelKeeps
<1>2. /\ UNCHANGED <<line, pc, db, nodeCur, file>>
      /\ \A c \in Conn : (Waits(c)' <=> Waits(c)) /\ (Carries(c)' <=> Carries(c))
  BY <1>1 DEF lineVars, storeVars, Waits, Setting, Carries
<1>3. setting \in [Setter -> {"idle", "notify"}] /\ old \in [Setter -> Filter]
  BY TypeParts DEF IInv, PanelTyped
<1>4. /\ Reliable
      /\ Coming => Coming'
      /\ ~Coming => Coming' \/ UNCHANGED <<filter, inner>>
  <2>1. ASSUME NEW v \in Filter, SetSettings(r, v) PROVE <1>4!:
    <3>1. /\ setting[r] = "idle" /\ filter' = v /\ UNCHANGED <<inner, lost>>
          /\ old' = [old EXCEPT ![r] = filter] /\ setting' = [setting EXCEPT ![r] = "notify"]
      BY <2>1 DEF SetSettings
    <3>2. Reliable
      BY <1>1, <3>1 DEF Reliable
    <3>3. CASE v = filter
      <4>1. \A p \in Setter \ {r} : old'[p] = old[p] /\ setting'[p] = setting[p]
        BY <1>3, <3>1
      <4>2. Coming => Coming'
        BY <3>1, <3>3, <4>1 DEF Coming
      <4> QED
        BY <3>1, <3>2, <3>3, <4>2
    <3>4. CASE v # filter
      <4>1. setting'[r] = "notify" /\ old'[r] # filter'
        BY <1>3, <3>1, <3>4
      <4> QED
        BY <3>2, <4>1 DEF Coming
    <3> QED
      BY <3>3, <3>4
  <2>2. ASSUME NotifyNode(r) PROVE <1>4!:
    <3>1. UNCHANGED <<filter, old>> /\ setting' = [setting EXCEPT ![r] = "idle"]
      BY <2>2 DEF NotifyNode
    <3>2. ~lost'
      BY DEF Reliable
    <3>3. CASE old[r] = filter \/ links = {}
      <4>1. inner' = inner /\ old[r] = filter /\ ~lost
        BY <2>2, <3>2, <3>3, Zenon DEF NotifyNode
      <4>2. \A p \in Setter \ {r} : setting'[p] = setting[p]
        BY <1>3, <3>1
      <4>3. Coming => Coming'
        BY <3>1, <4>1, <4>2 DEF Coming
      <4> QED
        BY <1>1, <3>1, <4>1, <4>3 DEF Reliable
    <3>4. CASE ~(old[r] = filter \/ links = {})
      <4>1. inner' = Append(inner, filter) /\ lost' = lost
        BY <2>2, <3>4 DEF NotifyNode
      <4>2. inner \in Seq(Filter) /\ filter \in Filter
        BY TypeParts DEF IInv, LinkTyped, PanelTyped
      <4>3. inner' # <<>> /\ inner'[Len(inner')] = filter'
        BY <3>1, <4>1, <4>2, AppendProperties
      <4> QED
        BY <1>1, <3>2, <4>1, <4>3 DEF Reliable, Coming
    <3> QED
      BY <3>3, <3>4
  <2> QED
    BY <2>1, <2>2
<1>5. Agreed
  BY <1>4
<1>6. ASSUME NEW c \in Conn, AllDue(c) PROVE AllDue(c)'
  <2>1. IndexDue(c)' /\ CurrentDue(c)'
    BY <1>1, <1>2, <1>6 DEF AllDue, IndexDue, CurrentDue, Due, After, HasNow, LacksNow
  <2>2. FilterDue(c)'
    BY <1>1, <1>2, <1>4, <1>6 DEF AllDue, FilterDue, Due, After
  <2> QED
    BY <2>1, <2>2 DEF AllDue
<1>7. ASSUME AllNow PROVE AllNow'
  <2>1. IndexNow' /\ CurrentNow'
    BY <1>1, <1>2, <1>7 DEF AllNow, IndexNow, CurrentNow, HasNow, LacksNow
  <2>2. FilterNow'
    BY <1>1, <1>2, <1>4, <1>7 DEF AllNow, FilterNow
  <2> QED
    BY <2>1, <2>2 DEF AllNow
<1>8. OneCarries' /\ Rests'
  BY <1>1, <1>2, <1>5 DEF Agreed, OneCarries, Rests
<1> QED
  BY <1>2, <1>5, <1>6, <1>7, <1>8 DEF Agreed
LEMMA LinksAgree ==
  ASSUME IInv, IInv', Reliable => Agreed, NEW l \in Conn, LinkUp(l) \/ LinkDown(l)
  PROVE  Reliable' => Agreed'
<1> SUFFICES ASSUME Reliable' PROVE Agreed'
  OBVIOUS
<1>1. UNCHANGED <<panelVars, up, lineVars, storeVars, stale, refused, mixed>>
  BY DEF LinkUp, LinkDown, pastVars
<1>2. queue \in [Conn -> Seq(Command)]
  BY TypeParts DEF IInv, LinkTyped
<1>3. /\ UNCHANGED inner /\ ~lost /\ \A d \in Conn \ {l} : queue'[d] = queue[d]
      /\ Tells(queue'[l]) => Tells(queue[l])
      /\ \A K, G \in SUBSET Telling : /\ Free(queue'[l], K) <=> Free(queue[l], K)
                                      /\ Ends(queue'[l], K, G) <=> Ends(queue[l], K, G)
  <2>1. CASE LinkUp(l)
    <3>1. /\ queue[l] = <<>> /\ queue'[l] = <<Greeting>> /\ inner' = inner /\ lost' = lost
          /\ \A d \in Conn \ {l} : queue'[d] = queue[d]
      BY <1>2, <2>1 DEF LinkUp, pastVars
    <3>2. Greeting \in Command /\ Greeting \notin Telling
      BY GreetingTyped DEF Telling
    <3>3. ~Tells(<<Greeting>>)
      BY <3>2 DEF Tells
    <3>4. \A K, G \in SUBSET Telling : Free(<<Greeting>>, K) /\ ~Ends(<<Greeting>>, K, G)
      BY <3>3, NothingTold
    <3> QED
      BY <3>1, <3>3, <3>4, EndsEmpty DEF Reliable
  <2>2. CASE LinkDown(l)
    <3>1. PICK k \in 0..Len(queue[l]) :
            /\ queue' = [queue EXCEPT ![l] = SubSeq(@, 1, k)]
            /\ lost' = (\/ lost \/ \E i \in (k + 1)..Len(queue[l]) : queue[l][i] \in Telling
                        \/ links' = {} /\ inner # <<>>)
      BY <2>2 DEF LinkDown
    <3>2. /\ ~lost /\ ~(links' = {} /\ inner # <<>>)
          /\ \A i \in (k + 1)..Len(queue[l]) : queue[l][i] \notin Telling
      BY <3>1, Zenon DEF Reliable
    <3>3. inner' = inner
      BY <2>2, <3>2 DEF LinkDown
    <3>4. queue[l] \in Seq(Command) /\ queue'[l] = SubSeq(queue[l], 1, k)
          /\ \A d \in Conn \ {l} : queue'[d] = queue[d]
      BY <1>2, <3>1
    <3>5. \A K, G \in SUBSET Telling : /\ Free(queue'[l], K) <=> Free(queue[l], K)
                                       /\ Ends(queue'[l], K, G) <=> Ends(queue[l], K, G)
      BY <3>2, <3>4, EndsCut
    <3>6. Tells(queue'[l]) => Tells(queue[l])
      <4>1. \A q : Tells(q) <=> ~Free(q, Telling)
        BY DEF Tells, Free
      <4> QED
        BY <3>5, <4>1
    <3> QED
      BY <3>2, <3>3, <3>4, <3>5, <3>6
  <2> QED
    BY <2>1, <2>2
<1>4. /\ UNCHANGED <<servers, current, filter, setting, old, line, pc, db, nodeCur, file>>
      /\ \A c \in Conn : Waits(c)' <=> Waits(c)
  BY <1>1 DEF panelVars, lineVars, storeVars, Waits, Setting
<1>5. Agreed /\ Rests'
  BY <1>1, <1>3, <1>4 DEF Reliable, Agreed, Rests
<1>6. \A d \in Conn :
        /\ Carries(d)' => Carries(d)
        /\ \A K, G \in SUBSET Telling : /\ Free(queue'[d], K) <=> Free(queue[d], K)
                                        /\ Ends(queue'[d], K, G) <=> Ends(queue[d], K, G)
  <2> TAKE d \in Conn
  <2>1. CASE d = l
    BY <1>3, <1>4, <2>1 DEF Carries
  <2>2. CASE d # l
    BY <1>3, <1>4, <2>2 DEF Carries
  <2> QED
    BY <2>1, <2>2
<1> QED
  BY <1>1, <1>3, <1>4, <1>5, <1>6, Steady

-----------------------------------------------------------------------------
(* Restarts. *)

LEMMA PanelRestartAgrees ==
  ASSUME IInv, IInv', Reliable => Agreed, PanelRestarts
  PROVE  Reliable' => Agreed'
<1> SUFFICES ASSUME Reliable' PROVE Agreed'
  OBVIOUS
<1>1. UNCHANGED <<servers, filter, old, up, lineVars, storeVars, mixed, refused>>
  BY DEF PanelRestarts
<1>2. /\ inner = <<>> /\ inner' = <<>> /\ ~lost /\ setting' = setting
      /\ queue' = queue \/ \A c \in Conn : queue'[c] = <<>> /\ ~Tells(queue[c])
  <2>1. setting \in [Setter -> {"idle", "notify"}]
    BY TypeParts DEF IInv, PanelTyped
  <2>2. ~lost'
    BY DEF Reliable
  <2>3. /\ ~lost /\ inner = <<>> /\ \A r \in Setter : setting[r] = "idle"
        /\ queue' = queue \/ \A c \in Conn : ~Tells(queue[c])
    BY <2>2, Zenon DEF PanelRestarts
  <2>4. queue' = queue \/ \A c \in Conn : queue'[c] = <<>>
    BY DEF PanelRestarts
  <2>5. setting' = setting
    BY <2>1, <2>3 DEF PanelRestarts
  <2> QED
    BY <2>3, <2>4, <2>5 DEF PanelRestarts
<1>3. stale' \/ current' \notin servers
  <2>1. None \notin servers
    BY TypeParts DEF IInv, PanelTyped
  <2> QED
    BY <2>1 DEF PanelRestarts
<1>4. UNCHANGED <<line, pc, db, nodeCur, file>> /\ \A c \in Conn : Waits(c)' <=> Waits(c)
  BY <1>1 DEF lineVars, storeVars, Waits, Setting
<1>5. Agreed /\ Rests'
  BY <1>1, <1>2, <1>4 DEF Reliable, Agreed, Rests
<1>6. ~Tells(<<>>)
  BY DEF Tells
<1>7. \A d \in Conn :
        /\ Carries(d)' => Carries(d)
        /\ \A K, G \in SUBSET Telling : /\ Free(queue'[d], K) <=> Free(queue[d], K)
                                        /\ Ends(queue'[d], K, G) <=> Ends(queue[d], K, G)
  <2> TAKE d \in Conn
  <2>1. CASE queue' = queue
    BY <1>4, <2>1 DEF Carries
  <2>2. CASE queue'[d] = <<>> /\ ~Tells(queue[d])
    BY <1>4, <1>6, <2>2, NothingTold DEF Carries
  <2> QED
    BY <1>2, <2>1, <2>2
<1> QED
  BY <1>1, <1>2, <1>3, <1>4, <1>5, <1>7, Steady

LEMMA CrashAgrees ==
  ASSUME IInv, Reliable => Agreed, NodeCrashes
  PROVE  Reliable' => Agreed'
<1> SUFFICES ASSUME Reliable' PROVE Agreed'
  OBVIOUS
<1>1. UNCHANGED <<panelVars, storeVars, mixed, stale, refused>> /\ up /\ inner' = <<>>
  BY DEF NodeCrashes
<1>2. ~lost /\ inner = <<>> /\ \A c \in Conn : ~Carries(c)
  <2>1. ~lost'
    BY DEF Reliable
  <2> QED
    BY <2>1, Zenon DEF NodeCrashes
<1>3. Agreed /\ AllNow
  BY <1>1, <1>2 DEF Reliable, Agreed
<1>4. \A c \in Conn : pc[c] \notin Inside /\ ~Setting(c)
  BY <1>2, Idle DEF Waits
<1>5. file = db /\ nodeCur = db.current
  <2>1. dbLock = None
    BY <1>4, TypeParts DEF IInv, Standing, Fits, LineTyped
  <2> QED
    BY <1>1, <1>4, <2>1 DEF IInv, Stored
<1>6. AllNow'
  BY <1>1, <1>2, <1>3
  DEF AllNow, IndexNow, CurrentNow, FilterNow, Coming, HasNow, LacksNow, panelVars, storeVars
<1>7. \A c \in Conn : ~Carries(c)'
  BY CommandAssumption DEF NodeCrashes, Carries, Tells, Telling
<1>8. OneCarries' /\ Rests'
  BY <1>1, <1>5, <1>7 DEF OneCarries, Rests, storeVars
<1> QED
  BY <1>6, <1>7, <1>8 DEF Agreed

LEMMA StartAgrees ==
  ASSUME IInv, Reliable => Agreed, NodeStarts
  PROVE  Reliable' => Agreed'
<1> SUFFICES ASSUME Reliable' PROVE Agreed'
  OBVIOUS
<1>1. UNCHANGED <<panelVars, linkVars, lineVars, pastVars>> /\ ~up /\ up'
  BY DEF NodeStarts
<1>2. Agreed /\ db \in Database /\ file = db /\ nodeCur = db.current
  BY <1>1, TypeParts DEF Reliable, pastVars, Agreed, Rests, IInv, StoreTyped
<1>3. file # Torn
  BY <1>2 DEF Torn, Database
<1>4. /\ db'.index = db.index \cup {Builtin} /\ db'.filter = db.filter
      /\ db'.current = db.current /\ nodeCur' = nodeCur
  BY <1>2, <1>3 DEF NodeStarts, Started, Loaded, Database
<1>5. /\ UNCHANGED <<servers, current, filter, setting, old, inner, queue, line, pc, stale, refused>>
      /\ \A c \in Conn : ~Waits(c) /\ ~Waits(c)' /\ (Carries(c)' <=> Carries(c))
  BY <1>1 DEF panelVars, linkVars, lineVars, pastVars, IInv, Standing, Fits, Waits, Setting, Carries
<1>6. ASSUME NEW c \in Conn, AllDue(c) PROVE AllDue(c)'
  BY <1>4, <1>5, <1>6
  DEF AllDue, IndexDue, CurrentDue, FilterDue, Due, After, Coming, HasNow, LacksNow
<1>7. ASSUME AllNow PROVE AllNow'
  BY <1>4, <1>5, <1>7
  DEF AllNow, IndexNow, CurrentNow, FilterNow, Coming, HasNow, LacksNow
<1>8. OneCarries' /\ Rests'
  BY <1>1, <1>2, <1>5 DEF Agreed, OneCarries, Rests
<1> QED
  BY <1>2, <1>5, <1>6, <1>7, <1>8 DEF Agreed

-----------------------------------------------------------------------------
(* Steps of the node's handlers. *)

LEMMA TakeTellingAgrees ==
  ASSUME IInv, IInv', Reliable => Agreed, NEW c \in Conn, TakeLine(c), Head(queue[c]) \in Telling
  PROVE  Reliable' => Agreed'
<1> SUFFICES ASSUME Reliable' PROVE Agreed'
  OBVIOUS
<1> DEFINE q == queue[c]
           x == Head(q)
           t == Tail(q)
<1>1. /\ UNCHANGED <<panelVars, inner, up, lost, mixed, stale, storeVars, refused>>
      /\ pc[c] = "read" /\ q # <<>>
      /\ line' = [line EXCEPT ![c] = Head(queue[c])]
      /\ queue' = [queue EXCEPT ![c] = Tail(@)]
      /\ pc' = [pc EXCEPT ![c] = First(line'[c].do)]
  BY DEF TakeLine, NodeKeeps, At, Goto
<1>2. LinkTyped /\ LineTyped
  BY TypeParts DEF IInv
<1>3. q \in Seq(Command) /\ x \in Command
  BY <1>1, <1>2, HeadTailProperties DEF LinkTyped
<1>4. queue'[c] = t /\ line'[c] = x /\ pc'[c] = First(x.do)
  BY <1>1, <1>2 DEF LinkTyped, LineTyped
<1>5. /\ UNCHANGED <<servers, current, filter, setting, old, db, nodeCur, file>>
      /\ Agreed
  BY <1>1 DEF panelVars, storeVars, Reliable
<1>6. (\A d \in Conn \ {c} : ~Carries(d)) /\ AllDue(c)
  <2>1. Carries(c)
    <3>1. Len(q) \in Nat /\ Len(q) >= 1 /\ q[1] = Head(q)
      BY <1>1, <1>3, EmptySeq, LenProperties
    <3> QED
      BY <3>1 DEF Carries, Tells
  <2> QED
    BY <1>5, <2>1, Alone
<1>7. \A d \in Conn \ {c} : ~Carries(d)'
  BY <1>1, <1>2, <1>6 DEF Carries, LinkTyped, LineTyped
<1>8. ~Waits(c) /\ (x.do \in {"create", "set", "filter", "delete"} => Waits(c)')
  <2>1. x.do \in {"create", "set", "filter", "delete"} => First(x.do) \in {"look", "db"}
    BY DEF First
  <2> QED
    BY <1>1, <1>4, <2>1 DEF Waits, Setting
<1> HIDE DEF q, x, t
<1>9. /\ \A s \in Server : x \in Entries(s) \/ x \in Choices(s) \/ x \in Filters => Waits(c)'
      /\ \A K, G : /\ Free(q, K) <=> x \notin K /\ Free(t, K)
                   /\ Ends(q, K, G) <=> Ends(t, K, G) \/ (x \in G /\ Free(t, K))
  <2>1. \A s \in Server : x \in Entries(s) \/ x \in Choices(s) \/ x \in Filters => Waits(c)'
    BY <1>8 DEF Entries, Choices, Filters
  <2>2. \A K, G : /\ Free(q, K) <=> x \notin K /\ Free(t, K)
                  /\ Ends(q, K, G) <=> Ends(t, K, G) \/ (x \in G /\ Free(t, K))
    BY <1>1, <1>3, EndsTail DEF x, t
  <2> QED
    BY <2>1, <2>2
<1>10. \A s : Puts(s) \subseteq Entries(s) /\ Drops(s) \subseteq Entries(s)
              /\ Chooses(s) \subseteq Choices(s) /\ FiltersTo(s) \subseteq Filters
  BY DEF Puts, Drops, Entries, Chooses, Choices, FiltersTo, Filters
<1>11. IndexDue(c)'
  <2> SUFFICES ASSUME NEW s \in Server
               PROVE  /\ s \in servers => Due(c, Entries(s), Puts(s), HasNow(s))'
                      /\ s \notin servers => Due(c, Entries(s), Drops(s), LacksNow(s))'
    BY <1>5 DEF IndexDue
  <2>1. /\ s \in servers => Due(c, Entries(s), Puts(s), HasNow(s))
        /\ s \notin servers => Due(c, Entries(s), Drops(s), LacksNow(s))
    BY <1>6 DEF AllDue, IndexDue
  <2>2. (HasNow(s)' <=> HasNow(s)) /\ (LacksNow(s)' <=> LacksNow(s))
    BY <1>1, <1>5 DEF HasNow, LacksNow
  <2> QED
    BY <1>4, <1>8, <1>9, <1>10, <2>1, <2>2 DEF Due, After, q
<1>12. CurrentDue(c)'
  <2> SUFFICES ASSUME ~stale, current \in servers
               PROVE  Due(c, Choices(current), Chooses(current), nodeCur = current)'
    BY <1>1, <1>5 DEF CurrentDue
  <2>1. current \in Server
    BY TypeParts DEF IInv, PanelTyped
  <2>2. Due(c, Choices(current), Chooses(current), nodeCur = current)
    BY <1>6 DEF AllDue, CurrentDue
  <2> QED
    BY <1>4, <1>5, <1>8, <1>9, <1>10, <2>1, <2>2 DEF Due, After, q
<1>13. FilterDue(c)'
  <2>1. CASE Coming
    BY <1>1, <1>5, <2>1 DEF Coming, FilterDue
  <2>2. CASE ~Coming
    <3>1. inner = <<>> /\ Due(c, Filters, FiltersTo(filter), db.filter = filter)
      BY <1>6, <2>2 DEF AllDue, FilterDue
    <3>2. x \in Filters => Waits(c)'
      BY <1>9
    <3> QED
      BY <1>1, <1>4, <1>5, <1>8, <1>9, <1>10, <3>1, <3>2 DEF FilterDue, Due, After, q
  <2> QED
    BY <2>1, <2>2
<1>14. Rests'
  BY <1>1, <1>5 DEF Agreed, Rests
<1> QED
  BY <1>7, <1>11, <1>12, <1>13, <1>14, CarrierNext DEF AllDue

LEMMA TakeAgrees ==
  ASSUME IInv, IInv', Reliable => Agreed, NEW c \in Conn, TakeLine(c)
  PROVE  Reliable' => Agreed'
<1>1. CASE Head(queue[c]) \in Telling
  BY <1>1, TakeTellingAgrees
<1>2. CASE Head(queue[c]) \notin Telling
  <2> SUFFICES ASSUME Reliable' PROVE Agreed'
    OBVIOUS
  <2>1. /\ UNCHANGED <<panelVars, inner, up, lost, mixed, stale, storeVars, refused>>
        /\ pc[c] = "read" /\ queue[c] # <<>>
        /\ line' = [line EXCEPT ![c] = Head(queue[c])]
        /\ queue' = [queue EXCEPT ![c] = Tail(@)]
        /\ pc' = [pc EXCEPT ![c] = First(line'[c].do)]
    BY DEF TakeLine, NodeKeeps, At, Goto
  <2>2. LinkTyped /\ LineTyped
    BY TypeParts DEF IInv
  <2>3. queue[c] \in Seq(Command) /\ Head(queue[c]) \in Command
    BY <2>1, <2>2, HeadTailProperties DEF LinkTyped
  <2>4. Head(queue[c]).do = "data"
    BY <1>2, <2>3 DEF Telling
  <2>5. queue'[c] = Tail(queue[c]) /\ line'[c] = Head(queue[c]) /\ pc'[c] = "current"
    BY <2>1, <2>2, <2>4 DEF LinkTyped, LineTyped, First
  <2>6. \A d \in Conn \ {c} : queue'[d] = queue[d] /\ line'[d] = line[d] /\ pc'[d] = pc[d]
    BY <2>1, <2>2 DEF LinkTyped, LineTyped
  <2>7. UNCHANGED <<servers, current, filter, setting, old, db, nodeCur, file>> /\ Agreed
    BY <2>1 DEF panelVars, storeVars, Reliable
  <2>8. Rests'
    BY <2>1, <2>7 DEF Agreed, Rests
  <2>9. /\ ~Waits(c) /\ ~Waits(c)'
        /\ \A d \in Conn \ {c} : (Waits(d)' <=> Waits(d)) /\ (Carries(d)' <=> Carries(d))
    BY <2>1, <2>5, <2>6 DEF Waits, Setting, Carries
  <2>10. \A K, G \in SUBSET Telling : /\ Free(queue'[c], K) <=> Free(queue[c], K)
                                      /\ Ends(queue'[c], K, G) <=> Ends(queue[c], K, G)
    BY <1>2, <2>1, <2>3, <2>5, EndsTail
  <2>11. Carries(c)' => Carries(c)
    <3>1. \A q : Tells(q) <=> ~Free(q, Telling)
      BY DEF Tells, Free
    <3>2. Telling \in SUBSET Telling
      OBVIOUS
    <3>3. Free(queue'[c], Telling) <=> Free(queue[c], Telling)
      BY <2>10, <3>2
    <3> QED
      BY <1>2, <2>5, <3>1, <3>3 DEF Carries
  <2>12. ASSUME NEW d \in Conn
         PROVE  /\ Carries(d)' => Carries(d)
                /\ Waits(d)' <=> Waits(d)
                /\ Waits(d) => line'[d] = line[d]
                /\ \A K, G \in SUBSET Telling : /\ Free(queue'[d], K) <=> Free(queue[d], K)
                                                /\ Ends(queue'[d], K, G) <=> Ends(queue[d], K, G)
    <3>1. CASE d = c
      BY <2>9, <2>10, <2>11, <3>1
    <3>2. CASE d # c
      BY <2>6, <2>9, <3>2
    <3> QED
      BY <3>1, <3>2
  <2> QED
    BY <2>1, <2>7, <2>8, <2>12, Steady
<1> QED
  BY <1>1, <1>2

LEMMA DoneTellingAgrees ==
  ASSUME IInv, IInv', Reliable => Agreed, NEW c \in Conn, LineDone(c), Carries(c)
  PROVE  Reliable' => Agreed'
<1> SUFFICES ASSUME Reliable' PROVE Agreed'
  OBVIOUS
<1>1. /\ UNCHANGED <<panelVars, inner, up, lost, mixed, stale, queue, storeVars, refused>>
      /\ pc[c] = "done" /\ line' = [line EXCEPT ![c] = None]
      /\ pc' = [pc EXCEPT ![c] = "read"]
  BY DEF LineDone, NodeKeeps, At, Goto
<1>2. LineTyped
  BY TypeParts DEF IInv
<1>3. UNCHANGED <<servers, current, filter, setting, old, db, nodeCur, file>> /\ Agreed
  BY <1>1 DEF panelVars, storeVars, Reliable
<1>4. (\A d \in Conn \ {c} : ~Carries(d)) /\ AllDue(c)
  BY <1>3, Alone
<1>5. \A d \in Conn \ {c} : ~Carries(d)'
  BY <1>1, <1>2, <1>4 DEF Carries, LineTyped
<1>6. ~Waits(c) /\ ~Waits(c)'
  BY <1>1, <1>2 DEF Waits, Setting, LineTyped
<1>7. AllDue(c)'
  BY <1>1, <1>3, <1>4, <1>6
  DEF AllDue, IndexDue, CurrentDue, FilterDue, Due, After, Coming, HasNow, LacksNow
<1>8. Rests'
  BY <1>1, <1>3 DEF Agreed, Rests
<1> QED
  BY <1>5, <1>7, <1>8, CarrierNext

LEMMA DoneAgrees ==
  ASSUME IInv, IInv', Reliable => Agreed, NEW c \in Conn, LineDone(c)
  PROVE  Reliable' => Agreed'
<1>1. CASE Carries(c)
  BY <1>1, DoneTellingAgrees
<1>2. CASE ~Carries(c)
  <2> SUFFICES ASSUME Reliable' PROVE Agreed'
    OBVIOUS
  <2>1. /\ UNCHANGED <<panelVars, inner, up, lost, mixed, stale, queue, storeVars, refused>>
        /\ pc[c] = "done" /\ line' = [line EXCEPT ![c] = None]
        /\ pc' = [pc EXCEPT ![c] = "read"]
    BY DEF LineDone, NodeKeeps, At, Goto
  <2>2. LineTyped
    BY TypeParts DEF IInv
  <2>3. line'[c] = None /\ \A d \in Conn \ {c} : line'[d] = line[d] /\ pc'[d] = pc[d]
    BY <2>1, <2>2 DEF LineTyped
  <2>4. UNCHANGED <<servers, current, filter, setting, old, db, nodeCur, file>> /\ Agreed
    BY <2>1 DEF panelVars, storeVars, Reliable
  <2>5. Rests'
    BY <2>1, <2>4 DEF Agreed, Rests
  <2>6. None \notin Telling
    BY CommandAssumption DEF Telling
  <2>7. ASSUME NEW d \in Conn
        PROVE  (Carries(d)' => Carries(d)) /\ (Waits(d)' <=> Waits(d)) /\ (Waits(d) => line'[d] = line[d])
    <3>1. CASE d = c
      BY <2>1, <2>2, <2>3, <2>6, <3>1 DEF Carries, Waits, Setting, LineTyped
    <3>2. CASE d # c
      BY <2>1, <2>3, <3>2 DEF Carries, Waits, Setting
    <3> QED
      BY <3>1, <3>2
  <2> QED
    BY <2>1, <2>4, <2>5, <2>7, Steady
<1> QED
  BY <1>1, <1>2

\* What a step of a handler does to what the panel expects: most do nothing.
Refuses(c) ==
  /\ line[c].do = "delete" /\ nodeCur = None /\ Waits(c) /\ ~Waits(c)'
  /\ refused' = refused \cup {line[c].of} /\ UNCHANGED <<db, nodeCur>>
Creates(c) ==
  /\ line[c].do = "create" /\ Waits(c) /\ ~Waits(c)'
  /\ db'.index = db.index \cup {line[c].of} /\ refused' = refused \ {line[c].of}
  /\ db'.filter = db.filter /\ UNCHANGED nodeCur
Sets(c) ==
  /\ line[c].do = "set" /\ Waits(c) /\ Waits(c)'
  /\ db'.index = db.index \cup {line[c].of}
  /\ db'.filter = db.filter /\ UNCHANGED <<nodeCur, refused>>
Assigns(c) ==
  /\ line[c].do = "set" /\ line[c].of \in db.index /\ Waits(c) /\ ~Waits(c)'
  /\ nodeCur' = line[c].of /\ UNCHANGED <<db, refused>>
FiltersBy(c) ==
  /\ line[c].do = "filter" /\ Waits(c) /\ ~Waits(c)'
  /\ db'.index = db.index /\ db'.filter = line[c].of /\ UNCHANGED <<nodeCur, refused>>
Deletes(c) ==
  /\ line[c].do = "delete" /\ Waits(c) /\ ~Waits(c)'
  /\ db'.index = db.index \ {line[c].of} /\ db'.filter = db.filter
  /\ nodeCur' = IF line[c].of = nodeCur THEN None ELSE nodeCur
  /\ UNCHANGED refused
Nothing(c) == UNCHANGED <<db, nodeCur, refused>> /\ (Waits(c)' <=> Waits(c))

LEMMA HandlerEffect ==
  ASSUME IInv, NEW c \in Conn, LineStep(c), ~LineDone(c)
  PROVE  /\ NodeKeeps /\ UNCHANGED <<queue, line>> /\ pc[c] # "read"
         /\ line[c] \in Command
         /\ \/ Refuses(c) \/ Creates(c) \/ Sets(c) \/ Assigns(c) \/ FiltersBy(c)
            \/ Deletes(c) \/ Nothing(c)
<1> USE DEF At, Goto, Waits, Setting
<1>1. LineTyped /\ StoreTyped /\ db \in Database
  BY TypeParts DEF IInv, StoreTyped
<1>2. pc[c] # "read"
  BY DEF LineStep, LookCurrent, LockDb, Create, SetCurrent, SetFilter, Delete, Truncate, Write,
         Assign, StartHooks, RunHooks, NoMoreHooks, RemoveFiles, ServerData, LookUp, LineDone
<1>3. NodeKeeps /\ UNCHANGED <<queue, line>>
  BY DEF LineStep, LookCurrent, LockDb, Create, SetCurrent, SetFilter, Delete, Truncate, Write,
         Assign, StartHooks, RunHooks, NoMoreHooks, RemoveFiles, ServerData, LookUp, LineDone
<1>4. Fits(c) /\ Stored /\ line[c] \in Command
  BY <1>2 DEF IInv, Standing, Fits
<1>5. \A p : pc' = [pc EXCEPT ![c] = p] => pc'[c] = p
  BY <1>1 DEF LineTyped
<1>6. CASE LookCurrent(c)
  <2>1. pc[c] = "look" /\ line[c].do = "delete"
    BY <1>4, <1>6 DEF LookCurrent, Fits, Suits
  <2>2. CASE nodeCur = None
    <3>1. /\ pc' = [pc EXCEPT ![c] = "done"] /\ refused' = refused \cup {line[c].of}
          /\ UNCHANGED <<db, nodeCur>>
      BY <1>6, <2>2 DEF LookCurrent, storeVars
    <3>2. pc'[c] = "done"
      BY <1>5, <3>1
    <3>3. Refuses(c)
      BY <2>1, <2>2, <3>1, <3>2 DEF Refuses
    <3> QED
      BY <1>2, <1>3, <1>4, <3>3
  <2>3. CASE nodeCur # None
    <3>1. pc' = [pc EXCEPT ![c] = "db"] /\ UNCHANGED <<refused, db, nodeCur>>
      BY <1>6, <2>3 DEF LookCurrent, storeVars
    <3>2. pc'[c] = "db"
      BY <1>5, <3>1
    <3>3. Nothing(c)
      BY <2>1, <3>1, <3>2 DEF Nothing
    <3> QED
      BY <1>2, <1>3, <1>4, <3>3
  <2> QED
    BY <2>2, <2>3
<1>7. CASE LockDb(c)
  BY <1>2, <1>3, <1>4, <1>5, <1>7 DEF LockDb, storeVars, Nothing
<1>8. CASE Create(c)
  <2>1. Creates(c)
    BY <1>1, <1>3, <1>5, <1>8 DEF Create, Creates, Database
  <2> QED
    BY <1>2, <1>3, <1>4, <2>1
<1>9. CASE SetCurrent(c)
  <2>1. Sets(c)
    BY <1>1, <1>3, <1>5, <1>9 DEF SetCurrent, Sets, Database
  <2> QED
    BY <1>2, <1>3, <1>4, <2>1
<1>10. CASE SetFilter(c)
  <2>1. FiltersBy(c)
    BY <1>1, <1>3, <1>5, <1>10 DEF SetFilter, FiltersBy, Database
  <2> QED
    BY <1>2, <1>3, <1>4, <2>1
<1>11. CASE Delete(c)
  <2>1. pc[c] = "change" /\ line[c].do = "delete" /\ seen[c] = nodeCur
    BY <1>4, <1>11 DEF Delete, Stored
  <2>2. /\ db'.index = db.index \ {line[c].of} /\ db'.filter = db.filter
        /\ nodeCur' = IF line[c].of = nodeCur THEN None ELSE nodeCur
    BY <1>1, <1>11, <2>1 DEF Delete, Database
  <2>3. Deletes(c)
    BY <1>3, <1>5, <1>11, <2>1, <2>2 DEF Delete, Deletes
  <2> QED
    BY <1>2, <1>3, <1>4, <2>3
<1>12. CASE Truncate(c)
  <2>1. Nothing(c)
    <3>1. CASE pc[c] = "save"
      BY <1>3, <1>5, <1>12, <3>1 DEF Truncate, Nothing
    <3>2. CASE pc[c] = "save again"
      BY <1>3, <1>5, <1>12, <3>2 DEF Truncate, Nothing
    <3> QED
      BY <1>12, <3>1, <3>2 DEF Truncate
  <2> QED
    BY <1>2, <1>3, <1>4, <2>1
<1>13. CASE Write(c)
  <2>1. line[c].do \in {"create", "set", "filter", "delete"} /\ pc[c] = "write"
    BY <1>4, <1>13 DEF Write, Fits, Suits
  <2>2. pc'[c] = CASE line[c].do = "set" -> "assign"
                   [] line[c].do = "create" -> "hooks"
                   [] line[c].do = "delete" -> "files"
                   [] line[c].do = "filter" -> "done"
    BY <1>5, <1>13 DEF Write
  <2>3. Nothing(c)
    BY <1>3, <1>13, <2>1, <2>2 DEF Write, Nothing
  <2> QED
    BY <1>2, <1>3, <1>4, <2>3
<1>14. CASE Assign(c)
  <2>1. pc[c] = "assign" /\ line[c].do = "set" /\ up
    BY <1>4, <1>14 DEF Assign, Fits, Suits
  <2>2. line[c].of \in db.index
    BY <1>4, <2>1, OfServer DEF Stored, CurrentKnown
  <2>3. Assigns(c)
    BY <1>3, <1>5, <1>14, <2>1, <2>2 DEF Assign, Assigns
  <2> QED
    BY <1>2, <1>3, <1>4, <2>3
<1>15. CASE StartHooks(c)
  BY <1>2, <1>3, <1>4, <1>5, <1>15 DEF StartHooks, storeVars, Nothing
<1>16. CASE RunHooks(c)
  BY <1>2, <1>3, <1>4, <1>5, <1>16 DEF RunHooks, Nothing
<1>17. CASE RemoveFiles(c)
  BY <1>2, <1>3, <1>4, <1>5, <1>17 DEF RemoveFiles, Nothing
<1>18. CASE ServerData(c)
  <2>1. pc'[c] \in {"done", "lookup"} /\ pc[c] = "current" /\ UNCHANGED <<storeVars, refused>>
    BY <1>5, <1>18 DEF ServerData
  <2>2. Nothing(c)
    BY <1>3, <2>1 DEF Nothing, storeVars
  <2> QED
    BY <1>2, <1>3, <1>4, <2>2
<1>19. CASE LookUp(c)
  BY <1>2, <1>3, <1>4, <1>5, <1>19 DEF LookUp, storeVars, Nothing
<1>20. CASE NoMoreHooks(c)
  BY <1>2, <1>3, <1>4, <1>5, <1>20 DEF NoMoreHooks, storeVars, Nothing
<1> QED
  BY <1>6, <1>7, <1>8, <1>9, <1>10, <1>11, <1>12, <1>13, <1>14, <1>15, <1>16, <1>17, <1>18, <1>19,
     <1>20
  DEF LineStep

\* With its effect on the node, a command stops being one that will bring it
\* about: what was due is still.
LEMMA HandlerAgrees ==
  ASSUME IInv, IInv', Reliable => Agreed, NEW c \in Conn, LineStep(c)
  PROVE  Reliable' => Agreed'
<1>1. CASE LineDone(c)
  BY <1>1, DoneAgrees
<1>3. CASE ~LineDone(c) /\ ~Carries(c)
  <2> SUFFICES ASSUME Reliable' PROVE Agreed'
    OBVIOUS
  <2>1. NodeKeeps /\ UNCHANGED <<queue, line>> /\ pc[c] # "read" /\ line[c] \in Command
    BY <1>3, HandlerEffect
  <2>2. line[c].do = "data" /\ line[c] \notin Telling
    BY <1>3, <2>1 DEF Carries, Telling
  <2>3. Nothing(c)
    BY <1>3, <2>2, HandlerEffect DEF Refuses, Creates, Sets, Assigns, FiltersBy, Deletes
  <2>4. /\ UNCHANGED <<servers, current, filter, setting, old, inner, up, lost, mixed, stale>>
        /\ UNCHANGED <<db, nodeCur, refused>> /\ (Waits(c)' <=> Waits(c))
    BY <2>1, <2>3 DEF NodeKeeps, panelVars, Nothing
  <2>5. Agreed
    BY <2>4 DEF Reliable
  <2>6. Rests'
    BY <2>1, <2>4, OneAtATime DEF Rests
  <2>7. \A d \in Conn : (Carries(d)' <=> Carries(d)) /\ (Waits(d)' <=> Waits(d))
    <3>1. \A d \in Conn \ {c} : pc[d] = "read" /\ pc'[d] = "read"
      <4>1. origins' = origins /\ origins = c
        BY <1>3, <2>1, OneAtATime
        DEF LineStep, LookCurrent, LockDb, Create, SetCurrent, SetFilter, Delete, Truncate, Write,
            Assign, StartHooks, RunHooks, NoMoreHooks, RemoveFiles, ServerData, LookUp
      <4> QED
        BY <4>1 DEF IInv, Standing, Fits
    <3> QED
      BY <2>1, <2>4, <3>1 DEF Carries, Waits, Setting
  <2> QED
    BY <2>1, <2>4, <2>5, <2>6, <2>7, Steady
<1>2. CASE ~LineDone(c) /\ Carries(c)
  <2> SUFFICES ASSUME Reliable' PROVE Agreed'
    OBVIOUS
  <2> DEFINE x == line[c]
             Steps == \/ Refuses(c) \/ Creates(c) \/ Sets(c) \/ Assigns(c) \/ FiltersBy(c)
                      \/ Deletes(c) \/ Nothing(c)
  <2>1. NodeKeeps /\ UNCHANGED <<queue, line>> /\ pc[c] # "read" /\ x \in Command /\ Steps
    BY <1>2, HandlerEffect
  <2>2. UNCHANGED <<servers, current, filter, setting, old, inner, up, lost, mixed, stale>>
    BY <2>1 DEF NodeKeeps, panelVars
  <2>3. Agreed /\ (\A d \in Conn \ {c} : ~Carries(d)) /\ AllDue(c)
    BY <1>2, <2>2, Alone DEF Reliable
  <2>4. \A d \in Conn \ {c} : ~Carries(d)'
    BY <2>1, <2>3 DEF Carries
  <2> HIDE DEF x
  <2>5. ASSUME NEW s \in Server
        PROVE  /\ After(c, Entries(s), Puts(s), HasNow(s)) =>
                    After(c, Entries(s), Puts(s), HasNow(s))'
               /\ After(c, Entries(s), Drops(s), LacksNow(s)) =>
                    After(c, Entries(s), Drops(s), LacksNow(s))'
               /\ After(c, Choices(s), Chooses(s), nodeCur = s) =>
                    After(c, Choices(s), Chooses(s), nodeCur = s)'
    <3>1. CASE Refuses(c)
      BY <2>1, <3>1 DEF Refuses, After, HasNow, LacksNow, Entries, Puts, Drops, Choices, Chooses, x
    <3>2. CASE Creates(c)
      BY <2>1, <3>2 DEF Creates, After, HasNow, LacksNow, Entries, Puts, Drops, Choices, Chooses, x
    <3>3. CASE Sets(c)
      BY <2>1, <3>3 DEF Sets, After, HasNow, LacksNow, Entries, Puts, Drops, Choices, Chooses, x
    <3>4. CASE Assigns(c)
      BY <2>1, <3>4 DEF Assigns, After, HasNow, LacksNow, Entries, Puts, Drops, Choices, Chooses, x
    <3>5. CASE FiltersBy(c)
      BY <2>1, <3>5 DEF FiltersBy, After, HasNow, LacksNow, Entries, Puts, Drops, Choices, Chooses, x
    <3>6. CASE Deletes(c)
      BY <2>1, <3>6 DEF Deletes, After, HasNow, LacksNow, Entries, Puts, Drops, Choices, Chooses, x
    <3>7. CASE Nothing(c)
      BY <2>1, <3>7 DEF Nothing, After, HasNow, LacksNow
    <3> QED
      BY <2>1, <3>1, <3>2, <3>3, <3>4, <3>5, <3>6, <3>7
  <2>6. After(c, Filters, FiltersTo(filter), db.filter = filter) =>
          After(c, Filters, FiltersTo(filter), db.filter = filter)'
    BY <2>1, <2>2
    DEF Refuses, Creates, Sets, Assigns, FiltersBy, Deletes, Nothing, After, Filters, FiltersTo, x
  <2>7. IndexDue(c)'
    BY <2>1, <2>2, <2>3, <2>5 DEF AllDue, IndexDue, Due
  <2>8. CurrentDue(c)'
    <3> SUFFICES ASSUME ~stale, current \in servers
                 PROVE  Due(c, Choices(current), Chooses(current), nodeCur = current)'
      BY <2>2 DEF CurrentDue
    <3>1. current \in Server
      BY TypeParts DEF IInv, PanelTyped
    <3>2. Due(c, Choices(current), Chooses(current), nodeCur = current)
      BY <2>3 DEF AllDue, CurrentDue
    <3> QED
      BY <2>1, <2>2, <2>5, <3>1, <3>2 DEF Due
  <2>9. FilterDue(c)'
    BY <2>1, <2>2, <2>3, <2>6 DEF AllDue, FilterDue, Due, Coming
  <2>10. Rests'
    BY <2>1, <2>2, OneAtATime DEF Rests
  <2> QED
    BY <2>4, <2>7, <2>8, <2>9, <2>10, CarrierNext DEF AllDue
<1> QED
  BY <1>1, <1>2, <1>3

-----------------------------------------------------------------------------
(* The invariant. *)

LEMMA AInvInductive == AInv /\ [Next]_vars => AInv'
<1> SUFFICES ASSUME IInv, Reliable => Agreed, [Next]_vars PROVE AInv'
  BY DEF AInv
<1>1. IInv'
  BY Inductive
<1>2. CASE UNCHANGED vars
  <2>1. /\ UNCHANGED <<panelVars, linkVars, up, lineVars, storeVars, pastVars>>
    BY <1>2 DEF vars
  <2>2. /\ UNCHANGED <<servers, current, filter, setting, old, inner, queue, line, pc, db>>
        /\ UNCHANGED <<nodeCur, file, up, lost, mixed, stale, refused>>
    BY <2>1 DEF panelVars, linkVars, lineVars, storeVars, pastVars
  <2>3. (\A c \in Conn : (Carries(c)' <=> Carries(c)) /\ (Waits(c)' <=> Waits(c))) /\ (Reliable' <=> Reliable)
    BY <2>2 DEF Carries, Waits, Setting, Reliable
  <2>4. \A c \in Conn : AllDue(c) => AllDue(c)'
    BY <2>2, <2>3 DEF AllDue, IndexDue, CurrentDue, FilterDue, Due, After, Coming, HasNow, LacksNow
  <2>5. AllNow => AllNow'
    BY <2>2 DEF AllNow, IndexNow, CurrentNow, FilterNow, Coming, HasNow, LacksNow
  <2> QED
    BY <1>1, <2>2, <2>3, <2>4, <2>5 DEF AInv, Agreed, OneCarries, Rests
<1>3. CASE \E c \in Conn : LinkUp(c) \/ LinkDown(c) \/ TakeLine(c) \/ LineStep(c)
  BY <1>1, <1>3, LinksAgree, TakeAgrees, HandlerAgrees DEF AInv
<1>4. CASE \/ \E s \in Server : AddServer(s) \/ AddFails(s) \/ AddUntold(s)
           \/ \E s \in Server : SetServer(s) \/ \E f \in Asks : DeleteServer(s, f)
  <2>1. Asks \subseteq BOOLEAN
    OBVIOUS
  <2> QED
    BY <1>1, <1>4, <2>1, AddAgrees, AddFailsAgrees, SetAgrees, DeleteAgrees DEF AInv
<1>5. CASE \E r \in Setter : NotifyNode(r) \/ \E v \in Filter : SetSettings(r, v)
  BY <1>1, <1>5, SettingsAgree DEF AInv
<1>6. CASE PassOn \/ PanelRestarts \/ NodeCrashes \/ NodeStarts
  BY <1>1, <1>6, PassAgrees, PanelRestartAgrees, CrashAgrees, StartAgrees DEF AInv
<1> QED
  BY <1>2, <1>3, <1>4, <1>5, <1>6 DEF Next

LEMMA AInvInit == Init => AInv
<1> SUFFICES ASSUME Init PROVE AInv
  OBVIOUS
<1>1. IInv
  BY InitHolds
<1>2. \A c \in Conn : ~Carries(c)
  BY CommandAssumption DEF Init, Carries, Tells, Telling
<1>3. db.filter = filter
  BY DEF Init, Started, Loaded, DefaultDb, Torn
<1>4. AllNow
  <2>1. \A s \in Server : s \notin servers /\ LacksNow(s)
    BY DEF Init, LacksNow, Started, Loaded, DefaultDb, Torn
  <2>2. current \notin servers /\ inner = <<>>
    BY DEF Init
  <2> QED
    BY <1>3, <2>1, <2>2 DEF AllNow, IndexNow, CurrentNow, FilterNow
<1> QED
  BY <1>1, <1>2, <1>4 DEF AInv, Agreed, OneCarries, Rests, Init

LEMMA AgreedQuiet == AInv /\ Quiet /\ Reliable => AllNow /\ ~Coming
<1> SUFFICES ASSUME AInv, Quiet, Reliable PROVE AllNow /\ ~Coming
  OBVIOUS
<1>1. \A c \in Conn : ~Carries(c)
  BY CommandAssumption DEF Quiet, Carries, Tells, Telling
<1>2. Agreed
  BY DEF AInv
<1>3. ~Coming
  BY DEF Quiet, Coming
<1> QED
  BY <1>1, <1>2, <1>3, Zenon DEF Agreed

\* Without a loss and over one connection, the last command on its way that
\* matters to a server, to the current server or to the filter is the one that
\* makes the node agree with the panel, and if there is none it agrees already.
THEOREM AgreementInvariant == Spec => []AInv
BY AInvInit, AInvInductive, PTL DEF Spec

\* Whatever the operations, their order and the restarts: if nothing was lost
\* and nothing is on its way, the node's index is the panel's servers, with the
\* built-in one and those whose delete was refused.
THEOREM IndexHolds == Spec => []IndexAgrees
<1>1. AInv => IndexAgrees
  <2> SUFFICES ASSUME AInv, Quiet, Reliable
               PROVE  /\ servers \subseteq db.index
                      /\ db.index \subseteq servers \cup {Builtin} \cup refused
    BY DEF IndexAgrees
  <2>1. IndexNow
    BY AgreedQuiet DEF AllNow
  <2>2. servers \subseteq Server /\ db.index \subseteq Server
    BY TypeParts DEF AInv, IInv, PanelTyped, StoreTyped, Database
  <2> QED
    BY <2>1, <2>2 DEF IndexNow, HasNow, LacksNow
<1> QED
  BY <1>1, AgreementInvariant, PTL

\* Then the node's current server is the panel's, except after a delete, an
\* add_server that failed or a start that took it from the settings.
THEOREM CurrentHolds == Spec => []CurrentAgrees
<1>1. AInv => CurrentAgrees
  BY AgreedQuiet DEF AllNow, CurrentNow, CurrentAgrees
<1> QED
  BY <1>1, AgreementInvariant, PTL

\* Then the node has the filter of the panel's settings, however many requests
\* to set it overlapped.
THEOREM FilterHolds == Spec => []FilterAgrees
<1>1. AInv => FilterAgrees
  BY AgreedQuiet DEF AllNow, FilterNow, FilterAgrees
<1> QED
  BY <1>1, AgreementInvariant, PTL
=============================================================================

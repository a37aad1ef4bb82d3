------------------------------ MODULE Transfer ------------------------------
(***************************************************************************)
(* Files on their way to a node over one connection.  Either the panel's   *)
(* link carries them: upload handlers put them on the broadcast channel,   *)
(* where every other message for the node goes too, and the link writes a  *)
(* newline after each message.  Or another node moves its folder over a    *)
(* connection of its own.  The reader of the node is in one of two modes:  *)
(* lines of JSON, or the bytes of a file up to a delimiter.                *)
(*                                                                         *)
(* The stream is a sequence of symbols: a byte of a file, a newline, half  *)
(* of the delimiter, or a whole message in JSON.  Some bytes of a file may *)
(* read as half of the delimiter or as an end_file, as they do in a file   *)
(* that holds them: the reader cannot tell.  The node has no password, the *)
(* messages of the channel are JSON, and only one transfer at a time names *)
(* a file.                                                                 *)
(***************************************************************************)
EXTENDS Naturals, Sequences, FiniteSets

CONSTANTS
  File,        \* files that are sent
  Content,     \* [File -> Seq(Byte)]
  Raw,         \* the bytes that are not valid UTF-8
  Marks,       \* what the reader takes some bytes for, [bytes -> Symbol]
  Folders,     \* sets of files another node may move
  Uploader,    \* upload handlers, when the link carries
  FilesOf,     \* [Uploader -> Seq(File)]: the fields of each form
  Stored,      \* sets of files the node may have at the start
  Carriers,    \* subset of {"link", "move"}
  Commands,    \* bound: other messages for the node
  Capacity,    \* messages the broadcast channel keeps
  MaxBuffer,   \* symbols after which the reader clears its buffer
  Window,      \* symbols under way before a write has to wait
  MaxRead,     \* bound: symbols one read returns
  Faults,      \* bound: failures
  None

VARIABLES
  carrier,   \* what carries the files
  todo,      \* move: files collect_files found, not yet sent
  file,      \* by sender: the file it sends
  sent,      \* by sender: how much of it
  pc,        \* by sender: where it stands
  field,     \* by uploader: fields done
  chan,      \* the broadcast channel, as the link has still to receive it
  wire,      \* symbols on the connection
  closed,    \* the sender has closed the connection
  buf,       \* read_buf
  mode,      \* "json", or the file of ReadMode::File
  busy,      \* the inner loop runs
  disk,      \* the node's server directory
  handled,   \* commands the node has handled
  commands,  \* commands sent
  named,     \* history: the files the transfer names
  before,    \* history: the directory at the start
  faults,    \* history: failures so far
  spoilt     \* history: what has met the transfer, a set of these

sendVars == <<todo, file, sent, pc, field>>
nodeVars == <<buf, mode, busy, disk, handled>>
pastVars == <<carrier, named, before, commands, faults, spoilt>>
vars == <<sendVars, chan, wire, closed, nodeVars, pastVars>>

Spoils ==
  {"open", "read", "break", "abort", "lag", "overlap", "command", "overflow", "again"}

Byte == UNION {{Content[f][i] : i \in 1..Len(Content[f])} : f \in File}
Mover == "mover"
Sender == Uploader \cup {Mover}

\* Symbols of the stream.  A JSON message is one symbol.
Sym(k, v) == [kind |-> k, of |-> v]
Newline == Sym("newline", None)
Delimiter == <<Sym("delim1", None), Sym("delim2", None)>>
ReadAs(x) == IF x \in DOMAIN Marks THEN Marks[x] ELSE Sym("byte", x)
Data(s) == [i \in 1..Len(s) |-> ReadAs(s[i])]
Junk == Sym("junk", None)
JsonKinds == {"start", "end", "clean", "command"}
Symbol == [kind : JsonKinds \cup {"byte", "newline", "delim1", "delim2", "junk"},
           of : File \cup Byte \cup (0..Commands) \cup {None}]

ASSUME TransferAssumption ==
  /\ Content \in [File -> Seq(Byte)] /\ FilesOf \in [Uploader -> Seq(File) \ {<<>>}]
  /\ \A x \in DOMAIN Marks :
       Marks[x] \in {Delimiter[1], Delimiter[2]} \cup {Sym("end", f) : f \in File}
  /\ Folders \subseteq SUBSET File
  /\ None \notin File /\ Mover \notin Uploader /\ Carriers \subseteq {"link", "move"}
  /\ Commands \in Nat /\ Capacity \in Nat \ {0} /\ MaxBuffer \in Nat
  /\ Window \in Nat /\ MaxRead \in Nat /\ Faults \in Nat

Present == [is |-> "file", data |-> <<Sym("byte", None)>>]
Absent == [is |-> "absent", data |-> <<>>]
Directory == [is |-> "directory", data |-> <<>>]

\* The files of the forms.
Uploads == UNION {{FilesOf[u][i] : i \in 1..Len(FilesOf[u])} : u \in Uploader}

Init ==
  /\ carrier \in Carriers
  /\ named \in IF carrier = "move" THEN Folders ELSE {Uploads}
  /\ todo = IF carrier = "move" THEN named ELSE {}
  /\ file = [s \in Sender |-> None]
  /\ sent = [s \in Sender |-> 0]
  /\ pc = [s \in Sender |-> IF (s = Mover) = (carrier = "move") THEN "next" ELSE "done"]
  /\ field = [s \in Uploader |-> 0]
  /\ chan = <<>> /\ wire = <<>> /\ closed = FALSE
  /\ buf = <<>> /\ mode = None /\ busy = FALSE
  /\ \E S \in Stored : disk = [f \in File |-> IF f \in S THEN Present ELSE Absent]
  /\ handled = <<>>
  /\ commands = 0 /\ before = disk /\ faults = 0 /\ spoilt = {}

-----------------------------------------------------------------------------
(* send_folder_over_broadcast: another node moves its files.  Its channel   *)
(* is its own, and waits when full.                                        *)

Room == Len(wire) <= Window
Fault == faults < Faults /\ faults' = faults + 1
Fine == UNCHANGED <<faults, spoilt>>
MoverKeeps == UNCHANGED <<field, chan, nodeVars, carrier, named, before, commands>>

Size(f) == Len(Content[f])

\* The metadata of a file cannot be read: nothing is sent for it.
SkipFile(f) ==
  /\ pc[Mover] = "next" /\ f \in todo
  /\ Fault
  /\ todo' = todo \ {f}
  /\ UNCHANGED <<file, sent, pc, wire, closed, spoilt>> /\ MoverKeeps

SendStart(f) ==
  /\ pc[Mover] = "next" /\ f \in todo
  /\ Room
  /\ wire' = wire \o <<Sym("start", f), Newline>>
  /\ todo' = todo \ {f}
  /\ file' = [file EXCEPT ![Mover] = f]
  /\ sent' = [sent EXCEPT ![Mover] = 0]
  /\ pc' = [pc EXCEPT ![Mover] = IF Size(f) > 0 THEN "open" ELSE "end"]
  /\ UNCHANGED closed /\ Fine /\ MoverKeeps

Open ==
  /\ pc[Mover] = "open"
  /\ pc' = [pc EXCEPT ![Mover] = "data"]
  /\ UNCHANGED <<todo, file, sent, wire, closed>> /\ Fine /\ MoverKeeps

\* The file cannot be opened, but start_file is on its way.
OpenFails ==
  /\ pc[Mover] = "open"
  /\ Fault /\ spoilt' = spoilt \cup {"open"}
  /\ pc' = [pc EXCEPT ![Mover] = "next"]
  /\ UNCHANGED <<todo, file, sent, wire, closed>> /\ MoverKeeps

SendChunk ==
  /\ pc[Mover] = "data" /\ Room
  /\ \E n \in 1..(Size(file[Mover]) - sent[Mover]) :
       /\ wire' = wire \o Data(SubSeq(Content[file[Mover]], sent[Mover] + 1, sent[Mover] + n))
       /\ sent' = [sent EXCEPT ![Mover] = @ + n]
  /\ UNCHANGED <<todo, file, pc, closed>> /\ Fine /\ MoverKeeps

\* The sender gives up; its channel, and with it the connection, closes.
ReadFails ==
  /\ pc[Mover] = "data"
  /\ Fault /\ spoilt' = spoilt \cup {"read"}
  /\ pc' = [pc EXCEPT ![Mover] = "done"]
  /\ closed' = TRUE
  /\ UNCHANGED <<todo, file, sent, wire>> /\ MoverKeeps

SendEnd ==
  /\ \/ pc[Mover] = "end"
     \/ pc[Mover] = "data" /\ sent[Mover] = Size(file[Mover])
  /\ Room
  /\ wire' = wire \o <<Sym("end", file[Mover]), Newline>> \o Delimiter
  /\ pc' = [pc EXCEPT ![Mover] = "next"]
  /\ UNCHANGED <<todo, file, sent, closed>> /\ Fine /\ MoverKeeps

AllSent ==
  /\ pc[Mover] = "next" /\ todo = {}
  /\ pc' = [pc EXCEPT ![Mover] = "done"]
  /\ closed' = TRUE
  /\ UNCHANGED <<todo, file, sent, wire>> /\ Fine /\ MoverKeeps

\* The connection breaks: what is still on it is lost from some point on.
Breaks ==
  /\ carrier = "move" /\ ~closed
  /\ Fault /\ spoilt' = spoilt \cup {"break"}
  /\ \E n \in 0..Len(wire) : wire' = SubSeq(wire, 1, n)
  /\ closed' = TRUE
  /\ pc' = [pc EXCEPT ![Mover] = "done"]
  /\ UNCHANGED <<todo, file, sent>> /\ MoverKeeps

-----------------------------------------------------------------------------
(* send_multipart_over_broadcast: an upload handler puts a form's files on *)
(* the channel that everyone uses.                                         *)

\* A full channel forgets its oldest message; the link ignores the lag.  While
\* there is no link, nobody on this side of the node receives.
Full == Len(chan) >= Capacity
BroadcastUnbounded(m, spoils) ==
  /\ chan' = Append(chan, m)
  /\ spoilt' = spoilt \cup spoils
Broadcast(m, spoils) ==
  /\ chan' = IF closed THEN chan ELSE Append(IF Full THEN Tail(chan) ELSE chan, m)
  /\ spoilt' = spoilt \cup spoils \cup (IF Full THEN {"lag"} ELSE {})

UploadKeeps ==
  UNCHANGED <<todo, wire, closed, nodeVars, carrier, named, before, commands, faults>>

Uploading(u) == pc[u] # "done" /\ (pc[u] = "next" => field[u] > 0)

UploadStart(u) ==
  /\ pc[u] = "next"
  /\ LET f == FilesOf[u][field[u] + 1]
         others == {v \in Uploader \ {u} : Uploading(v)}
     IN  /\ Broadcast(<<Sym("start", f)>>, IF others = {} THEN {} ELSE {"overlap"})
         /\ file' = [file EXCEPT ![u] = f]
  /\ sent' = [sent EXCEPT ![u] = 0]
  /\ pc' = [pc EXCEPT ![u] = "data"]
  /\ UNCHANGED field /\ UploadKeeps

UploadChunk(u) ==
  /\ pc[u] = "data"
  /\ \E n \in 1..(Size(file[u]) - sent[u]) :
       /\ Broadcast(Data(SubSeq(Content[file[u]], sent[u] + 1, sent[u] + n)), {})
       /\ sent' = [sent EXCEPT ![u] = @ + n]
  /\ UNCHANGED <<file, pc, field>> /\ UploadKeeps

\* The field ends: a delimiter only if it had chunks.
UploadDelimiter(u) ==
  /\ pc[u] = "data" /\ sent[u] = Size(file[u]) /\ sent[u] > 0
  /\ Broadcast(Delimiter, {})
  /\ pc' = [pc EXCEPT ![u] = "end"]
  /\ UNCHANGED <<file, sent, field>> /\ UploadKeeps

UploadEnd(u) ==
  /\ pc[u] = "end" \/ (pc[u] = "data" /\ Size(file[u]) = 0)
  /\ Broadcast(<<Sym("end", file[u])>>, {})
  /\ field' = [field EXCEPT ![u] = @ + 1]
  /\ pc' = [pc EXCEPT ![u] = IF field'[u] = Len(FilesOf[u]) THEN "seal" ELSE "next"]
  /\ sent' = [sent EXCEPT ![u] = 0]
  /\ UNCHANGED file /\ UploadKeeps

\* Then, for every file: a delimiter and clean_file.  sent counts them.
UploadSeal(u) ==
  /\ pc[u] = "seal"
  /\ Broadcast(Delimiter, {})
  /\ pc' = [pc EXCEPT ![u] = "clean"]
  /\ UNCHANGED <<file, sent, field>> /\ UploadKeeps

UploadClean(u) ==
  /\ pc[u] = "clean"
  /\ Broadcast(<<Sym("clean", FilesOf[u][sent[u] + 1])>>, {})
  /\ sent' = [sent EXCEPT ![u] = @ + 1]
  /\ pc' = [pc EXCEPT ![u] = IF sent'[u] = field[u] THEN "done" ELSE "seal"]
  /\ UNCHANGED <<file, field>> /\ UploadKeeps

\* The browser goes away, or what it sends is not multipart: the handler gives
\* up at next_field or at chunk, and sends neither delimiter nor end_file.
UploadBreaks(u) ==
  /\ pc[u] \in {"next", "data"}
  /\ Fault /\ spoilt' = spoilt \cup {"abort"}
  /\ pc' = [pc EXCEPT ![u] = "done"]
  /\ UNCHANGED <<todo, file, sent, field, chan, wire, closed, nodeVars>>
  /\ UNCHANGED <<carrier, named, before, commands>>

\* Another handler sends the node something, or a line of the node comes
\* back to it: process_stream_data publishes it on the same channel.
Command ==
  /\ carrier = "link" /\ commands < Commands
  /\ commands' = commands + 1
  /\ Broadcast(<<Sym("command", commands')>>,
               IF \E u \in Uploader : Uploading(u) THEN {"command"} ELSE {})
  /\ UNCHANGED <<sendVars, wire, closed, nodeVars, carrier, named, before, faults>>

LinkWrites ==
  /\ chan # <<>> /\ Room
  /\ wire' = wire \o Head(chan) \o <<Newline>>
  /\ chan' = Tail(chan)
  /\ UNCHANGED <<sendVars, closed, nodeVars, pastVars>>

\* The panel's link ends, on an error of write_all or because its token was
\* cancelled: what is on the connection is lost from some point on, and what
\* its receiver had still to receive.
LinkEnds ==
  /\ carrier = "link" /\ ~closed
  /\ Fault /\ spoilt' = spoilt \cup {"break"}
  /\ \E n \in 0..Len(wire) : wire' = SubSeq(wire, 1, n)
  /\ chan' = <<>> /\ closed' = TRUE
  /\ UNCHANGED <<sendVars, nodeVars, carrier, named, before, commands>>

\* The panel links to the node again, by a new connection with a new receiver;
\* the node's reader of the old one has come to its end, and a new one begins.
LinkReturns ==
  /\ carrier = "link" /\ closed
  /\ wire = <<>> /\ ~busy
  /\ closed' = FALSE /\ buf' = <<>> /\ mode' = None
  /\ UNCHANGED <<sendVars, chan, wire, busy, disk, handled, pastVars>>

-----------------------------------------------------------------------------
(* The reader of the node: one task for the connection.                    *)

NodeKeeps == UNCHANGED <<sendVars, chan, closed, carrier, named, before, commands, faults>>

Read ==
  /\ ~busy
  /\ \E n \in 1..Len(wire) :
       /\ n <= MaxRead
       /\ wire' = SubSeq(wire, n + 1, Len(wire))
       /\ buf' = buf \o SubSeq(wire, 1, n)
  /\ busy' = TRUE
  /\ UNCHANGED <<mode, disk, handled, spoilt>> /\ NodeKeeps

\* MAX_BUFFER_SIZE: everything is thrown away.
Overflow ==
  /\ busy /\ Len(buf) > MaxBuffer
  /\ buf' = <<>> /\ mode' = None /\ busy' = FALSE
  /\ spoilt' = spoilt \cup {"overflow"}
  /\ UNCHANGED <<wire, disk, handled>> /\ NodeKeeps

Goes == busy /\ Len(buf) <= MaxBuffer /\ UNCHANGED wire

\* ReadMode::Json: up to the first newline.
HasLine == \E i \in 1..Len(buf) : buf[i] = Newline
LineEnd == CHOOSE i \in 1..Len(buf) :
             buf[i] = Newline /\ \A j \in 1..(i - 1) : buf[j] # Newline
Line == SubSeq(buf, 1, LineEnd - 1)
JsonLine(kind) == HasLine /\ Len(Line) = 1 /\ Line[1].kind = kind
Drained == SubSeq(buf, LineEnd + 1, Len(buf))

\* An empty line, a delimiter on a line of its own, and end_file are skipped.
SkipLine ==
  /\ Goes /\ mode = None /\ HasLine
  /\ Line = <<>> \/ Line = Delimiter \/ JsonLine("end")
  /\ buf' = Drained
  /\ UNCHANGED <<mode, busy, disk, handled, spoilt>> /\ NodeKeeps

\* What a file held, a command that met its upload too, is gone when the file
\* is sent again.
Occurs(c, s) == \E i \in 1..Len(s) : s[i] = Sym("command", c)
Replaces(f) == IF \E c \in 1..commands : Occurs(c, disk[f].data) THEN {"again"} ELSE {}

StartKeepsOld ==
  /\ Goes /\ mode = None /\ JsonLine("start")
  /\ disk[Line[1].of].is = "file"
  /\ mode' = Line[1].of
  /\ buf' = Drained
  /\ UNCHANGED <<disk, busy, handled, spoilt>> /\ NodeKeeps

\* start_file: create_dir_all on the path itself makes a new path a
\* directory, and a directory cannot be opened as a file.
StartFile ==
  /\ Goes /\ mode = None /\ JsonLine("start")
  /\ LET f == Line[1].of
     IN  /\ IF disk[f].is = "file"
              THEN /\ disk' = [disk EXCEPT ![f].data = <<>>]
                   /\ mode' = f
              ELSE /\ disk' = [disk EXCEPT ![f] = Directory]
                   /\ UNCHANGED mode
         /\ spoilt' = spoilt \cup Replaces(f)
  /\ buf' = Drained
  /\ UNCHANGED <<busy, handled>> /\ NodeKeeps

\* cleanup_end_file_markers: if the last message in the content is this
\* file's end_file, the file is cut there.  The place is an index into a
\* lossy decoding, too far behind once a byte was replaced.
CleanedNothing(f, s) == s
LastJson(s) == CHOOSE i \in 1..Len(s) :
                 s[i].kind \in JsonKinds /\ \A j \in (i + 1)..Len(s) : s[j].kind \notin JsonKinds
Cleaned(f, s) ==
  IF /\ \E i \in 1..Len(s) : s[i].kind \in JsonKinds
     /\ s[LastJson(s)] = Sym("end", f)
    THEN LET cut == SubSeq(s, 1, LastJson(s) - 1)
         IN  IF \E i \in 1..Len(cut) : cut[i].of \in Raw THEN Append(cut, Junk) ELSE cut
    ELSE s

CleanFile ==
  /\ Goes /\ mode = None /\ JsonLine("clean")
  /\ LET f == Line[1].of
     IN  disk' = IF disk[f].is = "file" THEN [disk EXCEPT ![f].data = Cleaned(f, @)] ELSE disk
  /\ buf' = Drained
  /\ UNCHANGED <<mode, busy, handled, spoilt>> /\ NodeKeeps

HandleUndrained ==
  /\ Goes /\ mode = None /\ JsonLine("command")
  /\ handled' = Append(handled, Line[1].of)
  /\ busy' = FALSE
  /\ UNCHANGED <<buf, mode, disk, spoilt>> /\ NodeKeeps

HandleCommand ==
  /\ Goes /\ mode = None /\ JsonLine("command")
  /\ handled' = Append(handled, Line[1].of)
  /\ buf' = Drained
  /\ UNCHANGED <<mode, busy, disk, spoilt>> /\ NodeKeeps

\* No whole line, or one that is not JSON: back to reading, and the line
\* stays at the head of the buffer.
Stops ==
  /\ Goes /\ mode = None
  /\ \/ ~HasLine
     \/ /\ HasLine /\ Line # <<>> /\ Line # Delimiter
        /\ \A k \in JsonKinds : ~JsonLine(k)
  /\ busy' = FALSE
  /\ UNCHANGED <<buf, mode, disk, handled, spoilt>> /\ NodeKeeps

\* ReadMode::File
DelimiterAt(i) == i < Len(buf) /\ SubSeq(buf, i, i + 1) = Delimiter
HasDelimiter == \E i \in 1..Len(buf) : DelimiterAt(i)
FirstDelimiter == CHOOSE i \in 1..Len(buf) :
                    DelimiterAt(i) /\ \A j \in 1..(i - 1) : ~DelimiterAt(j)
KeepNothing == 0
Keep == Len(Delimiter) + 1

FinishFile ==
  /\ Goes /\ mode # None /\ HasDelimiter
  /\ disk' = [disk EXCEPT ![mode].data =
                Cleaned(mode, @ \o SubSeq(buf, 1, FirstDelimiter - 1))]
  /\ buf' = SubSeq(buf, FirstDelimiter + 2, Len(buf))
  /\ mode' = None
  /\ UNCHANGED <<busy, handled, spoilt>> /\ NodeKeeps

WriteFile ==
  /\ Goes /\ mode # None /\ ~HasDelimiter
  /\ Len(buf) > Keep
  /\ LET n == Len(buf) - Keep
     IN  /\ disk' = [disk EXCEPT ![mode].data = @ \o SubSeq(buf, 1, n)]
         /\ buf' = SubSeq(buf, n + 1, Len(buf))
  /\ UNCHANGED <<mode, busy, handled, spoilt>> /\ NodeKeeps

AwaitsMore ==
  /\ Goes /\ mode # None /\ ~HasDelimiter
  /\ Len(buf) <= Keep
  /\ busy' = FALSE
  /\ UNCHANGED <<buf, mode, disk, handled, spoilt>> /\ NodeKeeps

-----------------------------------------------------------------------------
MoverStep ==
  \/ \E f \in File : SkipFile(f) \/ SendStart(f)
  \/ Open \/ OpenFails \/ SendChunk \/ ReadFails \/ SendEnd \/ AllSent \/ Breaks

UploadStep(u) ==
  \/ UploadStart(u) \/ UploadChunk(u) \/ UploadDelimiter(u) \/ UploadEnd(u)
  \/ UploadSeal(u) \/ UploadClean(u)

Process ==
  \/ Overflow
  \/ SkipLine \/ StartFile \/ CleanFile \/ HandleCommand \/ Stops
  \/ FinishFile \/ WriteFile \/ AwaitsMore

Next ==
  \/ MoverStep
  \/ \E u \in Uploader : UploadStep(u) \/ UploadBreaks(u)
  \/ Command
  \/ LinkWrites \/ LinkEnds \/ LinkReturns
  \/ Read
  \/ Process

Spec == Init /\ [][Next]_vars

\* The sender goes on while its disk works and the browser sends; the link
\* and the reader are tasks of their own.
FairSpec ==
  /\ Spec
  /\ WF_vars(MoverStep /\ Fine)
  /\ \A u \in Uploader : WF_vars(UploadStep(u))
  /\ WF_vars(LinkWrites) /\ WF_vars(Read) /\ WF_vars(Process)

-----------------------------------------------------------------------------
TypeOK ==
  /\ carrier \in Carriers /\ todo \subseteq named /\ named \subseteq File
  /\ file \in [Sender -> File \cup {None}] /\ sent \in [Sender -> Nat]
  /\ pc \in [Sender -> {"next", "open", "data", "end", "seal", "clean", "done"}]
  /\ field \in [Uploader -> Nat]
  /\ chan \in Seq(Seq(Symbol)) /\ wire \in Seq(Symbol) /\ closed \in BOOLEAN
  /\ Len(chan) <= Capacity
  /\ buf \in Seq(Symbol) /\ mode \in File \cup {None} /\ busy \in BOOLEAN
  /\ disk \in [File -> [is : {"file", "absent", "directory"}, data : Seq(Symbol)]]
  /\ mode # None => disk[mode].is = "file"
  /\ handled \in Seq(1..Commands) /\ commands \in 0..Commands
  /\ faults \in 0..Faults /\ spoilt \subseteq Spoils

\* Nothing is on its way any more.
Settled == (\A s \in Sender : pc[s] = "done") /\ chan = <<>> /\ wire = <<>> /\ ~busy

\* No byte of the file reads as anything else.
Innocent(f) == \A i \in 1..Size(f) : Content[f][i] \notin DOMAIN Marks

\* The files a transfer names were files at the node before it, none of them
\* holds a delimiter or an end_file, and only the last file of a form is empty.
Favourable ==
  /\ \A f \in named : before[f].is = "file" /\ Innocent(f)
  /\ \A u \in Uploader : \A i \in 1..(Len(FilesOf[u]) - 1) : Size(FilesOf[u][i]) > 0
IsRaw(f) == \E i \in 1..Size(f) : Content[f][i] \in Raw

\* The symbols of s are those of t, in their order, and newlines.
Spells(s, t) ==
  \E at \in [1..Len(t) -> 1..Len(s)] :
    /\ \A i, j \in 1..Len(t) : i < j => at[i] < at[j]
    /\ \A i \in 1..Len(t) : s[at[i]] = t[i]
    /\ \A k \in 1..Len(s) : s[k] = Newline \/ \E i \in 1..Len(t) : at[i] = k

\* A transfer to files the node has, that nothing else met, of files that hold
\* neither the delimiter nor an end_file, leaves each of them as the sender had
\* it, however the stream is cut into reads: a moved file exactly, unless its
\* bytes are not UTF-8, and an uploaded one up to the newlines the link adds to
\* its chunks (send_folder_over_broadcast, send_multipart_over_broadcast and the
\* two ReadModes).  A file that holds the delimiter arrives cut there: nothing
\* on the connection tells the two apart.
Arrives ==
  Settled /\ spoilt = {} /\ Favourable =>
    \A f \in named :
      \/ faults > 0 /\ disk[f] = before[f]
      \/ carrier = "move" /\ (~IsRaw(f) => disk[f].data = Data(Content[f]))
      \/ carrier = "link" /\ Spells(disk[f].data, Data(Content[f]))

\* Whenever a move stops, of files that hold neither the delimiter nor an
\* end_file, a file at the node is the old one or holds the first part of its
\* own content, and never a byte of another file: the sender may fail to read,
\* and the connection may break, at any point (only a file that cannot be opened
\* mixes two).
Whole(f) == Data(Content[f]) \o <<Sym("end", f), Newline>>
PartOf(s, t) == \E n \in 0..Len(t) : s = SubSeq(t, 1, n)
NeverMixed ==
  carrier = "move" /\ "open" \notin spoilt /\ (\A f \in named : Innocent(f)) =>
    \A f \in File :
      \/ disk[f] = before[f] \/ disk[f] = Directory
      \/ PartOf(disk[f].data, Whole(f))
      \/ IsRaw(f) /\ disk[f].data = Append(Data(Content[f]), Junk)

\* A command for the node is in one place: still under way, handled, or, if it
\* met an upload, an upload was given up or the link lost a delimiter, in the
\* uploaded file.  It vanishes only when the link lags, the link ends, with what
\* it had not sent and what was on the connection, or before it is back, the
\* reader's buffer overflows or the file that it is in is sent again.  Whatever
\* bytes the files hold.
Places(c) ==
  {<<"channel", i>> : i \in {j \in 1..Len(chan) : Occurs(c, chan[j])}}
  \cup {<<"wire", 0>> : w \in {v \in {wire} : Occurs(c, v)}}
  \cup {<<"buffer", 0>> : w \in {v \in {buf} : Occurs(c, v)}}
  \cup {<<"handled", i>> : i \in {j \in 1..Len(handled) : handled[j] = c}}
  \cup {<<"disk", f>> : f \in {g \in File : Occurs(c, disk[g].data)}}
CommandKept ==
  \A c \in 1..commands :
    /\ Cardinality(Places(c)) <= 1
    /\ Places(c) = {} => spoilt \cap {"lag", "break", "overflow", "again"} # {}
    /\ (\E f \in File : <<"disk", f>> \in Places(c)) =>
         spoilt \cap {"command", "abort", "lag"} # {}

\* The reader comes back to reading messages: after a transfer that nothing
\* met, to files the node has, of files that hold no delimiter, its buffer is
\* empty and its mode is Json.
Recovers ==
  <>(\/ Settled /\ mode = None /\ buf = <<>>
     \/ spoilt # {} \/ ~Favourable)
=============================================================================

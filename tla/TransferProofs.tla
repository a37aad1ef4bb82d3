--------------------------- MODULE TransferProofs ---------------------------
(***************************************************************************)
(* Proofs about Transfer, for every set of files and forms, every cut of   *)
(* the stream into reads, and every bound.                                 *)
(***************************************************************************)
EXTENDS Transfer, SequenceTheorems, FiniteSetTheorems, WellFoundedInduction, TLAPS

\* Symbols that name what their kind says.
Proper == {y \in Symbol : /\ y.kind \in {"start", "end", "clean"} => y.of \in File
                          /\ y.kind = "command" => y.of \in 1..Commands}
Entry == [is : {"file", "absent", "directory"}, data : Seq(Proper)]

\* The types, of the senders and of the rest, with where each sender stands.
SendT ==
  /\ carrier \in Carriers /\ todo \in SUBSET File /\ closed \in BOOLEAN
  /\ file \in [Sender -> File \cup {None}] /\ sent \in [Sender -> Nat]
  /\ pc \in [Sender -> {"next", "open", "data", "end", "seal", "clean", "done"}]
  /\ field \in [Uploader -> Nat]
  /\ carrier = "link" => pc[Mover] = "done"
  /\ carrier = "move" => commands = 0 /\ chan = <<>> /\ \A u \in Uploader : pc[u] = "done"
  /\ pc[Mover] \in {"next", "open", "data", "end", "done"}
  /\ pc[Mover] \in {"open", "data", "end"} =>
       file[Mover] \in File /\ sent[Mover] <= Size(file[Mover])
  /\ \A u \in Uploader :
       /\ pc[u] \in {"next", "data", "end", "seal", "clean", "done"}
       /\ pc[u] \in {"next", "data", "end"} => field[u] < Len(FilesOf[u])
       /\ pc[u] \in {"data", "end"} => file[u] \in File /\ sent[u] <= Size(file[u])
       /\ pc[u] \in {"seal", "clean"} => sent[u] < field[u] /\ field[u] <= Len(FilesOf[u])
NodeT ==
  /\ chan \in Seq(Seq(Proper)) /\ Len(chan) <= Capacity
  /\ wire \in Seq(Proper) /\ buf \in Seq(Proper)
  /\ mode \in File \cup {None} /\ busy \in BOOLEAN
  /\ disk \in [File -> Entry] /\ before \in [File -> Entry]
  /\ mode # None => disk[mode].is = "file"
  /\ handled \in Seq(1..Commands) /\ commands \in 0..Commands
  /\ faults \in 0..Faults /\ spoilt \in SUBSET Spoils
TInv == SendT /\ NodeT

\* The files that a transfer names, and a link that has ended.
NameT ==
  /\ named \in SUBSET File /\ todo \in SUBSET named
  /\ carrier = "link" => named = Uploads
  /\ pc[Mover] \in {"open", "data", "end"} => file[Mover] \in named
  /\ carrier = "link" /\ closed => chan = <<>> /\ "break" \in spoilt

\* What the reader has still to take, the broadcast channel apart.
Rest == buf \o wire

-----------------------------------------------------------------------------
(* A move.  What follows a start_file on the connection, up to the          *)
(* delimiter.  The reader has still to take it from position k on, where d *)
(* symbols of it are gone, as far as the sender has come with it.          *)

Body(f) == <<Newline>> \o Whole(f) \o Delimiter
Lost == spoilt \cap {"read", "break"} # {}
InHand(f, n) ==
  file[Mover] = f /\ pc[Mover] \in {"open", "data", "end"} /\ n = 1 + sent[Mover]
Fits(f, s, k, d) ==
  \A i \in (k + 1)..Len(s) : d + (i - k) <= Len(Body(f)) => s[i] = Body(f)[d + (i - k)]
Tracks(f, k, d) ==
  /\ f \in named
  /\ Fits(f, Rest, k, d)
  /\ LET n == d + (Len(Rest) - k)
     IN  n >= Len(Body(f)) \/ Lost \/ InHand(f, n)

Mixes(f) ==
  /\ disk[f] # before[f] /\ disk[f] # Directory
  /\ ~PartOf(disk[f].data, Whole(f))
  /\ ~(IsRaw(f) /\ disk[f].data = Append(Data(Content[f]), Junk))

Moving == carrier = "move" /\ "open" \notin spoilt /\ \A f \in named : Innocent(f)
Comes(i) ==
  /\ Rest[i].kind \notin {"clean", "command"}
  /\ Rest[i].kind = "start" => Tracks(Rest[i].of, i, 0)
MInv ==
  Moving =>
    /\ Lost => pc[Mover] = "done"
    /\ pc[Mover] = "end" => Size(file[Mover]) = 0
    /\ \A i \in 1..Len(Rest) : Comes(i)
    /\ mode # None => /\ PartOf(disk[mode].data, Whole(mode))
                      /\ Tracks(mode, 0, 1 + Len(disk[mode].data))
    /\ \A f \in File : ~Mixes(f)

-----------------------------------------------------------------------------
(* A move that nothing meets, to files the node has.  A file of the panel   *)
(* is still to be sent or was skipped, is on its way, or has arrived.  What *)
(* follows a file on the connection is the next start_file; a reader that   *)
(* waits for more has nothing whole before it.                              *)

Calm == carrier = "move" /\ spoilt = {} /\ \A f \in named : before[f].is = "file" /\ Innocent(f)
Sending == pc[Mover] \in {"open", "data", "end"}
Joins(f, k, d) ==
  LET n == d + (Len(Rest) - k)
      m == Len(Body(f))
  IN  \/ InHand(f, n)
      \/ n = m /\ ~Sending
      \/ n > m /\ Rest[k + (m - d) + 1].kind = "start"
Begins(f) == \E i \in 1..Len(Rest) : Rest[i].kind = "start" /\ Rest[i].of = f
Still(f) == disk[f] = before[f] /\ mode # f /\ ~Begins(f)
Arrived(f) == ~IsRaw(f) => disk[f].data = Data(Content[f])
Joined ==
  /\ mode = None => IF Len(Rest) = 0 THEN ~Sending ELSE Rest[1].kind = "start"
  /\ mode # None => Joins(mode, 0, 1 + Len(disk[mode].data))
  /\ \A i \in 1..Len(Rest) : Rest[i].kind = "start" => Joins(Rest[i].of, i, 0)
Quiet == IF mode = None THEN Len(buf) <= 1 ELSE ~HasDelimiter
Accounted ==
  \A f \in named :
    /\ f \in todo => Still(f)
    /\ \/ Still(f) /\ (f \in todo \/ faults > 0)
       \/ mode = f \/ Begins(f) \/ Arrived(f)
AInv ==
  Calm =>
    /\ \A f \in named : disk[f].is = "file"
    /\ pc[Mover] = "done" => todo = {}
    /\ ~busy => Quiet
    /\ Joined
    /\ Accounted

-----------------------------------------------------------------------------
(* An upload that nothing meets, to files the node has.  A reader of the    *)
(* stream stands at a line, after the first half of a delimiter or after a  *)
(* message in it, after a start_file, in the data of a file, n bytes of it  *)
(* behind, after the end_file of an empty file, or between the halves of a  *)
(* file's delimiter; done are the files that were finished and not started  *)
(* again.  What is under way leads from where the reader stands to where    *)
(* the handler stands that uploads.                                         *)

Undisturbed == carrier = "link" /\ spoilt = {} /\ Favourable

Station == {"line", "half", "said", "start", "data", "over", "closing"}
Stand == [at : Station, of : File \cup {None}, n : Nat, done : SUBSET File]
InFile(s) == s.at \in {"data", "over"}
Ends(s) == s.at = "over" \/ (s.at = "data" /\ s.n = Size(s.of) /\ s.n > 0)

\* A symbol takes a stand to another one: only to another place, or with the
\* start, a byte or the end of a file too.
Turns(s, y, t) ==
  \/ s.at = "line" /\ y = Newline /\ t.at = "line"
  \/ s.at = "line" /\ y = Delimiter[1] /\ t.at = "half"
  \/ s.at = "half" /\ y = Delimiter[2] /\ t.at = "said"
  \/ s.at = "line" /\ y.kind \in {"end", "command"} /\ t.at = "said"
  \/ s.at = "line" /\ y.kind = "clean" /\ y.of \in s.done /\ t.at = "said"
  \/ s.at = "said" /\ y = Newline /\ t.at = "line"
  \/ s.at = "start" /\ y = Newline /\ t.at = "data"
  \/ s.at = "data" /\ y = Newline /\ s.n > 0 /\ t.at = "data"
  \/ s.at = "data" /\ Size(s.of) = 0 /\ s.n = 0 /\ y = Sym("end", s.of) /\ t.at = "over"
  \/ s.at = "over" /\ y = Newline /\ t.at = "over"
  \/ Ends(s) /\ y = Delimiter[1] /\ t.at = "closing"
Passes(s, y, t) ==
  \/ Turns(s, y, t) /\ t.of = s.of /\ t.n = s.n /\ t.done = s.done
  \/ /\ s.at = "line" /\ y.kind = "start" /\ y.of \in Uploads /\ t.at = "start"
     /\ t.of = y.of /\ t.n = 0 /\ t.done = s.done \ {y.of}
  \/ /\ s.at = "data" /\ s.n < Size(s.of) /\ y = Sym("byte", Content[s.of][s.n + 1])
     /\ t.at = "data" /\ t.of = s.of /\ t.n = s.n + 1 /\ t.done = s.done
  \/ /\ s.at = "closing" /\ y = Delimiter[2]
     /\ t.at = "line" /\ t.done = s.done \cup {s.of}

\* The stands along a stretch of the stream.
Walk(W, m) == /\ W \in [0..Len(m) -> Stand]
              /\ \A i \in 1..Len(m) : Passes(W[i - 1], m[i], W[i])
Leads(s, m, t) == \E W : Walk(W, m) /\ W[0] = s /\ W[Len(m)] = t

\* What an open file holds at a stand.
Holds(s, w) ==
  \/ /\ w.at = "data" /\ Innocent(w.of) /\ w.n <= Size(w.of) /\ (w.n = 0 => s = <<>>)
     /\ Spells(s, Data(SubSeq(Content[w.of], 1, w.n)))
  \/ /\ w.at = "over" /\ Size(w.of) = 0
     /\ s # <<>> /\ s[1] = Sym("end", w.of) /\ \A i \in 2..Len(s) : s[i] = Newline

\* The node is as a reader at p leaves it: the file it is in holds what was read
\* of it, and the finished ones what was sent.
AtReader(p) ==
  /\ p \in Stand
  /\ IF mode = None THEN p.at = "line"
                    ELSE p.of = mode /\ mode \notin p.done /\ Holds(disk[mode].data, p)
  /\ \A f \in p.done : Innocent(f) /\ Spells(disk[f].data, Data(Content[f]))

\* A reader of all that was sent would be at q: it has finished the fields done,
\* the last perhaps up to its delimiter, and is where the one handler is that
\* uploads.
AtSender(q) ==
  /\ \A u \in Uploader : \A i \in 1..field[u] :
       FilesOf[u][i] \in q.done \/ (q.at # "line" /\ q.of = FilesOf[u][i])
  /\ (\A u \in Uploader : ~Uploading(u)) => q.at = "line"
  /\ \A u \in Uploader : Uploading(u) =>
       /\ \A v \in Uploader : Uploading(v) => v = u
       /\ pc[u] = "data" => q.at = "data" /\ q.of = file[u] /\ q.n = sent[u]
       /\ pc[u] = "end" => file[u] \in q.done
       /\ \/ pc[u] = "data" \/ q.at = "line"
          \/ pc[u] = "seal" /\ sent[u] = 0 /\ q.at = "over" /\ q.of \in File

\* The stands between the messages of the channel.
Whither(Q) ==
  /\ Q \in [0..Len(chan) -> Stand] /\ AtSender(Q[Len(chan)])
  /\ \A k \in 1..Len(chan) : Leads(Q[k - 1], chan[k] \o <<Newline>>, Q[k])

\* A reader that waits has no whole line, or no delimiter, before it.
UInv ==
  Undisturbed =>
    /\ \A f \in Uploads : disk[f].is = "file"
    /\ \A u \in Uploader :
         /\ pc[u] \in {"seal", "clean", "done"} => field[u] = Len(FilesOf[u])
         /\ pc[u] \in {"data", "end"} => file[u] = FilesOf[u][field[u] + 1]
    /\ ~busy => IF mode = None THEN ~HasLine ELSE ~HasDelimiter
    /\ \E p, Q : AtReader(p) /\ Whither(Q) /\ Leads(p, Rest, Q[0])

-----------------------------------------------------------------------------
(* Commands. *)

Cmd(c) == Sym("command", c)
Off(c) ==
  {<<"handled", i>> : i \in {j \in 1..Len(handled) : handled[j] = c}}
  \cup {<<"disk", f>> : f \in {g \in File : Occurs(c, disk[g].data)}}
Spots(c) ==
  {<<"rest", i>> : i \in {j \in 1..Len(Rest) : Rest[j] = Cmd(c)}}
  \cup {<<"chan", i>> : i \in {j \in 1..Len(chan) : Occurs(c, chan[j])}}
  \cup Off(c)
Gone == spoilt \cap {"lag", "break", "overflow", "again"} # {}

\* A command or a start_file is a message of its own.
Single == \A m \in 1..Len(chan) : \A i \in 1..Len(chan[m]) :
            chan[m][i].kind \in {"start", "command"} => Len(chan[m]) = 1

OInv ==
  /\ Single
  /\ \A c \in Nat \ {0} : c > commands => Spots(c) = {}
  /\ \A c \in Nat \ {0} : \A p, q \in Spots(c) : p = q
  /\ \A c \in 1..commands : Gone \/ Spots(c) # {}

\* Between the start of a file and a command that no upload met there is a
\* delimiter.  It is on the connection, in the channel or owed by an upload.
Started(i) == IF i = 0 THEN mode # None ELSE Rest[i].kind = "start"
Mark(l) == /\ l \in 1..Len(Rest) /\ l + 1 \in 1..Len(Rest)
           /\ Rest[l] = Delimiter[1] /\ Rest[l + 1] = Delimiter[2]
Parted(i, j) == \E l \in 1..Len(Rest) : Mark(l) /\ i < l /\ l + 1 < j
Owes(u) == pc[u] \in {"data", "end", "seal"} \/ (pc[u] = "next" /\ field[u] > 0)
IsKind(m, k) == \E i \in 1..Len(m) : m[i].kind = k
Awaits(k) ==
  /\ (\E l \in 1..Len(chan) : k < l /\ chan[l] = Delimiter) \/ \E u \in Uploader : Owes(u)
  /\ \A m \in 1..Len(chan) : k < m /\ IsKind(chan[m], "command") =>
       \E l \in 1..Len(chan) : k < l /\ l < m /\ chan[l] = Delimiter
Unmet == carrier = "link" /\ spoilt \cap {"command", "abort", "lag"} = {}
Apart ==
  \A i \in 0..Len(Rest) : Started(i) =>
    /\ \A j \in 1..Len(Rest) : i < j /\ Rest[j].kind = "command" => Parted(i, j)
    /\ closed \/ Parted(i, Len(Rest) + 1) \/ Awaits(0)
DInv ==
  Unmet => /\ \A f \in File : \A c \in 1..Commands : ~Occurs(c, disk[f].data)
           /\ Apart
           /\ \A k \in 1..Len(chan) : IsKind(chan[k], "start") => Awaits(k)

-----------------------------------------------------------------------------
(* The operators of the model. *)

LEMMA Least ==
  ASSUME NEW S \in SUBSET Nat, S # {}
  PROVE  \E m \in S : \A j \in S : m <= j
<1> DEFINE R == {ss \in Nat \X Nat : ss[1] < ss[2]}
<1>1. IsWellFoundedOn(R, Nat)
  BY NatLessThanWellFounded DEF OpToRel
<1>2. PICK m \in S : \A j \in S : ~(<<j, m>> \in R)
  <2> HIDE DEF R
  <2> QED
    BY <1>1, WFMin, Zenon
<1>3. \A j \in S : ~(j < m)
  BY <1>2
<1> QED
  BY <1>3

\* The first newline, the first delimiter and the last message are where their
\* names say.
LEMMA FirstLine ==
  ASSUME NEW S, buf \in Seq(S), HasLine
  PROVE  /\ LineEnd \in 1..Len(buf) /\ buf[LineEnd] = Newline
         /\ \A j \in 1..(LineEnd - 1) : buf[j] # Newline
<1> DEFINE T == {i \in 1..Len(buf) : buf[i] = Newline}
<1>1. Len(buf) \in Nat /\ T \in SUBSET Nat /\ T # {}
  BY LenProperties DEF HasLine
<1>2. PICK m \in T : \A j \in T : m <= j
  BY <1>1, Least
<1>3. \A j \in 1..(m - 1) : j \in 1..Len(buf) /\ ~(m <= j)
  BY <1>1, <1>2
<1>4. m \in 1..Len(buf) /\ buf[m] = Newline /\ \A j \in 1..(m - 1) : buf[j] # Newline
  BY <1>2, <1>3
<1> HIDE DEF T
<1> QED
  BY <1>4 DEF LineEnd

LEMMA FirstMark ==
  ASSUME NEW S, buf \in Seq(S), HasDelimiter
  PROVE  /\ FirstDelimiter \in 1..Len(buf) /\ DelimiterAt(FirstDelimiter)
         /\ \A j \in 1..(FirstDelimiter - 1) : ~DelimiterAt(j)
<1> DEFINE T == {i \in 1..Len(buf) : DelimiterAt(i)}
<1>1. Len(buf) \in Nat /\ T \in SUBSET Nat /\ T # {}
  BY LenProperties DEF HasDelimiter
<1>2. PICK m \in T : \A j \in T : m <= j
  BY <1>1, Least
<1>3. \A j \in 1..(m - 1) : j \in 1..Len(buf) /\ ~(m <= j)
  BY <1>1, <1>2
<1>4. m \in 1..Len(buf) /\ DelimiterAt(m) /\ \A j \in 1..(m - 1) : ~DelimiterAt(j)
  BY <1>2, <1>3
<1> HIDE DEF T
<1> QED
  BY <1>4 DEF FirstDelimiter

LEMMA LastMessage ==
  ASSUME NEW S, NEW s \in Seq(S), \E i \in 1..Len(s) : s[i].kind \in JsonKinds
  PROVE  /\ LastJson(s) \in 1..Len(s) /\ s[LastJson(s)].kind \in JsonKinds
         /\ \A j \in (LastJson(s) + 1)..Len(s) : s[j].kind \notin JsonKinds
<1> DEFINE J(i) == s[i].kind \in JsonKinds
           n == Len(s)
           T == {i \in 0..(n - 1) : J(n - i)}
<1>1. n \in Nat
  BY LenProperties
<1>2. PICK i \in 1..n : J(i)
  OBVIOUS
<1> HIDE DEF J, n
<1>3. T \in SUBSET Nat /\ T # {}
  <2>1. n - i \in 0..(n - 1) /\ n - (n - i) = i
    BY <1>1
  <2> QED
    BY <1>2, <2>1
<1>4. PICK m \in T : \A j \in T : m <= j
  BY <1>3, Least
<1>5. n - m \in 1..n /\ J(n - m)
  BY <1>1, <1>4
<1>6. ASSUME NEW j \in (n - m + 1)..n PROVE ~J(j)
  <2>1. n - j \in 0..(n - 1) /\ n - (n - j) = j /\ ~(m <= n - j)
    BY <1>1, <1>4
  <2> QED
    BY <1>4, <2>1
<1>7. \E k \in 1..n : J(k) /\ \A j \in (k + 1)..n : ~J(j)
  BY <1>5, <1>6
<1> QED
  BY <1>7 DEF LastJson, J, n

-----------------------------------------------------------------------------
(* Types. *)

LEMMA Symbols ==
  /\ Newline \in Proper /\ Junk \in Proper
  /\ Delimiter \in Seq(Proper) /\ Len(Delimiter) = 2
  /\ Delimiter[1] = Sym("delim1", None) /\ Delimiter[2] = Sym("delim2", None)
  /\ \A f \in File : \A k \in {"start", "end", "clean"} : Sym(k, f) \in Proper
  /\ \A c \in 1..Commands : Sym("command", c) \in Proper
  /\ \A y \in Byte : Sym("byte", y) \in Proper
<1>1. 1..Commands \subseteq 0..Commands
  BY TransferAssumption
<1>2. Sym("delim1", None) \in Proper /\ Sym("delim2", None) \in Proper
  BY DEF Sym, Proper, Symbol, JsonKinds
<1>3. Delimiter \in Seq(Proper) /\ Len(Delimiter) = 2
      /\ Delimiter[1] = Sym("delim1", None) /\ Delimiter[2] = Sym("delim2", None)
  BY <1>2 DEF Delimiter
<1> QED
  BY <1>1, <1>3 DEF Newline, Junk, Sym, Proper, Symbol, JsonKinds

\* What the bytes of a file read as.
DataKinds == {"byte", "delim1", "delim2", "end"}
LEMMA Readings ==
  ASSUME NEW x \in Byte
  PROVE  ReadAs(x) \in Proper /\ ReadAs(x).kind \in DataKinds
<1>1. CASE x \in DOMAIN Marks
  <2>1. Marks[x] \in {Delimiter[1], Delimiter[2]} \cup {Sym("end", f) : f \in File}
    BY <1>1, TransferAssumption
  <2>2. \A y \in {Delimiter[1], Delimiter[2]} : y \in Proper /\ y.kind \in DataKinds
    BY Symbols DEF Sym, DataKinds
  <2>3. \A f \in File : Sym("end", f) \in Proper /\ Sym("end", f).kind \in DataKinds
    BY Symbols DEF Sym, DataKinds
  <2>4. ReadAs(x) = Marks[x]
    BY <1>1 DEF ReadAs
  <2> QED
    BY <2>1, <2>2, <2>3, <2>4
<1>2. CASE x \notin DOMAIN Marks
  BY <1>2, Symbols DEF ReadAs, Sym, DataKinds
<1> QED
  BY <1>1, <1>2

LEMMA Chunks ==
  ASSUME NEW f \in File, NEW i \in Nat, NEW j \in Nat, i <= j, j <= Size(f)
  PROVE  LET s == Data(SubSeq(Content[f], i + 1, j))
         IN  /\ s \in Seq(Proper) /\ Len(s) = j - i
             /\ \A l \in 1..Len(s) : s[l].kind \in DataKinds
             /\ Innocent(f) => \A l \in 1..Len(s) : s[l] = Sym("byte", Content[f][i + l])
<1> DEFINE t == SubSeq(Content[f], i + 1, j)
<1>1. Content[f] \in Seq(Byte) /\ Size(f) = Len(Content[f]) /\ Len(Content[f]) \in Nat
  BY TransferAssumption, LenProperties DEF Size
<1>2. t \in Seq(Byte) /\ Len(t) = j - i /\ \A l \in 1..(j - i) : t[l] = Content[f][i + l]
  <2>1. i + 1 \in 1..(Len(Content[f]) + 1) /\ j \in i..Len(Content[f])
    BY <1>1
  <2> QED
    BY <1>1, <2>1, SubSeqProperties
<1> HIDE DEF t
<1>3. Data(t) \in Seq(Proper) /\ Len(Data(t)) = Len(t)
      /\ \A l \in 1..Len(t) : Data(t)[l] = ReadAs(t[l]) /\ ReadAs(t[l]).kind \in DataKinds
  <2>1. Len(t) \in Nat /\ \A l \in 1..Len(t) : t[l] \in Byte
    BY <1>2, LenProperties, ElementOfSeq
  <2>2. \A l \in 1..Len(t) : ReadAs(t[l]) \in Proper /\ ReadAs(t[l]).kind \in DataKinds
    BY <2>1, Readings
  <2> QED
    BY <2>1, <2>2, IsASeq DEF Data
<1>4. ASSUME Innocent(f), NEW l \in 1..(j - i)
      PROVE  ReadAs(t[l]) = Sym("byte", Content[f][i + l])
  <2>1. i + l \in 1..Size(f) /\ t[l] = Content[f][i + l]
    BY <1>1, <1>2
  <2> QED
    BY <1>4, <2>1 DEF Innocent, ReadAs
<1> QED
  BY <1>2, <1>3, <1>4 DEF t

LEMMA CleanedType ==
  ASSUME NEW f \in File, NEW s \in Seq(Proper)
  PROVE  Cleaned(f, s) \in Seq(Proper)
<1>1. CASE \E i \in 1..Len(s) : s[i].kind \in JsonKinds
  <2>1. LastJson(s) \in 1..Len(s) /\ Len(s) \in Nat
    BY <1>1, LastMessage, LenProperties
  <2> DEFINE cut == SubSeq(s, 1, LastJson(s) - 1)
  <2>2. cut \in Seq(Proper)
    BY <2>1, SubSeqProperties
  <2>3. Append(cut, Junk) \in Seq(Proper)
    BY <2>2, Symbols, AppendProperties
  <2> QED
    BY <2>2, <2>3 DEF Cleaned
<1>2. CASE ~\E i \in 1..Len(s) : s[i].kind \in JsonKinds
  BY <1>2 DEF Cleaned
<1> QED
  BY <1>1, <1>2

LEMMA Cuts ==
  ASSUME NEW S, NEW s \in Seq(S), NEW n \in 0..Len(s)
  PROVE  /\ Len(s) \in Nat /\ n \in Nat
         /\ SubSeq(s, 1, n) \in Seq(S) /\ Len(SubSeq(s, 1, n)) = n
         /\ \A i \in 1..n : SubSeq(s, 1, n)[i] = s[i]
         /\ SubSeq(s, n + 1, Len(s)) \in Seq(S) /\ Len(SubSeq(s, n + 1, Len(s))) = Len(s) - n
         /\ \A i \in 1..(Len(s) - n) : SubSeq(s, n + 1, Len(s))[i] = s[n + i]
<1>1. Len(s) \in Nat /\ n \in Nat
  BY LenProperties
<1>2. \A i \in 1..n : i \in 1..Len(s)
  BY <1>1
<1>3. \A i \in (n + 1)..Len(s) : i \in 1..Len(s)
  BY <1>1
<1>4. SubSeq(s, 1, n) \in Seq(S) /\ Len(SubSeq(s, 1, n)) = n
      /\ \A i \in 1..n : SubSeq(s, 1, n)[i] = s[i]
  BY <1>1, <1>2, SubSeqProperties
<1>5. SubSeq(s, n + 1, Len(s)) \in Seq(S) /\ Len(SubSeq(s, n + 1, Len(s))) = Len(s) - n
      /\ \A i \in 1..(Len(s) - n) : SubSeq(s, n + 1, Len(s))[i] = s[n + i]
  BY <1>1, <1>3, SubSeqProperties
<1> QED
  BY <1>1, <1>4, <1>5

LEMMA SizeNat ==
  ASSUME NEW f \in File PROVE Size(f) \in Nat
  BY TransferAssumption, LenProperties DEF Size

\* A step of the sender of a move changes what the types of the others do not
\* depend on.
LEMMA MoverT ==
  ASSUME TInv, MoverStep
  PROVE  TInv'
<1>1. /\ SendT /\ NodeT /\ Mover \in Sender /\ Mover \notin Uploader /\ Uploader \subseteq Sender
  BY TransferAssumption DEF TInv, Sender
<1>2. UNCHANGED <<field, chan, nodeVars, carrier, before, commands>>
  BY DEF MoverStep, SkipFile, SendStart, Open, OpenFails, SendChunk, ReadFails, SendEnd,
         AllSent, Breaks, MoverKeeps
<1>3. ASSUME wire' \in Seq(Proper), faults' \in 0..Faults, spoilt' \in SUBSET Spoils
      PROVE  NodeT'
  BY <1>1, <1>2, <1>3 DEF NodeT, nodeVars
<1>4. ASSUME todo' \in SUBSET File, closed' \in BOOLEAN, carrier = "move",
             NEW x \in File \cup {None}, file' = [file EXCEPT ![Mover] = x],
             NEW n \in Nat, sent' = [sent EXCEPT ![Mover] = n],
             NEW p \in {"next", "open", "data", "end", "done"}, pc' = [pc EXCEPT ![Mover] = p],
             p \in {"open", "data", "end"} => x \in File /\ n <= Size(x)
      PROVE  SendT'
  <2>1. /\ file' \in [Sender -> File \cup {None}] /\ sent' \in [Sender -> Nat]
        /\ pc' \in [Sender -> {"next", "open", "data", "end", "seal", "clean", "done"}]
    BY <1>1, <1>4 DEF SendT
  <2>2. pc'[Mover] = p /\ file'[Mover] = x /\ sent'[Mover] = n
    BY <1>1, <1>4 DEF SendT
  <2>3. \A u \in Uploader : pc'[u] = pc[u] /\ file'[u] = file[u] /\ sent'[u] = sent[u]
    BY <1>1, <1>4 DEF SendT
  <2> QED
    BY <1>1, <1>2, <1>4, <2>1, <2>2, <2>3 DEF SendT
<1>5. /\ pc[Mover] # "done" => carrier = "move"
      /\ file = [file EXCEPT ![Mover] = file[Mover]] /\ sent = [sent EXCEPT ![Mover] = sent[Mover]]
      /\ pc = [pc EXCEPT ![Mover] = pc[Mover]]
      /\ file[Mover] \in File \cup {None} /\ sent[Mover] \in Nat
      /\ pc[Mover] \in {"next", "open", "data", "end", "done"}
      /\ pc[Mover] \in {"open", "data", "end"} =>
           file[Mover] \in File /\ sent[Mover] <= Size(file[Mover])
      /\ todo \in SUBSET File /\ closed \in BOOLEAN
      /\ wire \in Seq(Proper) /\ spoilt \in SUBSET Spoils /\ faults \in 0..Faults
  BY <1>1, TransferAssumption DEF SendT, NodeT
<1>6. (Fine \/ Fault) /\ spoilt' \in SUBSET Spoils => faults' \in 0..Faults
  BY <1>5, TransferAssumption DEF Fine, Fault
<1>7. ASSUME NEW f \in File, SkipFile(f) PROVE TInv'
  BY <1>3, <1>4, <1>5, <1>6, <1>7 DEF SkipFile, TInv
<1>8. ASSUME NEW f \in File, SendStart(f) PROVE TInv'
  <2>1. wire \o <<Sym("start", f), Newline>> \in Seq(Proper)
    <3>1. <<Sym("start", f), Newline>> \in Seq(Proper)
      BY Symbols
    <3> QED
      BY <1>5, <3>1, ConcatProperties
  <2>2. wire' \in Seq(Proper) /\ Fine /\ UNCHANGED closed /\ todo' \in SUBSET File /\ carrier = "move"
    BY <1>5, <1>8, <2>1 DEF SendStart
  <2>3. NodeT'
    BY <1>3, <1>5, <1>6, <2>2 DEF Fine
  <2> DEFINE p == IF Size(f) > 0 THEN "open" ELSE "end"
  <2>4. p \in {"next", "open", "data", "end", "done"} /\ 0 <= Size(f)
    BY SizeNat
  <2>5. SendT'
    BY <1>4, <1>5, <1>8, <2>2, <2>4 DEF SendStart
  <2> QED
    BY <2>3, <2>5 DEF TInv
<1>9. CASE Open
  BY <1>3, <1>4, <1>5, <1>6, <1>9 DEF Open, TInv, Fine
<1>10. CASE OpenFails
  <2>1. spoilt' \in SUBSET Spoils
    BY <1>5, <1>10 DEF OpenFails, Spoils
  <2> QED
    BY <1>3, <1>4, <1>5, <1>6, <1>10, <2>1 DEF OpenFails, TInv
<1>11. CASE SendChunk
  <2>1. PICK n \in 1..(Size(file[Mover]) - sent[Mover]) :
          /\ wire' = wire \o Data(SubSeq(Content[file[Mover]], sent[Mover] + 1, sent[Mover] + n))
          /\ sent' = [sent EXCEPT ![Mover] = @ + n]
    BY <1>11 DEF SendChunk
  <2>2. /\ pc[Mover] = "data" /\ file[Mover] \in File /\ Size(file[Mover]) \in Nat
        /\ UNCHANGED <<todo, file, pc, closed>> /\ Fine
    BY <1>5, <1>11, SizeNat DEF SendChunk
  <2>3. sent[Mover] + n \in Nat /\ sent[Mover] <= sent[Mover] + n
        /\ sent[Mover] + n <= Size(file[Mover])
    BY <1>5, <2>2
  <2>4. wire' \in Seq(Proper)
    BY <1>5, <2>1, <2>2, <2>3, Chunks, ConcatProperties
  <2>5. NodeT'
    BY <1>3, <1>5, <1>6, <2>2, <2>4 DEF Fine
  <2>6. sent' = [sent EXCEPT ![Mover] = sent[Mover] + n]
    BY <2>1
  <2>7. SendT'
    BY <1>4, <1>5, <2>2, <2>3, <2>6
  <2> QED
    BY <2>5, <2>7 DEF TInv
<1>12. CASE ReadFails
  <2>1. spoilt' \in SUBSET Spoils
    BY <1>5, <1>12 DEF ReadFails, Spoils
  <2> QED
    BY <1>3, <1>4, <1>5, <1>6, <1>12, <2>1 DEF ReadFails, TInv
<1>13. CASE SendEnd
  <2>1. pc[Mover] \in {"end", "data"} /\ file[Mover] \in File
    BY <1>5, <1>13 DEF SendEnd
  <2>2. wire \o <<Sym("end", file[Mover]), Newline>> \in Seq(Proper)
    <3>1. <<Sym("end", file[Mover]), Newline>> \in Seq(Proper)
      BY <2>1, Symbols
    <3> QED
      BY <1>5, <3>1, ConcatProperties
  <2>3. wire' \in Seq(Proper)
    BY <1>13, <2>2, Symbols, ConcatProperties DEF SendEnd
  <2>4. NodeT'
    BY <1>3, <1>5, <1>6, <1>13, <2>3 DEF SendEnd, Fine
  <2>5. SendT'
    BY <1>4, <1>5, <1>13, <2>1 DEF SendEnd
  <2> QED
    BY <2>4, <2>5 DEF TInv
<1>14. CASE AllSent
  BY <1>3, <1>4, <1>5, <1>6, <1>14 DEF AllSent, TInv, Fine
<1>15. CASE Breaks
  <2>1. spoilt' \in SUBSET Spoils /\ carrier = "move" /\ Fault /\ closed' = TRUE
        /\ UNCHANGED <<todo, file, sent>> /\ pc' = [pc EXCEPT ![Mover] = "done"]
    BY <1>5, <1>15 DEF Breaks, Spoils
  <2>2. wire' \in Seq(Proper)
    <3>1. PICK n \in 0..Len(wire) : wire' = SubSeq(wire, 1, n)
      BY <1>15 DEF Breaks
    <3> QED
      BY <1>5, <3>1, Cuts
  <2>3. NodeT'
    BY <1>3, <1>6, <2>1, <2>2
  <2>4. SendT'
    BY <1>4, <1>5, <2>1
  <2> QED
    BY <2>3, <2>4 DEF TInv
<1> QED
  BY <1>7, <1>8, <1>9, <1>10, <1>11, <1>12, <1>13, <1>14, <1>15 DEF MoverStep

LEMMA BroadcastType ==
  ASSUME NodeT, NEW m \in Seq(Proper), NEW spoils \in SUBSET Spoils, Broadcast(m, spoils)
  PROVE  chan' \in Seq(Seq(Proper)) /\ Len(chan') <= Capacity /\ spoilt' \in SUBSET Spoils
<1>1. /\ chan \in Seq(Seq(Proper)) /\ Len(chan) \in Nat /\ Len(chan) <= Capacity
      /\ Capacity \in Nat \ {0} /\ spoilt \in SUBSET Spoils
  BY LenProperties, TransferAssumption DEF NodeT
<1>2. spoilt' \in SUBSET Spoils
  BY <1>1 DEF Broadcast, Spoils
<1>3. CASE ~closed /\ Full
  <2>1. chan # <<>>
    BY <1>1, <1>3, EmptySeq DEF Full
  <2>2. Tail(chan) \in Seq(Seq(Proper)) /\ Len(Tail(chan)) = Len(chan) - 1
    BY <1>1, <2>1, HeadTailProperties
  <2>3. chan' = Append(Tail(chan), m)
    BY <1>3 DEF Broadcast
  <2> QED
    BY <1>1, <1>2, <2>2, <2>3, AppendProperties
<1>4. CASE ~closed /\ ~Full
  <2>1. chan' = Append(chan, m) /\ ~(Len(chan) >= Capacity)
    BY <1>4 DEF Broadcast, Full
  <2> QED
    BY <1>1, <1>2, <2>1, AppendProperties
<1>5. CASE closed
  BY <1>1, <1>2, <1>5 DEF Broadcast
<1> QED
  BY <1>3, <1>4, <1>5

\* The messages of an upload.
LEMMA UploadSends ==
  ASSUME TInv, NEW u \in Uploader, UploadStep(u)
  PROVE  /\ carrier = "link" /\ pc[u] # "done" /\ UploadKeeps
         /\ \E m \in Seq(Proper), spoils \in SUBSET Spoils : Broadcast(m, spoils)
<1>1. SendT /\ NodeT
  BY DEF TInv
<1>2. pc[u] # "done" /\ carrier = "link"
  BY <1>1, TransferAssumption DEF UploadStep, UploadStart, UploadChunk, UploadDelimiter, UploadEnd,
     UploadSeal, UploadClean, SendT
<1>3. {} \in SUBSET Spoils /\ {"overlap"} \in SUBSET Spoils
  BY DEF Spoils
<1>4. FilesOf[u] \in Seq(File) /\ field[u] \in Nat /\ sent[u] \in Nat /\ Len(FilesOf[u]) \in Nat
  BY <1>1, TransferAssumption, LenProperties DEF SendT, Sender
<1>5. \A y \in Proper : <<y>> \in Seq(Proper)
  OBVIOUS
<1>6. CASE UploadStart(u)
  <2>1. field[u] < Len(FilesOf[u])
    BY <1>1, <1>6 DEF SendT, UploadStart
  <2>2. FilesOf[u][field[u] + 1] \in File
    BY <1>4, <2>1, ElementOfSeq
  <2>3. <<Sym("start", FilesOf[u][field[u] + 1])>> \in Seq(Proper)
    BY <1>5, <2>2, Symbols
  <2> QED
    BY <1>2, <1>3, <1>6, <2>3 DEF UploadStart
<1>7. CASE UploadChunk(u)
  <2>1. PICK n \in 1..(Size(file[u]) - sent[u]) :
          Broadcast(Data(SubSeq(Content[file[u]], sent[u] + 1, sent[u] + n)), {})
    BY <1>7 DEF UploadChunk
  <2>2. file[u] \in File /\ Size(file[u]) \in Nat
    BY <1>1, <1>7, SizeNat DEF SendT, UploadChunk
  <2>3. sent[u] + n \in Nat /\ sent[u] <= sent[u] + n /\ sent[u] + n <= Size(file[u])
    BY <1>4, <2>2
  <2>4. Data(SubSeq(Content[file[u]], sent[u] + 1, sent[u] + n)) \in Seq(Proper)
    BY <1>4, <2>2, <2>3, Chunks
  <2> QED
    BY <1>2, <1>3, <1>7, <2>1, <2>4 DEF UploadChunk
<1>8. CASE UploadDelimiter(u)
  BY <1>2, <1>3, <1>8, Symbols DEF UploadDelimiter
<1>9. CASE UploadEnd(u)
  <2>1. file[u] \in File
    BY <1>1, <1>9 DEF SendT, UploadEnd
  <2>2. <<Sym("end", file[u])>> \in Seq(Proper)
    BY <1>5, <2>1, Symbols
  <2> QED
    BY <1>2, <1>3, <1>9, <2>2 DEF UploadEnd
<1>10. CASE UploadSeal(u)
  BY <1>2, <1>3, <1>10, Symbols DEF UploadSeal
<1>11. CASE UploadClean(u)
  <2>1. sent[u] < field[u] /\ field[u] <= Len(FilesOf[u])
    BY <1>1, <1>11 DEF SendT, UploadClean
  <2>2. FilesOf[u][sent[u] + 1] \in File
    BY <1>4, <2>1, ElementOfSeq
  <2>3. <<Sym("clean", FilesOf[u][sent[u] + 1])>> \in Seq(Proper)
    BY <1>5, <2>2, Symbols
  <2> QED
    BY <1>2, <1>3, <1>11, <2>3 DEF UploadClean
<1> QED
  BY <1>6, <1>7, <1>8, <1>9, <1>10, <1>11 DEF UploadStep

LEMMA UploadT ==
  ASSUME TInv, NEW u \in Uploader, UploadStep(u)
  PROVE  TInv'
<1>1. /\ SendT /\ NodeT /\ u # Mover /\ u \in Sender /\ Uploader \subseteq Sender
      /\ carrier = "link" /\ pc[u] # "done"
  BY UploadSends, TransferAssumption DEF TInv, Sender
<1>2. UNCHANGED <<todo, wire, closed, buf, mode, busy, disk, handled, carrier, named, before, commands,
                  faults>>
  BY UploadSends DEF UploadKeeps, nodeVars
<1>3. NodeT'
  <2>1. chan' \in Seq(Seq(Proper)) /\ Len(chan') <= Capacity /\ spoilt' \in SUBSET Spoils
    BY <1>1, UploadSends, BroadcastType
  <2> QED
    BY <1>1, <1>2, <2>1 DEF NodeT
<1>4. ASSUME NEW x \in File \cup {None}, file' = [file EXCEPT ![u] = x],
             NEW n \in Nat, sent' = [sent EXCEPT ![u] = n],
             NEW l \in Nat, field' = [field EXCEPT ![u] = l],
             NEW p \in {"next", "data", "end", "seal", "clean", "done"},
             pc' = [pc EXCEPT ![u] = p],
             p \in {"next", "data", "end"} => l < Len(FilesOf[u]),
             p \in {"data", "end"} => x \in File /\ n <= Size(x),
             p \in {"seal", "clean"} => n < l /\ l <= Len(FilesOf[u])
      PROVE  SendT'
  <2>1. /\ file' \in [Sender -> File \cup {None}] /\ sent' \in [Sender -> Nat]
        /\ pc' \in [Sender -> {"next", "open", "data", "end", "seal", "clean", "done"}]
        /\ field' \in [Uploader -> Nat]
    BY <1>1, <1>4 DEF SendT
  <2>2. pc'[u] = p /\ file'[u] = x /\ sent'[u] = n /\ field'[u] = l
    BY <1>1, <1>4 DEF SendT
  <2>3. /\ \A v \in Sender \ {u} : pc'[v] = pc[v] /\ file'[v] = file[v] /\ sent'[v] = sent[v]
        /\ \A v \in Uploader \ {u} : field'[v] = field[v]
    BY <1>1, <1>4 DEF SendT
  <2>4. pc'[Mover] = "done" /\ carrier # "move"
    BY <1>1, <2>3 DEF SendT, Sender
  <2>5. ASSUME NEW v \in Uploader
        PROVE  /\ pc'[v] \in {"next", "data", "end", "seal", "clean", "done"}
               /\ pc'[v] \in {"next", "data", "end"} => field'[v] < Len(FilesOf[v])
               /\ pc'[v] \in {"data", "end"} => file'[v] \in File /\ sent'[v] <= Size(file'[v])
               /\ pc'[v] \in {"seal", "clean"} => sent'[v] < field'[v] /\ field'[v] <= Len(FilesOf[v])
    <3>1. CASE v = u
      BY <1>4, <2>2, <3>1
    <3>2. CASE v # u
      BY <1>1, <2>3, <3>2 DEF SendT
    <3> QED
      BY <3>1, <3>2
  <2> QED
    BY <1>1, <1>2, <2>1, <2>4, <2>5 DEF SendT
<1>5. /\ file = [file EXCEPT ![u] = file[u]] /\ sent = [sent EXCEPT ![u] = sent[u]]
      /\ pc = [pc EXCEPT ![u] = pc[u]] /\ field = [field EXCEPT ![u] = field[u]]
      /\ file[u] \in File \cup {None} /\ sent[u] \in Nat /\ field[u] \in Nat
      /\ pc[u] \in {"next", "data", "end", "seal", "clean", "done"}
      /\ pc[u] \in {"next", "data", "end"} => field[u] < Len(FilesOf[u])
      /\ pc[u] \in {"data", "end"} => file[u] \in File /\ sent[u] <= Size(file[u])
      /\ pc[u] \in {"seal", "clean"} => sent[u] < field[u] /\ field[u] <= Len(FilesOf[u])
      /\ FilesOf[u] \in Seq(File) /\ Len(FilesOf[u]) \in Nat
  BY <1>1, TransferAssumption, LenProperties DEF SendT
<1>6. CASE UploadStart(u)
  <2> DEFINE f == FilesOf[u][field[u] + 1]
  <2>1. pc[u] = "next" /\ field[u] < Len(FilesOf[u])
    BY <1>5, <1>6 DEF UploadStart
  <2>2. f \in File /\ 0 <= Size(f)
    BY <1>5, <2>1, ElementOfSeq, SizeNat
  <2>3. /\ file' = [file EXCEPT ![u] = f] /\ sent' = [sent EXCEPT ![u] = 0]
        /\ pc' = [pc EXCEPT ![u] = "data"] /\ field' = field
    BY <1>6 DEF UploadStart
  <2>4. SendT'
    <3> HIDE DEF f
    <3> QED
      BY <1>4, <1>5, <2>1, <2>2, <2>3
  <2> QED
    BY <1>3, <2>4 DEF TInv
<1>7. CASE UploadChunk(u)
  <2>1. PICK n \in 1..(Size(file[u]) - sent[u]) : sent' = [sent EXCEPT ![u] = @ + n]
    BY <1>7 DEF UploadChunk
  <2>2. pc[u] = "data" /\ file[u] \in File /\ Size(file[u]) \in Nat /\ UNCHANGED <<file, pc, field>>
    BY <1>5, <1>7, SizeNat DEF UploadChunk
  <2>3. sent[u] + n \in Nat /\ sent[u] + n <= Size(file[u])
    BY <1>5, <2>2
  <2>4. sent' = [sent EXCEPT ![u] = sent[u] + n]
    BY <2>1
  <2>5. SendT'
    BY <1>4, <1>5, <2>2, <2>3, <2>4
  <2> QED
    BY <1>3, <2>5 DEF TInv
<1>8. CASE UploadDelimiter(u)
  <2>1. SendT'
    BY <1>4, <1>5, <1>8 DEF UploadDelimiter
  <2> QED
    BY <1>3, <2>1 DEF TInv
<1>9. CASE UploadEnd(u)
  <2> DEFINE p == IF field'[u] = Len(FilesOf[u]) THEN "seal" ELSE "next"
  <2>1. pc[u] \in {"end", "data"} /\ field[u] < Len(FilesOf[u])
    BY <1>5, <1>9 DEF UploadEnd
  <2>2. field' = [field EXCEPT ![u] = field[u] + 1] /\ field'[u] = field[u] + 1
    BY <1>1, <1>9 DEF UploadEnd, SendT
  <2>3. sent' = [sent EXCEPT ![u] = 0] /\ file' = file /\ pc' = [pc EXCEPT ![u] = p]
    BY <1>9 DEF UploadEnd
  <2>4. /\ p \in {"next", "seal"} /\ field[u] + 1 \in Nat /\ 0 < field[u] + 1
        /\ field[u] + 1 <= Len(FilesOf[u]) /\ (p = "next" => field[u] + 1 < Len(FilesOf[u]))
    BY <1>5, <2>1, <2>2
  <2>5. SendT'
    <3> HIDE DEF p
    <3> QED
      BY <1>4, <1>5, <2>2, <2>3, <2>4
  <2> QED
    BY <1>3, <2>5 DEF TInv
<1>10. CASE UploadSeal(u)
  <2>1. SendT'
    BY <1>4, <1>5, <1>10 DEF UploadSeal
  <2> QED
    BY <1>3, <2>1 DEF TInv
<1>11. CASE UploadClean(u)
  <2> DEFINE p == IF sent'[u] = field[u] THEN "done" ELSE "seal"
  <2>1. sent[u] < field[u] /\ field[u] <= Len(FilesOf[u])
    BY <1>5, <1>11 DEF UploadClean
  <2>2. sent' = [sent EXCEPT ![u] = sent[u] + 1] /\ sent'[u] = sent[u] + 1
    BY <1>1, <1>11 DEF UploadClean, SendT
  <2>3. field' = field /\ file' = file /\ pc' = [pc EXCEPT ![u] = p]
    BY <1>11 DEF UploadClean
  <2>4. /\ p \in {"done", "seal"} /\ sent[u] + 1 \in Nat
        /\ p = "seal" => sent[u] + 1 < field[u]
    BY <1>5, <2>1, <2>2
  <2>5. SendT'
    <3> HIDE DEF p
    <3> QED
      BY <1>4, <1>5, <2>1, <2>2, <2>3, <2>4
  <2> QED
    BY <1>3, <2>5 DEF TInv
<1> QED
  BY <1>6, <1>7, <1>8, <1>9, <1>10, <1>11 DEF UploadStep

LEMMA UploadBreaksT ==
  ASSUME TInv, NEW u \in Uploader, UploadBreaks(u)
  PROVE  TInv' /\ carrier = "link"
<1>1. /\ SendT /\ NodeT /\ u # Mover /\ u \in Sender /\ Uploader \subseteq Sender /\ Mover \in Sender
      /\ pc[u] # "done"
  BY TransferAssumption DEF TInv, Sender, UploadBreaks
<1>2. /\ UNCHANGED <<todo, file, sent, field, chan, wire, closed, buf, mode, busy, disk, handled>>
      /\ UNCHANGED <<carrier, named, before, commands>>
      /\ pc' = [pc EXCEPT ![u] = "done"] /\ Fault /\ spoilt' = spoilt \cup {"abort"}
  BY DEF UploadBreaks, nodeVars
<1>3. carrier = "link"
  BY <1>1, TransferAssumption DEF SendT
<1>4. NodeT'
  <2>1. spoilt' \in SUBSET Spoils
    BY <1>1, <1>2 DEF NodeT, Spoils
  <2>2. faults' \in 0..Faults
    BY <1>1, <1>2, TransferAssumption DEF NodeT, Fault
  <2> QED
    BY <1>1, <1>2, <2>1, <2>2 DEF NodeT
<1>5. SendT'
  <2>1. /\ pc' \in [Sender -> {"next", "open", "data", "end", "seal", "clean", "done"}]
        /\ \A v \in Sender \ {u} : pc'[v] = pc[v]
        /\ pc'[u] = "done"
    BY <1>1, <1>2 DEF SendT
  <2>2. pc'[Mover] = pc[Mover]
    BY <1>1, <2>1
  <2> QED
    BY <1>1, <1>2, <1>3, <2>1, <2>2 DEF SendT
<1> QED
  BY <1>3, <1>4, <1>5 DEF TInv

LEMMA SenderKept ==
  ASSUME SendT, UNCHANGED <<sendVars, closed, carrier, commands>>,
         carrier = "move" => chan' = <<>>
  PROVE  SendT'
BY DEF SendT, sendVars

LEMMA CommandT ==
  ASSUME TInv, Command
  PROVE  /\ TInv' /\ carrier = "link" /\ commands' \in 1..Commands /\ commands' = commands + 1
         /\ <<Sym("command", commands')>> \in Seq(Proper)
<1>1. SendT /\ NodeT
  BY DEF TInv
<1>2. /\ carrier = "link" /\ commands' = commands + 1 /\ commands \in Nat
      /\ commands' \in 1..Commands /\ commands' \in 0..Commands
      /\ UNCHANGED <<sendVars, wire, closed, nodeVars, carrier, named, before, faults>>
  BY <1>1, TransferAssumption DEF Command, NodeT
<1>3. <<Sym("command", commands')>> \in Seq(Proper)
  BY <1>2, Symbols
<1>4. PICK spoils \in SUBSET Spoils : Broadcast(<<Sym("command", commands')>>, spoils)
  <2>1. {} \in SUBSET Spoils /\ {"command"} \in SUBSET Spoils
    BY DEF Spoils
  <2> QED
    BY <2>1 DEF Command
<1>5. chan' \in Seq(Seq(Proper)) /\ Len(chan') <= Capacity /\ spoilt' \in SUBSET Spoils
  BY <1>1, <1>3, <1>4, BroadcastType
<1>6. NodeT'
  BY <1>1, <1>2, <1>5 DEF NodeT, nodeVars
<1>7. SendT'
  BY <1>1, <1>2 DEF SendT, sendVars
<1> QED
  BY <1>2, <1>3, <1>6, <1>7 DEF TInv

LEMMA LinkT ==
  ASSUME TInv, LinkWrites
  PROVE  /\ TInv' /\ carrier = "link" /\ Head(chan) \in Seq(Proper)
         /\ Tail(chan) \in Seq(Seq(Proper)) /\ Head(chan) \o <<Newline>> \in Seq(Proper)
<1>1. SendT /\ NodeT /\ chan # <<>>
  BY DEF TInv, LinkWrites
<1>2. carrier = "link"
  BY <1>1, TransferAssumption DEF SendT
<1>3. chan \in Seq(Seq(Proper)) /\ Len(chan) \in Nat /\ Len(chan) <= Capacity /\ wire \in Seq(Proper)
  BY <1>1, LenProperties DEF NodeT
<1>4. Head(chan) \in Seq(Proper) /\ Tail(chan) \in Seq(Seq(Proper)) /\ Len(Tail(chan)) = Len(chan) - 1
  BY <1>1, <1>3, HeadTailProperties
<1>5. <<Newline>> \in Seq(Proper)
  BY Symbols
<1>6. Head(chan) \o <<Newline>> \in Seq(Proper) /\ wire \o Head(chan) \o <<Newline>> \in Seq(Proper)
  BY <1>3, <1>4, <1>5, ConcatProperties
<1>7. wire' \in Seq(Proper) /\ chan' \in Seq(Seq(Proper)) /\ Len(chan') <= Capacity
  <2>1. Capacity \in Nat
    BY TransferAssumption
  <2> QED
    BY <1>3, <1>4, <1>6, <2>1 DEF LinkWrites
<1>8. NodeT'
  BY <1>1, <1>7 DEF NodeT, LinkWrites, nodeVars, pastVars
<1>9. SendT'
  BY <1>1, <1>2, SenderKept DEF LinkWrites, pastVars
<1> QED
  BY <1>2, <1>4, <1>6, <1>8, <1>9 DEF TInv

LEMMA LinkEndsT ==
  ASSUME TInv, LinkEnds \/ LinkReturns
  PROVE  TInv'
<1>1. SendT /\ NodeT
  BY DEF TInv
<1>2. CASE LinkEnds
  <2>1. PICK n \in 0..Len(wire) : wire' = SubSeq(wire, 1, n)
    BY <1>2 DEF LinkEnds
  <2>2. wire' \in Seq(Proper)
    BY <1>1, <2>1, Cuts DEF NodeT
  <2>3. /\ UNCHANGED <<sendVars, nodeVars, carrier, before, commands>> /\ closed' = TRUE
        /\ carrier = "link" /\ chan' = <<>> /\ Fault /\ spoilt' = spoilt \cup {"break"}
    BY <1>2 DEF LinkEnds
  <2>4. spoilt' \in SUBSET Spoils /\ faults' \in 0..Faults
    BY <1>1, <2>3, TransferAssumption DEF NodeT, Spoils, Fault
  <2>5. chan' \in Seq(Seq(Proper)) /\ Len(chan') <= Capacity
    BY <2>3, EmptySeq, TransferAssumption
  <2>6. SendT'
    BY <1>1, <2>3 DEF SendT, sendVars
  <2>7. NodeT'
    BY <1>1, <2>2, <2>3, <2>4, <2>5 DEF NodeT, nodeVars
  <2> QED
    BY <2>6, <2>7 DEF TInv
<1>3. CASE LinkReturns
  <2>1. /\ UNCHANGED <<sendVars, chan, wire, busy, disk, handled, pastVars>>
        /\ closed' = FALSE /\ buf' = <<>> /\ mode' = None /\ carrier = "link"
    BY <1>3 DEF LinkReturns
  <2>2. SendT'
    BY <1>1, <2>1 DEF SendT, sendVars, pastVars
  <2>3. NodeT'
    BY <1>1, <2>1, EmptySeq DEF NodeT, pastVars
  <2> QED
    BY <2>2, <2>3 DEF TInv
<1> QED
  BY <1>2, <1>3

\* A line of one symbol is the first symbol of the buffer.
LEMMA OneLine ==
  ASSUME NodeT, HasLine
  PROVE  /\ LineEnd \in 1..Len(buf) /\ Len(buf) \in Nat
         /\ Line \in Seq(Proper) /\ Len(Line) = LineEnd - 1
         /\ \A i \in 1..(LineEnd - 1) : Line[i] = buf[i]
         /\ Drained \in Seq(Proper)
         /\ \A k : JsonLine(k) => LineEnd = 2 /\ Line[1] = buf[1] /\ Line[1] \in Proper
                                  /\ buf[1].kind = k
<1>1. buf \in Seq(Proper) /\ LineEnd \in 1..Len(buf)
  BY FirstLine DEF NodeT
<1>2. Len(buf) \in Nat /\ LineEnd - 1 \in 0..Len(buf) /\ LineEnd \in 0..Len(buf)
  BY <1>1, LenProperties
<1>3. /\ Line \in Seq(Proper) /\ Len(Line) = LineEnd - 1
      /\ \A i \in 1..(LineEnd - 1) : Line[i] = buf[i]
  BY <1>1, <1>2, Cuts DEF Line
<1>4. Drained \in Seq(Proper)
  BY <1>1, <1>2, Cuts DEF Drained
<1>5. ASSUME NEW k, JsonLine(k)
      PROVE  LineEnd = 2 /\ Line[1] = buf[1] /\ Line[1] \in Proper /\ buf[1].kind = k
  <2>1. Len(Line) = 1 /\ Line[1].kind = k
    BY <1>5 DEF JsonLine
  <2>2. LineEnd = 2
    <3>1. LineEnd \in Nat
      BY <1>1, <1>2
    <3>2. LineEnd - 1 = 1
      BY <1>3, <2>1
    <3> QED
      BY <3>1, <3>2
  <2>3. Line[1] = buf[1]
    BY <1>3, <2>2
  <2>4. Line[1] \in Proper
    <3>1. Line \in Seq(Proper) /\ Len(Line) = 1
      BY <1>3, <2>1
    <3>2. 1 \in 1..Len(Line)
      BY <3>1
    <3> QED
      BY <3>1, <3>2, ElementOfSeq
  <2> QED
    BY <2>1, <2>2, <2>3, <2>4
<1> QED
  BY <1>1, <1>2, <1>3, <1>4, <1>5

LEMMA NodeT0 ==
  ASSUME TInv, NodeKeeps, wire' \in Seq(Proper), buf' \in Seq(Proper),
         mode' \in File \cup {None}, busy' \in BOOLEAN, disk' \in [File -> Entry],
         mode' # None => disk'[mode'].is = "file", handled' \in Seq(1..Commands),
         spoilt' \in SUBSET Spoils
  PROVE  TInv'
<1>1. SendT /\ NodeT
  BY DEF TInv
<1>2. UNCHANGED <<sendVars, closed, carrier, commands, chan, before, faults>>
  BY DEF NodeKeeps
<1>3. SendT'
  BY <1>1, <1>2, SenderKept DEF SendT
<1>4. NodeT'
  BY <1>1, <1>2 DEF NodeT
<1> QED
  BY <1>3, <1>4 DEF TInv

LEMMA ReaderT ==
  ASSUME TInv, Read \/ Process
  PROVE  TInv'
<1>1. SendT /\ NodeT
  BY DEF TInv
<1>2. /\ wire \in Seq(Proper) /\ buf \in Seq(Proper) /\ mode \in File \cup {None} /\ busy \in BOOLEAN
      /\ disk \in [File -> Entry] /\ (mode # None => mode \in File /\ disk[mode].is = "file")
      /\ handled \in Seq(1..Commands) /\ spoilt \in SUBSET Spoils
      /\ Len(wire) \in Nat /\ Len(buf) \in Nat /\ None \notin File
  BY <1>1, TransferAssumption, LenProperties DEF NodeT
<1>3. NodeKeeps
  BY DEF Read, Process, Overflow, SkipLine, StartFile, CleanFile, HandleCommand, Stops,
         FinishFile, WriteFile, AwaitsMore
<1>4. CASE Read
  <2>1. PICK n \in 1..Len(wire) : /\ wire' = SubSeq(wire, n + 1, Len(wire))
                                   /\ buf' = buf \o SubSeq(wire, 1, n)
    BY <1>4 DEF Read
  <2>2. n \in 0..Len(wire)
    BY <1>2
  <2>3. SubSeq(wire, 1, n) \in Seq(Proper) /\ wire' \in Seq(Proper)
    BY <1>2, <2>1, <2>2, Cuts
  <2>4. buf' \in Seq(Proper)
    BY <1>2, <2>1, <2>3, ConcatProperties
  <2> QED
    BY <1>2, <1>3, <1>4, <2>3, <2>4, NodeT0 DEF Read
<1>5. CASE Overflow
  <2>1. <<>> \in Seq(Proper) /\ spoilt \cup {"overflow"} \in SUBSET Spoils
    BY <1>2 DEF Spoils
  <2> QED
    BY <1>2, <1>3, <1>5, <2>1, NodeT0 DEF Overflow
<1>6. CASE SkipLine
  <2>1. buf' \in Seq(Proper)
    BY <1>1, <1>6, OneLine DEF SkipLine
  <2> QED
    BY <1>2, <1>3, <1>6, <2>1, NodeT0 DEF SkipLine, Goes
<1>7. ASSUME NEW e \in Seq(Proper), NEW f \in File
      PROVE  /\ [disk EXCEPT ![f].data = e] \in [File -> Entry]
             /\ [disk EXCEPT ![f].data = e][f].is = disk[f].is
  <2>1. disk[f] \in Entry
    BY <1>2
  <2>2. [disk[f] EXCEPT !.data = e] \in Entry /\ [disk[f] EXCEPT !.data = e].is = disk[f].is
    BY <2>1 DEF Entry
  <2> QED
    BY <1>2, <2>2
<1>8. CASE StartFile
  <2> DEFINE f == Line[1].of
  <2>1. JsonLine("start") /\ HasLine /\ mode = None
    BY <1>8 DEF StartFile, JsonLine
  <2>2. f \in File /\ buf' \in Seq(Proper)
    BY <1>1, <1>8, <2>1, OneLine DEF StartFile, Proper
  <2>3. spoilt' \in SUBSET Spoils /\ UNCHANGED <<wire, busy, handled>>
    BY <1>2, <1>8 DEF StartFile, Replaces, Spoils, Goes
  <2>4. IF disk[f].is = "file"
          THEN disk' = [disk EXCEPT ![f].data = <<>>] /\ mode' = f
          ELSE disk' = [disk EXCEPT ![f] = Directory] /\ mode' = mode
    BY <1>8 DEF StartFile
  <2>5. <<>> \in Seq(Proper) /\ Directory \in Entry
    BY DEF Entry, Directory
  <2>6. disk' \in [File -> Entry] /\ mode' \in File \cup {None}
        /\ (mode' # None => disk'[mode'].is = "file")
    <3> HIDE DEF f
    <3>1. CASE disk[f].is = "file"
      <4>1. disk' = [disk EXCEPT ![f].data = <<>>] /\ mode' = f
        BY <2>4, <3>1
      <4>2. [disk EXCEPT ![f].data = <<>>] \in [File -> Entry]
            /\ [disk EXCEPT ![f].data = <<>>][f].is = disk[f].is
        BY <1>7, <2>2, <2>5
      <4> QED
        BY <2>2, <3>1, <4>1, <4>2
    <3>2. CASE disk[f].is # "file"
      BY <1>2, <2>1, <2>2, <2>4, <2>5, <3>2
    <3> QED
      BY <3>1, <3>2
  <2> QED
    BY <1>2, <1>3, <2>2, <2>3, <2>6, NodeT0
<1>9. CASE CleanFile
  <2> DEFINE f == Line[1].of
  <2>1. JsonLine("clean") /\ HasLine /\ mode = None /\ UNCHANGED <<wire, mode, busy, handled, spoilt>>
    BY <1>9 DEF CleanFile, JsonLine, Goes
  <2>2. f \in File /\ buf' \in Seq(Proper)
    BY <1>1, <1>9, <2>1, OneLine DEF CleanFile, Proper
  <2>3. Cleaned(f, disk[f].data) \in Seq(Proper)
    BY <1>2, <2>2, CleanedType DEF Entry
  <2>4. disk' = IF disk[f].is = "file" THEN [disk EXCEPT ![f].data = Cleaned(f, disk[f].data)] ELSE disk
    BY <1>9 DEF CleanFile
  <2>5. disk' \in [File -> Entry]
    <3> HIDE DEF f
    <3> QED
      BY <1>2, <1>7, <2>2, <2>3, <2>4
  <2> QED
    BY <1>2, <1>3, <2>1, <2>2, <2>5, NodeT0
<1>10. CASE HandleCommand
  <2>1. JsonLine("command") /\ HasLine /\ UNCHANGED <<wire, mode, busy, disk, spoilt>>
    BY <1>10 DEF HandleCommand, JsonLine, Goes
  <2>2. buf' \in Seq(Proper) /\ Line[1].of \in 1..Commands
    BY <1>1, <1>10, <2>1, OneLine DEF HandleCommand, Proper
  <2>3. handled' \in Seq(1..Commands)
    BY <1>2, <1>10, <2>2, AppendProperties DEF HandleCommand
  <2> QED
    BY <1>2, <1>3, <2>1, <2>2, <2>3, NodeT0
<1>11. CASE Stops
  BY <1>2, <1>3, <1>11, NodeT0 DEF Stops, Goes
<1>12. CASE AwaitsMore
  BY <1>2, <1>3, <1>12, NodeT0 DEF AwaitsMore, Goes
<1>13. CASE FinishFile
  <2> DEFINE d == FirstDelimiter
  <2>1. /\ mode # None /\ HasDelimiter /\ UNCHANGED <<wire, busy, handled, spoilt>> /\ mode' = None
        /\ buf' = SubSeq(buf, d + 2, Len(buf))
        /\ disk' = [disk EXCEPT ![mode].data =
                      Cleaned(mode, disk[mode].data \o SubSeq(buf, 1, d - 1))]
    BY <1>13 DEF FinishFile, Goes
  <2>2. d \in 1..Len(buf) /\ d < Len(buf)
    BY <1>2, <2>1, FirstMark DEF DelimiterAt
  <2> HIDE DEF d
  <2>3. d - 1 \in 0..Len(buf) /\ d + 1 \in 0..Len(buf) /\ d + 2 = (d + 1) + 1
    BY <1>2, <2>2
  <2>4. SubSeq(buf, 1, d - 1) \in Seq(Proper) /\ buf' \in Seq(Proper)
    BY <1>2, <2>1, <2>3, Cuts
  <2>5. disk[mode].data \in Seq(Proper)
    BY <1>2, <2>1 DEF Entry
  <2>6. Cleaned(mode, disk[mode].data \o SubSeq(buf, 1, d - 1)) \in Seq(Proper)
    BY <1>2, <2>1, <2>4, <2>5, ConcatProperties, CleanedType
  <2> QED
    BY <1>2, <1>3, <1>7, <2>1, <2>4, <2>6, NodeT0
<1>14. CASE WriteFile
  <2> DEFINE n == Len(buf) - Keep
  <2>1. /\ mode # None /\ UNCHANGED <<wire, mode, busy, handled, spoilt>> /\ Len(buf) > Keep
        /\ buf' = SubSeq(buf, n + 1, Len(buf))
        /\ disk' = [disk EXCEPT ![mode].data = disk[mode].data \o SubSeq(buf, 1, n)]
    BY <1>14 DEF WriteFile, Goes
  <2>2. Keep = 3
    BY Symbols DEF Keep
  <2>3. n \in 0..Len(buf)
    BY <1>2, <2>1, <2>2
  <2> HIDE DEF n
  <2>4. SubSeq(buf, 1, n) \in Seq(Proper) /\ buf' \in Seq(Proper)
    BY <1>2, <2>1, <2>3, Cuts
  <2>5. disk[mode].data \in Seq(Proper)
    BY <1>2, <2>1 DEF Entry
  <2>6. disk[mode].data \o SubSeq(buf, 1, n) \in Seq(Proper)
    BY <2>4, <2>5, ConcatProperties
  <2>7. disk' \in [File -> Entry] /\ disk'[mode].is = "file"
    BY <1>2, <1>7, <2>1, <2>6
  <2> QED
    BY <1>2, <1>3, <2>1, <2>4, <2>7, NodeT0
<1> QED
  BY <1>4, <1>5, <1>6, <1>8, <1>9, <1>10, <1>11, <1>12, <1>13, <1>14 DEF Process

LEMMA UploadFiles ==
  /\ Uploads \subseteq File
  /\ \A u \in Uploader : \A i \in 1..Len(FilesOf[u]) : FilesOf[u][i] \in Uploads
<1>1. \A u \in Uploader : \A i \in 1..Len(FilesOf[u]) : FilesOf[u][i] \in File
  BY TransferAssumption, ElementOfSeq
<1> QED
  BY <1>1 DEF Uploads

LEMMA TInvInit == Init => TInv
<1> SUFFICES ASSUME Init PROVE TInv
  OBVIOUS
<1>1. SendT
  <2>1. carrier \in {"link", "move"} /\ carrier \in Carriers
    BY TransferAssumption DEF Init
  <2>2. \A s \in Sender : pc[s] = IF (s = Mover) = (carrier = "move") THEN "next" ELSE "done"
    BY DEF Init
  <2>3. Mover \in Sender /\ Uploader \subseteq Sender /\ \A u \in Uploader : u # Mover
    BY TransferAssumption DEF Sender
  <2>4. \A u \in Uploader : field[u] = 0 /\ 0 < Len(FilesOf[u])
    BY TransferAssumption, EmptySeq DEF Init
  <2>5. commands = 0 /\ chan = <<>>
    BY DEF Init
  <2>6. \A u \in Uploader : pc[u] \in {"next", "done"} /\ (carrier = "move" => pc[u] = "done")
    BY <2>2, <2>3
  <2>7. pc[Mover] \in {"next", "done"} /\ (carrier = "link" => pc[Mover] = "done")
    BY <2>2, <2>3
  <2>8. /\ todo \in SUBSET File /\ closed \in BOOLEAN
        /\ file \in [Sender -> File \cup {None}] /\ sent \in [Sender -> Nat]
        /\ pc \in [Sender -> {"next", "open", "data", "end", "seal", "clean", "done"}]
        /\ field \in [Uploader -> Nat]
    BY UploadFiles, TransferAssumption DEF Init
  <2> QED
    BY <2>1, <2>4, <2>5, <2>6, <2>7, <2>8 DEF SendT
<1>2. NodeT
  <2>1. PICK S \in Stored : disk = [f \in File |-> IF f \in S THEN Present ELSE Absent]
    BY DEF Init
  <2>2. Present \in Entry /\ Absent \in Entry
    <3>1. Sym("byte", None) \in Proper
      BY DEF Sym, Proper, Symbol, JsonKinds
    <3>2. <<Sym("byte", None)>> \in Seq(Proper) /\ <<>> \in Seq(Proper)
      BY <3>1
    <3> QED
      BY <3>2 DEF Present, Absent, Entry
  <2>3. disk \in [File -> Entry]
    BY <2>1, <2>2
  <2>4. (\A T : <<>> \in Seq(T)) /\ Len(<<>>) = 0
    BY EmptySeq
  <2>5. /\ chan = <<>> /\ wire = <<>> /\ buf = <<>> /\ handled = <<>> /\ mode = None /\ busy = FALSE
        /\ commands = 0 /\ before = disk /\ faults = 0 /\ spoilt = {}
    BY DEF Init
  <2>6. 0 <= Capacity /\ 0 \in 0..Commands /\ 0 \in 0..Faults
    BY TransferAssumption
  <2> QED
    BY <2>3, <2>4, <2>5, <2>6 DEF NodeT
<1> QED
  BY <1>1, <1>2 DEF TInv

LEMMA TInvInductive == TInv /\ [Next]_vars => TInv'
<1> SUFFICES ASSUME TInv, [Next]_vars PROVE TInv'
  OBVIOUS
<1>1. CASE UNCHANGED vars
  BY <1>1 DEF vars, sendVars, nodeVars, pastVars, TInv, SendT, NodeT
<1> QED
  BY <1>1, MoverT, UploadT, UploadBreaksT, CommandT, LinkT, LinkEndsT, ReaderT DEF Next

LEMMA NameTInit == Init => NameT
<1> SUFFICES ASSUME Init PROVE NameT
  OBVIOUS
<1>1. /\ carrier \in {"link", "move"} /\ closed = FALSE /\ pc[Mover] \in {"next", "done"}
      /\ Mover \in Sender
  BY TransferAssumption DEF Init, Sender
<1>2. Uploads \subseteq File
  BY UploadFiles
<1>3. named \in SUBSET File /\ todo \in SUBSET named /\ (carrier = "link" => named = Uploads)
  BY <1>1, <1>2, TransferAssumption DEF Init
<1> QED
  BY <1>1, <1>3 DEF NameT

LEMMA NameTInductive == TInv /\ NameT /\ [Next]_vars => NameT'
<1> SUFFICES ASSUME TInv, NameT, [Next]_vars PROVE NameT'
  OBVIOUS
<1>1. /\ SendT /\ NodeT /\ Mover \in Sender /\ Uploader \subseteq Sender /\ Mover \notin Uploader
      /\ carrier \in {"link", "move"}
  BY TransferAssumption DEF TInv, Sender, SendT
<1>2. CASE MoverStep
  <2>1. carrier = "move" /\ UNCHANGED <<carrier, named>>
    <3>1. pc[Mover] # "done" \/ carrier = "move"
      BY <1>2 DEF MoverStep, SkipFile, SendStart, Open, OpenFails, SendChunk, ReadFails, SendEnd,
                  AllSent, Breaks
    <3>2. UNCHANGED <<carrier, named>>
      BY <1>2 DEF MoverStep, SkipFile, SendStart, Open, OpenFails, SendChunk, ReadFails, SendEnd,
                  AllSent, Breaks, MoverKeeps
    <3> QED
      BY <1>1, <3>1, <3>2 DEF SendT
  <2>2. todo' \in SUBSET named
    BY <1>2 DEF NameT, MoverStep, SkipFile, SendStart, Open, OpenFails, SendChunk, ReadFails, SendEnd,
                  AllSent, Breaks
  <2>3. pc'[Mover] \in {"open", "data", "end"} => file'[Mover] \in named
    <3>1. pc \in [Sender -> {"next", "open", "data", "end", "seal", "clean", "done"}]
          /\ file \in [Sender -> File \cup {None}]
      BY <1>1 DEF SendT
    <3>2. ASSUME NEW f \in File, SkipFile(f) \/ SendStart(f)
          PROVE  pc'[Mover] \in {"open", "data", "end"} => file'[Mover] \in named
      BY <1>1, <3>1, <3>2 DEF SkipFile, SendStart, NameT
    <3>3. CASE Open \/ OpenFails \/ SendChunk \/ ReadFails \/ SendEnd \/ AllSent \/ Breaks
      BY <1>1, <3>1, <3>3 DEF Open, OpenFails, SendChunk, ReadFails, SendEnd, AllSent, Breaks, NameT
    <3> QED
      BY <1>2, <3>2, <3>3 DEF MoverStep
  <2> QED
    BY <2>1, <2>2, <2>3 DEF NameT
<1>3. ASSUME carrier = "link", UNCHANGED <<carrier, named, todo>>, pc'[Mover] = pc[Mover],
             closed' => chan' = <<>> /\ "break" \in spoilt'
      PROVE  NameT'
  BY <1>1, <1>3 DEF NameT, SendT
<1>4. ASSUME NEW u \in Uploader, UploadStep(u) PROVE NameT'
  <2>1. carrier = "link" /\ UNCHANGED <<carrier, named, todo, closed>>
    BY <1>4, UploadSends DEF UploadKeeps
  <2>2. \E x : pc' = [pc EXCEPT ![u] = x] \/ pc' = pc
    BY <1>4 DEF UploadStep, UploadStart, UploadChunk, UploadDelimiter, UploadEnd, UploadSeal, UploadClean
  <2>3. pc'[Mover] = pc[Mover]
    BY <1>1, <2>2 DEF SendT
  <2>4. closed => chan' = chan /\ spoilt \subseteq spoilt'
    BY <1>4, UploadSends DEF Broadcast
  <2> QED
    BY <1>3, <2>1, <2>3, <2>4 DEF NameT
<1>5. ASSUME NEW u \in Uploader, UploadBreaks(u) PROVE NameT'
  <2>1. carrier = "link" /\ UNCHANGED <<carrier, named, todo, closed, chan>> /\ spoilt \subseteq spoilt'
    BY <1>5, UploadBreaksT DEF UploadBreaks
  <2>2. pc'[Mover] = pc[Mover]
    BY <1>1, <1>5 DEF UploadBreaks, SendT
  <2> QED
    BY <1>3, <2>1, <2>2 DEF NameT
<1>6. CASE Command
  <2>1. closed => chan' = chan /\ spoilt \subseteq spoilt'
    BY <1>6 DEF Command, Broadcast
  <2> QED
    BY <1>3, <1>6, <2>1 DEF Command, sendVars, NameT
<1>7. CASE LinkWrites
  <2>1. carrier = "link" /\ ~closed
    BY <1>7, LinkT DEF LinkWrites, NameT
  <2> QED
    BY <1>3, <1>7, <2>1 DEF LinkWrites, sendVars, pastVars
<1>8. CASE LinkEnds
  BY <1>3, <1>8 DEF LinkEnds, sendVars
<1>9. CASE LinkReturns
  BY <1>3, <1>9 DEF LinkReturns, sendVars, pastVars
<1>10. CASE Read \/ Process
  <2>1. UNCHANGED <<sendVars, chan, closed, carrier, named>>
    BY <1>10 DEF Read, Process, Overflow, SkipLine, StartFile, CleanFile, HandleCommand, Stops,
         FinishFile, WriteFile, AwaitsMore, NodeKeeps
  <2>2. spoilt \subseteq spoilt'
    BY <1>10 DEF Read, Process, Overflow, SkipLine, StartFile, CleanFile, HandleCommand, Stops,
         FinishFile, WriteFile, AwaitsMore
  <2> QED
    BY <2>1, <2>2 DEF NameT, sendVars
<1>11. CASE UNCHANGED vars
  BY <1>11 DEF vars, sendVars, pastVars, NameT
<1> QED
  BY <1>2, <1>4, <1>5, <1>6, <1>7, <1>8, <1>9, <1>10, <1>11 DEF Next

\* Whatever is on the connection, in the channel, in the reader's buffer or in
\* a file consists of symbols, the channel never exceeds its capacity, and the
\* file that is open is a file (ReadMode, daemon main.rs:941).
THEOREM TypeCorrect == Spec => []TypeOK
<1>1. TInv /\ NameT => TypeOK
  <2> SUFFICES ASSUME TInv, NameT PROVE TypeOK
    OBVIOUS
  <2>1. SendT /\ NodeT
    BY DEF TInv
  <2>2. \A s \in Seq(Proper) : s \in Seq(Symbol)
    BY SeqMonotonic DEF Proper
  <2>3. chan \in Seq(Seq(Symbol))
    <3>1. Seq(Proper) \subseteq Seq(Symbol)
      BY <2>2
    <3> QED
      BY <2>1, <3>1, SeqMonotonic DEF NodeT
  <2>4. \A e \in Entry : e \in [is : {"file", "absent", "directory"}, data : Seq(Symbol)]
    BY <2>2 DEF Entry
  <2>5. disk \in [File -> [is : {"file", "absent", "directory"}, data : Seq(Symbol)]]
    BY <2>1, <2>4 DEF NodeT
  <2> QED
    BY <2>1, <2>2, <2>3, <2>5 DEF TypeOK, SendT, NodeT, NameT
<1> QED
  BY <1>1, TInvInit, TInvInductive, NameTInit, NameTInductive, PTL DEF Spec

-----------------------------------------------------------------------------
(* What the reader has still to take. *)

LEMMA Assoc ==
  ASSUME NEW s \in Seq(Proper), NEW t \in Seq(Proper), NEW r \in Seq(Proper)
  PROVE  (s \o t) \o r = s \o (t \o r)
BY ConcatAssociative

LEMMA RestSeq ==
  ASSUME NodeT
  PROVE  /\ Rest \in Seq(Proper) /\ Len(Rest) = Len(buf) + Len(wire)
         /\ Len(buf) \in Nat /\ Len(wire) \in Nat /\ Len(Rest) \in Nat
         /\ \A i \in 1..Len(buf) : i \in 1..Len(Rest) /\ Rest[i] = buf[i]
         /\ \A i \in 1..Len(wire) : Rest[Len(buf) + i] = wire[i]
<1>1. buf \in Seq(Proper) /\ wire \in Seq(Proper) /\ Len(buf) \in Nat /\ Len(wire) \in Nat
  BY LenProperties DEF NodeT
<1>2. /\ Rest \in Seq(Proper) /\ Len(Rest) = Len(buf) + Len(wire)
      /\ \A i \in 1..(Len(buf) + Len(wire)) :
           Rest[i] = IF i <= Len(buf) THEN buf[i] ELSE wire[i - Len(buf)]
  BY <1>1, ConcatProperties DEF Rest
<1>3. \A i \in 1..Len(buf) : i \in 1..(Len(buf) + Len(wire)) /\ i <= Len(buf)
  BY <1>1
<1>4. \A i \in 1..Len(wire) : /\ Len(buf) + i \in 1..(Len(buf) + Len(wire)) /\ ~(Len(buf) + i <= Len(buf))
                               /\ (Len(buf) + i) - Len(buf) = i
  BY <1>1
<1>5. \A i \in 1..Len(buf) : i \in 1..Len(Rest) /\ Rest[i] = buf[i]
  BY <1>2, <1>3
<1>6. \A i \in 1..Len(wire) : Rest[Len(buf) + i] = wire[i]
  BY <1>2, <1>4
<1>7. Len(Rest) \in Nat
  BY <1>1, <1>2
<1> QED
  BY <1>1, <1>2, <1>5, <1>6, <1>7

LEMMA RestDrains ==
  ASSUME NodeT, NEW n \in 0..Len(buf), buf' = SubSeq(buf, n + 1, Len(buf)), UNCHANGED wire
  PROVE  /\ Rest' = SubSeq(Rest, n + 1, Len(Rest)) /\ n \in 0..Len(Rest)
         /\ Rest' \in Seq(Proper) /\ Len(Rest') = Len(Rest) - n
         /\ \A i \in 1..Len(Rest') : Rest'[i] = Rest[n + i]
<1>1. /\ buf \in Seq(Proper) /\ wire \in Seq(Proper) /\ Rest \in Seq(Proper)
      /\ Len(Rest) = Len(buf) + Len(wire) /\ Len(buf) \in Nat /\ Len(wire) \in Nat
  BY RestSeq DEF NodeT
<1>2. n \in 0..Len(Rest) /\ n \in Nat
  BY <1>1
<1>3. /\ buf' \in Seq(Proper) /\ Len(buf') = Len(buf) - n
      /\ \A i \in 1..(Len(buf) - n) : buf'[i] = buf[n + i]
  BY <1>1, Cuts
<1> DEFINE t == SubSeq(Rest, n + 1, Len(Rest))
<1>4. t \in Seq(Proper) /\ Len(t) = Len(Rest) - n /\ \A i \in 1..(Len(Rest) - n) : t[i] = Rest[n + i]
  BY <1>1, <1>2, Cuts
<1> HIDE DEF t
<1>5. /\ Rest' \in Seq(Proper) /\ Len(Rest') = Len(buf') + Len(wire)
      /\ \A i \in 1..(Len(buf') + Len(wire)) :
           Rest'[i] = IF i <= Len(buf') THEN buf'[i] ELSE wire[i - Len(buf')]
  BY <1>1, <1>3, ConcatProperties DEF Rest
<1>6. Len(Rest') = Len(Rest) - n
  BY <1>1, <1>2, <1>3, <1>5
<1>7. ASSUME NEW i \in 1..Len(Rest') PROVE Rest'[i] = Rest[n + i]
  <2>1. i \in 1..(Len(Rest) - n) /\ i \in Nat
    BY <1>1, <1>2, <1>6
  <2>2. CASE i <= Len(buf) - n
    <3>1. i \in 1..(Len(buf) - n) /\ n + i \in 1..Len(buf)
      BY <1>1, <1>2, <2>1, <2>2
    <3>2. Rest[n + i] = buf[n + i]
      BY <3>1, RestSeq
    <3> QED
      BY <1>3, <1>5, <2>2, <3>1, <3>2
  <2>3. CASE ~(i <= Len(buf) - n)
    <3> DEFINE j == i - (Len(buf) - n)
    <3>1. j \in 1..Len(wire) /\ n + i = Len(buf) + j
      BY <1>1, <1>2, <2>1, <2>3
    <3>3. i - Len(buf') = j
      BY <1>3
    <3>2. Rest[Len(buf) + j] = wire[j]
      BY <3>1, RestSeq
    <3> HIDE DEF j
    <3>4. i \in 1..(Len(buf') + Len(wire)) /\ ~(i <= Len(buf'))
      BY <1>3, <1>5, <2>3
    <3>5. Rest'[i] = wire[i - Len(buf')]
      BY <1>5, <3>4
    <3> QED
      BY <3>1, <3>2, <3>3, <3>5
  <2> QED
    BY <2>2, <2>3
<1>8. Rest' = t
  <2>1. \A i \in 1..Len(Rest') : Rest'[i] = t[i]
    BY <1>4, <1>6, <1>7
  <2> QED
    BY <1>4, <1>5, <1>6, <2>1, SeqEqual
<1> QED
  BY <1>2, <1>5, <1>6, <1>7, <1>8 DEF t

LEMMA RestGrows ==
  ASSUME NodeT, NEW m \in Seq(Proper), wire' = wire \o m, UNCHANGED buf
  PROVE  /\ Rest' = Rest \o m /\ Rest' \in Seq(Proper) /\ Len(Rest') = Len(Rest) + Len(m)
         /\ Len(m) \in Nat /\ \A i \in 1..Len(Rest) : Rest'[i] = Rest[i]
         /\ \A i \in 1..Len(m) : Rest'[Len(Rest) + i] = m[i]
<1>1. buf \in Seq(Proper) /\ wire \in Seq(Proper) /\ Rest \in Seq(Proper) /\ Len(Rest) \in Nat
  BY RestSeq DEF NodeT
<1>2. Rest' = Rest \o m
  <2>1. Rest' = buf \o (wire \o m)
    BY DEF Rest
  <2>2. buf \in Seq(Proper) /\ wire \in Seq(Proper) /\ m \in Seq(Proper)
    BY <1>1
  <2>3. (buf \o wire) \o m = buf \o (wire \o m)
    BY <2>2, Assoc
  <2> QED
    BY <2>1, <2>3 DEF Rest
<1>3. Len(m) \in Nat
  BY LenProperties
<1>4. /\ Rest' \in Seq(Proper) /\ Len(Rest') = Len(Rest) + Len(m)
      /\ \A i \in 1..(Len(Rest) + Len(m)) :
           Rest'[i] = IF i <= Len(Rest) THEN Rest[i] ELSE m[i - Len(Rest)]
  BY <1>1, <1>2, ConcatProperties
<1>5. \A i \in 1..Len(Rest) : i \in 1..(Len(Rest) + Len(m)) /\ i <= Len(Rest)
  BY <1>1, <1>3
<1>6. \A i \in 1..Len(m) : /\ Len(Rest) + i \in 1..(Len(Rest) + Len(m)) /\ ~(Len(Rest) + i <= Len(Rest))
                            /\ (Len(Rest) + i) - Len(Rest) = i
  BY <1>1, <1>3
<1> QED
  BY <1>2, <1>3, <1>4, <1>5, <1>6

LEMMA RestRead ==
  ASSUME NodeT, Read
  PROVE  Rest' = Rest
<1>1. buf \in Seq(Proper) /\ wire \in Seq(Proper) /\ Len(wire) \in Nat
  BY RestSeq DEF NodeT
<1>2. PICK n \in 1..Len(wire) : /\ wire' = SubSeq(wire, n + 1, Len(wire))
                                 /\ buf' = buf \o SubSeq(wire, 1, n)
  BY DEF Read
<1>3. n \in 0..Len(wire)
  BY <1>1
<1>4. SubSeq(wire, 1, n) \in Seq(Proper) /\ SubSeq(wire, n + 1, Len(wire)) \in Seq(Proper)
  BY <1>1, <1>3, Cuts
<1>5. SubSeq(wire, 1, n) \o SubSeq(wire, n + 1, Len(wire)) = wire
  <2>1. 1 \in 1..(Len(wire) + 1) /\ n \in 0..Len(wire) /\ Len(wire) \in n..Len(wire)
    BY <1>1, <1>3
  <2>2. SubSeq(wire, 1, n) \o SubSeq(wire, n + 1, Len(wire)) = SubSeq(wire, 1, Len(wire))
    BY <1>1, <2>1, ConcatAdjacentSubSeq
  <2> QED
    BY <1>1, <2>2, SubSeqFull
<1>6. Rest' = buf \o (SubSeq(wire, 1, n) \o SubSeq(wire, n + 1, Len(wire)))
  <2>1. Rest' = (buf \o SubSeq(wire, 1, n)) \o SubSeq(wire, n + 1, Len(wire))
    BY <1>2 DEF Rest
  <2>2. buf \in Seq(Proper) /\ SubSeq(wire, 1, n) \in Seq(Proper)
        /\ SubSeq(wire, n + 1, Len(wire)) \in Seq(Proper)
    BY <1>1, <1>4
  <2>3. (buf \o SubSeq(wire, 1, n)) \o SubSeq(wire, n + 1, Len(wire))
          = buf \o (SubSeq(wire, 1, n) \o SubSeq(wire, n + 1, Len(wire)))
    BY <2>2, Assoc
  <2> QED
    BY <2>1, <2>3
<1> QED
  BY <1>5, <1>6 DEF Rest

-----------------------------------------------------------------------------
(* Commands are in one place. *)

LEMMA OccursIn ==
  ASSUME NEW c, NEW s \in Seq(Proper), NEW t \in Seq(Proper)
  PROVE  Occurs(c, s \o t) <=> Occurs(c, s) \/ Occurs(c, t)
<1>1. /\ Len(s) \in Nat /\ Len(t) \in Nat /\ Len(s \o t) = Len(s) + Len(t)
      /\ \A i \in 1..(Len(s) + Len(t)) : (s \o t)[i] = IF i <= Len(s) THEN s[i] ELSE t[i - Len(s)]
  BY LenProperties, ConcatProperties
<1>2. ASSUME NEW i \in 1..Len(s) PROVE i \in 1..Len(s \o t) /\ (s \o t)[i] = s[i]
  <2>1. i \in 1..(Len(s) + Len(t)) /\ i <= Len(s)
    BY <1>1
  <2> QED
    BY <1>1, <2>1
<1>3. ASSUME NEW i \in 1..Len(t)
      PROVE  Len(s) + i \in 1..Len(s \o t) /\ (s \o t)[Len(s) + i] = t[i]
  <2>1. /\ Len(s) + i \in 1..(Len(s) + Len(t)) /\ ~(Len(s) + i <= Len(s))
        /\ (Len(s) + i) - Len(s) = i
    BY <1>1
  <2> QED
    BY <1>1, <2>1
<1>4. ASSUME NEW i \in 1..Len(s \o t)
      PROVE  i \in 1..Len(s) \/ \E j \in 1..Len(t) : i = Len(s) + j
  <2>1. CASE i <= Len(s)
    BY <1>1, <2>1
  <2>2. CASE ~(i <= Len(s))
    <3>1. i - Len(s) \in 1..Len(t) /\ i = Len(s) + (i - Len(s))
      BY <1>1, <2>2
    <3> QED
      BY <3>1
  <2> QED
    BY <2>1, <2>2
<1>5. Occurs(c, s) \/ Occurs(c, t) => Occurs(c, s \o t)
  BY <1>2, <1>3 DEF Occurs
<1>6. Occurs(c, s \o t) => Occurs(c, s) \/ Occurs(c, t)
  BY <1>2, <1>3, <1>4 DEF Occurs
<1> QED
  BY <1>5, <1>6

\* The cleanup of a file cuts off no command: the last message stays or is the
\* file's own end_file.
LEMMA CleanedOccurs ==
  ASSUME NEW c, NEW f, NEW s \in Seq(Proper)
  PROVE  Occurs(c, Cleaned(f, s)) <=> Occurs(c, s)
<1>1. CASE Cleaned(f, s) = s
  BY <1>1
<1>2. CASE Cleaned(f, s) # s
  <2> DEFINE l == LastJson(s)
             cut == SubSeq(s, 1, l - 1)
  <2>1. /\ \E i \in 1..Len(s) : s[i].kind \in JsonKinds
        /\ s[l] = Sym("end", f)
        /\ Cleaned(f, s) = cut \/ Cleaned(f, s) = Append(cut, Junk)
    BY <1>2 DEF Cleaned
  <2>2. l \in 1..Len(s) /\ \A j \in (l + 1)..Len(s) : s[j].kind \notin JsonKinds
    BY <2>1, LastMessage
  <2> HIDE DEF l
  <2>3. Len(s) \in Nat /\ l - 1 \in 0..Len(s) /\ l \in Nat
    BY <2>2, LenProperties
  <2>4. cut \in Seq(Proper) /\ Len(cut) = l - 1 /\ \A i \in 1..(l - 1) : cut[i] = s[i]
    BY <2>3, Cuts
  <2> HIDE DEF cut
  <2>5. Append(cut, Junk) = cut \o <<Junk>> /\ <<Junk>> \in Seq(Proper)
    BY <2>4, Symbols, AppendIsConcat
  <2>6. ~Occurs(c, <<Junk>>)
    BY DEF Occurs, Junk, Sym
  <2>7. Occurs(c, Cleaned(f, s)) <=> Occurs(c, cut)
    <3>1. Occurs(c, cut \o <<Junk>>) <=> Occurs(c, cut) \/ Occurs(c, <<Junk>>)
      BY <2>4, <2>5, OccursIn
    <3> QED
      BY <2>1, <2>5, <2>6, <3>1
  <2>8. ASSUME NEW i \in 1..Len(s), s[i] = Sym("command", c) PROVE i \in 1..(l - 1)
    <3>1. i # l
      BY <2>1, <2>8 DEF Sym
    <3>2. s[i].kind \in JsonKinds
      BY <2>8 DEF Sym, JsonKinds
    <3>3. ~(i \in (l + 1)..Len(s))
      BY <2>2, <3>2
    <3> QED
      BY <2>2, <2>3, <3>1, <3>3
  <2>9. \A i \in 1..(l - 1) : i \in 1..Len(s)
    BY <2>3
  <2>10. Occurs(c, s) <=> Occurs(c, cut)
    BY <2>4, <2>8, <2>9 DEF Occurs
  <2> QED
    BY <2>7, <2>10
<1> QED
  BY <1>1, <1>2

LEMMA SpotsOf ==
  ASSUME NEW c
  PROVE  /\ \A p : p \in Spots(c) <=>
              \/ \E i \in 1..Len(Rest) : Rest[i] = Cmd(c) /\ p = <<"rest", i>>
              \/ \E i \in 1..Len(chan) : Occurs(c, chan[i]) /\ p = <<"chan", i>>
              \/ p \in Off(c)
         /\ \A p : p \in Spots(c)' <=>
              \/ \E i \in 1..Len(Rest') : Rest'[i] = Cmd(c) /\ p = <<"rest", i>>
              \/ \E i \in 1..Len(chan') : Occurs(c, chan'[i]) /\ p = <<"chan", i>>
              \/ p \in Off(c)'
         /\ \A p \in Off(c) \cup Off(c)' : \A i : p # <<"rest", i>> /\ p # <<"chan", i>>
<1>1. Cmd(c)' = Cmd(c)
  BY DEF Cmd, Sym
<1>2. \A p : p \in Spots(c) <=>
        \/ \E i \in 1..Len(Rest) : Rest[i] = Cmd(c) /\ p = <<"rest", i>>
        \/ \E i \in 1..Len(chan) : Occurs(c, chan[i]) /\ p = <<"chan", i>>
        \/ p \in Off(c)
  BY DEF Spots
<1>3. \A p : p \in Spots(c)' <=>
        \/ \E i \in 1..Len(Rest') : Rest'[i] = Cmd(c) /\ p = <<"rest", i>>
        \/ \E i \in 1..Len(chan') : Occurs(c, chan'[i]) /\ p = <<"chan", i>>
        \/ p \in Off(c)'
  BY <1>1 DEF Spots, Occurs, Sym
<1>4. \A p \in Off(c) \cup Off(c)' : \A i : p # <<"rest", i>> /\ p # <<"chan", i>>
  BY DEF Off
<1> QED
  BY <1>2, <1>3, <1>4

LEMMA SpotsAt ==
  ASSUME NEW c
  PROVE  /\ \A i \in 1..Len(Rest) : Rest[i] = Cmd(c) => <<"rest", i>> \in Spots(c)
         /\ \A i \in 1..Len(chan) : Occurs(c, chan[i]) => <<"chan", i>> \in Spots(c)
         /\ Off(c) \subseteq Spots(c)
         /\ \A i \in 1..Len(Rest') : Rest'[i] = Cmd(c) => <<"rest", i>> \in Spots(c)'
         /\ \A i \in 1..Len(chan') : Occurs(c, chan'[i]) => <<"chan", i>> \in Spots(c)'
         /\ Off(c)' \subseteq Spots(c)'
BY SpotsOf

LEMMA RestSpot ==
  ASSUME NEW c, NEW i \in 1..Len(Rest), <<"rest", i>> \in Spots(c)
  PROVE  Rest[i] = Cmd(c)
<1>1. \A j : <<"rest", i>> # <<"chan", j>>
  OBVIOUS
<1>2. <<"rest", i>> \notin Off(c)
  BY SpotsOf
<1>3. \A j \in 1..Len(Rest) : <<"rest", i>> = <<"rest", j>> => i = j
  OBVIOUS
<1> QED
  BY <1>1, <1>2, <1>3, SpotsOf

\* Commands among the first n symbols the reader has still to take.
Taken(n) == {c \in Nat \ {0} : \E i \in 1..n : Rest[i] = Cmd(c)}
Takes(n, t) ==
  \A c \in Nat \ {0} :
    /\ \A p \in Off(c)' : p \in Off(c) \/ (p = t /\ c \in Taken(n))
    /\ Off(c) # {} \/ c \in Taken(n) => Gone' \/ Off(c)' # {}

\* The reader takes the first symbols it has; a command among them goes to one
\* new place.
LEMMA DrainO ==
  ASSUME TInv, OInv, NEW n \in 0..Len(buf), buf' = SubSeq(buf, n + 1, Len(buf)),
         UNCHANGED <<wire, chan, commands>>, spoilt \subseteq spoilt', NEW t,
         \A j : t # <<"rest", j>> /\ t # <<"chan", j>>,
         Takes(n, t)
  PROVE  OInv'
<1>8. ASSUME NEW c \in Nat \ {0}
      PROVE  /\ c \in Taken(n) <=> \E i \in 1..n : Rest[i] = Cmd(c)
             /\ \A p \in Off(c)' : p \in Off(c) \/ (p = t /\ c \in Taken(n))
             /\ Off(c) # {} \/ c \in Taken(n) => Gone' \/ Off(c)' # {}
  BY DEF Takes, Taken
<1>1. /\ NodeT /\ Len(Rest) \in Nat /\ n \in 0..Len(Rest) /\ Len(Rest') = Len(Rest) - n
      /\ \A i \in 1..Len(Rest') : Rest'[i] = Rest[n + i]
  <2>1. NodeT
    BY DEF TInv
  <2> QED
    BY <2>1, RestDrains, RestSeq
<1>2. /\ \A i \in 1..Len(Rest') : n + i \in 1..Len(Rest)
      /\ \A i \in 1..n : i \in 1..Len(Rest)
      /\ \A i \in 1..Len(Rest) : i \in 1..n \/ \E j \in 1..Len(Rest') : i = n + j
      /\ \A i \in 1..Len(Rest'), j \in 1..n : n + i # j
      /\ \A i, j \in 1..Len(Rest') : n + i = n + j => i = j
  <2> DEFINE r == Len(Rest)
             s == Len(Rest')
  <2>1. r \in Nat /\ n \in 0..r /\ s = r - n
    BY <1>1
  <2> HIDE DEF r, s
  <2>2. n \in Nat /\ s \in Nat
    BY <2>1
  <2>3. ASSUME NEW i \in 1..r, i \notin 1..n PROVE \E j \in 1..s : i = n + j
    <3>1. i - n \in 1..s /\ i = n + (i - n)
      BY <2>1, <2>3
    <3> QED
      BY <3>1
  <2>4. /\ \A i \in 1..s : n + i \in 1..r
        /\ \A i \in 1..n : i \in 1..r
    BY <2>1
  <2>5. /\ \A i \in 1..s, j \in 1..n : n + i # j
        /\ \A i, j \in 1..s : n + i = n + j => i = j
    BY <2>2
  <2> QED
    BY <2>3, <2>4, <2>5 DEF r, s
<1>3. ASSUME NEW c \in Nat \ {0}, NEW p \in Spots(c)'
      PROVE  \/ \E i \in 1..Len(Rest') : p = <<"rest", i>> /\ <<"rest", n + i>> \in Spots(c)
             \/ p \in Spots(c) /\ \A i : p # <<"rest", i>>
             \/ p = t /\ \E i \in 1..n : <<"rest", i>> \in Spots(c)
  <2>1. ASSUME NEW i \in 1..Len(Rest'), Rest'[i] = Cmd(c), p = <<"rest", i>>
        PROVE  <<"rest", n + i>> \in Spots(c)
    <3>1. n + i \in 1..Len(Rest) /\ Rest[n + i] = Cmd(c)
      BY <1>1, <1>2, <2>1
    <3> QED
      BY <3>1, SpotsOf
  <2>2. ASSUME NEW i \in 1..Len(chan), Occurs(c, chan[i]), p = <<"chan", i>>
        PROVE  p \in Spots(c) /\ \A j : p # <<"rest", j>>
    BY <2>2, SpotsOf
  <2>3. ASSUME p \in Off(c) PROVE p \in Spots(c) /\ \A j : p # <<"rest", j>>
    BY <2>3, SpotsOf
  <2>4. ASSUME NEW i \in 1..n, Rest[i] = Cmd(c) PROVE <<"rest", i>> \in Spots(c)
    <3>1. i \in 1..Len(Rest)
      BY <1>2
    <3> QED
      BY <2>4, <3>1, SpotsOf
  <2>5. \/ \E i \in 1..Len(Rest') : Rest'[i] = Cmd(c) /\ p = <<"rest", i>>
        \/ \E i \in 1..Len(chan) : Occurs(c, chan[i]) /\ p = <<"chan", i>>
        \/ p \in Off(c)'
    BY SpotsOf
  <2>6. p \in Off(c)' => p \in Off(c) \/ (p = t /\ \E i \in 1..n : Rest[i] = Cmd(c))
    BY <1>8
  <2> QED
    BY <2>1, <2>2, <2>3, <2>4, <2>5, <2>6
<1>4. ASSUME NEW c \in Nat \ {0}, c > commands' PROVE Spots(c)' = {}
  <2>1. Spots(c) = {}
    BY <1>4 DEF OInv
  <2> QED
    BY <1>3, <2>1
<1>5. ASSUME NEW c \in Nat \ {0}, NEW p \in Spots(c)', NEW q \in Spots(c)' PROVE p = q
  <2>1. \A v, w \in Spots(c) : v = w
    BY DEF OInv
  <2>2. \A i, j : <<"rest", i>> \in Spots(c) /\ <<"rest", j>> \in Spots(c) => i = j
    BY <2>1
  <2>3. ASSUME NEW i \in 1..Len(Rest'), p = <<"rest", i>>, <<"rest", n + i>> \in Spots(c)
        PROVE  p = q
    BY <1>2, <1>3, <2>1, <2>2, <2>3
  <2>4. ASSUME p \in Spots(c), \A i : p # <<"rest", i>> PROVE p = q
    BY <1>3, <2>1, <2>4
  <2>5. ASSUME NEW i \in 1..n, p = t, <<"rest", i>> \in Spots(c) PROVE p = q
    BY <1>2, <1>3, <2>1, <2>2, <2>5
  <2> QED
    BY <1>3, <2>3, <2>4, <2>5
<1>6. ASSUME NEW c \in 1..commands', ~Gone' PROVE Spots(c)' # {}
  <2>0. commands' = commands /\ commands \in Nat /\ (Gone => Gone')
    BY <1>1 DEF Gone, NodeT
  <2>1. c \in Nat \ {0} /\ c \in 1..commands /\ ~Gone
    BY <1>6, <2>0
  <2>2. PICK p \in Spots(c) : TRUE
    BY <2>1 DEF OInv
  <2>3. ASSUME NEW i \in 1..Len(Rest), Rest[i] = Cmd(c) PROVE Spots(c)' # {}
    <3>1. ASSUME i \in 1..n PROVE Spots(c)' # {}
      <4>1. Off(c)' # {}
        BY <1>6, <1>8, <2>1, <2>3, <3>1
      <4> QED
        BY <4>1, SpotsAt
    <3>2. ASSUME NEW j \in 1..Len(Rest'), i = n + j PROVE Spots(c)' # {}
      <4>1. Rest'[j] = Cmd(c)
        BY <1>1, <2>3, <3>2
      <4> QED
        BY <4>1, SpotsAt
    <3> QED
      BY <1>2, <3>1, <3>2
  <2>4. ASSUME NEW i \in 1..Len(chan), Occurs(c, chan[i]) PROVE Spots(c)' # {}
    BY <2>4, SpotsAt
  <2>5. ASSUME p \in Off(c) PROVE Spots(c)' # {}
    <3>1. Off(c)' # {}
      BY <1>6, <1>8, <2>1, <2>5
    <3> QED
      BY <3>1, SpotsAt
  <2> QED
    BY <2>2, <2>3, <2>4, <2>5, SpotsOf
<1>7. Single'
  BY DEF OInv, Single
<1> QED
  BY <1>4, <1>5, <1>6, <1>7 DEF OInv

LEMMA BroadcastSeq ==
  ASSUME NodeT, ~closed, NEW m \in Seq(Proper), NEW spoils, Broadcast(m, spoils)
  PROVE  \E o \in {0, 1} :
           /\ o <= Len(chan) /\ Len(chan) \in Nat /\ Len(chan') = (Len(chan) - o) + 1
           /\ \A j \in 1..(Len(chan) - o) : chan'[j] = chan[j + o]
           /\ chan'[(Len(chan) - o) + 1] = m
           /\ o = 1 => "lag" \in spoilt'
           /\ o = 0 => spoilt' = spoilt \cup spoils
           /\ spoilt \cup spoils \subseteq spoilt'
<1>1. /\ chan \in Seq(Seq(Proper)) /\ Len(chan) \in Nat /\ Capacity \in Nat \ {0}
  BY LenProperties, TransferAssumption DEF NodeT
<1>2. CASE Full
  <2>1. chan # <<>> /\ Len(chan) >= 1
    BY <1>1, <1>2, EmptySeq DEF Full
  <2>2. /\ Tail(chan) \in Seq(Seq(Proper)) /\ Len(Tail(chan)) = Len(chan) - 1
        /\ \A j \in 1..Len(Tail(chan)) : Tail(chan)[j] = chan[j + 1]
    BY <1>1, <2>1, HeadTailProperties
  <2>3. chan' = Append(Tail(chan), m) /\ "lag" \in spoilt' /\ spoilt \cup spoils \subseteq spoilt'
    BY <1>2 DEF Broadcast
  <2>4. /\ Len(chan') = Len(Tail(chan)) + 1 /\ chan'[Len(Tail(chan)) + 1] = m
        /\ \A j \in 1..Len(Tail(chan)) : chan'[j] = Tail(chan)[j]
    BY <2>2, <2>3, AppendProperties
  <2>5. /\ Len(chan') = (Len(chan) - 1) + 1 /\ chan'[(Len(chan) - 1) + 1] = m
        /\ \A j \in 1..(Len(chan) - 1) : chan'[j] = chan[j + 1]
    BY <2>2, <2>4
  <2>6. 1 <= Len(chan) /\ ~(1 = 0) /\ 1 \in {0, 1}
    BY <2>1
  <2> WITNESS 1 \in {0, 1}
  <2> QED
    BY <1>1, <2>3, <2>5, <2>6
<1>3. CASE ~Full
  <2>1. chan' = Append(chan, m) /\ spoilt' = spoilt \cup spoils
    BY <1>3 DEF Broadcast
  <2>2. Len(chan') = Len(chan) + 1 /\ chan'[Len(chan) + 1] = m
        /\ \A j \in 1..Len(chan) : chan'[j] = chan[j]
    BY <1>1, <2>1, AppendProperties
  <2>3. Len(chan) - 0 = Len(chan) /\ (\A j \in 1..Len(chan) : j + 0 = j) /\ 0 <= Len(chan)
    BY <1>1
  <2>4. /\ Len(chan') = (Len(chan) - 0) + 1 /\ chan'[(Len(chan) - 0) + 1] = m
        /\ \A j \in 1..(Len(chan) - 0) : chan'[j] = chan[j + 0]
    BY <2>2, <2>3
  <2>5. ~(0 = 1) /\ 0 \in {0, 1} /\ 0 <= Len(chan) /\ spoilt \cup spoils \subseteq spoilt'
    BY <2>1, <2>3
  <2> WITNESS 0 \in {0, 1}
  <2> QED
    BY <1>1, <2>1, <2>4, <2>5
<1> QED
  BY <1>2, <1>3

LEMMA LinkSeq ==
  ASSUME TInv, LinkWrites
  PROVE  /\ Len(chan) \in Nat /\ Len(chan) >= 1 /\ Len(chan') = Len(chan) - 1
         /\ \A j \in 1..Len(chan') : j + 1 \in 1..Len(chan) /\ chan'[j] = chan[j + 1]
         /\ chan[1] \in Seq(Proper) /\ Len(chan[1]) \in Nat
         /\ Len(Rest) \in Nat /\ Len(Rest') = Len(Rest) + Len(chan[1]) + 1
         /\ \A i \in 1..Len(Rest) : Rest'[i] = Rest[i]
         /\ \A i \in 1..Len(chan[1]) : Rest'[Len(Rest) + i] = chan[1][i]
         /\ Rest'[Len(Rest) + Len(chan[1]) + 1] = Newline
<1>1. NodeT /\ chan # <<>> /\ chan' = Tail(chan) /\ wire' = wire \o Head(chan) \o <<Newline>>
      /\ UNCHANGED buf
  BY DEF TInv, LinkWrites, nodeVars
<1>2. chan \in Seq(Seq(Proper)) /\ Len(chan) \in Nat \ {0} /\ Len(Rest) \in Nat /\ wire \in Seq(Proper)
  BY <1>1, EmptySeq, RestSeq DEF NodeT
<1>3. /\ Len(chan') = Len(chan) - 1 /\ \A j \in 1..Len(chan') : chan'[j] = chan[j + 1]
      /\ Head(chan) \in Seq(Proper)
  BY <1>1, <1>2, HeadTailProperties
<1>4. Head(chan) = chan[1] /\ chan[1] \in Seq(Proper) /\ Len(chan[1]) \in Nat
  <2>1. Head(chan) = chan[1]
    BY <1>2
  <2> QED
    BY <1>3, <2>1, LenProperties
<1> DEFINE h == chan[1]
           m == h \o <<Newline>>
<1>5. /\ <<Newline>> \in Seq(Proper) /\ Len(<<Newline>>) = 1 /\ <<Newline>>[1] = Newline
  BY Symbols
<1>6. /\ m \in Seq(Proper) /\ Len(m) = Len(h) + 1
      /\ \A i \in 1..(Len(h) + 1) : m[i] = IF i <= Len(h) THEN h[i] ELSE <<Newline>>[i - Len(h)]
  BY <1>4, <1>5, ConcatProperties
<1>7. wire' = wire \o m
  <2>1. wire' = (wire \o h) \o <<Newline>>
    BY <1>1, <1>4
  <2> QED
    BY <1>2, <1>4, <1>5, <2>1, Assoc
<1> HIDE DEF h, m
<1>8. Len(h) \in Nat
  BY <1>4 DEF h
<1>9. \A i \in 1..Len(h) : i \in 1..Len(m) /\ m[i] = h[i]
  BY <1>6, <1>8
<1>10. Len(h) + 1 \in 1..Len(m) /\ m[Len(h) + 1] = Newline
  <2>1. Len(h) + 1 \in 1..(Len(h) + 1) /\ ~(Len(h) + 1 <= Len(h)) /\ (Len(h) + 1) - Len(h) = 1
    BY <1>8
  <2> QED
    BY <1>5, <1>6, <2>1
<1>11. /\ Len(Rest') = Len(Rest) + Len(m)
       /\ \A i \in 1..Len(Rest) : Rest'[i] = Rest[i]
       /\ \A i \in 1..Len(m) : Rest'[Len(Rest) + i] = m[i]
  BY <1>1, <1>6, <1>7, RestGrows
<1>12. /\ Len(Rest') = Len(Rest) + Len(h) + 1
       /\ \A i \in 1..Len(h) : Rest'[Len(Rest) + i] = h[i]
       /\ Rest'[Len(Rest) + Len(h) + 1] = Newline
  <2>1. /\ Len(Rest) + (Len(h) + 1) = Len(Rest) + Len(h) + 1
    BY <1>2, <1>8
  <2> QED
    BY <1>6, <1>9, <1>10, <1>11, <2>1
<1>13. \A j \in 1..Len(chan') : j + 1 \in 1..Len(chan)
  BY <1>2, <1>3
<1> QED
  BY <1>2, <1>3, <1>4, <1>11, <1>12, <1>13 DEF h

\* A message joins the channel; if it is a command, a new one.
LEMMA BroadcastO ==
  ASSUME TInv, OInv, ~closed, NEW m \in Seq(Proper), NEW spoils, Broadcast(m, spoils),
         UNCHANGED <<wire, buf, disk, handled>>,
         (\E i \in 1..Len(m) : m[i].kind \in {"start", "command"}) => Len(m) = 1,
         \/ commands' = commands /\ \A i \in 1..Len(m) : m[i].kind # "command"
         \/ commands' = commands + 1 /\ m = <<Cmd(commands + 1)>>
  PROVE  OInv'
<1>1. NodeT /\ commands \in Nat
  BY TransferAssumption DEF TInv, NodeT
<1>2. PICK o \in {0, 1} :
        /\ o <= Len(chan) /\ Len(chan) \in Nat /\ Len(chan') = (Len(chan) - o) + 1
        /\ \A j \in 1..(Len(chan) - o) : chan'[j] = chan[j + o]
        /\ chan'[(Len(chan) - o) + 1] = m
        /\ o = 1 => "lag" \in spoilt'
        /\ spoilt \subseteq spoilt'
  BY <1>1, BroadcastSeq
<1> DEFINE k == Len(chan) - o
<1>3. /\ k \in Nat /\ Len(chan') = k + 1 /\ chan'[k + 1] = m
      /\ \A j \in 1..k : j + o \in 1..Len(chan) /\ chan'[j] = chan[j + o]
      /\ \A j \in 1..Len(chan') : j \in 1..k \/ j = k + 1
      /\ \A j \in 1..Len(chan) : j = o \/ \E l \in 1..k : j = l + o
  <2>1. k \in Nat /\ \A j \in 1..k : j + o \in 1..Len(chan)
    BY <1>2
  <2>2. ASSUME NEW j \in 1..Len(chan), j # o PROVE \E l \in 1..k : j = l + o
    <3>1. j - o \in 1..k /\ j = (j - o) + o
      BY <1>2, <2>2
    <3> QED
      BY <3>1
  <2>3. \A j \in 1..Len(chan') : j \in 1..k \/ j = k + 1
    BY <1>2, <2>1
  <2> QED
    BY <1>2, <2>1, <2>2, <2>3
<1> HIDE DEF k
<1>4. Rest' = Rest /\ \A c : Off(c)' = Off(c)
  BY DEF Rest, Off, Occurs, Sym
<1>5. ASSUME NEW c \in Nat \ {0}, NEW p \in Spots(c)'
      PROVE  \/ p \in Spots(c) /\ \A j : p # <<"chan", j>>
             \/ \E j \in 1..k : p = <<"chan", j>> /\ <<"chan", j + o>> \in Spots(c)
             \/ p = <<"chan", k + 1>> /\ Occurs(c, m)
  <2>1. ASSUME NEW i \in 1..Len(Rest), Rest[i] = Cmd(c), p = <<"rest", i>>
        PROVE  p \in Spots(c) /\ \A j : p # <<"chan", j>>
    BY <2>1, SpotsOf
  <2>2. ASSUME p \in Off(c) PROVE p \in Spots(c) /\ \A j : p # <<"chan", j>>
    BY <2>2, SpotsOf
  <2>3. ASSUME NEW j \in 1..k, Occurs(c, chan'[j]) PROVE <<"chan", j + o>> \in Spots(c)
    <3>1. j + o \in 1..Len(chan) /\ Occurs(c, chan[j + o])
      BY <1>3, <2>3
    <3> QED
      BY <3>1, SpotsOf
  <2>4. \/ \E i \in 1..Len(Rest) : Rest[i] = Cmd(c) /\ p = <<"rest", i>>
        \/ \E i \in 1..Len(chan') : Occurs(c, chan'[i]) /\ p = <<"chan", i>>
        \/ p \in Off(c)
    BY <1>4, SpotsOf
  <2> QED
    BY <1>3, <2>1, <2>2, <2>3, <2>4
<1>6. ASSUME NEW c \in Nat \ {0}
      PROVE  Occurs(c, m) <=> c = commands' /\ commands' = commands + 1
  <2>1. CASE commands' = commands /\ \A i \in 1..Len(m) : m[i].kind # "command"
    <3>1. ~Occurs(c, m)
      BY <2>1 DEF Occurs, Sym
    <3> QED
      BY <1>1, <2>1, <3>1
  <2>2. CASE commands' = commands + 1 /\ m = <<Cmd(commands + 1)>>
    BY <2>2 DEF Occurs, Cmd, Sym
  <2> QED
    BY <2>1, <2>2
<1>7. commands' >= commands /\ commands' \in Nat
  BY <1>1
<1>8. ASSUME NEW c \in Nat \ {0}, c > commands' PROVE Spots(c)' = {}
  <2>1. Spots(c) = {}
    BY <1>1, <1>7, <1>8 DEF OInv
  <2>2. ~Occurs(c, m)
    BY <1>6, <1>8
  <2> QED
    BY <1>5, <2>1, <2>2
<1>9. ASSUME NEW c \in Nat \ {0}, NEW p \in Spots(c)', NEW q \in Spots(c)' PROVE p = q
  <2>1. \A v, w \in Spots(c) : v = w
    BY DEF OInv
  <2>2. CASE Occurs(c, m)
    <3>1. Spots(c) = {}
      BY <1>1, <1>6, <2>2 DEF OInv
    <3> QED
      BY <1>5, <3>1
  <2>3. CASE ~Occurs(c, m)
    <3>1. \A i, j \in 1..k : <<"chan", i + o>> = <<"chan", j + o>> => i = j
      BY <1>3
    <3>2. ASSUME NEW i \in 1..k, p = <<"chan", i>>, <<"chan", i + o>> \in Spots(c)
          PROVE  p = q
      <4>1. ASSUME q \in Spots(c), \A j : q # <<"chan", j>> PROVE FALSE
        BY <2>1, <3>2, <4>1
      <4>2. ASSUME NEW j \in 1..k, q = <<"chan", j>>, <<"chan", j + o>> \in Spots(c)
            PROVE  p = q
        BY <2>1, <3>1, <3>2, <4>2
      <4> QED
        BY <1>5, <2>3, <4>1, <4>2
    <3>3. ASSUME p \in Spots(c), \A j : p # <<"chan", j>> PROVE p = q
      BY <1>5, <2>1, <2>3, <3>3
    <3> QED
      BY <1>5, <2>3, <3>2, <3>3
  <2> QED
    BY <2>2, <2>3
<1>10. ASSUME NEW c \in 1..commands', ~Gone' PROVE Spots(c)' # {}
  <2>1. c \in Nat \ {0} /\ ~Gone /\ o = 0
    BY <1>2, <1>7, <1>10 DEF Gone
  <2>2. CASE Occurs(c, m)
    <3>1. k + 1 \in 1..Len(chan')
      BY <1>3
    <3> QED
      BY <1>3, <2>2, <3>1, SpotsOf
  <2>3. CASE ~Occurs(c, m)
    <3>1. c \in 1..commands
      BY <1>1, <1>6, <1>7, <2>1, <2>3
    <3>2. PICK p \in Spots(c) : TRUE
      BY <2>1, <3>1 DEF OInv
    <3>3. ASSUME NEW j \in 1..Len(chan), Occurs(c, chan[j]) PROVE Spots(c)' # {}
      <4>1. PICK l \in 1..k : j = l + o
        BY <1>3, <2>1
      <4>2. l \in 1..Len(chan') /\ Occurs(c, chan'[l])
        BY <1>3, <3>3, <4>1
      <4> QED
        BY <4>2, SpotsOf
    <3>4. ASSUME NEW i \in 1..Len(Rest), Rest[i] = Cmd(c) PROVE Spots(c)' # {}
      <4>1. i \in 1..Len(Rest') /\ Rest'[i] = Cmd(c)
        BY <1>4, <3>4
      <4> QED
        BY <4>1, SpotsOf
    <3>5. ASSUME p \in Off(c) PROVE Spots(c)' # {}
      BY <1>4, <3>5, SpotsOf
    <3> QED
      BY <3>2, <3>3, <3>4, <3>5, SpotsOf
  <2> QED
    BY <2>2, <2>3
<1>11. Single'
  <2> SUFFICES ASSUME NEW j \in 1..Len(chan'), NEW i \in 1..Len(chan'[j]),
                      chan'[j][i].kind \in {"start", "command"}
               PROVE  Len(chan'[j]) = 1
    BY DEF Single
  <2>1. CASE j \in 1..k
    BY <1>3, <2>1 DEF OInv, Single
  <2>2. CASE j = k + 1
    BY <1>3, <2>2
  <2> QED
    BY <1>3, <2>1, <2>2
<1> QED
  BY <1>8, <1>9, <1>10, <1>11 DEF OInv

\* The link takes the oldest message of the channel, and puts a newline after it.
LEMMA LinkO ==
  ASSUME TInv, OInv, LinkWrites
  PROVE  OInv'
<1> DEFINE r == Len(Rest)
           n == Len(chan[1])
<1>1. /\ Len(chan) \in Nat /\ Len(chan) >= 1 /\ Len(chan') = Len(chan) - 1
      /\ \A j \in 1..Len(chan') : j + 1 \in 1..Len(chan) /\ chan'[j] = chan[j + 1]
      /\ n \in Nat /\ r \in Nat /\ Len(Rest') = r + n + 1
      /\ \A i \in 1..r : Rest'[i] = Rest[i]
      /\ \A i \in 1..n : Rest'[r + i] = chan[1][i]
      /\ Rest'[r + n + 1] = Newline
  BY LinkSeq
<1>2. 1 \in 1..Len(chan) /\ \A j \in 1..Len(chan) : j = 1 \/ \E l \in 1..Len(chan') : j = l + 1
  <2>1. ASSUME NEW j \in 1..Len(chan), j # 1 PROVE \E l \in 1..Len(chan') : j = l + 1
    <3>1. j - 1 \in 1..Len(chan') /\ j = (j - 1) + 1
      BY <1>1, <2>1
    <3> QED
      BY <3>1
  <2> QED
    BY <1>1, <2>1
<1>3. /\ \A i \in 1..Len(Rest') : i \in 1..r \/ (\E l \in 1..n : i = r + l) \/ i = r + n + 1
      /\ \A i \in 1..r : i \in 1..Len(Rest')
      /\ \A i \in 1..n : r + i \in 1..Len(Rest')
  <2> HIDE DEF r, n
  <2>1. ASSUME NEW i \in 1..Len(Rest'), i \notin 1..r, i # r + n + 1
        PROVE  \E l \in 1..n : i = r + l
    <3>1. i - r \in 1..n /\ i = r + (i - r)
      BY <1>1, <2>1
    <3> QED
      BY <3>1
  <2>2. (\A i \in 1..r : i \in 1..Len(Rest')) /\ \A i \in 1..n : r + i \in 1..Len(Rest')
    BY <1>1
  <2> QED
    BY <2>1, <2>2
<1>4. /\ \A c : Off(c)' = Off(c)
      /\ commands' = commands /\ Gone' = Gone
  BY DEF LinkWrites, Off, Occurs, Sym, nodeVars, pastVars, Gone
<1>5. ASSUME NEW c, NEW i \in 1..n, chan[1][i] = Cmd(c)
      PROVE  n = 1 /\ i = 1 /\ Occurs(c, chan[1])
  <2>1. Occurs(c, chan[1])
    BY <1>5 DEF Occurs, Cmd
  <2>2. chan[1][i].kind \in {"start", "command"}
    BY <1>5 DEF Cmd, Sym
  <2>3. n = 1
    BY <1>2, <2>2 DEF OInv, Single
  <2> QED
    BY <2>1, <2>3
<1> HIDE DEF r, n
<1>6. ASSUME NEW c \in Nat \ {0}, NEW p \in Spots(c)'
      PROVE  \/ p \in Spots(c) /\ (\A j : p # <<"chan", j>>) /\ p # <<"rest", r + 1>>
             \/ p = <<"rest", r + 1>> /\ <<"chan", 1>> \in Spots(c)
             \/ \E j \in 1..Len(chan') : p = <<"chan", j>> /\ <<"chan", j + 1>> \in Spots(c)
  <2>1. ASSUME NEW i \in 1..r, Rest'[i] = Cmd(c), p = <<"rest", i>>
        PROVE  p \in Spots(c) /\ (\A j : p # <<"chan", j>>) /\ p # <<"rest", r + 1>>
    <3>1. i # r + 1
      BY <1>1
    <3>2. p # <<"rest", r + 1>> /\ \A j : p # <<"chan", j>>
      BY <2>1, <3>1
    <3> QED
      BY <1>1, <2>1, <3>2, SpotsOf DEF r
  <2>2. ASSUME NEW i \in 1..n, Rest'[r + i] = Cmd(c), p = <<"rest", r + i>>
        PROVE  p = <<"rest", r + 1>> /\ <<"chan", 1>> \in Spots(c)
    <3>1. chan[1][i] = Cmd(c)
      BY <1>1, <2>2
    <3> QED
      BY <1>2, <1>5, <2>2, <3>1, SpotsOf
  <2>3. Rest'[r + n + 1] # Cmd(c)
    BY <1>1 DEF Cmd, Newline, Sym
  <2>4. ASSUME NEW j \in 1..Len(chan'), Occurs(c, chan'[j]) PROVE <<"chan", j + 1>> \in Spots(c)
    <3>1. j + 1 \in 1..Len(chan) /\ Occurs(c, chan[j + 1])
      BY <1>1, <2>4
    <3> QED
      BY <3>1, SpotsOf
  <2>5. ASSUME p \in Off(c)
        PROVE  p \in Spots(c) /\ (\A j : p # <<"chan", j>>) /\ p # <<"rest", r + 1>>
    BY <2>5, SpotsOf
  <2>6. \/ \E i \in 1..Len(Rest') : Rest'[i] = Cmd(c) /\ p = <<"rest", i>>
        \/ \E i \in 1..Len(chan') : Occurs(c, chan'[i]) /\ p = <<"chan", i>>
        \/ p \in Off(c)
    BY <1>4, SpotsOf
  <2>7. ASSUME NEW i \in 1..Len(Rest'), Rest'[i] = Cmd(c), p = <<"rest", i>>
        PROVE  \/ p \in Spots(c) /\ (\A j : p # <<"chan", j>>) /\ p # <<"rest", r + 1>>
               \/ p = <<"rest", r + 1>> /\ <<"chan", 1>> \in Spots(c)
    BY <1>3, <2>1, <2>2, <2>3, <2>7
  <2> QED
    BY <2>4, <2>5, <2>6, <2>7
<1>7. ASSUME NEW c \in Nat \ {0}, c > commands' PROVE Spots(c)' = {}
  <2>1. Spots(c) = {}
    BY <1>4, <1>7 DEF OInv
  <2> QED
    BY <1>6, <2>1
<1>8. ASSUME NEW c \in Nat \ {0}, NEW p \in Spots(c)', NEW q \in Spots(c)' PROVE p = q
  <2>1. \A v, w \in Spots(c) : v = w
    BY DEF OInv
  <2>2. ASSUME NEW j \in 1..Len(chan'), p = <<"chan", j>>, <<"chan", j + 1>> \in Spots(c)
        PROVE  p = q
    <3>1. ASSUME NEW l \in 1..Len(chan'), <<"chan", l + 1>> \in Spots(c) PROVE j = l
      <4>1. <<"chan", j + 1>> = <<"chan", l + 1>>
        BY <2>1, <2>2, <3>1
      <4> QED
        BY <1>1, <4>1
    <3>2. <<"chan", 1>> \notin Spots(c)
      <4>1. <<"chan", j + 1>> # <<"chan", 1>>
        BY <1>1
      <4> QED
        BY <2>1, <2>2, <4>1
    <3>3. ASSUME q \in Spots(c), \A i : q # <<"chan", i>> PROVE FALSE
      BY <2>1, <2>2, <3>3
    <3> QED
      BY <1>6, <2>2, <3>1, <3>2, <3>3
  <2>3. ASSUME p = <<"rest", r + 1>>, <<"chan", 1>> \in Spots(c) PROVE p = q
    <3>1. ASSUME NEW j \in 1..Len(chan'), <<"chan", j + 1>> \in Spots(c) PROVE FALSE
      <4>1. <<"chan", j + 1>> # <<"chan", 1>>
        BY <1>1
      <4> QED
        BY <2>1, <2>3, <3>1, <4>1
    <3>2. ASSUME q \in Spots(c), \A i : q # <<"chan", i>> PROVE FALSE
      BY <2>1, <2>3, <3>2
    <3> QED
      BY <1>6, <2>3, <3>1, <3>2
  <2>4. ASSUME p \in Spots(c), \A j : p # <<"chan", j>>, p # <<"rest", r + 1>> PROVE p = q
    <3>1. \A j : <<"chan", j>> \notin Spots(c)
      BY <2>1, <2>4
    <3> QED
      BY <1>6, <2>1, <2>4, <3>1
  <2> QED
    BY <1>6, <2>2, <2>3, <2>4
<1>9. ASSUME NEW c \in 1..commands', ~Gone' PROVE Spots(c)' # {}
  <2>1. c \in 1..commands /\ ~Gone
    BY <1>4, <1>9
  <2>2. PICK p \in Spots(c) : TRUE
    BY <2>1 DEF OInv
  <2>3. ASSUME NEW i \in 1..Len(Rest), Rest[i] = Cmd(c) PROVE Spots(c)' # {}
    <3>1. i \in 1..Len(Rest') /\ Rest'[i] = Cmd(c)
      BY <1>1, <1>3, <2>3 DEF r
    <3> QED
      BY <3>1, SpotsOf
  <2>4. ASSUME NEW j \in 1..Len(chan'), Occurs(c, chan[j + 1]) PROVE Spots(c)' # {}
    <3>1. Occurs(c, chan'[j])
      BY <1>1, <2>4
    <3> QED
      BY <3>1, SpotsOf
  <2>5. ASSUME Occurs(c, chan[1]) PROVE Spots(c)' # {}
    <3>1. PICK i \in 1..n : chan[1][i] = Cmd(c)
      BY <2>5 DEF Occurs, Cmd, n
    <3>2. r + i \in 1..Len(Rest') /\ Rest'[r + i] = Cmd(c)
      BY <1>1, <1>3, <3>1
    <3> QED
      BY <3>2, SpotsOf
  <2>6. ASSUME p \in Off(c) PROVE Spots(c)' # {}
    BY <1>4, <2>6, SpotsOf
  <2>7. \/ \E i \in 1..Len(Rest) : Rest[i] = Cmd(c) /\ p = <<"rest", i>>
        \/ \E i \in 1..Len(chan) : Occurs(c, chan[i]) /\ p = <<"chan", i>>
        \/ p \in Off(c)
    BY <2>2, SpotsOf
  <2>8. ASSUME NEW i \in 1..Len(chan), Occurs(c, chan[i]) PROVE Spots(c)' # {}
    <3>1. i = 1 \/ \E l \in 1..Len(chan') : i = l + 1
      BY <1>2
    <3> QED
      BY <2>4, <2>5, <2>8, <3>1
  <2> QED
    BY <2>3, <2>6, <2>7, <2>8
<1>10. Single'
  <2> SUFFICES ASSUME NEW j \in 1..Len(chan'), NEW i \in 1..Len(chan'[j]),
                      chan'[j][i].kind \in {"start", "command"}
               PROVE  Len(chan'[j]) = 1
    BY DEF Single
  <2>1. j + 1 \in 1..Len(chan) /\ chan'[j] = chan[j + 1]
    BY <1>1
  <2> QED
    BY <2>1 DEF OInv, Single
<1> QED
  BY <1>7, <1>8, <1>9, <1>10 DEF OInv

LEMMA OffOf ==
  ASSUME NEW c
  PROVE  /\ \A p : p \in Off(c) <=>
              \/ \E i \in 1..Len(handled) : handled[i] = c /\ p = <<"handled", i>>
              \/ \E f \in File : Occurs(c, disk[f].data) /\ p = <<"disk", f>>
         /\ \A p : p \in Off(c)' <=>
              \/ \E i \in 1..Len(handled') : handled'[i] = c /\ p = <<"handled", i>>
              \/ \E f \in File : Occurs(c, disk'[f].data) /\ p = <<"disk", f>>
<1>1. \A p : p \in Off(c) <=>
        \/ \E i \in 1..Len(handled) : handled[i] = c /\ p = <<"handled", i>>
        \/ \E f \in File : Occurs(c, disk[f].data) /\ p = <<"disk", f>>
  BY DEF Off
<1>2. \A p : p \in Off(c)' <=>
        \/ \E i \in 1..Len(handled') : handled'[i] = c /\ p = <<"handled", i>>
        \/ \E f \in File : Occurs(c, disk'[f].data) /\ p = <<"disk", f>>
  BY DEF Off, Occurs, Sym
<1> QED
  BY <1>1, <1>2

\* A file gets other contents.
LEMMA OffData ==
  ASSUME NEW f \in File, NEW e, handled' = handled, NEW s, e = s.data,
         DOMAIN disk = File, disk' = [disk EXCEPT ![f] = s], NEW c
  PROVE  \A p : p \in Off(c)' <=> \/ p \in Off(c) /\ p # <<"disk", f>>
                                  \/ p = <<"disk", f>> /\ Occurs(c, e)
<1>1. disk'[f].data = e /\ \A g \in File \ {f} : disk'[g] = disk[g]
  OBVIOUS
<1>2. \A g \in File : g # f => <<"disk", g>> # <<"disk", f>>
  OBVIOUS
<1>3. \A i : <<"handled", i>> # <<"disk", f>>
  OBVIOUS
<1>4. ASSUME NEW p, p \in Off(c)', p # <<"disk", f>> PROVE p \in Off(c)
  BY <1>1, <1>2, <1>4, OffOf
<1>5. ASSUME NEW p, p \in Off(c), p # <<"disk", f>> PROVE p \in Off(c)'
  BY <1>1, <1>2, <1>5, OffOf
<1>6. <<"disk", f>> \in Off(c)' <=> Occurs(c, e)
  <2>1. \A g \in File : <<"disk", g>> = <<"disk", f>> => g = f
    OBVIOUS
  <2> QED
    BY <1>1, <1>3, <2>1, OffOf
<1> QED
  BY <1>4, <1>5, <1>6

\* Nothing moves.
LEMMA SameO ==
  ASSUME OInv, Rest' = Rest, UNCHANGED <<chan, disk, handled, commands>>, Gone => Gone'
  PROVE  OInv'
<1>1. \A c : Off(c)' = Off(c)
  BY DEF Off, Occurs, Sym
<1>2. \A c : Spots(c)' = Spots(c)
  BY <1>1 DEF Spots, Occurs, Cmd, Sym
<1>3. Single'
  BY DEF OInv, Single
<1> QED
  BY <1>2, <1>3 DEF OInv

\* What a step of the sender of a move does to the connection.
LEMMA MoverSends ==
  ASSUME TInv, MoverStep
  PROVE  \/ wire' = wire
         \/ \E n \in 0..Len(wire) : wire' = SubSeq(wire, 1, n)
         \/ \E m \in Seq(Proper) : wire' = wire \o m /\ \A i \in 1..Len(m) : m[i].kind # "command"
<1>1. wire \in Seq(Proper) /\ sent[Mover] \in Nat
      /\ (pc[Mover] \in {"open", "data", "end"} =>
            file[Mover] \in File /\ sent[Mover] <= Size(file[Mover]))
  BY DEF TInv, SendT, NodeT, Sender
<1>2. ASSUME NEW f \in File, SkipFile(f) PROVE wire' = wire
  BY <1>2 DEF SkipFile
<1>3. ASSUME NEW f \in File, SendStart(f)
      PROVE  \E m \in Seq(Proper) : wire' = wire \o m /\ \A i \in 1..Len(m) : m[i].kind # "command"
  <2> DEFINE m == <<Sym("start", f), Newline>>
  <2>1. m \in Seq(Proper)
    BY Symbols
  <2>2. Len(m) = 2 /\ m[1].kind # "command" /\ m[2].kind # "command" /\ wire' = wire \o m
    BY <1>3 DEF SendStart, Newline, Sym
  <2> HIDE DEF m
  <2>3. \A i \in 1..Len(m) : m[i].kind # "command"
    BY <2>2
  <2> QED
    BY <2>1, <2>2, <2>3
<1>4. CASE Open \/ OpenFails \/ ReadFails \/ AllSent
  BY <1>4 DEF Open, OpenFails, ReadFails, AllSent
<1>5. CASE SendChunk
  <2>1. PICK n \in 1..(Size(file[Mover]) - sent[Mover]) :
          wire' = wire \o Data(SubSeq(Content[file[Mover]], sent[Mover] + 1, sent[Mover] + n))
    BY <1>5 DEF SendChunk
  <2>2. file[Mover] \in File /\ Size(file[Mover]) \in Nat
    BY <1>1, <1>5, SizeNat DEF SendChunk
  <2>3. sent[Mover] + n \in Nat /\ sent[Mover] <= sent[Mover] + n
        /\ sent[Mover] + n <= Size(file[Mover])
    BY <1>1, <2>2
  <2> DEFINE m == Data(SubSeq(Content[file[Mover]], sent[Mover] + 1, sent[Mover] + n))
  <2>4. m \in Seq(Proper)
        /\ \A l \in 1..Len(m) : m[l].kind \in DataKinds
    BY <1>1, <2>2, <2>3, Chunks
  <2>5. wire' = wire \o m
    BY <2>1
  <2> HIDE DEF m
  <2>7. \A l \in 1..Len(m) : m[l].kind # "command"
    BY <2>4 DEF DataKinds
  <2> QED
    BY <2>4, <2>5, <2>7
<1>6. CASE SendEnd
  <2>1. file[Mover] \in File
    BY <1>1, <1>6 DEF SendEnd
  <2> DEFINE e == <<Sym("end", file[Mover]), Newline>>
             m == e \o Delimiter
  <2>2. e \in Seq(Proper) /\ Len(e) = 2
    BY <2>1, Symbols
  <2>3. e[1].kind # "command" /\ e[2].kind # "command"
    BY DEF Newline, Sym
  <2>4. wire' = (wire \o e) \o Delimiter
    BY <1>6 DEF SendEnd
  <2> HIDE DEF e
  <2>5. wire' = wire \o m
    BY <1>1, <2>2, <2>4, Symbols, Assoc
  <2>6. /\ m \in Seq(Proper) /\ Len(m) = 4
        /\ \A i \in 1..4 : m[i] = IF i <= 2 THEN e[i] ELSE Delimiter[i - 2]
    <3>1. Delimiter \in Seq(Proper) /\ Len(Delimiter) = 2
      BY Symbols
    <3>2. /\ m \in Seq(Proper) /\ Len(m) = Len(e) + Len(Delimiter)
          /\ \A i \in 1..(Len(e) + Len(Delimiter)) :
               m[i] = IF i <= Len(e) THEN e[i] ELSE Delimiter[i - Len(e)]
      BY <2>2, <3>1, ConcatProperties
    <3>3. Len(e) + Len(Delimiter) = 4
      BY <2>2, <3>1
    <3> QED
      BY <2>2, <3>2, <3>3
  <2>7. Delimiter[1].kind # "command" /\ Delimiter[2].kind # "command"
    BY DEF Delimiter, Sym
  <2> HIDE DEF m
  <2>8. \A i \in 1..4 : i = 1 \/ i = 2 \/ i - 2 = 1 \/ i - 2 = 2
    OBVIOUS
  <2>9. \A i \in 1..4 : m[i].kind # "command"
    BY <2>3, <2>6, <2>7, <2>8
  <2> QED
    BY <2>5, <2>6, <2>9
<1>7. CASE Breaks
  BY <1>7 DEF Breaks
<1> QED
  BY <1>2, <1>3, <1>4, <1>5, <1>6, <1>7 DEF MoverStep

\* A move carries no command.
LEMMA MoverO ==
  ASSUME TInv, OInv, MoverStep
  PROVE  OInv'
<1>1. /\ carrier = "move" /\ commands = 0 /\ chan = <<>>
      /\ UNCHANGED <<chan, disk, handled, commands, buf>>
  <2>1. pc[Mover] # "done" \/ carrier = "move"
    BY DEF MoverStep, SkipFile, SendStart, Open, OpenFails, SendChunk, ReadFails, SendEnd,
           AllSent, Breaks
  <2>2. carrier \in {"link", "move"}
    BY TransferAssumption DEF TInv, SendT
  <2>3. UNCHANGED <<chan, disk, handled, commands, buf>>
    BY DEF MoverStep, SkipFile, SendStart, Open, OpenFails, SendChunk, ReadFails, SendEnd,
           AllSent, Breaks, MoverKeeps, nodeVars
  <2> QED
    BY <2>1, <2>2, <2>3 DEF TInv, SendT
<1>2. NodeT /\ wire \in Seq(Proper) /\ buf \in Seq(Proper) /\ Len(wire) \in Nat
  BY RestSeq DEF TInv, NodeT
<1>3. \A c \in Nat \ {0} : Spots(c) = {}
  BY <1>1 DEF OInv
<1>4. ASSUME NEW m \in Seq(Proper), wire' = wire \o m, \A i \in 1..Len(m) : m[i].kind # "command",
             NEW i \in 1..Len(wire')
      PROVE  (\E j \in 1..Len(wire) : wire'[i] = wire[j]) \/ wire'[i].kind # "command"
  <2>1. /\ Len(wire') = Len(wire) + Len(m) /\ Len(m) \in Nat
        /\ \A j \in 1..(Len(wire) + Len(m)) :
             wire'[j] = IF j <= Len(wire) THEN wire[j] ELSE m[j - Len(wire)]
    BY <1>2, <1>4, ConcatProperties, LenProperties
  <2>2. CASE i <= Len(wire)
    <3>1. i \in 1..Len(wire)
      BY <1>2, <2>1, <2>2
    <3> QED
      BY <2>1, <2>2, <3>1
  <2>3. CASE ~(i <= Len(wire))
    <3>1. i - Len(wire) \in 1..Len(m)
      BY <1>2, <2>1, <2>3
    <3> QED
      BY <1>4, <2>1, <2>3, <3>1
  <2> QED
    BY <2>2, <2>3
<1>5. \/ wire' = wire
      \/ \E n \in 0..Len(wire) : wire' = SubSeq(wire, 1, n)
      \/ \E m \in Seq(Proper) : wire' = wire \o m /\ \A i \in 1..Len(m) : m[i].kind # "command"
  BY MoverSends
<1>6. ASSUME NEW i \in 1..Len(wire')
      PROVE  (\E j \in 1..Len(wire) : wire'[i] = wire[j]) \/ wire'[i].kind # "command"
  <2>1. ASSUME NEW n \in 0..Len(wire), wire' = SubSeq(wire, 1, n)
        PROVE  \E j \in 1..Len(wire) : wire'[i] = wire[j]
    <3>1. Len(wire') = n /\ n \in Nat /\ wire'[i] = wire[i]
      BY <1>2, <2>1, Cuts
    <3>2. i \in 1..Len(wire)
      BY <1>2, <3>1
    <3> QED
      BY <3>1, <3>2
  <2> QED
    BY <1>4, <1>5, <2>1
<1>7. NodeT'
  BY MoverT DEF TInv
<1>8. ASSUME NEW c \in Nat \ {0} PROVE Spots(c)' = {}
  <2>1. Off(c)' = Off(c)
    BY <1>1 DEF Off, Occurs, Sym
  <2>2. \A i \in 1..Len(buf) : buf[i] # Cmd(c)
    <3>1. ASSUME NEW i \in 1..Len(buf), buf[i] = Cmd(c) PROVE FALSE
      <4>1. Rest[i] = Cmd(c) /\ i \in 1..Len(Rest)
        BY <1>2, <3>1, RestSeq
      <4>2. <<"rest", i>> \in Spots(c)
        BY <4>1, SpotsOf
      <4> QED
        BY <1>3, <4>2
    <3> QED
      BY <3>1
  <2>3. \A i \in 1..Len(wire) : wire[i] # Cmd(c)
    <3>1. ASSUME NEW i \in 1..Len(wire), wire[i] = Cmd(c) PROVE FALSE
      <4>1. Rest[Len(buf) + i] = Cmd(c) /\ Len(buf) + i \in 1..Len(Rest)
        BY <1>2, <3>1, RestSeq
      <4>2. <<"rest", Len(buf) + i>> \in Spots(c)
        BY <4>1, SpotsOf
      <4> QED
        BY <1>3, <4>2
    <3> QED
      BY <3>1
  <2>4. \A i \in 1..Len(wire') : wire'[i] # Cmd(c)
    BY <1>6, <2>3 DEF Cmd, Sym
  <2>5. \A i \in 1..Len(Rest') : Rest'[i] # Cmd(c)
    <3>1. /\ Len(Rest') = Len(buf) + Len(wire') /\ Len(buf) \in Nat /\ Len(wire') \in Nat
          /\ \A i \in 1..(Len(buf) + Len(wire')) :
               Rest'[i] = IF i <= Len(buf) THEN buf[i] ELSE wire'[i - Len(buf)]
      <4>1. wire' \in Seq(Proper) /\ Rest' = buf \o wire'
        BY <1>1, <1>7 DEF NodeT, Rest
      <4> QED
        BY <1>2, <4>1, ConcatProperties, LenProperties
    <3>2. ASSUME NEW i \in 1..Len(Rest') PROVE i \in 1..Len(buf) \/ i - Len(buf) \in 1..Len(wire')
      BY <3>1
    <3> QED
      BY <2>2, <2>4, <3>1, <3>2
  <2>6. Off(c)' = {}
    BY <1>3, <2>1, SpotsOf
  <2>7. chan' = <<>> /\ Len(chan') = 0
    BY <1>1
  <2> QED
    BY <2>5, <2>6, <2>7, SpotsOf
<1>9. Single' /\ commands' = 0
  BY <1>1 DEF OInv, Single
<1> QED
  BY <1>8, <1>9 DEF OInv

LEMMA MarkAt ==
  ASSUME NEW i \in 1..Len(buf), buf \in Seq(Proper), i < Len(buf)
  PROVE  /\ i + 1 \in 1..Len(buf)
         /\ SubSeq(buf, i, i + 1) = Delimiter <=> buf[i] = Delimiter[1] /\ buf[i + 1] = Delimiter[2]
<1>1. Len(buf) \in Nat /\ i \in Nat
  BY LenProperties
<1> DEFINE s == SubSeq(buf, i, i + 1)
<1>2. i + 1 \in 1..Len(buf) /\ \A j \in i..(i + 1) : j \in 1..Len(buf)
  BY <1>1
<1>3. s \in Seq(Proper) /\ Len(s) = 2 /\ s[1] = buf[i] /\ s[2] = buf[i + 1]
  <2>1. i \in 1..(Len(buf) + 1) /\ i + 1 \in (i - 1)..Len(buf)
    BY <1>1, <1>2
  <2>2. s \in Seq(Proper) /\ Len(s) = ((i + 1) - i) + 1
        /\ \A j \in 1..(((i + 1) - i) + 1) : s[j] = buf[(i + j) - 1]
    BY <1>1, <2>1, SubSeqProperties
  <2>3. ((i + 1) - i) + 1 = 2 /\ (i + 1) - 1 = i /\ (i + 2) - 1 = i + 1 /\ 1 \in 1..2 /\ 2 \in 1..2
    BY <1>1
  <2> HIDE DEF s
  <2>4. Len(s) = 2 /\ s[1] = buf[(i + 1) - 1] /\ s[2] = buf[(i + 2) - 1]
    BY <2>2, <2>3
  <2> QED
    BY <2>2, <2>3, <2>4
<1> HIDE DEF s
<1>4. ASSUME s[1] = Delimiter[1], s[2] = Delimiter[2] PROVE s = Delimiter
  <2>1. \A j \in 1..2 : s[j] = Delimiter[j]
    BY <1>4
  <2> QED
    BY <1>3, <2>1, Symbols, SeqEqual
<1>5. s = Delimiter <=> buf[i] = Delimiter[1] /\ buf[i + 1] = Delimiter[2]
  BY <1>3, <1>4
<1> QED
  BY <1>2, <1>5 DEF s

LEMMA ReaderO ==
  ASSUME TInv, OInv, Read \/ Process
  PROVE  OInv'
<1>1. /\ NodeT /\ NodeT' /\ buf \in Seq(Proper) /\ Len(buf) \in Nat /\ None \notin File
      /\ mode \in File \cup {None} /\ disk \in [File -> Entry] /\ DOMAIN disk = File
      /\ \A f \in File : disk[f].data \in Seq(Proper)
      /\ handled \in Seq(1..Commands) /\ Len(handled) \in Nat
  <2>1. NodeT /\ NodeT'
    BY ReaderT DEF TInv
  <2> QED
    BY <2>1, RestSeq, TransferAssumption, LenProperties DEF NodeT, Entry
<1>2. NodeKeeps
  BY DEF Read, Process, Overflow, SkipLine, StartFile, CleanFile, HandleCommand, Stops,
         FinishFile, WriteFile, AwaitsMore
<1>3. UNCHANGED <<chan, commands>>
  BY <1>2 DEF NodeKeeps
<1>4. \A i \in 1..Len(buf) : Rest[i] = buf[i]
  BY <1>1, RestSeq
<1>5. CASE Read
  BY <1>1, <1>3, <1>5, RestRead, SameO DEF Read, Gone
<1>6. CASE Stops \/ AwaitsMore
  <2>1. Rest' = Rest /\ UNCHANGED <<disk, handled, spoilt>>
    BY <1>6 DEF Stops, AwaitsMore, Goes, Rest
  <2> QED
    BY <1>3, <2>1, SameO DEF Gone
<1>7. CASE Overflow
  <2> DEFINE n == Len(buf)
             t == <<"handled", 0>>
  <2>1. n \in 0..Len(buf) /\ \A j : t # <<"rest", j>> /\ t # <<"chan", j>>
    BY <1>1
  <2>2. buf' = SubSeq(buf, n + 1, Len(buf))
    <3>1. SubSeq(buf, n + 1, Len(buf)) \in Seq(Proper) /\ Len(SubSeq(buf, n + 1, Len(buf))) = 0
      BY <1>1, <2>1, Cuts
    <3>2. SubSeq(buf, n + 1, Len(buf)) = <<>>
      BY <3>1, EmptySeq
    <3> QED
      BY <1>7, <3>2 DEF Overflow
  <2>3. UNCHANGED <<wire, disk, handled>> /\ spoilt \subseteq spoilt' /\ Gone'
    BY <1>7 DEF Overflow, Gone
  <2>4. \A c : Off(c)' = Off(c)
    BY <2>3 DEF Off, Occurs, Sym
  <2>5. Takes(n, t)
    BY <2>3, <2>4 DEF Takes
  <2> QED
    BY <1>3, <2>1, <2>2, <2>3, <2>5, DrainO
<1>8. ASSUME mode = None, HasLine, NEW k, JsonLine(k), buf' = Drained
      PROVE  /\ LineEnd = 2 /\ 2 \in 0..Len(buf) /\ Line[1] = buf[1] /\ Line[1] \in Proper
             /\ buf[1].kind = k /\ buf[2] = Newline
             /\ buf' = SubSeq(buf, 2 + 1, Len(buf)) /\ Rest[1] = buf[1] /\ 1 \in 1..2
             /\ \A c : \A i \in 1..2 : Rest[i] = Cmd(c) => i = 1 /\ k = "command" /\ buf[1].of = c
  <2>1. /\ LineEnd = 2 /\ Line[1] = buf[1] /\ Line[1] \in Proper /\ buf[1].kind = k
        /\ LineEnd \in 1..Len(buf) /\ buf[LineEnd] = Newline
    BY <1>1, <1>8, OneLine, FirstLine
  <2>2. 1 \in 1..Len(buf) /\ 2 \in 1..Len(buf) /\ \A i \in 1..2 : i = 1 \/ i = 2
    BY <1>1, <2>1
  <2>3. Rest[1] = buf[1] /\ Rest[2] = Newline
    BY <1>4, <2>1, <2>2
  <2>4. \A c : Newline # Cmd(c)
    BY DEF Newline, Cmd, Sym
  <2>5. \A c : \A i \in 1..2 : Rest[i] = Cmd(c) => i = 1 /\ k = "command" /\ buf[1].of = c
    BY <2>1, <2>2, <2>3, <2>4 DEF Cmd, Sym
  <2>6. buf' = SubSeq(buf, 2 + 1, Len(buf))
    BY <1>8, <2>1 DEF Drained
  <2>7. 2 \in 0..Len(buf) /\ 1 \in 1..2
    BY <1>1, <2>2
  <2> QED
    BY <2>1, <2>3, <2>5, <2>6, <2>7
<1>9. CASE SkipLine
  <2> DEFINE n == LineEnd
             t == <<"handled", 0>>
  <2>1. HasLine /\ UNCHANGED <<wire, disk, handled, spoilt>> /\ buf' = SubSeq(buf, n + 1, Len(buf))
    BY <1>9 DEF SkipLine, Goes, Drained
  <2>2. /\ n \in 1..Len(buf) /\ buf[n] = Newline /\ Len(Line) = n - 1
        /\ \A i \in 1..(n - 1) : Line[i] = buf[i]
    BY <1>1, <2>1, OneLine, FirstLine
  <2>3. ASSUME NEW i \in 1..(n - 1), NEW c PROVE buf[i] # Cmd(c)
    <3>1. CASE Line = <<>>
      <4>1. Len(Line) = 0
        BY <3>1
      <4> QED
        BY <2>2, <4>1
    <3>2. CASE Line = Delimiter
      <4>1. n - 1 = 2 /\ (i = 1 \/ i = 2)
        <5>1. Len(Line) = 2
          BY <3>2, Symbols
        <5>2. n \in Nat
          BY <1>1, <2>2
        <5>3. n - 1 = 2
          BY <2>2, <5>1
        <5> QED
          BY <5>2, <5>3
      <4>2. buf[i] = Delimiter[1] \/ buf[i] = Delimiter[2]
        BY <2>2, <3>2, <4>1
      <4> QED
        BY <4>2, Symbols DEF Cmd, Sym
    <3>3. CASE JsonLine("end")
      <4>1. n = 2 /\ i = 1 /\ buf[1].kind = "end"
        BY <1>1, <2>1, <2>2, <3>3, OneLine
      <4> QED
        BY <4>1 DEF Cmd, Sym
    <3> QED
      BY <1>9, <3>1, <3>2, <3>3 DEF SkipLine
  <2>4. \A c : Off(c)' = Off(c)
    BY <2>1 DEF Off, Occurs, Sym
  <2>5. \A j : t # <<"rest", j>> /\ t # <<"chan", j>>
    OBVIOUS
  <2> HIDE DEF n, t
  <2>6. \A c : \A i \in 1..n : Rest[i] # Cmd(c)
    <3>1. \A i \in 1..n : i \in 1..Len(buf) /\ (i \in 1..(n - 1) \/ i = n)
      BY <1>1, <2>2
    <3>2. \A c : Newline # Cmd(c)
      BY DEF Newline, Cmd, Sym
    <3> QED
      BY <1>4, <2>2, <2>3, <3>1, <3>2
  <2>7. n \in 0..Len(buf) /\ spoilt \subseteq spoilt'
    BY <2>1, <2>2
  <2> QED
    <3>1. Taken(n) = {}
      BY <2>6 DEF Taken
    <3>2. Takes(n, t)
      BY <2>4, <3>1 DEF Takes
    <3> QED
      BY <1>3, <2>1, <2>5, <2>7, <3>2, DrainO
<1>10. CASE StartFile
  <2> DEFINE f == Line[1].of
             t == <<"handled", 0>>
  <2>1. JsonLine("start") /\ HasLine /\ mode = None /\ buf' = Drained
    BY <1>10 DEF StartFile, JsonLine
  <2>2. /\ 2 \in 0..Len(buf) /\ buf' = SubSeq(buf, 2 + 1, Len(buf)) /\ f \in File
        /\ \A c : \A i \in 1..2 : Rest[i] # Cmd(c)
    BY <1>8, <2>1 DEF Proper
  <2>3. /\ UNCHANGED <<wire, handled>> /\ spoilt' = spoilt \cup Replaces(f)
    BY <1>10 DEF StartFile, Goes
  <2>4. \E s : s.data = <<>> /\ disk' = [disk EXCEPT ![f] = s]
    <3>1. CASE disk[f].is = "file"
      <4>1. disk' = [disk EXCEPT ![f] = [disk[f] EXCEPT !.data = <<>>]]
        BY <1>10, <3>1 DEF StartFile
      <4>2. [disk[f] EXCEPT !.data = <<>>].data = <<>>
        BY <1>1, <2>2 DEF Entry
      <4> QED
        BY <4>1, <4>2
    <3>2. CASE disk[f].is # "file"
      BY <1>10, <3>2 DEF StartFile, Directory
    <3> QED
      BY <3>1, <3>2
  <2>5. \A j : t # <<"rest", j>> /\ t # <<"chan", j>>
    OBVIOUS
  <2> HIDE DEF f, t
  <2>6. \A c : ~Occurs(c, <<>>)
    BY DEF Occurs
  <2>7. \A c : \A p : p \in Off(c)' <=> p \in Off(c) /\ p # <<"disk", f>>
    BY <1>1, <2>2, <2>3, <2>4, <2>6, OffData
  <2>8. ASSUME NEW c \in Nat \ {0}, Off(c) # {} PROVE Gone' \/ Off(c)' # {}
    <3>1. PICK p \in Off(c) : TRUE
      BY <2>8
    <3>2. CASE p # <<"disk", f>>
      BY <2>7, <3>2
    <3>3. CASE p = <<"disk", f>>
      <4>1. Occurs(c, disk[f].data)
        <5>1. \A i : p # <<"handled", i>>
          BY <3>3
        <5>2. \A g \in File : p = <<"disk", g>> => g = f
          BY <3>3
        <5> QED
          BY <3>1, <5>1, <5>2, OffOf
      <4>2. c \in 1..commands
        <5>1. p \in Spots(c)
          BY SpotsOf
        <5>2. ~(c > commands)
          BY <5>1 DEF OInv
        <5>3. commands \in Nat
          BY <1>1, TransferAssumption DEF NodeT
        <5> QED
          BY <5>2, <5>3
      <4>3. "again" \in spoilt'
        BY <2>3, <4>1, <4>2 DEF Replaces
      <4> QED
        BY <4>3 DEF Gone
    <3> QED
      BY <3>2, <3>3
  <2> QED
    <3>1. Taken(2) = {}
      BY <2>2 DEF Taken
    <3>2. Takes(2, t)
      BY <2>7, <2>8, <3>1 DEF Takes
    <3> QED
      BY <1>3, <2>2, <2>3, <2>5, <3>2, DrainO
<1>11. CASE CleanFile
  <2> DEFINE f == Line[1].of
             t == <<"handled", 0>>
  <2>1. JsonLine("clean") /\ HasLine /\ mode = None /\ buf' = Drained
    BY <1>11 DEF CleanFile, JsonLine
  <2>2. /\ 2 \in 0..Len(buf) /\ buf' = SubSeq(buf, 2 + 1, Len(buf)) /\ f \in File
        /\ \A c : \A i \in 1..2 : Rest[i] # Cmd(c)
    BY <1>8, <2>1 DEF Proper
  <2>3. /\ UNCHANGED <<wire, handled, spoilt>>
        /\ disk' = IF disk[f].is = "file"
                     THEN [disk EXCEPT ![f] = [disk[f] EXCEPT !.data = Cleaned(f, disk[f].data)]]
                     ELSE disk
    BY <1>11 DEF CleanFile, Goes
  <2>4. \A j : t # <<"rest", j>> /\ t # <<"chan", j>>
    OBVIOUS
  <2> HIDE DEF f, t
  <2>5. ASSUME NEW c PROVE \A p : p \in Off(c)' <=> p \in Off(c)
    <3>1. CASE disk[f].is = "file"
      <4>1. PICK s : s.data = Cleaned(f, disk[f].data) /\ disk' = [disk EXCEPT ![f] = s]
        BY <1>1, <2>2, <2>3, <3>1 DEF Entry
      <4>2. Occurs(c, s.data) <=> Occurs(c, disk[f].data)
        BY <1>1, <2>2, <4>1, CleanedOccurs
      <4>3. \A p : p \in Off(c)' <=>
              (p \in Off(c) /\ p # <<"disk", f>>) \/ (p = <<"disk", f>> /\ Occurs(c, s.data))
        <5>1. handled' = handled /\ DOMAIN disk = File /\ f \in File
          BY <1>1, <2>2, <2>3
        <5> QED
          BY <4>1, <5>1, OffData
      <4>4. <<"disk", f>> \in Off(c) <=> Occurs(c, disk[f].data)
        <5>1. \A i : <<"disk", f>> # <<"handled", i>>
          OBVIOUS
        <5>2. \A g \in File : <<"disk", f>> = <<"disk", g>> => g = f
          OBVIOUS
        <5> QED
          BY <2>2, <5>1, <5>2, OffOf
      <4>5. ASSUME NEW p, p # <<"disk", f>> PROVE p \in Off(c)' <=> p \in Off(c)
        BY <4>3, <4>5
      <4>6. <<"disk", f>> \in Off(c)' <=> <<"disk", f>> \in Off(c)
        BY <4>2, <4>3, <4>4
      <4> QED
        BY <4>5, <4>6
    <3>2. CASE disk[f].is # "file"
      BY <2>3, <3>2, OffOf
    <3> QED
      BY <3>1, <3>2
  <2> QED
    <3>1. Taken(2) = {}
      BY <2>2 DEF Taken
    <3>2. /\ \A c \in Nat \ {0} : \A p \in Off(c)' : p \in Off(c)
          /\ \A c \in Nat \ {0} : Off(c) # {} => Off(c)' # {}
      BY <2>5
    <3>3. Takes(2, t)
      BY <3>1, <3>2 DEF Takes
    <3> QED
      BY <1>3, <2>2, <2>3, <2>4, <3>3, DrainO
<1>12. CASE HandleCommand
  <2> DEFINE d == Line[1].of
  <2>13. PICK t : t = <<"handled", Len(handled) + 1>>
    OBVIOUS
  <2>1. JsonLine("command") /\ HasLine /\ mode = None /\ buf' = Drained
    BY <1>12 DEF HandleCommand, JsonLine
  <2>2. /\ 2 \in 0..Len(buf) /\ buf' = SubSeq(buf, 2 + 1, Len(buf)) /\ d \in 1..Commands
        /\ Rest[1] = Cmd(d) /\ 1 \in 1..2
        /\ \A c : \A i \in 1..2 : Rest[i] = Cmd(c) => c = d
    <3>1. /\ 2 \in 0..Len(buf) /\ buf' = SubSeq(buf, 2 + 1, Len(buf))
          /\ Line[1] = buf[1] /\ Line[1] \in Proper /\ buf[1].kind = "command" /\ Rest[1] = buf[1]
          /\ \A c : \A i \in 1..2 : Rest[i] = Cmd(c) => buf[1].of = c
      BY <1>8, <2>1
    <3>2. d \in 1..Commands /\ Rest[1] = Cmd(d)
      BY <3>1 DEF Proper, Symbol, Cmd, Sym
    <3> QED
      BY <3>1, <3>2
  <2>3. UNCHANGED <<wire, disk, spoilt>> /\ handled' = Append(handled, d)
    BY <1>12 DEF HandleCommand, Goes
  <2>4. \A j : t # <<"rest", j>> /\ t # <<"chan", j>>
    BY <2>13
  <2> HIDE DEF d
  <2>5. /\ Len(handled') = Len(handled) + 1 /\ handled'[Len(handled) + 1] = d
        /\ \A i \in 1..Len(handled) : handled'[i] = handled[i]
        /\ \A i \in 1..Len(handled) : i \in 1..Len(handled')
        /\ Len(handled) + 1 \in 1..Len(handled')
        /\ \A i \in 1..Len(handled') : i \in 1..Len(handled) \/ i = Len(handled) + 1
    <3>1. /\ Len(handled') = Len(handled) + 1 /\ handled'[Len(handled) + 1] = d
          /\ \A i \in 1..Len(handled) : handled'[i] = handled[i]
      BY <1>1, <2>2, <2>3, AppendProperties
    <3> QED
      BY <1>1, <3>1
  <2>6. ASSUME NEW c PROVE \A p : p \in Off(c)' <=> p \in Off(c) \/ (p = t /\ c = d)
    BY <2>3, <2>5, <2>13, OffOf
  <2>8. \A c \in Nat \ {0} : c \in Taken(2) <=> c = d
    BY <2>2 DEF Taken
  <2>7. ASSUME NEW c \in Nat \ {0}
        PROVE  /\ \A p \in Off(c)' : p \in Off(c) \/ (p = t /\ c \in Taken(2))
               /\ Off(c) # {} \/ c \in Taken(2) => Gone' \/ Off(c)' # {}
    BY <2>6, <2>8
  <2>9. Takes(2, t)
    BY <2>7 DEF Takes
  <2>10. UNCHANGED <<wire, chan, commands>> /\ spoilt \subseteq spoilt'
    BY <1>3, <2>3
  <2> QED
    BY <2>2, <2>4, <2>9, <2>10, DrainO
<1>13. ASSUME NEW n \in 0..Len(buf), NEW k \in 0..n, NEW e \in Seq(Proper), mode # None,
              buf' = SubSeq(buf, n + 1, Len(buf)), UNCHANGED <<wire, handled, spoilt>>,
              disk' = [disk EXCEPT ![mode].data = e],
              \A c : Occurs(c, e) <=> Occurs(c, disk[mode].data \o SubSeq(buf, 1, k)),
              \A i \in (k + 1)..n : buf[i].kind # "command"
       PROVE  OInv'
  <2> DEFINE old == disk[mode].data
  <2>14. PICK t : t = <<"disk", mode>>
    OBVIOUS
  <2>1. mode \in File /\ old \in Seq(Proper)
    BY <1>1, <1>13
  <2>15. PICK s : s.data = e /\ disk' = [disk EXCEPT ![mode] = s]
    BY <1>1, <1>13, <2>1 DEF Entry
  <2>2. \A j : t # <<"rest", j>> /\ t # <<"chan", j>>
    BY <2>14
  <2>3. k \in 0..Len(buf) /\ \A i \in 1..n : i \in 1..Len(buf) /\ (i \in 1..k \/ i \in (k + 1)..n)
    BY <1>1
  <2>9. \A i \in 1..k : i \in 1..n
    BY <1>1
  <2>4. SubSeq(buf, 1, k) \in Seq(Proper) /\ Len(SubSeq(buf, 1, k)) = k
        /\ \A i \in 1..k : SubSeq(buf, 1, k)[i] = buf[i]
    BY <1>1, <2>3, Cuts
  <2>5. ASSUME NEW c PROVE Occurs(c, e) <=> Occurs(c, old) \/ \E i \in 1..n : Rest[i] = Cmd(c)
    <3>1. Occurs(c, e) <=> Occurs(c, old) \/ Occurs(c, SubSeq(buf, 1, k))
      BY <1>13, <2>1, <2>4, OccursIn
    <3>2. Occurs(c, SubSeq(buf, 1, k)) <=> \E i \in 1..k : buf[i] = Cmd(c)
      BY <2>4 DEF Occurs, Cmd
    <3>3. \A i \in (k + 1)..n : buf[i] # Cmd(c)
      BY <1>13 DEF Cmd, Sym
    <3> QED
      BY <1>4, <2>3, <2>9, <3>1, <3>2, <3>3
  <2>6. ASSUME NEW c PROVE t \in Off(c) <=> Occurs(c, old)
    <3>1. \A i : t # <<"handled", i>>
      BY <2>14
    <3>2. \A g \in File : t = <<"disk", g>> => g = mode
      BY <2>14
    <3> QED
      BY <2>1, <2>14, <3>1, <3>2, OffOf
  <2>7. ASSUME NEW c
        PROVE  \A p : p \in Off(c)' <=> \/ p \in Off(c) /\ p # t
                                        \/ p = t /\ Occurs(c, e)
    BY <1>1, <1>13, <2>1, <2>14, <2>15, OffData
  <2> HIDE DEF old
  <2>8. ASSUME NEW c
        PROVE  \A p : p \in Off(c)' <=> p \in Off(c) \/ (p = t /\ \E i \in 1..n : Rest[i] = Cmd(c))
    BY <2>5, <2>6, <2>7
  <2>11. \A c \in Nat \ {0} : c \in Taken(n) <=> \E i \in 1..n : Rest[i] = Cmd(c)
    BY DEF Taken
  <2>10. ASSUME NEW c \in Nat \ {0}
         PROVE  /\ \A p \in Off(c)' : p \in Off(c) \/ (p = t /\ c \in Taken(n))
                /\ Off(c) # {} \/ c \in Taken(n) => Gone' \/ Off(c)' # {}
    <3>1. \A p : p \in Off(c)' <=> p \in Off(c) \/ (p = t /\ c \in Taken(n))
      BY <2>8, <2>11
    <3> QED
      BY <3>1
  <2>12. Takes(n, t)
    BY <2>10 DEF Takes
  <2>13. UNCHANGED <<wire, chan, commands>> /\ spoilt \subseteq spoilt'
    BY <1>3, <1>13
  <2> QED
    BY <1>13, <2>2, <2>12, <2>13, DrainO
<1>14. CASE FinishFile
  <2> DEFINE d == FirstDelimiter
             e == Cleaned(mode, disk[mode].data \o SubSeq(buf, 1, d - 1))
  <2>1. /\ mode # None /\ mode \in File /\ HasDelimiter /\ UNCHANGED <<wire, handled, spoilt>>
        /\ buf' = SubSeq(buf, d + 2, Len(buf))
        /\ disk' = [disk EXCEPT ![mode].data = e]
    BY <1>1, <1>14 DEF FinishFile, Goes
  <2>2. d \in 1..Len(buf) /\ d < Len(buf) /\ SubSeq(buf, d, d + 1) = Delimiter
    BY <1>1, <2>1, FirstMark DEF DelimiterAt
  <2> HIDE DEF d
  <2>3. d - 1 \in 0..Len(buf) /\ d + 1 \in 0..Len(buf) /\ d + 2 = (d + 1) + 1 /\ d - 1 \in 0..(d + 1)
        /\ \A i \in ((d - 1) + 1)..(d + 1) : i = d \/ i = d + 1
    BY <1>1, <2>2
  <2>4. buf[d] = Delimiter[1] /\ buf[d + 1] = Delimiter[2]
    BY <1>1, <2>2, MarkAt
  <2>5. \A i \in ((d - 1) + 1)..(d + 1) : buf[i].kind # "command"
    <3>1. Delimiter[1].kind = "delim1" /\ Delimiter[2].kind = "delim2"
      BY Symbols DEF Sym
    <3> QED
      BY <2>3, <2>4, <3>1
  <2>6. SubSeq(buf, 1, d - 1) \in Seq(Proper)
    BY <1>1, <2>3, Cuts
  <2>7. disk[mode].data \o SubSeq(buf, 1, d - 1) \in Seq(Proper)
    BY <1>1, <2>1, <2>6, ConcatProperties
  <2>8. e \in Seq(Proper)
    BY <2>1, <2>7, CleanedType
  <2>9. \A c : Occurs(c, e) <=> Occurs(c, disk[mode].data \o SubSeq(buf, 1, d - 1))
    BY <2>7, CleanedOccurs
  <2> HIDE DEF e
  <2>10. buf' = SubSeq(buf, (d + 1) + 1, Len(buf))
    BY <2>1, <2>3
  <2> QED
    BY <1>13, <2>1, <2>3, <2>5, <2>8, <2>9, <2>10
<1>15. CASE WriteFile
  <2> DEFINE n == Len(buf) - Keep
             e == disk[mode].data \o SubSeq(buf, 1, n)
  <2>1. /\ mode # None /\ mode \in File /\ UNCHANGED <<wire, handled, spoilt>> /\ Len(buf) > Keep
        /\ buf' = SubSeq(buf, n + 1, Len(buf))
        /\ disk' = [disk EXCEPT ![mode].data = e]
    BY <1>1, <1>15 DEF WriteFile, Goes
  <2>2. Keep = 3
    BY Symbols DEF Keep
  <2>3. n \in 0..Len(buf)
    BY <1>1, <2>1, <2>2
  <2> HIDE DEF n
  <2>4. SubSeq(buf, 1, n) \in Seq(Proper)
    BY <1>1, <2>3, Cuts
  <2>5. e \in Seq(Proper)
    BY <1>1, <2>1, <2>4, ConcatProperties
  <2>6. n \in 0..n /\ \A i \in (n + 1)..n : FALSE
    BY <2>3
  <2> QED
    BY <1>13, <2>1, <2>3, <2>5, <2>6
<1> QED
  BY <1>5, <1>6, <1>7, <1>9, <1>10, <1>11, <1>12, <1>14, <1>15 DEF Process

\* The messages of an upload: one that starts a file leaves a delimiter owed,
\* and only a delimiter settles it.
LEMMA UploadMessage ==
  ASSUME TInv, NEW u \in Uploader, UploadStep(u)
  PROVE  /\ \A v \in Uploader \ {u} : Owes(v)' = Owes(v)
         /\ \E m \in Seq(Proper), spoils \in SUBSET Spoils :
              /\ Broadcast(m, spoils)
              /\ \A i \in 1..Len(m) : m[i].kind # "command"
              /\ (\E i \in 1..Len(m) : m[i].kind = "start") => Len(m) = 1 /\ Owes(u)'
              /\ Owes(u) => Owes(u)' \/ m = Delimiter
<1>1. SendT /\ NodeT /\ u \in Sender /\ Uploader \subseteq Sender
  BY DEF TInv, Sender
<1>2. FilesOf[u] \in Seq(File) /\ field[u] \in Nat /\ sent[u] \in Nat /\ Len(FilesOf[u]) \in Nat
      /\ pc \in [Sender -> {"next", "open", "data", "end", "seal", "clean", "done"}]
      /\ field \in [Uploader -> Nat] /\ DOMAIN pc = Sender /\ DOMAIN field = Uploader
  BY <1>1, TransferAssumption, LenProperties DEF SendT
<1>3. \A v \in Uploader \ {u} : Owes(v)' = Owes(v)
  <2>1. \A v \in Uploader \ {u} : pc'[v] = pc[v] /\ field'[v] = field[v]
    BY <1>1, <1>2 DEF UploadStep, UploadStart, UploadChunk, UploadDelimiter, UploadEnd, UploadSeal,
       UploadClean
  <2> QED
    BY <2>1 DEF Owes
<1>4. {} \in SUBSET Spoils /\ {"overlap"} \in SUBSET Spoils
  BY DEF Spoils
<1>5. ASSUME NEW y \in Proper, y.kind # "command", y.kind = "start" => Owes(u)',
             NEW spoils \in SUBSET Spoils, Broadcast(<<y>>, spoils), Owes(u) => Owes(u)'
      PROVE  \E m \in Seq(Proper), sp \in SUBSET Spoils :
               /\ Broadcast(m, sp)
               /\ \A i \in 1..Len(m) : m[i].kind # "command"
               /\ (\E i \in 1..Len(m) : m[i].kind = "start") => Len(m) = 1 /\ Owes(u)'
               /\ Owes(u) => Owes(u)' \/ m = Delimiter
  <2>1. <<y>> \in Seq(Proper) /\ Len(<<y>>) = 1 /\ \A i \in 1..1 : <<y>>[i] = y
    OBVIOUS
  <2> QED
    BY <1>5, <2>1
<1>6. ASSUME Broadcast(Delimiter, {})
      PROVE  \E m \in Seq(Proper), sp \in SUBSET Spoils :
               /\ Broadcast(m, sp)
               /\ \A i \in 1..Len(m) : m[i].kind # "command"
               /\ (\E i \in 1..Len(m) : m[i].kind = "start") => Len(m) = 1 /\ Owes(u)'
               /\ Owes(u) => Owes(u)' \/ m = Delimiter
  <2>1. \A i \in 1..Len(Delimiter) :
          Delimiter[i].kind # "command" /\ Delimiter[i].kind # "start"
    BY Symbols DEF Sym
  <2>2. Delimiter \in Seq(Proper)
    BY Symbols
  <2> QED
    BY <1>4, <1>6, <2>1, <2>2
<1>7. CASE UploadStart(u)
  <2>1. field[u] < Len(FilesOf[u])
    BY <1>1, <1>7 DEF SendT, UploadStart
  <2>2. FilesOf[u][field[u] + 1] \in File
    BY <1>2, <2>1, ElementOfSeq
  <2>3. Sym("start", FilesOf[u][field[u] + 1]) \in Proper
    BY <2>2, Symbols
  <2>4. Owes(u)'
    BY <1>1, <1>2, <1>7 DEF UploadStart, Owes
  <2>5. Sym("start", FilesOf[u][field[u] + 1]).kind = "start"
    BY DEF Sym
  <2> QED
    BY <1>3, <1>4, <1>5, <1>7, <2>3, <2>4, <2>5 DEF UploadStart
<1>8. CASE UploadChunk(u)
  <2>1. PICK n \in 1..(Size(file[u]) - sent[u]) :
          Broadcast(Data(SubSeq(Content[file[u]], sent[u] + 1, sent[u] + n)), {})
    BY <1>8 DEF UploadChunk
  <2>2. file[u] \in File /\ Size(file[u]) \in Nat
    BY <1>1, <1>8, SizeNat DEF SendT, UploadChunk
  <2>3. sent[u] + n \in Nat /\ sent[u] <= sent[u] + n /\ sent[u] + n <= Size(file[u])
    BY <1>2, <2>2
  <2> DEFINE m == Data(SubSeq(Content[file[u]], sent[u] + 1, sent[u] + n))
  <2>4. m \in Seq(Proper) /\ \A l \in 1..Len(m) : m[l].kind \in DataKinds
    BY <1>2, <2>2, <2>3, Chunks
  <2>5. Broadcast(m, {})
    BY <2>1
  <2> HIDE DEF m
  <2>7. \A l \in 1..Len(m) : m[l].kind # "command" /\ m[l].kind # "start"
    BY <2>4 DEF DataKinds
  <2>8. Owes(u)'
    BY <1>8 DEF UploadChunk, Owes
  <2> QED
    BY <1>3, <1>4, <2>4, <2>5, <2>7, <2>8
<1>9. CASE UploadDelimiter(u) \/ UploadSeal(u)
  BY <1>3, <1>6, <1>9 DEF UploadDelimiter, UploadSeal
<1>10. CASE UploadEnd(u)
  <2>1. file[u] \in File
    BY <1>1, <1>10 DEF SendT, UploadEnd
  <2>2. Sym("end", file[u]) \in Proper /\ Sym("end", file[u]).kind = "end"
    BY <2>1, Symbols DEF Sym
  <2>3. field'[u] = field[u] + 1 /\ pc'[u] \in {"seal", "next"}
    BY <1>1, <1>2, <1>10 DEF UploadEnd
  <2>4. Owes(u)'
    BY <1>2, <2>3 DEF Owes
  <2> QED
    BY <1>3, <1>4, <1>5, <1>10, <2>2, <2>4 DEF UploadEnd
<1>11. CASE UploadClean(u)
  <2>1. sent[u] < field[u] /\ field[u] <= Len(FilesOf[u])
    BY <1>1, <1>11 DEF SendT, UploadClean
  <2>2. FilesOf[u][sent[u] + 1] \in File
    BY <1>2, <2>1, ElementOfSeq
  <2>3. Sym("clean", FilesOf[u][sent[u] + 1]) \in Proper
        /\ Sym("clean", FilesOf[u][sent[u] + 1]).kind = "clean"
    BY <2>2, Symbols DEF Sym
  <2>4. ~Owes(u)
    BY <1>11 DEF UploadClean, Owes
  <2> QED
    BY <1>3, <1>4, <1>5, <1>11, <2>3, <2>4 DEF UploadClean
<1> QED
  BY <1>7, <1>8, <1>9, <1>10, <1>11 DEF UploadStep

LEMMA RestBreaks ==
  ASSUME NodeT, NEW n \in 0..Len(wire), wire' = SubSeq(wire, 1, n), UNCHANGED buf
  PROVE  /\ Len(Rest') <= Len(Rest) /\ Len(Rest') \in Nat
         /\ \A i \in 1..Len(Rest') : i \in 1..Len(Rest) /\ Rest'[i] = Rest[i]
<1>1. /\ buf \in Seq(Proper) /\ wire \in Seq(Proper) /\ Len(buf) \in Nat /\ Len(wire) \in Nat
      /\ Len(Rest) = Len(buf) + Len(wire)
      /\ \A i \in 1..Len(buf) : Rest[i] = buf[i]
      /\ \A i \in 1..Len(wire) : Rest[Len(buf) + i] = wire[i]
  BY RestSeq DEF NodeT
<1>2. PICK w : w = SubSeq(wire, 1, n)
  OBVIOUS
<1>3. w \in Seq(Proper) /\ Len(w) = n /\ n \in Nat /\ n <= Len(wire) /\ \A i \in 1..n : w[i] = wire[i]
  BY <1>1, <1>2, Cuts
<1>4. PICK r : r = buf \o w
  OBVIOUS
<1>5. /\ Len(r) = Len(buf) + n
      /\ \A i \in 1..(Len(buf) + n) : r[i] = IF i <= Len(buf) THEN buf[i] ELSE w[i - Len(buf)]
  BY <1>1, <1>3, <1>4, ConcatProperties
<1>6. Rest' = r
  BY <1>2, <1>4 DEF Rest
<1>7. ASSUME NEW i \in 1..(Len(buf) + n) PROVE i \in 1..Len(Rest) /\ r[i] = Rest[i]
  <2>1. i \in 1..Len(Rest)
    BY <1>1, <1>3
  <2>2. CASE i <= Len(buf)
    <3>1. i \in 1..Len(buf)
      BY <1>1, <2>2
    <3> QED
      BY <1>1, <1>5, <2>1, <2>2, <3>1
  <2>3. CASE ~(i <= Len(buf))
    <3>1. PICK j : j = i - Len(buf)
      OBVIOUS
    <3>2. j \in 1..n /\ j \in 1..Len(wire) /\ i = Len(buf) + j
      BY <1>1, <1>3, <2>3, <3>1
    <3> QED
      BY <1>1, <1>3, <1>5, <2>1, <2>3, <3>1, <3>2
  <2> QED
    BY <2>2, <2>3
<1>8. Len(r) <= Len(Rest) /\ Len(r) \in Nat
  BY <1>1, <1>3, <1>5
<1> QED
  BY <1>5, <1>6, <1>7, <1>8

\* A link that has ended: what is published goes to nobody.
LEMMA ClosedO ==
  ASSUME TInv, NameT, OInv, closed, carrier = "link", NEW m, NEW spoils, Broadcast(m, spoils),
         UNCHANGED <<wire, buf, disk, handled>>, commands' = commands \/ commands' = commands + 1
  PROVE  OInv'
<1>1. chan' = chan /\ "break" \in spoilt'
  BY DEF Broadcast, NameT
<1>2. commands \in Nat
  BY TransferAssumption DEF TInv, NodeT
<1>3. \A c : Off(c)' = Off(c)
  BY DEF Off, Occurs, Sym
<1>4. \A c : Spots(c)' = Spots(c)
  BY <1>1, <1>3 DEF Spots, Occurs, Cmd, Sym, Rest
<1>5. Single'
  BY <1>1 DEF OInv, Single
<1>6. \A c \in Nat : c > commands' => c > commands
  BY <1>2
<1>7. Gone'
  BY <1>1 DEF Gone
<1> QED
  BY <1>4, <1>5, <1>6, <1>7 DEF OInv

\* The link ends, or begins anew: what was under way is lost from some point on.
LEMMA LinkEndsO ==
  ASSUME TInv, NameT, OInv, LinkEnds \/ LinkReturns
  PROVE  OInv'
<1>1. NodeT /\ UNCHANGED <<disk, handled, commands>>
  BY DEF TInv, LinkEnds, LinkReturns, nodeVars, pastVars
<1>2. \A i \in 1..Len(Rest') : i \in 1..Len(Rest) /\ Rest'[i] = Rest[i]
  <2>1. CASE LinkEnds
    <3>1. PICK n \in 0..Len(wire) : wire' = SubSeq(wire, 1, n)
      BY <2>1 DEF LinkEnds
    <3> QED
      BY <1>1, <2>1, <3>1, RestBreaks DEF LinkEnds, nodeVars
  <2>2. CASE LinkReturns
    <3>1. Rest' = <<>> /\ Len(<<>>) = 0
      BY <2>2 DEF LinkReturns, Rest
    <3> QED
      BY <3>1
  <2> QED
    BY <2>1, <2>2
<1>3. chan' = <<>> /\ Len(<<>>) = 0
  BY DEF LinkEnds, LinkReturns, NameT
<1>4. Gone'
  BY DEF LinkEnds, LinkReturns, NameT, Gone, pastVars
<1>5. ASSUME NEW c, NEW p \in Spots(c)' PROVE p \in Spots(c)
  <2>1. Off(c)' = Off(c)
    BY <1>1 DEF Off, Occurs, Sym
  <2> QED
    BY <1>2, <1>3, <1>5, <2>1, SpotsOf
<1>6. Single'
  BY <1>3 DEF Single
<1> QED
  BY <1>1, <1>4, <1>5, <1>6 DEF OInv

LEMMA UploadO ==
  ASSUME TInv, NameT, OInv, NEW u \in Uploader, UploadStep(u)
  PROVE  OInv'
<1>1. PICK m \in Seq(Proper), spoils \in SUBSET Spoils :
        /\ Broadcast(m, spoils)
        /\ \A i \in 1..Len(m) : m[i].kind # "command"
        /\ (\E i \in 1..Len(m) : m[i].kind = "start") => Len(m) = 1
  BY UploadMessage
<1>2. UNCHANGED <<wire, buf, disk, handled, commands>>
  BY UploadSends DEF UploadKeeps, nodeVars
<1>3. (\E i \in 1..Len(m) : m[i].kind \in {"start", "command"}) => Len(m) = 1
  BY <1>1
<1>4. carrier = "link"
  BY UploadSends
<1> QED
  BY <1>1, <1>2, <1>3, <1>4, BroadcastO, ClosedO

LEMMA CommandO ==
  ASSUME TInv, NameT, OInv, Command
  PROVE  OInv'
<1>1. /\ commands' = commands + 1 /\ commands \in Nat /\ commands < Commands
      /\ Command /\ UNCHANGED <<wire, buf, disk, handled>>
  BY TransferAssumption DEF Command, nodeVars, TInv, NodeT
<1> DEFINE m == <<Cmd(commands + 1)>>
<1>2. commands + 1 \in 1..Commands
  BY <1>1, TransferAssumption
<1>3. m \in Seq(Proper) /\ Len(m) = 1
  BY <1>2, Symbols DEF Cmd
<1>4. PICK spoils : Broadcast(<<Sym("command", commands')>>, spoils)
  BY DEF Command
<1>5. Broadcast(m, spoils)
  BY <1>1, <1>4 DEF Cmd
<1>6. carrier = "link"
  BY DEF Command
<1> HIDE DEF m
<1>7. CASE closed
  BY <1>1, <1>5, <1>6, <1>7, ClosedO
<1> QED
  BY <1>1, <1>3, <1>5, <1>7, BroadcastO DEF m

LEMMA OInvInit == Init => OInv
<1> SUFFICES ASSUME Init PROVE OInv
  OBVIOUS
<1>1. commands = 0 /\ chan = <<>> /\ wire = <<>> /\ buf = <<>> /\ handled = <<>>
      /\ \A f \in File : disk[f].data = <<>> \/ disk[f].data = <<Sym("byte", None)>>
  BY DEF Init, Present, Absent
<1>2. Rest = <<>>
  BY <1>1 DEF Rest
<1>3. ASSUME NEW c PROVE Spots(c) = {}
  <2>1. Len(Rest) = 0 /\ Len(chan) = 0 /\ Len(handled) = 0
    BY <1>1, <1>2
  <2>2. \A f \in File : ~Occurs(c, disk[f].data)
    BY <1>1 DEF Occurs, Sym
  <2>3. Off(c) = {}
    BY <2>1, <2>2, OffOf
  <2> QED
    BY <2>1, <2>3, SpotsOf
<1>4. Single
  BY <1>1 DEF Single
<1> QED
  BY <1>1, <1>3, <1>4 DEF OInv

LEMMA OInvInductive == TInv /\ NameT /\ OInv /\ [Next]_vars => OInv'
<1> SUFFICES ASSUME TInv, NameT, OInv, [Next]_vars PROVE OInv'
  OBVIOUS
<1>1. CASE UNCHANGED vars
  <2>1. Rest' = Rest /\ UNCHANGED <<chan, disk, handled, commands, spoilt>>
    BY <1>1 DEF vars, Rest, nodeVars, pastVars
  <2> QED
    BY <2>1, SameO DEF Gone
<1>2. ASSUME NEW u \in Uploader, UploadBreaks(u) PROVE OInv'
  <2>1. Rest' = Rest /\ UNCHANGED <<chan, disk, handled, commands>> /\ (Gone => Gone')
    BY <1>2 DEF UploadBreaks, Rest, nodeVars, Gone
  <2> QED
    BY <2>1, SameO
<1> QED
  BY <1>1, <1>2, MoverO, UploadO, CommandO, LinkO, LinkEndsO, ReaderO DEF Next

-----------------------------------------------------------------------------
(* A command reaches a file only when the upload met it or the link lagged. *)

LEMMA MarkIn ==
  ASSUME NodeT, NEW l \in 1..Len(buf), l < Len(buf)
  PROVE  DelimiterAt(l) <=> Mark(l)
<1>1. buf \in Seq(Proper) /\ l + 1 \in 1..Len(buf)
      /\ (SubSeq(buf, l, l + 1) = Delimiter <=> buf[l] = Delimiter[1] /\ buf[l + 1] = Delimiter[2])
  BY MarkAt DEF NodeT
<1>2. l \in 1..Len(Rest) /\ l + 1 \in 1..Len(Rest) /\ Rest[l] = buf[l] /\ Rest[l + 1] = buf[l + 1]
  BY <1>1, RestSeq
<1> QED
  BY <1>1, <1>2 DEF Mark, DelimiterAt

LEMMA AwaitsShift ==
  ASSUME TInv, LinkWrites, NEW k \in Nat, NEW h \in Nat, Awaits(k),
         k = h + 1 \/ (k = 0 /\ h = 0 /\ chan[1] # Delimiter)
  PROVE  Awaits(h)'
<1>1. /\ Len(chan) \in Nat /\ Len(chan) >= 1 /\ Len(chan') = Len(chan) - 1
      /\ \A j \in 1..Len(chan') : j + 1 \in 1..Len(chan) /\ chan'[j] = chan[j + 1]
  BY LinkSeq
<1>2. \A v : Owes(v)' = Owes(v)
  BY DEF LinkWrites, sendVars, Owes
<1>3. Delimiter' = Delimiter /\ \A j : IsKind(chan[j], "command")' = IsKind(chan'[j], "command")
  BY DEF Delimiter, Sym, IsKind
<1>4. ASSUME NEW l \in 1..Len(chan), k < l, chan[l] = Delimiter
      PROVE  l - 1 \in 1..Len(chan') /\ h < l - 1 /\ chan'[l - 1] = Delimiter
  <2>1. l # 1
    BY <1>4
  <2>2. l - 1 \in 1..Len(chan') /\ h < l - 1 /\ (l - 1) + 1 = l
    BY <1>1, <1>4, <2>1
  <2> QED
    BY <1>1, <1>4, <2>2
<1>5. (\E l \in 1..Len(chan') : h < l /\ chan'[l] = Delimiter) \/ \E u \in Uploader : Owes(u)'
  <2>1. CASE \E l \in 1..Len(chan) : k < l /\ chan[l] = Delimiter
    BY <1>4, <2>1
  <2>2. CASE \E u \in Uploader : Owes(u)
    BY <1>2, <2>2
  <2> QED
    BY <2>1, <2>2 DEF Awaits
<1>6. ASSUME NEW m \in 1..Len(chan'), h < m, IsKind(chan'[m], "command")
      PROVE  \E l \in 1..Len(chan') : h < l /\ l < m /\ chan'[l] = Delimiter
  <2>1. m + 1 \in 1..Len(chan) /\ k < m + 1 /\ IsKind(chan[m + 1], "command")
    BY <1>1, <1>6
  <2>2. PICK l \in 1..Len(chan) : k < l /\ l < m + 1 /\ chan[l] = Delimiter
    BY <2>1 DEF Awaits
  <2>3. l - 1 < m
    BY <1>1, <2>2
  <2> QED
    BY <1>4, <2>2, <2>3
<1> QED
  BY <1>3, <1>5, <1>6 DEF Awaits

LEMMA AwaitsJoin ==
  ASSUME TInv, NEW m \in Seq(Proper), Len(chan') = Len(chan) + 1,
         \A j \in 1..Len(chan) : chan'[j] = chan[j],
         chan'[Len(chan) + 1] = m, NEW k \in 0..Len(chan), Awaits(k),
         \A v \in Uploader : Owes(v) => Owes(v)' \/ m = Delimiter,
         IsKind(m, "command") => \A v \in Uploader : ~Owes(v)
  PROVE  Awaits(k)'
<1>1. Len(chan) \in Nat /\ k \in Nat
  BY LenProperties DEF TInv, NodeT
<1>2. /\ \A j \in 1..Len(chan) : j \in 1..Len(chan') /\ j < Len(chan) + 1
      /\ \A j \in 1..Len(chan') : j \in 1..Len(chan) \/ j = Len(chan) + 1
      /\ Len(chan) + 1 \in 1..Len(chan') /\ k < Len(chan) + 1
  BY <1>1
<1>3. (\E l \in 1..Len(chan') : k < l /\ chan'[l] = Delimiter) \/ \E u \in Uploader : Owes(u)'
  <2>1. CASE \E l \in 1..Len(chan) : k < l /\ chan[l] = Delimiter
    BY <1>2, <2>1
  <2>2. CASE \E u \in Uploader : Owes(u)
    BY <1>2, <2>2
  <2> QED
    BY <2>1, <2>2 DEF Awaits
<1>4. ASSUME NEW j \in 1..Len(chan'), k < j, IsKind(chan'[j], "command")
      PROVE  \E l \in 1..Len(chan') : k < l /\ l < j /\ chan'[l] = Delimiter
  <2>1. CASE j \in 1..Len(chan)
    <3>1. PICK l \in 1..Len(chan) : k < l /\ l < j /\ chan[l] = Delimiter
      BY <1>4, <2>1 DEF Awaits
    <3> QED
      BY <1>2, <3>1
  <2>2. CASE j = Len(chan) + 1
    <3>1. PICK l \in 1..Len(chan) : k < l /\ chan[l] = Delimiter
      BY <1>4, <2>2 DEF Awaits
    <3> QED
      BY <1>2, <2>2, <3>1
  <2> QED
    BY <1>2, <2>1, <2>2
<1>5. Delimiter' = Delimiter /\ \A j : IsKind(chan[j], "command")' = IsKind(chan'[j], "command")
  BY DEF Delimiter, Sym, IsKind
<1> QED
  BY <1>3, <1>4, <1>5 DEF Awaits

\* Nothing that Awaits is about changes.
LEMMA AwaitsSame ==
  ASSUME UNCHANGED <<pc, field, chan>>, NEW k
  PROVE  Awaits(k)' = Awaits(k)
BY DEF Awaits, Owes, IsKind, Delimiter, Sym

\* The reader takes the first symbols it has, and no delimiter with them when
\* it goes on in a file.
LEMMA DrainD ==
  ASSUME TInv, DInv, NodeKeeps, NEW n \in 0..Len(buf), buf' = SubSeq(buf, n + 1, Len(buf)),
         UNCHANGED wire, spoilt \subseteq spoilt',
         mode' # None => \E i \in 0..n : Started(i) /\ \A l \in 1..n : Mark(l) => l <= i,
         Unmet => \A f \in File : \A c \in 1..Commands : ~Occurs(c, disk'[f].data)
  PROVE  DInv'
<1> SUFFICES ASSUME Unmet' PROVE DInv'
  BY DEF DInv
<1>1. /\ NodeT /\ Unmet /\ UNCHANGED <<pc, field, chan>> /\ Len(Rest) \in Nat
      /\ n \in 0..Len(Rest) /\ Len(Rest') = Len(Rest) - n
      /\ \A i \in 1..Len(Rest') : Rest'[i] = Rest[n + i]
  <2>1. NodeT
    BY DEF TInv
  <2> QED
    BY <2>1, RestDrains, RestSeq DEF NodeKeeps, Unmet, sendVars
<1>14. PICK r : r = Len(Rest)
  OBVIOUS
<1>15. PICK s : s = Len(Rest')
  OBVIOUS
<1>2. /\ n \in Nat /\ s \in Nat /\ r = s + n
      /\ \A i \in 1..s : n + i \in 1..r /\ n + i # 0 /\ i # 0
      /\ \A i \in 0..s : n + i \in 0..r /\ i \in Nat
      /\ \A i \in 0..s : i = 0 \/ i \in 1..s
  BY <1>1, <1>14, <1>15
<1>3. /\ \A i \in 1..s : Started(i)' = Started(n + i)
      /\ Started(0)' = (mode' # None)
  BY <1>1, <1>2, <1>15 DEF Started
<1>4. ASSUME NEW l \in 1..s, Mark(n + l) PROVE Mark(l)'
  <2>1. l + 1 \in 1..s /\ n + (l + 1) = (n + l) + 1
    BY <1>2, <1>4, <1>14 DEF Mark
  <2>2. Rest'[l] = Rest[n + l] /\ Rest'[l + 1] = Rest[(n + l) + 1]
    <3>1. l \in 1..Len(Rest') /\ l + 1 \in 1..Len(Rest')
      BY <1>15, <2>1
    <3>2. Rest'[l] = Rest[n + l] /\ Rest'[l + 1] = Rest[n + (l + 1)]
      BY <1>1, <3>1
    <3> QED
      BY <2>1, <3>2
  <2> QED
    BY <1>4, <1>15, <2>1, <2>2 DEF Mark, Delimiter, Sym
<1>5. /\ Apart /\ \A k \in 1..Len(chan) : IsKind(chan[k], "start") => Awaits(k)
  BY <1>1 DEF DInv
<1>6. ASSUME NEW i \in 0..s, NEW g \in 0..r, NEW j \in Nat,
             \A l \in 1..r : Mark(l) /\ g < l => n + i < l, Parted(g, n + j)
      PROVE  Parted(i, j)'
  <2>1. PICK l \in 1..r : Mark(l) /\ g < l /\ l + 1 < n + j
    BY <1>6, <1>14 DEF Parted
  <2>2. n + i < l
    BY <1>6, <2>1
  <2>3. l - n \in 1..s /\ n + (l - n) = l /\ i < l - n /\ (l - n) + 1 < j
    BY <1>2, <2>1, <2>2
  <2>4. Mark(l - n)'
    BY <1>4, <2>1, <2>3
  <2> QED
    BY <1>15, <2>3, <2>4 DEF Parted
<1>7. ASSUME NEW i \in 0..s, NEW g \in 0..r, Started(g), g <= n + i,
             \A l \in 1..r : Mark(l) /\ g < l => n + i < l
      PROVE  /\ \A j \in 1..s : i < j /\ Rest'[j].kind = "command" => Parted(i, j)'
             /\ closed' \/ Parted(i, s + 1)' \/ Awaits(0)'
  <2>1. ASSUME NEW j \in 1..s, i < j, Rest'[j].kind = "command" PROVE Parted(i, j)'
    <3>1. n + j \in 1..r /\ g < n + j /\ j \in Nat
      BY <1>2, <1>7, <2>1
    <3>3. Rest[n + j].kind = "command"
      BY <1>1, <1>15, <2>1
    <3>2. Parted(g, n + j)
      BY <1>5, <1>7, <1>14, <3>1, <3>3 DEF Apart
    <3> QED
      BY <1>6, <1>7, <3>1, <3>2
  <2>2. closed' \/ Parted(g, r + 1) \/ Awaits(0)
    BY <1>5, <1>7, <1>14 DEF Apart, NodeKeeps
  <2>3. ASSUME Parted(g, r + 1) PROVE Parted(i, s + 1)'
    <3>1. r + 1 = n + (s + 1) /\ s + 1 \in Nat
      BY <1>2
    <3> QED
      BY <1>6, <1>7, <2>3, <3>1
  <2>4. Awaits(0) => Awaits(0)'
    BY <1>1, AwaitsSame
  <2> QED
    BY <2>1, <2>2, <2>3, <2>4
<1>8. ASSUME NEW i \in 0..s, Started(i)'
      PROVE  /\ \A j \in 1..s : i < j /\ Rest'[j].kind = "command" => Parted(i, j)'
             /\ closed' \/ Parted(i, s + 1)' \/ Awaits(0)'
  <2>1. CASE i \in 1..s
    <3>1. n + i \in 0..r /\ Started(n + i) /\ n + i <= n + i
      BY <1>2, <1>3, <1>8, <2>1
    <3> QED
      BY <1>7, <3>1
  <2>2. CASE i = 0
    <3>1. mode' # None
      BY <1>3, <1>8, <2>2
    <3>2. PICK g \in 0..n : Started(g) /\ \A l \in 1..n : Mark(l) => l <= g
      BY <3>1
    <3>3. g \in 0..r /\ g <= n + i
      BY <1>2, <2>2
    <3>4. ASSUME NEW l \in 1..r, Mark(l), g < l PROVE n + i < l
      <4>1. ~(l \in 1..n)
        <5>1. g \in Nat /\ l \in Nat
          BY <3>3
        <5>2. ~(l <= g)
          BY <3>4, <5>1
        <5> QED
          BY <3>2, <3>4, <5>2
      <4> QED
        BY <1>2, <2>2, <4>1
    <3> QED
      BY <1>7, <3>2, <3>3, <3>4
  <2> QED
    BY <1>2, <2>1, <2>2
<1>9. Apart'
  BY <1>8, <1>15 DEF Apart
<1>10. \A k \in 1..Len(chan') : IsKind(chan'[k], "start") => Awaits(k)'
  BY <1>1, <1>5, AwaitsSame
<1>11. \A f \in File : \A c \in 1..Commands : ~Occurs(c, disk'[f].data)
  BY <1>1
<1>12. \A c, f : Occurs(c, disk[f].data)' = Occurs(c, disk'[f].data)
  BY DEF Occurs, Sym
<1>13. \A k : IsKind(chan[k], "start")' = IsKind(chan'[k], "start")
  BY DEF IsKind
<1> QED
  BY <1>9, <1>10, <1>11, <1>12, <1>13 DEF DInv

LEMMA LinkD ==
  ASSUME TInv, NameT, OInv, DInv, LinkWrites
  PROVE  DInv'
<1> SUFFICES ASSUME Unmet' PROVE DInv'
  BY DEF DInv
<1>1. /\ Len(chan) \in Nat /\ Len(chan) >= 1 /\ Len(chan') = Len(chan) - 1
      /\ \A j \in 1..Len(chan') : j + 1 \in 1..Len(chan) /\ chan'[j] = chan[j + 1]
      /\ Len(chan[1]) \in Nat
      /\ Len(Rest) \in Nat /\ Len(Rest') = Len(Rest) + Len(chan[1]) + 1
      /\ \A i \in 1..Len(Rest) : Rest'[i] = Rest[i]
      /\ \A i \in 1..Len(chan[1]) : Rest'[Len(Rest) + i] = chan[1][i]
      /\ Rest'[Len(Rest) + Len(chan[1]) + 1] = Newline
  BY LinkSeq
<1>2. PICK r : r = Len(Rest)
  OBVIOUS
<1>3. PICK n : n = Len(chan[1])
  OBVIOUS
<1>4. PICK s : s = Len(Rest')
  OBVIOUS
<1>5. /\ r \in Nat /\ n \in Nat /\ s = r + n + 1 /\ s \in Nat
      /\ \A i \in 1..r : Rest'[i] = Rest[i]
      /\ \A i \in 1..n : Rest'[r + i] = chan[1][i]
      /\ Rest'[r + n + 1] = Newline
  BY <1>1, <1>2, <1>3, <1>4
<1>6. /\ \A i \in 1..r : i \in 1..s
      /\ \A i \in 1..s : i \in 1..r \/ (\E l \in 1..n : i = r + l) \/ i = r + n + 1
      /\ 1 \in 1..Len(chan)
  <2>1. ASSUME NEW i \in 1..s, i \notin 1..r, i # r + n + 1 PROVE \E l \in 1..n : i = r + l
    <3>1. i - r \in 1..n /\ i = r + (i - r)
      BY <1>5, <2>1
    <3> QED
      BY <3>1
  <2>2. (\A i \in 1..r : i \in 1..s) /\ 1 \in 1..Len(chan)
    BY <1>1, <1>5
  <2> QED
    BY <2>1, <2>2
<1>7. Unmet /\ Apart /\ ~closed /\ \A k \in 1..Len(chan) : IsKind(chan[k], "start") => Awaits(k)
  BY DEF DInv, Unmet, LinkWrites, pastVars, NameT
<1>8. UNCHANGED <<disk, mode>>
  BY DEF LinkWrites, nodeVars
\* A start or a command on its way is a message of its own.
<1>9. ASSUME NEW i \in 1..s, Rest'[i].kind \in {"start", "command"}
      PROVE  \/ i \in 1..r /\ Rest[i].kind = Rest'[i].kind
             \/ i = r + 1 /\ n = 1 /\ s = r + 2 /\ IsKind(chan[1], Rest'[i].kind)
  <2>1. CASE i \in 1..r
    BY <1>5, <2>1
  <2>2. ASSUME NEW l \in 1..n, i = r + l
        PROVE  i = r + 1 /\ n = 1 /\ s = r + 2 /\ IsKind(chan[1], Rest'[i].kind)
    <3>1. Rest'[i] = chan[1][l] /\ l \in 1..Len(chan[1])
      BY <1>3, <1>5, <2>2
    <3>2. Len(chan[1]) = 1
      BY <1>6, <1>9, <3>1 DEF OInv, Single
    <3>3. n = 1 /\ l = 1
      BY <1>3, <3>1, <3>2
    <3>4. IsKind(chan[1], Rest'[i].kind)
      BY <3>1 DEF IsKind
    <3> QED
      BY <1>5, <2>2, <3>3, <3>4
  <2>3. Rest'[r + n + 1].kind = "newline"
    BY <1>5 DEF Newline, Sym
  <2> QED
    BY <1>6, <1>9, <2>1, <2>2, <2>3
<1>10. ASSUME NEW l, Mark(l) PROVE Mark(l)'
  <2>1. l \in 1..r /\ l + 1 \in 1..r /\ l \in 1..s /\ l + 1 \in 1..s
    BY <1>2, <1>6, <1>10 DEF Mark
  <2>2. Rest'[l] = Rest[l] /\ Rest'[l + 1] = Rest[l + 1]
    BY <1>5, <2>1
  <2> QED
    BY <1>4, <1>10, <2>1, <2>2 DEF Mark, Delimiter, Sym
<1>11. ASSUME NEW i, NEW j, NEW k, Parted(i, j), j \in Nat, k \in Nat, j <= k PROVE Parted(i, k)'
  <2>1. PICK l \in 1..r : Mark(l) /\ i < l /\ l + 1 < j
    BY <1>2, <1>11 DEF Parted
  <2>2. l \in 1..s /\ l + 1 < k
    BY <1>5, <1>6, <1>11, <2>1
  <2> QED
    BY <1>4, <1>10, <2>1, <2>2 DEF Parted
<1>12. ASSUME NEW i \in 0..r, Started(i)
       PROVE  /\ \A j \in 1..s : i < j /\ Rest'[j].kind = "command" => Parted(i, j)'
              /\ Parted(i, s + 1)' \/ Awaits(0)'
  <2>1. Parted(i, r + 1) \/ Awaits(0)
    BY <1>2, <1>7, <1>12 DEF Apart
  <2>2. ASSUME NEW j \in 1..s, i < j, Rest'[j].kind = "command" PROVE Parted(i, j)'
    <3>1. CASE j \in 1..r /\ Rest[j].kind = "command"
      <4>1. Parted(i, j)
        BY <1>2, <1>7, <1>12, <2>2, <3>1 DEF Apart
      <4>2. j \in Nat /\ j <= j
        OBVIOUS
      <4> QED
        BY <1>11, <4>1, <4>2
    <3>2. CASE j = r + 1 /\ IsKind(chan[1], "command")
      <4>1. ~Awaits(0)
        <5>1. ASSUME NEW l \in 1..Len(chan), 0 < l, l < 1 PROVE FALSE
          BY <5>1
        <5> QED
          BY <1>6, <3>2, <5>1 DEF Awaits
      <4>2. Parted(i, r + 1) /\ r + 1 \in Nat /\ r + 1 <= r + 1
        BY <1>5, <2>1, <4>1
      <4>3. Parted(i, r + 1)'
        BY <1>11, <4>2
      <4> QED
        BY <3>2, <4>3
    <3> QED
      BY <1>9, <2>2, <3>1, <3>2
  <2>3. ASSUME Parted(i, r + 1) PROVE Parted(i, s + 1)'
    <3>1. r + 1 \in Nat /\ s + 1 \in Nat /\ r + 1 <= s + 1
      BY <1>5
    <3> QED
      BY <1>11, <2>3, <3>1
  <2>4. ASSUME Awaits(0), chan[1] # Delimiter PROVE Awaits(0)'
    BY <2>4, AwaitsShift
  <2>5. ASSUME chan[1] = Delimiter PROVE Parted(i, s + 1)'
    <3>1. n = 2 /\ s = r + 3 /\ Rest'[r + 1] = Delimiter[1] /\ Rest'[r + 2] = Delimiter[2]
      BY <1>3, <1>5, <2>5, Symbols
    <3>2. /\ r + 1 \in 1..s /\ (r + 1) + 1 = r + 2 /\ r + 2 \in 1..s /\ i < r + 1
          /\ (r + 1) + 1 < s + 1
      BY <1>5, <3>1
    <3>3. Mark(r + 1)'
      BY <1>4, <3>1, <3>2 DEF Mark, Delimiter, Sym
    <3> QED
      BY <1>4, <3>2, <3>3 DEF Parted
  <2> QED
    BY <2>1, <2>2, <2>3, <2>4, <2>5
<1>13. ASSUME IsKind(chan[1], "start"), s = r + 2
       PROVE  /\ \A j \in 1..s : r + 1 < j /\ Rest'[j].kind = "command" => Parted(r + 1, j)'
              /\ Awaits(0)'
  <2>1. Awaits(1) /\ 1 = 0 + 1
    BY <1>6, <1>7, <1>13
  <2>2. Awaits(0)'
    BY <2>1, AwaitsShift
  <2>3. ASSUME NEW j \in 1..s, r + 1 < j, Rest'[j].kind = "command" PROVE FALSE
    <3>1. j \notin 1..r /\ j # r + 1
      BY <1>5, <2>3
    <3> QED
      BY <1>9, <2>3, <3>1
  <2> QED
    BY <2>2, <2>3
<1>14. ASSUME NEW i \in 0..s, Started(i)'
       PROVE  /\ \A j \in 1..s : i < j /\ Rest'[j].kind = "command" => Parted(i, j)'
              /\ Parted(i, s + 1)' \/ Awaits(0)'
  <2>1. CASE i = 0
    <3>1. Started(0) /\ 0 \in 0..r
      BY <1>5, <1>8, <1>14, <2>1 DEF Started
    <3> QED
      BY <1>12, <2>1, <3>1
  <2>2. CASE i # 0
    <3>1. i \in 1..s /\ Rest'[i].kind = "start"
      BY <1>5, <1>14, <2>2 DEF Started
    <3>2. CASE i \in 1..r /\ Rest[i].kind = "start"
      <4>1. i \in 0..r /\ Started(i)
        BY <2>2, <3>2 DEF Started
      <4> QED
        BY <1>12, <4>1
    <3>3. CASE i = r + 1 /\ s = r + 2 /\ IsKind(chan[1], "start")
      BY <1>13, <3>3
    <3> QED
      BY <1>9, <3>1, <3>2, <3>3
  <2> QED
    BY <2>1, <2>2
<1>15. Apart'
  BY <1>4, <1>14 DEF Apart
<1>16. ASSUME NEW k \in 1..Len(chan'), IsKind(chan'[k], "start") PROVE Awaits(k)'
  <2>1. k + 1 \in 1..Len(chan) /\ chan'[k] = chan[k + 1] /\ k \in Nat /\ k + 1 \in Nat
    BY <1>1
  <2>2. Awaits(k + 1)
    BY <1>7, <1>16, <2>1
  <2> QED
    BY <2>1, <2>2, AwaitsShift
<1>17. \A k : IsKind(chan[k], "start")' = IsKind(chan'[k], "start")
  BY DEF IsKind
<1>18. (\A f \in File : \A c \in 1..Commands : ~Occurs(c, disk[f].data))'
  BY <1>7, <1>8 DEF DInv, Occurs, Sym
<1> QED
  BY <1>15, <1>16, <1>17, <1>18 DEF DInv

\* A message joins the channel.
LEMMA BroadcastD ==
  ASSUME TInv, DInv, ~closed, NEW m \in Seq(Proper), NEW spoils, Broadcast(m, spoils),
         UNCHANGED <<carrier, wire, buf, mode, disk>>,
         \/ /\ ~IsKind(m, "command") /\ (IsKind(m, "start") => \E u \in Uploader : Owes(u)')
            /\ \A v \in Uploader : Owes(v) => Owes(v)' \/ m = Delimiter
         \/ /\ ~IsKind(m, "start") /\ \A v \in Uploader : Owes(v)' = Owes(v)
            /\ Unmet' => \A v \in Uploader : ~Owes(v)
  PROVE  DInv'
<1> SUFFICES ASSUME Unmet' PROVE DInv'
  BY DEF DInv
<1>1. NodeT /\ Len(chan) \in Nat
  BY LenProperties DEF TInv, NodeT
<1>2. PICK o \in {0, 1} :
        /\ Len(chan') = (Len(chan) - o) + 1
        /\ \A j \in 1..(Len(chan) - o) : chan'[j] = chan[j + o]
        /\ chan'[(Len(chan) - o) + 1] = m
        /\ o = 1 => "lag" \in spoilt'
        /\ spoilt \cup spoils \subseteq spoilt'
  BY <1>1, BroadcastSeq
<1>3. o = 0 /\ Unmet
  BY <1>2 DEF Unmet
<1>4. /\ Len(chan') = Len(chan) + 1 /\ chan'[Len(chan) + 1] = m
      /\ \A j \in 1..Len(chan) : chan'[j] = chan[j]
  <2>1. Len(chan) - o = Len(chan) /\ \A j \in 1..Len(chan) : j + o = j
    BY <1>1, <1>3
  <2> QED
    BY <1>2, <2>1
<1>5. /\ \A v \in Uploader : Owes(v) => Owes(v)' \/ m = Delimiter
      /\ IsKind(m, "command") => \A v \in Uploader : ~Owes(v)
      /\ IsKind(m, "start") => (\E u \in Uploader : Owes(u)') /\ ~IsKind(m, "command")
  OBVIOUS
<1>6. ASSUME NEW k \in 0..Len(chan), Awaits(k) PROVE Awaits(k)'
  BY <1>4, <1>5, <1>6, AwaitsJoin
<1>7. Rest' = Rest
  BY DEF Rest
<1>8. (\A i : Started(i)' = Started(i)) /\ \A i, j : Parted(i, j)' = Parted(i, j)
  <2>1. \A i : Started(i)' = Started(i)
    BY <1>7 DEF Started
  <2>2. \A l : Mark(l)' = Mark(l)
    BY <1>7 DEF Mark, Delimiter, Sym
  <2> QED
    BY <1>7, <2>1, <2>2 DEF Parted
<1>9. Apart'
  <2>1. 0 \in 0..Len(chan)
    BY <1>1
  <2>2. Awaits(0) => Awaits(0)'
    BY <1>6, <2>1
  <2>3. Apart /\ ~closed
    BY <1>3 DEF DInv
  <2> QED
    BY <1>7, <1>8, <2>2, <2>3 DEF Apart
<1>10. ASSUME NEW k \in 1..Len(chan'), IsKind(chan'[k], "start") PROVE Awaits(k)'
  <2>1. CASE k \in 1..Len(chan)
    <3>1. k \in 0..Len(chan) /\ Awaits(k)
      BY <1>1, <1>3, <1>4, <1>10, <2>1 DEF DInv
    <3> QED
      BY <1>6, <3>1
  <2>2. CASE k = Len(chan) + 1
    <3>1. \E u \in Uploader : Owes(u)'
      BY <1>4, <1>5, <1>10, <2>2
    <3>2. \A j \in 1..Len(chan') : ~(k < j)
      BY <1>1, <1>4, <2>2
    <3> QED
      BY <3>1, <3>2 DEF Awaits
  <2> QED
    BY <1>1, <1>4, <2>1, <2>2
<1>11. \A k : IsKind(chan[k], "start")' = IsKind(chan'[k], "start")
  BY DEF IsKind
<1>12. (\A f \in File : \A c \in 1..Commands : ~Occurs(c, disk[f].data))'
  BY <1>3 DEF DInv, Occurs, Sym
<1> QED
  BY <1>9, <1>10, <1>11, <1>12 DEF DInv

\* Once the link has ended no delimiter is awaited: nothing more comes.
LEMMA ClosedD ==
  ASSUME NameT, DInv, closed, closed', Rest' = Rest,
         UNCHANGED <<chan, carrier, mode, disk>>, spoilt \subseteq spoilt'
  PROVE  DInv'
<1> SUFFICES ASSUME Unmet' PROVE DInv'
  BY DEF DInv
<1>1. Unmet /\ chan' = <<>> /\ Len(<<>>) = 0
  BY DEF Unmet, NameT
<1>2. \A i : Started(i)' = Started(i)
  BY DEF Started
<1>3. \A l : Mark(l)' = Mark(l)
  BY DEF Mark, Delimiter, Sym
<1>4. \A i, j : Parted(i, j)' = Parted(i, j)
  BY <1>3 DEF Parted
<1>5. Apart'
  BY <1>1, <1>2, <1>4 DEF Apart, DInv
<1>6. (\A f \in File : \A c \in 1..Commands : ~Occurs(c, disk[f].data))'
  BY <1>1 DEF DInv, Occurs, Sym
<1> QED
  BY <1>1, <1>5, <1>6 DEF DInv

LEMMA LinkEndsD ==
  ASSUME TInv, NameT, DInv, LinkEnds \/ LinkReturns
  PROVE  DInv'
<1> SUFFICES ASSUME Unmet' PROVE DInv'
  BY DEF DInv
<1>1. NodeT /\ Unmet /\ disk' = disk /\ chan' = <<>> /\ Len(<<>>) = 0
  BY DEF TInv, NameT, Unmet, LinkEnds, LinkReturns, nodeVars, pastVars
<1>2. (\A f \in File : \A c \in 1..Commands : ~Occurs(c, disk[f].data))'
  BY <1>1 DEF DInv, Occurs, Sym
<1>3. CASE LinkReturns
  <2>1. Rest' = <<>> /\ mode' = None
    BY <1>3 DEF LinkReturns, Rest
  <2>2. Apart'
    BY <1>1, <2>1 DEF Apart, Started
  <2> QED
    BY <1>1, <1>2, <2>2 DEF DInv
<1>4. CASE LinkEnds
  <2>1. PICK n \in 0..Len(wire) : wire' = SubSeq(wire, 1, n)
    BY <1>4 DEF LinkEnds
  <2>2. UNCHANGED <<buf, mode>> /\ closed'
    BY <1>4 DEF LinkEnds, nodeVars
  <2>3. PICK r : r = Len(Rest')
    OBVIOUS
  <2>4. r \in Nat /\ \A i \in 1..r : i \in 1..Len(Rest) /\ Rest'[i] = Rest[i]
    BY <1>1, <2>1, <2>2, <2>3, RestBreaks
  <2>5. ASSUME NEW l, NEW j \in 1..r, Mark(l), l + 1 < j PROVE l \in 1..r /\ Mark(l)'
    <3>1. l \in 1..Len(Rest) /\ Len(Rest) \in Nat
      BY <1>1, <2>5, RestSeq DEF Mark
    <3>2. l \in 1..r /\ l + 1 \in 1..r
      BY <2>4, <2>5, <3>1
    <3>3. Rest'[l] = Rest[l] /\ Rest'[l + 1] = Rest[l + 1]
      BY <2>4, <3>2
    <3> QED
      BY <2>3, <2>5, <3>2, <3>3 DEF Mark, Delimiter, Sym
  <2>6. ASSUME NEW i \in 0..r, Started(i)', NEW j \in 1..r, i < j, Rest'[j].kind = "command"
        PROVE  Parted(i, j)'
    <3>1. i \in 0..Len(Rest) /\ Started(i) /\ j \in 1..Len(Rest) /\ Rest[j].kind = "command"
      <4>1. Started(i)
        <5>1. i = 0 \/ i \in 1..r
          BY <2>4
        <5> QED
          BY <2>2, <2>4, <2>6, <5>1 DEF Started
      <4>2. i \in 0..Len(Rest)
        <5>1. i = 0 \/ i \in 1..r
          BY <2>4
        <5>2. Len(Rest) \in Nat
          BY <1>1, RestSeq
        <5> QED
          BY <2>4, <5>1, <5>2
      <4> QED
        BY <2>4, <2>6, <4>1, <4>2
    <3>2. Parted(i, j)
      BY <1>1, <2>6, <3>1 DEF DInv, Apart
    <3>3. PICK l \in 1..Len(Rest) : Mark(l) /\ i < l /\ l + 1 < j
      BY <3>2 DEF Parted
    <3>4. l \in 1..r /\ Mark(l)'
      BY <2>5, <2>6, <3>3
    <3> QED
      BY <2>3, <3>3, <3>4 DEF Parted
  <2>7. Apart'
    BY <2>2, <2>3, <2>6 DEF Apart
  <2> QED
    BY <1>1, <1>2, <2>7 DEF DInv
<1> QED
  BY <1>3, <1>4

LEMMA UploadD ==
  ASSUME TInv, NameT, DInv, NEW u \in Uploader, UploadStep(u)
  PROVE  DInv'
<1>1. PICK m \in Seq(Proper), spoils \in SUBSET Spoils :
        /\ Broadcast(m, spoils)
        /\ \A i \in 1..Len(m) : m[i].kind # "command"
        /\ (\E i \in 1..Len(m) : m[i].kind = "start") => Owes(u)'
        /\ Owes(u) => Owes(u)' \/ m = Delimiter
  BY UploadMessage
<1>2. \A v \in Uploader \ {u} : Owes(v)' = Owes(v)
  BY UploadMessage
<1>3. ~IsKind(m, "command") /\ (IsKind(m, "start") => Owes(u)')
  BY <1>1 DEF IsKind
<1>4. \A v \in Uploader : Owes(v) => Owes(v)' \/ m = Delimiter
  BY <1>1, <1>2
<1>5. UNCHANGED <<carrier, wire, buf, mode, disk>>
  BY UploadSends DEF UploadKeeps, nodeVars
<1>6. CASE closed
  <2>1. chan' = chan /\ spoilt \subseteq spoilt' /\ Rest' = Rest /\ closed'
    BY <1>1, <1>5, <1>6, UploadSends DEF Broadcast, Rest, UploadKeeps
  <2> QED
    BY <1>5, <1>6, <2>1, ClosedD
<1> QED
  BY <1>1, <1>3, <1>4, <1>5, <1>6, BroadcastD

LEMMA CommandD ==
  ASSUME TInv, NameT, DInv, Command
  PROVE  DInv'
<1> SUFFICES ASSUME Unmet' PROVE DInv'
  BY DEF DInv
<1>1. /\ commands' = commands + 1 /\ commands \in Nat /\ commands < Commands
      /\ UNCHANGED <<carrier, wire, buf, mode, disk, pc, field>>
  BY TransferAssumption DEF Command, nodeVars, sendVars, TInv, NodeT
<1> DEFINE spoils == IF \E u \in Uploader : Uploading(u) THEN {"command"} ELSE {}
<1>2. PICK m : m = <<Sym("command", commands + 1)>>
  OBVIOUS
<1>3. m \in Seq(Proper) /\ Broadcast(m, spoils)
  <2>1. commands + 1 \in 1..Commands
    BY <1>1, TransferAssumption
  <2>2. Sym("command", commands + 1) \in Proper
    BY <2>1, Symbols
  <2>3. Broadcast(<<Sym("command", commands')>>, spoils)
    BY DEF Command
  <2> QED
    BY <1>1, <1>2, <2>2, <2>3
<1>4. spoils \subseteq spoilt'
  BY <1>3 DEF Broadcast
<1>5. \A v \in Uploader : ~Owes(v)
  <2>1. \A v \in Uploader : ~Uploading(v)
    BY <1>4 DEF Unmet
  <2>2. \A v \in Uploader : Owes(v) => Uploading(v)
    BY DEF Owes, Uploading
  <2> QED
    BY <2>1, <2>2
<1>6. (\A v \in Uploader : Owes(v)' = Owes(v)) /\ ~IsKind(m, "start")
  BY <1>1, <1>2 DEF Owes, IsKind, Sym
<1> HIDE DEF spoils
<1>7. CASE closed
  <2>1. chan' = chan /\ spoilt \subseteq spoilt' /\ Rest' = Rest /\ closed'
    BY <1>1, <1>3, <1>7 DEF Broadcast, Rest, Command
  <2> QED
    BY <1>1, <1>7, <2>1, ClosedD
<1> QED
  BY <1>1, <1>3, <1>5, <1>6, <1>7, BroadcastD

\* Nothing that a delimiter could part moves.
LEMMA SameD ==
  ASSUME DInv, Rest' = Rest, UNCHANGED <<pc, field, chan, closed, carrier, mode, disk, spoilt>>
  PROVE  DInv'
<1>1. \A k : Awaits(k)' = Awaits(k)
  BY AwaitsSame
<1>2. \A i : Started(i)' = Started(i)
  BY DEF Started
<1>3. \A l : Mark(l)' = Mark(l)
  BY DEF Mark, Delimiter, Sym
<1>4. \A i, j : Parted(i, j)' = Parted(i, j)
  BY <1>3 DEF Parted
<1>5. Apart' = Apart
  BY <1>1, <1>2, <1>4 DEF Apart
<1>6. \A k : IsKind(chan[k], "start")' = IsKind(chan[k], "start")
  BY DEF IsKind
<1>7. (\A f \in File : \A c \in 1..Commands : ~Occurs(c, disk[f].data))'
        = (\A f \in File : \A c \in 1..Commands : ~Occurs(c, disk[f].data))
  BY DEF Occurs, Sym
<1>8. Unmet' = Unmet
  BY DEF Unmet
<1> QED
  BY <1>1, <1>5, <1>6, <1>7, <1>8 DEF DInv

\* A reader that goes on in a file takes no delimiter.
LEMMA ReaderD ==
  ASSUME TInv, OInv, DInv, Read \/ Process
  PROVE  DInv'
<1>1. /\ NodeT /\ buf \in Seq(Proper) /\ Len(buf) \in Nat /\ None \notin File
      /\ mode \in File \cup {None} /\ disk \in [File -> Entry] /\ DOMAIN disk = File
      /\ \A f \in File : disk[f].data \in Seq(Proper)
  <2>1. NodeT
    BY DEF TInv
  <2> QED
    BY <2>1, RestSeq, TransferAssumption DEF NodeT, Entry
<1>2. NodeKeeps
  BY DEF Read, Process, Overflow, SkipLine, StartFile, CleanFile, HandleCommand, Stops,
         FinishFile, WriteFile, AwaitsMore
<1>3. ASSUME Rest' = Rest, UNCHANGED <<mode, disk, spoilt>> PROVE DInv'
  BY <1>2, <1>3, SameD DEF NodeKeeps, sendVars
<1>4. CASE Read
  BY <1>1, <1>3, <1>4, RestRead DEF Read
<1>5. CASE Stops \/ AwaitsMore
  BY <1>3, <1>5 DEF Stops, AwaitsMore, Goes, Rest
<1>6. Unmet => \A f \in File : \A c \in 1..Commands : ~Occurs(c, disk[f].data)
  BY DEF DInv
<1>7. CASE Overflow
  <2>1. PICK n : n = Len(buf)
    OBVIOUS
  <2>2. n \in 0..Len(buf)
    BY <1>1, <2>1
  <2>3. buf' = SubSeq(buf, n + 1, Len(buf))
    <3>1. SubSeq(buf, n + 1, Len(buf)) \in Seq(Proper) /\ Len(SubSeq(buf, n + 1, Len(buf))) = 0
      BY <1>1, <2>1, <2>2, Cuts
    <3>2. SubSeq(buf, n + 1, Len(buf)) = <<>>
      BY <3>1, EmptySeq
    <3> QED
      BY <1>7, <3>2 DEF Overflow
  <2>4. UNCHANGED <<wire, disk>> /\ spoilt \subseteq spoilt' /\ mode' = None
    BY <1>7 DEF Overflow
  <2> QED
    BY <1>2, <1>6, <2>2, <2>3, <2>4, DrainD
<1>8. CASE SkipLine
  <2>1. PICK n : n = LineEnd
    OBVIOUS
  <2>2. HasLine /\ UNCHANGED <<wire, disk, spoilt>> /\ mode' = None
        /\ buf' = SubSeq(buf, n + 1, Len(buf))
    BY <1>8, <2>1 DEF SkipLine, Goes, Drained
  <2>3. n \in 0..Len(buf)
    BY <1>1, <2>1, <2>2, OneLine
  <2> QED
    BY <1>2, <1>6, <2>2, <2>3, DrainD
<1>9. ASSUME mode = None, NEW k, JsonLine(k), buf' = Drained
      PROVE  /\ 2 \in 0..Len(buf) /\ buf' = SubSeq(buf, 2 + 1, Len(buf))
             /\ Line[1] \in Proper /\ Line[1].kind = k /\ Rest[1].kind = k /\ Rest[2] = Newline
  <2>1. HasLine
    BY <1>9 DEF JsonLine
  <2>2. /\ LineEnd = 2 /\ Line[1] = buf[1] /\ Line[1] \in Proper /\ buf[1].kind = k
        /\ LineEnd \in 1..Len(buf) /\ buf[LineEnd] = Newline
    BY <1>1, <1>9, <2>1, OneLine, FirstLine
  <2>3. 1 \in 1..Len(buf) /\ 2 \in 1..Len(buf)
    BY <1>1, <2>2
  <2>4. Rest[1] = buf[1] /\ Rest[2] = Newline
    BY <1>1, <2>2, <2>3, RestSeq
  <2>5. 2 \in 0..Len(buf) /\ buf' = SubSeq(buf, 2 + 1, Len(buf))
    BY <1>1, <1>9, <2>2, <2>3 DEF Drained
  <2> QED
    BY <2>2, <2>4, <2>5
<1>10. CASE HandleCommand
  <2>1. JsonLine("command") /\ mode = None /\ buf' = Drained /\ UNCHANGED <<wire, mode, disk, spoilt>>
    BY <1>10 DEF HandleCommand, Goes
  <2>2. 2 \in 0..Len(buf) /\ buf' = SubSeq(buf, 2 + 1, Len(buf))
    BY <1>9, <2>1
  <2> QED
    BY <1>2, <1>6, <2>1, <2>2, DrainD
<1>11. CASE CleanFile
  <2>1. /\ JsonLine("clean") /\ mode = None /\ buf' = Drained /\ UNCHANGED <<wire, mode, spoilt>>
        /\ disk' = IF disk[Line[1].of].is = "file"
                     THEN [disk EXCEPT ![Line[1].of] =
                             [disk[Line[1].of] EXCEPT !.data = Cleaned(Line[1].of, disk[Line[1].of].data)]]
                     ELSE disk
    BY <1>11 DEF CleanFile, Goes
  <2>2. /\ 2 \in 0..Len(buf) /\ buf' = SubSeq(buf, 2 + 1, Len(buf)) /\ Line[1].of \in File
    BY <1>9, <2>1 DEF Proper
  <2>3. ASSUME Unmet, NEW f \in File, NEW c \in 1..Commands PROVE ~Occurs(c, disk'[f].data)
    <3>1. CASE disk'[f] = disk[f]
      BY <1>6, <2>3, <3>1
    <3>2. CASE disk'[f] # disk[f]
      <4>1. disk'[f].data = Cleaned(f, disk[f].data)
        BY <1>1, <2>1, <2>2, <3>2 DEF Entry
      <4> QED
        BY <1>1, <1>6, <2>3, <4>1, CleanedOccurs
    <3> QED
      BY <3>1, <3>2
  <2> QED
    BY <1>2, <2>1, <2>2, <2>3, DrainD
<1>12. CASE StartFile
  <2>1. /\ JsonLine("start") /\ mode = None /\ buf' = Drained /\ UNCHANGED wire
        /\ spoilt \subseteq spoilt'
    BY <1>12 DEF StartFile, Goes
  <2>2. /\ 2 \in 0..Len(buf) /\ buf' = SubSeq(buf, 2 + 1, Len(buf)) /\ Line[1].of \in File
        /\ Rest[1].kind = "start" /\ Rest[2] = Newline
    BY <1>9, <2>1 DEF Proper
  <2>3. Started(1) /\ 1 \in 0..2
    BY <2>2 DEF Started
  <2>4. \A l \in 1..2 : Mark(l) => l <= 1
    <3>1. ~Mark(2)
      BY <2>2, Symbols DEF Mark, Newline, Sym
    <3> QED
      BY <3>1
  <2>5. ASSUME NEW f \in File PROVE disk'[f] = disk[f] \/ disk'[f].data = <<>>
    BY <1>1, <1>12, <2>2 DEF StartFile, Directory, Entry
  <2>6. \A c : ~Occurs(c, <<>>)
    BY DEF Occurs
  <2>7. Unmet => \A f \in File : \A c \in 1..Commands : ~Occurs(c, disk'[f].data)
    BY <1>6, <2>5, <2>6
  <2> QED
    BY <1>2, <2>1, <2>2, <2>3, <2>4, <2>7, DrainD
<1>13. ASSUME Unmet, mode # None, NEW c \in 1..Commands, NEW k \in 0..Len(buf),
              NEW j \in 1..k, buf[j] = Cmd(c)
       PROVE  \E l \in 1..Len(buf) : l < Len(buf) /\ DelimiterAt(l) /\ l + 1 < k
  <2>1. j \in 1..Len(buf) /\ j \in 1..Len(Rest) /\ Rest[j] = buf[j] /\ j <= k /\ j \in Nat /\ k \in Nat
    <3>1. j \in 1..Len(buf) /\ j <= k /\ j \in Nat /\ k \in Nat
      BY <1>1
    <3> QED
      BY <1>1, <3>1, RestSeq
  <2>2. Rest[j].kind = "command"
    BY <1>13, <2>1 DEF Cmd, Sym
  <2>3. Started(0) /\ 0 \in 0..Len(Rest)
    BY <1>1, <1>13, RestSeq DEF Started
  <2>4. Parted(0, j)
    BY <1>13, <2>1, <2>2, <2>3 DEF DInv, Apart
  <2>5. PICK l \in 1..Len(Rest) : Mark(l) /\ l + 1 < j
    BY <2>4 DEF Parted
  <2>6. l \in 1..Len(buf) /\ l < Len(buf) /\ l + 1 < k
    BY <1>1, <2>1, <2>5
  <2> QED
    BY <1>1, <2>5, <2>6, MarkIn
<1>14. ASSUME NEW k \in 0..Len(buf), mode # None, NEW e, NEW g,
              e \in Seq(Proper), disk' = [disk EXCEPT ![mode].data = e],
              \A c : Occurs(c, e) <=> Occurs(c, disk[mode].data \o SubSeq(buf, 1, k)),
              \A l \in 1..Len(buf) : l < Len(buf) /\ DelimiterAt(l) => ~(l + 1 < k)
       PROVE  Unmet => \A f \in File : \A c \in 1..Commands : ~Occurs(c, disk'[f].data)
  <2> SUFFICES ASSUME Unmet, NEW f \in File, NEW c \in 1..Commands
               PROVE  ~Occurs(c, disk'[f].data)
    OBVIOUS
  <2>1. /\ mode \in File /\ disk'[mode].data = e /\ \A h \in File \ {mode} : disk'[h] = disk[h]
    BY <1>1, <1>14 DEF Entry
  <2>2. ~Occurs(c, disk[mode].data) /\ (f # mode => ~Occurs(c, disk'[f].data))
    BY <1>6, <2>1
  <2>3. /\ SubSeq(buf, 1, k) \in Seq(Proper) /\ Len(SubSeq(buf, 1, k)) = k
        /\ \A i \in 1..k : SubSeq(buf, 1, k)[i] = buf[i]
    BY <1>1, Cuts
  <2>4. ~Occurs(c, SubSeq(buf, 1, k))
    <3>1. ASSUME NEW j \in 1..k, buf[j] = Cmd(c) PROVE FALSE
      BY <1>13, <1>14, <3>1
    <3> QED
      BY <2>3, <3>1 DEF Occurs, Cmd
  <2>5. ~Occurs(c, e)
    BY <1>1, <1>14, <2>1, <2>2, <2>3, <2>4, OccursIn
  <2> QED
    BY <2>1, <2>2, <2>5
<1>15. CASE FinishFile
  <2>1. PICK d : d = FirstDelimiter
    OBVIOUS
  <2>2. PICK e : e = Cleaned(mode, disk[mode].data \o SubSeq(buf, 1, d - 1))
    OBVIOUS
  <2>3. /\ mode # None /\ mode \in File /\ HasDelimiter /\ UNCHANGED <<wire, spoilt>>
        /\ buf' = SubSeq(buf, d + 2, Len(buf)) /\ mode' = None
        /\ disk' = [disk EXCEPT ![mode].data = e]
    BY <1>1, <1>15, <2>1, <2>2 DEF FinishFile, Goes
  <2>4. d \in 1..Len(buf) /\ d < Len(buf) /\ \A j \in 1..(d - 1) : ~DelimiterAt(j)
    BY <1>1, <2>1, <2>3, FirstMark DEF DelimiterAt
  <2>5. d - 1 \in 0..Len(buf) /\ d + 1 \in 0..Len(buf) /\ d + 2 = (d + 1) + 1
    BY <1>1, <2>4
  <2>6. disk[mode].data \o SubSeq(buf, 1, d - 1) \in Seq(Proper)
    <3>1. SubSeq(buf, 1, d - 1) \in Seq(Proper) /\ disk[mode].data \in Seq(Proper)
      BY <1>1, <2>3, <2>5, Cuts
    <3> QED
      BY <3>1, ConcatProperties
  <2>7. e \in Seq(Proper)
    BY <2>2, <2>3, <2>6, CleanedType
  <2>8. \A c : Occurs(c, e) <=> Occurs(c, disk[mode].data \o SubSeq(buf, 1, d - 1))
    BY <2>2, <2>6, CleanedOccurs
  <2>9. ASSUME NEW l \in 1..Len(buf), DelimiterAt(l), l + 1 < d - 1 PROVE FALSE
    <3>1. l \in 1..(d - 1)
      BY <2>4, <2>9
    <3> QED
      BY <2>4, <2>9, <3>1
  <2>10. Unmet => \A f \in File : \A c \in 1..Commands : ~Occurs(c, disk'[f].data)
    BY <1>14, <2>3, <2>5, <2>7, <2>8, <2>9
  <2>11. buf' = SubSeq(buf, (d + 1) + 1, Len(buf))
    BY <2>3, <2>5
  <2> QED
    BY <1>2, <2>3, <2>5, <2>10, <2>11, DrainD
<1>16. CASE WriteFile
  <2>1. PICK n : n = Len(buf) - Keep
    OBVIOUS
  <2>2. PICK e : e = disk[mode].data \o SubSeq(buf, 1, n)
    OBVIOUS
  <2>3. /\ mode # None /\ mode \in File /\ ~HasDelimiter /\ UNCHANGED <<wire, spoilt, mode>>
        /\ buf' = SubSeq(buf, n + 1, Len(buf)) /\ Len(buf) > Keep
        /\ disk' = [disk EXCEPT ![mode].data = e]
    BY <1>1, <1>16, <2>1, <2>2 DEF WriteFile, Goes
  <2>4. Keep = 3
    BY Symbols DEF Keep
  <2>5. n \in 0..Len(buf) /\ \A l \in 1..n : l \in 1..Len(buf) /\ l < Len(buf)
    BY <1>1, <2>1, <2>3, <2>4
  <2>6. e \in Seq(Proper)
    <3>1. SubSeq(buf, 1, n) \in Seq(Proper) /\ disk[mode].data \in Seq(Proper)
      BY <1>1, <2>3, <2>5, Cuts
    <3> QED
      BY <2>2, <3>1, ConcatProperties
  <2>7. \A l \in 1..Len(buf) : ~DelimiterAt(l)
    BY <2>3 DEF HasDelimiter
  <2>8. Unmet => \A f \in File : \A c \in 1..Commands : ~Occurs(c, disk'[f].data)
    BY <1>14, <2>2, <2>3, <2>5, <2>6, <2>7
  <2>9. \A l \in 1..n : ~Mark(l)
    BY <1>1, <2>5, <2>7, MarkIn
  <2>10. Started(0) /\ 0 \in 0..n
    BY <2>3, <2>5 DEF Started
  <2> QED
    BY <1>2, <2>3, <2>5, <2>8, <2>9, <2>10, DrainD
<1> QED
  BY <1>4, <1>5, <1>7, <1>8, <1>10, <1>11, <1>12, <1>15, <1>16 DEF Process

LEMMA DInvInit == Init => DInv
<1> SUFFICES ASSUME Init PROVE DInv
  OBVIOUS
<1>1. chan = <<>> /\ wire = <<>> /\ buf = <<>> /\ mode = None
      /\ \A f \in File : disk[f].data = <<>> \/ disk[f].data = <<Sym("byte", None)>>
  BY DEF Init, Present, Absent
<1>2. Rest = <<>> /\ Len(Rest) = 0 /\ Len(chan) = 0
  BY <1>1 DEF Rest
<1>3. \A f \in File : \A c \in 1..Commands : ~Occurs(c, disk[f].data)
  BY <1>1 DEF Occurs, Sym
<1>4. Apart
  BY <1>1, <1>2 DEF Apart, Started
<1> QED
  BY <1>2, <1>3, <1>4 DEF DInv

LEMMA DInvInductive == TInv /\ NameT /\ OInv /\ DInv /\ [Next]_vars => DInv'
<1> SUFFICES ASSUME TInv, NameT, OInv, DInv, [Next]_vars PROVE DInv'
  OBVIOUS
<1>1. CASE UNCHANGED vars
  BY <1>1, SameD DEF vars, sendVars, nodeVars, pastVars, Rest
<1>2. CASE MoverStep
  <2>1. carrier = "move" \/ pc[Mover] # "done"
    BY <1>2 DEF MoverStep, SkipFile, SendStart, Open, OpenFails, SendChunk, ReadFails, SendEnd,
           AllSent, Breaks
  <2>2. carrier' = carrier
    BY <1>2 DEF MoverStep, SkipFile, SendStart, Open, OpenFails, SendChunk, ReadFails, SendEnd,
           AllSent, Breaks, MoverKeeps
  <2>3. carrier' # "link"
    BY <2>1, <2>2 DEF TInv, SendT
  <2> QED
    BY <2>3 DEF DInv, Unmet
<1>3. ASSUME NEW u \in Uploader, UploadBreaks(u) PROVE DInv'
  BY <1>3 DEF DInv, Unmet, UploadBreaks
<1> QED
  BY <1>1, <1>2, <1>3, UploadD, CommandD, LinkD, LinkEndsD, ReaderD DEF Next

LEMMA InvCommand == TInv /\ OInv /\ DInv => CommandKept
<1> SUFFICES ASSUME TInv, OInv, DInv, NEW c \in 1..commands
             PROVE  /\ Cardinality(Places(c)) <= 1
                    /\ Places(c) = {} => Gone
                    /\ (\E f \in File : <<"disk", f>> \in Places(c)) =>
                         spoilt \cap {"command", "abort", "lag"} # {}
  BY DEF CommandKept, Gone
<1>1. NodeT /\ c \in Nat \ {0} /\ c \in 1..Commands /\ commands # 0
  BY TransferAssumption DEF TInv, NodeT
<1>2. \A v, w \in Spots(c) : v = w
  BY <1>1 DEF OInv
<1>3. \A p : p \in Places(c) <=>
        \/ \E i \in 1..Len(chan) : Occurs(c, chan[i]) /\ p = <<"channel", i>>
        \/ Occurs(c, wire) /\ p = <<"wire", 0>>
        \/ Occurs(c, buf) /\ p = <<"buffer", 0>>
        \/ p \in Off(c)
  BY DEF Places, Off
<1>4. Occurs(c, buf) <=> \E i \in 1..Len(buf) : <<"rest", i>> \in Spots(c)
  <2>1. \A i \in 1..Len(buf) : i \in 1..Len(Rest) /\ Rest[i] = buf[i]
    BY <1>1, RestSeq
  <2>2. ASSUME NEW i \in 1..Len(buf), buf[i] = Cmd(c) PROVE <<"rest", i>> \in Spots(c)
    BY <2>1, <2>2, SpotsAt
  <2>3. ASSUME NEW i \in 1..Len(buf), <<"rest", i>> \in Spots(c) PROVE buf[i] = Cmd(c)
    BY <2>1, <2>3, RestSpot
  <2> QED
    BY <2>2, <2>3 DEF Occurs, Cmd
<1>5. Occurs(c, wire) <=> \E i \in 1..Len(wire) : <<"rest", Len(buf) + i>> \in Spots(c)
  <2>1. ASSUME NEW i \in 1..Len(wire) PROVE Len(buf) + i \in 1..Len(Rest) /\ Rest[Len(buf) + i] = wire[i]
    BY <1>1, RestSeq
  <2>2. ASSUME NEW i \in 1..Len(wire), wire[i] = Cmd(c) PROVE <<"rest", Len(buf) + i>> \in Spots(c)
    BY <2>1, <2>2, SpotsAt
  <2>3. ASSUME NEW i \in 1..Len(wire), <<"rest", Len(buf) + i>> \in Spots(c) PROVE wire[i] = Cmd(c)
    BY <2>1, <2>3, RestSpot
  <2> QED
    BY <2>2, <2>3 DEF Occurs, Cmd
<1>6. Len(buf) \in Nat /\ \A i \in 1..Len(buf) : \A j \in 1..Len(wire) : i # Len(buf) + j
  BY <1>1, RestSeq
<1>7. ASSUME NEW p \in Places(c), NEW q \in Places(c) PROVE p = q
  <2>1. ASSUME NEW i \in 1..Len(chan), Occurs(c, chan[i]) PROVE Spots(c) = {<<"chan", i>>}
    BY <1>2, <2>1, SpotsAt
  <2>2. ASSUME NEW v \in Off(c) PROVE Spots(c) = {v} /\ \A i : v # <<"rest", i>> /\ v # <<"chan", i>>
    BY <1>2, SpotsOf
  <2>3. ASSUME Occurs(c, buf) PROVE \E i \in 1..Len(buf) : Spots(c) = {<<"rest", i>>}
    BY <1>2, <1>4, <2>3
  <2>4. ASSUME Occurs(c, wire) PROVE \E i \in 1..Len(wire) : Spots(c) = {<<"rest", Len(buf) + i>>}
    BY <1>2, <1>5, <2>4
  <2>5. Occurs(c, buf) => ~Occurs(c, wire)
    <3>1. \A i \in 1..Len(buf) : \A j \in 1..Len(wire) : <<"rest", i>> # <<"rest", Len(buf) + j>>
      BY <1>6
    <3> QED
      BY <2>3, <2>4, <3>1
  <2>6. ASSUME NEW i \in 1..Len(chan), Occurs(c, chan[i]), p = <<"channel", i>> PROVE p = q
    <3>1. \A j \in 1..Len(chan) : <<"chan", i>> = <<"chan", j>> => i = j
      OBVIOUS
    <3>2. ~Occurs(c, buf) /\ ~Occurs(c, wire)
      <4>1. Spots(c) = {<<"chan", i>>} /\ \A j : <<"chan", i>> # <<"rest", j>>
        BY <2>1, <2>6
      <4> QED
        BY <2>3, <2>4, <4>1, Zenon
    <3>3. q \notin Off(c)
      BY <2>1, <2>2, <2>6
    <3>4. PICK j \in 1..Len(chan) : Occurs(c, chan[j]) /\ q = <<"channel", j>>
      BY <1>3, <3>2, <3>3
    <3>5. <<"chan", i>> = <<"chan", j>>
      BY <2>1, <2>6, <3>4
    <3> QED
      BY <2>6, <3>1, <3>4, <3>5
  <2>7. ASSUME NEW i \in 1..Len(chan), Occurs(c, chan[i]), q = <<"channel", i>> PROVE p = q
    <3>1. \A j \in 1..Len(chan) : <<"chan", i>> = <<"chan", j>> => i = j
      OBVIOUS
    <3>2. ~Occurs(c, buf) /\ ~Occurs(c, wire)
      <4>1. Spots(c) = {<<"chan", i>>} /\ \A j : <<"chan", i>> # <<"rest", j>>
        BY <2>1, <2>7
      <4> QED
        BY <2>3, <2>4, <4>1, Zenon
    <3>3. p \notin Off(c)
      BY <2>1, <2>2, <2>7
    <3> QED
      BY <1>3, <2>6, <3>2, <3>3
  <2>8. ASSUME p \in Off(c) PROVE p = q
    <3>1. ~Occurs(c, buf) /\ ~Occurs(c, wire)
      BY <2>2, <2>3, <2>4, <2>8
    <3>2. q \in Off(c) => p = q
      BY <2>2, <2>8
    <3> QED
      BY <1>3, <2>7, <3>1, <3>2
  <2>9. ASSUME q \in Off(c) PROVE p = q
    <3>1. ~Occurs(c, buf) /\ ~Occurs(c, wire)
      BY <2>2, <2>3, <2>4, <2>9
    <3> QED
      BY <1>3, <2>6, <2>8, <3>1
  <2> QED
    BY <1>3, <2>5, <2>6, <2>7, <2>8, <2>9
<1>8. Cardinality(Places(c)) <= 1
  <2>1. CASE Places(c) = {}
    BY <2>1, FS_EmptySet
  <2>2. CASE Places(c) # {}
    <3>1. PICK p : Places(c) = {p}
      BY <1>7, <2>2
    <3>2. Cardinality(Places(c)) = 1
      BY <3>1, FS_Singleton, Zenon
    <3> QED
      BY <3>2
  <2> QED
    BY <2>1, <2>2
<1>9. ASSUME ~Gone PROVE Places(c) # {}
  <2>1. PICK p \in Spots(c) : TRUE
    BY <1>9 DEF OInv
  <2>2. ASSUME NEW i \in 1..Len(Rest), p = <<"rest", i>> PROVE Places(c) # {}
    <3>1. CASE i \in 1..Len(buf)
      BY <1>3, <1>4, <2>2, <3>1
    <3>2. CASE i \notin 1..Len(buf)
      <4>1. i - Len(buf) \in 1..Len(wire) /\ Len(buf) + (i - Len(buf)) = i
        BY <1>1, <3>2, RestSeq
      <4>2. Occurs(c, wire)
        BY <1>5, <2>2, <4>1
      <4> QED
        BY <1>3, <4>2
    <3> QED
      BY <3>1, <3>2
  <2>3. ASSUME NEW i \in 1..Len(chan), Occurs(c, chan[i]) PROVE Places(c) # {}
    BY <1>3, <2>3
  <2>4. ASSUME p \in Off(c) PROVE Places(c) # {}
    BY <1>3, <2>4
  <2> QED
    BY <2>1, <2>2, <2>3, <2>4, SpotsOf
<1>10. ASSUME NEW f \in File, <<"disk", f>> \in Places(c)
       PROVE  spoilt \cap {"command", "abort", "lag"} # {}
  <2>1. <<"disk", f>> \in Off(c)
    BY <1>3, <1>10
  <2>2. Occurs(c, disk[f].data)
    <3>1. \A i : <<"disk", f>> # <<"handled", i>>
      OBVIOUS
    <3>2. \A g \in File : <<"disk", f>> = <<"disk", g>> => f = g
      OBVIOUS
    <3> QED
      BY <2>1, <3>1, <3>2, OffOf
  <2>3. ~Unmet
    BY <1>1, <2>2 DEF DInv
  <2>4. carrier = "link"
    BY <1>1, TransferAssumption DEF TInv, SendT
  <2> QED
    BY <2>3, <2>4 DEF Unmet
<1> QED
  BY <1>8, <1>9, <1>10

\* A command for the node is in one place, reaches a file only if it met an
\* upload, an upload was given up or the link lagged, and vanishes only if the
\* link lags or ends, the reader's buffer overflows or its file is sent again:
\* for every set of files, whatever their bytes read as, of forms and of
\* uploaders, and every cut of the stream into reads
\* (send_multipart_over_broadcast, the link, its end and its return, and the
\* two ReadModes).
THEOREM CommandHolds == Spec => []CommandKept
<1>1. Init => TInv /\ NameT /\ OInv /\ DInv
  BY TInvInit, NameTInit, OInvInit, DInvInit
<1>2. TInv /\ NameT /\ OInv /\ DInv /\ [Next]_vars => (TInv /\ NameT /\ OInv /\ DInv)'
  BY TInvInductive, NameTInductive, OInvInductive, DInvInductive
<1> QED
  BY <1>1, <1>2, InvCommand, PTL DEF Spec

-----------------------------------------------------------------------------
(* A move mixes no two files. *)

LEMMA ContentData ==
  ASSUME NEW f \in File
  PROVE  LET D == Data(Content[f])
         IN  /\ Size(f) \in Nat /\ D \in Seq(Proper) /\ Len(D) = Size(f)
             /\ \A i \in 1..Size(f) : D[i].kind \in DataKinds
             /\ Innocent(f) => \A i \in 1..Size(f) : D[i] = Sym("byte", Content[f][i])
<1>1. Size(f) \in Nat /\ Content[f] \in Seq(Byte) /\ Size(f) = Len(Content[f])
  BY SizeNat, TransferAssumption DEF Size
<1>2. \A i \in 1..Size(f) : Content[f][i] \in Byte
  BY <1>1, ElementOfSeq
<1>3. \A i \in 1..Size(f) : ReadAs(Content[f][i]) \in Proper /\ ReadAs(Content[f][i]).kind \in DataKinds
  BY <1>2, Readings
<1>4. \A i \in 1..Size(f) : Innocent(f) => ReadAs(Content[f][i]) = Sym("byte", Content[f][i])
  BY DEF Innocent, ReadAs
<1> QED
  BY <1>1, <1>3, <1>4, IsASeq DEF Data

LEMMA BodyAt ==
  ASSUME NEW f \in File
  PROVE  /\ Size(f) \in Nat
         /\ Whole(f) \in Seq(Proper) /\ Len(Whole(f)) = Size(f) + 2
         /\ \A i \in 1..Size(f) : Whole(f)[i].kind \in DataKinds
         /\ Innocent(f) => \A i \in 1..Size(f) : Whole(f)[i] = Sym("byte", Content[f][i])
         /\ Whole(f)[Size(f) + 1] = Sym("end", f) /\ Whole(f)[Size(f) + 2] = Newline
         /\ Body(f) \in Seq(Proper) /\ Len(Body(f)) = Size(f) + 5
         /\ Body(f)[1] = Newline
         /\ \A i \in 1..(Size(f) + 2) : Body(f)[1 + i] = Whole(f)[i]
         /\ Body(f)[Size(f) + 4] = Delimiter[1] /\ Body(f)[Size(f) + 5] = Delimiter[2]
<1> DEFINE e == <<Sym("end", f), Newline>>
           D == Data(Content[f])
<1>1. Size(f) \in Nat
  BY SizeNat
<1>2. /\ D \in Seq(Proper) /\ Len(D) = Size(f)
      /\ \A i \in 1..Size(f) : D[i].kind \in DataKinds
      /\ Innocent(f) => \A i \in 1..Size(f) : D[i] = Sym("byte", Content[f][i])
  BY ContentData
<1>3. e \in Seq(Proper) /\ Len(e) = 2 /\ e[1] = Sym("end", f) /\ e[2] = Newline
  BY Symbols
<1>4. Whole(f) = D \o e
  BY DEF Whole
<1> HIDE DEF D, e
<1>5. /\ Whole(f) \in Seq(Proper) /\ Len(Whole(f)) = Size(f) + 2
      /\ \A i \in 1..(Size(f) + 2) :
           Whole(f)[i] = IF i <= Size(f) THEN D[i] ELSE e[i - Size(f)]
  <2>1. /\ D \o e \in Seq(Proper) /\ Len(D \o e) = Len(D) + Len(e)
        /\ \A i \in 1..(Len(D) + Len(e)) :
             (D \o e)[i] = IF i <= Len(D) THEN D[i] ELSE e[i - Len(D)]
    BY <1>2, <1>3, ConcatProperties
  <2> QED
    BY <1>2, <1>3, <1>4, <2>1
<1>6. /\ \A i \in 1..Size(f) : Whole(f)[i] = D[i]
      /\ Whole(f)[Size(f) + 1] = Sym("end", f) /\ Whole(f)[Size(f) + 2] = Newline
  <2>1. \A i \in 1..Size(f) : i \in 1..(Size(f) + 2) /\ i <= Size(f)
    BY <1>1
  <2>3. \A i \in 1..Size(f) : Whole(f)[i] = D[i]
    BY <1>5, <2>1
  <2>4. PICK m, n : m = Size(f) + 1 /\ n = Size(f) + 2
    OBVIOUS
  <2>5. /\ m \in 1..(Size(f) + 2) /\ n \in 1..(Size(f) + 2) /\ ~(m <= Size(f)) /\ ~(n <= Size(f))
        /\ m - Size(f) = 1 /\ n - Size(f) = 2
    BY <1>1, <2>4
  <2>6. Whole(f)[m] = e[m - Size(f)] /\ Whole(f)[n] = e[n - Size(f)]
    BY <1>5, <2>5
  <2> QED
    BY <1>3, <2>3, <2>4, <2>5, <2>6
<1>7. <<Newline>> \in Seq(Proper) /\ Len(<<Newline>>) = 1 /\ <<Newline>>[1] = Newline
  BY Symbols
<1> DEFINE h == <<Newline>>
           hw == h \o Whole(f)
<1> HIDE DEF h
<1>8. /\ hw \in Seq(Proper) /\ Len(hw) = Size(f) + 3
      /\ \A i \in 1..(Size(f) + 3) : hw[i] = IF i <= 1 THEN h[i] ELSE Whole(f)[i - 1]
  BY <1>1, <1>5, <1>7, ConcatProperties DEF h
<1>9. Body(f) = hw \o Delimiter
  BY DEF Body, h
<1> HIDE DEF hw
<1>10. /\ Body(f) \in Seq(Proper) /\ Len(Body(f)) = Size(f) + 5
       /\ \A i \in 1..(Size(f) + 5) :
            Body(f)[i] = IF i <= Size(f) + 3 THEN hw[i] ELSE Delimiter[i - (Size(f) + 3)]
  <2>1. Delimiter \in Seq(Proper) /\ Len(Delimiter) = 2 /\ Size(f) + 3 + 2 = Size(f) + 5
    BY <1>1, Symbols
  <2>2. /\ hw \o Delimiter \in Seq(Proper) /\ Len(hw \o Delimiter) = Len(hw) + Len(Delimiter)
        /\ \A i \in 1..(Len(hw) + Len(Delimiter)) :
             (hw \o Delimiter)[i] = IF i <= Len(hw) THEN hw[i] ELSE Delimiter[i - Len(hw)]
    BY <1>8, <2>1, ConcatProperties
  <2> QED
    BY <1>8, <1>9, <2>1, <2>2
<1>11. Body(f)[1] = Newline
  <2>1. 1 \in 1..(Size(f) + 3) /\ 1 \in 1..(Size(f) + 5) /\ 1 <= Size(f) + 3
    BY <1>1
  <2> QED
    BY <1>7, <1>8, <1>10, <2>1 DEF h
<1>12. ASSUME NEW i \in 1..(Size(f) + 2) PROVE Body(f)[1 + i] = Whole(f)[i]
  <2>1. /\ 1 + i \in 1..(Size(f) + 3) /\ 1 + i \in 1..(Size(f) + 5) /\ 1 + i <= Size(f) + 3
        /\ ~(1 + i <= 1) /\ 1 + i - 1 = i
    BY <1>1
  <2> QED
    BY <1>8, <1>10, <2>1
<1>13. Body(f)[Size(f) + 4] = Delimiter[1] /\ Body(f)[Size(f) + 5] = Delimiter[2]
  <2>1. /\ Size(f) + 4 \in 1..(Size(f) + 5) /\ ~(Size(f) + 4 <= Size(f) + 3)
        /\ Size(f) + 4 - (Size(f) + 3) = 1
        /\ Size(f) + 5 \in 1..(Size(f) + 5) /\ ~(Size(f) + 5 <= Size(f) + 3)
        /\ Size(f) + 5 - (Size(f) + 3) = 2
    BY <1>1
  <2>2. PICK m, n : m = Size(f) + 4 /\ n = Size(f) + 5
    OBVIOUS
  <2>3. Body(f)[m] = Delimiter[m - (Size(f) + 3)] /\ Body(f)[n] = Delimiter[n - (Size(f) + 3)]
    BY <1>1, <1>10, <2>2
  <2>4. m - (Size(f) + 3) = 1 /\ n - (Size(f) + 3) = 2
    BY <1>1, <2>2
  <2> QED
    BY <2>2, <2>3, <2>4
<1> QED
  BY <1>1, <1>2, <1>5, <1>6, <1>10, <1>11, <1>12, <1>13

\* The end of a file that arrived whole is taken off again.
LEMMA CleanedWhole ==
  ASSUME NEW f \in File, Innocent(f)
  PROVE  LET D == Data(Content[f])
         IN  PartOf(D, Whole(f)) /\ Cleaned(f, Whole(f)) = IF IsRaw(f) THEN Append(D, Junk) ELSE D
<1> DEFINE D == Data(Content[f])
           w == Whole(f)
<1>1. /\ Size(f) \in Nat /\ w \in Seq(Proper) /\ Len(w) = Size(f) + 2
      /\ \A i \in 1..Size(f) : w[i] = Sym("byte", Content[f][i])
      /\ w[Size(f) + 1] = Sym("end", f) /\ w[Size(f) + 2] = Newline
  BY BodyAt
<1> HIDE DEF w
<1>2. D \in Seq(Proper) /\ Len(D) = Size(f) /\ \A i \in 1..Size(f) : D[i] = Sym("byte", Content[f][i])
  BY ContentData
<1> HIDE DEF D
<1>3. SubSeq(w, 1, Size(f)) = D
  <2>1. Size(f) \in 0..Len(w)
    BY <1>1
  <2>2. /\ SubSeq(w, 1, Size(f)) \in Seq(Proper) /\ Len(SubSeq(w, 1, Size(f))) = Size(f)
        /\ \A i \in 1..Size(f) : SubSeq(w, 1, Size(f))[i] = w[i]
    BY <1>1, <2>1, Cuts
  <2> QED
    BY <1>1, <1>2, <2>2, SeqEqual
<1>4. PartOf(D, w)
  <2>1. Size(f) \in 0..Len(w)
    BY <1>1
  <2> QED
    BY <1>3, <2>1 DEF PartOf
<1>5. Size(f) + 1 \in 1..Len(w) /\ w[Size(f) + 1].kind \in JsonKinds
  <2>1. w[Size(f) + 1].kind = "end"
    BY <1>1 DEF Sym
  <2> QED
    BY <1>1, <2>1 DEF JsonKinds
<1>6. /\ LastJson(w) \in 1..Len(w) /\ w[LastJson(w)].kind \in JsonKinds
      /\ \A j \in (LastJson(w) + 1)..Len(w) : w[j].kind \notin JsonKinds
  BY <1>1, <1>5, LastMessage
<1>7. LastJson(w) = Size(f) + 1
  <2>1. LastJson(w) # Size(f) + 2
    BY <1>1, <1>6 DEF Newline, Sym, JsonKinds
  <2>2. ~(LastJson(w) < Size(f) + 1)
    <3>1. LastJson(w) < Size(f) + 1 => Size(f) + 1 \in (LastJson(w) + 1)..Len(w)
      BY <1>1, <1>6
    <3> QED
      BY <1>5, <1>6, <3>1
  <2>3. LastJson(w) \in 1..(Size(f) + 2)
    BY <1>1, <1>6
  <2> QED
    BY <1>1, <2>1, <2>2, <2>3
<1>8. SubSeq(w, 1, LastJson(w) - 1) = D
  <2>1. LastJson(w) - 1 = Size(f)
    BY <1>1, <1>7
  <2> QED
    BY <1>3, <2>1
<1>9. (\E i \in 1..Len(D) : D[i].of \in Raw) <=> IsRaw(f)
  <2>1. \A i \in 1..Size(f) : D[i].of = Content[f][i]
    BY <1>2 DEF Sym
  <2> QED
    BY <1>2, <2>1 DEF IsRaw
<1>10. Cleaned(f, w) = IF IsRaw(f) THEN Append(D, Junk) ELSE D
  <2>1. w[LastJson(w)] = Sym("end", f) /\ \E i \in 1..Len(w) : w[i].kind \in JsonKinds
    BY <1>1, <1>5, <1>7
  <2> QED
    BY <1>8, <1>9, <2>1 DEF Cleaned
<1> QED
  BY <1>4, <1>10 DEF D, w

\* The delimiter is at the end.
LEMMA OnlyMark ==
  ASSUME NEW f \in File, Innocent(f), NEW i \in 1..Len(Body(f)), Body(f)[i] = Delimiter[1]
  PROVE  i = Size(f) + 4
<1>1. Size(f) \in Nat /\ i \in 1..(Size(f) + 5)
  BY BodyAt
<1>2. Body(f)[1] # Delimiter[1] /\ Body(f)[Size(f) + 5] # Delimiter[1]
  <2>1. Body(f)[1] = Newline /\ Body(f)[Size(f) + 5] = Delimiter[2]
    BY BodyAt
  <2>2. Delimiter[1].kind = "delim1" /\ Delimiter[2].kind = "delim2" /\ Newline.kind = "newline"
    BY Symbols DEF Newline, Sym
  <2> QED
    BY <2>1, <2>2
<1>3. i # 1 /\ i # Size(f) + 5
  BY <1>2
<1>4. ASSUME i <= Size(f) + 3, i >= 2 PROVE FALSE
  <2>1. PICK j : j = i - 1
    OBVIOUS
  <2>2. j \in 1..(Size(f) + 2) /\ i = 1 + j
    BY <1>1, <1>4, <2>1
  <2>3. Whole(f)[j] = Delimiter[1]
    BY <2>2, BodyAt
  <2>4. Whole(f)[j].kind \in {"byte", "end", "newline"}
    <3>1. j \in 1..Size(f) \/ j = Size(f) + 1 \/ j = Size(f) + 2
      BY <1>1, <2>2
    <3>2. \A y : Sym("byte", y).kind = "byte"
      BY DEF Sym
    <3>3. Sym("end", f).kind = "end" /\ Newline.kind = "newline"
      BY DEF Sym, Newline
    <3>4. j \in 1..Size(f) => Whole(f)[j].kind = "byte"
      <4>1. j \in 1..Size(f) => Whole(f)[j] = Sym("byte", Content[f][j])
        BY BodyAt
      <4> QED
        BY <3>2, <4>1
    <3>5. Whole(f)[Size(f) + 1].kind = "end" /\ Whole(f)[Size(f) + 2].kind = "newline"
      BY <3>3, BodyAt
    <3> QED
      BY <3>1, <3>4, <3>5
  <2> QED
    BY <2>3, <2>4, Symbols DEF Sym
<1> QED
  BY <1>1, <1>2, <1>3, <1>4

\* What is tracked stays so when the reader takes symbols.
LEMMA TracksDrains ==
  ASSUME NEW f \in File, NEW k \in 0..Len(Rest), NEW d \in Nat, Tracks(f, k, d),
         Len(Rest) \in Nat, NEW n \in 0..Len(Rest), Len(Rest') = Len(Rest) - n,
         \A i \in 1..Len(Rest') : Rest'[i] = Rest[n + i],
         UNCHANGED <<file, pc, sent, named>>, Lost' = Lost
  PROVE  /\ n <= k => Tracks(f, k - n, d)'
         /\ k <= n => Tracks(f, 0, d + (n - k))'
<1>1. \A m : InHand(f, m)' = InHand(f, m)
  BY DEF InHand
<1>2. Len(Body(f)) \in Nat
  BY BodyAt
<1>3. ASSUME NEW p \in Nat, NEW e \in Nat, p + n >= k, e = d + (p + n - k), p <= Len(Rest')
      PROVE  Tracks(f, p, e)'
  <2>1. e + (Len(Rest') - p) = d + (Len(Rest) - k)
    BY <1>3
  <2>2. ASSUME NEW i \in (p + 1)..Len(Rest'), e + (i - p) <= Len(Body(f))
        PROVE  Rest'[i] = Body(f)[e + (i - p)]
    <3>1. PICK m : m = n + i
      OBVIOUS
    <3>8. PICK r : r = Len(Rest')
      OBVIOUS
    <3>9. n \in Nat /\ k \in Nat /\ r \in Nat
      BY <3>8
    <3>10. i \in (p + 1)..r
      BY <2>2, <3>8
    <3>2. i \in Nat /\ n \in Nat /\ k \in Nat /\ Len(Rest') \in Nat /\ p < i /\ i <= Len(Rest')
      BY <3>8, <3>9, <3>10
    <3>3. m \in (k + 1)..Len(Rest) /\ m \in Nat
      BY <1>3, <3>1, <3>2
    <3>4. d + (m - k) = e + (i - p)
      BY <1>3, <3>1, <3>2
    <3>5. d + (m - k) <= Len(Body(f))
      BY <2>2, <3>4
    <3>6. Rest[m] = Body(f)[d + (m - k)]
      BY <3>3, <3>5 DEF Tracks, Fits
    <3>7. Rest'[i] = Rest[m]
      BY <3>1, <3>2
    <3> QED
      BY <3>4, <3>6, <3>7
  <2> QED
    BY <1>1, <2>1, <2>2 DEF Tracks, Fits
<1>4. ASSUME n <= k PROVE Tracks(f, k - n, d)'
  <2>1. k - n \in Nat /\ k - n + n >= k /\ d = d + (k - n + n - k) /\ k - n <= Len(Rest')
    BY <1>4
  <2> QED
    BY <1>3, <2>1
<1>5. ASSUME k <= n PROVE Tracks(f, 0, d + (n - k))'
  <2>1. 0 + n >= k /\ d + (n - k) \in Nat /\ d + (n - k) = d + (0 + n - k) /\ 0 <= Len(Rest')
    BY <1>5
  <2> QED
    BY <1>3, <2>1
<1> QED
  BY <1>4, <1>5

LEMMA DrainM ==
  ASSUME TInv, MInv, NodeKeeps, NEW n \in 0..Len(buf), buf' = SubSeq(buf, n + 1, Len(buf)),
         UNCHANGED wire, spoilt \subseteq spoilt', Lost' = Lost,
         Moving /\ mode' # None => /\ PartOf(disk'[mode'].data, Whole(mode'))
                                   /\ Tracks(mode, 0, 1 + Len(disk[mode].data))',
         Moving => \A f \in File : ~Mixes(f)'
  PROVE  MInv'
<1>1. /\ Rest \in Seq(Proper) /\ Len(Rest) \in Nat /\ n \in 0..Len(Rest) /\ n \in Nat
      /\ Len(Rest') = Len(Rest) - n /\ \A i \in 1..Len(Rest') : Rest'[i] = Rest[n + i]
  <2>1. NodeT
    BY DEF TInv
  <2>2. /\ n \in 0..Len(Rest) /\ Len(Rest') = Len(Rest) - n
        /\ \A i \in 1..Len(Rest') : Rest'[i] = Rest[n + i]
    BY <2>1, RestDrains
  <2>3. Rest \in Seq(Proper) /\ Len(Rest) \in Nat
    BY <2>1, RestSeq
  <2> QED
    BY <2>2, <2>3
<1>2. UNCHANGED <<file, pc, sent, carrier, named>>
  BY DEF NodeKeeps, sendVars
<1>3. SUFFICES ASSUME Moving, Moving' PROVE MInv'
  BY <1>2 DEF MInv, Moving
<1>4. ASSUME NEW i \in 1..Len(Rest') PROVE Comes(i)'
  <2>1. PICK k : k = n + i
    OBVIOUS
  <2>2. k \in 1..Len(Rest) /\ k \in 0..Len(Rest) /\ n <= k /\ k - n = i /\ Rest'[i] = Rest[k]
    BY <1>1, <2>1
  <2>3. Comes(k)
    BY <1>3, <2>2 DEF MInv
  <2>4. CASE Rest[k].kind = "start"
    <3>1. PICK f : f = Rest[k].of
      OBVIOUS
    <3>2. f \in File
      BY <1>1, <2>2, <2>4, <3>1, ElementOfSeq DEF Proper
    <3>3. Tracks(f, k, 0)
      BY <2>3, <2>4, <3>1 DEF Comes
    <3>4. Tracks(f, k - n, 0)'
      BY <1>1, <1>2, <2>2, <3>2, <3>3, TracksDrains
    <3> QED
      BY <2>2, <2>3, <3>1, <3>4 DEF Comes
  <2> QED
    BY <2>2, <2>3, <2>4 DEF Comes
<1>5. (Lost => pc[Mover] = "done")' /\ (pc[Mover] = "end" => Size(file[Mover]) = 0)'
  BY <1>2, <1>3 DEF MInv
<1> QED
  BY <1>3, <1>4, <1>5 DEF MInv

LEMMA SameM ==
  ASSUME TInv, MInv, carrier' = carrier,
         UNCHANGED <<file, pc, sent, mode, disk, before, named, spoilt>>, Rest' = Rest
  PROVE  MInv'
<1>1. \A f, k, d : Tracks(f, k, d)' = Tracks(f, k, d)
  BY DEF Tracks, Fits, Lost, InHand
<1>2. \A i : Comes(i)' = Comes(i)
  BY <1>1 DEF Comes
<1>3. \A f : Mixes(f)' = Mixes(f)
  BY DEF Mixes
<1> QED
  BY <1>1, <1>2, <1>3 DEF MInv, Moving, Lost

\* A file that is being written is not complete before the delimiter, whose
\* first half follows it.
LEMMA Written ==
  ASSUME TInv, MInv, Moving, mode # None
  PROVE  LET d == disk[mode].data
         IN  /\ mode \in File /\ Len(d) \in Nat /\ Len(d) <= Size(mode) + 2 /\ d \in Seq(Proper)
             /\ \A i \in 1..Len(d) : d[i] = Whole(mode)[i]
             /\ \A i \in 1..Len(buf) : 1 + Len(d) + i <= Size(mode) + 5 =>
                  buf[i] = Body(mode)[1 + Len(d) + i]
             /\ \A n \in 0..Len(buf) : Len(d) + n <= Size(mode) + 2 =>
                  d \o SubSeq(buf, 1, n) = SubSeq(Whole(mode), 1, Len(d) + n)
             /\ \A n \in 1..Len(buf) : DelimiterAt(n) => Len(d) + n >= Size(mode) + 3
             /\ \A n \in 1..Len(buf) : Len(d) + n >= Size(mode) + 4 =>
                  \E l \in 1..(n - 1) : DelimiterAt(l)
<1> DEFINE d == disk[mode].data
           w == Whole(mode)
<1>1. /\ mode \in File /\ buf \in Seq(Proper) /\ Len(buf) \in Nat /\ Len(Rest) \in Nat
      /\ \A i \in 1..Len(buf) : i \in 1..Len(Rest) /\ Rest[i] = buf[i]
  BY RestSeq DEF TInv, NodeT
<1>2. PartOf(d, w) /\ Fits(mode, Rest, 0, 1 + Len(d)) /\ Innocent(mode)
  BY DEF MInv, Tracks, Moving
<1>3. /\ Size(mode) \in Nat /\ w \in Seq(Proper) /\ Len(w) = Size(mode) + 2
      /\ Len(Body(mode)) = Size(mode) + 5
      /\ \A i \in 1..(Size(mode) + 2) : Body(mode)[1 + i] = w[i]
      /\ Body(mode)[Size(mode) + 4] = Delimiter[1] /\ Body(mode)[Size(mode) + 5] = Delimiter[2]
  BY <1>1, BodyAt
<1>4. d \in Seq(Proper) /\ Len(d) \in 0..(Size(mode) + 2) /\ \A i \in 1..Len(d) : d[i] = w[i]
  <2>1. PICK n \in 0..Len(w) : d = SubSeq(w, 1, n)
    BY <1>2 DEF PartOf
  <2> HIDE DEF d, w
  <2> QED
    BY <1>3, <2>1, Cuts
<1> HIDE DEF d, w
<1>5. ASSUME NEW i \in 1..Len(buf), 1 + Len(d) + i <= Size(mode) + 5
      PROVE  buf[i] = Body(mode)[1 + Len(d) + i]
  <2>1. i \in (0 + 1)..Len(Rest) /\ 1 + Len(d) + (i - 0) = 1 + Len(d) + i /\ Rest[i] = buf[i]
    BY <1>1
  <2> QED
    BY <1>2, <1>3, <1>5, <2>1 DEF Fits
<1>6. ASSUME NEW n \in 0..Len(buf), Len(d) + n <= Size(mode) + 2
      PROVE  d \o SubSeq(buf, 1, n) = SubSeq(w, 1, Len(d) + n)
  <2>1. PICK s : s = SubSeq(buf, 1, n)
    OBVIOUS
  <2>2. s \in Seq(Proper) /\ Len(s) = n /\ n \in Nat /\ \A i \in 1..n : s[i] = buf[i]
    BY <1>1, <2>1, Cuts
  <2>3. /\ d \o s \in Seq(Proper) /\ Len(d \o s) = Len(d) + n
        /\ \A i \in 1..(Len(d) + n) : (d \o s)[i] = IF i <= Len(d) THEN d[i] ELSE s[i - Len(d)]
    BY <1>4, <2>2, ConcatProperties
  <2>4. Len(d) + n \in 0..Len(w)
    BY <1>3, <1>4, <1>6, <2>2
  <2>5. PICK t : t = SubSeq(w, 1, Len(d) + n)
    OBVIOUS
  <2>6. t \in Seq(Proper) /\ Len(t) = Len(d) + n /\ \A i \in 1..(Len(d) + n) : t[i] = w[i]
    BY <1>3, <2>4, <2>5, Cuts
  <2>7. ASSUME NEW i \in 1..(Len(d) + n) PROVE (d \o s)[i] = w[i]
    <3>1. CASE i <= Len(d)
      <4>1. i \in 1..Len(d)
        BY <1>4, <3>1
      <4> QED
        BY <1>4, <2>3, <3>1, <4>1
    <3>2. CASE ~(i <= Len(d))
      <4>1. PICK j : j = i - Len(d)
        OBVIOUS
      <4>2. /\ j \in 1..n /\ j \in 1..Len(buf) /\ 1 + Len(d) + j = 1 + i /\ i \in 1..(Size(mode) + 2)
            /\ 1 + Len(d) + j <= Size(mode) + 5
        <5>1. PICK q, z, b : q = Len(d) /\ z = Size(mode) /\ b = Len(buf)
          OBVIOUS
        <5>2. /\ q \in Nat /\ z \in Nat /\ b \in Nat /\ n \in Nat /\ n <= b /\ q + n <= z + 2
              /\ i \in 1..(q + n) /\ ~(i <= q) /\ j = i - q
          BY <1>1, <1>3, <1>4, <1>6, <2>2, <3>2, <4>1, <5>1
        <5>3. j \in 1..n /\ j \in 1..b /\ 1 + q + j = 1 + i /\ i \in 1..(z + 2) /\ 1 + q + j <= z + 5
          BY <5>2
        <5> QED
          BY <5>1, <5>3
      <4>3. buf[j] = Body(mode)[1 + i]
        BY <1>5, <4>2
      <4> QED
        BY <1>3, <2>2, <2>3, <3>2, <4>1, <4>2, <4>3
    <3> QED
      BY <3>1, <3>2
  <2>8. d \o s = t
    BY <2>3, <2>6, <2>7, SeqEqual
  <2> QED
    BY <2>1, <2>5, <2>8
<1>7. \A n \in 1..Len(buf) :
        DelimiterAt(n) <=> n < Len(buf) /\ buf[n] = Delimiter[1] /\ buf[n + 1] = Delimiter[2]
  BY <1>1, MarkAt DEF DelimiterAt
<1>8. ASSUME NEW n \in 1..Len(buf), DelimiterAt(n) PROVE Len(d) + n >= Size(mode) + 3
  <2>1. CASE Len(d) + n >= Size(mode) + 5
    BY <1>3, <1>4, <2>1
  <2>2. CASE ~(Len(d) + n >= Size(mode) + 5)
    <3>1. PICK i : i = 1 + Len(d) + n
      OBVIOUS
    <3>7. Size(mode) \in Nat /\ Len(d) \in Nat /\ n \in Nat \ {0} /\ Len(Body(mode)) = Size(mode) + 5
      BY <1>1, <1>3, <1>4
    <3>8. 1 + Len(d) + n <= Size(mode) + 5 /\ i \in Nat \ {0}
      BY <2>2, <3>1, <3>7
    <3>2. i \in 1..Len(Body(mode)) /\ i <= Size(mode) + 5
      BY <3>1, <3>7, <3>8
    <3>3. Body(mode)[i] = Delimiter[1]
      BY <1>5, <1>7, <1>8, <3>1, <3>2
    <3>4. i = Size(mode) + 4
      BY <1>1, <1>2, <3>2, <3>3, OnlyMark
    <3>5. Size(mode) \in Nat /\ Len(d) \in Nat /\ n \in Nat
      BY <1>1, <1>3, <1>4
    <3>6. 1 + Len(d) + n = Size(mode) + 4
      BY <3>1, <3>4
    <3> QED
      BY <3>5, <3>6
  <2> QED
    BY <2>1, <2>2
<1>9. ASSUME NEW n \in 1..Len(buf), Len(d) + n >= Size(mode) + 4
      PROVE  \E l \in 1..(n - 1) : DelimiterAt(l)
  <2>1. PICK l : l = Size(mode) + 3 - Len(d)
    OBVIOUS
  <2>2. /\ l \in 1..(n - 1) /\ l \in 1..Len(buf) /\ l + 1 \in 1..Len(buf) /\ l < Len(buf)
        /\ 1 + Len(d) + l = Size(mode) + 4 /\ 1 + Len(d) + (l + 1) = Size(mode) + 5
    <3>1. PICK q, z, b : q = Len(d) /\ z = Size(mode) /\ b = Len(buf)
      OBVIOUS
    <3>2. q \in Nat /\ z \in Nat /\ b \in Nat /\ q <= z + 2 /\ n \in 1..b /\ q + n >= z + 4 /\ l = z + 3 - q
      BY <1>1, <1>3, <1>4, <1>9, <2>1, <3>1
    <3>3. l \in 1..(n - 1) /\ l \in 1..b /\ l + 1 \in 1..b /\ l < b /\ 1 + q + l = z + 4 /\ 1 + q + (l + 1) = z + 5
      BY <3>2
    <3> QED
      BY <3>1, <3>3
  <2>3. buf[l] = Delimiter[1] /\ buf[l + 1] = Delimiter[2]
    <3>1. Size(mode) + 4 <= Size(mode) + 5 /\ Size(mode) + 5 <= Size(mode) + 5
      BY <1>3
    <3>2. 1 + Len(d) + l <= Size(mode) + 5 /\ 1 + Len(d) + (l + 1) <= Size(mode) + 5
      BY <2>2, <3>1
    <3>3. buf[l] = Body(mode)[Size(mode) + 4] /\ buf[l + 1] = Body(mode)[Size(mode) + 5]
      BY <1>5, <2>2, <3>2
    <3> QED
      BY <1>3, <3>3
  <2> QED
    BY <1>7, <2>2, <2>3
<1>10. Len(d) \in Nat /\ Len(d) <= Size(mode) + 2
  BY <1>3, <1>4
<1> QED
  BY <1>1, <1>4, <1>5, <1>6, <1>8, <1>9, <1>10, Zenon DEF d, w

LEMMA NoStart ==
  ASSUME NEW f \in File, NEW i \in 1..Len(Body(f))
  PROVE  Body(f)[i].kind # "start"
<1>1. Size(f) \in Nat /\ i \in 1..(Size(f) + 5)
  BY BodyAt
<1>2. /\ Newline.kind = "newline" /\ Delimiter[1].kind = "delim1" /\ Delimiter[2].kind = "delim2"
      /\ Sym("end", f).kind = "end" /\ \A y : Sym("byte", y).kind = "byte"
  BY Symbols DEF Newline, Sym
<1>3. CASE i \in {1, Size(f) + 4, Size(f) + 5}
  BY <1>2, <1>3, BodyAt
<1>4. CASE i \notin {1, Size(f) + 4, Size(f) + 5}
  <2>1. PICK j : j = i - 1
    OBVIOUS
  <2>2. j \in 1..(Size(f) + 2) /\ i = 1 + j
    BY <1>1, <1>4, <2>1
  <2>3. j \in 1..Size(f) \/ j = Size(f) + 1 \/ j = Size(f) + 2
    BY <1>1, <2>2
  <2>4. /\ j \in 1..Size(f) => Whole(f)[j].kind \in DataKinds
        /\ j = Size(f) + 1 => Whole(f)[j] = Sym("end", f)
        /\ j = Size(f) + 2 => Whole(f)[j] = Newline
    BY BodyAt
  <2>5. Body(f)[i] = Whole(f)[j]
    BY <2>2, BodyAt
  <2> QED
    BY <1>2, <2>3, <2>4, <2>5 DEF DataKinds
<1> QED
  BY <1>3, <1>4

\* A file is finished at its delimiter.
LEMMA Finishes ==
  ASSUME TInv, MInv, Moving, FinishFile
  PROVE  /\ mode \in File /\ Len(disk[mode].data) \in Nat
         /\ FirstDelimiter \in 1..Len(buf) /\ FirstDelimiter + 1 \in 1..Len(buf)
         /\ Len(disk[mode].data) + FirstDelimiter = Size(mode) + 3
         /\ disk' = [disk EXCEPT ![mode].data = Cleaned(mode, Whole(mode))]
<1>1. buf \in Seq(Proper) /\ Len(buf) \in Nat
  BY LenProperties DEF TInv, NodeT
<1>2. PICK f, d, k : f = mode /\ d = disk[mode].data /\ k = FirstDelimiter
  OBVIOUS
<1>3. /\ mode # None /\ HasDelimiter
      /\ disk' = [disk EXCEPT ![mode].data = Cleaned(f, d \o SubSeq(buf, 1, k - 1))]
  BY <1>2 DEF FinishFile, Goes
<1>4. k \in 1..Len(buf) /\ DelimiterAt(k) /\ \A j \in 1..(k - 1) : ~DelimiterAt(j)
  BY <1>1, <1>2, <1>3, FirstMark
<1>5. /\ f \in File /\ Len(d) \in Nat /\ Len(d) + k >= Size(f) + 3
      /\ \A n \in 0..Len(buf) : Len(d) + n <= Size(f) + 2 =>
           d \o SubSeq(buf, 1, n) = SubSeq(Whole(f), 1, Len(d) + n)
      /\ ~(Len(d) + k >= Size(f) + 4)
  <2>1. /\ mode \in File /\ Len(d) \in Nat
        /\ \A n \in 0..Len(buf) : Len(d) + n <= Size(mode) + 2 =>
             d \o SubSeq(buf, 1, n) = SubSeq(Whole(mode), 1, Len(d) + n)
        /\ \A n \in 1..Len(buf) : DelimiterAt(n) => Len(d) + n >= Size(mode) + 3
        /\ \A n \in 1..Len(buf) : Len(d) + n >= Size(mode) + 4 => \E l \in 1..(n - 1) : DelimiterAt(l)
    BY <1>2, <1>3, Written
  <2> QED
    BY <1>2, <1>4, <2>1
<1>6. PICK n : n = k - 1
  OBVIOUS
<1>7. n \in 0..Len(buf) /\ Len(d) + n = Size(f) + 2 /\ Len(d) + n <= Size(f) + 2
      /\ Len(d) + k = Size(f) + 3
  <2>1. Size(f) \in Nat
    BY <1>5, BodyAt
  <2> QED
    BY <1>1, <1>4, <1>5, <1>6, <2>1
<1>8. d \o SubSeq(buf, 1, k - 1) = Whole(f)
  <2>1. Whole(f) \in Seq(Proper) /\ Len(Whole(f)) = Size(f) + 2
    BY <1>5, BodyAt
  <2>2. SubSeq(Whole(f), 1, Len(Whole(f))) = Whole(f)
    BY <2>1, SubSeqFull
  <2>3. d \o SubSeq(buf, 1, n) = SubSeq(Whole(f), 1, Len(d) + n)
    BY <1>5, <1>7
  <2> QED
    BY <1>6, <1>7, <2>1, <2>2, <2>3
<1>9. k + 1 \in 1..Len(buf)
  BY <1>1, <1>4 DEF DelimiterAt
<1> QED
  BY <1>2, <1>3, <1>4, <1>5, <1>7, <1>8, <1>9

\* What is written before is the next part of the file.
LEMMA Writes ==
  ASSUME TInv, MInv, Moving, WriteFile
  PROVE  LET d == disk[mode].data
             n == Len(buf) - 3
         IN  /\ mode \in File /\ Len(d) \in Nat /\ n \in 0..Len(buf) /\ n \in Nat
             /\ buf' = SubSeq(buf, n + 1, Len(buf)) /\ Len(d) + n <= Size(mode) + 2
             /\ disk' = [disk EXCEPT ![mode].data = SubSeq(Whole(mode), 1, Len(d) + n)]
<1>1. buf \in Seq(Proper) /\ Len(buf) \in Nat
  BY LenProperties DEF TInv, NodeT
<1>2. PICK f, d, n : f = mode /\ d = disk[mode].data /\ n = Len(buf) - 3
  OBVIOUS
<1>3. /\ mode # None /\ ~HasDelimiter /\ Len(buf) > 3
      /\ buf' = SubSeq(buf, n + 1, Len(buf))
      /\ disk' = [disk EXCEPT ![mode].data = d \o SubSeq(buf, 1, n)]
  <2>1. Keep = 3
    BY Symbols DEF Keep
  <2> QED
    BY <1>2, <2>1 DEF WriteFile, Goes
<1>4. n \in 0..Len(buf) /\ n + 1 \in 1..Len(buf) /\ n \in Nat
  BY <1>1, <1>2, <1>3
<1>5. /\ f \in File /\ Len(d) \in Nat
      /\ \A i \in 0..Len(buf) : Len(d) + i <= Size(f) + 2 =>
           d \o SubSeq(buf, 1, i) = SubSeq(Whole(f), 1, Len(d) + i)
      /\ ~(Len(d) + (n + 1) >= Size(f) + 4)
  <2>1. /\ mode \in File /\ Len(d) \in Nat
        /\ \A i \in 0..Len(buf) : Len(d) + i <= Size(mode) + 2 =>
             d \o SubSeq(buf, 1, i) = SubSeq(Whole(mode), 1, Len(d) + i)
        /\ \A i \in 1..Len(buf) : Len(d) + i >= Size(mode) + 4 => \E l \in 1..(i - 1) : DelimiterAt(l)
    BY <1>2, <1>3, Written
  <2>2. \A l \in 1..(n + 1 - 1) : ~DelimiterAt(l)
    BY <1>1, <1>3, <1>4 DEF HasDelimiter
  <2>3. ~(Len(d) + (n + 1) >= Size(mode) + 4)
    BY <1>4, <2>1, <2>2
  <2> QED
    BY <1>2, <2>1, <2>3
<1>6. Len(d) + n <= Size(f) + 2
  <2>1. Size(f) \in Nat
    BY <1>5, BodyAt
  <2> QED
    BY <1>4, <1>5, <2>1
<1>7. d \o SubSeq(buf, 1, n) = SubSeq(Whole(f), 1, Len(d) + n)
  BY <1>4, <1>5, <1>6
<1> QED
  BY <1>2, <1>3, <1>4, <1>5, <1>6, <1>7

LEMMA ReaderM ==
  ASSUME TInv, MInv, Read \/ Process
  PROVE  MInv'
<1>1. /\ NodeT /\ buf \in Seq(Proper) /\ Len(buf) \in Nat /\ None \notin File
      /\ mode \in File \cup {None} /\ disk \in [File -> Entry] /\ DOMAIN disk = File
  <2>1. NodeT
    BY DEF TInv
  <2> QED
    BY <2>1, RestSeq, TransferAssumption DEF NodeT
<1>2. NodeKeeps /\ spoilt \subseteq spoilt' /\ UNCHANGED <<carrier, before, named>>
  BY DEF Read, Process, Overflow, SkipLine, StartFile, CleanFile, HandleCommand, Stops,
         FinishFile, WriteFile, AwaitsMore, NodeKeeps
<1>3. UNCHANGED <<file, pc, sent, named>>
  BY <1>2 DEF NodeKeeps, sendVars
<1>4. SUFFICES ASSUME Moving PROVE MInv'
  BY <1>2 DEF MInv, Moving
<1>5. \A f \in File : ~Mixes(f)
  BY <1>4 DEF MInv
<1>6. \A f \in File : disk'[f] = disk[f] => ~Mixes(f)'
  BY <1>2, <1>5 DEF Mixes
<1>7. CASE Read
  BY <1>1, <1>2, <1>3, <1>7, RestRead, SameM DEF Read
<1>8. CASE Stops \/ AwaitsMore
  <2>1. Rest' = Rest /\ UNCHANGED <<mode, disk, spoilt>>
    BY <1>8 DEF Stops, AwaitsMore, Goes, Rest
  <2> QED
    BY <1>2, <1>3, <2>1, SameM
<1>9. CASE Overflow
  <2>1. PICK n : n = Len(buf)
    OBVIOUS
  <2>2. n \in 0..Len(buf)
    BY <1>1, <2>1
  <2>3. buf' = SubSeq(buf, n + 1, Len(buf))
    <3>1. SubSeq(buf, n + 1, Len(buf)) \in Seq(Proper) /\ Len(SubSeq(buf, n + 1, Len(buf))) = 0
      BY <1>1, <2>1, <2>2, Cuts
    <3>2. SubSeq(buf, n + 1, Len(buf)) = <<>>
      BY <3>1, EmptySeq
    <3> QED
      BY <1>9, <3>2 DEF Overflow
  <2>4. UNCHANGED <<wire, disk>> /\ mode' = None /\ Lost' = Lost
    BY <1>9 DEF Overflow, Lost
  <2> QED
    BY <1>2, <1>6, <2>2, <2>3, <2>4, DrainM
<1>10. CASE SkipLine
  <2>1. PICK n : n = LineEnd
    OBVIOUS
  <2>2. HasLine /\ UNCHANGED <<wire, disk, spoilt>> /\ mode' = None
        /\ buf' = SubSeq(buf, n + 1, Len(buf))
    BY <1>10, <2>1 DEF SkipLine, Goes, Drained
  <2>3. n \in 0..Len(buf)
    BY <1>1, <2>1, <2>2, OneLine
  <2>4. Lost' = Lost
    BY <2>2 DEF Lost
  <2> QED
    BY <1>2, <1>6, <2>2, <2>3, <2>4, DrainM
<1>11. ASSUME NEW k, JsonLine(k), buf' = Drained
       PROVE  /\ 2 \in 0..Len(buf) /\ buf' = SubSeq(buf, 2 + 1, Len(buf))
              /\ Line[1] \in Proper /\ Line[1].kind = k /\ Rest[1] = Line[1] /\ Comes(1)
  <2>1. HasLine
    BY <1>11 DEF JsonLine
  <2>2. LineEnd = 2 /\ Line[1] = buf[1] /\ Line[1] \in Proper /\ buf[1].kind = k /\ LineEnd \in 1..Len(buf)
    BY <1>1, <1>11, <2>1, OneLine, FirstLine
  <2>3. 1 \in 1..Len(buf) /\ 2 \in 1..Len(buf)
    BY <1>1, <2>2
  <2>4. Rest[1] = buf[1] /\ 1 \in 1..Len(Rest)
    BY <1>1, <2>2, <2>3, RestSeq
  <2>5. 2 \in 0..Len(buf) /\ buf' = SubSeq(buf, 2 + 1, Len(buf))
    BY <1>1, <1>11, <2>2, <2>3 DEF Drained
  <2> QED
    BY <1>4, <2>2, <2>4, <2>5 DEF MInv
<1>12. CASE HandleCommand
  <2>1. JsonLine("command") /\ buf' = Drained
    BY <1>12 DEF HandleCommand
  <2> QED
    BY <1>11, <2>1 DEF Comes
<1>13. CASE CleanFile
  <2>1. JsonLine("clean") /\ buf' = Drained
    BY <1>13 DEF CleanFile
  <2> QED
    BY <1>11, <2>1 DEF Comes
<1>14. CASE StartFile
  <2>1. PICK f : f = Line[1].of
    OBVIOUS
  <2>2. JsonLine("start") /\ mode = None /\ buf' = Drained /\ UNCHANGED wire /\ Lost' = Lost
    BY <1>14 DEF StartFile, Goes, Replaces, Lost
  <2>3. /\ 2 \in 0..Len(buf) /\ buf' = SubSeq(buf, 2 + 1, Len(buf)) /\ f \in File
        /\ Rest[1].kind = "start" /\ Rest[1].of = f /\ Tracks(f, 1, 0)
    BY <1>11, <2>1, <2>2 DEF Proper, Comes
  <2>4. Tracks(f, 0, 1)'
    <3>1. /\ Len(Rest) \in Nat /\ 2 \in 0..Len(Rest) /\ Len(Rest') = Len(Rest) - 2
          /\ \A i \in 1..Len(Rest') : Rest'[i] = Rest[2 + i]
      BY <1>1, <2>2, <2>3, RestDrains, RestSeq
    <3>2. 1 \in 0..Len(Rest)
      BY <3>1
    <3>3. Tracks(f, 0, 0 + (2 - 1))'
      BY <1>3, <2>2, <2>3, <3>1, <3>2, TracksDrains
    <3> QED
      BY <3>3
  <2>5. /\ disk[f].is = "file" => mode' = f /\ disk' = [disk EXCEPT ![f].data = <<>>]
        /\ disk[f].is # "file" => mode' = mode /\ disk' = [disk EXCEPT ![f] = Directory]
    BY <1>14, <2>1 DEF StartFile
  <2>6. /\ \A g \in File : g # f => disk'[g] = disk[g]
        /\ disk'[f] = Directory \/ disk'[f].data = <<>>
        /\ mode' # None => mode' = f /\ disk'[f].data = <<>>
    <3>1. disk[f] \in Entry
      BY <1>1, <2>3
    <3>2. CASE disk[f].is = "file"
      BY <1>1, <2>3, <2>5, <3>1, <3>2 DEF Entry
    <3>3. CASE disk[f].is # "file"
      BY <1>1, <2>2, <2>3, <2>5, <3>3
    <3> QED
      BY <3>2, <3>3
  <2>7. PartOf(<<>>, Whole(f))
    <3>1. 0 \in 0..Len(Whole(f)) /\ SubSeq(Whole(f), 1, 0) = <<>>
      <4>1. Whole(f) \in Seq(Proper) /\ Len(Whole(f)) \in Nat
        BY <2>3, BodyAt, LenProperties
      <4>2. 0 \in 0..Len(Whole(f))
        BY <4>1
      <4>3. SubSeq(Whole(f), 1, 0) \in Seq(Proper) /\ Len(SubSeq(Whole(f), 1, 0)) = 0
        BY <4>1, <4>2, Cuts
      <4> QED
        BY <4>2, <4>3, EmptySeq
    <3> QED
      BY <3>1 DEF PartOf
  <2>8. \A g \in File : ~Mixes(g)'
    <3>1. ~Mixes(f)'
      BY <2>6, <2>7 DEF Mixes
    <3> QED
      BY <1>6, <2>6, <3>1
  <2>9. ASSUME mode' # None
        PROVE  PartOf(disk'[mode'].data, Whole(mode')) /\ Tracks(mode, 0, 1 + Len(disk[mode].data))'
    <3>1. mode' = f /\ disk'[mode'].data = <<>> /\ 1 + Len(disk'[mode'].data) = 1
      BY <2>6, <2>9
    <3> QED
      BY <2>4, <2>7, <3>1 DEF Tracks
  <2>10. UNCHANGED wire /\ Lost' = Lost /\ NodeKeeps /\ spoilt \subseteq spoilt'
    BY <1>2, <2>2
  <2> QED
    BY <2>3, <2>8, <2>9, <2>10, DrainM
<1>15. ASSUME mode # None, NEW x, disk' = [disk EXCEPT ![mode].data = x]
       PROVE  disk'[mode].data = x /\ \A g \in File : g # mode => disk'[g] = disk[g]
  BY <1>1, <1>15 DEF Entry
<1>16. CASE FinishFile
  <2>1. PICK f, k, n : f = mode /\ k = FirstDelimiter /\ n = k + 1
    OBVIOUS
  <2>2. /\ mode # None /\ UNCHANGED <<wire, spoilt>> /\ mode' = None
        /\ buf' = SubSeq(buf, k + 2, Len(buf))
    BY <1>16, <2>1 DEF FinishFile, Goes
  <2>3. /\ f \in File /\ k \in 1..Len(buf) /\ n \in 1..Len(buf)
        /\ disk' = [disk EXCEPT ![mode].data = Cleaned(f, Whole(f))]
    BY <1>4, <1>16, <2>1, Finishes
  <2>4. disk'[f].data = Cleaned(f, Whole(f)) /\ \A g \in File : g # f => disk'[g] = disk[g]
    BY <1>15, <2>1, <2>2, <2>3
  <2>5. ~Mixes(f)'
    <3>1. Innocent(f)
      BY <1>4, <2>1, <2>2 DEF MInv, Moving, Tracks
    <3> QED
      BY <2>3, <2>4, <3>1, CleanedWhole DEF Mixes
  <2>6. \A g \in File : ~Mixes(g)'
    BY <1>6, <2>4, <2>5
  <2>7. n \in 0..Len(buf) /\ n + 1 = k + 2
    BY <1>1, <2>1, <2>3
  <2>8. buf' = SubSeq(buf, n + 1, Len(buf)) /\ UNCHANGED wire /\ mode' = None /\ Lost' = Lost
    BY <2>2, <2>7 DEF Lost
  <2> QED
    BY <1>2, <2>6, <2>7, <2>8, DrainM
<1>17. CASE WriteFile
  <2>1. PICK f, d, n : f = mode /\ d = disk[mode].data /\ n = Len(buf) - 3
    OBVIOUS
  <2>2. mode # None /\ UNCHANGED <<wire, spoilt, mode>>
    BY <1>1, <1>17 DEF WriteFile, Goes
  <2>3. /\ f \in File /\ Len(d) \in Nat /\ n \in 0..Len(buf) /\ n \in Nat
        /\ buf' = SubSeq(buf, n + 1, Len(buf)) /\ Len(d) + n <= Size(f) + 2
        /\ disk' = [disk EXCEPT ![mode].data = SubSeq(Whole(f), 1, Len(d) + n)]
    BY <1>4, <1>17, <2>1, Writes
  <2>4. Len(d) + n \in 0..Len(Whole(f))
    <3>1. Size(f) \in Nat /\ Len(Whole(f)) = Size(f) + 2
      BY <2>3, BodyAt
    <3> QED
      BY <2>3, <3>1
  <2>5. /\ disk'[f].data = SubSeq(Whole(f), 1, Len(d) + n)
        /\ \A g \in File : g # f => disk'[g] = disk[g]
    BY <1>15, <2>1, <2>2, <2>3
  <2>6. PartOf(disk'[f].data, Whole(f)) /\ Len(disk'[f].data) = Len(d) + n
    <3>1. Whole(f) \in Seq(Proper)
      BY <2>3, BodyAt
    <3>2. Len(SubSeq(Whole(f), 1, Len(d) + n)) = Len(d) + n
      BY <2>4, <3>1, Cuts
    <3> QED
      BY <2>4, <2>5, <3>2 DEF PartOf
  <2>7. \A g \in File : ~Mixes(g)'
    BY <1>6, <2>5, <2>6 DEF Mixes
  <2>8. UNCHANGED wire /\ Lost' = Lost
    BY <2>2 DEF Lost
  <2>9. Tracks(f, 0, 1 + Len(d) + (n - 0))'
    <3>1. /\ Len(Rest) \in Nat /\ n \in 0..Len(Rest) /\ Len(Rest') = Len(Rest) - n
          /\ \A i \in 1..Len(Rest') : Rest'[i] = Rest[n + i]
      BY <1>1, <2>2, <2>3, RestDrains, RestSeq
    <3>2. Tracks(f, 0, 1 + Len(d))
      BY <1>4, <2>1, <2>2 DEF MInv
    <3>3. 0 \in 0..Len(Rest) /\ 1 + Len(d) \in Nat /\ 0 <= n
      BY <2>3, <3>1
    <3> QED
      BY <1>3, <2>3, <2>8, <3>1, <3>2, <3>3, TracksDrains
  <2>10. mode' = f /\ 1 + Len(d) + (n - 0) = 1 + Len(disk'[mode'].data)
    <3>1. mode' = f /\ Len(disk'[mode'].data) = Len(d) + n
      BY <2>1, <2>2, <2>6
    <3>2. Len(d) \in Nat /\ n \in Nat
      BY <2>3
    <3>3. 1 + Len(d) + (n - 0) = 1 + (Len(d) + n)
      BY <3>2
    <3> QED
      BY <3>1, <3>3
  <2>11. PartOf(disk'[mode'].data, Whole(mode')) /\ Tracks(mode, 0, 1 + Len(disk[mode].data))'
    BY <2>6, <2>9, <2>10 DEF Tracks
  <2> QED
    BY <1>2, <2>2, <2>3, <2>7, <2>8, <2>11, DrainM
<1> QED
  BY <1>7, <1>8, <1>9, <1>10, <1>12, <1>13, <1>14, <1>16, <1>17 DEF Process

\* What is tracked stays so when the sender adds what comes next.
LEMMA TracksGrows ==
  ASSUME NEW f \in File, NEW k \in 0..Len(Rest), NEW d \in Nat, Tracks(f, k, d), ~Lost,
         Len(Rest) \in Nat, NEW t \in Seq(Proper), Len(Rest') = Len(Rest) + Len(t),
         \A i \in 1..Len(Rest) : Rest'[i] = Rest[i],
         \A i \in 1..Len(t) : Rest'[Len(Rest) + i] = t[i],
         NEW n, n = d + (Len(Rest) - k),
         InHand(f, n) => /\ Fits(f, t, 0, n)
                         /\ n + Len(t) >= Len(Body(f)) \/ InHand(f, n + Len(t))',
         named' = named
  PROVE  Tracks(f, k, d)'
<1>1. Len(t) \in Nat /\ Len(Body(f)) \in Nat /\ n \in Nat /\ k \in Nat
  <2>1. Len(t) \in Nat
    BY LenProperties
  <2>2. Len(Body(f)) \in Nat
    BY BodyAt, LenProperties
  <2>3. n \in Nat /\ k \in Nat
    OBVIOUS
  <2> QED
    BY <2>1, <2>2, <2>3
<1>2. n >= Len(Body(f)) \/ InHand(f, n)
  BY DEF Tracks
<1>3. PICK r : r = Len(Rest')
  OBVIOUS
<1>4. r = Len(Rest) + Len(t) /\ r \in Nat /\ d + (r - k) = n + Len(t)
  BY <1>1, <1>3
<1>5. ASSUME NEW i \in (k + 1)..r, d + (i - k) <= Len(Body(f))
      PROVE  Rest'[i] = Body(f)[d + (i - k)]
  <2>1. CASE i <= Len(Rest)
    <3>1. i \in (k + 1)..Len(Rest) /\ i \in 1..Len(Rest)
      BY <1>1, <1>4, <2>1
    <3> QED
      BY <1>5, <3>1 DEF Tracks, Fits
  <2>2. CASE ~(i <= Len(Rest))
    <3>1. PICK j : j = i - Len(Rest)
      OBVIOUS
    <3>2. /\ j \in 1..Len(t) /\ j \in (0 + 1)..Len(t) /\ i = Len(Rest) + j
          /\ n + (j - 0) = d + (i - k) /\ ~(n >= Len(Body(f)))
      BY <1>1, <1>4, <1>5, <2>2, <3>1
    <3>3. Fits(f, t, 0, n)
      BY <1>2, <3>2
    <3>4. t[j] = Body(f)[n + (j - 0)]
      BY <1>5, <3>2, <3>3 DEF Fits
    <3> QED
      BY <3>2, <3>4
  <2> QED
    BY <2>1, <2>2
<1>6. Fits(f, Rest', k, d)
  BY <1>3, <1>5 DEF Fits
<1>7. d + (r - k) >= Len(Body(f)) \/ InHand(f, d + (r - k))'
  BY <1>1, <1>2, <1>4
<1> QED
  BY <1>3, <1>6, <1>7 DEF Tracks, Fits, InHand

\* A step of the sender that keeps what is tracked, and adds only what comes.
LEMMA SenderM ==
  ASSUME TInv, MInv, Moving, UNCHANGED <<carrier, before, named, disk, mode, buf>>,
         \A f \in File : \A k \in 0..Len(Rest) : \A d \in Nat : Tracks(f, k, d) => Tracks(f, k, d)',
         \A i \in 1..Len(Rest') : (i \in 1..Len(Rest) /\ Rest'[i] = Rest[i]) \/ Comes(i)',
         Lost' => pc'[Mover] = "done",
         pc'[Mover] = "end" => Size(file'[Mover]) = 0
  PROVE  MInv'
<1>1. /\ Rest \in Seq(Proper) /\ Len(Rest) \in Nat /\ None \notin File /\ mode \in File \cup {None}
      /\ disk \in [File -> Entry]
  BY RestSeq, TransferAssumption DEF TInv, NodeT
<1>2. \A i \in 1..Len(Rest) : Comes(i)
  BY DEF MInv
<1>3. ASSUME NEW i \in 1..Len(Rest') PROVE Comes(i)'
  <2>1. SUFFICES ASSUME i \in 1..Len(Rest), Rest'[i] = Rest[i] PROVE Comes(i)'
    OBVIOUS
  <2>2. i \in 0..Len(Rest) /\ Comes(i) /\ Rest[i] \in Proper /\ 0 \in Nat
    BY <1>1, <1>2, <2>1, ElementOfSeq
  <2>3. CASE Rest[i].kind = "start"
    <3>1. PICK f : f = Rest[i].of
      OBVIOUS
    <3>2. f \in File /\ Tracks(f, i, 0)
      BY <2>2, <2>3, <3>1 DEF Proper, Comes
    <3>3. Tracks(f, i, 0)'
      BY <2>2, <3>2
    <3> QED
      BY <2>1, <2>2, <3>1, <3>3 DEF Comes
  <2> QED
    BY <2>1, <2>2, <2>3 DEF Comes
<1>4. \A f : Mixes(f)' = Mixes(f)
  BY DEF Mixes
<1>5. \A f \in File : ~Mixes(f)'
  BY <1>4 DEF MInv
<1>6. ASSUME mode # None
      PROVE  PartOf(disk[mode].data, Whole(mode))' /\ Tracks(mode, 0, 1 + Len(disk[mode].data))'
  <2>1. PICK f, d : f = mode /\ d = 1 + Len(disk[mode].data)
    OBVIOUS
  <2>2. f \in File /\ d \in Nat /\ Tracks(f, 0, d) /\ PartOf(disk[mode].data, Whole(mode))
    <3>1. f \in File /\ Tracks(f, 0, d) /\ PartOf(disk[mode].data, Whole(mode))
      BY <1>1, <1>6, <2>1 DEF MInv
    <3>2. disk[mode].data \in Seq(Proper)
      BY <1>1, <2>1, <3>1 DEF Entry
    <3> QED
      BY <2>1, <3>1, <3>2, LenProperties
  <2>3. 0 \in 0..Len(Rest)
    BY <1>1
  <2>4. Tracks(f, 0, d)'
    BY <2>2, <2>3
  <2>5. mode' = f /\ d = 1 + Len(disk'[mode'].data)
    BY <2>1
  <2> QED
    BY <2>1, <2>2, <2>4, <2>5 DEF Tracks
<1> QED
  BY <1>3, <1>5, <1>6 DEF MInv

LEMMA MoverM ==
  ASSUME TInv, NameT, MInv, MoverStep
  PROVE  MInv'
<1>1. /\ NodeT /\ Len(Rest) \in Nat /\ Mover \in Sender
      /\ sent \in [Sender -> Nat] /\ file \in [Sender -> File \cup {None}] /\ DOMAIN pc = Sender
      /\ pc[Mover] \in {"open", "data", "end"} =>
           file[Mover] \in File /\ sent[Mover] <= Size(file[Mover])
  <2>1. NodeT /\ SendT
    BY DEF TInv
  <2>2. Len(Rest) \in Nat
    BY <2>1, RestSeq
  <2> QED
    BY <2>1, <2>2 DEF SendT, Sender
<1>2. /\ UNCHANGED <<carrier, before, named, disk, mode, buf>> /\ spoilt \subseteq spoilt'
  BY DEF MoverStep, SkipFile, SendStart, Open, OpenFails, SendChunk, ReadFails, SendEnd,
         AllSent, Breaks, MoverKeeps, nodeVars, Fine
<1>3. SUFFICES ASSUME Moving, Moving' PROVE MInv'
  BY <1>2 DEF MInv, Moving
<1>4. /\ Lost => pc[Mover] = "done"
      /\ pc[Mover] = "end" => Size(file[Mover]) = 0
  BY <1>3 DEF MInv
<1>5. \A f \in File : Size(f) \in Nat
  BY SizeNat
<1>17. PICK r : r = Len(Rest)
  OBVIOUS
\* Nothing is sent, and the file in hand stays so or is given up.
<1>6. ASSUME UNCHANGED wire, Lost => Lost', \A f, n : InHand(f, n) => InHand(f, n)' \/ Lost',
             Lost' => pc'[Mover] = "done", pc'[Mover] = "end" => Size(file'[Mover]) = 0
      PROVE  MInv'
  <2>1. Rest' = Rest
    BY <1>2, <1>6 DEF Rest
  <2>2. ASSUME NEW f \in File, NEW k \in 0..Len(Rest), NEW d \in Nat, Tracks(f, k, d)
        PROVE  Tracks(f, k, d)'
    <3>1. PICK n : n = d + (Len(Rest) - k)
      OBVIOUS
    <3>2. f \in named' /\ Fits(f, Rest', k, d) /\ (n >= Len(Body(f)) \/ Lost' \/ InHand(f, n)')
      BY <1>2, <1>6, <2>1, <2>2, <3>1 DEF Tracks
    <3> QED
      BY <2>1, <3>1, <3>2 DEF Tracks, Fits, Lost, InHand
  <2>3. \A i \in 1..Len(Rest') : i \in 1..Len(Rest) /\ Rest'[i] = Rest[i]
    BY <2>1
  <2> QED
    BY <1>2, <1>3, <1>6, <2>2, <2>3, SenderM
<1>7. ASSUME NEW f \in File, SkipFile(f) PROVE MInv'
  <2>1. /\ pc[Mover] = "next" /\ UNCHANGED <<wire, file, sent, pc, spoilt>>
    BY <1>7 DEF SkipFile
  <2>2. Lost' = Lost /\ \A g, n : ~InHand(g, n)
    BY <2>1 DEF Lost, InHand
  <2> QED
    BY <1>4, <1>6, <2>1, <2>2
<1>8. CASE Open
  <2>1. /\ pc[Mover] = "open" /\ UNCHANGED <<wire, file, sent, spoilt>> /\ pc'[Mover] = "data"
    BY <1>1, <1>8 DEF Open, Fine
  <2>2. Lost' = Lost /\ \A g, n : InHand(g, n) => InHand(g, n)'
    BY <2>1 DEF Lost, InHand
  <2> QED
    BY <1>4, <1>6, <2>1, <2>2
<1>9. CASE OpenFails
  BY <1>3, <1>9 DEF OpenFails, Moving
<1>10. CASE AllSent
  <2>1. /\ pc[Mover] = "next" /\ UNCHANGED <<wire, file, sent, spoilt>> /\ pc'[Mover] = "done"
    BY <1>1, <1>10 DEF AllSent, Fine
  <2>2. Lost' = Lost /\ \A g, n : ~InHand(g, n)
    BY <2>1 DEF Lost, InHand
  <2> QED
    BY <1>4, <1>6, <2>1, <2>2
<1>11. CASE ReadFails
  <2>1. UNCHANGED wire /\ Lost' /\ pc'[Mover] = "done"
    BY <1>1, <1>11 DEF ReadFails, Lost
  <2> QED
    BY <1>6, <2>1
<1>12. CASE Breaks
  <2>1. Lost' /\ pc'[Mover] = "done"
    BY <1>1, <1>12 DEF Breaks, Lost
  <2>2. PICK n \in 0..Len(wire) : wire' = SubSeq(wire, 1, n)
    BY <1>12 DEF Breaks
  <2>3. /\ Len(Rest') <= Len(Rest) /\ Len(Rest') \in Nat
        /\ \A i \in 1..Len(Rest') : i \in 1..Len(Rest) /\ Rest'[i] = Rest[i]
    BY <1>1, <1>2, <2>2, RestBreaks
  <2>4. ASSUME NEW f \in File, NEW k \in 0..Len(Rest), NEW d \in Nat, Tracks(f, k, d)
        PROVE  Tracks(f, k, d)'
    <3>1. k \in Nat /\ \A i \in (k + 1)..Len(Rest') : i \in (k + 1)..Len(Rest) /\ i \in 1..Len(Rest')
      BY <1>1, <2>3
    <3>2. f \in named' /\ Fits(f, Rest', k, d)
      BY <1>2, <2>3, <2>4, <3>1 DEF Tracks, Fits
    <3> QED
      BY <2>1, <3>2 DEF Tracks, Fits, Lost
  <2> QED
    BY <1>2, <1>3, <2>1, <2>3, <2>4, SenderM
\* Something is sent.
<1>13. ASSUME pc[Mover] # "done", NEW t \in Seq(Proper), wire' = wire \o t, UNCHANGED spoilt,
              \A f \in File : \A n \in Nat : InHand(f, n) =>
                /\ Fits(f, t, 0, n)
                /\ n + Len(t) >= Len(Body(f)) \/ InHand(f, n + Len(t))',
              \A i \in 1..Len(t) : t[i].kind \notin {"clean", "command", "start"}
                                   \/ Comes(r + i)',
              pc'[Mover] = "end" => Size(file'[Mover]) = 0
       PROVE  MInv'
  <2>1. /\ Len(Rest') = Len(Rest) + Len(t) /\ Len(t) \in Nat
        /\ \A i \in 1..Len(Rest) : Rest'[i] = Rest[i]
        /\ \A i \in 1..Len(t) : Rest'[Len(Rest) + i] = t[i]
    BY <1>1, <1>2, <1>13, RestGrows
  <2>2. ~Lost /\ ~Lost'
    BY <1>4, <1>13 DEF Lost
  <2>3. ASSUME NEW f \in File, NEW k \in 0..Len(Rest), NEW d \in Nat, Tracks(f, k, d)
        PROVE  Tracks(f, k, d)'
    <3>1. PICK n : n = d + (Len(Rest) - k)
      OBVIOUS
    <3>2. n \in Nat
      BY <1>1, <3>1
    <3>3. InHand(f, n) => /\ Fits(f, t, 0, n)
                          /\ n + Len(t) >= Len(Body(f)) \/ InHand(f, n + Len(t))'
      BY <1>13, <3>2
    <3> QED
      BY <1>1, <1>2, <2>1, <2>2, <2>3, <3>1, <3>3, TracksGrows
  <2>4. ASSUME NEW i \in 1..Len(Rest') PROVE (i \in 1..Len(Rest) /\ Rest'[i] = Rest[i]) \/ Comes(i)'
    <3>1. CASE i \in 1..Len(Rest)
      BY <2>1, <3>1
    <3>2. CASE i \notin 1..Len(Rest)
      <4>1. PICK j : j = i - Len(Rest)
        OBVIOUS
      <4>2. j \in 1..Len(t) /\ i = Len(Rest) + j /\ i = r + j
        BY <1>1, <1>17, <2>1, <3>2, <4>1
      <4>3. CASE t[j].kind \notin {"clean", "command", "start"}
        BY <2>1, <4>2, <4>3 DEF Comes
      <4>4. CASE Comes(r + j)'
        BY <4>2, <4>4
      <4> QED
        BY <1>13, <4>2, <4>3, <4>4
    <3> QED
      BY <3>1, <3>2
  <2> QED
    BY <1>2, <1>3, <1>13, <2>2, <2>3, <2>4, SenderM
<1>14. ASSUME NEW f \in File, SendStart(f) PROVE MInv'
  <2>1. PICK t : t = <<Sym("start", f), Newline>>
    OBVIOUS
  <2>2. t \in Seq(Proper) /\ Len(t) = 2 /\ t[1] = Sym("start", f) /\ t[2] = Newline
    BY <2>1, Symbols
  <2>3. /\ pc[Mover] = "next" /\ wire' = wire \o t /\ UNCHANGED spoilt
        /\ file'[Mover] = f /\ sent'[Mover] = 0
        /\ pc'[Mover] = IF Size(f) > 0 THEN "open" ELSE "end"
    BY <1>1, <1>14, <2>1 DEF SendStart, Fine
  <2>4. pc'[Mover] = "end" => Size(file'[Mover]) = 0
    BY <1>5, <2>3
  <2>5. InHand(f, 1)'
    BY <2>3 DEF InHand
  <2>6. /\ Len(Rest') = Len(Rest) + 2
        /\ \A i \in 1..Len(t) : Rest'[Len(Rest) + i] = t[i]
    BY <1>1, <1>2, <2>2, <2>3, RestGrows
  <2>7. Rest'[r + 1] = Sym("start", f) /\ Rest'[r + 2] = Newline
    BY <1>17, <2>2, <2>6
  <2>8. Tracks(f, r + 1, 0)'
    <3>1. PICK k : k = r + 1
      OBVIOUS
    <3>2. k \in Nat /\ Len(Rest') = k + 1 /\ r + 2 = k + 1
      BY <1>1, <1>17, <2>6, <3>1
    <3>3. Fits(f, Rest', k, 0)
      <4>1. \A i \in (k + 1)..Len(Rest') : i = k + 1 /\ 0 + (i - k) = 1
        BY <3>2
      <4>2. Body(f)[1] = Newline
        BY BodyAt
      <4> QED
        BY <2>7, <3>2, <4>1, <4>2 DEF Fits
    <3>4. 0 + (Len(Rest') - k) = 1
      BY <3>2
    <3>6. f \in named'
      BY <1>2, <1>14 DEF SendStart, NameT, MoverKeeps
    <3>5. Tracks(f, k, 0)'
      BY <2>5, <3>3, <3>4, <3>6 DEF Tracks, Fits
    <3> QED
      BY <3>1, <3>5
  <2>9. Comes(r + 1)' /\ Newline.kind \notin {"clean", "command", "start"}
    BY <2>7, <2>8 DEF Comes, Sym, Newline
  <2>10. \A i \in 1..Len(t) : t[i].kind \notin {"clean", "command", "start"} \/ Comes(r + i)'
    <3>1. \A i \in 1..Len(t) : i = 1 \/ i = 2
      BY <2>2
    <3> QED
      BY <2>2, <2>9, <3>1
  <2>11. \A g, n : ~InHand(g, n)
    BY <2>3 DEF InHand
  <2> QED
    BY <1>13, <2>2, <2>3, <2>4, <2>10, <2>11
<1>15. CASE SendChunk
  <2>1. PICK f, s : f = file[Mover] /\ s = sent[Mover]
    OBVIOUS
  <2>2. PICK m \in 1..(Size(f) - s) :
          /\ wire' = wire \o Data(SubSeq(Content[f], s + 1, s + m))
          /\ sent' = [sent EXCEPT ![Mover] = @ + m]
    BY <1>15, <2>1 DEF SendChunk
  <2>3. /\ pc[Mover] = "data" /\ UNCHANGED <<file, pc, spoilt>> /\ f \in File /\ s \in Nat
        /\ sent'[Mover] = s + m
    BY <1>1, <1>15, <2>1, <2>2 DEF SendChunk, Fine
  <2>4. PICK e : e = s + m
    OBVIOUS
  <2>5. e \in Nat /\ s <= e /\ e <= Size(f) /\ e - s = m /\ m \in Nat
    BY <1>5, <2>2, <2>3, <2>4
  <2>6. PICK t : t = Data(SubSeq(Content[f], s + 1, e))
    OBVIOUS
  <2>7. t \in Seq(Proper) /\ Len(t) = m /\ \A l \in 1..m : t[l] = Sym("byte", Content[f][s + l])
    <3>1. f \in named /\ Innocent(f)
      BY <1>3, <2>1, <2>3 DEF Moving, NameT
    <3>2. t \in Seq(Proper) /\ Len(t) = e - s /\ \A l \in 1..Len(t) : t[l] = Sym("byte", Content[f][s + l])
      BY <2>3, <2>5, <2>6, <3>1, Chunks
    <3> QED
      BY <2>5, <3>2
  <2>8. Fits(f, t, 0, 1 + s)
    <3>1. ASSUME NEW i \in (0 + 1)..Len(t) PROVE t[i] = Body(f)[1 + s + (i - 0)]
      <4>1. PICK l : l = s + i
        OBVIOUS
      <4>2. i \in 1..m /\ l \in 1..Size(f) /\ l \in 1..(Size(f) + 2) /\ 1 + s + (i - 0) = 1 + l
        BY <1>5, <2>3, <2>5, <2>7, <4>1
      <4>3. Body(f)[1 + l] = Whole(f)[l] /\ Whole(f)[l] = Sym("byte", Content[f][l])
        <5>1. Innocent(f)
          BY <1>3, <2>1, <2>3 DEF Moving, NameT
        <5> QED
          BY <2>3, <4>2, <5>1, BodyAt
      <4> QED
        BY <2>7, <4>1, <4>2, <4>3
    <3> QED
      BY <3>1 DEF Fits
  <2>9. ASSUME NEW g \in File, NEW n \in Nat, InHand(g, n)
        PROVE  Fits(g, t, 0, n) /\ InHand(g, n + Len(t))'
    <3>1. g = f /\ n = 1 + s
      BY <2>1, <2>9 DEF InHand
    <3>2. n + Len(t) = 1 + sent'[Mover] /\ file'[Mover] = f /\ pc'[Mover] = "data"
      BY <2>1, <2>3, <2>5, <2>7, <3>1
    <3> QED
      BY <2>8, <3>1, <3>2 DEF InHand
  <2>10. \A i \in 1..Len(t) : t[i].kind \notin {"clean", "command", "start"}
    <3>1. \A y : Sym("byte", y).kind = "byte"
      BY DEF Sym
    <3> QED
      BY <2>7, <3>1
  <2> QED
    BY <1>13, <2>2, <2>3, <2>4, <2>6, <2>7, <2>9, <2>10
<1>16. CASE SendEnd
  <2>1. PICK f : f = file[Mover]
    OBVIOUS
  <2>2. /\ pc[Mover] \in {"data", "end"} /\ UNCHANGED <<file, sent, spoilt>> /\ f \in File
        /\ sent[Mover] = Size(f) /\ pc'[Mover] = "next"
    <3>1. pc[Mover] = "end" => Size(f) = 0 /\ sent[Mover] <= 0 /\ sent[Mover] \in Nat
      BY <1>1, <1>4, <2>1
    <3>2. pc[Mover] = "end" => sent[Mover] = Size(f)
      BY <3>1
    <3> QED
      BY <1>1, <1>16, <2>1, <3>2 DEF SendEnd, Fine
  <2>3. PICK e, t : e = <<Sym("end", f), Newline>> /\ t = e \o Delimiter
    OBVIOUS
  <2>4. e \in Seq(Proper) /\ Len(e) = 2 /\ e[1] = Sym("end", f) /\ e[2] = Newline
    BY <2>2, <2>3, Symbols
  <2>5. t \in Seq(Proper) /\ Len(t) = 4 /\ t[1] = Sym("end", f) /\ t[2] = Newline
        /\ t[3] = Delimiter[1] /\ t[4] = Delimiter[2]
    <3>1. /\ t \in Seq(Proper) /\ Len(t) = 4
          /\ \A i \in 1..4 : t[i] = IF i <= 2 THEN e[i] ELSE Delimiter[i - 2]
      <4>1. /\ t \in Seq(Proper) /\ Len(t) = Len(e) + Len(Delimiter)
            /\ \A i \in 1..(Len(e) + Len(Delimiter)) :
                 t[i] = IF i <= Len(e) THEN e[i] ELSE Delimiter[i - Len(e)]
        <5>1. Delimiter \in Seq(Proper) /\ e \in Seq(Proper) /\ t = e \o Delimiter
          BY <2>3, <2>4, Symbols
        <5> QED
          BY <5>1, ConcatProperties
      <4>2. Len(e) + Len(Delimiter) = 4
        BY <2>4, Symbols
      <4> QED
        BY <2>4, <4>1, <4>2
    <3> QED
      BY <2>4, <3>1
  <2>6. wire' = wire \o t
    BY <1>16, <2>1, <2>3 DEF SendEnd
  <2>7. Fits(f, t, 0, 1 + Size(f))
    <3>1. /\ Body(f)[1 + (Size(f) + 1)] = Sym("end", f) /\ Body(f)[1 + (Size(f) + 2)] = Newline
          /\ Body(f)[Size(f) + 4] = Delimiter[1] /\ Body(f)[Size(f) + 5] = Delimiter[2]
      <4>1. Size(f) + 1 \in 1..(Size(f) + 2) /\ Size(f) + 2 \in 1..(Size(f) + 2)
        BY <1>5, <2>2
      <4> QED
        BY <2>2, <4>1, BodyAt
    <3>2. ASSUME NEW i \in (0 + 1)..Len(t) PROVE t[i] = Body(f)[1 + Size(f) + (i - 0)]
      <4>1. i = 1 \/ i = 2 \/ i = 3 \/ i = 4
        BY <2>5
      <4>2. PICK z : z = Size(f)
        OBVIOUS
      <4>3. /\ 1 + z + (1 - 0) = 1 + (z + 1) /\ 1 + z + (2 - 0) = 1 + (z + 2)
            /\ 1 + z + (3 - 0) = z + 4 /\ 1 + z + (4 - 0) = z + 5
        BY <1>5, <2>2, <4>2
      <4> QED
        BY <2>5, <3>1, <4>1, <4>2, <4>3
    <3> QED
      BY <3>2 DEF Fits
  <2>8. ASSUME NEW g \in File, NEW n \in Nat, InHand(g, n)
        PROVE  Fits(g, t, 0, n) /\ n + Len(t) >= Len(Body(g))
    <3>1. g = f /\ n = 1 + Size(f)
      BY <2>1, <2>2, <2>8 DEF InHand
    <3>2. Len(Body(f)) = Size(f) + 5
      BY <2>2, BodyAt
    <3>3. n + Len(t) >= Len(Body(f))
      BY <1>5, <2>2, <2>5, <3>1, <3>2
    <3> QED
      BY <2>7, <3>1, <3>3
  <2>9. \A i \in 1..Len(t) : t[i].kind \notin {"clean", "command", "start"}
    <3>1. \A i \in 1..Len(t) : i = 1 \/ i = 2 \/ i = 3 \/ i = 4
      BY <2>5
    <3>2. /\ t[1].kind = "end" /\ t[2].kind = "newline" /\ t[3].kind = "delim1" /\ t[4].kind = "delim2"
      BY <2>5, Symbols DEF Sym, Newline
    <3> QED
      BY <3>1, <3>2
  <2> QED
    BY <1>13, <2>2, <2>5, <2>6, <2>8, <2>9
<1> QED
  BY <1>7, <1>8, <1>9, <1>10, <1>11, <1>12, <1>14, <1>15, <1>16 DEF MoverStep

LEMMA MInvInit == Init => MInv
<1> SUFFICES ASSUME Init PROVE MInv
  OBVIOUS
<1>1. Rest = <<>> /\ mode = None /\ ~Lost
  BY EmptySeq, ConcatEmptySeq DEF Init, Rest, Lost
<1>2. pc[Mover] # "end"
  BY DEF Init, Sender
<1>3. \A f : ~Mixes(f)
  BY DEF Init, Mixes
<1> QED
  BY <1>1, <1>2, <1>3 DEF MInv

\* Handlers and the link have nothing to do with a move.
LEMMA NoMove ==
  ASSUME SendT, \/ \E u \in Uploader : UploadStep(u) \/ UploadBreaks(u)
                \/ Command \/ LinkWrites \/ LinkEnds \/ LinkReturns
  PROVE  carrier # "move" /\ carrier' = carrier
<1>1. ASSUME NEW u \in Uploader, UploadStep(u) \/ UploadBreaks(u)
      PROVE  carrier # "move" /\ carrier' = carrier
  <2>1. pc[u] # "done" /\ carrier' = carrier
    BY <1>1 DEF UploadStep, UploadStart, UploadChunk, UploadDelimiter, UploadEnd, UploadSeal,
           UploadClean, UploadKeeps, UploadBreaks
  <2> QED
    BY <2>1 DEF SendT
<1>2. CASE Command \/ LinkEnds \/ LinkReturns
  BY <1>2 DEF Command, LinkEnds, LinkReturns, pastVars
<1>3. CASE LinkWrites
  BY <1>3 DEF LinkWrites, SendT, pastVars
<1> QED
  BY <1>1, <1>2, <1>3

LEMMA MInvInductive == TInv /\ NameT /\ MInv /\ [Next]_vars => MInv'
<1> SUFFICES ASSUME TInv, NameT, MInv, [Next]_vars PROVE MInv'
  OBVIOUS
<1>1. SendT
  BY DEF TInv
<1>2. CASE UNCHANGED vars
  <2>1. /\ carrier' = carrier /\ Rest' = Rest
        /\ UNCHANGED <<file, pc, sent, mode, disk, before, named, spoilt>>
    BY <1>2 DEF vars, sendVars, nodeVars, pastVars, Rest
  <2> QED
    BY <2>1, SameM
<1>3. CASE \/ \E u \in Uploader : UploadStep(u) \/ UploadBreaks(u)
           \/ Command \/ LinkWrites \/ LinkEnds \/ LinkReturns
  BY <1>1, <1>3, NoMove DEF MInv, Moving
<1> QED
  BY <1>2, <1>3, MoverM, ReaderM DEF Next

\* A moved file at the node is the old one, the first part of its own content,
\* or the whole: for every set of files that hold neither the delimiter nor an
\* end_file, every cut of the stream into reads, and every point at which
\* reading fails or the connection breaks (send_folder_over_broadcast,
\* ReadMode::File, cleanup_end_file_markers).
THEOREM NeverMixes == Spec => []NeverMixed
<1>1. Init => TInv /\ NameT /\ MInv
  BY TInvInit, NameTInit, MInvInit
<1>2. TInv /\ NameT /\ MInv /\ [Next]_vars => (TInv /\ NameT /\ MInv)'
  BY TInvInductive, NameTInductive, MInvInductive
<1>3. MInv => NeverMixed
  BY DEF MInv, Moving, Mixes, NeverMixed
<1> QED
  BY <1>1, <1>2, <1>3, PTL DEF Spec

-----------------------------------------------------------------------------
(* A move that nothing meets leaves every file as the sender had it. *)

LEMMA CalmMoves == Calm => Moving /\ ~Lost
BY DEF Calm, Moving, Lost

\* A start_file comes with its newline.
LEMMA StartAt ==
  ASSUME TInv, MInv, Calm, NEW i \in 1..Len(Rest), Rest[i].kind = "start"
  PROVE  /\ Rest[i].of \in File /\ Tracks(Rest[i].of, i, 0)
         /\ i + 1 \in 1..Len(Rest) /\ Rest[i + 1] = Newline
<1>1. Rest \in Seq(Proper) /\ Len(Rest) \in Nat /\ sent[Mover] \in Nat
  BY RestSeq DEF TInv, SendT, Sender
<1>2. PICK f : f = Rest[i].of
  OBVIOUS
<1>3. f \in File
  BY <1>1, <1>2, ElementOfSeq DEF Proper
<1>4. Tracks(f, i, 0)
  BY <1>2, CalmMoves DEF MInv, Comes
<1>5. Size(f) \in Nat /\ Len(Body(f)) = Size(f) + 5 /\ Body(f)[1] = Newline
  BY <1>3, BodyAt
<1>6. 0 + (Len(Rest) - i) >= Len(Body(f)) \/ 0 + (Len(Rest) - i) = 1 + sent[Mover]
  BY <1>4, CalmMoves DEF Tracks, InHand
<1>7. 0 + (Len(Rest) - i) >= 1
  BY <1>1, <1>5, <1>6
<1>8. i + 1 \in 1..Len(Rest) /\ i + 1 \in (i + 1)..Len(Rest) /\ 0 + (i + 1 - i) = 1
  BY <1>1, <1>7
<1>9. 0 + (i + 1 - i) <= Len(Body(f))
  BY <1>5, <1>8
<1>10. Rest[i + 1] = Body(f)[0 + (i + 1 - i)]
  BY <1>4, <1>8, <1>9 DEF Tracks, Fits
<1> QED
  BY <1>2, <1>3, <1>4, <1>5, <1>8, <1>10

\* Outside of a file, a whole line before the reader is a start_file.
LEMMA StartsLine ==
  ASSUME TInv, MInv, AInv, Calm, mode = None, HasLine \/ ~(Len(buf) <= 1)
  PROVE  /\ HasLine /\ LineEnd = 2 /\ JsonLine("start")
         /\ \A k : JsonLine(k) => k = "start"
         /\ Line # <<>> /\ Line # Delimiter
<1>1. /\ NodeT /\ buf \in Seq(Proper) /\ Len(buf) \in Nat /\ Len(Rest) \in Nat
      /\ \A i \in 1..Len(buf) : i \in 1..Len(Rest) /\ Rest[i] = buf[i]
  BY RestSeq DEF TInv, NodeT
<1>2. 1 \in 1..Len(buf)
  BY <1>1 DEF HasLine
<1>3. 1 \in 1..Len(Rest) /\ Rest[1] = buf[1] /\ Len(Rest) # 0
  BY <1>1, <1>2
<1>4. buf[1].kind = "start"
  BY <1>3 DEF AInv, Joined
<1>5. Rest[1 + 1] = Newline
  BY <1>3, <1>4, StartAt
<1>6. buf[1] # Newline
  BY <1>4 DEF Newline, Sym
<1>7. 2 \in 1..Len(buf)
  <2>1. CASE HasLine
    <3>1. PICK i \in 1..Len(buf) : buf[i] = Newline
      BY <2>1 DEF HasLine
    <3>2. i # 1
      BY <1>6, <3>1
    <3> QED
      BY <1>1, <3>1, <3>2
  <2>2. CASE ~(Len(buf) <= 1)
    BY <1>1, <2>2
  <2> QED
    BY <2>1, <2>2
<1>8. buf[2] = Newline
  BY <1>1, <1>5, <1>7
<1>9. HasLine
  BY <1>7, <1>8 DEF HasLine
<1>10. /\ LineEnd \in 1..Len(buf) /\ buf[LineEnd] = Newline
       /\ \A j \in 1..(LineEnd - 1) : buf[j] # Newline
  BY <1>1, <1>9, FirstLine
<1>11. LineEnd = 2
  <2>1. LineEnd # 1
    BY <1>6, <1>10
  <2>2. ~(LineEnd > 2)
    <3>1. LineEnd > 2 => 2 \in 1..(LineEnd - 1)
      BY <1>1, <1>10
    <3> QED
      BY <1>8, <1>10, <3>1
  <2> QED
    BY <1>1, <1>10, <2>1, <2>2
<1>12. Len(Line) = 1 /\ Line[1] = buf[1]
  <2>1. Len(Line) = LineEnd - 1 /\ \A i \in 1..(LineEnd - 1) : Line[i] = buf[i]
    BY <1>1, <1>9, OneLine
  <2>2. LineEnd - 1 = 1 /\ 1 \in 1..(LineEnd - 1)
    BY <1>11
  <2> QED
    BY <2>1, <2>2
<1>13. Line # <<>> /\ Line # Delimiter
  <2>1. Len(<<>>) = 0 /\ Len(Delimiter) = 2
    BY Symbols
  <2> QED
    BY <1>12, <2>1
<1> QED
  BY <1>4, <1>9, <1>11, <1>12, <1>13 DEF JsonLine

\* What joins stays so when the reader takes symbols.
LEMMA JoinsDrains ==
  ASSUME NEW f \in File, NEW k \in 0..Len(Rest), NEW d \in Nat, Joins(f, k, d),
         Len(Rest) \in Nat, NEW n \in 0..Len(Rest), Len(Rest') = Len(Rest) - n,
         \A i \in 1..Len(Rest') : Rest'[i] = Rest[n + i],
         UNCHANGED <<file, pc, sent>>,
         NEW p \in 0..Len(Rest'), NEW e \in Nat, e = d + (p + n - k), e <= Len(Body(f))
  PROVE  Joins(f, p, e)'
<1>1. PICK m, r, s : m = Len(Body(f)) /\ r = Len(Rest) /\ s = Len(Rest')
  OBVIOUS
<1>2. m \in Nat /\ r \in Nat /\ k \in Nat /\ n \in Nat /\ p \in Nat /\ s = r - n /\ s \in Nat
  BY <1>1, BodyAt, LenProperties
<1>3. e + (s - p) = d + (r - k)
  BY <1>2
<1>4. PICK a, b : a = d + (r - k) /\ b = p + (m - e) + 1
  OBVIOUS
<1>5. (\A x : InHand(f, x)' = InHand(f, x)) /\ Sending' = Sending
  BY DEF InHand, Sending
<1>6. a > m => b \in 1..s /\ n + b = k + (m - d) + 1
  BY <1>1, <1>2, <1>3, <1>4
<1>7. \/ InHand(f, a)
      \/ a = m /\ ~Sending
      \/ a > m /\ Rest[k + (m - d) + 1].kind = "start"
  <2>1. a = d + (Len(Rest) - k) /\ m = Len(Body(f))
    BY <1>1, <1>4
  <2> QED
    BY <2>1, Zenon DEF Joins
<1>8. a > m => Rest'[b] = Rest[k + (m - d) + 1]
  BY <1>1, <1>6
<1>9. \/ InHand(f, a)'
      \/ a = m /\ ~Sending'
      \/ a > m /\ Rest'[b].kind = "start"
  BY <1>5, <1>7, <1>8
<1>10. e + (Len(Rest') - p) = a /\ Len(Body(f)') = m /\ b = p + (m - e) + 1
  BY <1>1, <1>3, <1>4 DEF Body, Whole, Delimiter
<1> QED
  BY <1>9, <1>10 DEF Joins, Body, Whole, Delimiter

\* A step that neither takes nor adds symbols.
LEMMA SameA ==
  ASSUME AInv, carrier' = carrier, UNCHANGED <<mode, disk, before, named>>, spoilt \subseteq spoilt',
         Rest' = Rest, Sending' = Sending, \A f, n : InHand(f, n)' = InHand(f, n),
         todo' \subseteq todo, todo' = todo \/ faults' > 0, faults > 0 => faults' > 0,
         Calm /\ ~busy' => Quiet', Calm /\ pc'[Mover] = "done" => todo' = {}
  PROVE  AInv'
<1> SUFFICES ASSUME Calm' PROVE AInv'
  BY DEF AInv
<1>1. Calm
  BY DEF Calm
<1>2. \A f, k, d : Joins(f, k, d)' = Joins(f, k, d)
  BY DEF Joins, Body, Whole, Delimiter
<1>3. Joined'
  BY <1>1, <1>2 DEF AInv, Joined
<1>4. \A f : Still(f)' = Still(f) /\ Begins(f)' = Begins(f) /\ Arrived(f)' = Arrived(f)
  BY DEF Still, Begins, Arrived
<1>5. Accounted'
  BY <1>1, <1>4 DEF AInv, Accounted
<1> QED
  BY <1>1, <1>3, <1>5 DEF AInv

\* A step of the reader that takes symbols, and works for the file g.
LEMMA DrainA ==
  ASSUME TInv, NameT, AInv, Calm, Calm', NodeKeeps, busy' = TRUE,
         NEW n \in 0..Len(buf), buf' = SubSeq(buf, n + 1, Len(buf)), UNCHANGED wire,
         NEW g \in File, ~Still(g), mode' = g \/ Arrived(g)', disk'[g].is = "file",
         \A f \in File \ {g} : disk'[f] = disk[f] /\ (mode' = f <=> mode = f),
         \A i \in 1..n : Rest[i].kind = "start" => Rest[i].of = g,
         mode' = None => IF Len(Rest') = 0 THEN ~Sending' ELSE Rest'[1].kind = "start",
         mode' # None => Joins(mode, 0, 1 + Len(disk[mode].data))'
  PROVE  AInv'
<1>1. /\ Rest \in Seq(Proper) /\ Len(Rest) \in Nat /\ n \in 0..Len(Rest) /\ n \in Nat
      /\ Len(Rest') = Len(Rest) - n /\ \A i \in 1..Len(Rest') : Rest'[i] = Rest[n + i]
  <2>1. NodeT
    BY DEF TInv
  <2>2. /\ n \in 0..Len(Rest) /\ Len(Rest') = Len(Rest) - n
        /\ \A i \in 1..Len(Rest') : Rest'[i] = Rest[n + i]
    BY <2>1, RestDrains
  <2>3. Rest \in Seq(Proper) /\ Len(Rest) \in Nat
    BY <2>1, RestSeq
  <2>4. n \in Nat
    BY <2>2, <2>3
  <2> QED
    BY <2>2, <2>3, <2>4
<1>2. UNCHANGED <<file, pc, sent, todo, faults, before, named>>
  BY DEF NodeKeeps, sendVars
<1>3. ASSUME NEW i \in 1..Len(Rest'), Rest'[i].kind = "start" PROVE Joins(Rest[i].of, i, 0)'
  <2>1. PICK k, f : k = n + i /\ f = Rest[k].of
    OBVIOUS
  <2>2. k \in 1..Len(Rest) /\ k \in 0..Len(Rest) /\ Rest'[i] = Rest[k] /\ Rest[k].kind = "start"
    BY <1>1, <1>3, <2>1
  <2>3. f \in File
    BY <1>1, <2>1, <2>2, ElementOfSeq DEF Proper
  <2>4. Joins(f, k, 0)
    BY <2>1, <2>2 DEF AInv, Joined
  <2>5. 0 = 0 + (i + n - k) /\ i \in 0..Len(Rest') /\ 0 \in Nat
    BY <1>1, <2>1
  <2>6. 0 <= Len(Body(f))
    BY <2>3, BodyAt, LenProperties
  <2>7. Joins(f, i, 0)'
    BY <1>1, <1>2, <2>2, <2>3, <2>4, <2>5, <2>6, JoinsDrains
  <2> QED
    BY <2>1, <2>2, <2>7 DEF Joins, InHand, Body, Whole, Delimiter
<1>4. Joined'
  BY <1>3 DEF Joined
<1>5. ASSUME NEW f \in File \ {g} PROVE Begins(f)' <=> Begins(f)
  <2>1. ASSUME NEW i \in 1..Len(Rest'), Rest'[i].kind = "start", Rest'[i].of = f PROVE Begins(f)
    <3>1. n + i \in 1..Len(Rest) /\ Rest'[i] = Rest[n + i]
      BY <1>1
    <3> QED
      BY <2>1, <3>1 DEF Begins
  <2>2. ASSUME NEW i \in 1..Len(Rest), Rest[i].kind = "start", Rest[i].of = f PROVE Begins(f)'
    <3>1. PICK j : j = i - n
      OBVIOUS
    <3>2. i \notin 1..n
      BY <1>5, <2>2
    <3>3. j \in 1..Len(Rest') /\ n + j = i
      BY <1>1, <3>1, <3>2
    <3>4. Rest'[j] = Rest[i]
      BY <1>1, <3>3
    <3> QED
      BY <2>2, <3>3, <3>4 DEF Begins
  <2> QED
    BY <2>1, <2>2 DEF Begins
<1>6. Accounted'
  <2> SUFFICES ASSUME NEW f \in named
               PROVE  /\ f \in todo => Still(f)'
                      /\ \/ Still(f)' /\ (f \in todo \/ faults > 0)
                         \/ mode' = f \/ Begins(f)' \/ Arrived(f)'
    BY <1>2 DEF Accounted
  <2>1. /\ f \in todo => Still(f)
        /\ \/ Still(f) /\ (f \in todo \/ faults > 0)
           \/ mode = f \/ Begins(f) \/ Arrived(f)
    BY DEF AInv, Accounted
  <2>2. CASE f = g
    BY <2>1, <2>2
  <2>3. CASE f # g
    <3>3. f \in File \ {g}
      BY <2>3 DEF NameT
    <3>1. (Still(f)' <=> Still(f)) /\ (Begins(f)' <=> Begins(f)) /\ (mode' = f <=> mode = f)
      BY <1>2, <1>5, <3>3 DEF Still
    <3>2. Arrived(f) => Arrived(f)'
      BY <3>3 DEF Arrived
    <3> QED
      BY <2>1, <3>1, <3>2
  <2> QED
    BY <2>2, <2>3
<1>7. \A f \in named' : disk'[f].is = "file"
  BY <1>2 DEF AInv, NameT
<1>8. pc'[Mover] = "done" => todo' = {}
  BY <1>2 DEF AInv
<1> QED
  BY <1>4, <1>6, <1>7, <1>8 DEF AInv

LEMMA ReaderA ==
  ASSUME TInv, NameT, MInv, AInv, Read \/ Process
  PROVE  AInv'
<1>1. /\ NodeT /\ buf \in Seq(Proper) /\ Len(buf) \in Nat /\ None \notin File
      /\ mode \in File \cup {None} /\ disk \in [File -> Entry] /\ DOMAIN disk = File
      /\ Rest \in Seq(Proper) /\ Len(Rest) \in Nat
      /\ \A i \in 1..Len(buf) : i \in 1..Len(Rest) /\ Rest[i] = buf[i]
  <2>1. NodeT
    BY DEF TInv
  <2> QED
    BY <2>1, RestSeq, TransferAssumption DEF NodeT
<1>2. NodeKeeps /\ spoilt \subseteq spoilt' /\ UNCHANGED <<carrier, before, named>>
  BY DEF Read, Process, Overflow, SkipLine, StartFile, CleanFile, HandleCommand, Stops,
         FinishFile, WriteFile, AwaitsMore, NodeKeeps
<1>3. UNCHANGED <<file, pc, sent, todo, faults>>
  BY <1>2 DEF NodeKeeps, sendVars
<1>4. SUFFICES ASSUME Calm' PROVE AInv'
  BY DEF AInv
<1>5. Calm /\ Moving /\ ~Lost
  <2>1. Calm
    BY <1>2, <1>4 DEF Calm
  <2> QED
    BY <2>1, CalmMoves
<1>6. /\ \A f \in named : disk[f].is = "file"
      /\ Joined /\ Accounted
  BY <1>5 DEF AInv
<1>7. ASSUME Rest' = Rest, UNCHANGED <<mode, disk>>, ~busy' => Quiet' PROVE AInv'
  <2>1. Sending' = Sending /\ \A f, n : InHand(f, n)' = InHand(f, n)
    BY <1>3 DEF Sending, InHand
  <2> QED
    BY <1>2, <1>3, <1>5, <1>7, <2>1, SameA DEF AInv
<1>8. CASE Read
  <2>1. Rest' = Rest
    BY <1>1, <1>8, RestRead
  <2>2. UNCHANGED <<mode, disk>> /\ busy' = TRUE
    BY <1>8 DEF Read
  <2> QED
    BY <1>7, <2>1, <2>2
<1>9. CASE Stops
  <2>1. mode = None /\ UNCHANGED <<buf, wire, mode, disk>>
    BY <1>9 DEF Stops, Goes
  <2>2. Len(buf) <= 1
    <3>1. \/ ~HasLine
          \/ \A k \in JsonKinds : ~JsonLine(k)
      BY <1>9 DEF Stops
    <3>2. "start" \in JsonKinds
      BY DEF JsonKinds
    <3> QED
      BY <1>5, <2>1, <3>1, <3>2, StartsLine
  <2>3. Rest' = Rest /\ Quiet'
    BY <2>1, <2>2 DEF Rest, Quiet
  <2> QED
    BY <1>7, <2>1, <2>3
<1>10. CASE AwaitsMore
  <2>1. mode # None /\ ~HasDelimiter /\ UNCHANGED <<buf, wire, mode, disk>>
    BY <1>10 DEF AwaitsMore, Goes
  <2>2. Rest' = Rest /\ Quiet'
    BY <2>1 DEF Rest, Quiet, HasDelimiter, DelimiterAt, Delimiter
  <2> QED
    BY <1>7, <2>1, <2>2
<1>11. CASE Overflow
  BY <1>4, <1>11 DEF Overflow, Calm
<1>12. CASE SkipLine \/ CleanFile \/ HandleCommand
  <2>1. /\ mode = None /\ HasLine
        /\ Line = <<>> \/ Line = Delimiter \/ \E k : JsonLine(k) /\ k # "start"
    BY <1>12 DEF SkipLine, CleanFile, HandleCommand, Goes, JsonLine
  <2> QED
    BY <1>5, <2>1, StartsLine
<1>13. CASE StartFile
  <2>1. PICK f : f = Line[1].of
    OBVIOUS
  <2>2. /\ JsonLine("start") /\ mode = None /\ buf' = Drained /\ UNCHANGED <<wire, busy>> /\ busy
        /\ LineEnd = 2
    <3>1. JsonLine("start") /\ mode = None /\ buf' = Drained /\ UNCHANGED <<wire, busy>> /\ busy
      BY <1>13 DEF StartFile, Goes
    <3> QED
      BY <1>5, <3>1, StartsLine DEF JsonLine
  <2>3. /\ 2 \in 1..Len(buf) /\ 2 \in 0..Len(buf) /\ buf' = SubSeq(buf, 2 + 1, Len(buf))
        /\ 1 \in 1..Len(Rest) /\ Rest[1].kind = "start" /\ Rest[1].of = f
    <3>1. 2 \in 1..Len(buf) /\ Line[1] = buf[1] /\ buf[1].kind = "start"
      BY <1>1, <2>2, OneLine DEF JsonLine
    <3>2. 1 \in 1..Len(buf)
      BY <1>1, <3>1
    <3> QED
      BY <1>1, <2>1, <2>2, <3>1, <3>2 DEF Drained
  <2>4. f \in File /\ f \in named /\ Rest[1 + 1] = Newline /\ Joins(f, 1, 0)
    BY <1>5, <1>6, <2>3, StartAt DEF Joined, Tracks
  <2>5. /\ mode' = f /\ disk' = [disk EXCEPT ![f].data = <<>>]
    BY <1>6, <1>13, <2>1, <2>4 DEF StartFile
  <2>6. disk'[f].is = "file" /\ disk'[f].data = <<>> /\ \A h \in File \ {f} : disk'[h] = disk[h]
    BY <1>1, <1>6, <2>4, <2>5 DEF Entry
  <2>7. /\ ~Still(f) /\ \A h \in File \ {f} : disk'[h] = disk[h] /\ (mode' = h <=> mode = h)
    BY <1>1, <2>2, <2>3, <2>5, <2>6 DEF Still, Begins
  <2>8. ASSUME NEW i \in 1..2, Rest[i].kind = "start" PROVE Rest[i].of = f
    <3>1. i = 1 \/ i = 2
      OBVIOUS
    <3>2. Rest[2].kind # "start"
      BY <2>4 DEF Newline, Sym
    <3> QED
      BY <2>3, <2>8, <3>1, <3>2
  <2>9. Joins(f, 0, 1)'
    <3>1. /\ 2 \in 0..Len(Rest) /\ Len(Rest') = Len(Rest) - 2
          /\ \A i \in 1..Len(Rest') : Rest'[i] = Rest[2 + i]
      BY <1>1, <2>2, <2>3, RestDrains
    <3>2. 1 \in 0..Len(Rest) /\ 0 \in 0..Len(Rest') /\ 1 = 0 + (0 + 2 - 1) /\ 0 \in Nat /\ 1 \in Nat
      BY <1>1, <2>3, <3>1
    <3>3. 1 <= Len(Body(f))
      <4>1. Size(f) \in Nat /\ Len(Body(f)) = Size(f) + 5
        BY <2>4, BodyAt
      <4> QED
        BY <4>1
    <3> QED
      BY <1>1, <1>3, <2>4, <3>1, <3>2, <3>3, JoinsDrains
  <2>10. mode' # None /\ Joins(mode, 0, 1 + Len(disk[mode].data))'
    <3>1. 1 + Len(disk'[mode'].data) = 1
      BY <2>5, <2>6
    <3> QED
      BY <1>1, <2>4, <2>5, <2>9, <3>1 DEF Joins, InHand, Body, Whole, Delimiter
  <2>11. busy' = TRUE
    BY <2>2, <1>1 DEF NodeT
  <2> QED
    BY <1>2, <1>4, <1>5, <2>2, <2>3, <2>4, <2>5, <2>6, <2>7, <2>8, <2>10, <2>11, DrainA
\* What the reader takes of a file is no start_file.
<1>14. ASSUME mode # None, NEW n \in 1..Len(buf),
              1 + Len(disk[mode].data) + n <= Size(mode) + 5, NEW i \in 1..n
       PROVE  Rest[i].kind # "start"
  <2>1. PICK f, d, j : f = mode /\ d = Len(disk[mode].data) /\ j = 1 + d + i
    OBVIOUS
  <2>2. /\ f \in File /\ d \in Nat
        /\ \A l \in 1..Len(buf) : 1 + d + l <= Size(f) + 5 => buf[l] = Body(f)[1 + d + l]
    BY <1>5, <1>14, <2>1, Written
  <2>3. Size(f) \in Nat /\ Len(Body(f)) = Size(f) + 5
    BY <2>2, BodyAt
  <2>4. 1 + d + n <= Size(f) + 5
    BY <1>14, <2>1
  <2>5. i \in 1..Len(buf) /\ j \in 1..Len(Body(f)) /\ 1 + d + i <= Size(f) + 5
    BY <1>1, <2>1, <2>2, <2>3, <2>4
  <2>6. Rest[i] = Body(f)[j]
    BY <1>1, <2>1, <2>2, <2>5
  <2> QED
    BY <2>2, <2>5, <2>6, NoStart
<1>15. CASE WriteFile
  <2>1. PICK f, d, n : f = mode /\ d = disk[mode].data /\ n = Len(buf) - 3
    OBVIOUS
  <2>2. /\ mode # None /\ busy /\ UNCHANGED <<wire, mode, busy>> /\ Len(buf) > 3
    <3>1. Keep = 3
      BY Symbols DEF Keep
    <3> QED
      BY <1>15, <3>1 DEF WriteFile, Goes
  <2>3. /\ f \in File /\ Len(d) \in Nat /\ n \in 0..Len(buf) /\ n \in Nat
        /\ buf' = SubSeq(buf, n + 1, Len(buf)) /\ Len(d) + n <= Size(f) + 2
        /\ disk' = [disk EXCEPT ![mode].data = SubSeq(Whole(f), 1, Len(d) + n)]
    BY <1>5, <1>15, <2>1, Writes
  <2>4. /\ disk'[f].data = SubSeq(Whole(f), 1, Len(d) + n) /\ disk'[f].is = "file"
        /\ \A h \in File \ {f} : disk'[h] = disk[h] /\ (mode' = h <=> mode = h)
    BY <1>1, <2>1, <2>2, <2>3 DEF Entry, NodeT
  <2>5. Len(disk'[f].data) = Len(d) + n /\ Size(f) \in Nat /\ Len(Body(f)) = Size(f) + 5
    <3>1. Whole(f) \in Seq(Proper) /\ Len(Whole(f)) = Size(f) + 2 /\ Size(f) \in Nat
          /\ Len(Body(f)) = Size(f) + 5
      BY <2>3, BodyAt
    <3>2. Len(d) + n \in 0..Len(Whole(f))
      BY <2>3, <3>1
    <3> QED
      BY <2>4, <3>1, <3>2, Cuts
  <2>6. \A i \in 1..n : Rest[i].kind # "start"
    <3>1. n \in 1..Len(buf)
      BY <1>1, <2>1, <2>2, <2>3
    <3>2. 1 + Len(d) + n <= Size(f) + 5
      BY <2>3, <2>5
    <3> QED
      BY <1>14, <2>1, <2>2, <3>1, <3>2
  <2>7. Joins(mode, 0, 1 + Len(disk[mode].data))'
    <3>1. PICK e : e = 1 + Len(d) + n
      OBVIOUS
    <3>2. /\ n \in 0..Len(Rest) /\ Len(Rest') = Len(Rest) - n
          /\ \A i \in 1..Len(Rest') : Rest'[i] = Rest[n + i]
      BY <1>1, <2>2, <2>3, RestDrains
    <3>3. Joins(f, 0, 1 + Len(d))
      BY <1>6, <2>1, <2>2 DEF Joined
    <3>4. /\ 0 \in 0..Len(Rest) /\ 0 \in 0..Len(Rest') /\ 1 + Len(d) \in Nat /\ e \in Nat
          /\ e = 1 + Len(d) + (0 + n - 0) /\ e <= Len(Body(f))
      <4>1. PICK q, z, r, s : q = Len(d) /\ z = Size(f) /\ r = Len(Rest) /\ s = Len(Rest')
        OBVIOUS
      <4>2. /\ q \in Nat /\ z \in Nat /\ r \in Nat /\ n \in 0..r /\ n \in Nat /\ s = r - n
            /\ q + n <= z + 2 /\ e = 1 + q + n
        BY <1>1, <2>3, <2>5, <3>1, <3>2, <4>1
      <4>3. 0 \in 0..r /\ 0 \in 0..s /\ 1 + q \in Nat /\ e \in Nat /\ e = 1 + q + (0 + n - 0) /\ e <= z + 5
        BY <4>2
      <4> QED
        BY <2>5, <4>1, <4>3
    <3>5. Joins(f, 0, e)'
      BY <1>1, <1>3, <2>3, <3>2, <3>3, <3>4, JoinsDrains
    <3>6. mode' = f /\ e = 1 + Len(disk'[mode'].data)
      BY <2>1, <2>2, <2>3, <2>5, <3>1
    <3> QED
      BY <3>5, <3>6 DEF Joins, InHand, Body, Whole, Delimiter
  <2>8. ~Still(f) /\ mode' = f /\ mode' # None /\ busy' = TRUE
    BY <1>1, <2>1, <2>2 DEF Still, NodeT
  <2> QED
    BY <1>2, <1>4, <1>5, <2>2, <2>3, <2>4, <2>6, <2>7, <2>8, DrainA
<1>16. CASE FinishFile
  <2>1. PICK f, d, k, n : f = mode /\ d = disk[mode].data /\ k = FirstDelimiter /\ n = k + 1
    OBVIOUS
  <2>2. /\ mode # None /\ mode' = None /\ busy /\ UNCHANGED <<wire, busy>>
        /\ buf' = SubSeq(buf, k + 2, Len(buf))
    BY <1>16, <2>1 DEF FinishFile, Goes
  <2>3. /\ f \in File /\ Len(d) \in Nat /\ k \in 1..Len(buf) /\ n \in 1..Len(buf)
        /\ Len(d) + k = Size(f) + 3
        /\ disk' = [disk EXCEPT ![mode].data = Cleaned(f, Whole(f))]
    BY <1>5, <1>16, <2>1, Finishes
  <2>4. /\ disk'[f].data = Cleaned(f, Whole(f)) /\ disk'[f].is = "file"
        /\ \A h \in File \ {f} : disk'[h] = disk[h] /\ (mode' = h <=> mode = h)
    BY <1>1, <2>1, <2>2, <2>3 DEF Entry, NodeT
  <2>5. Arrived(f)'
    <3>1. Innocent(f)
      BY <1>5, <2>1, <2>2 DEF MInv, Moving, Tracks
    <3> QED
      BY <2>3, <2>4, <3>1, CleanedWhole DEF Arrived
  <2>6. /\ Size(f) \in Nat /\ Len(Body(f)) = Size(f) + 5 /\ n \in Nat /\ n \in 0..Len(buf)
        /\ n + 1 = k + 2 /\ 1 + Len(d) + n = Size(f) + 5
    <3>1. Size(f) \in Nat /\ Len(Body(f)) = Size(f) + 5
      BY <2>3, BodyAt
    <3>2. PICK q, z, b : q = Len(d) /\ z = Size(f) /\ b = Len(buf)
      OBVIOUS
    <3>3. q \in Nat /\ z \in Nat /\ b \in Nat /\ n \in 1..b /\ q + k = z + 3 /\ n = k + 1 /\ k \in 1..b
      BY <1>1, <2>1, <2>3, <3>1, <3>2
    <3>4. n \in Nat /\ n \in 0..b /\ n + 1 = k + 2 /\ 1 + q + n = z + 5
      BY <3>3
    <3> QED
      BY <3>1, <3>2, <3>4
  <2>7. \A i \in 1..n : Rest[i].kind # "start"
    <3>1. 1 + Len(d) + n <= Size(f) + 5
      BY <2>6
    <3> QED
      BY <1>14, <2>1, <2>2, <2>3, <3>1
  <2>8. /\ n \in 0..Len(Rest) /\ Len(Rest') = Len(Rest) - n
        /\ \A i \in 1..Len(Rest') : Rest'[i] = Rest[n + i]
    BY <1>1, <2>2, <2>6, RestDrains
  <2>9. IF Len(Rest') = 0 THEN ~Sending' ELSE Rest'[1].kind = "start"
    <3>1. PICK a, m : a = 1 + Len(d) + (Len(Rest) - 0) /\ m = Len(Body(f))
      OBVIOUS
    <3>2. Joins(f, 0, 1 + Len(d))
      BY <1>6, <2>1, <2>2 DEF Joined
    <3>3. \/ InHand(f, a)
          \/ a = m /\ ~Sending
          \/ a > m /\ Rest[0 + (m - (1 + Len(d))) + 1].kind = "start"
      BY <3>1, <3>2, Zenon DEF Joins
    <3>4. /\ a >= m /\ (a = m <=> Len(Rest') = 0) /\ 0 + (m - (1 + Len(d))) + 1 = n + 1
      <4>1. PICK q, z, r, s : q = Len(d) /\ z = Size(f) /\ r = Len(Rest) /\ s = Len(Rest')
        OBVIOUS
      <4>2. /\ q \in Nat /\ z \in Nat /\ r \in Nat /\ n \in 0..r /\ s = r - n /\ m = z + 5
            /\ 1 + q + n = z + 5 /\ a = 1 + q + (r - 0)
        BY <1>1, <2>3, <2>6, <2>8, <3>1, <4>1
      <4>3. a >= m /\ (a = m <=> s = 0) /\ 0 + (m - (1 + q)) + 1 = n + 1
        BY <4>2
      <4> QED
        BY <4>1, <4>3
    <3>5. ~InHand(f, a)
      <4>1. a >= Size(f) + 5
        BY <2>6, <3>1, <3>4
      <4>2. InHand(f, a) => a <= 1 + Size(f)
        <5>1. InHand(f, a) => a = 1 + sent[Mover] /\ sent[Mover] <= Size(f) /\ sent[Mover] \in Nat
          BY DEF InHand, TInv, SendT, Sender
        <5> QED
          BY <2>6, <5>1
      <4>3. a \in Nat
        BY <1>1, <2>3, <3>1
      <4> QED
        BY <2>6, <4>1, <4>2, <4>3
    <3>6. Len(Rest') # 0 => Rest'[1] = Rest[n + 1]
      <4>1. Len(Rest') # 0 => 1 \in 1..Len(Rest')
        BY <1>1, <2>8
      <4> QED
        BY <2>8, <4>1
    <3>7. Sending' = Sending
      BY <1>3 DEF Sending
    <3>8. CASE Len(Rest') = 0
      <4>1. a = m
        BY <3>4, <3>8
      <4>2. ~(a > m)
        BY <1>1, <2>6, <3>1, <4>1
      <4> QED
        BY <3>3, <3>5, <3>7, <3>8, <4>1, <4>2
    <3>9. CASE Len(Rest') # 0
      <4>1. Rest[0 + (m - (1 + Len(d))) + 1].kind = "start"
        BY <3>3, <3>4, <3>5, <3>9
      <4> QED
        BY <3>4, <3>6, <3>9, <4>1
    <3> QED
      BY <3>8, <3>9
  <2>10. ~Still(f) /\ busy' = TRUE /\ buf' = SubSeq(buf, n + 1, Len(buf))
    BY <1>1, <2>1, <2>2, <2>6 DEF Still, NodeT
  <2> QED
    BY <1>2, <1>4, <1>5, <2>2, <2>3, <2>4, <2>5, <2>6, <2>7, <2>9, <2>10, DrainA
<1> QED
  BY <1>8, <1>9, <1>10, <1>11, <1>12, <1>13, <1>15, <1>16 DEF Process

\* What joins stays so when the sender adds what comes next.
LEMMA JoinsGrows ==
  ASSUME NEW f \in File, NEW k \in 0..Len(Rest), NEW d \in Nat, d <= Len(Body(f)), Joins(f, k, d),
         Len(Rest) \in Nat, NEW t \in Seq(Proper), Len(t) >= 1, Len(Rest') = Len(Rest) + Len(t),
         \A i \in 1..Len(Rest) : Rest'[i] = Rest[i], Rest'[Len(Rest) + 1] = t[1],
         ~Sending => t[1].kind = "start",
         \A n \in Nat : InHand(f, n) => \/ InHand(f, n + Len(t))'
                                        \/ n + Len(t) = Len(Body(f)) /\ ~Sending'
  PROVE  Joins(f, k, d)'
<1>1. PICK m, r, s, l : m = Len(Body(f)) /\ r = Len(Rest) /\ s = Len(Rest') /\ l = Len(t)
  OBVIOUS
<1>2. m \in Nat /\ r \in Nat /\ k \in 0..r /\ l \in Nat /\ l >= 1 /\ s = r + l /\ s \in Nat /\ d <= m
  BY <1>1, BodyAt, LenProperties
<1>3. PICK a, b, p : a = d + (r - k) /\ b = d + (s - k) /\ p = k + (m - d) + 1
  OBVIOUS
<1>4. a \in Nat /\ b = a + l /\ p \in Nat
  BY <1>2, <1>3
<1>5. \/ InHand(f, a)
      \/ a = m /\ ~Sending
      \/ a > m /\ Rest[p].kind = "start"
  <2>1. a = d + (Len(Rest) - k) /\ m = Len(Body(f)) /\ p = k + (m - d) + 1
    BY <1>1, <1>3
  <2> QED
    BY <2>1, Zenon DEF Joins
<1>6. \/ InHand(f, b)'
      \/ b = m /\ ~Sending'
      \/ b > m /\ Rest'[p].kind = "start"
  <2>1. CASE InHand(f, a)
    BY <1>1, <1>4, <2>1
  <2>2. CASE a = m /\ ~Sending
    <3>1. p = r + 1 /\ b > m
      BY <1>2, <1>3, <1>4, <2>2
    <3> QED
      BY <1>1, <2>2, <3>1
  <2>3. CASE a > m /\ Rest[p].kind = "start"
    <3>1. p \in 1..r /\ b > m
      BY <1>2, <1>3, <1>4, <2>3
    <3> QED
      BY <1>1, <2>3, <3>1
  <2> QED
    BY <1>5, <2>1, <2>2, <2>3
<1>7. b = d + (Len(Rest') - k) /\ m = Len(Body(f))' /\ p = k + (m - d) + 1
  BY <1>1, <1>3 DEF Body, Whole, Delimiter
<1> QED
  BY <1>6, <1>7, Zenon DEF Joins

LEMMA MoverA ==
  ASSUME TInv, NameT, MInv, AInv, MoverStep
  PROVE  AInv'
<1>1. /\ NodeT /\ Rest \in Seq(Proper) /\ Len(Rest) \in Nat /\ Mover \in Sender
      /\ sent \in [Sender -> Nat] /\ file \in [Sender -> File \cup {None}] /\ DOMAIN pc = Sender
      /\ pc[Mover] \in {"open", "data", "end"} =>
           file[Mover] \in File /\ sent[Mover] <= Size(file[Mover])
      /\ None \notin File /\ mode \in File \cup {None} /\ todo \in SUBSET File
  <2>1. NodeT /\ SendT
    BY DEF TInv
  <2>2. Rest \in Seq(Proper) /\ Len(Rest) \in Nat
    BY <2>1, RestSeq
  <2> QED
    BY <2>1, <2>2, TransferAssumption DEF SendT, NodeT, Sender
<1>2. /\ UNCHANGED <<carrier, before, named, disk, mode, buf, busy>> /\ spoilt \subseteq spoilt'
  BY DEF MoverStep, SkipFile, SendStart, Open, OpenFails, SendChunk, ReadFails, SendEnd,
         AllSent, Breaks, MoverKeeps, nodeVars, Fine
<1>3. SUFFICES ASSUME Calm' PROVE AInv'
  BY DEF AInv
<1>4. Calm /\ Moving /\ ~Lost
  <2>1. Calm
    BY <1>2, <1>3 DEF Calm
  <2> QED
    BY <2>1, CalmMoves
<1>5. /\ \A f \in named : disk[f].is = "file"
      /\ pc[Mover] = "done" => todo = {}
      /\ ~busy => Quiet
      /\ Joined /\ Accounted
  BY <1>4 DEF AInv
<1>6. Quiet' = Quiet
  BY <1>2 DEF Quiet, HasDelimiter, DelimiterAt, Delimiter
<1>7. \A f \in File : Size(f) \in Nat
  BY SizeNat
<1>8. CASE OpenFails \/ ReadFails \/ Breaks
  BY <1>3, <1>8 DEF OpenFails, ReadFails, Breaks, Calm
<1>9. ASSUME NEW f \in File, SkipFile(f) PROVE AInv'
  <2>1. /\ UNCHANGED <<wire, file, sent, pc>> /\ todo' \subseteq todo /\ faults' = faults + 1
        /\ pc[Mover] = "next"
    BY <1>9 DEF SkipFile, Fault
  <2>2. faults' > 0
    BY <1>1, <2>1 DEF NodeT
  <2>3. Rest' = Rest /\ Sending' = Sending /\ \A g, n : InHand(g, n)' = InHand(g, n)
    BY <1>2, <2>1 DEF Rest, Sending, InHand
  <2> QED
    BY <1>2, <1>5, <1>6, <2>1, <2>2, <2>3, SameA
<1>10. CASE Open
  <2>1. /\ UNCHANGED <<wire, file, sent, todo, faults>>
        /\ pc[Mover] = "open" /\ pc'[Mover] = "data"
    BY <1>1, <1>10 DEF Open, Fine
  <2>2. Rest' = Rest /\ Sending' = Sending /\ \A g, n : InHand(g, n)' = InHand(g, n)
    BY <1>2, <2>1 DEF Rest, Sending, InHand
  <2> QED
    BY <1>2, <1>5, <1>6, <2>1, <2>2, SameA
<1>11. CASE AllSent
  <2>1. /\ UNCHANGED <<wire, file, sent, todo, faults>> /\ todo = {}
        /\ pc[Mover] = "next" /\ pc'[Mover] = "done"
    BY <1>1, <1>11 DEF AllSent, Fine
  <2>2. Rest' = Rest /\ Sending' = Sending /\ \A g, n : InHand(g, n)' = InHand(g, n)
    BY <1>2, <2>1 DEF Rest, Sending, InHand
  <2> QED
    BY <1>2, <1>5, <1>6, <2>1, <2>2, SameA
<1>12. PICK r : r = Len(Rest)
  OBVIOUS
\* Something is sent: the start of the files of S, or more of the file in hand.
<1>13. ASSUME NEW t \in Seq(Proper), Len(t) >= 1, wire' = wire \o t,
              pc[Mover] # "done", pc'[Mover] # "done", UNCHANGED faults,
              ~Sending => t[1].kind = "start",
              \A f \in File : \A n \in Nat : InHand(f, n) =>
                \/ InHand(f, n + Len(t))'
                \/ n + Len(t) = Len(Body(f)) /\ ~Sending',
              NEW S \in SUBSET File, todo' = todo \ S,
              \A i \in 1..Len(t) : t[i].kind = "start" => t[i].of \in S /\ Joins(t[i].of, r + i, 0)',
              \A f \in S : \E i \in 1..Len(t) : t[i].kind = "start" /\ t[i].of = f
       PROVE  AInv'
  <2>1. /\ Len(Rest') = Len(Rest) + Len(t) /\ Len(t) \in Nat
        /\ \A i \in 1..Len(Rest) : i \in 1..Len(Rest') /\ Rest'[i] = Rest[i]
        /\ \A i \in 1..Len(t) : r + i \in 1..Len(Rest') /\ Rest'[r + i] = t[i]
        /\ \A i \in 1..Len(Rest') : i \in 1..Len(Rest) \/ \E j \in 1..Len(t) : i = r + j
    <3>1. /\ Len(Rest') = Len(Rest) + Len(t) /\ Len(t) \in Nat
          /\ \A i \in 1..Len(Rest) : Rest'[i] = Rest[i]
          /\ \A i \in 1..Len(t) : Rest'[Len(Rest) + i] = t[i]
      BY <1>1, <1>2, <1>13, RestGrows
    <3>2. PICK s, l : s = Len(Rest') /\ l = Len(t)
      OBVIOUS
    <3>3. s = r + l /\ r \in Nat /\ l \in Nat
      BY <1>1, <1>12, <3>1, <3>2
    <3>4. (\A i \in 1..r : i \in 1..s) /\ (\A i \in 1..l : r + i \in 1..s)
      BY <3>3
    <3>5. ASSUME NEW i \in 1..s, i \notin 1..r PROVE \E j \in 1..l : i = r + j
      <4>1. i - r \in 1..l /\ i = r + (i - r)
        BY <3>3, <3>5
      <4> QED
        BY <4>1
    <3> QED
      BY <1>12, <3>1, <3>2, <3>4, <3>5
  <2>2. Rest'[Len(Rest) + 1] = t[1]
    <3>1. 1 \in 1..Len(t)
      BY <1>13, <2>1
    <3> QED
      BY <1>12, <2>1, <3>1
  <2>3. ASSUME NEW f \in File, NEW k \in 0..Len(Rest), NEW d \in Nat, d <= Len(Body(f)), Joins(f, k, d)
        PROVE  Joins(f, k, d)'
    BY <1>1, <1>13, <2>1, <2>2, <2>3, JoinsGrows
  <2>4. ASSUME NEW i \in 1..Len(Rest'), Rest'[i].kind = "start" PROVE Joins(Rest[i].of, i, 0)'
    <3>1. CASE i \in 1..Len(Rest)
      <4>1. PICK f : f = Rest[i].of
        OBVIOUS
      <4>2. Rest'[i] = Rest[i] /\ Rest[i].kind = "start" /\ i \in 0..Len(Rest)
        BY <1>1, <2>1, <2>4, <3>1
      <4>3. f \in File /\ Joins(f, i, 0)
        BY <1>1, <1>5, <3>1, <4>1, <4>2, ElementOfSeq DEF Proper, Joined
      <4>4. 0 \in Nat /\ 0 <= Len(Body(f))
        BY <4>3, BodyAt, LenProperties
      <4>5. Joins(f, i, 0)' /\ Rest'[i].of = f
        BY <2>3, <4>1, <4>2, <4>3, <4>4
      <4> QED
        BY <4>5 DEF Joins, InHand, Body, Whole, Delimiter
    <3>2. ASSUME NEW j \in 1..Len(t), i = r + j PROVE Joins(Rest[i].of, i, 0)'
      <4>1. PICK f : f = t[j].of
        OBVIOUS
      <4>2. Rest'[i] = t[j]
        BY <2>1, <3>2
      <4>3. Joins(f, i, 0)' /\ Rest'[i].of = f
        <5>1. Joins(t[j].of, r + j, 0)'
          BY <1>13, <2>4, <4>2
        <5> QED
          BY <3>2, <4>1, <4>2, <5>1
      <4> QED
        BY <4>3 DEF Joins, InHand, Body, Whole, Delimiter
    <3> QED
      BY <2>1, <3>1, <3>2
  <2>5. mode # None => Joins(mode, 0, 1 + Len(disk[mode].data))'
    <3> SUFFICES ASSUME mode # None PROVE Joins(mode, 0, 1 + Len(disk[mode].data))'
      OBVIOUS
    <3>1. PICK f, d : f = mode /\ d = 1 + Len(disk[mode].data)
      OBVIOUS
    <3>2. f \in File /\ Len(disk[mode].data) \in Nat /\ Len(disk[mode].data) <= Size(f) + 2
      BY <1>4, <3>1, Written
    <3>3. Len(Body(f)) = Size(f) + 5 /\ Size(f) \in Nat
      BY <3>2, BodyAt
    <3>4. d \in Nat /\ d <= Len(Body(f)) /\ 0 \in 0..Len(Rest)
      BY <1>1, <3>1, <3>2, <3>3
    <3>5. Joins(f, 0, d)
      BY <1>5, <3>1 DEF Joined
    <3>6. Joins(f, 0, d)'
      BY <2>3, <3>2, <3>4, <3>5
    <3>7. mode' = f /\ d = 1 + Len(disk'[mode'].data)
      BY <1>2, <3>1
    <3> QED
      BY <3>6, <3>7 DEF Joins, InHand, Body, Whole, Delimiter
  <2>6. mode = None => Len(Rest') # 0 /\ Rest'[1].kind = "start"
    <3> SUFFICES ASSUME mode = None PROVE Len(Rest') # 0 /\ Rest'[1].kind = "start"
      OBVIOUS
    <3>1. Len(Rest') # 0
      BY <1>1, <1>13, <2>1
    <3>2. CASE Len(Rest) = 0
      <4>1. Len(Rest) + 1 = 1 /\ ~Sending
        BY <1>5, <3>2 DEF Joined
      <4> QED
        BY <1>13, <2>2, <3>1, <4>1
    <3>3. CASE Len(Rest) # 0
      <4>1. 1 \in 1..Len(Rest) /\ Rest[1].kind = "start"
        BY <1>1, <1>5, <3>3 DEF Joined
      <4> QED
        BY <2>1, <3>1, <4>1
    <3> QED
      BY <3>2, <3>3
  <2>7. Joined'
    BY <1>2, <2>4, <2>5, <2>6 DEF Joined
  <2>8. ASSUME NEW f \in File PROVE Begins(f)' <=> Begins(f) \/ f \in S
    <3>1. Begins(f) => Begins(f)'
      BY <2>1 DEF Begins
    <3>2. f \in S => Begins(f)'
      <4>1. ASSUME NEW i \in 1..Len(t), t[i].kind = "start", t[i].of = f PROVE Begins(f)'
        <5>1. r + i \in 1..Len(Rest') /\ Rest'[r + i] = t[i]
          BY <2>1
        <5> QED
          BY <4>1, <5>1 DEF Begins
      <4> QED
        BY <1>13, <4>1
    <3>3. Begins(f)' => Begins(f) \/ f \in S
      <4>1. ASSUME NEW i \in 1..Len(Rest'), Rest'[i].kind = "start", Rest'[i].of = f
            PROVE  Begins(f) \/ f \in S
        <5>1. CASE i \in 1..Len(Rest)
          <6>1. Rest[i].kind = "start" /\ Rest[i].of = f
            BY <2>1, <4>1, <5>1
          <6> QED
            BY <5>1, <6>1 DEF Begins
        <5>2. ASSUME NEW j \in 1..Len(t), i = r + j PROVE f \in S
          <6>1. Rest'[i] = t[j]
            BY <2>1, <5>2
          <6> QED
            BY <1>13, <4>1, <6>1
        <5> QED
          BY <2>1, <5>1, <5>2
      <4> QED
        BY <4>1 DEF Begins
    <3> QED
      BY <3>1, <3>2, <3>3
  <2>9. Accounted'
    <3> SUFFICES ASSUME NEW f \in named
                 PROVE  /\ f \in todo' => Still(f)'
                        /\ \/ Still(f)' /\ (f \in todo' \/ faults' > 0)
                           \/ mode' = f \/ Begins(f)' \/ Arrived(f)'
      BY <1>2 DEF Accounted
    <3>4. f \in File
      BY DEF NameT
    <3>1. /\ f \in todo => Still(f)
          /\ \/ Still(f) /\ (f \in todo \/ faults > 0)
             \/ mode = f \/ Begins(f) \/ Arrived(f)
      BY <1>5 DEF Accounted
    <3>2. CASE f \in S
      BY <1>13, <2>8, <3>2, <3>4
    <3>3. CASE f \notin S
      <4>1. (f \in todo' <=> f \in todo) /\ (Begins(f)' <=> Begins(f))
        BY <1>13, <2>8, <3>3, <3>4
      <4>2. (Still(f)' <=> Still(f)) /\ (Arrived(f)' <=> Arrived(f))
        BY <1>2, <4>1 DEF Still, Arrived
      <4> QED
        BY <1>2, <1>13, <3>1, <4>1, <4>2
    <3> QED
      BY <3>2, <3>3
  <2> QED
    BY <1>2, <1>5, <1>6, <1>13, <2>7, <2>9 DEF AInv
<1>14. ASSUME NEW f \in File, SendStart(f) PROVE AInv'
  <2>1. PICK t : t = <<Sym("start", f), Newline>>
    OBVIOUS
  <2>2. t \in Seq(Proper) /\ Len(t) = 2 /\ t[1] = Sym("start", f) /\ t[2] = Newline
    BY <2>1, Symbols
  <2>3. /\ pc[Mover] = "next" /\ wire' = wire \o t /\ UNCHANGED faults /\ todo' = todo \ {f}
        /\ file'[Mover] = f /\ sent'[Mover] = 0
        /\ pc'[Mover] \in {"open", "end"}
    BY <1>1, <1>14, <2>1 DEF SendStart, Fine
  <2>4. \A g, n : ~InHand(g, n)
    BY <2>3 DEF InHand
  <2>5. t[1].kind = "start" /\ t[1].of = f /\ t[2].kind # "start"
    BY <2>2 DEF Sym, Newline
  <2>6. Joins(f, r + 1, 0)'
    <3>1. Len(Rest') = Len(Rest) + 2
      BY <1>1, <1>2, <2>2, <2>3, RestGrows
    <3>2. 0 + (Len(Rest') - (r + 1)) = 1
      BY <1>1, <1>12, <3>1
    <3>3. InHand(f, 1)'
      BY <2>3 DEF InHand
    <3> QED
      BY <3>2, <3>3 DEF Joins, InHand
  <2>7. \A i \in 1..Len(t) : t[i].kind = "start" => t[i].of \in {f} /\ Joins(t[i].of, r + i, 0)'
    <3>1. ASSUME NEW i \in 1..Len(t), t[i].kind = "start" PROVE i = 1
      BY <2>2, <2>5, <3>1
    <3>2. Joins(t[1].of, r + 1, 0)'
      BY <2>5, <2>6
    <3> QED
      BY <2>5, <3>1, <3>2
  <2>8. 1 \in 1..Len(t) /\ Len(t) >= 1 /\ {f} \in SUBSET File
    BY <2>2
  <2>9. \A g \in {f} : \E i \in 1..Len(t) : t[i].kind = "start" /\ t[i].of = g
    BY <2>5, <2>8
  <2> QED
    BY <1>13, <2>2, <2>3, <2>4, <2>5, <2>7, <2>8, <2>9
<1>15. CASE SendChunk
  <2>1. PICK f, s : f = file[Mover] /\ s = sent[Mover]
    OBVIOUS
  <2>2. PICK m \in 1..(Size(f) - s) :
          /\ wire' = wire \o Data(SubSeq(Content[f], s + 1, s + m))
          /\ sent' = [sent EXCEPT ![Mover] = @ + m]
    BY <1>15, <2>1 DEF SendChunk
  <2>3. /\ pc[Mover] = "data" /\ UNCHANGED <<file, pc, todo, faults>> /\ f \in File /\ s \in Nat
        /\ sent'[Mover] = s + m
    BY <1>1, <1>15, <2>1, <2>2 DEF SendChunk, Fine
  <2>4. PICK e, t : e = s + m /\ t = Data(SubSeq(Content[f], s + 1, e))
    OBVIOUS
  <2>5. e \in Nat /\ s <= e /\ e <= Size(f) /\ e - s = m /\ m \in Nat /\ m >= 1
    BY <1>7, <2>2, <2>3, <2>4
  <2>6. t \in Seq(Proper) /\ Len(t) = m /\ \A l \in 1..m : t[l] = Sym("byte", Content[f][s + l])
    <3>2. Innocent(f)
      BY <1>4, <2>1, <2>3 DEF Moving, NameT
    <3>1. t \in Seq(Proper) /\ Len(t) = e - s /\ \A l \in 1..Len(t) : t[l] = Sym("byte", Content[f][s + l])
      BY <2>3, <2>4, <2>5, <3>2, Chunks
    <3> QED
      BY <2>5, <3>1
  <2>7. Sending /\ \A i \in 1..Len(t) : t[i].kind # "start"
    <3>1. \A y : Sym("byte", y).kind = "byte"
      BY DEF Sym
    <3> QED
      BY <2>3, <2>6, <3>1 DEF Sending
  <2>8. ASSUME NEW g \in File, NEW n \in Nat, InHand(g, n) PROVE InHand(g, n + Len(t))'
    <3>1. g = f /\ n = 1 + s
      BY <2>1, <2>8 DEF InHand
    <3>2. n + Len(t) = 1 + sent'[Mover] /\ file'[Mover] = f /\ pc'[Mover] = "data"
      BY <2>1, <2>3, <2>5, <2>6, <3>1
    <3> QED
      BY <3>1, <3>2 DEF InHand
  <2>9. wire' = wire \o t /\ {} \in SUBSET File /\ todo' = todo \ {} /\ Len(t) >= 1
        /\ pc[Mover] # "done" /\ pc'[Mover] # "done"
    BY <2>2, <2>3, <2>4, <2>5, <2>6
  <2> QED
    BY <1>13, <2>3, <2>6, <2>7, <2>8, <2>9
<1>16. CASE SendEnd
  <2>1. PICK f, e, t : f = file[Mover] /\ e = <<Sym("end", f), Newline>> /\ t = e \o Delimiter
    OBVIOUS
  <2>2. /\ pc[Mover] \in {"data", "end"} /\ UNCHANGED <<todo, faults>> /\ f \in File
        /\ sent[Mover] = Size(f) /\ pc'[Mover] = "next" /\ wire' = wire \o t
    <3>1. pc[Mover] = "end" => Size(f) = 0 /\ sent[Mover] <= 0 /\ sent[Mover] \in Nat
      BY <1>1, <1>4, <2>1 DEF MInv
    <3>2. pc[Mover] = "end" => sent[Mover] = Size(f)
      BY <3>1
    <3>3. /\ pc[Mover] = "end" \/ (pc[Mover] = "data" /\ sent[Mover] = Size(f))
          /\ UNCHANGED <<todo, faults>> /\ wire' = wire \o t
          /\ pc' = [pc EXCEPT ![Mover] = "next"]
      BY <1>16, <2>1 DEF SendEnd, Fine
    <3>4. f \in File /\ pc'[Mover] = "next"
      BY <1>1, <2>1, <3>3
    <3> QED
      BY <3>2, <3>3, <3>4
  <2>3. t \in Seq(Proper) /\ Len(t) = 4 /\ \A i \in 1..4 : t[i].kind # "start"
    <3>1. /\ e \in Seq(Proper) /\ Len(e) = 2 /\ e[1] = Sym("end", f) /\ e[2] = Newline
          /\ Delimiter \in Seq(Proper) /\ Len(Delimiter) = 2
      BY <2>1, <2>2, Symbols
    <3>2. /\ t \in Seq(Proper) /\ Len(t) = Len(e) + Len(Delimiter)
          /\ \A i \in 1..(Len(e) + Len(Delimiter)) :
               t[i] = IF i <= Len(e) THEN e[i] ELSE Delimiter[i - Len(e)]
      <4>1. Delimiter \in Seq(Proper) /\ e \in Seq(Proper) /\ t = e \o Delimiter
        BY <2>1, <3>1
      <4> QED
        BY <4>1, ConcatProperties
    <3>3. Len(t) = 4 /\ \A i \in 1..4 : t[i] = IF i <= 2 THEN e[i] ELSE Delimiter[i - 2]
      BY <3>1, <3>2
    <3>4. t[1] = e[1] /\ t[2] = e[2] /\ t[3] = Delimiter[1] /\ t[4] = Delimiter[2]
      BY <3>3
    <3>5. \A i \in 1..4 : i = 1 \/ i = 2 \/ i = 3 \/ i = 4
      OBVIOUS
    <3>6. /\ e[1].kind = "end" /\ e[2].kind = "newline"
          /\ Delimiter[1].kind = "delim1" /\ Delimiter[2].kind = "delim2"
      BY <3>1, Symbols DEF Sym, Newline
    <3> QED
      BY <3>2, <3>3, <3>4, <3>5, <3>6
  <2>4. ASSUME NEW g \in File, NEW n \in Nat, InHand(g, n)
        PROVE  n + Len(t) = Len(Body(g)) /\ ~Sending'
    <3>1. g = f /\ n = 1 + Size(f)
      BY <2>1, <2>2, <2>4 DEF InHand
    <3>2. Len(Body(f)) = Size(f) + 5 /\ Size(f) \in Nat
      BY <2>2, BodyAt
    <3>3. n + Len(t) = Len(Body(f))
      BY <2>3, <3>1, <3>2
    <3> QED
      BY <2>2, <3>1, <3>3 DEF Sending
  <2>5. Sending /\ {} \in SUBSET File /\ todo' = todo \ {} /\ Len(t) >= 1
        /\ pc[Mover] # "done" /\ pc'[Mover] # "done"
    BY <2>2, <2>3 DEF Sending
  <2> QED
    BY <1>13, <2>2, <2>3, <2>4, <2>5
<1> QED
  BY <1>8, <1>9, <1>10, <1>11, <1>14, <1>15, <1>16 DEF MoverStep

LEMMA AInvInit == Init => AInv
<1> SUFFICES ASSUME Init, Calm PROVE AInv
  BY DEF AInv
<1>1. /\ Rest = <<>> /\ Len(Rest) = 0 /\ mode = None /\ buf = <<>> /\ disk = before
      /\ todo = named /\ named \subseteq File
  <2>1. named \subseteq File
    BY NameTInit DEF NameT
  <2> QED
    BY <2>1, EmptySeq, ConcatEmptySeq DEF Init, Rest, Calm
<1>2. pc[Mover] = "next"
  BY DEF Init, Calm, Sender
<1>3. \A f \in File : mode # f
  BY <1>1, TransferAssumption
<1>4. \A i \in 1..Len(Rest) : FALSE
  BY <1>1
<1>5. \A f \in File : Still(f)
  BY <1>1, <1>3, <1>4 DEF Still, Begins
<1>6. Joined
  BY <1>1, <1>2, <1>4 DEF Joined, Sending
<1>7. Quiet
  BY <1>1 DEF Quiet
<1> QED
  BY <1>1, <1>2, <1>5, <1>6, <1>7 DEF AInv, Accounted, Calm

LEMMA AInvInductive == TInv /\ NameT /\ MInv /\ AInv /\ [Next]_vars => AInv'
<1> SUFFICES ASSUME TInv, NameT, MInv, AInv, [Next]_vars PROVE AInv'
  OBVIOUS
<1>1. SendT
  BY DEF TInv
<1>2. CASE UNCHANGED vars
  <2>1. /\ UNCHANGED <<carrier, file, sent, pc, mode, disk, before, spoilt, todo, faults, buf, busy>>
        /\ Rest' = Rest /\ named' = named
    BY <1>2 DEF vars, sendVars, nodeVars, pastVars, Rest
  <2>2. Sending' = Sending /\ \A f, n : InHand(f, n)' = InHand(f, n)
    BY <2>1 DEF Sending, InHand
  <2>3. Quiet' = Quiet
    BY <2>1 DEF Quiet, HasDelimiter, DelimiterAt, Delimiter
  <2> QED
    BY <2>1, <2>2, <2>3, SameA DEF AInv
<1>3. CASE \/ \E u \in Uploader : UploadStep(u) \/ UploadBreaks(u)
           \/ Command \/ LinkWrites \/ LinkEnds \/ LinkReturns
  BY <1>1, <1>3, NoMove DEF AInv, Calm
<1> QED
  BY <1>2, <1>3, MoverA, ReaderA DEF Next

LEMMA MoveSettles ==
  ASSUME TInv, NameT, MInv, AInv, carrier = "move", Settled, spoilt = {}, Favourable
  PROVE  /\ mode = None /\ buf = <<>>
         /\ \A f \in named : (faults > 0 /\ disk[f] = before[f]) \/ Arrived(f)
<1>1. Calm /\ Moving /\ ~Lost
  <2>1. Calm
    BY DEF Favourable, Calm
  <2> QED
    BY <2>1, CalmMoves
<1>2. /\ todo = {} /\ Quiet /\ Joined /\ Accounted /\ pc[Mover] = "done"
  <2>1. pc[Mover] = "done" /\ ~busy
    BY DEF Settled, Sender
  <2> QED
    BY <1>1, <2>1 DEF AInv
<1>3. /\ buf \in Seq(Proper) /\ Len(buf) \in Nat /\ Len(Rest) = Len(buf)
      /\ mode \in File \cup {None}
  <2>1. NodeT /\ wire = <<>> /\ Len(<<>>) = 0
    BY DEF TInv, Settled
  <2>2. /\ buf \in Seq(Proper) /\ Len(buf) \in Nat /\ Len(Rest) = Len(buf) + Len(wire)
        /\ mode \in File \cup {None}
    BY <2>1, RestSeq DEF NodeT
  <2> QED
    BY <2>1, <2>2
<1>4. mode = None
  <2> SUFFICES ASSUME mode # None PROVE FALSE
    OBVIOUS
  <2>1. PICK g, d, b : g = mode /\ d = Len(disk[mode].data) /\ b = Len(buf)
    OBVIOUS
  <2>2. /\ g \in File /\ d \in Nat /\ d <= Size(g) + 2
        /\ \A n \in 1..Len(buf) : d + n >= Size(g) + 4 => \E l \in 1..(n - 1) : DelimiterAt(l)
    BY <1>1, <2>1, Written
  <2>3. Size(g) \in Nat /\ Len(Body(g)) = Size(g) + 5
    BY <2>2, BodyAt
  <2>4. Tracks(g, 0, 1 + d)
    BY <1>1, <2>1 DEF MInv
  <2>5. 1 + d + (b - 0) >= Size(g) + 5
    BY <1>1, <1>2, <1>3, <2>1, <2>3, <2>4 DEF Tracks, InHand
  <2>6. b \in Nat /\ b \in 1..Len(buf) /\ d + b >= Size(g) + 4
    <3>1. PICK z : z = Size(g)
      OBVIOUS
    <3>2. b \in Nat /\ d \in Nat /\ z \in Nat /\ d <= z + 2 /\ 1 + d + (b - 0) >= z + 5
      BY <1>3, <2>1, <2>2, <2>3, <2>5, <3>1
    <3>3. b \in 1..b /\ d + b >= z + 4
      BY <3>2
    <3> QED
      BY <2>1, <3>1, <3>2, <3>3
  <2>7. PICK l \in 1..(b - 1) : DelimiterAt(l)
    BY <2>2, <2>6
  <2>8. l \in 1..Len(buf)
    BY <1>3, <2>1, <2>6
  <2> QED
    BY <1>2, <2>7, <2>8 DEF Quiet, HasDelimiter
<1>5. Len(Rest) = 0
  <2> SUFFICES ASSUME Len(Rest) # 0 PROVE FALSE
    OBVIOUS
  <2>1. Len(Rest) = 1 /\ 1 \in 1..Len(Rest)
    BY <1>2, <1>3, <1>4 DEF Quiet
  <2>2. Rest[1].kind = "start"
    BY <1>2, <1>4 DEF Joined
  <2>3. 1 + 1 \in 1..Len(Rest)
    BY <1>1, <2>1, <2>2, StartAt
  <2> QED
    BY <2>1, <2>3
<1>6. \A f \in File : ~Begins(f) /\ mode # f
  BY <1>4, <1>5, TransferAssumption DEF Begins
<1>7. buf = <<>>
  BY <1>3, <1>5, EmptySeq
<1>8. ASSUME NEW f \in named PROVE (faults > 0 /\ disk[f] = before[f]) \/ Arrived(f)
  BY <1>2, <1>6 DEF Accounted, Still, NameT
<1> QED
  BY <1>4, <1>7, <1>8

-----------------------------------------------------------------------------
(* Sequences up to newlines. *)

LEMMA SpellsNothing == Spells(<<>>, <<>>)
<1> DEFINE at == [i \in 1..0 |-> i]
<1>1. at \in [1..Len(<<>>) -> 1..Len(<<>>)]
  OBVIOUS
<1> QED
  BY <1>1 DEF Spells

LEMMA SpellsNewline ==
  ASSUME NEW S, NEW s \in Seq(S), Newline \in S, NEW T, NEW t \in Seq(T), Spells(s, t)
  PROVE  Spells(Append(s, Newline), t)
<1>1. PICK at \in [1..Len(t) -> 1..Len(s)] :
        /\ \A i, j \in 1..Len(t) : i < j => at[i] < at[j]
        /\ \A i \in 1..Len(t) : s[at[i]] = t[i]
        /\ \A k \in 1..Len(s) : s[k] = Newline \/ \E i \in 1..Len(t) : at[i] = k
  BY DEF Spells
<1>2. PICK r : r = Append(s, Newline)
  OBVIOUS
<1>3. /\ Len(s) \in Nat /\ Len(r) = Len(s) + 1 /\ r[Len(s) + 1] = Newline
      /\ \A k \in 1..Len(s) : r[k] = s[k]
  BY <1>2, AppendProperties, LenProperties
<1>4. at \in [1..Len(t) -> 1..Len(r)]
  <2>1. \A k \in 1..Len(s) : k \in 1..Len(r)
    BY <1>3
  <2> QED
    BY <1>1, <2>1
<1>5. \A k \in 1..Len(r) : k \in 1..Len(s) \/ k = Len(s) + 1
  BY <1>3
<1>6. \A k \in 1..Len(r) : r[k] = Newline \/ \E i \in 1..Len(t) : at[i] = k
  BY <1>1, <1>3, <1>5
<1>7. \A i \in 1..Len(t) : r[at[i]] = t[i]
  BY <1>1, <1>3
<1> QED
  BY <1>1, <1>2, <1>4, <1>6, <1>7 DEF Spells

LEMMA SpellsNext ==
  ASSUME NEW S, NEW s \in Seq(S), NEW y \in S, NEW t \in Seq(S), Spells(s, t)
  PROVE  Spells(Append(s, y), Append(t, y))
<1>1. PICK at \in [1..Len(t) -> 1..Len(s)] :
        /\ \A i, j \in 1..Len(t) : i < j => at[i] < at[j]
        /\ \A i \in 1..Len(t) : s[at[i]] = t[i]
        /\ \A k \in 1..Len(s) : s[k] = Newline \/ \E i \in 1..Len(t) : at[i] = k
  BY DEF Spells
<1>2. PICK r, v, a, b : r = Append(s, y) /\ v = Append(t, y) /\ a = Len(s) /\ b = Len(t)
  OBVIOUS
<1>3. /\ a \in Nat /\ Len(r) = a + 1 /\ r[a + 1] = y /\ \A k \in 1..a : r[k] = s[k]
      /\ b \in Nat /\ Len(v) = b + 1 /\ v[b + 1] = y /\ \A i \in 1..b : v[i] = t[i]
  BY <1>2, AppendProperties, LenProperties
<1>4. /\ \A k \in 1..a : k \in 1..(a + 1) /\ k < a + 1 /\ k # a + 1
      /\ \A i \in 1..b : i \in 1..(b + 1) /\ i # b + 1
      /\ \A k \in 1..(a + 1) : k \in 1..a \/ k = a + 1
      /\ \A i \in 1..(b + 1) : i \in 1..b \/ i = b + 1
      /\ b + 1 \in 1..(b + 1) /\ a + 1 \in 1..(a + 1)
      /\ \A i \in 1..b : ~(b + 1 < i)
      /\ ~(b + 1 < b + 1)
  BY <1>3
<1>5. PICK ax : ax = [i \in 1..(b + 1) |-> IF i = b + 1 THEN a + 1 ELSE at[i]]
  OBVIOUS
<1>6. /\ ax[b + 1] = a + 1 /\ \A i \in 1..b : ax[i] = at[i] /\ at[i] \in 1..a
      /\ ax \in [1..(b + 1) -> 1..(a + 1)]
  BY <1>1, <1>2, <1>4, <1>5
<1>7. \A i, j \in 1..(b + 1) : i < j => ax[i] < ax[j]
  <2> SUFFICES ASSUME NEW i \in 1..(b + 1), NEW j \in 1..(b + 1), i < j PROVE ax[i] < ax[j]
    OBVIOUS
  <2>1. i \in 1..b
    BY <1>3
  <2>2. CASE j \in 1..b
    BY <1>1, <1>2, <1>6, <2>1, <2>2
  <2>3. CASE j = b + 1
    BY <1>4, <1>6, <2>1, <2>3
  <2> QED
    BY <1>4, <2>2, <2>3
<1>8. \A i \in 1..(b + 1) : r[ax[i]] = v[i]
  BY <1>1, <1>2, <1>3, <1>4, <1>6
<1>9. ASSUME NEW k \in 1..(a + 1) PROVE r[k] = Newline \/ \E i \in 1..(b + 1) : ax[i] = k
  <2>1. CASE k = a + 1
    BY <1>4, <1>6, <2>1
  <2>2. CASE k \in 1..a
    <3>1. s[k] = Newline \/ \E i \in 1..b : at[i] = k
      BY <1>1, <1>2, <2>2
    <3>2. r[k] = s[k]
      BY <1>3, <2>2
    <3> QED
      BY <1>4, <1>6, <3>1, <3>2
  <2> QED
    BY <1>4, <2>1, <2>2
<1>10. /\ ax \in [1..Len(v) -> 1..Len(r)]
       /\ \A i, j \in 1..Len(v) : i < j => ax[i] < ax[j]
       /\ \A i \in 1..Len(v) : r[ax[i]] = v[i]
       /\ \A k \in 1..Len(r) : r[k] = Newline \/ \E i \in 1..Len(v) : ax[i] = k
  BY <1>3, <1>6, <1>7, <1>8, <1>9
<1>11. Spells(r, v)
  BY <1>10 DEF Spells
<1> QED
  BY <1>2, <1>11

-----------------------------------------------------------------------------
(* Where a stretch of the stream leads. *)

LEMMA LeadsNowhere ==
  ASSUME NEW s \in Stand
  PROVE  Leads(s, <<>>, s)
<1>1. PICK W : W = [i \in 0..0 |-> s]
  OBVIOUS
<1>2. W \in [0..Len(<<>>) -> Stand] /\ W[0] = s /\ W[Len(<<>>)] = s
  BY <1>1
<1> QED
  BY <1>2 DEF Leads, Walk

LEMMA LeadsStep ==
  ASSUME NEW s \in Stand, NEW t \in Stand, NEW y, Passes(s, y, t)
  PROVE  Leads(s, <<y>>, t)
<1>1. PICK W : W = [i \in 0..1 |-> IF i = 0 THEN s ELSE t]
  OBVIOUS
<1>2. W \in [0..1 -> Stand] /\ W[0] = s /\ W[1] = t
  BY <1>1
<1>3. PICK m : m = <<y>>
  OBVIOUS
<1>4. Len(m) = 1 /\ m[1] = y
  BY <1>3
<1>5. \A i \in 1..1 : Passes(W[i - 1], m[i], W[i])
  BY <1>2, <1>4
<1>6. Walk(W, m)
  BY <1>2, <1>4, <1>5 DEF Walk
<1>7. Leads(s, m, t)
  BY <1>2, <1>4, <1>6 DEF Leads
<1> QED
  BY <1>3, <1>7

LEMMA LeadsJoin ==
  ASSUME NEW S, NEW m \in Seq(S), NEW n \in Seq(S), NEW s, NEW t, NEW r,
         Leads(s, m, t), Leads(t, n, r)
  PROVE  Leads(s, m \o n, r)
<1>1. PICK V : Walk(V, m) /\ V[0] = s /\ V[Len(m)] = t
  BY DEF Leads
<1>2. PICK W : Walk(W, n) /\ W[0] = t /\ W[Len(n)] = r
  BY DEF Leads
<1>3. PICK a, b, l : a = Len(m) /\ b = Len(n) /\ l = m \o n
  OBVIOUS
<1>4. /\ a \in Nat /\ b \in Nat /\ Len(l) = a + b
      /\ \A i \in 1..(a + b) : l[i] = IF i <= a THEN m[i] ELSE n[i - a]
  BY <1>3, ConcatProperties, LenProperties
<1>5. /\ V \in [0..a -> Stand] /\ V[0] = s /\ V[a] = t /\ \A i \in 1..a : Passes(V[i - 1], m[i], V[i])
      /\ W \in [0..b -> Stand] /\ W[0] = t /\ W[b] = r /\ \A i \in 1..b : Passes(W[i - 1], n[i], W[i])
  BY <1>1, <1>2, <1>3 DEF Walk
<1>6. PICK X : X = [i \in 0..(a + b) |-> IF i <= a THEN V[i] ELSE W[i - a]]
  OBVIOUS
<1>7. /\ \A i \in 0..a : i \in 0..(a + b) /\ i <= a
      /\ \A i \in 0..(a + b) : i \in 0..a \/ (~(i <= a) /\ i - a \in 1..b)
      /\ \A i \in 1..b : a + i \in 0..(a + b) /\ ~(a + i <= a) /\ (a + i) - a = i
      /\ 1..b \subseteq 0..b
  BY <1>4
<1>8. /\ \A i \in 0..a : X[i] = V[i]
      /\ \A i \in 1..b : X[a + i] = W[i]
  BY <1>6, <1>7
<1>9. X \in [0..(a + b) -> Stand]
  BY <1>5, <1>6, <1>7
<1>10. ASSUME NEW i \in 1..(a + b) PROVE Passes(X[i - 1], l[i], X[i])
  <2>1. CASE i <= a
    <3>1. i \in 1..a /\ i \in 0..a /\ i - 1 \in 0..a
      BY <1>4, <2>1
    <3> QED
      BY <1>4, <1>5, <1>8, <2>1, <3>1
  <2>2. CASE ~(i <= a)
    <3>1. PICK j : j = i - a
      OBVIOUS
    <3>2. j \in 1..b /\ i = a + j /\ (j = 1 => i - 1 = a) /\ (j # 1 => j - 1 \in 1..b /\ i - 1 = a + (j - 1))
      BY <1>4, <2>2, <3>1
    <3>3. X[i] = W[j] /\ l[i] = n[j]
      BY <1>4, <1>8, <2>2, <3>1, <3>2
    <3>4. X[i - 1] = W[j - 1]
      <4>1. a \in 0..a /\ 1 - 1 = 0
        BY <1>4
      <4> QED
        BY <1>5, <1>8, <3>2, <4>1
    <3> QED
      BY <1>5, <3>2, <3>3, <3>4
  <2> QED
    BY <2>1, <2>2
<1>11. Walk(X, l)
  BY <1>4, <1>9, <1>10 DEF Walk
<1>12. X[0] = s /\ X[a + b] = r
  <2>1. 0 \in 0..a /\ a \in 0..a /\ (b # 0 => b \in 1..b) /\ (b = 0 => a + b = a)
    BY <1>4
  <2> QED
    BY <1>5, <1>8, <2>1
<1> QED
  BY <1>3, <1>4, <1>11, <1>12 DEF Leads

LEMMA LeadsOn ==
  ASSUME NEW S, NEW m \in Seq(S), NEW W, Walk(W, m), NEW n \in 0..Len(m)
  PROVE  Leads(W[n], SubSeq(m, n + 1, Len(m)), W[Len(m)])
<1>1. PICK a, l : a = Len(m) /\ l = SubSeq(m, n + 1, Len(m))
  OBVIOUS
<1>2. a \in Nat /\ n \in Nat /\ n <= a /\ Len(l) = a - n /\ \A i \in 1..(a - n) : l[i] = m[n + i]
  BY <1>1, Cuts
<1>3. W \in [0..a -> Stand] /\ \A i \in 1..a : Passes(W[i - 1], m[i], W[i])
  BY <1>1 DEF Walk
<1>4. PICK X : X = [i \in 0..(a - n) |-> W[n + i]]
  OBVIOUS
<1>5. X \in [0..(a - n) -> Stand]
  BY <1>2, <1>3, <1>4
<1>6. ASSUME NEW i \in 1..(a - n) PROVE Passes(X[i - 1], l[i], X[i])
  <2>1. i - 1 \in 0..(a - n) /\ i \in 0..(a - n) /\ n + i \in 1..a /\ n + (i - 1) = (n + i) - 1
    BY <1>2
  <2> QED
    BY <1>2, <1>3, <1>4, <2>1
<1>7. X[0] = W[n] /\ X[a - n] = W[a]
  <2>1. 0 \in 0..(a - n) /\ a - n \in 0..(a - n) /\ n + 0 = n /\ n + (a - n) = a
    BY <1>2
  <2> QED
    BY <1>4, <2>1
<1>8. Walk(X, l)
  BY <1>2, <1>5, <1>6 DEF Walk
<1> QED
  BY <1>1, <1>2, <1>7, <1>8 DEF Leads

LEMMA Kinds ==
  /\ Newline.kind = "newline" /\ Delimiter[1].kind = "delim1" /\ Delimiter[2].kind = "delim2"
  /\ Newline.of = None /\ Newline \in Proper /\ Delimiter[1] \in Proper /\ Delimiter[2] \in Proper
  /\ \A k, v : Sym(k, v).kind = k /\ Sym(k, v).of = v
<1>1. \A k, v : Sym(k, v).kind = k /\ Sym(k, v).of = v
  BY DEF Sym
<1>2. Delimiter[1] \in Proper /\ Delimiter[2] \in Proper
  <2>1. Delimiter \in Seq(Proper) /\ 1 \in 1..Len(Delimiter) /\ 2 \in 1..Len(Delimiter)
    BY Symbols
  <2> QED
    BY <2>1, ElementOfSeq
<1> QED
  BY <1>1, <1>2, Symbols DEF Newline

\* A message with the newline the link writes after it.
LEMMA LeadsMessage ==
  ASSUME NEW s \in Stand, NEW r \in Stand, NEW t \in Stand, NEW y \in Proper,
         Passes(s, y, r), Passes(r, Newline, t)
  PROVE  Leads(s, <<y>> \o <<Newline>>, t)
<1>1. Leads(s, <<y>>, r) /\ Leads(r, <<Newline>>, t)
  BY LeadsStep
<1>2. <<y>> \in Seq(Proper) /\ <<Newline>> \in Seq(Proper)
  BY Symbols
<1> QED
  BY <1>1, <1>2, LeadsJoin

LEMMA LeadsDelimiter ==
  ASSUME NEW s \in Stand, NEW t \in Stand, t.at = "line",
         \/ s.at = "line" /\ t.of = s.of /\ t.n = s.n /\ t.done = s.done
         \/ Ends(s) /\ t.of = s.of /\ t.n = s.n /\ t.done = s.done \cup {s.of}
  PROVE  Leads(s, Delimiter \o <<Newline>>, t)
<1>1. /\ Delimiter = <<Delimiter[1], Delimiter[2]>> /\ Delimiter[1] \in Proper /\ Delimiter[2] \in Proper
      /\ Newline \in Proper /\ Delimiter \in Seq(Proper)
  BY Symbols, Kinds DEF Delimiter
<1>2. s.of \in File \cup {None} /\ s.n \in Nat /\ s.done \in SUBSET File
      /\ "half" \in Station /\ "said" \in Station /\ "closing" \in Station
  BY DEF Stand, Station
<1>3. \A a \in Station :
         \E r \in Stand : r.at = a /\ r.of = s.of /\ r.n = s.n /\ r.done = s.done
  <2> SUFFICES ASSUME NEW a \in Station
               PROVE  \E r \in Stand : r.at = a /\ r.of = s.of /\ r.n = s.n /\ r.done = s.done
    OBVIOUS
  <2>1. PICK r : r = [s EXCEPT !.at = a]
    OBVIOUS
  <2>2. r \in Stand /\ r.at = a /\ r.of = s.of /\ r.n = s.n /\ r.done = s.done
    BY <2>1 DEF Stand
  <2> QED
    BY <2>2
<1>4. \E r, v \in Stand : /\ Passes(s, Delimiter[1], r) /\ Passes(r, Delimiter[2], v)
                          /\ Passes(v, Newline, t)
  <2>1. CASE s.at = "line" /\ t.of = s.of /\ t.n = s.n /\ t.done = s.done
    <3>1. PICK r \in Stand : r.at = "half" /\ r.of = s.of /\ r.n = s.n /\ r.done = s.done
      BY <1>2, <1>3
    <3>2. PICK v \in Stand : v.at = "said" /\ v.of = s.of /\ v.n = s.n /\ v.done = s.done
      BY <1>2, <1>3
    <3> QED
      BY <2>1, <3>1, <3>2 DEF Passes, Turns
  <2>2. CASE Ends(s) /\ t.of = s.of /\ t.n = s.n /\ t.done = s.done \cup {s.of}
    <3>1. PICK r \in Stand : r.at = "closing" /\ r.of = s.of /\ r.n = s.n /\ r.done = s.done
      BY <1>2, <1>3
    <3>2. Passes(s, Delimiter[1], r)
      BY <2>2, <3>1 DEF Passes, Turns
    <3>3. Passes(r, Delimiter[2], t)
      BY <2>2, <3>1 DEF Passes
    <3>4. Passes(t, Newline, t)
      BY DEF Passes, Turns
    <3> QED
      BY <3>2, <3>3, <3>4
  <2> QED
    BY <2>1, <2>2
<1>5. PICK r, v \in Stand : /\ Passes(s, Delimiter[1], r) /\ Passes(r, Delimiter[2], v)
                            /\ Passes(v, Newline, t)
  BY <1>4
<1>6. Leads(s, <<Delimiter[1]>>, r) /\ Leads(r, <<Delimiter[2]>>, v) /\ Leads(v, <<Newline>>, t)
  BY <1>5, LeadsStep
<1>7. PICK x, y, z : x = Delimiter[1] /\ y = Delimiter[2] /\ z = Delimiter
  OBVIOUS
<1>8. <<x>> \o <<y>> = z
  <2>1. z = <<x, y>>
    BY <1>1, <1>7
  <2>2. <<x>> \o <<y>> = <<x, y>>
    <3>1. PICK c, d, e : c = <<x>> /\ d = <<y>> /\ e = <<x, y>>
      OBVIOUS
    <3>2. /\ c \in Seq(Proper) /\ d \in Seq(Proper) /\ e \in Seq(Proper)
          /\ Len(c) = 1 /\ Len(d) = 1 /\ Len(e) = 2 /\ c[1] = x /\ d[1] = y /\ e[1] = x /\ e[2] = y
      BY <1>1, <1>7, <3>1
    <3>3. /\ c \o d \in Seq(Proper) /\ Len(c \o d) = 2
          /\ \A i \in 1..2 : (c \o d)[i] = IF i <= 1 THEN c[i] ELSE d[i - 1]
      BY <3>2, ConcatProperties
    <3>4. \A i \in 1..2 : (c \o d)[i] = e[i]
      <4>1. \A i \in 1..2 : (i = 1 /\ i <= 1) \/ (i = 2 /\ ~(i <= 1) /\ i - 1 = 1)
        OBVIOUS
      <4> QED
        BY <3>2, <3>3, <4>1
    <3> QED
      BY <3>1, <3>2, <3>3, <3>4, SeqEqual
  <2> QED
    BY <2>1, <2>2
<1>9. <<x>> \in Seq(Proper) /\ <<y>> \in Seq(Proper) /\ <<Newline>> \in Seq(Proper)
  BY <1>1, <1>7
<1>10. Leads(s, z, v)
  BY <1>6, <1>7, <1>8, <1>9, LeadsJoin
<1> QED
  BY <1>1, <1>6, <1>7, <1>9, <1>10, LeadsJoin

\* A chunk of a file.
LEMMA LeadsChunk ==
  ASSUME NEW s \in Stand, NEW t \in Stand, s.at = "data", t.at = "data", s.of \in File,
         Innocent(s.of),
         NEW n \in Nat \ {0}, s.n + n <= Size(s.of),
         t.of = s.of, t.n = s.n + n, t.done = s.done
  PROVE  Leads(s, Data(SubSeq(Content[s.of], s.n + 1, s.n + n)) \o <<Newline>>, t)
<1>1. PICK f, k, D, m : f = s.of /\ k = s.n /\ D = s.done
                        /\ m = Data(SubSeq(Content[s.of], s.n + 1, s.n + n))
  OBVIOUS
<1>2. f \in File /\ Innocent(f) /\ k \in Nat /\ D \in SUBSET File /\ Size(f) \in Nat /\ k + n <= Size(f)
  BY <1>1, SizeNat DEF Stand
<1>3. m \in Seq(Proper) /\ Len(m) = n /\ \A l \in 1..n : m[l] = Sym("byte", Content[f][k + l])
  <2>1. PICK j : j = k + n
    OBVIOUS
  <2>2. j \in Nat /\ k <= j /\ j - k = n /\ j <= Size(f)
    BY <1>2, <2>1
  <2>3. m = Data(SubSeq(Content[f], k + 1, j))
    BY <1>1, <2>1
  <2>4. m \in Seq(Proper) /\ Len(m) = j - k
        /\ \A l \in 1..Len(m) : m[l] = Sym("byte", Content[f][k + l])
    <3>1. f \in File /\ k \in Nat /\ j \in Nat /\ k <= j /\ j <= Size(f) /\ Innocent(f)
      BY <1>2, <2>2
    <3>2. PICK s2 : s2 = Data(SubSeq(Content[f], k + 1, j))
      OBVIOUS
    <3>3. /\ s2 \in Seq(Proper) /\ Len(s2) = j - k
          /\ \A l \in 1..Len(s2) : s2[l] = Sym("byte", Content[f][k + l])
      BY <3>1, <3>2, Chunks
    <3> QED
      BY <2>3, <3>2, <3>3
  <2> QED
    BY <2>2, <2>4
<1>4. PICK W : W = [i \in 0..n |-> [at |-> "data", of |-> f, n |-> k + i, done |-> D]]
  OBVIOUS
<1>5. \A i \in 0..n : W[i].at = "data" /\ W[i].of = f /\ W[i].n = k + i /\ W[i].done = D /\ W[i] \in Stand
  BY <1>2, <1>4 DEF Stand
<1>6. W \in [0..n -> Stand]
  BY <1>4, <1>5
<1>7. ASSUME NEW i \in 1..n PROVE Passes(W[i - 1], m[i], W[i])
  <2>1. i - 1 \in 0..n /\ i \in 0..n /\ k + (i - 1) < Size(f) /\ (k + (i - 1)) + 1 = k + i
    BY <1>2
  <2> QED
    BY <1>3, <1>5, <2>1 DEF Passes
<1>8. Leads(W[0], m, W[n])
  BY <1>3, <1>6, <1>7 DEF Leads, Walk
<1>9. W[0] = s /\ W[n] = t
  <2>1. s = [at |-> "data", of |-> f, n |-> k, done |-> D]
        /\ t = [at |-> "data", of |-> f, n |-> k + n, done |-> D]
    BY <1>1 DEF Stand
  <2>2. 0 \in 0..n /\ n \in 0..n /\ k + 0 = k
    BY <1>2
  <2> QED
    BY <1>4, <2>1, <2>2
<1>10. Passes(t, Newline, t)
  <2>1. t.n > 0
    BY <1>1, <1>2
  <2> QED
    BY <2>1 DEF Passes, Turns
<1>11. Leads(t, <<Newline>>, t)
  BY <1>10, LeadsStep
<1>12. <<Newline>> \in Seq(Proper)
  BY Symbols
<1>13. Leads(s, m \o <<Newline>>, t)
  BY <1>3, <1>8, <1>9, <1>11, <1>12, LeadsJoin
<1> QED
  BY <1>1, <1>13

-----------------------------------------------------------------------------
(* The reader of an upload. *)

LEMMA LineLeads ==
  ASSUME NodeT, HasLine, NEW W, Walk(W, Rest), W[0].at = "line"
  PROVE  /\ Line = <<>> \/ Line = Delimiter \/ \E k \in JsonKinds : JsonLine(k)
         /\ \/ /\ W[LineEnd].at = "line" /\ W[LineEnd].done = W[0].done /\ ~JsonLine("start")
               /\ JsonLine("clean") => Line[1].of \in W[0].done
            \/ /\ JsonLine("start") /\ Line[1].of \in Uploads
               /\ W[LineEnd].at = "data" /\ W[LineEnd].of = Line[1].of /\ W[LineEnd].n = 0
               /\ W[LineEnd].done = W[0].done \ {Line[1].of}
<1>1. PICK e, n : e = LineEnd /\ n = Len(buf)
  OBVIOUS
<1>2. /\ n \in Nat /\ e \in 1..n /\ buf[e] = Newline /\ \A j \in 1..(e - 1) : buf[j] # Newline
      /\ \A i \in 1..n : i \in 1..Len(Rest) /\ Rest[i] = buf[i]
  BY <1>1, FirstLine, RestSeq DEF NodeT
<1>3. \A i \in 1..n : Passes(W[i - 1], buf[i], W[i])
  BY <1>2 DEF Walk
<1>4. /\ Line \in Seq(Proper) /\ Len(Line) = e - 1 /\ \A i \in 1..(e - 1) : Line[i] = buf[i]
      /\ \A k : JsonLine(k) => e = 2 /\ Line[1] = buf[1] /\ buf[1].kind = k
  BY <1>1, OneLine
<1>5. 1 \in 1..n /\ Passes(W[0], buf[1], W[1])
  <2>1. 1 \in 1..n /\ 1 - 1 = 0
    BY <1>2
  <2> QED
    BY <1>3, <2>1
<1>6. CASE e = 1
  <2>1. Line = <<>>
    BY <1>4, <1>6, EmptySeq
  <2>2. W[1].at = "line" /\ W[1].done = W[0].done
    BY <1>2, <1>5, <1>6, Kinds DEF Passes, Turns, Ends
  <2>3. \A k : ~JsonLine(k)
    BY <1>4, <1>6
  <2> QED
    BY <1>1, <1>6, <2>1, <2>2, <2>3
<1>7. CASE e # 1
  <2>1. e >= 2 /\ 2 \in 1..n /\ 1 \in 1..(e - 1)
    BY <1>2, <1>7
  <2>2. buf[1] # Newline /\ Line[1] = buf[1]
    BY <1>2, <1>4, <2>1
  <2>3. Passes(W[1], buf[2], W[2])
    <3>1. 2 - 1 = 1
      OBVIOUS
    <3> QED
      BY <1>3, <2>1, <3>1
  <2>4. e = 2 \/ (e >= 3 /\ 2 \in 1..(e - 1) /\ buf[2] # Newline)
    BY <1>2, <2>1
  <2>5. CASE W[1].at \notin {"half", "start"}
    <3>1. /\ W[1].at = "said" /\ W[1].done = W[0].done /\ buf[1].kind \in {"end", "command", "clean"}
          /\ buf[1].kind = "clean" => buf[1].of \in W[0].done
      BY <1>5, <2>2, <2>5, Kinds DEF Passes, Turns, Ends
    <3>2. buf[2] = Newline /\ W[2].at = "line" /\ W[2].done = W[1].done
      BY <2>3, <3>1, Kinds DEF Passes, Turns, Ends
    <3>3. e = 2
      BY <2>4, <3>2
    <3>4. JsonLine(buf[1].kind) /\ buf[1].kind \in JsonKinds /\ ~JsonLine("start")
      BY <1>4, <2>2, <3>1, <3>3 DEF JsonLine, JsonKinds
    <3>5. JsonLine("clean") => Line[1].of \in W[0].done
      BY <1>4, <3>1
    <3> QED
      BY <1>1, <3>1, <3>2, <3>3, <3>4, <3>5
  <2>6. CASE W[1].at = "start"
    <3>1. /\ buf[1].kind = "start" /\ buf[1].of \in Uploads /\ W[1].of = buf[1].of /\ W[1].n = 0
          /\ W[1].done = W[0].done \ {buf[1].of}
      BY <1>5, <2>6, Kinds DEF Passes, Turns, Ends
    <3>2. buf[2] = Newline /\ W[2].at = "data" /\ W[2].of = W[1].of /\ W[2].n = W[1].n
          /\ W[2].done = W[1].done
      BY <2>3, <2>6, Kinds DEF Passes, Turns, Ends
    <3>3. e = 2
      BY <2>4, <3>2
    <3>4. JsonLine("start") /\ "start" \in JsonKinds
      BY <1>4, <2>2, <3>1, <3>3 DEF JsonLine, JsonKinds
    <3> QED
      BY <1>1, <2>2, <3>1, <3>2, <3>3, <3>4
  <2>7. CASE W[1].at = "half"
    <3>1. buf[1] = Delimiter[1] /\ W[1].done = W[0].done
      BY <1>5, <2>7, Kinds DEF Passes, Turns, Ends
    <3>2. buf[2] = Delimiter[2] /\ W[2].at = "said" /\ W[2].done = W[1].done
      BY <2>3, <2>7, Kinds DEF Passes, Turns, Ends
    <3>3. e >= 3 /\ 3 \in 1..n
      BY <1>2, <2>4, <3>2, Kinds
    <3>4. Passes(W[2], buf[3], W[3])
      <4>1. 3 - 1 = 2
        OBVIOUS
      <4> QED
        BY <1>3, <3>3, <4>1
    <3>5. buf[3] = Newline /\ W[3].at = "line" /\ W[3].done = W[2].done
      BY <3>2, <3>4, Kinds DEF Passes, Turns, Ends
    <3>6. e = 3
      <4>1. e = 3 \/ 3 \in 1..(e - 1)
        BY <1>2, <3>3
      <4> QED
        BY <1>2, <3>5, <4>1
    <3>7. Line = Delimiter
      <4>1. Len(Line) = 2 /\ Line[1] = buf[1] /\ Line[2] = buf[2]
        BY <1>4, <3>6
      <4>2. Delimiter \in Seq(Proper) /\ Len(Delimiter) = 2
        BY Symbols
      <4>3. \A i \in 1..2 : i = 1 \/ i = 2
        OBVIOUS
      <4>4. \A i \in 1..2 : Line[i] = Delimiter[i]
        BY <3>1, <3>2, <4>1, <4>3
      <4> QED
        BY <1>4, <4>1, <4>2, <4>4, SeqEqual
    <3>8. \A k : ~JsonLine(k)
      BY <1>4, <3>6
    <3> QED
      BY <1>1, <3>1, <3>2, <3>5, <3>6, <3>7, <3>8
  <2> QED
    BY <2>5, <2>6, <2>7
<1> QED
  BY <1>6, <1>7

\* A buffer without a whole line does not end at one.
LEMMA NoLineLeads ==
  ASSUME NodeT, ~HasLine, wire = <<>>, NEW W, Walk(W, Rest), W[0].at = "line",
         W[Len(Rest)].at = "line"
  PROVE  buf = <<>>
<1>1. PICK n : n = Len(buf)
  OBVIOUS
<1>2. n \in Nat /\ Len(Rest) = n /\ \A i \in 1..n : Rest[i] = buf[i] /\ buf[i] # Newline
  BY <1>1, RestSeq DEF HasLine
<1>3. \A i \in 1..n : Passes(W[i - 1], buf[i], W[i])
  BY <1>2 DEF Walk
<1>4. SUFFICES ASSUME n # 0 PROVE FALSE
  BY <1>1, EmptySeq DEF NodeT
<1>5. 1 \in 1..n /\ Passes(W[0], buf[1], W[1])
  <2>1. 1 \in 1..n /\ 1 - 1 = 0
    BY <1>2, <1>4
  <2> QED
    BY <1>3, <2>1
<1>6. W[1].at \in {"half", "said", "start"}
  BY <1>2, <1>5, Kinds DEF Passes, Turns, Ends
<1>7. 2 \in 1..n /\ Passes(W[1], buf[2], W[2])
  <2>1. n # 1
    BY <1>2, <1>6
  <2>2. 2 \in 1..n /\ 2 - 1 = 1
    BY <1>2, <1>4, <2>1
  <2> QED
    BY <1>3, <2>2
<1>8. W[2].at = "said"
  BY <1>2, <1>6, <1>7, Kinds DEF Passes, Turns, Ends
<1>9. 3 \in 1..n /\ Passes(W[2], buf[3], W[3])
  <2>1. n # 2
    BY <1>2, <1>8
  <2>2. 3 \in 1..n /\ 3 - 1 = 2
    BY <1>2, <1>4, <1>7, <2>1
  <2> QED
    BY <1>3, <2>2
<1>10. buf[3] = Newline
  BY <1>8, <1>9, Kinds DEF Passes, Turns, Ends
<1> QED
  BY <1>2, <1>9, <1>10

\* From a file only its delimiter leads.
LEMMA FileLeads ==
  ASSUME NEW m, NEW W, Walk(W, m), Len(m) \in Nat, InFile(W[0]), NEW n \in Nat, n < Len(m),
         \A j \in 1..n : ~(m[j] = Delimiter[1] /\ m[j + 1] = Delimiter[2])
  PROVE  \A j \in 0..n : InFile(W[j])
<1> DEFINE T == {j \in 0..n : ~InFile(W[j])}
<1>1. SUFFICES ASSUME T # {} PROVE FALSE
  OBVIOUS
<1>2. T \in SUBSET Nat
  OBVIOUS
<1>3. PICK j \in T : \A i \in T : j <= i
  BY <1>1, <1>2, Least
<1>4. j \in 1..n /\ j \in 1..Len(m) /\ j + 1 \in 1..Len(m) /\ j - 1 \in 0..n /\ ~(j <= j - 1)
      /\ (j + 1) - 1 = j
  BY <1>3
<1>5. InFile(W[j - 1]) /\ ~InFile(W[j])
  BY <1>3, <1>4
<1>6. Passes(W[j - 1], m[j], W[j]) /\ Passes(W[j], m[j + 1], W[j + 1])
  BY <1>4 DEF Walk
<1>7. W[j].at = "closing" /\ m[j] = Delimiter[1]
  BY <1>5, <1>6, Kinds DEF InFile, Passes, Turns, Ends
<1>8. m[j + 1] = Delimiter[2]
  BY <1>6, <1>7, Kinds DEF Passes, Turns, Ends
<1> QED
  BY <1>4, <1>7, <1>8

\* What an open file holds, as the reader goes on in it.
LEMMA HoldsNext ==
  ASSUME NEW s \in Seq(Proper), NEW v \in Stand, NEW w \in Stand, NEW y \in Proper,
         v.of \in File, InFile(w), Passes(v, y, w), Holds(s, v)
  PROVE  Holds(Append(s, y), w) /\ w.of = v.of /\ w.done = v.done
<1>1. PICK f, k, r : f = v.of /\ k = v.n /\ r = Append(s, y)
  OBVIOUS
<1>2. /\ f \in File /\ k \in Nat /\ Size(f) \in Nat /\ Content[f] \in Seq(Byte)
      /\ Len(Content[f]) = Size(f)
  BY <1>1, SizeNat, TransferAssumption DEF Stand, Size
<1>3. /\ r \in Seq(Proper) /\ Len(s) \in Nat /\ Len(r) = Len(s) + 1 /\ r[Len(s) + 1] = y
      /\ r # <<>> /\ \A i \in 1..Len(s) : r[i] = s[i]
  BY <1>1, AppendProperties, LenProperties
<1>4. \/ w.at = "data" /\ v.at = "data" /\ y = Newline /\ k > 0 /\ w.n = k
      \/ w.at = "over" /\ v.at = "data" /\ Size(f) = 0 /\ k = 0 /\ y = Sym("end", f)
      \/ w.at = "over" /\ v.at = "over" /\ y = Newline
      \/ w.at = "data" /\ v.at = "data" /\ k < Size(f) /\ y = Sym("byte", Content[f][k + 1]) /\ w.n = k + 1
  <2>1. v.at \in {"data", "over"} /\ w.at \in {"data", "over"}
    BY DEF Holds, InFile
  <2> QED
    BY <1>1, <2>1, Kinds DEF Passes, Turns, Ends
<1>5. w.of = f /\ w.done = v.done
  <2>1. v.at \in {"data", "over"} /\ w.at \in {"data", "over"}
    BY DEF Holds, InFile
  <2> QED
    BY <1>1, <2>1, Kinds DEF Passes, Turns, Ends
<1> DEFINE D(n) == Data(SubSeq(Content[f], 1, n))
<1>13. Innocent(f)
  BY <1>1, <1>2 DEF Holds, Innocent
<1>6. ASSUME NEW n \in 0..Size(f)
      PROVE  D(n) \in Seq(Proper) /\ Len(D(n)) = n
             /\ \A i \in 1..n : D(n)[i] = Sym("byte", Content[f][i])
  <2>1. 0 \in Nat /\ 0 + 1 = 1 /\ n \in Nat /\ 0 <= n /\ n <= Size(f) /\ n - 0 = n
    BY <1>2
  <2>2. \A i \in 1..n : 0 + i = i
    OBVIOUS
  <2>3. /\ Data(SubSeq(Content[f], 0 + 1, n)) \in Seq(Proper)
        /\ Len(Data(SubSeq(Content[f], 0 + 1, n))) = n - 0
        /\ \A i \in 1..Len(Data(SubSeq(Content[f], 0 + 1, n))) :
             Data(SubSeq(Content[f], 0 + 1, n))[i] = Sym("byte", Content[f][0 + i])
    BY <1>2, <1>13, <2>1, Chunks
  <2> QED
    BY <2>1, <2>2, <2>3
<1>7. CASE w.at = "data" /\ v.at = "data" /\ y = Newline /\ k > 0 /\ w.n = k
  <2>1. k <= Size(f) /\ Spells(s, D(k))
    BY <1>1, <1>7 DEF Holds
  <2>2. D(k) \in Seq(Proper)
    BY <1>2, <1>6, <2>1
  <2> HIDE DEF D
  <2>3. Spells(r, D(k))
    BY <1>1, <1>7, <2>1, <2>2, SpellsNewline
  <2> QED
    BY <1>1, <1>5, <1>7, <2>1, <2>3 DEF Holds, D
<1>8. CASE w.at = "data" /\ v.at = "data" /\ k < Size(f) /\ y = Sym("byte", Content[f][k + 1]) /\ w.n = k + 1
  <2>1. Spells(s, D(k))
    BY <1>1, <1>8 DEF Holds
  <2>2. k \in 0..Size(f) /\ k + 1 \in 0..Size(f) /\ k + 1 # 0 /\ k + 1 <= Size(f)
    BY <1>2, <1>8
  <2>3. /\ D(k) \in Seq(Proper) /\ Len(D(k)) = k
        /\ \A i \in 1..k : D(k)[i] = Sym("byte", Content[f][i])
        /\ D(k + 1) \in Seq(Proper) /\ Len(D(k + 1)) = k + 1
        /\ \A i \in 1..(k + 1) : D(k + 1)[i] = Sym("byte", Content[f][i])
    BY <1>6, <2>2
  <2> HIDE DEF D
  <2>4. PICK d, e : d = D(k) /\ e = Append(D(k), y)
    OBVIOUS
  <2>5. /\ e \in Seq(Proper) /\ Len(e) = k + 1 /\ e[k + 1] = y /\ \A i \in 1..k : e[i] = d[i]
    BY <2>3, <2>4, AppendProperties
  <2>6. \A i \in 1..(k + 1) : e[i] = D(k + 1)[i]
    <3>1. \A i \in 1..(k + 1) : i \in 1..k \/ i = k + 1
      BY <1>2
    <3> QED
      BY <1>8, <2>3, <2>4, <2>5, <3>1
  <2>7. e = D(k + 1)
    BY <2>3, <2>5, <2>6, SeqEqual
  <2>8. Spells(r, e)
    BY <1>1, <2>1, <2>3, <2>4, SpellsNext
  <2> QED
    BY <1>1, <1>5, <1>8, <2>2, <2>7, <2>8 DEF Holds, D
<1>9. CASE w.at = "over" /\ v.at = "data" /\ Size(f) = 0 /\ k = 0 /\ y = Sym("end", f)
  <2>1. s = <<>>
    BY <1>1, <1>9 DEF Holds
  <2>2. Len(r) = 1 /\ r[1] = y
    BY <1>3, <2>1
  <2>3. \A i \in 2..Len(r) : r[i] = Newline
    BY <2>2
  <2> QED
    BY <1>1, <1>3, <1>5, <1>9, <2>2, <2>3 DEF Holds
<1>10. CASE w.at = "over" /\ v.at = "over" /\ y = Newline
  <2>1. /\ Size(f) = 0 /\ s # <<>> /\ s[1] = Sym("end", f) /\ \A i \in 2..Len(s) : s[i] = Newline
    BY <1>1, <1>10 DEF Holds
  <2>2. 1 \in 1..Len(s) /\ \A i \in 2..Len(r) : i \in 2..Len(s) \/ i = Len(s) + 1
    <3>1. Len(s) # 0
      BY <2>1, EmptySeq
    <3> QED
      BY <1>3, <3>1
  <2>3. r[1] = Sym("end", f)
    BY <1>3, <2>1, <2>2
  <2>4. \A i \in 2..Len(s) : i \in 1..Len(s)
    BY <1>3
  <2>5. \A i \in 2..Len(r) : r[i] = Newline
    BY <1>3, <1>10, <2>1, <2>2, <2>4
  <2> QED
    BY <1>1, <1>3, <1>5, <1>10, <2>1, <2>3, <2>5 DEF Holds
<1> QED
  BY <1>1, <1>4, <1>5, <1>7, <1>8, <1>9, <1>10

LEMMA HoldsOn ==
  ASSUME NEW s \in Seq(Proper), NEW m \in Seq(Proper), NEW W, Walk(W, m), NEW n \in 0..Len(m),
         \A j \in 0..n : InFile(W[j]), W[0].of \in File, Holds(s, W[0])
  PROVE  /\ W[n].of = W[0].of /\ W[n].done = W[0].done
         /\ Holds(s \o SubSeq(m, 1, n), W[n])
<1> DEFINE Good(j) == /\ W[j].of = W[0].of /\ W[j].done = W[0].done
                      /\ Holds(s \o SubSeq(m, 1, j), W[j])
           T == {j \in 0..n : ~Good(j)}
<1>1. n \in Nat /\ Len(m) \in Nat /\ n <= Len(m) /\ n \in 0..n
  BY LenProperties
<1>2. SUFFICES ASSUME T # {} PROVE FALSE
  BY <1>1
<1>3. T \in SUBSET Nat
  OBVIOUS
<1>4. PICK j \in T : \A i \in T : j <= i
  BY <1>2, <1>3, Least
<1>5. Good(0)
  <2>1. SubSeq(m, 1, 0) = <<>>
    BY SubSeqEmpty
  <2>2. s \o <<>> = s
    BY ConcatEmptySeq
  <2> QED
    BY <2>1, <2>2
<1>6. j \in 0..n /\ ~Good(j)
  BY <1>4
<1> HIDE DEF Good
<1>7. j # 0
  BY <1>5, <1>6
<1>8. j \in 1..n /\ j \in 1..Len(m) /\ j - 1 \in 0..n /\ j - 1 \in 0..Len(m) /\ ~(j <= j - 1)
      /\ j \in 0..Len(m)
  BY <1>1, <1>6, <1>7
<1>9. Good(j - 1)
  BY <1>4, <1>8
<1>10. PICK r, y : r = SubSeq(m, 1, j - 1) /\ y = m[j]
  OBVIOUS
<1>11. r \in Seq(Proper) /\ y \in Proper /\ <<y>> \in Seq(Proper) /\ s \o r \in Seq(Proper)
  <2>1. r \in Seq(Proper)
    BY <1>8, <1>10, Cuts
  <2>2. y \in Proper
    BY <1>8, <1>10, ElementOfSeq
  <2> QED
    BY <2>1, <2>2, ConcatProperties
<1>12. s \o SubSeq(m, 1, j) = Append(s \o r, y)
  <2>1. SubSeq(m, 1, j) = r \o <<y>>
    <3>1. 1 \in 1..Len(m) /\ j \in 1..Len(m)
      BY <1>8
    <3> QED
      BY <1>10, <3>1, SubSeqRecursiveSecond
  <2>2. s \o (r \o <<y>>) = (s \o r) \o <<y>>
    BY <1>11, Assoc
  <2> QED
    BY <1>11, <2>1, <2>2, AppendIsConcat
<1>13. /\ W[j - 1] \in Stand /\ W[j] \in Stand /\ Passes(W[j - 1], y, W[j]) /\ InFile(W[j])
  BY <1>8, <1>10 DEF Walk
<1>14. W[j - 1].of = W[0].of /\ W[j - 1].done = W[0].done /\ Holds(s \o r, W[j - 1])
  BY <1>9, <1>10 DEF Good
<1>15. Holds(Append(s \o r, y), W[j]) /\ W[j].of = W[0].of /\ W[j].done = W[0].done
  <2>1. PICK v, w, q : v = W[j - 1] /\ w = W[j] /\ q = s \o r
    OBVIOUS
  <2>2. v \in Stand /\ w \in Stand /\ v.of \in File /\ InFile(w) /\ Passes(v, y, w) /\ Holds(q, v)
        /\ q \in Seq(Proper) /\ y \in Proper
    BY <1>11, <1>13, <1>14, <2>1
  <2>3. Holds(Append(q, y), w) /\ w.of = v.of /\ w.done = v.done
    BY <2>2, HoldsNext
  <2> QED
    BY <1>14, <2>1, <2>3
<1>16. Good(j)
  BY <1>12, <1>15 DEF Good
<1> QED
  BY <1>6, <1>16

\* A file that holds its content and newlines has no marker to clean; one
\* that was empty is cut at the marker.
LEMMA CleanedNone ==
  ASSUME NEW f \in File, Innocent(f), NEW g \in File, NEW s \in Seq(Proper), NEW n \in 0..Size(f),
         Spells(s, Data(SubSeq(Content[f], 1, n)))
  PROVE  Cleaned(g, s) = s
<1>1. PICK d : d = Data(SubSeq(Content[f], 1, n))
  OBVIOUS
<1>2. Len(d) = n /\ \A i \in 1..n : d[i].kind = "byte"
  <2>1. 0 \in Nat /\ 0 + 1 = 1 /\ n \in Nat /\ 0 <= n /\ n <= Size(f) /\ n - 0 = n
    BY SizeNat
  <2>2. d = Data(SubSeq(Content[f], 0 + 1, n))
    BY <1>1, <2>1
  <2>3. Len(d) = n - 0 /\ \A i \in 1..Len(d) : d[i] = Sym("byte", Content[f][0 + i])
    BY <2>1, <2>2, Chunks
  <2> QED
    BY <2>1, <2>3, Kinds
<1>3. \A k \in 1..Len(s) : s[k].kind \notin JsonKinds
  BY <1>1, <1>2, Kinds DEF Spells, JsonKinds
<1> QED
  BY <1>3 DEF Cleaned

LEMMA HoldsCleaned ==
  ASSUME NEW w \in Stand, w.of \in File, Ends(w), NEW s \in Seq(Proper), Holds(s, w)
  PROVE  Innocent(w.of) /\ Spells(Cleaned(w.of, s), Data(Content[w.of]))
<1>1. PICK f : f = w.of
  OBVIOUS
<1>2. f \in File /\ Size(f) = Len(Content[f]) /\ Content[f] \in Seq(Byte) /\ Size(f) \in Nat
  BY <1>1, SizeNat, TransferAssumption DEF Size
<1>3. CASE w.at = "data"
  <2>1. w.n = Size(f) /\ Spells(s, Data(SubSeq(Content[f], 1, Size(f))))
    BY <1>1, <1>3 DEF Ends, Holds
  <2>2. SubSeq(Content[f], 1, Size(f)) = Content[f]
    BY <1>2, SubSeqFull
  <2>3. Size(f) \in 0..Size(f)
    BY <1>2
  <2>4. Innocent(f)
    BY <1>1, <1>3 DEF Holds
  <2>5. Cleaned(f, s) = s
    BY <1>2, <2>1, <2>3, <2>4, CleanedNone
  <2> QED
    BY <1>1, <2>1, <2>2, <2>4, <2>5
<1>4. CASE w.at # "data"
  <2>1. /\ Size(f) = 0 /\ s # <<>> /\ s[1] = Sym("end", f) /\ \A i \in 2..Len(s) : s[i] = Newline
    BY <1>1, <1>4 DEF Holds
  <2>2. Len(s) \in Nat /\ 1 \in 1..Len(s)
    BY <2>1, EmptySeq, LenProperties
  <2>3. s[1].kind \in JsonKinds /\ \A i \in 2..Len(s) : s[i].kind \notin JsonKinds
    BY <2>1, Kinds DEF JsonKinds
  <2>4. LastJson(s) \in 1..Len(s) /\ s[LastJson(s)].kind \in JsonKinds
    BY <2>2, <2>3, LastMessage
  <2>5. LastJson(s) = 1
    <3>1. LastJson(s) = 1 \/ LastJson(s) \in 2..Len(s)
      BY <2>2, <2>4
    <3> QED
      BY <2>3, <2>4, <3>1
  <2>6. SubSeq(s, 1, LastJson(s) - 1) = <<>>
    <3>1. LastJson(s) - 1 = 0
      BY <2>5
    <3> QED
      BY <3>1, SubSeqEmpty
  <2>7. Cleaned(f, s) = <<>>
    <3>1. \E i \in 1..Len(s) : s[i].kind \in JsonKinds
      BY <2>2, <2>3
    <3>2. s[LastJson(s)] = Sym("end", f)
      BY <2>1, <2>5
    <3>3. PICK cut : cut = SubSeq(s, 1, LastJson(s) - 1)
      OBVIOUS
    <3>4. Cleaned(f, s) = IF \E i \in 1..Len(cut) : cut[i].of \in Raw THEN Append(cut, Junk) ELSE cut
      BY <3>1, <3>2, <3>3 DEF Cleaned
    <3>5. cut = <<>> /\ Len(cut) = 0
      BY <2>6, <3>3, EmptySeq
    <3> QED
      BY <3>4, <3>5
  <2>8. Data(Content[f]) = <<>>
    <3>1. Len(Content[f]) = 0
      BY <1>2, <2>1
    <3>2. Data(Content[f]) = [i \in 1..0 |-> ReadAs(Content[f][i])]
      BY <3>1 DEF Data
    <3> QED
      BY <3>2
  <2>9. Innocent(f)
    BY <2>1 DEF Innocent
  <2> QED
    BY <1>1, <2>7, <2>8, <2>9, SpellsNothing
<1> QED
  BY <1>3, <1>4

LEMMA SpellsWhole ==
  ASSUME NEW f \in File, Innocent(f), NEW g \in File, NEW s \in Seq(Proper),
         Spells(s, Data(Content[f]))
  PROVE  Cleaned(g, s) = s
<1>1. SubSeq(Content[f], 1, Size(f)) = Content[f] /\ Size(f) \in 0..Size(f)
  BY SizeNat, SubSeqFull, TransferAssumption DEF Size
<1> QED
  BY <1>1, CleanedNone

LEMMA HoldsNothing ==
  ASSUME NEW w \in Stand, w.at = "data", w.of \in File, Innocent(w.of), w.n = 0
  PROVE  Holds(<<>>, w)
<1>1. SubSeq(Content[w.of], 1, w.n) = <<>>
  BY SubSeqEmpty
<1>2. Data(<<>>) = <<>>
  <2>1. Len(<<>>) = 0
    OBVIOUS
  <2>2. Data(<<>>) = [i \in 1..0 |-> ReadAs(<<>>[i])]
    BY <2>1 DEF Data
  <2> QED
    BY <2>2
<1>3. w.n <= Size(w.of)
  BY SizeNat
<1> QED
  BY <1>1, <1>2, <1>3, SpellsNothing DEF Holds

\* What is uploaded undisturbed is harmless, and the link stays up.
LEMMA Harmless ==
  ASSUME NameT, Undisturbed
  PROVE  ~closed /\ \A f \in Uploads : Innocent(f)
BY DEF NameT, Undisturbed, Favourable

\* A step of the reader that leaves it where p says.
LEMMA KeepU ==
  ASSUME UInv, Undisturbed, NodeKeeps, \A f \in Uploads : disk'[f].is = "file",
         ~busy' => (IF mode = None THEN ~HasLine ELSE ~HasDelimiter)',
         NEW p, NEW Q, AtReader(p)', Whither(Q), Leads(p, Rest', Q[0])
  PROVE  UInv'
<1>1. UNCHANGED <<chan, file, pc, sent, field>>
  BY DEF NodeKeeps, sendVars
<1>2. \A u \in Uploader : Uploading(u)' = Uploading(u)
  BY <1>1 DEF Uploading
<1>3. \A q : AtSender(q)' = AtSender(q)
  BY <1>1, <1>2 DEF AtSender
<1>4. Whither(Q)'
  BY <1>1, <1>3 DEF Whither
<1>5. \A u \in Uploader :
        /\ pc'[u] \in {"seal", "clean", "done"} => field'[u] = Len(FilesOf[u])
        /\ pc'[u] \in {"data", "end"} => file'[u] = FilesOf[u][field'[u] + 1]
  BY <1>1 DEF UInv
<1> QED
  BY <1>4, <1>5 DEF UInv

LEMMA ReaderU ==
  ASSUME TInv, NameT, UInv, Read \/ Process
  PROVE  UInv'
<1>1. /\ NodeT /\ buf \in Seq(Proper) /\ Len(buf) \in Nat /\ None \notin File
      /\ mode \in File \cup {None} /\ disk \in [File -> Entry] /\ DOMAIN disk = File
      /\ Rest \in Seq(Proper) /\ Len(Rest) \in Nat /\ Len(Rest) = Len(buf) + Len(wire)
      /\ Len(wire) \in Nat
      /\ \A i \in 1..Len(buf) : i \in 1..Len(Rest) /\ Rest[i] = buf[i]
  <2>1. NodeT
    BY DEF TInv
  <2> QED
    BY <2>1, RestSeq, TransferAssumption DEF NodeT
<1>2. NodeKeeps /\ spoilt \subseteq spoilt' /\ UNCHANGED <<carrier, before, named>>
  BY DEF Read, Process, Overflow, SkipLine, StartFile, CleanFile, HandleCommand, Stops,
         FinishFile, WriteFile, AwaitsMore, NodeKeeps
<1>3. SUFFICES ASSUME Undisturbed' PROVE UInv'
  BY DEF UInv
<1>4. Undisturbed /\ spoilt' = {}
  BY <1>2, <1>3 DEF Undisturbed, Favourable
<1>5. PICK p, Q : AtReader(p) /\ Whither(Q) /\ Leads(p, Rest, Q[0])
  BY <1>4 DEF UInv
<1>6. /\ \A f \in Uploads : disk[f].is = "file" /\ f \in File
      /\ ~busy => IF mode = None THEN ~HasLine ELSE ~HasDelimiter
  BY <1>4, UploadFiles DEF UInv
<1>7. PICK W : Walk(W, Rest) /\ W[0] = p /\ W[Len(Rest)] = Q[0]
  BY <1>5 DEF Leads
<1>8. ASSUME NEW n \in 0..Len(buf), buf' = SubSeq(buf, n + 1, Len(buf)), UNCHANGED wire, busy' = TRUE,
             \A f \in Uploads : disk'[f].is = "file", AtReader(W[n])'
      PROVE  UInv'
  <2>1. Rest' = SubSeq(Rest, n + 1, Len(Rest)) /\ n \in 0..Len(Rest)
    BY <1>1, <1>8, RestDrains
  <2>2. Leads(W[n], Rest', Q[0])
    BY <1>1, <1>7, <2>1, LeadsOn
  <2> QED
    BY <1>2, <1>4, <1>5, <1>8, <2>2, KeepU
<1>9. ASSUME Rest' = Rest, UNCHANGED <<mode, disk>>,
             ~busy' => (IF mode = None THEN ~HasLine ELSE ~HasDelimiter)'
      PROVE  UInv'
  <2>1. AtReader(p)'
    BY <1>5, <1>9 DEF AtReader
  <2> QED
    BY <1>2, <1>4, <1>5, <1>6, <1>9, <2>1, KeepU
<1>10. CASE Read
  <2>1. Rest' = Rest
    BY <1>1, <1>10, RestRead
  <2>2. UNCHANGED <<mode, disk>> /\ busy' = TRUE
    BY <1>10 DEF Read
  <2> QED
    BY <1>9, <2>1, <2>2
<1>11. CASE Overflow
  BY <1>4, <1>11 DEF Overflow
<1>12. /\ p \in Stand /\ \A f \in p.done : Innocent(f) /\ Spells(disk[f].data, Data(Content[f]))
       /\ mode = None => p.at = "line"
       /\ mode # None => p.of = mode /\ mode \notin p.done /\ Holds(disk[mode].data, p) /\ mode \in File
       /\ p.done \subseteq File
  BY <1>1, <1>5 DEF AtReader, Stand
<1>13. ASSUME mode = None, HasLine
       PROVE  /\ LineEnd \in 0..Len(buf) /\ W[LineEnd] \in Stand
              /\ Line = <<>> \/ Line = Delimiter \/ \E k \in JsonKinds : JsonLine(k)
              /\ \/ /\ W[LineEnd].at = "line" /\ W[LineEnd].done = p.done /\ ~JsonLine("start")
                    /\ JsonLine("clean") => Line[1].of \in p.done
                 \/ /\ JsonLine("start") /\ Line[1].of \in Uploads
                    /\ W[LineEnd].at = "data" /\ W[LineEnd].of = Line[1].of /\ W[LineEnd].n = 0
                    /\ W[LineEnd].done = p.done \ {Line[1].of}
  <2>1. LineEnd \in 1..Len(buf)
    BY <1>1, <1>13, OneLine
  <2>2. LineEnd \in 0..Len(buf) /\ LineEnd \in 0..Len(Rest)
    BY <1>1, <2>1
  <2>3. W[LineEnd] \in Stand
    BY <1>7, <2>2 DEF Walk
  <2>4. W[0].at = "line" /\ W[0] = p
    BY <1>7, <1>12, <1>13
  <2> QED
    BY <1>1, <1>7, <1>13, <2>2, <2>3, <2>4, LineLeads
<1>14. CASE Stops
  <2>1. mode = None /\ UNCHANGED <<buf, wire, mode, disk>>
    BY <1>14 DEF Stops, Goes
  <2>2. ~HasLine
    <3>1. SUFFICES ASSUME HasLine PROVE FALSE
      OBVIOUS
    <3>2. Line # <<>> /\ Line # Delimiter /\ \A k \in JsonKinds : ~JsonLine(k)
      BY <1>14, <3>1 DEF Stops
    <3> QED
      BY <1>13, <2>1, <3>1, <3>2
  <2>3. Rest' = Rest /\ ~HasLine'
    BY <2>1, <2>2 DEF Rest, HasLine
  <2> QED
    BY <1>9, <2>1, <2>3
<1>15. CASE AwaitsMore
  <2>1. mode # None /\ ~HasDelimiter /\ UNCHANGED <<buf, wire, mode, disk>>
    BY <1>15 DEF AwaitsMore, Goes
  <2>2. Rest' = Rest /\ ~HasDelimiter'
    BY <2>1 DEF Rest, HasDelimiter, DelimiterAt, Delimiter
  <2> QED
    BY <1>9, <2>1, <2>2
<1>16. CASE SkipLine \/ HandleCommand
  <2>1. /\ mode = None /\ HasLine /\ ~JsonLine("start") /\ busy' = TRUE
        /\ buf' = SubSeq(buf, LineEnd + 1, Len(buf)) /\ UNCHANGED <<wire, mode, disk>>
    <3>1. /\ mode = None /\ HasLine /\ busy' = TRUE
          /\ buf' = SubSeq(buf, LineEnd + 1, Len(buf)) /\ UNCHANGED <<wire, mode, disk>>
      BY <1>16 DEF SkipLine, HandleCommand, Goes, JsonLine, Drained
    <3>2. Line = <<>> \/ Line = Delimiter \/ JsonLine("end") \/ JsonLine("command")
      BY <1>16 DEF SkipLine, HandleCommand
    <3>3. Len(<<>>) # 1 /\ Len(Delimiter) # 1
      BY Symbols
    <3>4. ~JsonLine("start")
      BY <3>2, <3>3 DEF JsonLine
    <3> QED
      BY <3>1, <3>4
  <2>2. PICK e, w : e = LineEnd /\ w = W[LineEnd]
    OBVIOUS
  <2>3. e \in 0..Len(buf) /\ w \in Stand /\ w.at = "line" /\ w.done = p.done
    BY <1>13, <2>1, <2>2
  <2>4. AtReader(w)'
    BY <1>12, <2>1, <2>3 DEF AtReader
  <2> QED
    BY <1>6, <1>8, <2>1, <2>2, <2>3, <2>4
<1>17. CASE CleanFile
  <2>1. PICK g : g = Line[1].of
    OBVIOUS
  <2>2. /\ mode = None /\ HasLine /\ JsonLine("clean") /\ ~JsonLine("start") /\ busy' = TRUE
        /\ buf' = SubSeq(buf, LineEnd + 1, Len(buf)) /\ UNCHANGED <<wire, mode>>
        /\ disk' = IF disk[g].is = "file" THEN [disk EXCEPT ![g].data = Cleaned(g, disk[g].data)] ELSE disk
    BY <1>17, <2>1 DEF CleanFile, Goes, JsonLine, Drained
  <2>3. PICK e, w : e = LineEnd /\ w = W[LineEnd]
    OBVIOUS
  <2>4. e \in 0..Len(buf) /\ w \in Stand /\ w.at = "line" /\ w.done = p.done /\ g \in p.done
    BY <1>13, <2>1, <2>2, <2>3
  <2>5. Cleaned(g, disk[g].data) = disk[g].data
    <3>1. /\ g \in File /\ disk[g].data \in Seq(Proper) /\ Innocent(g)
          /\ Spells(disk[g].data, Data(Content[g]))
      BY <1>1, <1>12, <2>4 DEF Entry
    <3> QED
      BY <3>1, SpellsWhole
  <2>6. \A f \in File : disk'[f].is = disk[f].is /\ disk'[f].data = disk[f].data
    BY <1>1, <2>2, <2>5 DEF Entry
  <2>7. AtReader(w)'
    BY <1>12, <2>2, <2>4, <2>6 DEF AtReader
  <2>8. \A f \in Uploads : disk'[f].is = "file"
    BY <1>6, <2>6
  <2> QED
    BY <1>8, <2>2, <2>3, <2>4, <2>7, <2>8
<1>18. CASE StartFile
  <2>1. PICK g : g = Line[1].of
    OBVIOUS
  <2>2. /\ mode = None /\ HasLine /\ JsonLine("start") /\ busy' = TRUE
        /\ buf' = SubSeq(buf, LineEnd + 1, Len(buf)) /\ UNCHANGED wire
        /\ disk[g].is = "file" => disk' = [disk EXCEPT ![g].data = <<>>] /\ mode' = g
    BY <1>18, <2>1 DEF StartFile, Goes, JsonLine, Drained
  <2>3. PICK e, w : e = LineEnd /\ w = W[LineEnd]
    OBVIOUS
  <2>4. /\ e \in 0..Len(buf) /\ w \in Stand /\ g \in Uploads
        /\ w.at = "data" /\ w.of = g /\ w.n = 0 /\ w.done = p.done \ {g}
    BY <1>13, <2>1, <2>2, <2>3
  <2>5. g \in File /\ disk[g].is = "file"
    BY <1>6, <2>4
  <2>6. /\ mode' = g /\ disk' = [disk EXCEPT ![g].data = <<>>]
        /\ disk'[g].data = <<>> /\ disk'[g].is = disk[g].is
        /\ \A f \in File \ {g} : disk'[f] = disk[f]
    BY <1>1, <2>2, <2>5 DEF Entry
  <2>7. Holds(<<>>, w)
    BY <1>4, <2>4, <2>5, HoldsNothing, Harmless
  <2>8. AtReader(w)'
    <3>1. \A f \in w.done : Innocent(f) /\ Spells(disk'[f].data, Data(Content[f]))
      BY <1>12, <2>4, <2>6
    <3>2. mode' # None /\ w.of = mode' /\ mode' \notin w.done /\ Holds(disk'[mode'].data, w)
      BY <1>1, <2>4, <2>5, <2>6, <2>7
    <3> QED
      BY <2>4, <3>1, <3>2 DEF AtReader
  <2>9. \A f \in Uploads : disk'[f].is = "file"
    BY <1>6, <2>5, <2>6
  <2> QED
    BY <1>8, <2>2, <2>3, <2>4, <2>8, <2>9
<1>19. ASSUME mode # None, NEW n \in 0..(Len(buf) - 1), \A j \in 1..n : ~DelimiterAt(j)
       PROVE  LET s == disk[mode].data \o SubSeq(buf, 1, n)
              IN  /\ s \in Seq(Proper) /\ Holds(s, W[n]) /\ W[n] \in Stand /\ InFile(W[n])
                  /\ W[n].of = mode /\ W[n].done = p.done
  <2>1. PICK f, s : f = mode /\ s = disk[mode].data
    OBVIOUS
  <2>2. f \in File /\ p.of = f /\ s \in Seq(Proper) /\ Holds(s, p)
    BY <1>1, <1>12, <1>19, <2>1 DEF Entry
  <2>3. n \in Nat /\ n < Len(buf) /\ n < Len(Rest) /\ n \in 0..Len(Rest) /\ n \in 0..Len(buf)
    BY <1>1
  <2>4. \A j \in 1..n : ~(Rest[j] = Delimiter[1] /\ Rest[j + 1] = Delimiter[2])
    <3> SUFFICES ASSUME NEW j \in 1..n PROVE ~(Rest[j] = Delimiter[1] /\ Rest[j + 1] = Delimiter[2])
      OBVIOUS
    <3>1. j \in 1..Len(buf) /\ j < Len(buf)
      BY <1>1, <2>3
    <3>2. j + 1 \in 1..Len(buf) /\ ~(buf[j] = Delimiter[1] /\ buf[j + 1] = Delimiter[2])
      BY <1>1, <1>19, <3>1, MarkAt DEF DelimiterAt
    <3> QED
      BY <1>1, <3>1, <3>2
  <2>5. InFile(W[0]) /\ W[0] = p
    BY <1>7, <2>2 DEF Holds, InFile
  <2>6. \A j \in 0..n : InFile(W[j])
    BY <1>1, <1>7, <2>3, <2>4, <2>5, FileLeads
  <2>7. W[n].of = W[0].of /\ W[n].done = W[0].done /\ Holds(s \o SubSeq(Rest, 1, n), W[n])
    BY <1>1, <1>7, <2>2, <2>3, <2>5, <2>6, HoldsOn
  <2>8. SubSeq(Rest, 1, n) = SubSeq(buf, 1, n)
    <3>1. PICK a, b : a = SubSeq(Rest, 1, n) /\ b = SubSeq(buf, 1, n)
      OBVIOUS
    <3>2. a \in Seq(Proper) /\ Len(a) = n /\ \A i \in 1..n : a[i] = Rest[i]
      BY <1>1, <2>3, <3>1, Cuts
    <3>3. b \in Seq(Proper) /\ Len(b) = n /\ \A i \in 1..n : b[i] = buf[i]
      BY <1>1, <2>3, <3>1, Cuts
    <3>4. \A i \in 1..n : i \in 1..Len(buf)
      BY <1>1
    <3>5. \A i \in 1..n : a[i] = b[i]
      BY <1>1, <3>2, <3>3, <3>4
    <3> QED
      BY <3>1, <3>2, <3>3, <3>5, SeqEqual
  <2>9. s \o SubSeq(buf, 1, n) \in Seq(Proper)
    <3>1. SubSeq(buf, 1, n) \in Seq(Proper)
      BY <1>1, <2>3, Cuts
    <3> QED
      BY <2>2, <3>1, ConcatProperties
  <2>10. W[n] \in Stand /\ InFile(W[n])
    <3>1. n \in 0..n
      BY <2>3
    <3> QED
      BY <1>7, <2>3, <2>6, <3>1 DEF Walk
  <2> QED
    BY <2>1, <2>2, <2>5, <2>7, <2>8, <2>9, <2>10
<1>20. CASE FinishFile
  <2>1. PICK d, f, s : d = FirstDelimiter /\ f = mode
                       /\ s = disk[mode].data \o SubSeq(buf, 1, FirstDelimiter - 1)
    OBVIOUS
  <2>2. /\ mode # None /\ HasDelimiter /\ busy' = TRUE /\ UNCHANGED wire /\ mode' = None
        /\ disk' = [disk EXCEPT ![f].data = Cleaned(f, s)]
        /\ buf' = SubSeq(buf, d + 2, Len(buf))
    BY <1>20, <2>1 DEF FinishFile, Goes
  <2>3. /\ d \in 1..Len(buf) /\ d < Len(buf) /\ d + 1 \in 1..Len(buf)
        /\ buf[d] = Delimiter[1] /\ buf[d + 1] = Delimiter[2] /\ \A j \in 1..(d - 1) : ~DelimiterAt(j)
    <3>1. d \in 1..Len(buf) /\ DelimiterAt(d) /\ \A j \in 1..(d - 1) : ~DelimiterAt(j)
      BY <1>1, <2>1, <2>2, FirstMark
    <3> QED
      BY <1>1, <3>1, MarkAt DEF DelimiterAt
  <2>4. d - 1 \in 0..(Len(buf) - 1) /\ d + 1 \in 0..Len(buf) /\ (d + 1) - 1 = d /\ (d + 1) + 1 = d + 2
    BY <1>1, <2>3
  <2>5. PICK v, w, x : v = W[d - 1] /\ w = W[d] /\ x = W[d + 1]
    OBVIOUS
  <2>6. s \in Seq(Proper) /\ Holds(s, v) /\ v \in Stand /\ InFile(v) /\ v.of = f /\ v.done = p.done
    BY <1>19, <2>1, <2>2, <2>3, <2>4, <2>5
  <2>7. /\ Passes(v, Delimiter[1], w) /\ Passes(w, Delimiter[2], x) /\ w \in Stand /\ x \in Stand
    <3>1. /\ d \in 1..Len(Rest) /\ d + 1 \in 1..Len(Rest) /\ Rest[d] = Delimiter[1]
          /\ Rest[d + 1] = Delimiter[2] /\ d \in 0..Len(Rest) /\ d + 1 \in 0..Len(Rest)
      BY <1>1, <2>3
    <3> QED
      BY <1>7, <2>4, <2>5, <3>1 DEF Walk
  <2>8. Ends(v) /\ w.at = "closing" /\ w.of = f /\ w.done = p.done
    BY <2>6, <2>7, Kinds DEF InFile, Passes, Turns, Ends
  <2>9. x.at = "line" /\ x.done = p.done \cup {f}
    BY <2>7, <2>8, Kinds DEF Passes, Turns, Ends
  <2>10. f \in File /\ f \notin p.done
    BY <1>12, <2>1, <2>2
  <2>11. Innocent(f) /\ Spells(Cleaned(f, s), Data(Content[f]))
    BY <2>6, <2>8, <2>10, HoldsCleaned
  <2>12. /\ disk'[f].data = Cleaned(f, s) /\ disk'[f].is = disk[f].is
         /\ \A g \in File \ {f} : disk'[g] = disk[g]
    BY <1>1, <2>2, <2>10 DEF Entry
  <2>13. AtReader(x)'
    <3>1. \A g \in x.done : Innocent(g) /\ Spells(disk'[g].data, Data(Content[g]))
      BY <1>12, <2>9, <2>10, <2>11, <2>12
    <3> QED
      BY <2>2, <2>7, <2>9, <3>1 DEF AtReader
  <2>14. \A g \in Uploads : disk'[g].is = "file"
    BY <1>6, <2>12
  <2> QED
    BY <1>8, <2>2, <2>4, <2>5, <2>13, <2>14
<1>21. CASE WriteFile
  <2>1. PICK n, f, s : n = Len(buf) - Keep /\ f = mode
                       /\ s = disk[mode].data \o SubSeq(buf, 1, Len(buf) - Keep)
    OBVIOUS
  <2>2. /\ mode # None /\ ~HasDelimiter /\ busy' = TRUE /\ UNCHANGED <<wire, mode>> /\ Len(buf) > Keep
        /\ disk' = [disk EXCEPT ![f].data = s] /\ buf' = SubSeq(buf, n + 1, Len(buf))
    BY <1>21, <2>1 DEF WriteFile, Goes
  <2>3. n \in 0..(Len(buf) - 1) /\ n \in 0..Len(buf) /\ \A j \in 1..n : j \in 1..Len(buf)
    <3>1. Keep = 3
      BY Symbols DEF Keep
    <3> QED
      BY <1>1, <2>1, <2>2, <3>1
  <2>4. \A j \in 1..n : ~DelimiterAt(j)
    BY <2>2, <2>3 DEF HasDelimiter
  <2>5. PICK w : w = W[n]
    OBVIOUS
  <2>6. Holds(s, w) /\ w \in Stand /\ w.of = f /\ w.done = p.done
    BY <1>19, <2>1, <2>2, <2>3, <2>4, <2>5
  <2>7. f \in File /\ f \notin p.done
    BY <1>12, <2>1, <2>2
  <2>8. /\ disk'[f].data = s /\ disk'[f].is = disk[f].is
        /\ \A g \in File \ {f} : disk'[g] = disk[g]
    BY <1>1, <2>2, <2>7 DEF Entry
  <2>9. AtReader(w)'
    <3>1. \A g \in w.done : Innocent(g) /\ Spells(disk'[g].data, Data(Content[g]))
      BY <1>12, <2>6, <2>7, <2>8
    <3>2. mode' # None /\ w.of = mode' /\ mode' \notin w.done /\ Holds(disk'[mode'].data, w)
      BY <2>1, <2>2, <2>6, <2>7, <2>8
    <3> QED
      BY <2>6, <3>1, <3>2 DEF AtReader
  <2>10. \A g \in Uploads : disk'[g].is = "file"
    BY <1>6, <2>8
  <2> QED
    BY <1>8, <2>2, <2>3, <2>5, <2>9, <2>10
<1> QED
  BY <1>10, <1>11, <1>14, <1>15, <1>16, <1>17, <1>18, <1>20, <1>21 DEF Process

-----------------------------------------------------------------------------
(* The senders of an upload. *)

\* What a message adds to what is under way.
LEMMA BroadcastU ==
  ASSUME NodeT, NameT, Undisturbed, spoilt' = {}, UNCHANGED <<nodeVars, wire>>,
         \A f \in Uploads : disk[f].is = "file",
         ~busy => IF mode = None THEN ~HasLine ELSE ~HasDelimiter,
         \A u \in Uploader :
           /\ pc'[u] \in {"seal", "clean", "done"} => field'[u] = Len(FilesOf[u])
           /\ pc'[u] \in {"data", "end"} => file'[u] = FilesOf[u][field'[u] + 1],
         NEW p, NEW Q, AtReader(p), Whither(Q), Leads(p, Rest, Q[0]),
         NEW m \in Seq(Proper), NEW spoils, Broadcast(m, spoils),
         NEW t \in Stand, Leads(Q[Len(chan)], m \o <<Newline>>, t), AtSender(t)'
  PROVE  UInv'
<1>1. PICK c : c = Len(chan)
  OBVIOUS
<1>2. /\ c \in Nat /\ Len(chan') = c + 1 /\ chan'[c + 1] = m
      /\ \A j \in 1..c : chan'[j] = chan[j]
  <2>1. PICK o \in {0, 1} :
          /\ o <= Len(chan) /\ Len(chan) \in Nat /\ Len(chan') = (Len(chan) - o) + 1
          /\ \A j \in 1..(Len(chan) - o) : chan'[j] = chan[j + o]
          /\ chan'[(Len(chan) - o) + 1] = m
          /\ o = 1 => "lag" \in spoilt'
    BY BroadcastSeq, Harmless
  <2>2. o = 0 /\ c \in Nat /\ c - 0 = c /\ \A j \in 1..c : j + 0 = j
    BY <1>1, <2>1
  <2> QED
    BY <1>1, <2>1, <2>2
<1>3. /\ Q \in [0..c -> Stand]
      /\ \A k \in 1..c : Leads(Q[k - 1], chan[k] \o <<Newline>>, Q[k])
  BY <1>1 DEF Whither
<1>4. PICK R : R = [k \in 0..(c + 1) |-> IF k <= c THEN Q[k] ELSE t]
  OBVIOUS
<1>5. /\ R \in [0..(c + 1) -> Stand] /\ R[c + 1] = t /\ \A k \in 0..c : R[k] = Q[k]
  <2>1. /\ \A k \in 0..c : k \in 0..(c + 1) /\ k <= c
        /\ \A k \in 0..(c + 1) : k <= c => k \in 0..c
        /\ c + 1 \in 0..(c + 1) /\ ~(c + 1 <= c)
    BY <1>2
  <2> QED
    BY <1>3, <1>4, <2>1
<1>6. ASSUME NEW k \in 1..(c + 1) PROVE Leads(R[k - 1], chan'[k] \o <<Newline>>, R[k])
  <2>1. CASE k \in 1..c
    <3>1. k - 1 \in 0..c /\ k \in 0..c
      BY <1>2, <2>1
    <3> QED
      BY <1>2, <1>3, <1>5, <2>1, <3>1
  <2>2. CASE k = c + 1
    <3>1. (c + 1) - 1 = c /\ c \in 0..c
      BY <1>2
    <3> QED
      BY <1>1, <1>2, <1>5, <2>2, <3>1
  <2> QED
    BY <1>2, <2>1, <2>2
<1>7. Whither(R)'
  BY <1>2, <1>5, <1>6 DEF Whither
<1>8. Rest' = Rest /\ R[0] = Q[0]
  <2>1. 0 \in 0..c
    BY <1>2
  <2> QED
    BY <1>5, <2>1 DEF Rest, nodeVars
<1>9. AtReader(p)'
  BY DEF AtReader, nodeVars
<1>10. /\ \A f \in Uploads : disk'[f].is = "file"
       /\ ~busy' => (IF mode = None THEN ~HasLine ELSE ~HasDelimiter)'
  BY DEF nodeVars, HasLine, HasDelimiter, DelimiterAt, Delimiter
<1> QED
  BY <1>7, <1>8, <1>9, <1>10 DEF UInv

\* Where the handler stands that uploads, when only it does.
LEMMA OnlySender ==
  ASSUME NEW u \in Uploader, \A v \in Uploader \ {u} : ~Uploading(v)',
         NEW t, \A v \in Uploader : \A i \in 1..field'[v] :
                  FilesOf[v][i] \in t.done \/ (t.at # "line" /\ t.of = FilesOf[v][i]),
         Uploading(u)' \/ t.at = "line",
         pc'[u] = "data" => t.at = "data" /\ t.of = file'[u] /\ t.n = sent'[u],
         pc'[u] = "end" => file'[u] \in t.done,
         \/ pc'[u] = "data" \/ t.at = "line"
         \/ pc'[u] = "seal" /\ sent'[u] = 0 /\ t.at = "over" /\ t.of \in File
  PROVE  AtSender(t)'
<1>1. \A v \in Uploader : Uploading(v)' => v = u
  OBVIOUS
<1> QED
  BY <1>1 DEF AtSender

\* Other messages are skipped by a reader at a line.
LEMMA LeadsLine ==
  ASSUME NEW s \in Stand, s.at = "line", NEW y \in Proper,
         y.kind \in {"end", "command"} \/ (y.kind = "clean" /\ y.of \in s.done)
  PROVE  Leads(s, <<y>> \o <<Newline>>, s)
<1>1. PICK r : r = [s EXCEPT !.at = "said"]
  OBVIOUS
<1>2. r \in Stand /\ r.at = "said" /\ r.of = s.of /\ r.n = s.n /\ r.done = s.done
  BY <1>1 DEF Stand, Station
<1>3. Passes(s, y, r) /\ Passes(r, Newline, s)
  BY <1>2 DEF Passes, Turns
<1> QED
  BY <1>2, <1>3, LeadsMessage

LEMMA UploadU ==
  ASSUME TInv, NameT, UInv, NEW u \in Uploader, UploadStep(u)
  PROVE  UInv'
<1>1. /\ SendT /\ NodeT /\ u \in Sender /\ Uploader \subseteq Sender
      /\ FilesOf[u] \in Seq(File) /\ field[u] \in Nat /\ sent[u] \in Nat /\ Len(FilesOf[u]) \in Nat
      /\ DOMAIN pc = Sender /\ DOMAIN field = Uploader /\ DOMAIN file = Sender /\ DOMAIN sent = Sender
      /\ pc[u] # "done" /\ None \notin File
      /\ \A v \in Uploader : field[v] \in Nat
  BY UploadSends, TransferAssumption, LenProperties DEF TInv, SendT, Sender
<1>2. UploadKeeps /\ UNCHANGED <<nodeVars, wire, carrier, before, named>>
  BY UploadSends DEF UploadKeeps
<1>3. PICK m \in Seq(Proper), spoils \in SUBSET Spoils : Broadcast(m, spoils)
  BY UploadSends
<1>4. SUFFICES ASSUME Undisturbed' PROVE UInv'
  BY DEF UInv
<1>5. /\ Undisturbed /\ spoilt = {} /\ spoilt' = {}
      /\ \A v \in Uploader : \A i \in 1..(Len(FilesOf[v]) - 1) : Size(FilesOf[v][i]) > 0
  <2>1. spoilt \subseteq spoilt' /\ Favourable' = Favourable
    BY <1>2, <1>3 DEF Broadcast, Favourable
  <2> QED
    BY <1>2, <1>4, <2>1 DEF Undisturbed, Favourable
<1>6. PICK p, Q : AtReader(p) /\ Whither(Q) /\ Leads(p, Rest, Q[0])
  BY <1>5 DEF UInv
<1>7. PICK q : q = Q[Len(chan)]
  OBVIOUS
<1>8. q \in Stand /\ AtSender(q)
  <2>1. Len(chan) \in Nat
    BY <1>1, LenProperties DEF NodeT
  <2>2. Len(chan) \in 0..Len(chan)
    BY <2>1
  <2> QED
    BY <1>6, <1>7, <2>2 DEF Whither
<1>9. /\ \A f \in Uploads : disk[f].is = "file"
      /\ \A v \in Uploader :
           /\ pc[v] \in {"seal", "clean", "done"} => field[v] = Len(FilesOf[v])
           /\ pc[v] \in {"data", "end"} => file[v] = FilesOf[v][field[v] + 1]
      /\ ~busy => IF mode = None THEN ~HasLine ELSE ~HasDelimiter
  BY <1>5 DEF UInv
<1>10. /\ \A v \in Uploader \ {u} : /\ pc'[v] = pc[v] /\ field'[v] = field[v] /\ file'[v] = file[v]
                                    /\ sent'[v] = sent[v]
       /\ \A v \in Uploader \ {u} : Uploading(v)' = Uploading(v)
  <2>1. \A v \in Uploader \ {u} : /\ pc'[v] = pc[v] /\ field'[v] = field[v] /\ file'[v] = file[v]
                                  /\ sent'[v] = sent[v]
    BY <1>1 DEF UploadStep, UploadStart, UploadChunk, UploadDelimiter, UploadEnd, UploadSeal,
       UploadClean
  <2> QED
    BY <2>1 DEF Uploading
<1>11. \A v \in Uploader \ {u} : ~Uploading(v)'
  <2>1. CASE Uploading(u)
    BY <1>8, <1>10, <2>1 DEF AtSender
  <2>2. CASE ~Uploading(u)
    <3>1. UploadStart(u)
      BY <1>1, <2>2 DEF Uploading, UploadStep, UploadStart, UploadChunk, UploadDelimiter, UploadEnd,
         UploadSeal, UploadClean
    <3>2. {v \in Uploader \ {u} : Uploading(v)} = {}
      BY <1>5, <3>1 DEF UploadStart, Broadcast
    <3> QED
      BY <1>10, <3>2
  <2> QED
    BY <2>1, <2>2
<1>12. ASSUME NEW n \in Seq(Proper), NEW sp, Broadcast(n, sp), NEW t \in Stand,
              Leads(q, n \o <<Newline>>, t),
              pc'[u] \in {"seal", "clean", "done"} => field'[u] = Len(FilesOf[u]),
              pc'[u] \in {"data", "end"} => file'[u] = FilesOf[u][field'[u] + 1],
              \A v \in Uploader : \A i \in 1..field'[v] :
                FilesOf[v][i] \in t.done \/ (t.at # "line" /\ t.of = FilesOf[v][i]),
              Uploading(u)' \/ t.at = "line",
              pc'[u] = "data" => t.at = "data" /\ t.of = file'[u] /\ t.n = sent'[u],
              pc'[u] = "end" => file'[u] \in t.done,
              \/ pc'[u] = "data" \/ t.at = "line"
              \/ pc'[u] = "seal" /\ sent'[u] = 0 /\ t.at = "over" /\ t.of \in File
       PROVE  UInv'
  <2>1. AtSender(t)'
    BY <1>11, <1>12, OnlySender
  <2>2. \A v \in Uploader :
          /\ pc'[v] \in {"seal", "clean", "done"} => field'[v] = Len(FilesOf[v])
          /\ pc'[v] \in {"data", "end"} => file'[v] = FilesOf[v][field'[v] + 1]
    BY <1>9, <1>10, <1>12
  <2> QED
    BY <1>1, <1>2, <1>5, <1>6, <1>7, <1>9, <1>12, <2>1, <2>2, BroadcastU
<1>13. \A v \in Uploader : \A i \in 1..field[v] :
         FilesOf[v][i] \in q.done \/ (q.at # "line" /\ q.of = FilesOf[v][i])
  BY <1>8 DEF AtSender
<1>14. /\ pc[u] = "data" => q.at = "data" /\ q.of = file[u] /\ q.n = sent[u]
       /\ pc[u] = "end" => file[u] \in q.done
       /\ pc[u] = "data" \/ q.at = "line" \/ (pc[u] = "seal" /\ sent[u] = 0 /\ q.at = "over" /\ q.of \in File)
  <2>1. CASE Uploading(u)
    BY <1>8, <2>1 DEF AtSender
  <2>2. CASE ~Uploading(u)
    <3>1. \A v \in Uploader : ~Uploading(v)
      BY <1>10, <1>11, <2>2
    <3>2. q.at = "line" /\ pc[u] = "next"
      BY <1>1, <1>8, <2>2, <3>1 DEF AtSender, Uploading
    <3> QED
      BY <3>2
  <2> QED
    BY <2>1, <2>2
<1>15. /\ pc[u] \in {"next", "data", "end"} => field[u] < Len(FilesOf[u])
       /\ pc[u] \in {"data", "end"} => file[u] \in File /\ sent[u] <= Size(file[u]) /\ Size(file[u]) \in Nat
       /\ pc[u] \in {"seal", "clean"} => sent[u] < field[u]
  BY <1>1, SizeNat DEF SendT
<1>16. CASE UploadStart(u)
  <2>1. PICK g, r, t : /\ g = FilesOf[u][field[u] + 1]
                       /\ r = [at |-> "start", of |-> g, n |-> 0, done |-> q.done \ {g}]
                       /\ t = [at |-> "data", of |-> g, n |-> 0, done |-> q.done \ {g}]
    OBVIOUS
  <2>2. /\ pc[u] = "next" /\ pc'[u] = "data" /\ file'[u] = g /\ sent'[u] = 0 /\ field' = field
        /\ \E sp : Broadcast(<<Sym("start", g)>>, sp)
    BY <1>1, <1>16, <2>1 DEF UploadStart
  <2>3. PICK sp : Broadcast(<<Sym("start", g)>>, sp)
    BY <2>2
  <2>4. g \in Uploads /\ g \in File
    <3>1. field[u] + 1 \in 1..Len(FilesOf[u])
      BY <1>1, <1>15, <2>2
    <3> QED
      BY <2>1, <3>1, UploadFiles
  <2>5. q.at = "line" /\ q.done \in SUBSET File
    BY <1>8, <1>14, <2>2 DEF Stand
  <2>6. r \in Stand /\ t \in Stand
    BY <2>1, <2>4, <2>5 DEF Stand, Station
  <2>7. Sym("start", g) \in Proper /\ <<Sym("start", g)>> \in Seq(Proper)
    BY <2>4, Symbols
  <2>8. Passes(q, Sym("start", g), r) /\ Passes(r, Newline, t)
    BY <2>1, <2>4, <2>5, Kinds DEF Passes, Turns
  <2>9. Leads(q, <<Sym("start", g)>> \o <<Newline>>, t)
    BY <1>8, <2>6, <2>7, <2>8, LeadsMessage
  <2>10. \A v \in Uploader : \A i \in 1..field'[v] :
           FilesOf[v][i] \in t.done \/ (t.at # "line" /\ t.of = FilesOf[v][i])
    BY <1>13, <2>1, <2>2, <2>5
  <2>11. t.at = "data" /\ t.of = file'[u] /\ t.n = sent'[u] /\ Uploading(u)'
    BY <2>1, <2>2 DEF Uploading
  <2> QED
    BY <1>12, <2>1, <2>2, <2>3, <2>6, <2>7, <2>9, <2>10, <2>11
<1>17. CASE UploadChunk(u)
  <2>1. PICK n \in 1..(Size(file[u]) - sent[u]) :
          /\ Broadcast(Data(SubSeq(Content[file[u]], sent[u] + 1, sent[u] + n)), {})
          /\ sent' = [sent EXCEPT ![u] = @ + n]
    BY <1>17 DEF UploadChunk
  <2>2. /\ pc[u] = "data" /\ UNCHANGED <<file, pc, field>> /\ sent'[u] = sent[u] + n
        /\ file[u] \in File /\ q.at = "data" /\ q.of = file[u] /\ q.n = sent[u]
    BY <1>1, <1>14, <1>15, <1>17, <2>1 DEF UploadChunk
  <2>3. n \in Nat \ {0} /\ sent[u] + n <= Size(file[u]) /\ sent[u] + n \in Nat /\ sent[u] <= sent[u] + n
    BY <1>1, <1>15, <2>1, <2>2
  <2>4. PICK l, t : /\ l = Data(SubSeq(Content[q.of], q.n + 1, q.n + n))
                    /\ t = [q EXCEPT !.n = q.n + n]
    OBVIOUS
  <2>5. t \in Stand /\ t.at = "data" /\ t.of = q.of /\ t.n = q.n + n /\ t.done = q.done
    BY <1>8, <2>2, <2>3, <2>4 DEF Stand
  <2>6. l \in Seq(Proper) /\ Broadcast(l, {})
    BY <1>1, <2>1, <2>2, <2>3, <2>4, Chunks
  <2>10. Innocent(q.of)
    <3>1. field[u] + 1 \in 1..Len(FilesOf[u])
      BY <1>1, <1>15, <2>2
    <3> QED
      BY <1>5, <1>9, <2>2, <3>1, UploadFiles, Harmless
  <2>7. Leads(q, l \o <<Newline>>, t)
    BY <1>8, <2>2, <2>3, <2>4, <2>5, <2>10, LeadsChunk
  <2>8. \A v \in Uploader : \A i \in 1..field'[v] :
          FilesOf[v][i] \in t.done \/ (t.at # "line" /\ t.of = FilesOf[v][i])
    BY <1>13, <2>2, <2>5
  <2>9. Uploading(u)' /\ pc'[u] = "data" /\ file'[u] = FilesOf[u][field'[u] + 1]
        /\ t.of = file'[u] /\ t.n = sent'[u]
    BY <1>9, <2>2, <2>5 DEF Uploading
  <2> QED
    BY <1>12, <2>5, <2>6, <2>7, <2>8, <2>9
<1>18. CASE UploadDelimiter(u)
  <2>1. /\ pc[u] = "data" /\ pc'[u] = "end" /\ UNCHANGED <<file, sent, field>> /\ Broadcast(Delimiter, {})
        /\ sent[u] = Size(file[u]) /\ sent[u] > 0
    BY <1>1, <1>18 DEF UploadDelimiter
  <2>2. PICK t : t = [q EXCEPT !.at = "line", !.done = q.done \cup {q.of}]
    OBVIOUS
  <2>3. q.of = file[u] /\ q.of \in File /\ Ends(q)
    BY <1>14, <1>15, <2>1 DEF Ends
  <2>4. t \in Stand /\ t.at = "line" /\ t.of = q.of /\ t.n = q.n /\ t.done = q.done \cup {q.of}
    BY <1>8, <2>2, <2>3 DEF Stand, Station
  <2>5. Leads(q, Delimiter \o <<Newline>>, t)
    BY <1>8, <2>3, <2>4, LeadsDelimiter
  <2>6. \A v \in Uploader : \A i \in 1..field'[v] : FilesOf[v][i] \in t.done
    BY <1>13, <2>1, <2>4
  <2>7. file'[u] = FilesOf[u][field'[u] + 1] /\ file'[u] \in t.done
    BY <1>9, <2>1, <2>3, <2>4
  <2>8. Delimiter \in Seq(Proper)
    BY Symbols
  <2> QED
    BY <1>12, <2>1, <2>4, <2>5, <2>6, <2>7, <2>8
<1>19. CASE UploadEnd(u)
  <2>1. PICK g, l : g = file[u] /\ l = field[u]
    OBVIOUS
  <2>2. /\ pc[u] = "end" \/ (pc[u] = "data" /\ Size(g) = 0)
        /\ field' = [field EXCEPT ![u] = l + 1] /\ sent'[u] = 0
        /\ pc'[u] = IF field'[u] = Len(FilesOf[u]) THEN "seal" ELSE "next"
    BY <1>1, <1>19, <2>1 DEF UploadEnd
  <2>3. /\ Broadcast(<<Sym("end", g)>>, {}) /\ pc[u] \in {"data", "end"} /\ field'[u] = l + 1
        /\ g = FilesOf[u][l + 1] /\ g \in File /\ l < Len(FilesOf[u]) /\ l \in Nat
    BY <1>1, <1>9, <1>15, <1>19, <2>1, <2>2 DEF UploadEnd
  <2>4. Sym("end", g) \in Proper /\ <<Sym("end", g)>> \in Seq(Proper)
    BY <2>3, Symbols
  <2>5. \A v \in Uploader : \A i \in 1..field'[v] : i \in 1..field[v] \/ (v = u /\ i = l + 1)
    BY <1>1, <1>10, <2>1, <2>3
  <2>6. Uploading(u)'
    BY <2>2, <2>3 DEF Uploading
  <2>7. CASE pc[u] = "end"
    <3>1. q.at = "line" /\ g \in q.done
      BY <1>14, <2>1, <2>7
    <3>2. Leads(q, <<Sym("end", g)>> \o <<Newline>>, q)
      BY <1>8, <2>4, <3>1, LeadsLine, Kinds
    <3>3. \A v \in Uploader : \A i \in 1..field'[v] : FilesOf[v][i] \in q.done
      BY <1>13, <2>3, <2>5, <3>1
    <3> QED
      BY <1>8, <1>12, <2>2, <2>3, <2>4, <2>6, <3>1, <3>2, <3>3
  <2>8. CASE pc[u] = "data" /\ Size(g) = 0
    <3>1. q.at = "data" /\ q.of = g /\ q.n = 0
      BY <1>1, <1>14, <1>15, <2>1, <2>8
    <3>2. PICK t : t = [q EXCEPT !.at = "over"]
      OBVIOUS
    <3>3. t \in Stand /\ t.at = "over" /\ t.of = q.of /\ t.n = q.n /\ t.done = q.done
      BY <1>8, <3>2 DEF Stand, Station
    <3>4. Passes(q, Sym("end", g), t) /\ Passes(t, Newline, t)
      BY <2>8, <3>1, <3>3 DEF Passes, Turns
    <3>5. Leads(q, <<Sym("end", g)>> \o <<Newline>>, t)
      BY <1>8, <2>4, <3>3, <3>4, LeadsMessage
    <3>6. l + 1 = Len(FilesOf[u])
      <4>1. l + 1 \in 1..(Len(FilesOf[u]) - 1) => Size(g) > 0
        BY <1>5, <2>3
      <4> QED
        BY <1>1, <2>3, <2>8, <4>1
    <3>7. \A v \in Uploader : \A i \in 1..field'[v] :
            FilesOf[v][i] \in t.done \/ (t.at # "line" /\ t.of = FilesOf[v][i])
      BY <1>13, <2>3, <2>5, <3>1, <3>3
    <3> QED
      BY <1>12, <2>2, <2>3, <2>4, <2>6, <3>1, <3>3, <3>5, <3>6, <3>7
  <2> QED
    BY <2>2, <2>7, <2>8
<1>20. CASE UploadSeal(u)
  <2>1. /\ pc[u] = "seal" /\ pc'[u] = "clean" /\ UNCHANGED <<file, sent, field>>
        /\ Broadcast(Delimiter, {}) /\ field[u] = Len(FilesOf[u]) /\ Delimiter \in Seq(Proper)
    BY <1>1, <1>9, <1>20, Symbols DEF UploadSeal
  <2>2. PICK t \in Stand : /\ t.at = "line" /\ Leads(q, Delimiter \o <<Newline>>, t)
                           /\ \/ q.at = "line" /\ t.done = q.done
                              \/ q.at # "line" /\ t.done = q.done \cup {q.of}
    <3>1. CASE q.at = "line"
      BY <1>8, <3>1, LeadsDelimiter
    <3>2. CASE q.at = "over" /\ q.of \in File
      <4>1. PICK t : t = [q EXCEPT !.at = "line", !.done = q.done \cup {q.of}]
        OBVIOUS
      <4>2. t \in Stand /\ t.at = "line" /\ t.of = q.of /\ t.n = q.n /\ t.done = q.done \cup {q.of}
        BY <1>8, <3>2, <4>1 DEF Stand, Station
      <4> QED
        BY <1>8, <3>2, <4>2, LeadsDelimiter DEF Ends
    <3> QED
      BY <1>14, <2>1, <3>1, <3>2
  <2>3. \A v \in Uploader : \A i \in 1..field'[v] : FilesOf[v][i] \in t.done
    BY <1>13, <2>1, <2>2
  <2>4. field'[u] = Len(FilesOf[u]) /\ pc'[u] \notin {"data", "end"}
    BY <2>1
  <2> QED
    BY <1>12, <2>1, <2>2, <2>3, <2>4
<1>21. CASE UploadClean(u)
  <2>1. PICK k, g : k = sent[u] /\ g = FilesOf[u][sent[u] + 1]
    OBVIOUS
  <2>2. /\ pc[u] = "clean" /\ UNCHANGED <<file, field>> /\ Broadcast(<<Sym("clean", g)>>, {})
        /\ pc'[u] \in {"done", "seal"} /\ field[u] = Len(FilesOf[u]) /\ k < field[u] /\ k \in Nat
    BY <1>1, <1>9, <1>15, <1>21, <2>1 DEF UploadClean
  <2>3. q.at = "line"
    BY <1>14, <2>2
  <2>4. g \in q.done /\ g \in File
    <3>1. k + 1 \in 1..field[u]
      BY <1>1, <2>2
    <3> QED
      BY <1>8, <1>13, <2>1, <2>3, <3>1 DEF Stand
  <2>5. Sym("clean", g) \in Proper /\ <<Sym("clean", g)>> \in Seq(Proper)
    BY <2>4, Symbols
  <2>6. Leads(q, <<Sym("clean", g)>> \o <<Newline>>, q)
    BY <1>8, <2>3, <2>4, <2>5, LeadsLine, Kinds
  <2>7. \A v \in Uploader : \A i \in 1..field'[v] : FilesOf[v][i] \in q.done
    BY <1>13, <2>2, <2>3
  <2>8. field'[u] = Len(FilesOf[u]) /\ pc'[u] \notin {"data", "end"}
    BY <2>2
  <2> QED
    BY <1>8, <1>12, <2>2, <2>3, <2>5, <2>6, <2>7, <2>8
<1> QED
  BY <1>16, <1>17, <1>18, <1>19, <1>20, <1>21 DEF UploadStep

LEMMA CommandU ==
  ASSUME TInv, NameT, UInv, Command
  PROVE  UInv'
<1>1. NodeT /\ UNCHANGED <<file, sent, pc, field, nodeVars, wire, carrier, before, named>>
  BY DEF Command, sendVars, TInv
<1>2. PICK sp : /\ Broadcast(<<Sym("command", commands')>>, sp)
                /\ (\E u \in Uploader : Uploading(u)) => sp = {"command"}
  BY DEF Command
<1>3. SUFFICES ASSUME Undisturbed' PROVE UInv'
  BY DEF UInv
<1>4. /\ Undisturbed /\ spoilt' = {} /\ \A u \in Uploader : ~Uploading(u)
  <2>1. spoilt \cup sp \subseteq spoilt' /\ Favourable' = Favourable
    BY <1>1, <1>2 DEF Broadcast, Favourable
  <2> QED
    BY <1>1, <1>2, <1>3, <2>1 DEF Undisturbed
<1>5. PICK p, Q : AtReader(p) /\ Whither(Q) /\ Leads(p, Rest, Q[0])
  BY <1>4 DEF UInv
<1>6. PICK q : q = Q[Len(chan)]
  OBVIOUS
<1>7. q \in Stand /\ AtSender(q) /\ q.at = "line"
  <2>1. Len(chan) \in Nat
    BY <1>1, LenProperties DEF NodeT
  <2>2. Len(chan) \in 0..Len(chan)
    BY <2>1
  <2> QED
    BY <1>4, <1>5, <1>6, <2>2 DEF Whither, AtSender
<1>8. PICK y : y = Sym("command", commands')
  OBVIOUS
<1>9. y \in Proper /\ <<y>> \in Seq(Proper) /\ y.kind = "command"
  <2>1. commands' \in 1..Commands
    BY <1>1, TransferAssumption DEF Command, NodeT
  <2> QED
    BY <1>8, <2>1, Symbols, Kinds
<1>10. Leads(q, <<y>> \o <<Newline>>, q)
  BY <1>7, <1>9, LeadsLine
<1>11. AtSender(q)'
  <2>1. \A u \in Uploader : Uploading(u)' = Uploading(u)
    BY <1>1 DEF Uploading
  <2> QED
    BY <1>1, <1>7, <2>1 DEF AtSender
<1>12. /\ \A f \in Uploads : disk[f].is = "file"
       /\ \A u \in Uploader :
            /\ pc'[u] \in {"seal", "clean", "done"} => field'[u] = Len(FilesOf[u])
            /\ pc'[u] \in {"data", "end"} => file'[u] = FilesOf[u][field'[u] + 1]
       /\ ~busy => IF mode = None THEN ~HasLine ELSE ~HasDelimiter
  BY <1>1, <1>4 DEF UInv
<1> QED
  BY <1>1, <1>2, <1>4, <1>5, <1>6, <1>7, <1>8, <1>9, <1>10, <1>11, <1>12, BroadcastU

LEMMA LinkU ==
  ASSUME TInv, UInv, LinkWrites
  PROVE  UInv'
<1>1. /\ NodeT /\ chan # <<>> /\ chan' = Tail(chan) /\ wire' = wire \o Head(chan) \o <<Newline>>
      /\ UNCHANGED <<buf, mode, busy, disk, file, sent, pc, field, carrier, before, named, spoilt>>
  BY DEF TInv, LinkWrites, nodeVars, sendVars, pastVars
<1>2. SUFFICES ASSUME Undisturbed' PROVE UInv'
  BY DEF UInv
<1>3. Undisturbed
  BY <1>1, <1>2 DEF Undisturbed, Favourable
<1>4. PICK p, Q : AtReader(p) /\ Whither(Q) /\ Leads(p, Rest, Q[0])
  BY <1>3 DEF UInv
<1>5. PICK c, h : c = Len(chan) /\ h = chan[1]
  OBVIOUS
<1>6. /\ c \in Nat /\ c >= 1 /\ Len(chan') = c - 1 /\ h \in Seq(Proper)
      /\ \A j \in 1..(c - 1) : chan'[j] = chan[j + 1]
  BY <1>5, LinkSeq
<1>7. Rest \in Seq(Proper) /\ h \o <<Newline>> \in Seq(Proper) /\ Rest' = Rest \o (h \o <<Newline>>)
  <2>1. <<Newline>> \in Seq(Proper) /\ wire \in Seq(Proper) /\ Rest \in Seq(Proper)
    BY <1>1, RestSeq, Symbols DEF NodeT
  <2>2. h \o <<Newline>> \in Seq(Proper)
    BY <1>6, <2>1, ConcatProperties
  <2>3. Head(chan) = h
    BY <1>1, <1>5 DEF NodeT
  <2>4. wire' = wire \o (h \o <<Newline>>)
    <3>1. (wire \o h) \o <<Newline>> = wire \o (h \o <<Newline>>)
      BY <1>6, <2>1, Assoc
    <3> QED
      BY <1>1, <2>3, <3>1
  <2> QED
    BY <1>1, <2>1, <2>2, <2>4, RestGrows
<1>8. /\ Q \in [0..c -> Stand] /\ AtSender(Q[c])
      /\ \A k \in 1..c : Leads(Q[k - 1], chan[k] \o <<Newline>>, Q[k])
  BY <1>4, <1>5 DEF Whither
<1>9. PICK R : R = [k \in 0..(c - 1) |-> Q[k + 1]]
  OBVIOUS
<1>10. R \in [0..(c - 1) -> Stand] /\ R[0] = Q[1] /\ R[c - 1] = Q[c]
  <2>1. /\ \A k \in 0..(c - 1) : k + 1 \in 0..c
        /\ 0 \in 0..(c - 1) /\ c - 1 \in 0..(c - 1) /\ 0 + 1 = 1 /\ (c - 1) + 1 = c
    BY <1>6
  <2> QED
    BY <1>8, <1>9, <2>1
<1>11. ASSUME NEW k \in 1..(c - 1) PROVE Leads(R[k - 1], chan'[k] \o <<Newline>>, R[k])
  <2>1. k + 1 \in 1..c /\ k - 1 \in 0..(c - 1) /\ k \in 0..(c - 1) /\ (k - 1) + 1 = k /\ (k + 1) - 1 = k
    BY <1>6
  <2>2. R[k - 1] = Q[k] /\ R[k] = Q[k + 1]
    BY <1>9, <2>1
  <2>3. Leads(Q[(k + 1) - 1], chan[k + 1] \o <<Newline>>, Q[k + 1])
    BY <1>8, <2>1
  <2> QED
    BY <1>6, <2>1, <2>2, <2>3
<1>12. AtSender(R[c - 1])'
  <2>1. \A u \in Uploader : Uploading(u)' = Uploading(u)
    BY <1>1 DEF Uploading
  <2>2. PICK q : q = Q[c] /\ q = R[c - 1]
    BY <1>10
  <2>3. AtSender(q)'
    BY <1>1, <1>8, <2>1, <2>2 DEF AtSender
  <2> QED
    BY <2>2, <2>3
<1>13. Whither(R)'
  BY <1>6, <1>10, <1>11, <1>12 DEF Whither
<1>14. Leads(p, Rest', R[0])
  <2>1. Leads(Q[0], h \o <<Newline>>, Q[1])
    <3>1. 1 \in 1..c /\ 1 - 1 = 0
      BY <1>6
    <3> QED
      BY <1>5, <1>8, <3>1
  <2> QED
    BY <1>4, <1>7, <1>10, <2>1, LeadsJoin
<1>15. AtReader(p)'
  BY <1>1, <1>4 DEF AtReader
<1>16. /\ \A f \in Uploads : disk'[f].is = "file"
       /\ \A u \in Uploader :
            /\ pc'[u] \in {"seal", "clean", "done"} => field'[u] = Len(FilesOf[u])
            /\ pc'[u] \in {"data", "end"} => file'[u] = FilesOf[u][field'[u] + 1]
       /\ ~busy' => (IF mode = None THEN ~HasLine ELSE ~HasDelimiter)'
  BY <1>1, <1>3 DEF UInv, HasLine, HasDelimiter, DelimiterAt, Delimiter
<1> QED
  BY <1>13, <1>14, <1>15, <1>16 DEF UInv

LEMMA UInvInit == Init => UInv
<1> SUFFICES ASSUME Init, Undisturbed PROVE UInv
  BY DEF UInv
<1>1. PICK p, Q : /\ p = [at |-> "line", of |-> None, n |-> 0, done |-> {}]
                  /\ Q = [k \in 0..0 |-> p]
  OBVIOUS
<1>2. p \in Stand /\ Q \in [0..0 -> Stand] /\ Q[0] = p /\ p.at = "line" /\ p.done = {}
  BY <1>1 DEF Stand, Station
<1>3. Rest = <<>> /\ Leads(p, Rest, Q[0])
  BY <1>2, LeadsNowhere, ConcatEmptySeq DEF Init, Rest
<1>4. AtReader(p)
  BY <1>2 DEF Init, AtReader
<1>5. /\ \A u \in Uploader : /\ pc[u] = "next" /\ field[u] = 0
  BY TransferAssumption DEF Init, Undisturbed, Sender
<1>6. AtSender(p)
  BY <1>2, <1>5 DEF AtSender, Uploading
<1>7. Whither(Q)
  BY <1>2, <1>6 DEF Init, Whither
<1>8. \A f \in Uploads : disk[f].is = "file"
  BY UploadFiles, NameTInit DEF Undisturbed, Favourable, Init, NameT
<1>9. ~HasLine /\ mode = None
  BY DEF Init, HasLine
<1> QED
  BY <1>3, <1>4, <1>5, <1>7, <1>8, <1>9 DEF UInv

LEMMA UInvInductive == TInv /\ NameT /\ UInv /\ [Next]_vars => UInv'
<1> SUFFICES ASSUME TInv, NameT, UInv, [Next]_vars PROVE UInv'
  OBVIOUS
<1>1. CASE MoverStep
  <2>1. carrier = "move" /\ carrier' = carrier
    <3>1. pc[Mover] # "done" \/ carrier = "move"
      BY <1>1 DEF MoverStep, SkipFile, SendStart, Open, OpenFails, SendChunk, ReadFails, SendEnd,
             AllSent, Breaks
    <3>2. carrier' = carrier
      BY <1>1 DEF MoverStep, SkipFile, SendStart, Open, OpenFails, SendChunk, ReadFails, SendEnd,
             AllSent, Breaks, MoverKeeps
    <3> QED
      BY <3>1, <3>2, TransferAssumption DEF TInv, SendT
  <2> QED
    BY <2>1 DEF UInv, Undisturbed
<1>2. CASE UNCHANGED vars
  <2>1. UNCHANGED <<file, sent, pc, field, chan, wire, buf, mode, busy, disk, carrier, before, named, spoilt>>
    BY <1>2 DEF vars, sendVars, nodeVars, pastVars
  <2>2. SUFFICES ASSUME Undisturbed' PROVE UInv'
    BY DEF UInv
  <2>3. Undisturbed
    BY <2>1, <2>2 DEF Undisturbed, Favourable
  <2>4. PICK p, Q : AtReader(p) /\ Whither(Q) /\ Leads(p, Rest, Q[0])
    BY <2>3 DEF UInv
  <2>5. \A u \in Uploader : Uploading(u)' = Uploading(u)
    BY <2>1 DEF Uploading
  <2>6. \A q : AtSender(q)' = AtSender(q)
    BY <2>1, <2>5 DEF AtSender
  <2>7. AtReader(p)' /\ Whither(Q)' /\ Rest' = Rest
    BY <2>1, <2>4, <2>6 DEF AtReader, Whither, Rest
  <2>8. /\ \A f \in Uploads : disk'[f].is = "file"
        /\ \A u \in Uploader :
             /\ pc'[u] \in {"seal", "clean", "done"} => field'[u] = Len(FilesOf[u])
             /\ pc'[u] \in {"data", "end"} => file'[u] = FilesOf[u][field'[u] + 1]
        /\ ~busy' => (IF mode = None THEN ~HasLine ELSE ~HasDelimiter)'
    BY <2>1, <2>3 DEF UInv, HasLine, HasDelimiter, DelimiterAt, Delimiter
  <2> QED
    BY <2>4, <2>7, <2>8 DEF UInv
<1>3. CASE LinkEnds \/ LinkReturns \/ \E u \in Uploader : UploadBreaks(u)
  <2>1. spoilt' # {}
    BY <1>3 DEF LinkEnds, LinkReturns, UploadBreaks, NameT, pastVars
  <2> QED
    BY <2>1 DEF UInv, Undisturbed
<1> QED
  BY <1>1, <1>2, <1>3, UploadU, CommandU, LinkU, ReaderU DEF Next

LEMMA UploadSettles ==
  ASSUME TInv, NameT, UInv, carrier = "link", Settled, spoilt = {}, Favourable
  PROVE  mode = None /\ buf = <<>> /\ \A f \in named : Spells(disk[f].data, Data(Content[f]))
<1>1. /\ NodeT /\ SendT /\ Undisturbed /\ chan = <<>> /\ wire = <<>> /\ ~busy
      /\ \A u \in Uploader : pc[u] = "done" /\ field[u] \in Nat
  BY DEF TInv, SendT, Undisturbed, Settled, Sender
<1>2. PICK p, Q : AtReader(p) /\ Whither(Q) /\ Leads(p, Rest, Q[0])
  BY <1>1 DEF UInv
<1>3. PICK q : q = Q[0]
  OBVIOUS
<1>4. q \in Stand /\ q.at = "line" /\ \A f \in Uploads : f \in q.done
  <2>1. q \in Stand /\ AtSender(q)
    <3>1. Len(chan) = 0 /\ 0 \in 0..0
      BY <1>1
    <3> QED
      BY <1>2, <1>3, <3>1 DEF Whither
  <2>2. q.at = "line"
    BY <1>1, <2>1 DEF AtSender, Uploading
  <2>3. \A u \in Uploader : field[u] = Len(FilesOf[u])
    BY <1>1 DEF UInv
  <2>4. \A u \in Uploader : \A i \in 1..Len(FilesOf[u]) : FilesOf[u][i] \in q.done
    BY <2>1, <2>2, <2>3 DEF AtSender
  <2> QED
    BY <2>1, <2>2, <2>4 DEF Uploads
<1>5. PICK W, n : Walk(W, Rest) /\ W[0] = p /\ W[Len(Rest)] = q /\ n = Len(Rest)
  BY <1>2, <1>3 DEF Leads
<1>6. /\ n \in Nat /\ n = Len(buf) /\ buf \in Seq(Proper) /\ \A i \in 1..n : Rest[i] = buf[i]
  <2>1. Len(Rest) = Len(buf) + 0 /\ Len(buf) \in Nat
    <3>1. Len(wire) = 0
      BY <1>1
    <3> QED
      BY <1>1, <3>1, RestSeq
  <2> QED
    BY <1>1, <1>5, <2>1, RestSeq DEF NodeT
<1>7. mode = None
  <2> SUFFICES ASSUME mode # None PROVE FALSE
    OBVIOUS
  <2>1. ~HasDelimiter /\ InFile(p)
    BY <1>1, <1>2 DEF UInv, AtReader, Holds, InFile
  <2>2. n # 0
    BY <1>4, <1>5, <2>1 DEF InFile
  <2>3. n - 1 \in Nat /\ n - 1 < n /\ n \in 1..n /\ n - 1 \in 0..(n - 1)
    BY <1>6, <2>2
  <2>4. \A j \in 1..(n - 1) : ~(Rest[j] = Delimiter[1] /\ Rest[j + 1] = Delimiter[2])
    <3> SUFFICES ASSUME NEW j \in 1..(n - 1) PROVE ~(Rest[j] = Delimiter[1] /\ Rest[j + 1] = Delimiter[2])
      OBVIOUS
    <3>1. j \in 1..n /\ j < n
      BY <1>6
    <3>2. j + 1 \in 1..n /\ ~(buf[j] = Delimiter[1] /\ buf[j + 1] = Delimiter[2])
      BY <1>6, <2>1, <3>1, MarkAt DEF HasDelimiter, DelimiterAt
    <3> QED
      BY <1>6, <3>1, <3>2
  <2>5. InFile(W[n - 1])
    <3>1. \A j \in 0..(n - 1) : InFile(W[j])
      BY <1>5, <1>6, <2>1, <2>3, <2>4, FileLeads
    <3> QED
      BY <2>3, <3>1
  <2>6. Passes(W[n - 1], Rest[n], q)
    BY <1>5, <2>3 DEF Walk
  <2> QED
    BY <1>4, <2>5, <2>6 DEF InFile, Passes, Turns, Ends
<1>8. buf = <<>>
  <2>1. p.at = "line" /\ ~HasLine
    BY <1>1, <1>2, <1>7 DEF UInv, AtReader
  <2> QED
    BY <1>1, <1>4, <1>5, <2>1, NoLineLeads
<1>9. p = q
  BY <1>5, <1>6, <1>8
<1> QED
  BY <1>1, <1>2, <1>4, <1>7, <1>8, <1>9 DEF AtReader, NameT

-----------------------------------------------------------------------------
(* What a transfer leaves. *)

LEMMA TransferInit == Init => TInv /\ NameT /\ MInv /\ AInv /\ UInv
BY TInvInit, NameTInit, MInvInit, AInvInit, UInvInit

LEMMA TransferInductive ==
  TInv /\ NameT /\ MInv /\ AInv /\ UInv /\ [Next]_vars => (TInv /\ NameT /\ MInv /\ AInv /\ UInv)'
BY TInvInductive, NameTInductive, MInvInductive, AInvInductive, UInvInductive

LEMMA Carried == TInv => carrier \in {"link", "move"}
BY TransferAssumption DEF TInv, SendT

\* A transfer that nothing meets, of files that hold neither the delimiter nor
\* an end_file, leaves each of them as the sender had it, for every set of such
\* files and forms and every cut of the stream into reads: a moved one exactly,
\* unless it was skipped or its bytes are not UTF-8, an uploaded one up to
\* newlines (send_folder_over_broadcast, send_multipart_over_broadcast and the
\* two ReadModes).  Other files of the node and of other transfers may hold
\* anything.
THEOREM FilesArrive == Spec => []Arrives
<1>1. TInv /\ NameT /\ MInv /\ AInv /\ UInv => Arrives
  <2> SUFFICES ASSUME TInv, NameT, MInv, AInv, UInv, Settled, spoilt = {}, Favourable, NEW f \in named
               PROVE  \/ faults > 0 /\ disk[f] = before[f]
                      \/ carrier = "move" /\ (~IsRaw(f) => disk[f].data = Data(Content[f]))
                      \/ carrier = "link" /\ Spells(disk[f].data, Data(Content[f]))
    BY DEF Arrives
  <2>1. CASE carrier = "move"
    BY <2>1, MoveSettles DEF Arrived
  <2>2. CASE carrier = "link"
    BY <2>2, UploadSettles
  <2> QED
    BY <2>1, <2>2, Carried
<1> QED
  BY <1>1, TransferInit, TransferInductive, PTL DEF Spec

\* When such a transfer has settled the reader is ready for the next message:
\* it is back at lines, and nothing is left in its buffer (what Recovers says
\* of it, but not that the transfer settles).
THEOREM ReadyAgain ==
  Spec => [](Settled /\ spoilt = {} /\ Favourable => mode = None /\ buf = <<>>)
<1>1. TInv /\ NameT /\ MInv /\ AInv /\ UInv =>
        (Settled /\ spoilt = {} /\ Favourable => mode = None /\ buf = <<>>)
  BY MoveSettles, UploadSettles, Carried
<1> QED
  BY <1>1, TransferInit, TransferInductive, PTL DEF Spec
=============================================================================

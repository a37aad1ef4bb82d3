--------------------------- MODULE DashboardProofs ---------------------------
(***************************************************************************)
(* Proofs about Dashboard, for every set of lines and of sockets, and for  *)
(* every bound.                                                            *)
(***************************************************************************)
EXTENDS Dashboard, SequenceTheorems, FiniteSetTheorems, TLAPS

Message == Line \cup {ReadyNote}
Entry == {Cleaned[m] : m \in Message}

\* The variables that the console depends on.
Typed ==
  /\ statusType \in Source /\ lines \in Seq(Line) /\ log \in Seq(Message)
  /\ fwd \in [Socket -> {"none", "recv", "send", "ended"}] /\ at \in [Socket -> Nat]
  /\ pipe \in [Socket -> Seq(Nat)] /\ from \in [Socket -> Nat]
  /\ conn \in [Socket -> {"unused", "connecting", "open", "failed", "closing", "closed"}]
  /\ ws \in Socket \cup {NoSocket}
  /\ pending \in Seq(Entry) /\ history \in Seq(Entry) /\ came \in Seq(Socket \X Nat)

\* What is under way on a socket follows what has come over it, and is in
\* order; while the socket lives its task goes on from there.
Got(k) == Cardinality(Heard(k, Len(came)))
Reached(k) == from[k] + Got(k) + Len(pipe[k])
Streams(k) ==
  /\ conn[k] = "unused" => fwd[k] = "none"
  /\ fwd[k] = "none" => pipe[k] = <<>> /\ Heard(k, Len(came)) = {}
  /\ \A i \in 1..Len(pipe[k]) : pipe[k][i] = from[k] + Got(k) + i
  /\ Reached(k) <= Len(log) /\ at[k] <= Len(log)
  /\ ~Gone(k) /\ fwd[k] = "recv" => at[k] = Reached(k)
  /\ ~Gone(k) /\ fwd[k] = "send" => at[k] = Reached(k) + 1

\* Only what was published has come.
Known == \A i \in 1..Len(came) : came[i][2] \in 1..Len(log)

\* Without doubled sockets only the current one is in use, and what came over
\* earlier ones was published before it subscribed.
InUse(k) == conn[k] \notin {"unused", "closed"}
Older(k) == \A i \in 1..Len(came) : came[i][1] # k => came[i][2] <= from[k]
OneSocket ==
  ~doubled => \A k \in Socket : InUse(k) => k = ws /\ (fwd[k] # "none" => Older(k))

\* The filter remembers what came last.
Remembers ==
  filtering => oldMessage = IF came = <<>> THEN NoSocket ELSE Told(Len(came))

DInv ==
  /\ Typed /\ (\A k \in Socket : Streams(k)) /\ Known /\ OneSocket /\ Remembers
  /\ NoGaps /\ InOrder /\ Shows(history \o pending)

-----------------------------------------------------------------------------
LEMMA HeardFinite ==
  ASSUME NEW n \in Nat, NEW k
  PROVE  IsFiniteSet(Heard(k, n)) /\ Cardinality(Heard(k, n)) \in Nat
<1>1. IsFiniteSet(1..n) /\ Heard(k, n) \in SUBSET (1..n)
  BY FS_Interval DEF Heard
<1> QED
  BY <1>1, FS_Subset, FS_CardinalityType

LEMMA ReachedNat ==
  ASSUME Typed, NEW k \in Socket
  PROVE  /\ Len(came) \in Nat /\ Len(log) \in Nat /\ Len(pipe[k]) \in Nat
         /\ from[k] \in Nat /\ at[k] \in Nat /\ Got(k) \in Nat /\ Reached(k) \in Nat
<1>1. pipe[k] \in Seq(Nat) /\ from[k] \in Nat /\ at[k] \in Nat
  BY DEF Typed
<1>2. Len(came) \in Nat /\ Len(log) \in Nat /\ Len(pipe[k]) \in Nat
  BY <1>1, LenProperties DEF Typed
<1>3. Got(k) \in Nat
  BY <1>2, HeardFinite DEF Got
<1> QED
  BY <1>1, <1>2, <1>3 DEF Reached

LEMMA KeptFinite ==
  ASSUME Typed, NEW n \in Nat
  PROVE  /\ IsFiniteSet(Kept) /\ Cardinality(Kept) \in Nat
         /\ IsFiniteSet({j \in Kept : j <= n}) /\ Cardinality({j \in Kept : j <= n}) \in Nat
         /\ Cardinality({j \in Kept : j <= n}) <= Cardinality(Kept)
         /\ n \in Kept => Cardinality({j \in Kept : j <= n}) >= 1
<1> DEFINE P == {j \in Kept : j <= n}
<1>1. Len(came) \in Nat
  BY LenProperties DEF Typed
<1>2. IsFiniteSet(1..Len(came)) /\ Kept \in SUBSET (1..Len(came))
  BY <1>1, FS_Interval DEF Kept
<1>3. IsFiniteSet(Kept) /\ Cardinality(Kept) \in Nat
  BY <1>2, FS_Subset, FS_CardinalityType
<1>4. P \in SUBSET Kept
  OBVIOUS
<1>5. IsFiniteSet(P) /\ Cardinality(P) \in Nat /\ Cardinality(P) <= Cardinality(Kept)
  BY <1>3, <1>4, FS_Subset, FS_CardinalityType
<1>6. ASSUME n \in Kept PROVE Cardinality(P) >= 1
  <2>1. P # {}
    BY <1>6
  <2> HIDE DEF P
  <2>2. Cardinality(P) # 0
    BY <1>5, <2>1, FS_EmptySet
  <2> QED
    BY <1>5, <2>2
<1> QED
  BY <1>3, <1>5, <1>6

\* While nothing comes and what was published stays, what the console should
\* show stays the same.
LEMMA NothingComes ==
  ASSUME Typed, Known, UNCHANGED <<came, filtering>>,
         \A i \in 1..Len(log) : log'[i] = log[i]
  PROVE  /\ Kept' = Kept /\ \A i \in 1..Len(came) : Told(i)' = Told(i)
         /\ \A k, n : Heard(k, n)' = Heard(k, n)

<1>1. \A i \in 1..Len(came) : Told(i)' = Told(i)
  BY DEF Known, Told
<1>2. Len(came) \in Nat
  BY LenProperties DEF Typed
<1>3. Kept' = Kept
  <2>1. \A i \in 1..Len(came) : i # 1 => i - 1 \in 1..Len(came)
    BY <1>2
  <2> QED
    BY <1>1, <2>1 DEF Kept, Opening
<1> QED
  BY <1>1, <1>3 DEF Heard

LEMMA DInvInit == Init => DInv
<1> SUFFICES ASSUME Init PROVE DInv
  OBVIOUS
<1>1. Len(<<>>) = 0 /\ \A S : <<>> \in Seq(S)
  BY EmptySeq
<1>2. Typed
  BY <1>1 DEF Init, Typed
<1>3. \A k : Heard(k, Len(came)) = {} /\ Got(k) = 0
  BY <1>1, FS_EmptySet DEF Init, Heard, Got
<1>4. \A k \in Socket : Streams(k)
  BY <1>1, <1>3 DEF Init, Streams, Reached
<1>5. Known /\ OneSocket /\ Remembers
  BY <1>1 DEF Init, Known, OneSocket, InUse, Remembers
<1>6. NoGaps /\ InOrder
  BY <1>1 DEF Init, NoGaps, InOrder
<1>7. Shows(history \o pending)
  <2>1. history \o pending = <<>> /\ Kept = {}
    BY <1>1 DEF Init, Kept
  <2> QED
    BY <1>1, <2>1, FS_EmptySet DEF Shows
<1> QED
  BY <1>2, <1>4, <1>5, <1>6, <1>7 DEF DInv

-----------------------------------------------------------------------------
(* Steps that bring the page nothing. *)

\* They keep what the console shows, provided the log only grows.
LEMMA ConsoleKept ==
  ASSUME DInv, UNCHANGED <<came, filtering, doubled, oldMessage>>,
         history' \o pending' = history \o pending,
         Len(log') >= Len(log), log' \in Seq(Message), \A i \in 1..Len(log) : log'[i] = log[i]
  PROVE  Known' /\ Remembers' /\ InOrder' /\ Shows(history \o pending)'
<1>1. /\ Kept' = Kept /\ \A i \in 1..Len(came) : Told(i)' = Told(i)
  BY NothingComes DEF DInv
<1>2. Len(came) \in Nat /\ Len(log) \in Nat /\ Len(log') \in Nat
  BY LenProperties DEF DInv, Typed
<1>3. Known'
  BY <1>2 DEF DInv, Known
<1>4. Remembers'
  <2>1. came # <<>> => Len(came) \in 1..Len(came)
    BY <1>2, EmptySeq DEF DInv, Typed
  <2> QED
    BY <1>1, <2>1 DEF DInv, Remembers
<1>5. InOrder'
  BY DEF DInv, InOrder
<1>6. Shows(history \o pending)'
  <2>1. Kept \subseteq 1..Len(came)
    BY DEF Kept
  <2> QED
    BY <1>1, <2>1 DEF DInv, Shows
<1> QED
  BY <1>3, <1>4, <1>5, <1>6

\* And if the sockets and their tasks stay too, everything.
LEMMA ElseKept ==
  ASSUME DInv, UNCHANGED <<taskVars, pipe, conn, ws, came, from, filtering, doubled, oldMessage>>,
         statusType' = statusType, lines' \in Seq(Line),
         history' \in Seq(Entry), pending' \in Seq(Entry),
         history' \o pending' = history \o pending,
         Len(log') >= Len(log), log' \in Seq(Message), \A i \in 1..Len(log) : log'[i] = log[i]
  PROVE  DInv'
<1>1. Typed'
  BY DEF DInv, Typed, taskVars
<1>2. Len(came) \in Nat /\ Len(log) \in Nat /\ Len(log') \in Nat
  BY LenProperties DEF DInv, Typed
<1>3. \A k \in Socket : Streams(k)'
  <2> SUFFICES ASSUME NEW k \in Socket PROVE Streams(k)'
    OBVIOUS
  <2>1. Streams(k) /\ UNCHANGED <<fwd, at, pipe, conn, from, came>>
    BY DEF DInv, taskVars
  <2>2. Heard(k, Len(came))' = Heard(k, Len(came)) /\ Got(k)' = Got(k) /\ Reached(k)' = Reached(k)
    BY <2>1 DEF Heard, Got, Reached
  <2>3. Reached(k) \in Nat /\ at[k] \in Nat
    BY ReachedNat DEF DInv, Typed
  <2> QED
    BY <1>2, <2>1, <2>2, <2>3 DEF Streams, Gone
<1>4. OneSocket'
  BY DEF DInv, OneSocket, InUse, Older, taskVars
<1>5. NoGaps'
  BY DEF DInv, NoGaps, Heard
<1> QED
  BY <1>1, <1>3, <1>4, <1>5, ConsoleKept DEF DInv

LEMMA NodeStep ==
  ASSUME DInv, PrintsLine \/ Changes \/ Answers \/ LinkPrints \/ LinkReplies \/ Tick \/ Flushes
  PROVE  DInv'
<1>1. Typed
  BY DEF DInv
<1>2. CASE PrintsLine
  <2>1. PICK t \in Prints[statusType] : lines' = Append(lines, t)
    BY <1>2 DEF PrintsLine
  <2>2. t \in Line /\ lines' \in Seq(Line)
    BY <1>1, <2>1, AppendProperties, BoundsAssumption DEF Typed
  <2> QED
    BY <1>1, <1>2, <2>2, ElseKept DEF PrintsLine, NodeOnly, panelVars, pageVars, Typed
<1>3. CASE Changes
  BY <1>1, <1>3, ElseKept DEF Changes, NodeOnly, panelVars, pageVars, Typed
<1>4. CASE Answers
  BY <1>1, <1>4, ElseKept DEF Answers, NodeOnly, panelVars, pageVars, Typed
<1>5. CASE LinkReplies
  <2>1. UNCHANGED <<lines, statusType, log, taskVars, pipe, conn, pageVars, came, from>>
    BY <1>5 DEF LinkReplies, LinkOnly
  <2> QED
    BY <1>1, <2>1, ElseKept DEF pageVars, Typed
<1>6. CASE Tick
  BY <1>1, <1>6, ElseKept DEF Tick, panelVars, pageVars, Typed
<1>7. CASE LinkPrints
  <2> DEFINE t == Head(lines)
             more == IF t = Ready THEN <<ReadyNote, t>> ELSE <<t>>
  <2>1. lines # <<>> /\ lines' = Tail(lines) /\ log' = log \o more
    BY <1>7 DEF LinkPrints
  <2>2. t \in Line /\ lines' \in Seq(Line)
    BY <1>1, <2>1, HeadTailProperties DEF Typed
  <2>3. more \in Seq(Message)
    <3>1. t \in Message /\ ReadyNote \in Message
      BY <2>2 DEF Message
    <3> QED
      BY <3>1
  <2> HIDE DEF more
  <2>4. log \in Seq(Message) /\ Len(log) \in Nat /\ Len(more) \in Nat
    BY <1>1, <2>3, LenProperties DEF Typed
  <2>5. /\ log' \in Seq(Message) /\ Len(log') = Len(log) + Len(more)
        /\ \A i \in 1..Len(log) : log'[i] = log[i]
    BY <2>1, <2>3, <2>4, ConcatProperties
  <2>6. Len(log') >= Len(log)
    BY <2>4, <2>5
  <2> QED
    BY <1>1, <1>7, <2>2, <2>5, <2>6, ElseKept DEF LinkPrints, LinkOnly, pageVars, Typed
<1>8. CASE Flushes
  <2>1. history' = history \o pending /\ pending' = <<>>
    BY <1>8 DEF Flushes
  <2>2. history' \in Seq(Entry) /\ pending' \in Seq(Entry)
    BY <1>1, <2>1, ConcatProperties, EmptySeq DEF Typed
  <2>3. history' \o pending' = history \o pending
    BY <2>1, <2>2, ConcatEmptySeq
  <2> QED
    BY <1>1, <1>8, <2>2, <2>3, ElseKept DEF Flushes, PageOnly, nodeVars, panelVars, taskVars, Typed
<1> QED
  BY <1>2, <1>3, <1>4, <1>5, <1>6, <1>7, <1>8

-----------------------------------------------------------------------------
(* Steps of the tasks and of the connections. *)

\* What the page has had and the log do not change; a socket that has not
\* subscribed has brought nothing, so that its start may.
LEMMA SocketsKept ==
  ASSUME DInv, UNCHANGED <<nodeVars, panelVars, came, filtering, oldMessage, history, pending>>,
         Typed', \A k \in Socket : Streams(k)', OneSocket', doubled => doubled',
         \A k \in Socket : from'[k] = from[k] \/ fwd[k] = "none"
  PROVE  DInv'
<1>1. Len(came) \in Nat /\ Len(log) \in Nat
  BY LenProperties DEF DInv, Typed
<1>2. UNCHANGED log /\ came \in Seq(Socket \X Nat)
  BY DEF panelVars, DInv, Typed
<1>3. Kept' = Kept /\ \A i \in 1..Len(came) : Told(i)' = Told(i)
  BY <1>2, NothingComes DEF DInv
<1>4. Known' /\ Remembers' /\ Shows(history \o pending)'
  <2>1. Kept \subseteq 1..Len(came) /\ (came # <<>> => Len(came) \in 1..Len(came))
    BY <1>1, <1>2, EmptySeq DEF Kept
  <2> QED
    BY <1>2, <1>3, <2>1 DEF DInv, Known, Remembers, Shows
<1>5. InOrder'
  BY DEF DInv, InOrder
<1>6. NoGaps'
  <2> SUFFICES ASSUME NEW i \in 1..Len(came)
               PROVE  came[i][2] = from'[came[i][1]] + Cardinality(Heard(came[i][1], i)')
    BY DEF NoGaps
  <2>1. came[i][1] \in Socket
    BY <1>2, ElementOfSeq
  <2>2. i \in Heard(came[i][1], Len(came))
    BY DEF Heard
  <2>3. fwd[came[i][1]] # "none"
    BY <2>1, <2>2 DEF DInv, Streams
  <2>4. Heard(came[i][1], i)' = Heard(came[i][1], i)
    BY DEF Heard
  <2> QED
    BY <2>1, <2>3, <2>4 DEF DInv, NoGaps
<1> QED
  BY <1>4, <1>5, <1>6 DEF DInv

LEMMA StreamKept ==
  ASSUME NEW j \in Socket, Streams(j), UNCHANGED <<log, came>>,
         fwd'[j] = fwd[j], at'[j] = at[j], pipe'[j] = pipe[j], from'[j] = from[j],
         conn'[j] = conn[j]
  PROVE  Streams(j)'
<1>1. Heard(j, Len(came))' = Heard(j, Len(came)) /\ Got(j)' = Got(j)
  BY DEF Heard, Got
<1>2. Reached(j)' = Reached(j)
  BY <1>1 DEF Reached
<1> QED
  BY <1>1, <1>2 DEF Streams, Gone

LEMMA TaskStep ==
  ASSUME DInv, NEW k \in Socket, Subscribes(k) \/ Takes(k) \/ Lags(k) \/ Sends(k) \/ Breaks(k)
  PROVE  DInv'
<1>1. Typed /\ OneSocket /\ \A j \in Socket : Streams(j)
  BY DEF DInv
<1>2. \A j \in Socket : /\ Len(came) \in Nat /\ Len(log) \in Nat /\ Len(pipe[j]) \in Nat
                        /\ from[j] \in Nat /\ at[j] \in Nat /\ Got(j) \in Nat /\ Reached(j) \in Nat
  BY <1>1, ReachedNat
<1>3. UNCHANGED <<nodeVars, panelVars, pageVars, came>>
  BY DEF Subscribes, Takes, Lags, Sends, Breaks, TaskOnly
<1>4. /\ UNCHANGED <<statusType, lines, log, ws, filtering, doubled, oldMessage, pending, history>>
      /\ \A j, n : Heard(j, n)' = Heard(j, n) /\ Got(j)' = Got(j)
  BY <1>3 DEF nodeVars, panelVars, pageVars, Heard, Got
<1>5. CASE Subscribes(k)
  <2>1. /\ fwd[k] = "none" /\ conn[k] # "unused" /\ UNCHANGED <<pipe, conn>>
        /\ fwd' = [fwd EXCEPT ![k] = "recv"] /\ at' = [at EXCEPT ![k] = Len(log)]
        /\ from' = [from EXCEPT ![k] = Len(log)]
    BY <1>5 DEF Subscribes, TaskOnly
  <2>2. Typed'
    BY <1>1, <1>2, <1>3, <1>4, <2>1 DEF Typed
  <2>3. \A j \in Socket \ {k} : fwd'[j] = fwd[j] /\ at'[j] = at[j] /\ from'[j] = from[j]
    BY <1>1, <2>1 DEF Typed
  <2>4. fwd'[k] = "recv" /\ at'[k] = Len(log) /\ from'[k] = Len(log)
    BY <1>1, <2>1 DEF Typed
  <2>5. pipe[k] = <<>> /\ Heard(k, Len(came)) = {} /\ Got(k) = 0 /\ Len(pipe[k]) = 0
    BY <1>1, <2>1, FS_EmptySet, EmptySeq DEF Streams, Got
  <2>6. \A j \in Socket : Streams(j)'
    <3>1. ASSUME NEW j \in Socket \ {k} PROVE Streams(j)'
      BY <1>1, <1>3, <1>4, <2>1, <2>3, StreamKept
    <3>2. Streams(k)'
      <4>1. Reached(k)' = Len(log)
        BY <1>2, <1>4, <2>1, <2>4, <2>5 DEF Reached
      <4> QED
        BY <1>2, <1>4, <2>1, <2>4, <2>5, <4>1 DEF Streams
    <3> QED
      BY <3>1, <3>2
  <2>7. OneSocket'
    <3>1. Older(k)'
      BY <1>3, <2>4 DEF DInv, Known, Older
    <3>2. \A j \in Socket \ {k} : Older(j) => Older(j)'
      BY <1>3, <2>3 DEF Older
    <3> QED
      BY <1>1, <1>4, <2>1, <2>3, <3>1, <3>2 DEF OneSocket, InUse
  <2> QED
    BY <1>3, <1>4, <2>1, <2>2, <2>3, <2>6, <2>7, SocketsKept
<1>6. ASSUME UNCHANGED from, Typed', \A j \in Socket : Streams(j)',
             \A j \in Socket : (InUse(j)' => InUse(j)) /\ (fwd'[j] # "none" => fwd[j] # "none")
      PROVE  DInv'
  <2>1. OneSocket'
    BY <1>1, <1>3, <1>4, <1>6 DEF OneSocket, Older
  <2> QED
    BY <1>3, <1>4, <1>6, <2>1, SocketsKept
<1>7. CASE Takes(k)
  <2>1. /\ fwd[k] = "recv" /\ at[k] < Len(log) /\ UNCHANGED <<pipe, conn, from>>
        /\ fwd' = [fwd EXCEPT ![k] = "send"] /\ at' = [at EXCEPT ![k] = @ + 1]
    BY <1>7 DEF Takes, TaskOnly
  <2>2. Typed'
    <3>1. at[k] + 1 \in Nat
      BY <1>2
    <3>2. at' \in [Socket -> Nat] /\ fwd' \in [Socket -> {"none", "recv", "send", "ended"}]
      BY <1>1, <2>1, <3>1 DEF Typed
    <3> QED
      BY <1>1, <1>4, <1>3, <2>1, <3>2 DEF Typed
  <2>3. /\ \A j \in Socket \ {k} : fwd'[j] = fwd[j] /\ at'[j] = at[j]
        /\ fwd'[k] = "send" /\ at'[k] = at[k] + 1
    BY <1>1, <2>1 DEF Typed
  <2>4. \A j \in Socket : Streams(j)'
    <3>1. ASSUME NEW j \in Socket \ {k} PROVE Streams(j)'
      BY <1>1, <1>3, <1>4, <2>1, <2>3, StreamKept
    <3>2. Streams(k)'
      <4>1. Reached(k)' = Reached(k) /\ Gone(k)' = Gone(k)
        BY <1>4, <2>1 DEF Reached, Gone
      <4>2. /\ conn'[k] = conn[k] /\ pipe'[k] = pipe[k] /\ from'[k] = from[k]
            /\ Got(k)' = Got(k) /\ Len(log') = Len(log)
        BY <1>3, <1>4, <2>1
      <4>3. Streams(k) /\ at[k] \in Nat /\ Len(log) \in Nat
        BY <1>1, <1>2
      <4>4. at'[k] <= Len(log) /\ at[k] < Len(log)
        BY <2>1, <2>3, <4>3
      <4>5. conn[k] # "unused" /\ (~Gone(k) => at'[k] = Reached(k) + 1)
        BY <2>1, <2>3, <4>3 DEF Streams
      <4> QED
        BY <2>3, <4>1, <4>2, <4>3, <4>4, <4>5 DEF Streams
    <3> QED
      BY <3>1, <3>2
  <2> QED
    BY <1>6, <2>1, <2>2, <2>3, <2>4 DEF InUse
<1>8. ASSUME Ends(k), fwd[k] # "none", UNCHANGED <<pipe, conn, from>> PROVE DInv'
  <2>1. fwd' = [fwd EXCEPT ![k] = "ended"] /\ at' = [at EXCEPT ![k] = 0]
    BY <1>8 DEF Ends
  <2>2. Typed'
    BY <1>1, <1>3, <1>4, <1>8, <2>1 DEF Typed
  <2>3. /\ \A j \in Socket \ {k} : fwd'[j] = fwd[j] /\ at'[j] = at[j]
        /\ fwd'[k] = "ended" /\ at'[k] = 0
    BY <1>1, <2>1 DEF Typed
  <2>4. \A j \in Socket : Streams(j)'
    <3>1. ASSUME NEW j \in Socket \ {k} PROVE Streams(j)'
      BY <1>1, <1>3, <1>4, <1>8, <2>3, StreamKept
    <3>2. Streams(k)'
      BY <1>1, <1>2, <1>3, <1>4, <1>8, <2>3 DEF Streams, Reached, Gone
    <3> QED
      BY <3>1, <3>2
  <2> QED
    BY <1>6, <1>8, <2>2, <2>3, <2>4 DEF InUse
<1>9. CASE Lags(k)
  BY <1>8, <1>9 DEF Lags, TaskOnly
<1>10. CASE Sends(k) /\ Gone(k)
  BY <1>8, <1>10 DEF Sends, TaskOnly
<1>11. CASE Sends(k) /\ ~Gone(k)
  <2>1. /\ fwd[k] = "send" /\ UNCHANGED <<at, conn, from>>
        /\ pipe' = [pipe EXCEPT ![k] = Append(@, at[k])] /\ fwd' = [fwd EXCEPT ![k] = "recv"]
    BY <1>11 DEF Sends, TaskOnly
  <2>2. pipe[k] \in Seq(Nat)
    BY <1>1 DEF Typed
  <2>3. /\ Append(pipe[k], at[k]) \in Seq(Nat)
        /\ Len(Append(pipe[k], at[k])) = Len(pipe[k]) + 1
        /\ \A i \in 1..Len(pipe[k]) : Append(pipe[k], at[k])[i] = pipe[k][i]
        /\ Append(pipe[k], at[k])[Len(pipe[k]) + 1] = at[k]
    BY <1>2, <2>2, AppendProperties
  <2>4. Typed'
    BY <1>1, <1>3, <1>4, <2>1, <2>3 DEF Typed
  <2>5. /\ \A j \in Socket \ {k} : fwd'[j] = fwd[j] /\ pipe'[j] = pipe[j]
        /\ fwd'[k] = "recv" /\ pipe'[k] = Append(pipe[k], at[k])
    BY <1>1, <2>1 DEF Typed
  <2>6. at[k] = Reached(k) + 1
    BY <1>1, <1>11, <2>1 DEF Streams
  <2>7. \A j \in Socket : Streams(j)'
    <3>1. ASSUME NEW j \in Socket \ {k} PROVE Streams(j)'
      BY <1>1, <1>3, <1>4, <2>1, <2>5, StreamKept
    <3>2. Streams(k)'
      <4>0. /\ Len(pipe'[k]) = Len(pipe[k]) + 1 /\ pipe'[k][Len(pipe[k]) + 1] = at[k]
            /\ from'[k] = from[k] /\ Got(k)' = Got(k)
            /\ \A i \in 1..Len(pipe[k]) : pipe'[k][i] = pipe[k][i]
        BY <1>4, <2>1, <2>3, <2>5
      <4>1. Reached(k)' = at[k] /\ Len(pipe'[k]) = Len(pipe[k]) + 1
        <5>1. from[k] \in Nat /\ Got(k) \in Nat /\ Len(pipe[k]) \in Nat
          BY <1>2
        <5>2. Reached(k)' = from[k] + Got(k) + (Len(pipe[k]) + 1)
          BY <4>0 DEF Reached
        <5>3. Reached(k) = from[k] + Got(k) + Len(pipe[k])
          BY DEF Reached
        <5>4. Reached(k)' = Reached(k) + 1
          BY <5>1, <5>2, <5>3
        <5> QED
          BY <2>6, <4>0, <5>4
      <4>2. \A i \in 1..Len(pipe'[k]) : pipe'[k][i] = from'[k] + Got(k)' + i
        <5> TAKE i \in 1..Len(pipe'[k])
        <5>1. CASE i \in 1..Len(pipe[k])
          BY <1>1, <4>0, <5>1 DEF Streams
        <5>2. CASE i = Len(pipe[k]) + 1
          <6>1. pipe'[k][i] = at[k]
            BY <4>0, <5>2
          <6>2. from'[k] + Got(k)' + i = Reached(k) + 1
            <7>1. from[k] \in Nat /\ Got(k) \in Nat /\ Len(pipe[k]) \in Nat
              BY <1>2
            <7>2. \A f, g, l \in Nat : f + g + (l + 1) = (f + g + l) + 1
              OBVIOUS
            <7>3. from[k] + Got(k) + (Len(pipe[k]) + 1) = Reached(k) + 1
              BY <7>1, <7>2 DEF Reached
            <7> QED
              BY <4>0, <5>2, <7>3
          <6> QED
            BY <2>6, <6>1, <6>2
        <5> QED
          BY <1>2, <4>1, <5>1, <5>2
      <4>3. at[k] <= Len(log) /\ conn[k] # "unused"
        BY <1>1, <2>1 DEF Streams
      <4> QED
        BY <1>2, <1>4, <2>1, <2>5, <4>1, <4>2, <4>3 DEF Streams
    <3> QED
      BY <3>1, <3>2
  <2> QED
    BY <1>6, <2>1, <2>4, <2>5, <2>7 DEF InUse
<1>12. CASE Breaks(k)
  <2>1. /\ UNCHANGED <<fwd, at, from>> /\ conn[k] \in {"connecting", "open"}
        /\ \E p \in {"failed", "closing"} : conn' = [conn EXCEPT ![k] = p]
        /\ \E q \in Seq(Nat) :
             /\ pipe' = [pipe EXCEPT ![k] = q] /\ Len(q) <= Len(pipe[k])
             /\ Len(q) \in Nat /\ \A i \in 1..Len(q) : q[i] = pipe[k][i]
    <3>1. UNCHANGED <<fwd, at, from>>
      BY <1>12 DEF Breaks, taskVars
    <3>2. CASE conn[k] = "connecting" /\ conn' = [conn EXCEPT ![k] = "failed"]
               /\ pipe' = [pipe EXCEPT ![k] = <<>>]
      <4>1. /\ <<>> \in Seq(Nat) /\ Len(<<>>) \in Nat /\ Len(<<>>) <= Len(pipe[k])
            /\ \A i \in 1..Len(<<>>) : <<>>[i] = pipe[k][i]
        BY <1>2, EmptySeq
      <4>2. conn[k] \in {"connecting", "open"}
            /\ \E p \in {"failed", "closing"} : conn' = [conn EXCEPT ![k] = p]
        BY <3>2
      <4> QED
        BY <3>1, <3>2, <4>1, <4>2
    <3>3. CASE conn[k] = "open" /\ conn' = [conn EXCEPT ![k] = "closing"]
               /\ \E n \in 0..Len(pipe[k]) : pipe' = [pipe EXCEPT ![k] = SubSeq(@, 1, n)]
      <4>1. PICK n \in 0..Len(pipe[k]) : pipe' = [pipe EXCEPT ![k] = SubSeq(@, 1, n)]
        BY <3>3
      <4>2. n \in Nat /\ n <= Len(pipe[k]) /\ \A i \in 1..n : pipe[k][i] \in Nat
        <5>1. pipe[k] \in Seq(Nat) /\ 1..n \subseteq 1..Len(pipe[k])
          BY <1>1, <1>2 DEF Typed
        <5>2. \A i \in 1..Len(pipe[k]) : pipe[k][i] \in Nat
          BY <5>1, ElementOfSeq
        <5> QED
          BY <1>2, <5>1, <5>2
      <4>3. /\ SubSeq(pipe[k], 1, n) \in Seq(Nat) /\ Len(SubSeq(pipe[k], 1, n)) = n
            /\ \A i \in 1..n : SubSeq(pipe[k], 1, n)[i] = pipe[k][i]
        BY <4>2, SubSeqProperties
      <4>4. conn[k] \in {"connecting", "open"}
            /\ \E p \in {"failed", "closing"} : conn' = [conn EXCEPT ![k] = p]
        BY <3>3
      <4> QED
        BY <3>1, <4>1, <4>2, <4>3, <4>4
    <3> QED
      BY <1>12, <3>2, <3>3 DEF Breaks
  <2>2. PICK q \in Seq(Nat) :
             /\ pipe' = [pipe EXCEPT ![k] = q] /\ Len(q) <= Len(pipe[k])
             /\ Len(q) \in Nat /\ \A i \in 1..Len(q) : q[i] = pipe[k][i]
    BY <2>1
  <2>3. PICK p \in {"failed", "closing"} : conn' = [conn EXCEPT ![k] = p]
    BY <2>1
  <2>4. Typed'
    BY <1>1, <1>3, <1>4, <2>1, <2>2, <2>3 DEF Typed
  <2>5. /\ \A j \in Socket \ {k} : conn'[j] = conn[j] /\ pipe'[j] = pipe[j]
        /\ conn'[k] = p /\ pipe'[k] = q
    BY <1>1, <2>2, <2>3 DEF Typed
  <2>6. \A j \in Socket : Streams(j)'
    <3>1. ASSUME NEW j \in Socket \ {k} PROVE Streams(j)'
      BY <1>1, <1>3, <1>4, <2>1, <2>5, StreamKept
    <3>2. Streams(k)'
      <4>1. Gone(k)' /\ conn'[k] # "unused"
        BY <2>5 DEF Gone
      <4>2. Reached(k)' <= Reached(k) /\ Reached(k)' \in Nat
        <5>1. Reached(k)' = from[k] + Got(k) + Len(q)
          BY <1>4, <2>1, <2>5 DEF Reached
        <5>2. Reached(k) = from[k] + Got(k) + Len(pipe[k])
          BY DEF Reached
        <5>3. from[k] \in Nat /\ Got(k) \in Nat /\ Len(pipe[k]) \in Nat
          BY <1>2
        <5>4. Len(q) \in Nat /\ Len(q) <= Len(pipe[k])
          BY <2>2
        <5> QED
          BY <5>1, <5>2, <5>3, <5>4
      <4>3. fwd[k] = "none" => q = <<>>
        BY <1>1, <2>2, EmptySeq DEF Streams
      <4>4. \A i \in 1..Len(q) : q[i] = from[k] + Got(k) + i
        BY <1>1, <1>2, <2>2 DEF Streams
      <4>5. Streams(k) /\ fwd'[k] = fwd[k] /\ at'[k] = at[k] /\ from'[k] = from[k]
        BY <1>1, <2>1
      <4>6. Reached(k)' <= Len(log)
        BY <1>2, <4>2, <4>5 DEF Streams
      <4>7. Heard(k, Len(came))' = Heard(k, Len(came)) /\ Got(k)' = Got(k) /\ log' = log
        BY <1>3, <1>4
      <4> QED
        BY <2>5, <4>1, <4>3, <4>4, <4>5, <4>6, <4>7 DEF Streams
    <3> QED
      BY <3>1, <3>2
  <2> QED
    BY <1>6, <2>1, <2>4, <2>5, <2>6 DEF InUse
<1> QED
  BY <1>5, <1>7, <1>9, <1>10, <1>11, <1>12
-----------------------------------------------------------------------------
(* Steps of the page. *)

LEMMA SocketStep ==
  ASSUME DInv, Mounts \/ Reconnects \/ \E k \in Socket : Opens(k) \/ Closes(k)
  PROVE  DInv'
<1>1. Typed /\ OneSocket /\ \A j \in Socket : Streams(j)
  BY DEF DInv
<1>2. UNCHANGED <<nodeVars, panelVars, taskVars, pipe, came, from, filtering, oldMessage, pending, history>>
  BY DEF Mounts, Reconnects, Opens, Closes, PageOnly
<1>3. /\ UNCHANGED <<statusType, lines, log, fwd, at>>
      /\ \A j, n : Heard(j, n)' = Heard(j, n) /\ Got(j)' = Got(j) /\ Reached(j)' = Reached(j)
  BY <1>2 DEF nodeVars, panelVars, taskVars, Heard, Got, Reached
<1>4. ASSUME Typed', doubled => doubled', OneSocket',
             \A j \in Socket :
               \/ conn'[j] = conn[j]
               \/ conn'[j] # "unused" /\ (fwd[j] = "none" \/ (Gone(j) => Gone(j)'))
      PROVE  DInv'
  <2>1. ASSUME NEW j \in Socket PROVE Streams(j)'
    <3>1. CASE conn'[j] = conn[j]
      BY <1>1, <1>2, <1>3, <3>1, StreamKept
    <3>2. CASE conn'[j] # "unused" /\ (fwd[j] = "none" \/ (Gone(j) => Gone(j)'))
      <4>1. Streams(j)
        BY <1>1
      <4> QED
        BY <1>2, <1>3, <3>2, <4>1 DEF Streams
    <3> QED
      BY <1>4, <3>1, <3>2
  <2> QED
    BY <1>2, <1>4, <2>1, SocketsKept
<1>5. CASE UNCHANGED <<ws, conn, doubled>>
  <2>1. Typed'
    BY <1>1, <1>2, <1>3, <1>5 DEF Typed
  <2>2. OneSocket'
    BY <1>1, <1>2, <1>3, <1>5 DEF OneSocket, InUse, Older
  <2> QED
    BY <1>4, <1>5, <2>1, <2>2
<1>6. CASE Connects /\ ~IsOpen(ws)
  <2> DEFINE k == CHOOSE j \in Socket : conn[j] = "unused"
  <2>1. /\ ~OutOfSockets /\ conn' = [conn EXCEPT ![k] = "connecting"] /\ ws' = k
        /\ doubled' = (doubled \/ \E j \in Socket : conn[j] \in {"connecting", "failed"})
    BY <1>6 DEF Connects
  <2>2. k \in Socket /\ conn[k] = "unused"
    BY <2>1 DEF OutOfSockets
  <2> HIDE DEF k
  <2>3. fwd[k] = "none"
    BY <1>1, <2>2 DEF Streams
  <2>4. /\ conn'[k] = "connecting" /\ \A j \in Socket \ {k} : conn'[j] = conn[j]
        /\ conn' \in [Socket -> {"unused", "connecting", "open", "failed", "closing", "closed"}]
    BY <1>1, <2>1, <2>2 DEF Typed
  <2>5. Typed'
    BY <1>1, <1>2, <1>3, <2>1, <2>2, <2>4 DEF Typed
  <2>6. OneSocket'
    <3> SUFFICES ASSUME ~doubled', NEW j \in Socket, InUse(j)'
                 PROVE  j = ws' /\ (fwd'[j] # "none" => Older(j)')
      BY DEF OneSocket
    <3>1. ~doubled /\ \A i \in Socket : conn[i] \notin {"connecting", "failed"}
      BY <2>1, Zenon
    <3>2. ASSUME j # k PROVE FALSE
      <4>1. InUse(j) /\ conn[j] \in {"open", "closing"}
        BY <1>1, <2>4, <3>1, <3>2 DEF InUse, Typed
      <4>2. j = ws
        BY <1>1, <3>1, <4>1 DEF OneSocket
      <4> QED
        BY <1>6, <4>1, <4>2, BoundsAssumption DEF IsOpen
    <3> QED
      BY <1>3, <2>1, <2>3, <3>2
  <2>7. doubled => doubled'
    BY <2>1, Zenon
  <2> QED
    BY <1>4, <2>2, <2>3, <2>4, <2>5, <2>6, <2>7
<1>7. CASE Mounts
  BY <1>5, <1>6, <1>7 DEF Mounts, Connects
<1>8. CASE Reconnects
  BY <1>5, <1>6, <1>8 DEF Reconnects, Connects
<1>9. ASSUME NEW k \in Socket, NEW p \in {"open", "closed"}, UNCHANGED <<ws, doubled>>,
             conn' = [conn EXCEPT ![k] = p], conn[k] # "unused", conn[k] # "closed",
             Gone(k) => p = "closed"
      PROVE  DInv'
  <2>1. /\ conn'[k] = p /\ \A j \in Socket \ {k} : conn'[j] = conn[j]
        /\ conn' \in [Socket -> {"unused", "connecting", "open", "failed", "closing", "closed"}]
    BY <1>1, <1>9 DEF Typed
  <2>2. Typed'
    BY <1>1, <1>2, <1>3, <1>9, <2>1 DEF Typed
  <2>3. OneSocket'
    BY <1>1, <1>2, <1>3, <1>9, <2>1 DEF OneSocket, InUse, Older
  <2>4. conn'[k] # "unused" /\ (Gone(k) => Gone(k)')
    BY <1>9, <2>1 DEF Gone
  <2> QED
    BY <1>4, <1>9, <2>1, <2>2, <2>3, <2>4
<1>10. ASSUME NEW k \in Socket, Opens(k) PROVE DInv'
  BY <1>9, <1>10 DEF Opens, Gone
<1>11. ASSUME NEW k \in Socket, Closes(k) PROVE DInv'
  BY <1>9, <1>11 DEF Closes, Gone
<1> QED
  BY <1>7, <1>8, <1>10, <1>11

LEMMA ReceiveStep ==
  ASSUME DInv, NEW k \in Socket, Receives(k)
  PROVE  DInv'
<1>n. PICK n : n = Len(came)
  OBVIOUS
<1>i. PICK i : i = Head(pipe[k])
  OBVIOUS
<1>t. PICK text : text = Cleaned[log[i]]
  OBVIOUS
<1> DEFINE console == history \o pending
           repeated == filtering /\ oldMessage = text
           hidden == text \in Blank \/ repeated
<1>1. Typed /\ OneSocket /\ Known /\ Remembers /\ NoGaps /\ InOrder /\ Shows(console)
  BY DEF DInv
<1>2. /\ Len(came) \in Nat /\ Len(log) \in Nat /\ Len(pipe[k]) \in Nat
      /\ from[k] \in Nat /\ at[k] \in Nat /\ Got(k) \in Nat /\ Reached(k) \in Nat
  BY <1>1, ReachedNat
<1>3. /\ conn[k] \in {"open", "closing"} /\ pipe[k] # <<>>
      /\ came' = Append(came, <<k, i>>)
      /\ pending' = IF hidden THEN pending ELSE Append(pending, text)
      /\ oldMessage' = IF filtering THEN text ELSE oldMessage
      /\ pipe' = [pipe EXCEPT ![k] = Tail(@)]
      /\ UNCHANGED <<nodeVars, panelVars, taskVars, from, filtering, conn, ws, history, doubled>>
  BY <1>i, <1>t DEF Receives, PageOnly
<1>4. UNCHANGED <<statusType, lines, log, fwd, at>>
  BY <1>3 DEF nodeVars, panelVars, taskVars
<1>5. Streams(k) /\ \A j \in Socket : Streams(j)
  BY DEF DInv
<1>6. /\ pipe[k] \in Seq(Nat) /\ Len(pipe[k]) >= 1 /\ i \in Nat /\ i = pipe[k][1]
      /\ Tail(pipe[k]) \in Seq(Nat) /\ Len(Tail(pipe[k])) = Len(pipe[k]) - 1
      /\ \A j \in 1..Len(Tail(pipe[k])) : Tail(pipe[k])[j] = pipe[k][j + 1]
  <2>1. pipe[k] \in Seq(Nat)
    BY <1>1 DEF Typed
  <2>2. Len(pipe[k]) >= 1
    BY <1>2, <1>3, <2>1, EmptySeq
  <2> QED
    BY <1>3, <1>i, <2>1, <2>2, HeadTailProperties
<1>7. i = from[k] + Got(k) + 1 /\ i \in 1..Len(log) /\ log[i] \in Message
  <2>1. 1 \in 1..Len(pipe[k])
    BY <1>2, <1>6
  <2>2. i = from[k] + Got(k) + 1
    BY <1>5, <1>6, <2>1 DEF Streams
  <2>3. from[k] + Got(k) + Len(pipe[k]) <= Len(log)
    BY <1>5 DEF Streams, Reached
  <2>4. i >= 1 /\ i <= Len(log)
    <3>1. /\ from[k] \in Nat /\ Got(k) \in Nat /\ Len(pipe[k]) \in Nat /\ Len(log) \in Nat
          /\ Len(pipe[k]) >= 1
      BY <1>2, <1>6
    <3> QED
      BY <2>2, <2>3, <3>1
  <2>5. i \in 1..Len(log) /\ log \in Seq(Message)
    BY <1>1, <1>2, <1>6, <2>4 DEF Typed
  <2> QED
    BY <2>2, <2>5, ElementOfSeq
<1>8. /\ came' \in Seq(Socket \X Nat) /\ Len(came') = n + 1 /\ came' # <<>>
      /\ \A j \in 1..n : came'[j] = came[j]
      /\ came'[n + 1] = <<k, i>>
  <2>1. came \in Seq(Socket \X Nat) /\ <<k, i>> \in Socket \X Nat
    BY <1>1, <1>6 DEF Typed
  <2>2. came' \in Seq(Socket \X Nat)
    BY <1>3, <2>1, AppendProperties
  <2>3. Len(came') = n + 1 /\ (\A j \in 1..n : came'[j] = came[j]) /\ came'[n + 1] = <<k, i>>
    BY <1>3, <1>n, <2>1, AppendProperties
  <2>4. n + 1 # 0 /\ n \in Nat
    BY <1>2, <1>n
  <2> QED
    BY <2>2, <2>3, <2>4, EmptySeq
<1>9. /\ \A j, m : m \in 0..n => Heard(j, m)' = Heard(j, m)
      /\ Heard(k, n + 1)' = Heard(k, n) \cup {n + 1}
      /\ \A j : j # k => Heard(j, n + 1)' = Heard(j, n)
  <2>1. ASSUME NEW j, NEW m \in 0..n PROVE Heard(j, m)' = Heard(j, m)
    <3>1. \A l \in 1..m : came'[l] = came[l]
      BY <1>2, <1>8, <1>n
    <3> QED
      BY <3>1 DEF Heard
  <2>2. 1..(n + 1) = (1..n) \cup {n + 1}
    BY <1>2, <1>n
  <2>3. came'[n + 1][1] = k
    BY <1>8
  <2>4. Heard(k, n + 1)' = Heard(k, n) \cup {n + 1}
    BY <1>8, <2>2, <2>3 DEF Heard
  <2>5. \A j : j # k => Heard(j, n + 1)' = Heard(j, n)
    BY <1>8, <2>2, <2>3 DEF Heard
  <2> QED
    BY <2>1, <2>4, <2>5
<1>10. /\ Cardinality(Heard(k, n + 1)') = Got(k) + 1 /\ Got(k)' = Got(k) + 1
       /\ \A j : j # k => Got(j)' = Got(j)
  <2>1. IsFiniteSet(Heard(k, n)) /\ n + 1 \notin Heard(k, n)
    <3>1. n \in Nat
      BY <1>2, <1>n
    <3>2. IsFiniteSet(Heard(k, n))
      BY <3>1, HeardFinite
    <3> QED
      BY <3>1, <3>2 DEF Heard
  <2>2. Cardinality(Heard(k, n + 1)') = Got(k) + 1
    BY <1>9, <2>1, FS_AddElement, <1>n DEF Got
  <2>3. \A j : Got(j)' = Cardinality(Heard(j, n + 1)')
    BY <1>8 DEF Got, Heard
  <2> QED
    BY <1>9, <2>2, <2>3, <1>n DEF Got
<1>11. Typed'
  <2>0. text \in Entry
    BY <1>7, <1>t DEF Entry
  <2>1. pending' \in Seq(Entry)
    BY <1>1, <1>3, <2>0, AppendProperties DEF Typed
  <2>2. pipe' \in [Socket -> Seq(Nat)]
    BY <1>1, <1>3, <1>6 DEF Typed
  <2> QED
    BY <1>1, <1>3, <1>4, <1>8, <2>1, <2>2 DEF Typed
<1>12. \A j \in Socket : Streams(j)'
  <2>1. ASSUME NEW j \in Socket \ {k} PROVE Streams(j)'
    <3>1. Streams(j) /\ pipe'[j] = pipe[j] /\ Got(j)' = Got(j) /\ Reached(j)' = Reached(j)
      BY <1>1, <1>3, <1>5, <1>10 DEF Typed, Reached
    <3>2. Heard(j, Len(came))' = Heard(j, Len(came))
      BY <1>8, <1>9, <1>n DEF Heard
    <3> QED
      BY <1>3, <1>4, <3>1, <3>2 DEF Streams, Gone
  <2>2. Streams(k)'
    <3>1. pipe'[k] = Tail(pipe[k]) /\ Len(pipe'[k]) = Len(pipe[k]) - 1
      BY <1>1, <1>3, <1>6 DEF Typed
    <3>2. Reached(k)' = Reached(k)
      <4>1. Reached(k)' = from[k] + (Got(k) + 1) + (Len(pipe[k]) - 1)
        BY <1>3, <1>10, <3>1 DEF Reached
      <4>2. Reached(k) = from[k] + Got(k) + Len(pipe[k])
        BY DEF Reached
      <4>3. from[k] \in Nat /\ Got(k) \in Nat /\ Len(pipe[k]) \in Nat
        BY <1>2
      <4>4. \A f, g, l \in Nat : f + (g + 1) + (l - 1) = f + g + l
        OBVIOUS
      <4> QED
        BY <4>1, <4>2, <4>3, <4>4
    <3>3. fwd[k] # "none"
      BY <1>3, <1>5 DEF Streams
    <3>4. ASSUME NEW j \in 1..Len(pipe'[k]) PROVE pipe'[k][j] = from'[k] + Got(k)' + j
      <4>1. j + 1 \in 1..Len(pipe[k]) /\ pipe'[k][j] = pipe[k][j + 1]
        <5>1. Len(pipe[k]) \in Nat /\ j \in 1..(Len(pipe[k]) - 1)
          BY <1>2, <3>1
        <5>2. j + 1 \in 1..Len(pipe[k])
          BY <5>1
        <5> QED
          BY <1>6, <3>1, <5>2
      <4>2. pipe'[k][j] = from[k] + Got(k) + (j + 1)
        BY <1>5, <4>1 DEF Streams
      <4>3. from[k] \in Nat /\ Got(k) \in Nat /\ j \in Nat
        BY <1>2
      <4>4. from'[k] = from[k] /\ Got(k)' = Got(k) + 1
        BY <1>3, <1>10
      <4>5. from[k] + Got(k) + (j + 1) = from[k] + (Got(k) + 1) + j
        BY <4>3
      <4> QED
        BY <4>1, <4>2, <4>4, <4>5
    <3> QED
      BY <1>3, <1>4, <1>5, <3>2, <3>3, <3>4 DEF Streams, Gone
  <2> QED
    BY <2>1, <2>2
<1>13. Known'
  <2> SUFFICES ASSUME NEW j \in 1..(n + 1) PROVE came'[j][2] \in 1..Len(log)
    BY <1>4, <1>8 DEF Known
  <2>1. CASE j \in 1..n
    BY <1>1, <1>8, <2>1, <1>n DEF Known
  <2>2. CASE j = n + 1
    BY <1>7, <1>8, <2>2
  <2> QED
    BY <1>2, <2>1, <2>2, <1>n
<1>14. NoGaps'
  <2> SUFFICES ASSUME NEW j \in 1..(n + 1)
               PROVE  (came[j][2] = from[came[j][1]] + Cardinality(Heard(came[j][1], j)))'
    BY <1>8 DEF NoGaps
  <2>1. CASE j \in 1..n
    <3>1. came'[j] = came[j] /\ Heard(came[j][1], j)' = Heard(came[j][1], j)
      <4>1. came'[j] = came[j]
        BY <1>8, <2>1, <1>n
      <4>2. came'[j][1] = came[j][1]
        BY <4>1
      <4> QED
        BY <1>9, <2>1, <4>1, <4>2, <1>n
    <3> QED
      BY <1>1, <1>3, <2>1, <3>1, <1>n DEF NoGaps
  <2>2. CASE j = n + 1
    <3>1. came'[j][1] = k /\ came'[j][2] = i /\ Cardinality(Heard(k, j)') = Got(k) + 1
      BY <1>8, <1>10, <2>2
    <3>2. Cardinality(Heard(came[j][1], j))' = Got(k) + 1
      BY <3>1 DEF Heard
    <3>3. from[k] \in Nat /\ Got(k) \in Nat
      BY <1>2
    <3>4. i = from[k] + (Got(k) + 1)
      BY <1>7, <3>3
    <3> QED
      BY <1>3, <3>1, <3>2, <3>4
  <2> QED
    BY <1>2, <2>1, <2>2, <1>n
<1>15. k = ws \/ doubled
  BY <1>1, <1>3 DEF OneSocket, InUse
<1>16. InOrder'
  <2>1. CASE doubled
    BY <1>3, <2>1 DEF InOrder
  <2>2. CASE ~doubled
    <3> SUFFICES ASSUME NEW j \in 2..(n + 1) PROVE came'[j - 1][2] < came'[j][2]
      BY <1>8 DEF InOrder
    <3>1. CASE j \in 2..n
      <4>1. j - 1 \in 1..n /\ j \in 1..n
        BY <1>2, <3>1, <1>n
      <4> QED
        BY <1>1, <1>8, <2>2, <3>1, <4>1, <1>n DEF InOrder
    <3>2. CASE j = n + 1
      <4>0. n \in 1..n /\ j - 1 = n
        BY <1>2, <3>2, <1>n
      <4>1. n \in 1..n /\ j - 1 = n /\ came'[n] = came[n] /\ came'[j][2] = i
        BY <1>8, <3>2, <4>0, <1>n
      <4>2. CASE came[n][1] = k
        <5>1. came[n][2] = from[k] + Got(k)
          BY <1>1, <4>1, <4>2, <1>n DEF NoGaps, Got
        <5>2. from[k] \in Nat /\ Got(k) \in Nat
          BY <1>2
        <5>3. came[n][2] < i
          BY <1>7, <5>1, <5>2
        <5> QED
          BY <4>1, <5>3
      <4>3. CASE came[n][1] # k
        <5>1. fwd[k] # "none" /\ InUse(k)
          BY <1>3, <1>5 DEF Streams, InUse
        <5>2. Older(k)
          BY <1>1, <2>2, <5>1 DEF OneSocket
        <5>3. came[n][2] <= from[k] /\ came[n][2] \in Nat
          BY <1>1, <4>1, <4>3, <5>2, <1>n DEF Older, Known
        <5>4. from[k] \in Nat /\ Got(k) \in Nat
          BY <1>2
        <5>5. came[n][2] < i
          BY <1>7, <5>3, <5>4
        <5> QED
          BY <4>1, <5>5
      <4> QED
        BY <4>2, <4>3
    <3> QED
      BY <1>2, <3>1, <3>2, <1>n
  <2> QED
    BY <2>1, <2>2
<1>17. OneSocket'
  <2> SUFFICES ASSUME ~doubled, NEW j \in Socket, InUse(j)
               PROVE  j = ws /\ (fwd[j] # "none" => Older(j)')
    BY <1>3, <1>4 DEF OneSocket, InUse
  <2>1. j = ws /\ j = k /\ (fwd[k] # "none" => Older(k))
    BY <1>1, <1>15 DEF OneSocket
  <2>2. ASSUME Older(k) PROVE Older(k)'
    <3> SUFFICES ASSUME NEW l \in 1..(n + 1), came'[l][1] # k PROVE came'[l][2] <= from[k]
      BY <1>3, <1>8 DEF Older
    <3>1. l \in 1..n
      BY <1>2, <1>8, <1>n
    <3> QED
      BY <1>8, <2>2, <3>1, <1>n DEF Older
  <2> QED
    BY <2>1, <2>2
<1>18. (\A j \in 1..n : Told(j)' = Told(j)) /\ Told(n + 1)' = text
  BY <1>4, <1>8, <1>t DEF Told
<1>19. Remembers'
  BY <1>1, <1>3, <1>8, <1>18 DEF Remembers
<1>20. Kept' = IF hidden THEN Kept ELSE Kept \cup {n + 1}
  <2>1. repeated <=> ~(filtering => n + 1 = 1 \/ Told(n + 1)' # Told((n + 1) - 1)')
    <3>1. CASE n = 0
      <4>1. came = <<>>
        BY <1>1, <3>1, EmptySeq, <1>n DEF Typed
      <4>2. filtering => oldMessage = NoSocket
        BY <1>1, <4>1 DEF Remembers
      <4> QED
        BY <1>7, <1>t, <3>1, <4>2, BoundsAssumption DEF Message
    <3>2. CASE n # 0
      <4>1. (n + 1) - 1 = n /\ n + 1 # 1 /\ n \in 1..n
        BY <1>2, <3>2, <1>n
      <4>2. came # <<>>
        BY <3>2, EmptySeq, <1>n
      <4>3. filtering => oldMessage = Told(n)
        BY <1>1, <4>2, <1>n DEF Remembers
      <4>4. Told((n + 1) - 1)' = Told(n)
        BY <1>18, <4>1
      <4> QED
        BY <1>18, <4>1, <4>3, <4>4
    <3> QED
      BY <3>1, <3>2
  <2>2. ASSUME NEW j \in 1..n
        PROVE  /\ (filtering => j = 1 \/ Told(j)' # Told(j - 1)') <=>
                  (filtering => j = 1 \/ Told(j) # Told(j - 1))
               /\ Told(j)' \notin Blank <=> Told(j) \notin Blank
    <3>1. j # 1 => j - 1 \in 1..n
      BY <1>2, <1>n
    <3> QED
      BY <1>18, <3>1
  <2>3. 1..(n + 1) = (1..n) \cup {n + 1}
    BY <1>2, <1>n
  <2>4. Kept' = {j \in 1..(n + 1) : /\ Told(j)' \notin Blank
                                    /\ filtering => j = 1 \/ Told(j)' # Told(j - 1)'}
    BY <1>3, <1>8 DEF Kept, Opening, Told
  <2>5. Kept = {j \in 1..n : /\ Told(j) \notin Blank
                             /\ filtering => j = 1 \/ Told(j) # Told(j - 1)}
    BY <1>n DEF Kept, Opening
  <2> HIDE DEF repeated
  <2> QED
    BY <1>18, <2>1, <2>2, <2>3, <2>4, <2>5
<1>21. Kept \subseteq 1..n /\ n + 1 \notin Kept
  BY <1>2, <1>n DEF Kept
<1>22. IsFiniteSet(Kept) /\ Cardinality(Kept) \in Nat
  BY <1>1, <1>2, KeptFinite
<1>23. console \in Seq(Entry) /\ Len(console) = Cardinality(Kept)
       /\ \A j \in Kept : console[Cardinality({l \in Kept : l <= j})] = Told(j)
  BY <1>1, ConcatProperties DEF Typed, Shows
<1>24. CASE hidden
  <2>1. Kept' = Kept /\ (history \o pending)' = console
    BY <1>3, <1>20, <1>24
  <2>2. Shows(history \o pending)'
    BY <1>18, <1>21, <1>23, <2>1 DEF Shows
  <2> QED
    BY <1>11, <1>12, <1>13, <1>14, <1>16, <1>17, <1>19, <2>2 DEF DInv
<1>25. CASE ~hidden
  <2>0. text \in Entry
    BY <1>7, <1>t DEF Entry
  <2>1. Kept' = Kept \cup {n + 1} /\ (history \o pending)' = history \o Append(pending, text)
    BY <1>3, <1>20, <1>25
  <2>2. history \o Append(pending, text) = Append(console, text)
    <3>1. <<text>> \in Seq(Entry) /\ history \in Seq(Entry) /\ pending \in Seq(Entry)
      BY <1>1, <2>0 DEF Typed
    <3>2. history \o (pending \o <<text>>) = (history \o pending) \o <<text>>
      BY <3>1, ConcatAssociative
    <3> QED
      BY <1>23, <2>0, <3>1, <3>2, AppendIsConcat
  <2> DEFINE m == Cardinality(Kept)
             next == (history \o pending)'
  <2>3. /\ next = Append(console, text) /\ Len(next) = m + 1
        /\ \A j \in 1..m : next[j] = console[j]
        /\ next[m + 1] = text
    BY <1>23, <2>0, <2>1, <2>2, AppendProperties
  <2>4. Cardinality(Kept') = m + 1
    BY <1>21, <1>22, <2>1, FS_AddElement
  <2> HIDE DEF next, console
  <2>5. ASSUME NEW j \in Kept' PROVE next[Cardinality({l \in Kept' : l <= j})] = Told(j)'
    <3>1. CASE j \in Kept
      <4>1. j \in 1..n /\ j \in Nat
        BY <1>21, <3>1
      <4>2. {l \in Kept' : l <= j} = {l \in Kept : l <= j}
        <5>1. ~(n + 1 <= j)
          BY <1>2, <4>1, <1>n
        <5> QED
          BY <2>1, <5>1
      <4>3. Cardinality({l \in Kept : l <= j}) \in 1..m
        <5> DEFINE r == Cardinality({l \in Kept : l <= j})
        <5>1. r \in Nat /\ r <= m /\ r >= 1
          BY <1>1, <3>1, <4>1, KeptFinite
        <5> QED
          BY <1>22, <5>1
      <4> QED
        BY <1>18, <1>23, <2>3, <3>1, <4>1, <4>2, <4>3
    <3>2. CASE j = n + 1
      <4>1. \A l \in Kept' : l <= j
        BY <1>2, <1>21, <2>1, <3>2, <1>n
      <4>2. {l \in Kept' : l <= j} = Kept'
        BY <4>1
      <4> QED
        BY <1>18, <2>3, <2>4, <3>2, <4>2
    <3> QED
      BY <2>1, <3>1, <3>2
  <2>6. Shows(history \o pending)'
    BY <2>3, <2>4, <2>5 DEF Shows, next
  <2> QED
    BY <1>11, <1>12, <1>13, <1>14, <1>16, <1>17, <1>19, <2>6 DEF DInv
<1> QED
  BY <1>24, <1>25

-----------------------------------------------------------------------------
LEMMA DInvInductive == DInv /\ [Next]_vars => DInv'
<1> SUFFICES ASSUME DInv, [Next]_vars PROVE DInv'
  OBVIOUS
<1>1. CASE UNCHANGED vars
  <2>1. UNCHANGED <<taskVars, pipe, conn, ws, came, from, filtering, doubled, oldMessage,
                    statusType, lines, history, pending, log>>
    BY <1>1 DEF vars, nodeVars, panelVars, taskVars, pageVars
  <2>2. Len(log) \in Nat /\ Typed
    BY LenProperties DEF DInv, Typed
  <2> QED
    BY <2>1, <2>2, ElseKept DEF Typed
<1>2. CASE PrintsLine \/ Changes \/ Answers \/ LinkPrints \/ LinkReplies \/ Tick \/ Flushes
  BY <1>2, NodeStep
<1>3. CASE Mounts \/ Reconnects
  BY <1>3, SocketStep
<1>4. ASSUME NEW k \in Socket,
             Subscribes(k) \/ Takes(k) \/ Lags(k) \/ Sends(k) \/ Breaks(k)
      PROVE  DInv'
  BY <1>4, TaskStep
<1>5. ASSUME NEW k \in Socket, Opens(k) \/ Closes(k) PROVE DInv'
  BY <1>5, SocketStep
<1>6. ASSUME NEW k \in Socket, Receives(k) PROVE DInv'
  BY <1>6, ReceiveStep
<1> QED
  BY <1>1, <1>2, <1>3, <1>4, <1>5, <1>6 DEF Next

\* What is under way on a socket always follows what has come over it, while
\* only one socket is in use unless the page has opened a second one: the
\* inductive invariant (handle_socket, main.rs:2190; connectWebSocket,
\* serverConsoleStore.svelte.ts:140).
THEOREM StreamInvariant == Spec => []DInv
<1> QED
  BY DInvInit, DInvInductive, PTL DEF Spec

\* The console has what was published since each socket subscribed, without a
\* gap, in order unless the page opened one socket beside another, and hides
\* only what equals the message before it, however the batches, the lag of the
\* receivers and the breaks of the connections fall (handle_socket,
\* main.rs:2190; filterMessage, serverConsoleStore.svelte.ts:188).
THEOREM ConsoleHolds == Spec => []ConsoleFaithful
<1>1. DInv => ConsoleFaithful
  BY DEF DInv, ConsoleFaithful
<1> QED
  BY <1>1, StreamInvariant, PTL

\* The half of Settles without time, for the console: once nothing is under way on
\* an open socket and its task has nothing to take, the page has had everything
\* that was published since the socket subscribed.  No line waits for a later one,
\* as it would if the task or the page held some back (handle_socket,
\* main.rs:2190).
THEOREM NothingHeldBack ==
  Spec => [](\A k \in Socket :
    conn[k] = "open" /\ fwd[k] = "recv" /\ at[k] = Len(log) /\ pipe[k] = <<>> =>
      Cardinality(Heard(k, Len(came))) = Len(log) - from[k])
<1>1. DInv => \A k \in Socket :
        conn[k] = "open" /\ fwd[k] = "recv" /\ at[k] = Len(log) /\ pipe[k] = <<>> =>
          Cardinality(Heard(k, Len(came))) = Len(log) - from[k]
  <2> SUFFICES ASSUME DInv, NEW k \in Socket,
                      conn[k] = "open", fwd[k] = "recv", at[k] = Len(log), pipe[k] = <<>>
               PROVE  Cardinality(Heard(k, Len(came))) = Len(log) - from[k]
    OBVIOUS
  <2>1. at[k] = from[k] + Got(k) + Len(pipe[k]) /\ Len(pipe[k]) = 0
    BY EmptySeq DEF DInv, Streams, Gone, Reached
  <2>2. Got(k) \in Nat /\ from[k] \in Nat
    BY ReachedNat DEF DInv
  <2> QED
    BY <2>1, <2>2 DEF Got
<1> QED
  BY <1>1, StreamInvariant, PTL
=============================================================================

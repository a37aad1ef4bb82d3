--------------------------- MODULE PgStoreProofs ---------------------------
(***************************************************************************)
(* Proofs about PgStore, for every set of tasks, of names and of values,   *)
(* and for any number of default buttons.                                  *)
(***************************************************************************)
EXTENDS PgStore, TLAPS

USE PgStoreAssumption

\* Where a task stands fits the operation it performs, and what works on the
\* buttons or the settings holds the lock.
Fits(t) ==
  /\ pc[t] = "idle" <=> op[t] = NoOp
  /\ pc[t] = "return" <=> answer[t] # NoAnswer
  /\ pc[t] = "select" => op[t] \in RowOp
  /\ pc[t] \in {"look", "set", "clear", "restore"} =>
       op[t] \in ButtonOp /\ op[t].kind \in {"restore", "toggle"}
  /\ pc[t] \in {"look", "set"} => op[t].kind = "toggle"
  /\ pc[t] = "statement" /\ op[t] \in ButtonOp => op[t].kind \in {"link", "settings"}
  /\ op[t] \in ButtonOp => t \in Handler /\ lock = t
  /\ pc[t] \notin {"restore", "return"} => count[t] = 0
  /\ pc[t] = "restore" => count[t] < Len(Button)
  /\ process = "down" => pc[t] = "idle"

Standing == \A t \in Task : Fits(t)

\* The buttons, unless work on them was cut off: those inserted so far while a
\* reset is at it, all of them otherwise.
InsertedSoFar(n) == {DefaultRow(Button[i]) : i \in 1..n}

Undisturbed ==
  ~partial =>
    /\ \A s \in late : s \in RowOp \/ s.kind = "settings"
    /\ \A t \in Task : pc[t] = "restore" => buttons = InsertedSoFar(count[t])
    /\ (\A t \in Task : pc[t] # "restore") => \A n \in Label : HasButton(n)

IInv == TypeOK /\ Standing /\ Undisturbed /\ ResetAnswered

-----------------------------------------------------------------------------
(* Types. *)

\* A row is there once: running a statement that works keeps it so.
Unique(d) == \A r, q \in d : r.table = q.table /\ r.name = q.name => r = q

LEMMA EffectUnique ==
  ASSUME NEW d \in SUBSET Row, Unique(d), NEW o \in RowOp, ~Refused(d, o)
  PROVE  Effect(d, o) \in SUBSET Row /\ Unique(Effect(d, o))
<1> DEFINE new(r) == [r EXCEPT !.kept = IF Leaves(o) THEN @ ELSE o.kept,
                               !.edited = o.edited]
<1>1. CASE o.kind = "create"
  <2>1. Effect(d, o) = d \cup {Inserted(o)} /\ Keyed(d, o) = {}
    BY <1>1 DEF Effect, Refused
  <2>2. Inserted(o) \in Row /\ Inserted(o).table = o.table /\ Inserted(o).name = o.name
    BY DEF Inserted, Row, RowOp
  <2> QED
    BY <2>1, <2>2 DEF Unique, Keyed
<1>2. CASE o.kind = "remove"
  <2>1. Effect(d, o) = d \ Keyed(d, o)
    BY <1>2 DEF Effect
  <2> QED
    BY <2>1 DEF Unique
<1>3. CASE o.kind = "edit"
  <2>1. Effect(d, o) = (d \ Keyed(d, o)) \cup {new(r) : r \in Keyed(d, o)}
    BY <1>3 DEF Effect
  <2>2. ASSUME NEW r \in Keyed(d, o)
        PROVE  new(r) \in Row /\ new(r).table = o.table /\ new(r).name = o.name
    BY <2>2 DEF Keyed, Row, RowOp
  <2>3. \A r, q \in Keyed(d, o) : r = q
    BY DEF Keyed, Unique
  <2> DEFINE kept == d \ Keyed(d, o)
             edits == {new(r) : r \in Keyed(d, o)}
  <2>4. \A r \in edits : r \in Row /\ r.table = o.table /\ r.name = o.name
    BY <2>2
  <2>5. \A r, q \in edits : r = q
    BY <2>3
  <2>6. \A r \in kept : r \in Row /\ r \in d /\ ~(r.table = o.table /\ r.name = o.name)
    BY DEF Keyed
  <2> HIDE DEF new, edits, kept
  <2>7. (kept \cup edits) \in SUBSET Row
    BY <2>4, <2>6
  <2>8. Unique(kept \cup edits)
    BY <2>4, <2>5, <2>6 DEF Unique
  <2> QED
    BY <2>1, <2>7, <2>8 DEF kept, edits
<1> QED
  BY <1>1, <1>2, <1>3 DEF RowOp

DataOK ==
  /\ rows \in SUBSET Row /\ Unique(rows)
  /\ buttons \in SUBSET [name : Label, link : Link]
  /\ \A b, c \in buttons : b.name = c.name => b = c
  /\ toggled \in BOOLEAN

\* A statement that runs leaves well-formed tables.
LEMMA RunsData ==
  ASSUME DataOK, NEW s \in RowOp \cup ButtonStatement, Works(s), Runs(s)
  PROVE  DataOK'
<1>1. CASE s \in RowOp
  <2>1. rows' = Effect(rows, s) /\ buttons' = buttons /\ toggled' = toggled
    BY <1>1 DEF Runs
  <2>2. rows' \in SUBSET Row /\ Unique(rows)'
    BY <1>1, <2>1, EffectUnique DEF DataOK, Works, Unique
  <2> QED
    BY <2>1, <2>2 DEF DataOK
<1>2. CASE s \notin RowOp
  <2>1. rows' = rows /\ buttons' = ButtonsAfter(s)
    BY <1>2 DEF Runs
  <2>2. s.kind \in {"clear", "default", "link", "settings"}
    BY <1>2 DEF ButtonStatement, Clear, AddDefault
  <2>3. toggled' \in BOOLEAN
    <3>1. CASE s.kind = "settings"
      <4>1. s \in [kind : {"settings"}, toggled : BOOLEAN]
        BY <1>2, <3>1 DEF ButtonStatement, Clear, AddDefault
      <4> QED
        BY <1>2, <3>1, <4>1 DEF Runs
    <3> QED
      BY <1>2, <3>1 DEF Runs, DataOK
  <2>4. CASE s.kind = "clear"
    <3>1. buttons' = {}
      BY <2>1, <2>4 DEF ButtonsAfter
    <3> QED
      BY <2>1, <2>3, <3>1 DEF DataOK, Unique
  <2>5. CASE s.kind = "default"
    <3>1. s.name \in Label /\ ~HasButton(s.name)
      BY <1>2, <2>5 DEF ButtonStatement, Clear, AddDefault, Works
    <3>2. buttons' = buttons \cup {DefaultRow(s.name)}
      BY <2>1, <2>5 DEF ButtonsAfter
    <3>3. DefaultRow(s.name) \in [name : Label, link : Link]
          /\ DefaultRow(s.name).name = s.name
      BY <3>1 DEF DefaultRow
    <3> QED
      BY <2>1, <2>3, <3>1, <3>2, <3>3 DEF DataOK, HasButton, Unique
  <2>6. CASE s.kind = "link"
    <3>1. s.link \in Link
      BY <1>2, <2>6 DEF ButtonStatement, Clear, AddDefault
    <3> DEFINE set(b) == IF b.name = s.name THEN [b EXCEPT !.link = s.link] ELSE b
    <3>2. buttons' = {set(b) : b \in buttons}
      BY <2>1, <2>6 DEF ButtonsAfter
    <3>3. \A b \in buttons : set(b) \in [name : Label, link : Link] /\ set(b).name = b.name
      BY <3>1 DEF DataOK
    <3> HIDE DEF set
    <3>4. buttons' \in SUBSET [name : Label, link : Link]
      BY <3>2, <3>3
    <3>5. (\A b, c \in buttons : b.name = c.name => b = c)'
      BY <3>2, <3>3 DEF DataOK
    <3> QED
      BY <2>1, <2>3, <3>4, <3>5 DEF DataOK, Unique
  <2>7. CASE s.kind = "settings"
    <3>1. buttons' = buttons
      BY <2>1, <2>7 DEF ButtonsAfter
    <3> QED
      BY <2>1, <2>3, <3>1 DEF DataOK, Unique
  <2> QED
    BY <2>2, <2>4, <2>5, <2>6, <2>7
<1> QED
  BY <1>1, <1>2

\* What a task sends is a statement.
LEMMA SentType ==
  ASSUME TypeOK, NEW t \in Task, Fits(t), Sends(t)
  PROVE  Sent(t) \in RowOp \cup ButtonStatement
<1>1. CASE pc[t] = "set"
  BY <1>1 DEF Sent, SetFlag, ButtonStatement, TypeOK
<1>2. CASE pc[t] = "clear"
  BY <1>2 DEF Sent, ButtonStatement
<1>3. CASE pc[t] = "restore"
  <2>1. Button[count[t] + 1] \in Label
    BY <1>3 DEF Fits, TypeOK
  <2> QED
    BY <1>3, <2>1 DEF Sent, ButtonStatement
<1>4. CASE pc[t] = "statement"
  <2>1. Sent(t) = op[t] /\ op[t] \in RowOp \cup ButtonOp
    BY <1>4 DEF Sent, Fits, TypeOK
  <2> QED
    BY <1>4, <2>1 DEF Fits, ButtonOp, ButtonStatement
<1> QED
  BY <1>1, <1>2, <1>3, <1>4 DEF Sends

Typed ==
  /\ DataOK
  /\ late \in SUBSET (RowOp \cup ButtonStatement)
  /\ process \in {"down", "booting", "serving"}
  /\ lock \in Handler \cup {Free}
  /\ pc \in [Task -> Stage]
  /\ op \in [Task -> RowOp \cup ButtonOp \cup {NoOp}]
  /\ flag \in [Task -> BOOLEAN]
  /\ count \in [Task -> 0..Len(Button)]
  /\ answer \in [Task -> {NoAnswer, "created", "error"}]
  /\ partial \in BOOLEAN
  /\ cuts \in 0..MaxCuts

LEMMA Parts == (TypeOK <=> Typed) /\ (TypeOK' <=> Typed')
<1>1. TypeOK <=> Typed
  BY DEF TypeOK, Typed, DataOK, Unique
<1>2. TypeOK' <=> Typed'
  BY DEF TypeOK, Typed, DataOK, Unique
<1> QED
  BY <1>1, <1>2

LEMMA InitTypes == Init => TypeOK
<1> SUFFICES ASSUME Init PROVE TypeOK
  OBVIOUS
<1>1. \A n \in Label : /\ DefaultRow(n) \in [name : Label, link : Link]
                       /\ DefaultRow(n).name = n
  BY DEF DefaultRow
<1>2. rows = {} /\ buttons = {DefaultRow(n) : n \in Label} /\ toggled = FALSE
  BY DEF Init, Defaults
<1>3. DataOK
  <2>1. \A b \in buttons : b \in [name : Label, link : Link] /\ b = DefaultRow(b.name)
    BY <1>1, <1>2
  <2> QED
    BY <1>2, <2>1 DEF DataOK, Unique
<1>4. cuts \in 0..MaxCuts /\ count \in [Task -> 0..Len(Button)]
  BY DEF Init
<1> QED
  BY <1>3, <1>4, Parts DEF Typed, Init, Stage, NoAnswer

LEMMA Moves ==
  ASSUME TypeOK, NEW t \in Task, NEW a \in {"created", "error"}, NEW stage \in Stage,
         Answers(t, a) \/ Goes(t, stage)
  PROVE  /\ pc' \in [Task -> Stage]
         /\ answer' \in [Task -> {NoAnswer, "created", "error"}]
<1>1. "return" \in Stage
  BY DEF Stage
<1>2. pc \in [Task -> Stage] /\ answer \in [Task -> {NoAnswer, "created", "error"}]
  BY DEF TypeOK
<1>3. CASE Answers(t, a)
  BY <1>1, <1>2, <1>3 DEF Answers
<1>4. CASE Goes(t, stage)
  BY <1>2, <1>4 DEF Goes
<1> QED
  BY <1>3, <1>4

\* The types after a step of a task that is not cut off.
LEMMA ProceedTypes ==
  ASSUME TypeOK, NEW t \in Task, Fits(t), Proceed(t)
  PROVE  TypeOK'
<1> USE Parts DEF NoAnswer, Typed
<1>0. "idle" \in Stage /\ "return" \in Stage /\ "statement" \in Stage /\ "set" \in Stage
      /\ "clear" \in Stage /\ "restore" \in Stage
  BY DEF Stage
<1>1. CASE Select(t)
  <2>1. DataOK'
    BY <1>1 DEF Select, data, DataOK, Unique
  <2>2. pc' \in [Task -> Stage] /\ answer' \in [Task -> {NoAnswer, "created", "error"}]
    BY <1>0, <1>1, Moves DEF Select
  <2> QED
    BY <1>1, <2>1, <2>2 DEF Select
<1>2. CASE Statement(t)
  <2>1. ASSUME Works(op[t]) PROVE DataOK'
    <3>1. pc[t] = "statement" /\ Sends(t) /\ Sent(t) = op[t] /\ Runs(op[t])
      BY <1>2, <2>1 DEF Statement, Sends, Sent
    <3>2. DataOK'
      BY <2>1, <3>1, SentType, RunsData
    <3> QED
      BY <3>2
  <2>2. ASSUME ~Works(op[t]) PROVE DataOK'
    BY <1>2, <2>2 DEF Statement, data, DataOK, Unique
  <2>3. DataOK'
    BY <2>1, <2>2
  <2>4. pc' \in [Task -> Stage] /\ answer' \in [Task -> {NoAnswer, "created", "error"}]
    BY <1>0, <1>2, Moves DEF Statement
  <2> QED
    BY <1>2, <2>3, <2>4 DEF Statement
<1>3. CASE Look(t)
  <2>1. DataOK'
    BY <1>3 DEF Look, data, DataOK, Unique
  <2>2. flag' \in [Task -> BOOLEAN]
    BY <1>3 DEF Look, DataOK
  <2> QED
    BY <1>0, <1>3, <2>1, <2>2 DEF Look, Goes
<1>4. CASE Set(t)
  <2>1. DataOK'
    BY <1>4 DEF Set, DataOK, Unique
  <2>2. pc' \in [Task -> Stage] /\ answer' \in [Task -> {NoAnswer, "created", "error"}]
    BY <1>0, <1>4, Moves DEF Set
  <2> QED
    BY <1>4, <2>1, <2>2 DEF Set
<1>5. CASE ClearButtons(t)
  <2>1. DataOK'
    BY <1>5 DEF ClearButtons, DataOK, Unique
  <2> QED
    BY <1>0, <1>5, <2>1 DEF ClearButtons, Goes
<1>6. CASE Restore(t)
  <2> DEFINE n == Button[count[t] + 1]
  <2>1. CASE HasButton(n)
    <3>1. DataOK' /\ count' = count
      BY <1>6, <2>1 DEF Restore, DataOK, Unique
    <3>2. pc' \in [Task -> Stage] /\ answer' \in [Task -> {NoAnswer, "created", "error"}]
      BY <1>0, <1>6, <2>1, Moves DEF Restore
    <3> QED
      BY <1>6, <3>1, <3>2 DEF Restore
  <2>2. CASE ~HasButton(n)
    <3>1. pc[t] = "restore" /\ count[t] \in Nat /\ count[t] < Len(Button)
      BY <1>6 DEF Restore, Fits
    <3>2. n \in Label
      BY <3>1
    <3>3. buttons' = buttons \cup {DefaultRow(n)} /\ rows' = rows /\ toggled' = toggled
      BY <1>6, <2>2 DEF Restore
    <3>4. DefaultRow(n) \in [name : Label, link : Link] /\ DefaultRow(n).name = n
      BY <3>2 DEF DefaultRow
    <3>5. DataOK'
      BY <2>2, <3>3, <3>4 DEF DataOK, HasButton, Unique
    <3>6. count[t] + 1 \in 0..Len(Button)
      BY <3>1
    <3>7. count' \in [Task -> 0..Len(Button)]
      BY <1>6, <2>2, <3>6 DEF Restore
    <3>8. pc' \in [Task -> Stage] /\ answer' \in [Task -> {NoAnswer, "created", "error"}]
      BY <1>0, <1>6, <2>2, Moves DEF Restore
    <3> QED
      BY <1>6, <3>5, <3>7, <3>8 DEF Restore
  <2> QED
    BY <2>1, <2>2
<1>7. CASE Fail(t)
  <2>1. late' \in SUBSET (RowOp \cup ButtonStatement)
    BY <1>7, SentType DEF Fail
  <2>2. cuts' \in 0..MaxCuts
    BY <1>7 DEF Fail
  <2>3. partial' \in BOOLEAN
    BY <1>7 DEF Fail, Touches
  <2>4. DataOK' /\ pc' \in [Task -> Stage] /\ answer' \in [Task -> {NoAnswer, "created", "error"}]
    BY <1>0, <1>7 DEF Fail, Answers, data, DataOK, Unique
  <2> QED
    BY <1>7, <2>1, <2>2, <2>3, <2>4 DEF Fail
<1>8. CASE Return(t)
  <2>1. count' \in [Task -> 0..Len(Button)]
    BY <1>8 DEF Return
  <2> QED
    BY <1>0, <1>8, <2>1 DEF Return, data, DataOK, Unique
<1> QED
  BY <1>1, <1>2, <1>3, <1>4, <1>5, <1>6, <1>7, <1>8 DEF Proceed

\* The types after tasks are cut off.
LEMMA GoneTypes ==
  ASSUME TypeOK, Standing, NEW gone \in SUBSET Task, Gone(gone),
         process' \in {"down", "booting", "serving"}
  PROVE  TypeOK'
<1> USE Parts DEF NoAnswer, Typed
<1>1. late' \in SUBSET (RowOp \cup ButtonStatement)
  BY SentType DEF Gone, Standing
<1>2. cuts' \in 0..MaxCuts
  BY DEF Gone
<1>3. partial' \in BOOLEAN
  BY DEF Gone
<1>4. count' \in [Task -> 0..Len(Button)]
  BY DEF Gone
<1>5. DataOK' /\ pc' \in [Task -> Stage] /\ lock' \in Handler \cup {Free}
  BY DEF Gone, data, DataOK, Unique, Stage
<1>6. /\ op' \in [Task -> RowOp \cup ButtonOp \cup {NoOp}]
      /\ flag' \in [Task -> BOOLEAN]
      /\ answer' \in [Task -> {NoAnswer, "created", "error"}]
  BY DEF Gone
<1> QED
  BY <1>1, <1>2, <1>3, <1>4, <1>5, <1>6

-----------------------------------------------------------------------------
(* The invariant. *)

LEMMA InitIInv == Init => IInv
<1> SUFFICES ASSUME Init PROVE IInv
  OBVIOUS
<1>1. TypeOK
  BY InitTypes
<1>2. Standing
  BY DEF Init, Standing, Fits
<1>3. \A n \in Label : HasButton(n)
  <2> TAKE n \in Label
  <2>1. DefaultRow(n) \in buttons /\ DefaultRow(n).name = n
    BY DEF Init, Defaults, DefaultRow
  <2> QED
    BY <2>1 DEF HasButton
<1>4. Undisturbed
  BY <1>3 DEF Init, Undisturbed
<1>5. ResetAnswered
  BY DEF Init, ResetAnswered, NoAnswer
<1> QED
  BY <1>1, <1>2, <1>4, <1>5 DEF IInv

\* What a step of t leaves to the others.
LEMMA OthersStand ==
  ASSUME TypeOK, Standing, NEW t \in Task, Fits(t)',
         \A u \in Task \ {t} :
           /\ pc'[u] = pc[u] /\ op'[u] = op[u]
           /\ answer'[u] = answer[u] /\ count'[u] = count[u],
         lock' = lock \/ lock = Free \/ (lock = t /\ t \in Handler),
         process' = "down" => process = "down"
  PROVE  Standing'
<1>1. ASSUME NEW u \in Task \ {t} PROVE Fits(u)'
  BY <1>1 DEF Standing, Fits, TypeOK
<1> QED
  BY <1>1 DEF Standing

\* The steps of a task on its way.
LEMMA ProceedStands ==
  ASSUME TypeOK, Standing, NEW t \in Task, Proceed(t)
  PROVE  Standing'
<1> USE DEF NoAnswer
<1>0. Fits(t) /\ NoOp \notin ButtonOp
  BY DEF Standing
<1>1. CASE Select(t)
  <2>1. Fits(t)'
    BY <1>0, <1>1 DEF Select, Answers, Goes, Fits, TypeOK
  <2> QED
    BY <1>1, <2>1, OthersStand DEF Select, Answers, Goes, TypeOK
<1>2. CASE Statement(t)
  <2>1. Fits(t)'
    BY <1>0, <1>2 DEF Statement, Answers, Fits, TypeOK
  <2> QED
    BY <1>2, <2>1, OthersStand DEF Statement, Answers, TypeOK
<1>3. CASE Look(t)
  <2>1. Fits(t)'
    BY <1>0, <1>3 DEF Look, Goes, Fits, TypeOK
  <2> QED
    BY <1>3, <2>1, OthersStand DEF Look, Goes, TypeOK
<1>4. CASE Set(t)
  <2>1. Fits(t)'
    BY <1>0, <1>4 DEF Set, Answers, Goes, Fits, TypeOK
  <2> QED
    BY <1>4, <2>1, OthersStand DEF Set, Answers, Goes, TypeOK
<1>5. CASE ClearButtons(t)
  <2>1. Fits(t)'
    BY <1>0, <1>5 DEF ClearButtons, Goes, Fits, TypeOK
  <2> QED
    BY <1>5, <2>1, OthersStand DEF ClearButtons, Goes, TypeOK
<1>6. CASE Restore(t)
  <2>1. Fits(t)'
    <3>1. count[t] \in Nat /\ count[t] < Len(Button) /\ Len(Button) \in Nat
      BY <1>0, <1>6 DEF Restore, Fits, TypeOK
    <3>2. CASE HasButton(Button[count[t] + 1])
      BY <1>0, <1>6, <3>1, <3>2 DEF Restore, Answers, Fits, TypeOK
    <3>3. CASE ~HasButton(Button[count[t] + 1])
      <4>1. count'[t] = count[t] + 1
        BY <1>6, <3>3 DEF Restore, TypeOK
      <4>2. count[t] + 1 # Len(Button) => count'[t] < Len(Button)
        BY <3>1, <4>1
      <4> QED
        BY <1>0, <1>6, <3>3, <4>2 DEF Restore, Answers, Goes, Fits, TypeOK
    <3> QED
      BY <3>2, <3>3
  <2> QED
    BY <1>6, <2>1, OthersStand DEF Restore, Answers, Goes, TypeOK
<1>7. CASE Fail(t)
  <2>1. Fits(t)'
    BY <1>0, <1>7 DEF Fail, Answers, Fits, TypeOK
  <2> QED
    BY <1>7, <2>1, OthersStand DEF Fail, Answers, TypeOK
<1>8. CASE Return(t)
  <2>1. Fits(t)'
    BY <1>0, <1>8 DEF Return, Fits, TypeOK
  <2>2. lock = t => t \in Handler
    BY DEF TypeOK, Task
  <2> QED
    BY <1>8, <2>1, <2>2, OthersStand DEF Return, TypeOK
<1> QED
  BY <1>1, <1>2, <1>3, <1>4, <1>5, <1>6, <1>7, <1>8 DEF Proceed

\* A call begins.
LEMMA BeginsStands ==
  ASSUME TypeOK, Standing, NEW t \in Task, NEW o \in RowOp \cup ButtonOp,
         Begins(t, o), pc[t] = "idle", process # "down",
         \/ t \in Handler /\ lock = Free /\ lock' = t
         \/ o \in RowOp /\ lock' = lock
  PROVE  TypeOK' /\ Standing'
<1> USE DEF NoAnswer
<1>0. Fits(t)
  BY DEF Standing
<1>1. Start(o) \in {"select", "clear", "look", "statement"} /\ Start(o) \in Stage
  BY DEF Start, Stage
<1>2. DataOK'
  BY Parts DEF Begins, data, DataOK, Unique, Typed
<1>3. pc' \in [Task -> Stage] /\ op' \in [Task -> RowOp \cup ButtonOp \cup {NoOp}]
  BY <1>1 DEF Begins, TypeOK
<1>4. TypeOK'
  BY <1>2, <1>3, Parts DEF Begins, Typed
<1>5. /\ pc'[t] = Start(o) /\ op'[t] = o /\ o # NoOp
      /\ answer'[t] = answer[t] /\ count'[t] = count[t]
  BY DEF Begins, TypeOK
<1>6. /\ Start(o) = "select" => o \in RowOp
      /\ Start(o) \in {"clear", "look"} => o \in ButtonOp /\ o.kind \in {"restore", "toggle"}
      /\ Start(o) = "look" => o.kind = "toggle"
      /\ Start(o) = "statement" /\ o \in ButtonOp => o.kind \in {"link", "settings"}
  BY DEF Start, ButtonOp
<1>7. o \in ButtonOp => t \in Handler /\ lock' = t
  OBVIOUS
<1>8. Fits(t)'
  BY <1>0, <1>1, <1>5, <1>6, <1>7 DEF Fits, Begins
<1> QED
  BY <1>4, <1>8, OthersStand DEF Begins, TypeOK

\* Tasks are cut off.
LEMMA GoneStands ==
  ASSUME TypeOK, Standing, NEW gone \in SUBSET Task, Gone(gone),
         process' = process \/ gone = Task
  PROVE  Standing'
<1> SUFFICES ASSUME NEW t \in Task PROVE Fits(t)'
  BY DEF Standing
<1>0. Fits(t)
  BY DEF Standing
<1>1. CASE t \in gone
  BY <1>1 DEF Gone, Fits, NoAnswer
<1>2. CASE t \notin gone
  <2>1. /\ pc'[t] = pc[t] /\ op'[t] = op[t] /\ answer'[t] = answer[t]
        /\ count'[t] = count[t] /\ process' = process
    BY <1>2 DEF Gone
  <2>2. lock = t => lock' = t
    BY <1>2 DEF Gone
  <2> QED
    BY <1>0, <2>1, <2>2 DEF Fits
<1> QED
  BY <1>1, <1>2

\* A start: what is missing among the buttons is inserted, or nothing is.
LEMMA BootStands ==
  ASSUME TypeOK, Standing, Boot
  PROVE  TypeOK' /\ Standing'
<1> USE DEF NoAnswer
<1>0. Main \in Task /\ Fits(Main) /\ pc[Main] = "idle"
  BY DEF Standing, Boot, Fits, Task
<1>1. /\ pc' \in [Task -> Stage] /\ op' \in [Task -> RowOp \cup ButtonOp \cup {NoOp}]
      /\ Fits(Main)'
  <2>1. CASE UNCHANGED <<pc, op>>
    BY <1>0, <2>1 DEF Boot, Fits, TypeOK
  <2>2. CASE ~UNCHANGED <<pc, op>>
    <3>1. PICK v \in Value :
            op' = [op EXCEPT ![Main] = [kind |-> "create", table |-> "users", name |-> Admin,
                                        kept |-> v, edited |-> AdminPerms]]
      BY <2>2 DEF Boot, EnsuresAdmin
    <3> DEFINE o == [kind |-> "create", table |-> "users", name |-> Admin,
                     kept |-> v, edited |-> AdminPerms]
    <3>2. o \in RowOp
      BY DEF RowOp, Table
    <3> HIDE DEF o
    <3>3. op' = [op EXCEPT ![Main] = o]
      BY <3>1 DEF o
    <3>4. pc' = [pc EXCEPT ![Main] = "select"] /\ "select" \in Stage
      BY <2>2 DEF Boot, EnsuresAdmin, Stage
    <3> QED
      BY <1>0, <3>2, <3>3, <3>4 DEF Boot, Fits, TypeOK
  <2> QED
    BY <2>1, <2>2
<1>2. DataOK'
  <2>1. CASE UNCHANGED buttons
    BY <2>1, Parts DEF Boot, DataOK, Unique, Typed
  <2>2. CASE buttons' = buttons \cup Missing
    <3>1. \A n \in Label : /\ DefaultRow(n) \in [name : Label, link : Link]
                           /\ DefaultRow(n).name = n
      BY DEF DefaultRow
    <3>2. \A b \in Missing : /\ b \in [name : Label, link : Link]
                             /\ b = DefaultRow(b.name)
                             /\ \A c \in buttons : c.name # b.name
      BY <3>1 DEF Missing, Defaults
    <3>3. (\A b, c \in buttons : b.name = c.name => b = c)'
      BY <2>2, <3>2 DEF TypeOK
    <3> QED
      BY <2>2, <3>2, <3>3 DEF Boot, DataOK, Unique, TypeOK
  <2> QED
    BY <2>1, <2>2 DEF Boot
<1>3. TypeOK'
  BY <1>1, <1>2, Parts DEF Boot, Typed
<1>4. \A u \in Task \ {Main} : pc'[u] = pc[u] /\ op'[u] = op[u]
  BY DEF Boot, EnsuresAdmin, TypeOK
<1>5. Standing'
  BY <1>0, <1>1, <1>4, OthersStand DEF Boot
<1> QED
  BY <1>3, <1>5

\* A late statement runs, or cannot.
LEMMA RunLateStands ==
  ASSUME TypeOK, Standing, NEW s \in late, RunLate(s)
  PROVE  TypeOK' /\ Standing'
<1>1. DataOK'
  <2>1. CASE Works(s)
    BY <2>1, RunsData, Parts DEF RunLate, Typed
  <2>2. CASE ~Works(s)
    BY <2>2, Parts DEF RunLate, data, Typed, DataOK, Unique
  <2> QED
    BY <2>1, <2>2
<1>2. TypeOK'
  BY <1>1, Parts DEF RunLate, Typed
<1>3. Standing'
  BY DEF RunLate, Standing, Fits
<1> QED
  BY <1>2, <1>3

\* Every step keeps the types, and every task where its operation may be.
LEMMA StepStands ==
  ASSUME TypeOK, Standing, [Next]_vars
  PROVE  TypeOK' /\ Standing'
<1>1. CASE Boot
  BY <1>1, BootStands
<1>2. CASE Serve
  <2>1. DataOK'
    BY <1>2, Parts DEF Serve, data, Typed, DataOK, Unique
  <2>2. TypeOK'
    BY <1>2, <2>1, Parts DEF Serve, Typed
  <2>3. Standing'
    BY <1>2 DEF Serve, Standing, Fits
  <2> QED
    BY <2>2, <2>3
<1>3. CASE Crash
  BY <1>3, GoneTypes, GoneStands DEF Crash
<1>4. ASSUME NEW t \in Handler, HangUp(t) PROVE TypeOK' /\ Standing'
  <2>1. {t} \in SUBSET Task /\ process' \in {"down", "booting", "serving"}
    BY <1>4 DEF HangUp, TypeOK, Task
  <2> QED
    BY <1>4, <2>1, GoneTypes, GoneStands DEF HangUp
<1>5. ASSUME NEW s \in late, RunLate(s) PROVE TypeOK' /\ Standing'
  BY <1>5, RunLateStands
<1>6. ASSUME NEW t \in Handler, NEW o \in Calls \cup ButtonOp, HandlerCalls(t, o)
      PROVE  TypeOK' /\ Standing'
  BY <1>6, BeginsStands DEF HandlerCalls, Task
<1>7. ASSUME NEW t \in Stream, NEW o \in Calls, StreamCalls(t, o)
      PROVE  TypeOK' /\ Standing'
  BY <1>7, BeginsStands DEF StreamCalls, Task
<1>8. ASSUME NEW t \in Task, Proceed(t) PROVE TypeOK' /\ Standing'
  BY <1>8, ProceedTypes, ProceedStands DEF Standing
<1>9. CASE UNCHANGED vars
  <2>1. TypeOK'
    BY <1>9, Parts DEF vars, Typed, DataOK, Unique
  <2> QED
    BY <1>9, <2>1 DEF vars, Standing, Fits
<1> QED
  BY <1>1, <1>2, <1>3, <1>4, <1>5, <1>6, <1>7, <1>8, <1>9 DEF Next

-----------------------------------------------------------------------------
(* The buttons. *)

\* t has answered a reset.
HasReset(t) ==
  /\ answer[t] = "created" /\ op[t] \notin RowOp
  /\ op[t].kind = "restore" \/ (op[t].kind = "toggle" /\ flag[t])

\* Steps that leave the buttons alone.
LEMMA Quiet ==
  ASSUME Undisturbed, ResetAnswered,
         buttons' = buttons, partial => partial',
         \A s \in late' : s \in late \/ s \in RowOp \/ s.kind = "settings",
         \A t \in Task :
           /\ pc'[t] = "restore" <=> pc[t] = "restore"
           /\ pc[t] = "restore" => count'[t] = count[t],
         \A t \in Handler : HasReset(t)' => HasReset(t)
  PROVE  Undisturbed' /\ ResetAnswered'
<1>1. CASE partial'
  BY <1>1 DEF Undisturbed, ResetAnswered
<1>2. CASE ~partial'
  <2>1. (\A n \in Label : HasButton(n)) => (\A n \in Label : HasButton(n))'
    BY DEF HasButton
  <2>2. Undisturbed'
    BY <1>2, <2>1 DEF Undisturbed, InsertedSoFar
  <2>3. ResetAnswered'
    BY <1>2 DEF ResetAnswered, HasReset
  <2> QED
    BY <2>2, <2>3
<1> QED
  BY <1>1, <1>2

\* One task at most works on the buttons: it holds the lock.
LEMMA OneAtButtons ==
  ASSUME Standing, NEW t \in Task, NEW u \in Task, op[t] \in ButtonOp, op[u] \in ButtonOp
  PROVE  t = u
  BY DEF Standing, Fits

\* What a task that does not touch the buttons has sent.
LEMMA SentQuiet ==
  ASSUME TypeOK, NEW t \in Task, Fits(t), Sends(t), ~Touches(t)
  PROVE  Sent(t) \in RowOp \/ Sent(t).kind = "settings"
<1>1. CASE pc[t] = "set"
  BY <1>1 DEF Sent, SetFlag
<1>2. CASE pc[t] = "statement"
  <2>1. Sent(t) = op[t] /\ op[t] \in RowOp \cup ButtonOp
    BY <1>2 DEF Sent, Fits, TypeOK
  <2> QED
    BY <1>2, <2>1 DEF Touches, Fits
<1> QED
  BY <1>1, <1>2 DEF Sends, Touches

LEMMA GoneButtons ==
  ASSUME IInv, NEW gone \in SUBSET Task, Gone(gone)
  PROVE  Undisturbed' /\ ResetAnswered'
<1>1. CASE \E t \in gone : Touches(t)
  BY <1>1 DEF Gone, Undisturbed, ResetAnswered
<1>2. CASE ~ \E t \in gone : Touches(t)
  <2>1. \A s \in late' : s \in late \/ s \in RowOp \/ s.kind = "settings"
    BY <1>2, SentQuiet DEF Gone, IInv, Standing
  <2>2. \A t \in Task : /\ pc'[t] = "restore" <=> pc[t] = "restore"
                        /\ pc[t] = "restore" => count'[t] = count[t]
    BY <1>2 DEF Gone, Touches
  <2>3. \A t \in Handler : HasReset(t)' => HasReset(t)
    BY DEF Gone, HasReset, NoAnswer, Task
  <2>4. buttons' = buttons /\ (partial => partial')
    BY DEF Gone, data
  <2> QED
    BY <2>1, <2>2, <2>3, <2>4, Quiet DEF IInv
<1> QED
  BY <1>1, <1>2

LEMMA BootButtons ==
  ASSUME IInv, Boot
  PROVE  Undisturbed' /\ ResetAnswered'
<1>1. \A t \in Task : pc[t] = "idle" /\ pc'[t] \in {"idle", "select"} /\ answer'[t] = NoAnswer
  BY DEF IInv, Boot, EnsuresAdmin, Standing, Fits, TypeOK
<1>2. ResetAnswered'
  BY <1>1 DEF ResetAnswered, NoAnswer, Task
<1>3. CASE UNCHANGED <<buttons, partial>>
  <2>1. (\A n \in Label : HasButton(n)) => (\A n \in Label : HasButton(n))'
    BY <1>3 DEF HasButton
  <2> QED
    BY <1>1, <1>2, <1>3, <2>1 DEF Boot, IInv, Undisturbed
<1>4. CASE buttons' = buttons \cup Missing
  <2>1. ASSUME NEW n \in Label PROVE HasButton(n)'
    <3>1. DefaultRow(n) \in Defaults /\ DefaultRow(n).name = n
      BY DEF Defaults, DefaultRow
    <3>2. CASE HasButton(n)
      BY <1>4, <3>2 DEF HasButton
    <3>3. CASE ~HasButton(n)
      <4>1. DefaultRow(n) \in Missing
        BY <3>1, <3>3 DEF Missing, HasButton
      <4> QED
        BY <1>4, <3>1, <4>1 DEF HasButton
    <3> QED
      BY <3>2, <3>3
  <2>2. late' = {}
    BY DEF Boot
  <2> QED
    BY <1>1, <1>2, <2>1, <2>2 DEF Undisturbed
<1> QED
  BY <1>3, <1>4 DEF Boot

\* The defaults are those inserted when all are.
LEMMA AllInserted == InsertedSoFar(Len(Button)) = Defaults
  BY DEF InsertedSoFar, Defaults, Label

LEMMA ResetButtons ==
  ASSUME IInv, TypeOK', Standing', NEW t \in Task, ClearButtons(t) \/ Restore(t)
  PROVE  Undisturbed' /\ ResetAnswered'
<1>0. /\ Fits(t) /\ op[t] \in ButtonOp /\ op' = op
      /\ \A u \in Task \ {t} : op[u] \notin ButtonOp /\ pc'[u] # "restore"
  <2>1. Fits(t) /\ op[t] \in ButtonOp /\ op' = op
    BY DEF IInv, Standing, ClearButtons, Restore, Fits
  <2>2. \A u \in Task \ {t} : op[u] \notin ButtonOp
    BY <2>1, OneAtButtons DEF IInv
  <2>3. \A u \in Task \ {t} : pc'[u] # "restore"
    BY <2>1, <2>2 DEF Standing, Fits
  <2> QED
    BY <2>1, <2>2, <2>3
<1>1. ASSUME NEW u \in Handler, HasReset(u)' PROVE u = t
  <2>1. op[u] \in ButtonOp
    BY <1>0, <1>1 DEF HasReset, Standing, Fits, TypeOK, Task, NoAnswer
  <2> QED
    BY <1>0, <2>1 DEF Task
<1>2. CASE ClearButtons(t)
  <2>1. pc'[t] = "restore" /\ buttons' = {} /\ count'[t] = 0
    BY <1>0, <1>2 DEF ClearButtons, Goes, Fits, IInv, TypeOK
  <2>2. InsertedSoFar(0) = {}
    BY DEF InsertedSoFar
  <2>3. ~partial' => \A s \in late' : s \in RowOp \/ s.kind = "settings"
    BY <1>2 DEF ClearButtons, IInv, Undisturbed, TypeOK
  <2>4. Undisturbed'
    BY <1>0, <2>1, <2>2, <2>3 DEF Undisturbed, InsertedSoFar
  <2>5. answer'[t] = NoAnswer
    BY <2>1 DEF Standing, Fits
  <2>6. ResetAnswered'
    BY <1>1, <2>5 DEF ResetAnswered, HasReset, NoAnswer
  <2> QED
    BY <2>4, <2>6
<1>3. CASE Restore(t)
  <2> DEFINE n == Button[count[t] + 1]
  <2>1. partial' = partial /\ late' = late /\ pc[t] = "restore"
    BY <1>3 DEF Restore
  <2>2. CASE partial
    BY <2>1, <2>2 DEF Undisturbed, ResetAnswered
  <2>3. CASE ~partial
    <3>1. count[t] \in Nat /\ count[t] < Len(Button) /\ Len(Button) \in Nat
      BY <1>0, <2>1 DEF Fits, IInv, TypeOK
    <3>2. buttons = InsertedSoFar(count[t])
      BY <2>1, <2>3 DEF IInv, Undisturbed
    <3>3. ~HasButton(n)
      <4>1. \A i \in 1..count[t] : Button[i] # n
        BY <3>1
      <4> QED
        BY <3>2, <4>1 DEF HasButton, InsertedSoFar, DefaultRow
    <3>4. buttons' = buttons \cup {DefaultRow(n)} /\ count'[t] = count[t] + 1
      BY <1>3, <3>3 DEF Restore, IInv, TypeOK
    <3>5. buttons' = InsertedSoFar(count[t] + 1)
      <4>1. 1..(count[t] + 1) = 1..count[t] \cup {count[t] + 1}
        BY <3>1
      <4> QED
        BY <3>2, <3>4, <4>1 DEF InsertedSoFar
    <3>6. CASE count[t] + 1 = Len(Button)
      <4>1. buttons' = Defaults
        BY <3>5, <3>6, AllInserted
      <4>2. pc'[t] = "return"
        BY <1>3, <3>3, <3>6 DEF Restore, Answers, IInv, TypeOK
      <4>3. (\A m \in Label : HasButton(m))'
        <5> SUFFICES ASSUME NEW m \in Label PROVE HasButton(m)'
          OBVIOUS
        <5>1. DefaultRow(m) \in buttons' /\ DefaultRow(m).name = m
          BY <4>1 DEF Defaults, DefaultRow
        <5> QED
          BY <5>1 DEF HasButton
      <4>4. Undisturbed'
        BY <1>0, <2>1, <2>3, <4>2, <4>3 DEF IInv, Undisturbed
      <4>5. ResetAnswered'
        BY <4>1 DEF ResetAnswered, Defaults, DefaultRow
      <4> QED
        BY <4>4, <4>5
    <3>7. CASE count[t] + 1 # Len(Button)
      <4>1. pc'[t] = "restore" /\ answer'[t] = answer[t] /\ answer[t] = NoAnswer
        BY <1>0, <1>3, <2>1, <3>3, <3>7 DEF Restore, Goes, IInv, TypeOK, Fits
      <4>2. Undisturbed'
        BY <1>0, <2>1, <2>3, <3>4, <3>5, <4>1 DEF IInv, Undisturbed, InsertedSoFar
      <4>3. ResetAnswered'
        BY <1>1, <4>1 DEF ResetAnswered, HasReset, NoAnswer
      <4> QED
        BY <4>2, <4>3
    <3> QED
      BY <3>6, <3>7
  <2> QED
    BY <2>2, <2>3
<1> QED
  BY <1>2, <1>3

\* A statement on rows or settings leaves the buttons alone; editing a link
\* leaves their names, and nobody else is at them.
LEMMA StatementButtons ==
  ASSUME IInv, TypeOK', Standing', NEW t \in Task, Statement(t)
  PROVE  Undisturbed' /\ ResetAnswered'
<1>0. /\ Fits(t) /\ pc[t] = "statement" /\ op' = op /\ op[t] \in RowOp \cup ButtonOp
      /\ pc'[t] = "return" /\ late' = late /\ partial' = partial /\ flag' = flag
      /\ count' = count
      /\ \A u \in Task \ {t} : pc'[u] = pc[u] /\ answer'[u] = answer[u]
  BY DEF Statement, Answers, IInv, Standing, Fits, TypeOK
<1>1. ASSUME NEW u \in Handler, HasReset(u)' PROVE u # t /\ HasReset(u)
  <2>1. u # t
    BY <1>0, <1>1 DEF HasReset, Fits
  <2> QED
    BY <1>0, <1>1, <2>1 DEF HasReset, Task
<1>2. CASE buttons' = buttons
  BY <1>0, <1>1, <1>2, Quiet DEF IInv
<1>3. CASE buttons' # buttons
  <2>1. Works(op[t]) /\ Runs(op[t]) /\ op[t] \notin RowOp /\ op[t].kind = "link"
    BY <1>0, <1>3 DEF Statement, data, Runs, ButtonsAfter, Fits
  <2>2. \A u \in Task \ {t} : op[u] \notin ButtonOp
    BY <1>0, <2>1, OneAtButtons DEF IInv
  <2>3. \A u \in Task : pc'[u] # "restore" /\ pc[u] # "restore"
    BY <1>0, <2>2 DEF IInv, Standing, Fits
  <2>4. \A u \in Handler : ~HasReset(u)'
    BY <1>0, <1>1, <2>2 DEF HasReset, IInv, TypeOK, Standing, Fits, Task, NoAnswer
  <2>5. ASSUME NEW n \in Label, HasButton(n) PROVE HasButton(n)'
    <3>1. PICK b \in buttons : b.name = n
      BY <2>5 DEF HasButton
    <3> DEFINE c == IF b.name = op[t].name THEN [b EXCEPT !.link = op[t].link] ELSE b
    <3>2. c \in buttons'
      BY <2>1, <3>1 DEF Runs, ButtonsAfter
    <3>3. c.name = n
      BY <3>1 DEF IInv, TypeOK
    <3> QED
      BY <3>2, <3>3 DEF HasButton
  <2>6. Undisturbed'
    BY <1>0, <2>3, <2>5 DEF IInv, Undisturbed
  <2>7. ResetAnswered'
    BY <2>4 DEF ResetAnswered, HasReset
  <2> QED
    BY <2>6, <2>7
<1> QED
  BY <1>2, <1>3

\* The other steps of a task leave the buttons alone.
LEMMA ProceedButtons ==
  ASSUME IInv, TypeOK', Standing', NEW t \in Task, Proceed(t)
  PROVE  Undisturbed' /\ ResetAnswered'
<1>0. Fits(t)
  BY DEF IInv, Standing
<1>1. CASE ClearButtons(t) \/ Restore(t)
  BY <1>1, ResetButtons
<1>2. CASE Statement(t)
  BY <1>2, StatementButtons
<1>3. CASE Select(t) \/ Look(t) \/ Set(t) \/ Return(t)
  <2>1. buttons' = buttons /\ partial' = partial /\ late' = late
    BY <1>3 DEF Select, Look, Set, Return, data
  <2>2. \A u \in Task : pc'[u] = "restore" <=> pc[u] = "restore"
    BY <1>3 DEF Select, Look, Set, Return, Answers, Goes, IInv, TypeOK
  <2>3. \A u \in Task : pc[u] = "restore" => count'[u] = count[u]
    BY <1>3 DEF Select, Look, Set, Return, IInv, TypeOK
  <2>4. \A u \in Task \ {t} : op'[u] = op[u] /\ answer'[u] = answer[u] /\ flag'[u] = flag[u]
    BY <1>3 DEF Select, Look, Set, Return, Answers, Goes, IInv, TypeOK
  <2>5. ~HasReset(t)'
    <3>1. CASE Select(t)
      BY <1>0, <3>1 DEF Select, HasReset, Fits, IInv, TypeOK
    <3>2. CASE Look(t)
      BY <1>0, <3>2 DEF Look, Goes, HasReset, Fits, IInv, TypeOK, NoAnswer
    <3>3. CASE Set(t)
      <4>1. CASE flag[t]
        BY <1>0, <3>3, <4>1 DEF Set, Goes, HasReset, Fits, NoAnswer
      <4>2. CASE ~flag[t]
        <5>1. op[t].kind = "toggle" /\ flag' = flag /\ op' = op
          BY <1>0, <3>3 DEF Set, Fits
        <5> QED
          BY <4>2, <5>1 DEF HasReset
      <4> QED
        BY <4>1, <4>2
    <3>4. CASE Return(t)
      BY <3>4 DEF Return, HasReset, IInv, TypeOK, NoAnswer
    <3> QED
      BY <1>3, <3>1, <3>2, <3>3, <3>4
  <2>6. \A u \in Handler : HasReset(u)' => HasReset(u)
    BY <2>4, <2>5 DEF HasReset, Task
  <2> QED
    BY <2>1, <2>2, <2>3, <2>6, Quiet DEF IInv
<1>4. CASE Fail(t)
  <2>1. CASE Touches(t)
    BY <1>4, <2>1 DEF Fail, Undisturbed, ResetAnswered
  <2>2. CASE ~Touches(t)
    <3>1. \A s \in late' : s \in late \/ s \in RowOp \/ s.kind = "settings"
      BY <1>0, <1>4, <2>2, SentQuiet DEF Fail, IInv
    <3>2. buttons' = buttons /\ (partial => partial') /\ count' = count
      BY <1>4 DEF Fail, data
    <3>3. \A u \in Task : pc'[u] = "restore" <=> pc[u] = "restore"
      BY <1>4, <2>2 DEF Fail, Answers, Touches, IInv, TypeOK
    <3>4. \A u \in Handler : HasReset(u)' => HasReset(u)
      BY <1>4 DEF Fail, Answers, HasReset, IInv, TypeOK, Task
    <3> QED
      BY <3>1, <3>2, <3>3, <3>4, Quiet DEF IInv
  <2> QED
    BY <2>1, <2>2
<1> QED
  BY <1>1, <1>2, <1>3, <1>4 DEF Proceed

\* Every step keeps the invariant.
LEMMA StepIInv ==
  ASSUME IInv, [Next]_vars
  PROVE  IInv'
<1>0. TypeOK' /\ Standing'
  BY StepStands DEF IInv
<1> SUFFICES Undisturbed' /\ ResetAnswered'
  BY <1>0 DEF IInv
<1>1. CASE Boot
  BY <1>1, BootButtons
<1>2. CASE Serve
  BY <1>2, Quiet DEF Serve, data, IInv, HasReset
<1>3. CASE Crash
  BY <1>3, GoneButtons DEF Crash
<1>4. ASSUME NEW t \in Handler, HangUp(t) PROVE Undisturbed' /\ ResetAnswered'
  <2>1. {t} \in SUBSET Task
    BY DEF Task
  <2> QED
    BY <1>4, <2>1, GoneButtons DEF HangUp
<1>5. ASSUME NEW s \in late, RunLate(s) PROVE Undisturbed' /\ ResetAnswered'
  <2>1. CASE partial
    BY <1>5, <2>1 DEF RunLate, Undisturbed, ResetAnswered
  <2>2. CASE ~partial
    <3>1. s \in RowOp \/ s.kind = "settings"
      BY <2>2 DEF IInv, Undisturbed
    <3>2. buttons' = buttons
      BY <1>5, <3>1 DEF RunLate, Runs, ButtonsAfter, data
    <3> QED
      BY <1>5, <3>2, Quiet DEF RunLate, IInv, HasReset
  <2> QED
    BY <2>1, <2>2
<1>6. ASSUME NEW t \in Task, NEW o \in RowOp \cup ButtonOp, Begins(t, o), pc[t] = "idle"
      PROVE  Undisturbed' /\ ResetAnswered'
  <2>1. buttons' = buttons /\ partial' = partial /\ late' = late /\ count' = count
    BY <1>6 DEF Begins, data
  <2>2. Start(o) # "restore"
    BY DEF Start
  <2>3. \A u \in Task : pc'[u] = "restore" <=> pc[u] = "restore"
    BY <1>6, <2>2 DEF Begins, IInv, TypeOK
  <2>4. \A u \in Handler : HasReset(u)' => HasReset(u)
    BY <1>6 DEF Begins, HasReset, IInv, TypeOK, Standing, Fits, NoAnswer, Task
  <2> QED
    BY <2>1, <2>3, <2>4, Quiet DEF IInv
<1>7. ASSUME NEW t \in Task, Proceed(t) PROVE Undisturbed' /\ ResetAnswered'
  BY <1>0, <1>7, ProceedButtons
<1>8. CASE UNCHANGED vars
  BY <1>8, Quiet DEF vars, IInv, HasReset
<1> QED
  BY <1>1, <1>2, <1>3, <1>4, <1>5, <1>6, <1>7, <1>8 DEF Next, HandlerCalls, StreamCalls, Task

THEOREM Invariant == Spec => []IInv
  BY InitIInv, StepIInv, PTL DEF Spec

\* The tables are well-formed: no key is in a table twice, whoever inserts at
\* the same time, and no button either.
THEOREM TypesHold == Spec => []TypeOK
  BY Invariant, PTL DEF IInv

\* Work on the buttons that was not cut off leaves every default button there.
THEOREM ButtonsHold == Spec => []ButtonsWhole
<1>1. IInv => ButtonsWhole
  BY DEF IInv, Undisturbed, ButtonsWhole
<1> QED
  BY <1>1, Invariant, PTL

\* A reset that answers "created" has left the defaults and nothing else.
THEOREM ResetsHold == Spec => []ResetAnswered
  BY Invariant, PTL DEF IInv

-----------------------------------------------------------------------------
(* The refinement: an operation on rows takes effect when its statement     *)
(* does, and one given up when the server gets to it.                       *)

LEMMA SameOperators ==
  /\ tables!RowOp = RowOp
  /\ tables!NoAnswer = NoAnswer
  /\ \A d, o : tables!Refused(d, o) = Refused(d, o)
  /\ \A d, o : tables!Effect(d, o) = Effect(d, o)
  /\ \A d, o : tables!Run(d, o) = Run(d, o)
  BY DEF tables!RowOp, RowOp, tables!Table, Table, tables!NoAnswer, NoAnswer,
         tables!Refused, Refused, tables!Lacking, Lacking, tables!Keyed, Keyed,
         tables!Effect, Effect, tables!Inserted, Inserted, tables!Leaves, Leaves,
         tables!Run, Run

\* Cutting tasks off abandons what they call.
LEMMA GoneAbandons ==
  ASSUME TypeOK, Standing, NEW gone \in SUBSET Task, Gone(gone)
  PROVE  tables!Abandon(gone)
<1>1. RowCalls' = [t \in Task |-> IF t \in gone THEN NoOp ELSE RowCalls[t]]
  BY DEF Gone, RowCalls
<1>2. RowAnswers' = [t \in Task |-> IF t \in gone THEN NoAnswer ELSE RowAnswers[t]]
  BY DEF Gone, RowAnswers
<1>3. PICK left \in SUBSET {Sent(t) : t \in {u \in gone : Sends(u)}} : late' = late \cup left
  BY DEF Gone
<1> DEFINE calls == {RowCalls[t] : t \in {u \in gone : tables!Pending(u)}}
<1>4. ASSUME NEW s \in left, s \in RowOp PROVE s \in calls
  <2>1. PICK t \in gone : Sends(t) /\ s = Sent(t)
    BY <1>4
  <2>2. Fits(t) /\ t \in Task
    BY DEF Standing
  <2>3. pc[t] = "statement"
    <3>1. SetFlag(flag[t]) \in ButtonStatement /\ Clear \in ButtonStatement
      BY <2>2 DEF SetFlag, ButtonStatement, TypeOK
    <3>2. CASE pc[t] = "restore"
      <4>1. Button[count[t] + 1] \in Label
        BY <2>2, <3>2 DEF Fits, TypeOK
      <4>2. s \in ButtonStatement
        BY <2>1, <3>2, <4>1 DEF Sent, ButtonStatement
      <4> QED
        BY <1>4, <4>2
    <3> QED
      BY <1>4, <2>1, <3>1, <3>2 DEF Sends, Sent
  <2>4. s = op[t] /\ RowCalls[t] = s /\ RowAnswers[t] = NoAnswer
    BY <1>4, <2>1, <2>2, <2>3 DEF Sent, RowCalls, RowAnswers, Fits
  <2>5. tables!Pending(t)
    BY <1>4, <2>4, SameOperators DEF tables!Pending
  <2> QED
    BY <2>4, <2>5
<1>5. RowOrphans' = RowOrphans \cup (left \cap RowOp) /\ (left \cap RowOp) \in SUBSET calls
  BY <1>3, <1>4 DEF RowOrphans
<1> QED
  BY <1>1, <1>2, <1>5, SameOperators DEF tables!Abandon, Gone, data

LEMMA CallStarts ==
  ASSUME TypeOK, Standing, NEW t \in Task, NEW o \in RowOp \cup ButtonOp,
         Begins(t, o), pc[t] = "idle"
  PROVE  [tables!Next]_(tables!vars)
<1>1. Fits(t) /\ op[t] = NoOp /\ answer[t] = NoAnswer /\ answer' = answer
  BY DEF Standing, Fits, Begins
<1>2. op' = [op EXCEPT ![t] = o] /\ rows' = rows /\ RowOrphans' = RowOrphans
  BY DEF Begins, data, RowOrphans
<1>3. RowAnswers' = RowAnswers
  BY <1>1, <1>2 DEF RowAnswers, TypeOK
<1>4. CASE o \in RowOp
  <2>1. RowCalls' = [RowCalls EXCEPT ![t] = o] /\ RowCalls[t] = NoOp
    BY <1>1, <1>2, <1>4 DEF RowCalls, TypeOK
  <2>2. tables!Call(t, o)
    BY <1>2, <1>3, <2>1 DEF tables!Call
  <2> QED
    BY <1>4, <2>2, SameOperators DEF tables!Next
<1>5. CASE o \notin RowOp
  <2>1. RowCalls' = RowCalls
    BY <1>1, <1>2, <1>5 DEF RowCalls, TypeOK
  <2> QED
    BY <1>2, <1>3, <2>1 DEF tables!vars
<1> QED
  BY <1>4, <1>5

\* A task that only moves on changes nothing that Tables sees.
LEMMA Stutters ==
  ASSUME rows' = rows, late' \cap RowOp = late \cap RowOp, op' = op,
         \A t \in Task : op[t] \in RowOp => answer'[t] = answer[t]
  PROVE  UNCHANGED tables!vars
  BY DEF tables!vars, RowOrphans, RowCalls, RowAnswers

LEMMA ProceedRefines ==
  ASSUME TypeOK, Standing, NEW t \in Task, Proceed(t)
  PROVE  [tables!Next]_(tables!vars)
<1>0. Fits(t) /\ RowCalls \in [Task -> RowOp \cup {NoOp}]
      /\ RowAnswers = [u \in Task |-> RowAnswers[u]]
  BY DEF Standing, RowCalls, RowAnswers
<1>1. ASSUME op[t] \in RowOp
      PROVE  /\ RowCalls[t] = op[t] /\ RowAnswers[t] = answer[t]
             /\ op' = op => RowCalls' = RowCalls
             /\ \A a : op' = op /\ Answers(t, a) =>
                  RowAnswers' = [RowAnswers EXCEPT ![t] = a]
  BY <1>1 DEF RowCalls, RowAnswers, Answers, TypeOK
<1>2. CASE Select(t)
  <2>1. op[t] \in RowOp /\ answer[t] = NoAnswer /\ op' = op /\ rows' = rows
        /\ RowOrphans' = RowOrphans
    BY <1>0, <1>2 DEF Select, Fits, data, RowOrphans
  <2>2. CASE Keyed(rows, op[t]) # {} \/ Lacking(op[t])
    <3>1. Refused(rows, op[t]) \/ op[t].kind # "create"
      BY <2>2 DEF Refused
    <3>2. CASE Refused(rows, op[t])
      <4>1. tables!Refuse(t)
        BY <1>1, <1>2, <2>1, <2>2, <3>2, SameOperators
        DEF Select, tables!Refuse, tables!Pending
      <4> QED
        BY <4>1 DEF tables!Next
    <3>3. CASE op[t].kind # "create"
      <4>1. tables!Fail(t)
        BY <1>1, <1>2, <2>1, <2>2, SameOperators
        DEF Select, tables!Fail, tables!Pending
      <4> QED
        BY <4>1 DEF tables!Next
    <3> QED
      BY <3>1, <3>2, <3>3
  <2>3. CASE ~(Keyed(rows, op[t]) # {} \/ Lacking(op[t]))
    <3>1. answer' = answer /\ late' = late
      BY <1>2, <2>3 DEF Select, Goes
    <3> QED
      BY <2>1, <3>1, Stutters
  <2> QED
    BY <2>2, <2>3
<1>3. CASE Statement(t)
  <2>1. CASE op[t] \in RowOp
    <3>1. answer[t] = NoAnswer /\ op' = op /\ RowOrphans' = RowOrphans
      BY <1>0, <1>3 DEF Statement, Fits, RowOrphans
    <3>2. CASE Works(op[t])
      <4>1. ~Refused(rows, op[t]) /\ rows' = Effect(rows, op[t])
        BY <1>3, <2>1, <3>2 DEF Statement, Works, Runs
      <4>2. tables!Change(t)
        BY <1>1, <1>3, <2>1, <3>1, <3>2, <4>1, SameOperators
        DEF Statement, tables!Change, tables!Pending
      <4> QED
        BY <4>2 DEF tables!Next
    <3>3. CASE ~Works(op[t])
      <4>1. rows' = rows /\ Answers(t, "error")
        BY <1>3, <3>3 DEF Statement, data
      <4>2. tables!Fail(t)
        BY <1>1, <2>1, <3>1, <4>1, SameOperators DEF tables!Fail, tables!Pending
      <4> QED
        BY <4>2 DEF tables!Next
    <3> QED
      BY <3>2, <3>3
  <2>2. CASE op[t] \notin RowOp
    <3>1. rows' = rows /\ late' = late /\ op' = op
      BY <1>3, <2>2 DEF Statement, Runs, data
    <3>2. \A u \in Task \ {t} : answer'[u] = answer[u]
      BY <1>3 DEF Statement, Answers, TypeOK
    <3> QED
      BY <2>2, <3>1, <3>2, Stutters
  <2> QED
    BY <2>1, <2>2
<1>4. CASE Look(t) \/ Set(t) \/ ClearButtons(t) \/ Restore(t)
  <2>1. op[t] \notin RowOp
    BY <1>0, <1>4 DEF Look, Set, ClearButtons, Restore, Fits
  <2>2. rows' = rows /\ late' = late /\ op' = op
    BY <1>4 DEF Look, Set, ClearButtons, Restore, data
  <2>3. \A u \in Task \ {t} : answer'[u] = answer[u]
    BY <1>4 DEF Look, Set, ClearButtons, Restore, Answers, Goes, TypeOK
  <2> QED
    BY <2>1, <2>2, <2>3, Stutters
<1>5. CASE Fail(t)
  <2>0. /\ rows' = rows /\ op' = op /\ Answers(t, "error")
        /\ late' = late \/ (Sends(t) /\ late' = late \cup {Sent(t)})
    BY <1>5 DEF Fail, data
  <2>1. CASE op[t] \in RowOp
    <3>1. pc[t] \in {"select", "statement"} /\ answer[t] = NoAnswer
      BY <1>0, <1>5, <2>1 DEF Fail, Fits, TypeOK, Stage
    <3>2. RowOrphans' \in {RowOrphans, RowOrphans \cup {RowCalls[t]}}
      BY <1>1, <2>0, <2>1, <3>1 DEF Sends, Sent, RowOrphans
    <3>3. tables!Fail(t)
      BY <1>1, <2>0, <2>1, <3>1, <3>2, SameOperators DEF tables!Fail, tables!Pending
    <3> QED
      BY <3>3 DEF tables!Next
  <2>2. CASE op[t] \notin RowOp
    <3>1. late' \cap RowOp = late \cap RowOp
      <4>1. Sends(t) => Sent(t) \notin RowOp
        <5>1. CASE pc[t] = "statement"
          BY <2>2, <5>1 DEF Sent
        <5>2. CASE pc[t] = "restore"
          <6>1. Button[count[t] + 1] \in Label
            BY <1>0, <5>2 DEF Fits, TypeOK
          <6> QED
            BY <5>2, <6>1 DEF Sent, ButtonStatement
        <5>3. SetFlag(flag[t]) \in ButtonStatement /\ Clear \in ButtonStatement
          BY DEF SetFlag, ButtonStatement, TypeOK
        <5> QED
          BY <5>1, <5>2, <5>3 DEF Sends, Sent
      <4> QED
        BY <2>0, <4>1
    <3>2. \A u \in Task \ {t} : answer'[u] = answer[u]
      BY <2>0 DEF Answers, TypeOK
    <3> QED
      BY <2>0, <2>2, <3>1, <3>2, Stutters
  <2> QED
    BY <2>1, <2>2
<1>6. CASE Return(t)
  <2>1. /\ rows' = rows /\ RowOrphans' = RowOrphans
        /\ op' = [op EXCEPT ![t] = NoOp] /\ answer' = [answer EXCEPT ![t] = NoAnswer]
    BY <1>6 DEF Return, data, RowOrphans
  <2>2. RowCalls' = [RowCalls EXCEPT ![t] = NoOp]
    BY <2>1 DEF RowCalls, TypeOK
  <2>3. RowAnswers' = [RowAnswers EXCEPT ![t] = NoAnswer]
    BY <2>1 DEF RowAnswers, TypeOK
  <2>4. CASE op[t] \in RowOp
    <3>1. RowAnswers[t] # NoAnswer
      BY <1>0, <1>1, <1>6, <2>4 DEF Return, Fits
    <3>2. tables!Return(t)
      BY <2>1, <2>2, <2>3, <3>1, SameOperators DEF tables!Return
    <3> QED
      BY <3>2 DEF tables!Next
  <2>5. CASE op[t] \notin RowOp
    <3>1. RowCalls' = RowCalls /\ RowAnswers' = RowAnswers
      BY <2>2, <2>3, <2>5 DEF RowCalls, RowAnswers
    <3> QED
      BY <2>1, <3>1 DEF tables!vars
  <2> QED
    BY <2>4, <2>5
<1> QED
  BY <1>2, <1>3, <1>4, <1>5, <1>6 DEF Proceed

\* The server gets to an operation given up, or to another late statement.
LEMMA LateRefines ==
  ASSUME TypeOK, NEW s \in late, RunLate(s)
  PROVE  [tables!Next]_(tables!vars)
<1>0. RowCalls' = RowCalls /\ RowAnswers' = RowAnswers
  BY DEF RunLate, RowCalls, RowAnswers
<1>1. CASE s \in RowOp
  <2>1. s \in RowOrphans /\ RowOrphans' = RowOrphans \ {s}
    BY <1>1 DEF RunLate, RowOrphans
  <2>2. rows' = Run(rows, s)
    BY <1>1 DEF RunLate, Works, Runs, Run, data, RowOp
  <2>3. tables!RunOrphan(s)
    BY <1>0, <2>1, <2>2, SameOperators DEF tables!RunOrphan
  <2> QED
    BY <2>1, <2>3 DEF tables!Next
<1>2. CASE s \notin RowOp
  <2>1. rows' = rows /\ RowOrphans' = RowOrphans
    BY <1>2 DEF RunLate, Runs, RowOrphans, data
  <2> QED
    BY <1>0, <2>1 DEF tables!vars
<1> QED
  BY <1>1, <1>2

LEMMA BootRefines ==
  ASSUME TypeOK, Standing, Boot
  PROVE  [tables!Next]_(tables!vars)
<1>1. Main \in Task /\ op[Main] = NoOp /\ answer[Main] = NoAnswer
  BY DEF Boot, Standing, Fits, Task
<1>2. rows' = rows /\ RowOrphans' = RowOrphans /\ answer' = answer
  BY DEF Boot, RowOrphans
<1>3. CASE UNCHANGED <<pc, op>>
  BY <1>2, <1>3 DEF tables!vars, RowCalls, RowAnswers
<1>4. CASE ~UNCHANGED <<pc, op>>
  <2>1. PICK v \in Value :
          op' = [op EXCEPT ![Main] = [kind |-> "create", table |-> "users", name |-> Admin,
                                      kept |-> v, edited |-> AdminPerms]]
    BY <1>4 DEF Boot, EnsuresAdmin
  <2> DEFINE o == [kind |-> "create", table |-> "users", name |-> Admin,
                   kept |-> v, edited |-> AdminPerms]
  <2>2. o \in RowOp
    BY DEF RowOp, Table
  <2> HIDE DEF o
  <2>3. op' = [op EXCEPT ![Main] = o]
    BY <2>1 DEF o
  <2>4. /\ RowCalls' = [RowCalls EXCEPT ![Main] = o] /\ RowCalls[Main] = NoOp
        /\ RowAnswers' = RowAnswers
    BY <1>1, <1>2, <2>2, <2>3 DEF RowCalls, RowAnswers, TypeOK
  <2>5. tables!Call(Main, o)
    BY <1>2, <2>4 DEF tables!Call
  <2> QED
    BY <1>1, <2>2, <2>5, SameOperators DEF tables!Next
<1> QED
  BY <1>3, <1>4

LEMMA StepRefines ==
  ASSUME TypeOK, Standing, [Next]_vars
  PROVE  [tables!Next]_(tables!vars)
<1>1. CASE Boot
  BY <1>1, BootRefines
<1>2. CASE Serve
  BY <1>2 DEF Serve, data, tables!vars, RowCalls, RowAnswers, RowOrphans
<1>3. CASE Crash
  BY <1>3, GoneAbandons DEF Crash, tables!Next
<1>4. ASSUME NEW t \in Handler, HangUp(t) PROVE tables!Next
  <2>1. {t} \in SUBSET Task
    BY DEF Task
  <2> QED
    BY <1>4, <2>1, GoneAbandons DEF HangUp, tables!Next
<1>5. ASSUME NEW s \in late, RunLate(s) PROVE [tables!Next]_(tables!vars)
  BY <1>5, LateRefines
<1>6. ASSUME NEW t \in Handler, NEW o \in Calls \cup ButtonOp, HandlerCalls(t, o)
      PROVE  [tables!Next]_(tables!vars)
  BY <1>6, CallStarts DEF HandlerCalls, Task
<1>7. ASSUME NEW t \in Stream, NEW o \in Calls, StreamCalls(t, o)
      PROVE  [tables!Next]_(tables!vars)
  BY <1>7, CallStarts DEF StreamCalls, Task
<1>8. ASSUME NEW t \in Task, Proceed(t) PROVE [tables!Next]_(tables!vars)
  BY <1>8, ProceedRefines
<1>9. CASE UNCHANGED vars
  BY <1>9 DEF vars, tables!vars, RowCalls, RowAnswers, RowOrphans
<1> QED
  BY <1>1, <1>2, <1>3, <1>4, <1>5, <1>6, <1>7, <1>8, <1>9 DEF Next

\* Whatever interleaves, is dropped or loses its connection: the rows are those
\* of four tables whose operations are atomic.
THEOREM Implements == Spec => ImplementsTables
<1>1. Init => tables!Init
  BY SameOperators DEF Init, tables!Init, RowCalls, RowAnswers, RowOrphans
<1>2. TypeOK /\ Standing /\ [Next]_vars => [tables!Next]_(tables!vars)
  BY StepRefines
<1>3. IInv => TypeOK /\ Standing
  BY DEF IInv
<1> QED
  BY <1>1, <1>2, <1>3, Invariant, PTL DEF Spec, ImplementsTables, tables!Spec
=============================================================================

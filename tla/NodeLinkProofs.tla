-------------------------- MODULE NodeLinkProofs --------------------------
(***************************************************************************)
(* What TLAPS proves of NodeLink for any nodes, tasks and attempts: type   *)
(* correctness and the boot link's channel under every interleaving, and   *)
(* the three link properties when switches do not overlap and streams do   *)
(* not fail (without either hypothesis the runs find them violated).       *)
(***************************************************************************)
EXTENDS NodeLink, TLAPS

\* Every step preserves the types.
LEMMA TypeStep == ASSUME TypeOK, [Next]_vars PROVE TypeOK'
<1> USE NodeLinkAssumption DEF TypeOK, Stage, Status, Moves, streamVars, tokenVars, nodeVars,
    hosts, Linked
<1>1. CASE BootStep
  <2>1. CASE ProbeSucceeds \/ SwapChannels
    BY <2>1 DEF ProbeSucceeds, SwapChannels
  <2>2. CASE ProbeFails
    <3>1. attempts' \in 0..Attempts
      BY <2>2 DEF ProbeFails
    <3>2. pc' \in [Task -> Stage]
      BY <2>2 DEF ProbeFails
    <3> QED
      BY <2>2, <3>1, <3>2 DEF ProbeFails
  <2> QED
    BY <1>1, <2>1, <2>2 DEF BootStep
<1>2. ASSUME NEW t \in Task, TaskStep(t) PROVE TypeOK'
  <2>1. CASE \E n \in Node : ChangeNode(t, n)
    BY <2>1 DEF ChangeNode
  <2>2. CASE CancelCurrent(t)
    BY <2>2 DEF CancelCurrent
  <2>3. CASE AssignNode(t)
    BY <2>3 DEF AssignNode
  <2>4. CASE Subscribe(t)
    BY <2>4 DEF Subscribe
  <2>5. CASE Register(t)
    BY <2>5 DEF Register
  <2>6. CASE ConnectRefused(t) \/ ConnectTimesOut(t) \/ RetryElapses(t)
          \/ PeerGone(t) \/ TurnBegins(t) \/ TurnEnds(t)
    BY <2>6 DEF ConnectRefused, ConnectTimesOut, RetryElapses, PeerGone, TurnBegins,
           TurnEnds
  <2>7. CASE CloneToken(t)
    BY <2>7 DEF CloneToken
  <2>8. CASE LinkCancelled(t) \/ LinkClosed(t) \/ LinkFails(t)
    <3>1. DropStream(t) /\ pc' \in [Task -> Stage]
      BY <2>8 DEF LinkCancelled, LinkClosed, LinkFails
    <3>2. tok' \in [Task -> 0..cancelToken'] /\ peer' \in SUBSET Task
      BY <3>1 DEF DropStream
    <3> QED
      BY <3>1, <3>2 DEF DropStream
  <2>9. CASE \E s \in Status : NodeReports(t, s)
    BY <2>9 DEF NodeReports
  <2> QED
    BY <1>2, <2>1, <2>2, <2>3, <2>4, <2>5, <2>6, <2>7, <2>8, <2>9
    DEF TaskStep
<1>3. CASE RefreshStatus
  BY <1>3 DEF RefreshStatus
<1>4. ASSUME NEW n \in Node, NodeStarts(n) \/ NodeStops(n) \/ NodeStalls(n) PROVE TypeOK'
  BY <1>4 DEF NodeStarts, NodeStops, NodeStalls
<1>5. CASE UNCHANGED vars
  BY <1>5, SMTT(30) DEF vars
<1> QED
  BY <1>1, <1>2, <1>3, <1>4, <1>5 DEF Next

\* Variables have their types in every reachable state.
THEOREM TypeCorrect == Spec => []TypeOK
<1>1. Init => TypeOK
  BY NodeLinkAssumption DEF Init, TypeOK, Stage, Status
<1> QED
  BY <1>1, TypeStep, PTL DEF Spec

\* The boot task subscribes after it replaced tcp_tx, so its link hears what
\* handlers send, however switches overlap and streams fail.
THEOREM BootLinkHears == Spec => []BootLinkHearsHandlers
<1> USE NodeLinkAssumption
<1>1. Init => BootLinkHearsHandlers
  BY DEF Init, BootLinkHearsHandlers, Linked
<1>2. TypeOK /\ BootLinkHearsHandlers /\ [Next]_vars => BootLinkHearsHandlers'
  <2> SUFFICES ASSUME TypeOK, BootLinkHearsHandlers, [Next]_vars
               PROVE  BootLinkHearsHandlers'
    OBVIOUS
  <2> USE DEF TypeOK, BootLinkHearsHandlers, Moves, streamVars, tokenVars,
              nodeVars, hosts, Linked
  <2>1. CASE BootStep
    BY <2>1 DEF BootStep, ProbeSucceeds, ProbeFails, SwapChannels
  <2>2. ASSUME NEW t \in Task, TaskStep(t) PROVE BootLinkHearsHandlers'
    <3>1. CASE (\E n \in Node : ChangeNode(t, n)) \/ CancelCurrent(t)
                 \/ AssignNode(t)
      BY <3>1 DEF ChangeNode, CancelCurrent, AssignNode
    <3>2. CASE Subscribe(t)
      BY <3>2 DEF Subscribe
    <3>3. CASE Register(t) \/ CloneToken(t)
      BY <3>3 DEF Register, CloneToken
    <3>4. CASE ConnectRefused(t) \/ ConnectTimesOut(t) \/ RetryElapses(t)
          \/ PeerGone(t) \/ TurnBegins(t) \/ TurnEnds(t)
      BY <3>4 DEF ConnectRefused, ConnectTimesOut, RetryElapses, PeerGone, TurnBegins,
           TurnEnds
    <3>5. CASE LinkCancelled(t) \/ LinkClosed(t) \/ LinkFails(t)
      BY <3>5 DEF LinkCancelled, LinkClosed, LinkFails, DropStream
    <3>6. CASE \E s \in Status : NodeReports(t, s)
      BY <3>6 DEF NodeReports
    <3> QED
      BY <2>2, <3>1, <3>2, <3>3, <3>4, <3>5, <3>6 DEF TaskStep
  <2>3. CASE RefreshStatus \/ (\E n \in Node : NodeStarts(n) \/ NodeStops(n) \/ NodeStalls(n))
    BY <2>3 DEF RefreshStatus, NodeStarts, NodeStops, NodeStalls
  <2>4. CASE UNCHANGED vars
    BY <2>4 DEF vars
  <2> QED
    BY <2>1, <2>2, <2>3, <2>4 DEF Next
<1> QED
  BY <1>1, <1>2, TypeCorrect, PTL DEF Spec

-----------------------------------------------------------------------------
(* One switch at a time.  A link that goes on holds the newest token, and  *)
(* a task past the cancellation of that token is the only one of its kind: *)
(* so cancelling it leaves nobody to share the commands with.              *)

\* At most one task is setting a link up.
OneAtATime == \A t, u \in Task : t \in Establishing /\ u \in Establishing => t = u

\* Only the boot task probes and swaps, and it cancels and assigns nothing.
StagesOfBoot ==
  /\ \A t \in Task : pc[t] \in {"probe", "swap"} => t = Initial
  /\ pc[Initial] \notin {"cancel", "assign"}
  /\ pc[Initial] \in {"probe", "swap"} => currentNode = NoNode

\* While a link goes on nobody is past cancelling it, and it has the token
\* that the next switch will cancel.
HoldsNewest ==
  \A t, u \in Task :
    Holds(t) => tok[t] = cancelToken /\ pc[u] \in Linked \cup {"free", "cancel"}

\* t has a link that goes on or is about to open one.
Headed(t) ==
  Holds(t) \/ pc[t] \in {"subscribe", "connecting", "handshake", "retry"}

\* Such a task goes to current_node; the boot task may precede any switch.
HeadedForCurrent ==
  \A t \in Task : Headed(t) =>
    currentNode = url[t] \/ (currentNode = NoNode /\ t = Initial)

\* It has subscribed to the channel the handlers send on.
HearsCurrent ==
  \A t \in Task : Holds(t) \/ pc[t] \in {"connecting", "handshake"} =>
    rxGen[t] = tcpGen

\* The inductive invariant, beside TypeOK.
LinkInv == OneAtATime /\ StagesOfBoot /\ HoldsNewest /\ ExclusiveLink
             /\ HeadedForCurrent /\ HearsCurrent

\* Every step of a calm system preserves the link invariant.
LEMMA CalmStep ==
  ASSUME ~Overlap, ~StreamErrors, TypeOK, LinkInv, [Next]_vars
  PROVE  LinkInv'
<1> USE NodeLinkAssumption
    DEF LinkInv, TypeOK, OneAtATime, StagesOfBoot, HoldsNewest, ExclusiveLink,
        HeadedForCurrent, HearsCurrent, Headed, Holds, Establishing, Settled,
        Moves, streamVars, tokenVars, nodeVars, hosts, Linked
<1>1. CASE BootStep
  BY <1>1 DEF BootStep, ProbeSucceeds, ProbeFails, SwapChannels
<1>2. ASSUME NEW t \in Task, TaskStep(t) PROVE LinkInv'
  <2>1. CASE \E n \in Node : ChangeNode(t, n)
    BY <2>1 DEF ChangeNode
  <2>2. CASE CancelCurrent(t)
    BY <2>2 DEF CancelCurrent
  <2>3. CASE AssignNode(t)
    BY <2>3 DEF AssignNode
  <2>4. CASE Subscribe(t)
    BY <2>4 DEF Subscribe
  <2>5. CASE Register(t)
    BY <2>5 DEF Register
  <2>6. CASE ConnectRefused(t) \/ ConnectTimesOut(t) \/ RetryElapses(t)
          \/ PeerGone(t) \/ TurnBegins(t) \/ TurnEnds(t)
    BY <2>6 DEF ConnectRefused, ConnectTimesOut, RetryElapses, PeerGone, TurnBegins,
           TurnEnds
  <2>7. CASE CloneToken(t)
    BY <2>7 DEF CloneToken
  <2>8. CASE LinkCancelled(t) \/ LinkClosed(t)
    BY <2>8 DEF LinkCancelled, LinkClosed, DropStream
  <2>9. CASE \E s \in Status : NodeReports(t, s)
    BY <2>9 DEF NodeReports
  <2> QED
    BY <1>2, <2>1, <2>2, <2>3, <2>4, <2>5, <2>6, <2>7, <2>8, <2>9
    DEF TaskStep, LinkFails
<1>3. CASE RefreshStatus \/ (\E n \in Node : NodeStarts(n) \/ NodeStops(n) \/ NodeStalls(n))
  BY <1>3 DEF RefreshStatus, NodeStarts, NodeStops, NodeStalls
<1>4. CASE UNCHANGED vars
  BY <1>4 DEF vars
<1> QED
  BY <1>1, <1>2, <1>3, <1>4 DEF Next

\* The link invariant holds of every behaviour of a calm system.
LEMMA CalmInvariant ==
  ASSUME ~Overlap, ~StreamErrors
  PROVE  Spec => []LinkInv
<1>1. Init => LinkInv
  BY NodeLinkAssumption
  DEF Init, LinkInv, OneAtATime, StagesOfBoot, HoldsNewest, ExclusiveLink,
      HeadedForCurrent, HearsCurrent, Headed, Holds, Establishing, Linked
<1>2. TypeOK /\ LinkInv /\ [Next]_vars => LinkInv'
  BY CalmStep
<1> QED
  BY <1>1, <1>2, TypeCorrect, PTL DEF Spec

\* change_node ends the link it replaces: when switches do not overlap there
\* is one link that goes on, for any number of tasks and nodes.
THEOREM OneLink ==
  ASSUME ~Overlap, ~StreamErrors
  PROVE  Spec => []ExclusiveLink
<1>1. LinkInv => ExclusiveLink
  BY DEF LinkInv
<1> QED
  BY <1>1, CalmInvariant, PTL

\* When switches do not overlap, the link that goes on leads to current_node,
\* or is the boot link before any switch.
THEOREM LinkToCurrent ==
  ASSUME ~Overlap, ~StreamErrors
  PROVE  Spec => []LinkServesCurrentNode
<1>1. TypeOK /\ LinkInv => LinkServesCurrentNode
  BY NodeLinkAssumption
  DEF TypeOK, LinkInv, HeadedForCurrent, Headed, LinkServesCurrentNode
<1> QED
  BY <1>1, CalmInvariant, TypeCorrect, PTL

\* When switches do not overlap, the link that goes on hears the handlers:
\* no switch subscribes before the boot task has replaced the channel.
THEOREM LinkHears ==
  ASSUME ~Overlap, ~StreamErrors
  PROVE  Spec => []LinkHearsHandlers
<1>1. LinkInv => LinkHearsHandlers
  BY DEF LinkInv, HearsCurrent, LinkHearsHandlers
<1> QED
  BY <1>1, CalmInvariant, PTL
=============================================================================

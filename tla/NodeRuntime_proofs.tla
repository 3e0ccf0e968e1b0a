------------------------- MODULE NodeRuntime_proofs -------------------------
(***************************************************************************)
(* For every number of calls of startNode and of stopNode: as long as no   *)
(* two starts overlap, the node that runs is the one stopNode knows; and   *)
(* if no stop comes in the middle either, all that is set up belongs to it.*)
(***************************************************************************)
EXTENDS NodeRuntime, TLAPS

(***************************************************************************)
(* The inductive invariant.                                                *)
(***************************************************************************)

\* A startNode that awaits the identity is alone, and there is no node.
Alone ==
  /\ \A c, d \in Call : call[c] = "sync" /\ call[d] = "sync" => c = d
  /\ \A c \in Call : call[c] = "sync" => node = NoNode
  /\ running \subseteq {node}

\* What is set up belongs to the node; its start has come far enough for it.
Owned ==
  /\ \A c \in Call : call[c] \in Starting \ {"sync"} => node = c
  /\ \A t \in timers : t.node = node
  /\ \A x \in listeners : x.kind = "push" \/ x.node = node
  /\ channel \in {NoNode, node} /\ redial \subseteq {node}
  /\ \A c \in Call : channel = c \/ c \in redial => call[c] \in {"cloud", "pulse", "done"}
  /\ ping => node # NoNode

NodeInv == NodeTypeOK /\ (overlapped \/ Alone) /\ (overlapped \/ raced \/ Owned)

-----------------------------------------------------------------------------
LEMMA NodeInvInit == NodeInit => NodeInv
<1> SUFFICES ASSUME NodeInit PROVE NodeInv
  OBVIOUS
<1> USE RuntimeAssumption DEF NodeInit
<1>1. NodeTypeOK
  <2>1. /\ call \in [Call -> {"none", "done"} \cup Starting]
        /\ stops \in 0..MaxStops
    OBVIOUS
  <2>2. /\ ping \in BOOLEAN /\ auto = ping
        /\ overlapped \in BOOLEAN /\ raced \in BOOLEAN
    BY Zenon
  <2>3. QED
    BY <2>1, <2>2 DEF NodeTypeOK
<1>2. Alone
  BY DEF Alone
<1>3. Owned
  BY DEF Owned, Starting
<1>4. QED
  BY <1>1, <1>2, <1>3 DEF NodeInv

\* No step takes a variable out of its type.
LEMMA NodeTypeStep == NodeTypeOK /\ [NodeNext]_nodeVars => NodeTypeOK'
<1> SUFFICES ASSUME NodeTypeOK, [NodeNext]_nodeVars PROVE NodeTypeOK'
  OBVIOUS
<1> USE RuntimeAssumption DEF NodeTypeOK, Starting, At
<1>1. CASE StopNode
  <2>1. stops' \in 0..MaxStops /\ running' \subseteq Call /\ channel' \in Call \cup {NoNode}
    BY <1>1 DEF StopNode
  <2>2. /\ timers' \subseteq [node : Call, kind : TimerKind]
        /\ listeners' \subseteq [node : Call, kind : ListenerKind]
    BY <1>1 DEF StopNode, Of
  <2>3. ping' \in BOOLEAN /\ auto' = ping' /\ raced' \in BOOLEAN
    BY <1>1, Zenon DEF StopNode, Races
  <2>4. QED
    BY <1>1, <2>1, <2>2, <2>3 DEF StopNode
<1>2. ASSUME NEW c \in Call, StartNode(c) PROVE NodeTypeOK'
  BY <1>2 DEF StartNode, Overlap
<1>3. ASSUME NEW c \in Call, MakeNode(c) PROVE NodeTypeOK'
  BY <1>3 DEF MakeNode
<1>4. ASSUME NEW c \in Call, Listen(c) PROVE NodeTypeOK'
  BY <1>4 DEF Listen, ListenerKind, TimerKind
<1>5. ASSUME NEW c \in Call, Connect(c) PROVE NodeTypeOK'
  BY <1>5 DEF Connect, TimerKind
<1>6. ASSUME NEW c \in Call, Started(c) PROVE NodeTypeOK'
  BY <1>6 DEF Started, TimerKind, OneShot
<1>7. ASSUME NEW c \in Call, LastRound(c) PROVE NodeTypeOK'
  BY <1>7 DEF LastRound
<1>8. ASSUME NEW c \in Call, Reconnect(c) PROVE NodeTypeOK'
  BY <1>8 DEF Reconnect
<1>9. ASSUME NEW c \in Call, Reopen(c) PROVE NodeTypeOK'
  BY <1>9 DEF Reopen
<1>10. CASE UNCHANGED nodeVars
  BY <1>10 DEF nodeVars
<1>11. QED
  BY <1>1, <1>2, <1>3, <1>4, <1>5, <1>6, <1>7, <1>8, <1>9, <1>10 DEF NodeNext

\* Only a start that begins while another awaits makes a second one await.
LEMMA AloneStep ==
  ASSUME NodeInv, [NodeNext]_nodeVars, ~overlapped'
  PROVE  ~overlapped /\ Alone'
<1> USE RuntimeAssumption DEF NodeInv, NodeTypeOK, Alone, Starting, At
<1>1. CASE StopNode
  BY <1>1 DEF StopNode
<1>2. ASSUME NEW c \in Call, StartNode(c) PROVE ~overlapped /\ Alone'
  BY <1>2 DEF StartNode, Overlap
<1>3. ASSUME NEW c \in Call, MakeNode(c) PROVE ~overlapped /\ Alone'
  BY <1>3 DEF MakeNode
<1>4. ASSUME NEW c \in Call, Listen(c) PROVE ~overlapped /\ Alone'
  BY <1>4 DEF Listen
<1>5. ASSUME NEW c \in Call, Connect(c) PROVE ~overlapped /\ Alone'
  BY <1>5 DEF Connect
<1>6. ASSUME NEW c \in Call, Started(c) PROVE ~overlapped /\ Alone'
  BY <1>6 DEF Started
<1>7. ASSUME NEW c \in Call, LastRound(c) \/ Reconnect(c) \/ Reopen(c)
      PROVE  ~overlapped /\ Alone'
  BY <1>7 DEF LastRound, Reconnect, Reopen
<1>8. CASE UNCHANGED nodeVars
  BY <1>8 DEF nodeVars
<1>9. QED
  BY <1>1, <1>2, <1>3, <1>4, <1>5, <1>6, <1>7, <1>8 DEF NodeNext

\* Without overlaps and races, each step sets up or takes down what belongs
\* to the node.
LEMMA OwnedStep ==
  ASSUME NodeInv, [NodeNext]_nodeVars, ~overlapped', ~raced'
  PROVE  ~overlapped /\ ~raced /\ Owned'
<1> ~overlapped /\ Alone
  BY AloneStep DEF NodeInv
<1> USE RuntimeAssumption DEF NodeInv, NodeTypeOK, Owned, Starting, At
<1>1. CASE StopNode
  BY <1>1 DEF StopNode, Of, Races
<1>2. ASSUME NEW c \in Call, StartNode(c) PROVE ~overlapped /\ ~raced /\ Owned'
  BY <1>2 DEF StartNode
<1>3. ASSUME NEW c \in Call, MakeNode(c) PROVE ~overlapped /\ ~raced /\ Owned'
  BY <1>3 DEF MakeNode, Alone
<1>4. ASSUME NEW c \in Call, Listen(c) PROVE ~overlapped /\ ~raced /\ Owned'
  BY <1>4 DEF Listen
<1>5. ASSUME NEW c \in Call, Connect(c) PROVE ~overlapped /\ ~raced /\ Owned'
  BY <1>5 DEF Connect
<1>6. ASSUME NEW c \in Call, Started(c) PROVE ~overlapped /\ ~raced /\ Owned'
  BY <1>6 DEF Started
<1>7. ASSUME NEW c \in Call, LastRound(c) PROVE ~overlapped /\ ~raced /\ Owned'
  BY <1>7 DEF LastRound
<1>8. ASSUME NEW c \in Call, Reconnect(c) PROVE ~overlapped /\ ~raced /\ Owned'
  BY <1>8 DEF Reconnect, Alone
<1>9. ASSUME NEW c \in Call, Reopen(c) PROVE ~overlapped /\ ~raced /\ Owned'
  BY <1>9 DEF Reopen
<1>10. CASE UNCHANGED nodeVars
  BY <1>10 DEF nodeVars
<1>11. QED
  BY <1>1, <1>2, <1>3, <1>4, <1>5, <1>6, <1>7, <1>8, <1>9, <1>10 DEF NodeNext

LEMMA NodeInvStep == NodeInv /\ [NodeNext]_nodeVars => NodeInv'
BY NodeTypeStep, AloneStep, OwnedStep DEF NodeInv

LEMMA NodeAlways == NodeSpec => []NodeInv
BY NodeInvInit, NodeInvStep, PTL DEF NodeSpec

-----------------------------------------------------------------------------
\* Every variable keeps its type; the saved wish goes with the ping timer.
THEOREM NodeTypeCorrect == NodeSpec => []NodeTypeOK
<1>1. NodeInv => NodeTypeOK
  BY DEF NodeInv
<1>2. QED
  BY <1>1, NodeAlways, PTL

\* startNode and stopNode in any order lose track of no running node unless
\* two starts overlapped.
THEOREM OneKnownNode == NodeSpec => []RunningIsKnown
<1>1. NodeInv => RunningIsKnown
  BY DEF NodeInv, Alone, RunningIsKnown
<1>2. QED
  BY <1>1, NodeAlways, PTL

\* stopNode leaves nothing at work but the listener for pushes unless it
\* raced with a start or a redial.
THEOREM StoppedIsQuiet == NodeSpec => []OffIsOff
<1>1. NodeInv => OffIsOff
  BY RuntimeAssumption DEF NodeInv, NodeTypeOK, Owned, OffIsOff
<1>2. QED
  BY <1>1, NodeAlways, PTL

\* Nobody but the running node itself takes its realtime channel away.
THEOREM ChannelKept == NodeSpec => ChannelStays
<1>1. NodeInv /\ [NodeNext]_nodeVars =>
        [overlapped \/ raced \/ channel \notin running'
           \/ channel' = channel \/ channel \in redial']_nodeVars
  <2> SUFFICES ASSUME NodeInv, NodeNext, ~overlapped, ~raced, channel \in running',
                      channel' # channel
               PROVE  channel \in redial'
    BY DEF NodeInv, NodeTypeOK
  <2> USE RuntimeAssumption DEF NodeInv, NodeTypeOK, Alone, Owned, Starting, At
  <2>1. CASE StopNode
    BY <2>1 DEF StopNode
  <2>2. ASSUME NEW c \in Call, StartNode(c) \/ MakeNode(c) \/ Started(c) \/ LastRound(c)
        PROVE  FALSE
    BY <2>2 DEF StartNode, MakeNode, Started, LastRound
  <2>3. ASSUME NEW c \in Call, Listen(c) PROVE FALSE
    BY <2>3 DEF Listen
  <2>4. ASSUME NEW c \in Call, Connect(c) PROVE FALSE
    BY <2>4 DEF Connect
  <2>5. ASSUME NEW c \in Call, Reconnect(c) PROVE channel \in redial'
    BY <2>5 DEF Reconnect
  <2>6. ASSUME NEW c \in Call, Reopen(c) PROVE FALSE
    BY <2>6 DEF Reopen
  <2>7. QED
    BY <2>1, <2>2, <2>3, <2>4, <2>5, <2>6 DEF NodeNext
<1>2. QED
  BY <1>1, NodeAlways, PTL DEF NodeSpec, ChannelStays

=============================================================================

------------------------- MODULE RelayMailbox_proofs -------------------------
(***************************************************************************)
(* What the relay mailbox and the receiving pipeline guarantee, for every  *)
(* number of envelopes, of data channels, of failures and of reloads.      *)
(***************************************************************************)
EXTENDS RelayMailbox, TLAPS

(***************************************************************************)
(* Type correctness.                                                       *)
(***************************************************************************)

\* Admit is a part of two actions: what it leaves behind has its type.
LEMMA AdmitType ==
  ASSUME MailboxTypeOK, NEW l \in Lane, NEW p \in Pkt, Admit(l, p)
  PROVE  /\ lane' \in [Lane -> {Idle} \cup [at : {"check", "mark", "open"}, pkt : Pkt]]
         /\ recent' \subseteq Pkt
         /\ lost' \in [Pkt -> Losses]
BY DEF Admit, MailboxTypeOK, Losses

\* The variables always hold what the code can put there; in particular an
\* envelope is either with the relay or on the data channels, never both.
THEOREM TypeCorrect == MailboxSpec => []MailboxTypeOK
<1>1. MailboxInit => MailboxTypeOK
  BY MailboxAssumption DEF MailboxInit, MailboxTypeOK, AllAges, NoPoll, Idle, Losses
<1>2. MailboxTypeOK /\ [MailboxNext]_mailboxVars => MailboxTypeOK'
  <2> SUFFICES ASSUME MailboxTypeOK, [MailboxNext]_mailboxVars
               PROVE  MailboxTypeOK'
    OBVIOUS
  <2> USE DEF mailboxVars, serverVars, runtimeVars, storeVars, historyVars
  <2>1. ASSUME NEW p \in Pkt, Push(p) PROVE MailboxTypeOK'
    BY <2>1 DEF Push, Unused, MailboxTypeOK
  <2>2. ASSUME NEW p \in Pkt, Broadcast(p) PROVE MailboxTypeOK'
    BY <2>2 DEF Broadcast, Unused, MailboxTypeOK
  <2>3. CASE PollStart
    BY <2>3 DEF PollStart, NoPoll, MailboxTypeOK
  <2>4. CASE PollBatch
    BY <2>4 DEF PollBatch, NoPoll, MailboxTypeOK
  <2>5. CASE PollDone
    BY <2>5 DEF PollDone, NoPoll, MailboxTypeOK
  <2>6. ASSUME NEW p \in Pkt, PollNext(p) PROVE MailboxTypeOK'
    <3>1. Cloud \in Lane
      BY MailboxAssumption
    <3>2. poll' \in [at : {"idle", "asked", "answered", "handling"},
                     ack : SUBSET Pkt, items : SUBSET Pkt, todo : SUBSET Pkt]
      BY <2>6 DEF PollNext, MailboxTypeOK
    <3>3. QED
      BY <2>6, <3>1, <3>2, AdmitType DEF PollNext, MailboxTypeOK
  <2>7. ASSUME NEW p \in Pkt, Forget(p) PROVE MailboxTypeOK'
    BY <2>7 DEF Forget, MailboxTypeOK
  <2>8. ASSUME NEW p \in Pkt, ChatLookup(p) PROVE MailboxTypeOK'
    BY <2>8 DEF ChatLookup, MailboxTypeOK
  <2>9. ASSUME NEW p \in Pkt, ChatAppend(p) PROVE MailboxTypeOK'
    BY <2>9, EnvelopeAssumption DEF ChatAppend, MailboxTypeOK
  <2>10. ASSUME NEW l \in Lane, CheckSeen(l) PROVE MailboxTypeOK'
    <3>1. lane[l] \in [at : {"check", "mark", "open"}, pkt : Pkt]
      BY <2>10 DEF CheckSeen, Idle, MailboxTypeOK
    <3>2. QED
      BY <2>10, <3>1 DEF CheckSeen, MailboxTypeOK
  <2>11. ASSUME NEW l \in Lane, MarkSeen(l) PROVE MailboxTypeOK'
    <3>1. lane[l] \in [at : {"check", "mark", "open"}, pkt : Pkt]
      BY <2>11 DEF MarkSeen, Idle, MailboxTypeOK
    <3>2. QED
      BY <2>11, <3>1 DEF MarkSeen, MailboxTypeOK
  <2>12. ASSUME NEW l \in Lane, HandOver(l) PROVE MailboxTypeOK'
    <3>1. lane[l].pkt \in Pkt
      BY <2>12 DEF HandOver, Dispatch, Idle, MailboxTypeOK
    <3>2. QED
      BY <2>12, <3>1 DEF HandOver, Dispatch, Idle, Losses, MailboxTypeOK
  <2>13. ASSUME NEW l \in Lane, NEW p \in Pkt, AirDeliver(l, p) PROVE MailboxTypeOK'
    BY <2>13, AdmitType DEF AirDeliver, MailboxTypeOK
  <2>14. CASE BootChat
    BY <2>14 DEF BootChat, MailboxTypeOK
  <2>15. CASE Reload
    BY <2>15, MailboxAssumption DEF Reload, NoPoll, Idle, Losses, MailboxTypeOK
  <2>16. CASE ServerPull
    BY <2>16 DEF ServerPull, MailboxTypeOK
  <2>17. CASE PullFails
    BY <2>17, MailboxAssumption DEF PullFails, NoPoll, MailboxTypeOK
  <2>18. CASE PruneExpired
    BY <2>18 DEF PruneExpired, MailboxTypeOK
  <2>19. ASSUME NEW p \in Pkt, GrowOld(p) PROVE MailboxTypeOK'
    BY <2>19, MailboxAssumption DEF GrowOld, MailboxTypeOK
  <2>20. CASE UNCHANGED mailboxVars
    BY <2>20 DEF MailboxTypeOK
  <2>21. QED
    BY <2>1, <2>2, <2>3, <2>4, <2>5, <2>6, <2>7, <2>8, <2>9, <2>10, <2>11, <2>12,
       <2>13, <2>14, <2>15, <2>16, <2>17, <2>18, <2>19, <2>20
    DEF MailboxNext, Receiver, LaneStep, Surroundings
<1>3. QED
  BY <1>1, <1>2, PTL DEF MailboxSpec

-----------------------------------------------------------------------------
(***************************************************************************)
(* No envelope is handed over twice.  The guard's filter keeps two lanes   *)
(* off the same envelope as long as one of them is between two awaits, so  *)
(* what a lane has read from the inbox store stays true until it writes.   *)
(***************************************************************************)
Busy(l) == lane[l].at # "idle"

HandInv ==
  /\ \A l \in Lane : Busy(l) => lane[l].pkt \in recent
  /\ \A k, l \in Lane : k # l /\ Busy(k) /\ Busy(l) => lane[k].pkt # lane[l].pkt
  /\ \A l \in Lane : lane[l].at = "mark" => lane[l].pkt \notin seen
  /\ \A l \in Lane : lane[l].at = "open" => /\ lane[l].pkt \in seen
                                            /\ handed[lane[l].pkt] = 0
  /\ \A p \in Pkt : handed[p] > 0 => p \in seen
  /\ HandedAtMostOnce

\* Admitting an envelope puts it on one free lane and into the filter.
LEMMA AdmitHand ==
  ASSUME MailboxTypeOK, HandInv, NEW l \in Lane, NEW p \in Pkt,
         lane[l] = Idle, Admit(l, p), UNCHANGED <<seen, handed>>
  PROVE  HandInv'
<1>1. CASE UNCHANGED <<lane, recent>>
  BY <1>1 DEF HandInv, HandedAtMostOnce, Busy
<1>2. CASE /\ p \notin recent
           /\ recent' = recent \cup {p}
           /\ lane' = [lane EXCEPT ![l] = [at |-> "check", pkt |-> p]]
  <2>1. /\ lane'[l] = [at |-> "check", pkt |-> p]
        /\ \A k \in Lane : k # l => lane'[k] = lane[k]
    BY <1>2 DEF MailboxTypeOK
  <2>2. QED
    BY <1>2, <2>1 DEF HandInv, HandedAtMostOnce, Busy
<1>3. QED
  BY <1>1, <1>2 DEF Admit

\* HandInv is inductive.
LEMMA HandStep ==
  ASSUME MailboxTypeOK, HandInv, [MailboxNext]_mailboxVars
  PROVE  HandInv'
<1> USE DEF mailboxVars, serverVars, runtimeVars, storeVars, historyVars
<1>1. ASSUME UNCHANGED <<lane, recent, seen, handed>> PROVE HandInv'
  BY <1>1 DEF HandInv, HandedAtMostOnce, Busy
<1>2. ASSUME NEW p \in Pkt, PollNext(p) PROVE HandInv'
  BY <1>2, AdmitHand, MailboxAssumption DEF PollNext
<1>3. ASSUME NEW l \in Lane, NEW p \in Pkt, AirDeliver(l, p) PROVE HandInv'
  BY <1>3, AdmitHand DEF AirDeliver
<1>4. ASSUME NEW p \in Pkt, Forget(p) PROVE HandInv'
  BY <1>4 DEF Forget, HandInv, HandedAtMostOnce, Busy
<1>5. ASSUME NEW l \in Lane, CheckSeen(l) PROVE HandInv'
  <2>1. /\ lane'[l] = Idle \/ /\ lane[l].pkt \notin seen
                              /\ lane'[l] = [at |-> "mark", pkt |-> lane[l].pkt]
        /\ \A k \in Lane : k # l => lane'[k] = lane[k]
        /\ Busy(l) /\ lane[l].pkt \in Pkt
    BY <1>5 DEF CheckSeen, Busy, Idle, MailboxTypeOK
  <2>2. QED
    BY <1>5, <2>1 DEF CheckSeen, HandInv, HandedAtMostOnce, Busy, Idle
<1>6. ASSUME NEW l \in Lane, MarkSeen(l) PROVE HandInv'
  <2>1. /\ lane'[l] = [at |-> "open", pkt |-> lane[l].pkt]
        /\ \A k \in Lane : k # l => lane'[k] = lane[k]
        /\ Busy(l) /\ lane[l].at = "mark" /\ lane[l].pkt \in Pkt
    BY <1>6 DEF MarkSeen, Busy, Idle, MailboxTypeOK
  <2>2. handed[lane[l].pkt] = 0
    BY <2>1 DEF HandInv, MailboxTypeOK
  <2>3. QED
    BY <1>6, <2>1, <2>2 DEF MarkSeen, HandInv, HandedAtMostOnce, Busy
<1>7. ASSUME NEW l \in Lane, HandOver(l) PROVE HandInv'
  <2>1. /\ lane'[l] = Idle
        /\ \A k \in Lane : k # l => lane'[k] = lane[k]
        /\ Busy(l) /\ lane[l].at = "open" /\ lane[l].pkt \in Pkt
    BY <1>7 DEF HandOver, Dispatch, Busy, Idle, MailboxTypeOK
  <2>2. /\ handed'[lane[l].pkt] = 1
        /\ \A p \in Pkt : p # lane[l].pkt => handed'[p] = handed[p]
        /\ lane[l].pkt \in seen
    BY <1>7, <2>1 DEF HandOver, Dispatch, HandInv, MailboxTypeOK
  <2>3. \A k \in Lane : k # l /\ lane[k].at = "open" => handed'[lane[k].pkt] = handed[lane[k].pkt]
    BY <2>1, <2>2 DEF HandInv, Busy, Idle, MailboxTypeOK
  <2>4. QED
    BY <1>7, <2>1, <2>2, <2>3 DEF HandOver, Dispatch, HandInv, HandedAtMostOnce, Busy, Idle
<1>8. CASE Reload
  BY <1>8 DEF Reload, HandInv, HandedAtMostOnce, Busy, Idle
<1>9. QED
  <2>1. ASSUME NEW p \in Pkt, Push(p) \/ Broadcast(p) \/ ChatLookup(p) \/ GrowOld(p)
        PROVE  HandInv'
    BY <1>1, <2>1 DEF Push, Broadcast, ChatLookup, GrowOld
  <2>2. ASSUME NEW p \in Pkt, ChatAppend(p) PROVE HandInv'
    BY <1>1, <2>2 DEF ChatAppend
  <2>3. CASE PollStart \/ PollBatch \/ PollDone \/ BootChat
    BY <1>1, <2>3 DEF PollStart, PollBatch, PollDone, BootChat
  <2>4. CASE ServerPull \/ PullFails \/ PruneExpired \/ UNCHANGED mailboxVars
    BY <1>1, <2>4 DEF ServerPull, PullFails, PruneExpired
  <2>5. QED
    BY <1>2, <1>3, <1>4, <1>5, <1>6, <1>7, <1>8, <2>1, <2>2, <2>3, <2>4
    DEF MailboxNext, Receiver, LaneStep, Surroundings

\* An envelope reaches the application at most once, for every number of
\* concurrent deliveries, repeated pulls and reloads.
THEOREM AtMostOnce == MailboxSpec => []HandedAtMostOnce
<1>1. MailboxInit => HandInv
  BY DEF MailboxInit, HandInv, HandedAtMostOnce, Busy, Idle
<1>2. MailboxTypeOK /\ HandInv /\ [MailboxNext]_mailboxVars => HandInv'
  BY HandStep
<1>3. HandInv => HandedAtMostOnce
  BY DEF HandInv
<1>4. QED
  BY <1>1, <1>2, <1>3, TypeCorrect, PTL DEF MailboxSpec

-----------------------------------------------------------------------------
(***************************************************************************)
(* Nothing is acknowledged before its fate is settled, and the relay keeps *)
(* the rest.  Only pollRelay handles envelopes of the relay, one at a time *)
(* on the lane Cloud; an envelope it finds in the filter was on that lane  *)
(* before, and an envelope it finds in the inbox store is settled.         *)
(***************************************************************************)
OnCloud(p) == lane[Cloud].at \in {"check", "mark"} /\ lane[Cloud].pkt = p

FlowInv ==
  /\ recent \subseteq pushed \cup air
  /\ poll.items \subseteq pushed /\ poll.todo \subseteq poll.items
  /\ poll.at # "handling" => poll.todo = {}
  /\ \A p \in seen : Settled(p)
  /\ \A p \in recent \cap pushed : Settled(p) \/ OnCloud(p)
  /\ poll.at = "handling" =>
       \A p \in poll.items \ poll.todo : Settled(p) \/ OnCloud(p)
  /\ AckedAreSettled
  /\ Accounted

\* What Settled and OnCloud make of an envelope when a lane moves.
LEMMA LaneMoves ==
  ASSUME MailboxTypeOK, NEW l \in Lane, NEW x, lane' = [lane EXCEPT ![l] = x]
  PROVE  /\ lane'[l] = x
         /\ \A k \in Lane : k # l => lane'[k] = lane[k]
BY DEF MailboxTypeOK

\* A settled envelope stays settled: its message is stored, or what was on
\* its way to the store is named as lost.
LEMMA SettledStable ==
  ASSUME MailboxTypeOK, [MailboxNext]_mailboxVars, NEW q \in Pkt, Settled(q)
  PROVE  Settled(q)'
<1> USE DEF mailboxVars, serverVars, runtimeVars, storeVars, historyVars
<1>1. ASSUME UNCHANGED <<lane, chat, stored, lost>> PROVE Settled(q)'
  BY <1>1 DEF Settled, Unsaved
<1>2. ASSUME NEW l \in Lane, NEW p \in Pkt, lane[l] = Idle, Admit(l, p),
             UNCHANGED <<chat, stored>>
      PROVE  Settled(q)'
  <2>1. \A k \in Lane : lane[k].at = "open" => lane'[k] = lane[k]
    BY <1>2 DEF Admit, Idle, MailboxTypeOK
  <2>2. lost[q] # "no" => lost'[q] # "no"
    BY <1>2 DEF Admit, MailboxTypeOK
  <2>3. QED
    BY <1>2, <2>1, <2>2 DEF Settled, Unsaved
<1>3. ASSUME NEW l \in Lane, CheckSeen(l) \/ MarkSeen(l) PROVE Settled(q)'
  <2>1. \A k \in Lane : lane[k].at = "open" => lane'[k] = lane[k]
    BY <1>3 DEF CheckSeen, MarkSeen, MailboxTypeOK
  <2>2. UNCHANGED <<chat, stored, lost>>
    BY <1>3 DEF CheckSeen, MarkSeen
  <2>3. QED
    BY <2>1, <2>2 DEF Settled, Unsaved
<1>4. ASSUME NEW l \in Lane, HandOver(l) PROVE Settled(q)'
  <2>1. \A k \in Lane : k # l => lane'[k] = lane[k]
    BY <1>4 DEF HandOver, Dispatch, MailboxTypeOK
  <2>2. chat[q] # "none" => chat'[q] # "none"
    BY <1>4 DEF HandOver, Dispatch, MailboxTypeOK
  <2>3. lost[q] # "no" => lost'[q] # "no"
    BY <1>4 DEF HandOver, Dispatch, MailboxTypeOK
  <2>4. lane[l].pkt = q => chat'[q] # "none" \/ lost'[q] # "no"
    BY <1>4 DEF HandOver, Dispatch, MailboxTypeOK
  <2>5. stored' = stored
    BY <1>4 DEF HandOver, Dispatch
  <2>6. QED
    BY <2>1, <2>2, <2>3, <2>4, <2>5 DEF Settled, Unsaved
<1>5. ASSUME NEW p \in Pkt, ChatLookup(p) PROVE Settled(q)'
  BY <1>5 DEF ChatLookup, Settled, Unsaved, MailboxTypeOK
<1>6. ASSUME NEW p \in Pkt, ChatAppend(p) PROVE Settled(q)'
  BY <1>6 DEF ChatAppend, Settled, Unsaved, MailboxTypeOK
<1>7. CASE Reload
  BY <1>7 DEF Reload, Settled
<1>8. QED
  <2>1. ASSUME NEW p \in Pkt, Push(p) \/ Broadcast(p) \/ Forget(p) \/ GrowOld(p)
        PROVE  Settled(q)'
    BY <1>1, <2>1 DEF Push, Broadcast, Forget, GrowOld
  <2>2. CASE PollStart \/ PollBatch \/ PollDone \/ BootChat
    BY <1>1, <2>2 DEF PollStart, PollBatch, PollDone, BootChat
  <2>3. CASE ServerPull \/ PullFails \/ PruneExpired \/ UNCHANGED mailboxVars
    BY <1>1, <2>3 DEF ServerPull, PullFails, PruneExpired
  <2>4. ASSUME NEW p \in Pkt, PollNext(p) PROVE Settled(q)'
    BY <1>2, <2>4, MailboxAssumption DEF PollNext
  <2>5. ASSUME NEW l \in Lane, NEW p \in Pkt, AirDeliver(l, p) PROVE Settled(q)'
    BY <1>2, <2>5 DEF AirDeliver
  <2>6. QED
    BY <1>3, <1>4, <1>5, <1>6, <1>7, <2>1, <2>2, <2>3, <2>4, <2>5
    DEF MailboxNext, Receiver, LaneStep, Surroundings

\* An envelope that was settled or on the lane of the relay still is one of
\* the two after every step but a reload.
LEMMA SettledOrOnCloud ==
  ASSUME MailboxTypeOK, \A p \in seen : Settled(p),
         [MailboxNext]_mailboxVars, lane[Cloud] = lane'[Cloud] \/ LaneStep(Cloud),
         NEW q \in Pkt, Settled(q) \/ OnCloud(q)
  PROVE  Settled(q)' \/ OnCloud(q)'
<1>1. CASE Settled(q)
  BY <1>1, SettledStable
<1>2. CASE OnCloud(q) /\ lane[Cloud] = lane'[Cloud]
  BY <1>2 DEF OnCloud
<1>3. CASE OnCloud(q) /\ CheckSeen(Cloud)
  <2>1. CASE q \in seen
    BY <2>1, SettledStable
  <2>2. CASE q \notin seen
    <3>1. lane'[Cloud] = [lane[Cloud] EXCEPT !.at = "mark"]
      BY <1>3, <2>2, LaneMoves, MailboxAssumption DEF CheckSeen, OnCloud
    <3>2. lane'[Cloud].at = "mark" /\ lane'[Cloud].pkt = q
      BY <1>3, <3>1, MailboxAssumption DEF CheckSeen, OnCloud, MailboxTypeOK, Idle
    <3>3. QED
      BY <3>2 DEF OnCloud
  <2>3. QED
    BY <2>1, <2>2
<1>4. CASE OnCloud(q) /\ MarkSeen(Cloud)
  <2>1. lane'[Cloud].at = "open" /\ lane'[Cloud].pkt = q
    BY <1>4, MailboxAssumption DEF MarkSeen, OnCloud, MailboxTypeOK, Idle
  <2>2. QED
    BY <2>1, MailboxAssumption DEF Settled, Unsaved
<1>5. CASE OnCloud(q) /\ HandOver(Cloud)
  BY <1>5 DEF HandOver, Dispatch, OnCloud
<1>6. QED
  BY <1>1, <1>2, <1>3, <1>4, <1>5 DEF LaneStep

\* Which steps move the lane of the relay.
LEMMA CloudMoves ==
  ASSUME MailboxTypeOK, [MailboxNext]_mailboxVars
  PROVE  \/ lane'[Cloud] = lane[Cloud]
         \/ LaneStep(Cloud)
         \/ \E p \in Pkt : PollNext(p)
         \/ Reload
<1> USE MailboxAssumption DEF mailboxVars, serverVars, runtimeVars, storeVars, historyVars
<1>1. ASSUME NEW l \in Lane, LaneStep(l), l # Cloud PROVE lane'[Cloud] = lane[Cloud]
  BY <1>1 DEF LaneStep, CheckSeen, MarkSeen, HandOver, Dispatch, MailboxTypeOK
<1>2. ASSUME NEW l \in Lane, NEW p \in Pkt, AirDeliver(l, p)
      PROVE  lane'[Cloud] = lane[Cloud]
  BY <1>2 DEF AirDeliver, Admit, MailboxTypeOK
<1>3. ASSUME NEW p \in Pkt, \/ Push(p) \/ Broadcast(p) \/ Forget(p) \/ GrowOld(p)
                            \/ ChatLookup(p) \/ ChatAppend(p)
      PROVE  lane' = lane
  BY <1>3 DEF Push, Broadcast, Forget, GrowOld, ChatLookup, ChatAppend
<1>4. CASE PollStart \/ PollBatch \/ PollDone \/ BootChat
  BY <1>4 DEF PollStart, PollBatch, PollDone, BootChat
<1>5. CASE ServerPull \/ PullFails \/ PruneExpired \/ UNCHANGED mailboxVars
  BY <1>5 DEF ServerPull, PullFails, PruneExpired
<1>6. QED
  BY <1>1, <1>2, <1>3, <1>4, <1>5 DEF MailboxNext, Receiver, Surroundings

\* pollRelay takes the next envelope of the batch: it, and all before it,
\* are settled or on the lane of the relay.
LEMMA PollNextFlow ==
  ASSUME MailboxTypeOK, FlowInv, NEW p \in Pkt, PollNext(p)
  PROVE  /\ \A q \in recent' \cap pushed' : Settled(q)' \/ OnCloud(q)'
         /\ poll'.at = "handling" =>
              \A q \in poll'.items \ poll'.todo : Settled(q)' \/ OnCloud(q)'
<1> USE MailboxAssumption DEF mailboxVars, serverVars, runtimeVars, storeVars, historyVars
<1>1. [MailboxNext]_mailboxVars
  BY DEF MailboxNext, Receiver
<1>2. \A q \in Pkt : ~OnCloud(q)
  BY DEF PollNext, OnCloud, Idle
<1>3. /\ poll'.items = poll.items /\ poll'.todo = poll.todo \ {p}
      /\ poll.at = "handling" /\ poll'.at = "handling" /\ pushed' = pushed
  BY DEF PollNext, MailboxTypeOK
<1>4. p \in pushed
  BY DEF PollNext, FlowInv
<1>5. \A q \in recent \cap pushed : Settled(q)'
  BY <1>1, <1>2, SettledStable DEF FlowInv, MailboxTypeOK
<1>6. \A q \in poll.items \ poll.todo : Settled(q)'
  BY <1>1, <1>2, <1>3, SettledStable DEF FlowInv, MailboxTypeOK
<1>7. Settled(p)' \/ OnCloud(p)'
  <2>1. CASE p \in recent
    BY <2>1, <1>4, <1>5
  <2>2. CASE lost' = [lost EXCEPT ![p] = "window"]
    BY <2>2 DEF Settled, MailboxTypeOK
  <2>3. CASE lane' = [lane EXCEPT ![Cloud] = [at |-> "check", pkt |-> p]]
    BY <2>3 DEF OnCloud, MailboxTypeOK
  <2>4. QED
    BY <2>1, <2>2, <2>3 DEF PollNext, Admit
<1>8. recent' \subseteq recent \cup {p}
  BY DEF PollNext, Admit
<1>9. QED
  BY <1>3, <1>5, <1>6, <1>7, <1>8

\* FlowInv is inductive.
LEMMA FlowStep ==
  ASSUME MailboxTypeOK, MailboxTypeOK', FlowInv, [MailboxNext]_mailboxVars
  PROVE  FlowInv'
<1> USE DEF mailboxVars, serverVars, runtimeVars, storeVars, historyVars
<1>1. \A q \in Pkt : Settled(q) => Settled(q)'
  BY SettledStable
<1>2. seen \subseteq Pkt /\ pushed \subseteq Pkt /\ recent \subseteq Pkt
  BY DEF MailboxTypeOK
<1>3. \A q \in seen' : Settled(q)'
  <2>1. ASSUME NEW l \in Lane, MarkSeen(l) PROVE \A q \in seen' : Settled(q)'
    <3>1. PICK p \in Pkt : lane[l].pkt = p
      BY <2>1 DEF MarkSeen, MailboxTypeOK, Idle
    <3>2. seen' = seen \cup {p} /\ lane'[l].at = "open" /\ lane'[l].pkt = p
      BY <2>1, <3>1 DEF MarkSeen, MailboxTypeOK, Idle
    <3>3. Settled(p)'
      BY <3>2 DEF Settled, Unsaved
    <3>4. QED
      BY <1>1, <1>2, <3>2, <3>3 DEF FlowInv
  <2>2. ASSUME seen' = seen PROVE \A q \in seen' : Settled(q)'
    BY <1>1, <1>2, <2>2 DEF FlowInv
  <2>3. seen' = seen \/ \E l \in Lane : MarkSeen(l)
    BY DEF MailboxNext, Receiver, LaneStep, Surroundings, Push, Broadcast, PollStart,
           PollBatch, PollDone, PollNext, Forget, ChatLookup, ChatAppend, CheckSeen,
           HandOver, Dispatch, AirDeliver, BootChat, Reload, ServerPull, PullFails,
           PruneExpired, GrowOld
  <2>4. QED
    BY <2>1, <2>2, <2>3
<1>4. recent' \subseteq pushed' \cup air'
  <2>1. ASSUME NEW p \in Pkt, Push(p) \/ Broadcast(p) \/ Forget(p)
        PROVE  recent' \subseteq pushed' \cup air'
    BY <2>1 DEF Push, Broadcast, Forget, FlowInv
  <2>2. ASSUME NEW p \in Pkt, PollNext(p) PROVE recent' \subseteq pushed' \cup air'
    BY <2>2 DEF PollNext, Admit, FlowInv
  <2>3. ASSUME NEW l \in Lane, NEW p \in Pkt, AirDeliver(l, p)
        PROVE  recent' \subseteq pushed' \cup air'
    BY <2>3 DEF AirDeliver, Admit, FlowInv
  <2>4. CASE Reload
    BY <2>4 DEF Reload
  <2>5. ASSUME UNCHANGED <<recent, pushed, air>> PROVE recent' \subseteq pushed' \cup air'
    BY <2>5 DEF FlowInv
  <2>6. QED
    BY <2>1, <2>2, <2>3, <2>4, <2>5
    DEF MailboxNext, Receiver, LaneStep, Surroundings, PollStart, PollBatch, PollDone,
        ChatLookup, ChatAppend, CheckSeen, MarkSeen, HandOver, Dispatch, BootChat, ServerPull,
        PullFails, PruneExpired, GrowOld
<1>5. /\ poll'.items \subseteq pushed' /\ poll'.todo \subseteq poll'.items
      /\ poll'.at # "handling" => poll'.todo = {}
  <2> DEFINE P == /\ poll'.items \subseteq pushed' /\ poll'.todo \subseteq poll'.items
                  /\ poll'.at # "handling" => poll'.todo = {}
  <2>1. pushed \subseteq pushed'
    BY DEF MailboxNext, Receiver, LaneStep, Surroundings, Push, Broadcast, PollStart,
           PollBatch, PollDone, PollNext, Forget, ChatLookup, ChatAppend, CheckSeen,
           MarkSeen, HandOver, Dispatch, AirDeliver, BootChat, Reload, ServerPull, PullFails,
           PruneExpired, GrowOld
  <2>2. CASE poll' = poll
    BY <2>1, <2>2 DEF FlowInv
  <2>3. CASE poll' = NoPoll
    BY <2>3 DEF NoPoll
  <2>4. CASE PollStart
    BY <2>4 DEF PollStart, NoPoll
  <2>5. CASE PollBatch
    BY <2>1, <2>3, <2>5 DEF PollBatch, FlowInv, MailboxTypeOK
  <2>6. CASE ServerPull
    <3>1. PICK items \in SUBSET mailbox :
            poll' = [poll EXCEPT !.at = "answered", !.items = items]
      BY <2>6 DEF ServerPull
    <3>2. /\ poll'.items = items /\ poll'.todo = poll.todo /\ poll'.at = "answered"
          /\ poll.at = "asked"
      BY <2>6, <3>1 DEF ServerPull, MailboxTypeOK
    <3>3. poll.todo = {}
      BY <3>2 DEF FlowInv
    <3>4. QED
      BY <2>1, <3>1, <3>2, <3>3 DEF MailboxTypeOK
  <2>7. ASSUME NEW p \in Pkt, PollNext(p) PROVE P
    BY <2>1, <2>7 DEF PollNext, FlowInv, MailboxTypeOK
  <2>8. \/ poll' = poll \/ poll' = NoPoll \/ PollStart \/ PollBatch \/ ServerPull
        \/ \E p \in Pkt : PollNext(p)
    BY DEF MailboxNext, Receiver, LaneStep, Surroundings, Push, Broadcast, Forget,
           ChatLookup, ChatAppend, CheckSeen, MarkSeen, HandOver, Dispatch, AirDeliver, BootChat,
           PruneExpired, GrowOld, PollDone, PullFails, Reload
  <2>9. QED
    BY <2>2, <2>3, <2>4, <2>5, <2>6, <2>7, <2>8
<1>6. /\ \A q \in recent' \cap pushed' : Settled(q)' \/ OnCloud(q)'
      /\ poll'.at = "handling" =>
           \A q \in poll'.items \ poll'.todo : Settled(q)' \/ OnCloud(q)'
  <2>1. CASE \E p \in Pkt : PollNext(p)
    BY <2>1, PollNextFlow
  <2>2. CASE Reload
    BY <2>2 DEF Reload, NoPoll
  <2>3. CASE lane'[Cloud] = lane[Cloud] \/ LaneStep(Cloud)
    <3>1. \A q \in Pkt : Settled(q) \/ OnCloud(q) => Settled(q)' \/ OnCloud(q)'
      BY <2>3, SettledOrOnCloud DEF FlowInv
    <3>2. CASE \E p \in Pkt : PollNext(p)
      BY <3>2, PollNextFlow
    <3>3. recent' \cap pushed' \subseteq recent \cap pushed \/ \E p \in Pkt : PollNext(p)
      <4>1. ASSUME NEW p \in Pkt, Push(p) PROVE recent' \cap pushed' \subseteq recent \cap pushed
        BY <4>1 DEF Push, Unused, FlowInv
      <4>2. ASSUME NEW l \in Lane, NEW p \in Pkt, AirDeliver(l, p)
            PROVE  recent' \cap pushed' \subseteq recent \cap pushed
        BY <4>2 DEF AirDeliver, Admit, MailboxTypeOK
      <4>3. ASSUME NEW p \in Pkt, Forget(p) PROVE recent' \cap pushed' \subseteq recent \cap pushed
        BY <4>3 DEF Forget
      <4>4. CASE Reload
        BY <4>4 DEF Reload
      <4>5. CASE UNCHANGED <<recent, pushed>>
        BY <4>5
      <4>6. QED
        BY <4>1, <4>2, <4>3, <4>4, <4>5
        DEF MailboxNext, Receiver, LaneStep, Surroundings, Broadcast, PollStart,
            PollBatch, PollDone, ChatLookup, ChatAppend, CheckSeen, MarkSeen, HandOver, Dispatch,
            BootChat, ServerPull, PullFails, PruneExpired, GrowOld
    <3>4. \/ poll'.at # "handling"
          \/ poll' = poll
          \/ poll'.items \ poll'.todo = {}
          \/ \E p \in Pkt : PollNext(p)
      <4>1. CASE PollBatch
        BY <4>1 DEF PollBatch, NoPoll, MailboxTypeOK
      <4>2. CASE ServerPull
        BY <4>2 DEF ServerPull, MailboxTypeOK
      <4>3. CASE PollStart
        BY <4>3 DEF PollStart, NoPoll
      <4>4. CASE poll' = NoPoll
        BY <4>4 DEF NoPoll
      <4>5. QED
        BY <4>1, <4>2, <4>3, <4>4
        DEF MailboxNext, Receiver, LaneStep, Surroundings, Push, Broadcast, Forget,
            ChatLookup, ChatAppend, CheckSeen, MarkSeen, HandOver, Dispatch, AirDeliver, BootChat,
            PruneExpired, GrowOld, PollDone, PullFails, Reload
    <3>5. poll.items \subseteq Pkt
      BY DEF MailboxTypeOK
    <3>6. ASSUME NEW q \in recent' \cap pushed', ~\E p \in Pkt : PollNext(p)
          PROVE  Settled(q)' \/ OnCloud(q)'
      BY <1>2, <3>1, <3>3, <3>6 DEF FlowInv
    <3>7. ASSUME NEW q \in poll'.items \ poll'.todo, poll'.at = "handling",
                 ~\E p \in Pkt : PollNext(p)
          PROVE  Settled(q)' \/ OnCloud(q)'
      BY <3>1, <3>4, <3>5, <3>7 DEF FlowInv
    <3>8. QED
      BY <3>2, <3>6, <3>7
  <2>4. QED
    BY <2>1, <2>2, <2>3, CloudMoves
<1>7. AckedAreSettled'
  <2>1. relayAck \subseteq Pkt /\ poll.ack \subseteq Pkt /\ poll.items \subseteq Pkt
    BY DEF MailboxTypeOK
  <2>2. \A q \in relayAck \cup poll.ack : Settled(q)'
    BY <1>1, <2>1 DEF FlowInv, AckedAreSettled
  <2>3. relayAck' \subseteq relayAck \/ PollDone
    BY DEF MailboxNext, Receiver, LaneStep, Surroundings, Push, Broadcast, PollStart,
           PollBatch, PollNext, Forget, ChatLookup, ChatAppend, CheckSeen, MarkSeen,
           HandOver, Dispatch, AirDeliver, BootChat, Reload, ServerPull, PullFails,
           PruneExpired, GrowOld
  <2>4. poll'.ack \subseteq relayAck \cup poll.ack
    <3>1. CASE PollStart
      BY <3>1 DEF PollStart, NoPoll
    <3>2. CASE poll' = NoPoll
      BY <3>2 DEF NoPoll
    <3>3. CASE PollBatch
      BY <3>3 DEF PollBatch, NoPoll, MailboxTypeOK
    <3>4. CASE ServerPull
      BY <3>4 DEF ServerPull, MailboxTypeOK
    <3>5. CASE \E p \in Pkt : PollNext(p)
      BY <3>5 DEF PollNext, MailboxTypeOK
    <3>6. QED
      BY <3>1, <3>2, <3>3, <3>4, <3>5
      DEF MailboxNext, Receiver, LaneStep, Surroundings, Push, Broadcast, Forget,
          ChatLookup, ChatAppend, CheckSeen, MarkSeen, HandOver, Dispatch, AirDeliver, BootChat,
          PruneExpired, GrowOld, PollDone, PullFails, Reload
  <2>5. CASE PollDone
    <3>1. \A q \in poll.items : Settled(q)
      BY <2>5 DEF PollDone, FlowInv, OnCloud, Idle
    <3>2. relayAck' = poll.items
      BY <2>5 DEF PollDone
    <3>3. QED
      BY <1>1, <2>1, <2>2, <2>4, <3>1, <3>2 DEF AckedAreSettled
  <2>6. QED
    BY <2>2, <2>3, <2>4, <2>5 DEF AckedAreSettled
<1>8. Accounted'
  <2>1. ASSUME NEW q \in pushed', age'[q] # "expired"
        PROVE  q \in mailbox' \/ Settled(q)'
    <3> USE DEF MailboxNext, Receiver, LaneStep, Surroundings, Push, Broadcast,
                PollStart, PollBatch, PollDone, PollNext, Forget, ChatLookup,
                ChatAppend, CheckSeen, MarkSeen, HandOver, Dispatch, AirDeliver, BootChat,
                Reload, ServerPull, PullFails, PruneExpired, GrowOld
    <3>1. CASE q \notin pushed
      BY <3>1
    <3>2. age[q] # "expired"
      BY <2>1 DEF MailboxTypeOK
    <3>3. CASE q \in pushed /\ Settled(q)
      BY <1>1, <1>2, <3>3
    <3>4. CASE q \in mailbox /\ q \notin mailbox'
      <4>1. q \in poll.ack
        BY <3>2, <3>4
      <4>2. Settled(q)
        BY <4>1 DEF FlowInv, AckedAreSettled
      <4>3. QED
        BY <1>1, <3>4, <4>2 DEF MailboxTypeOK
    <3>5. QED
      BY <3>1, <3>2, <3>3, <3>4 DEF FlowInv, Accounted
  <2>2. QED
    BY <2>1 DEF Accounted
<1>9. QED
  BY <1>3, <1>4, <1>5, <1>6, <1>7, <1>8 DEF FlowInv

\* The device never asks the relay to delete an envelope it has not been
\* through, for every batch size, fault and reload.
THEOREM AckedSettled == MailboxSpec => []AckedAreSettled
<1>1. MailboxInit => FlowInv
  BY DEF MailboxInit, FlowInv, AckedAreSettled, Accounted, NoPoll
<1>2. /\ MailboxTypeOK /\ MailboxTypeOK' /\ FlowInv /\ [MailboxNext]_mailboxVars
      => FlowInv'
  BY FlowStep
<1>3. FlowInv => AckedAreSettled
  BY DEF FlowInv
<1>4. QED
  BY <1>1, <1>2, <1>3, TypeCorrect, PTL DEF MailboxSpec

\* An envelope the relay has accepted stays in its mailbox until it expires
\* or is settled at the receiver.
THEOREM NothingUnaccounted == MailboxSpec => []Accounted
<1>1. MailboxInit => FlowInv
  BY DEF MailboxInit, FlowInv, AckedAreSettled, Accounted, NoPoll
<1>2. /\ MailboxTypeOK /\ MailboxTypeOK' /\ FlowInv /\ [MailboxNext]_mailboxVars
      => FlowInv'
  BY FlowStep
<1>3. FlowInv => Accounted
  BY DEF FlowInv
<1>4. QED
  BY <1>1, <1>2, <1>3, TypeCorrect, PTL DEF MailboxSpec

=============================================================================

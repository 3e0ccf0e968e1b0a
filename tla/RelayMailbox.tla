---------------------------- MODULE RelayMailbox ----------------------------
(***************************************************************************)
(* The cloud relay of the off-grid queue: the mailbox the server keeps for *)
(* one device (routes/api/public/relay.ts) and the receiving pipeline of   *)
(* that device's BrowserNode (lib/browser-node.ts, lib/mesh/guard.ts,      *)
(* lib/store/idb.ts), down to the chat engine that stores the message      *)
(* (lib/chat/engine.ts).                                                   *)
(*                                                                         *)
(* A step is what runs between two awaits.  The receiver is one JavaScript *)
(* thread, so steps are atomic, but a step may act on what was read before *)
(* an earlier await.  Envelopes are opaque: a constant function gives the  *)
(* chat message an envelope carries, and its timestamp is abstracted to    *)
(* the four ages the code tells apart.                                     *)
(***************************************************************************)
EXTENDS Naturals, FiniteSets, Envelopes

CONSTANTS
  Lane,         \* callers of onMeshMessage that can be in flight together
  Cloud,        \* the lane of pollRelay; the others are data channels
  MaxPull,      \* relay.ts MAX_PULL
  Ages,         \* ages an envelope may reach before it is handled
  Overflow,     \* does other traffic overflow the guard's filter?
  ChatFirst,    \* does the chat engine subscribe before the node starts?
  MaxFaults,    \* bound: failed or lost answers of the relay
  MaxCrashes    \* bound: reloads of the receiving page

(***************************************************************************)
(* Age of an envelope's timestamp against the receiver's clock:            *)
(*   early    sender's clock runs ahead by more than REPLAY_FUTURE_MS      *)
(*   fresh    inside the acceptance window of the guard                    *)
(*   stale    older than REPLAY_PAST_MS (10 minutes)                       *)
(*   expired  older than the 14 days the relay keeps an envelope           *)
(***************************************************************************)
AllAges == {"early", "fresh", "stale", "expired"}
Older == [early |-> "fresh", fresh |-> "stale", stale |-> "expired"]

ASSUME MailboxAssumption ==
  /\ IsFiniteSet(Pkt)
  /\ Cloud \in Lane
  /\ MaxPull \in Nat \ {0}
  /\ "fresh" \in Ages /\ Ages \subseteq AllAges
  /\ Overflow \in BOOLEAN /\ ChatFirst \in BOOLEAN
  /\ MaxFaults \in Nat /\ MaxCrashes \in Nat

VARIABLES
  \* the relay's table
  mailbox,   \* rows of relay_envelopes for this device
  age,       \* age of every envelope
  \* the receiver, lost at a reload
  poll,      \* the one pollRelay in progress (relayBusy)
  relayAck,  \* pktIds the next pull will acknowledge
  lane,      \* onMeshMessage calls between two awaits
  recent,    \* the guard's in-memory duplicate filter
  chatUp,    \* has the chat engine subscribed to the mesh bus?
  chat,      \* onChat calls between two awaits, by envelope
  \* the receiver, kept in IndexedDB
  seen,      \* store "inbox"
  stored,    \* store "messages"
  \* the mesh
  air,       \* envelopes sent over data channels; a copy may arrive any
             \* number of times, or never
  \* history
  pushed,    \* envelopes the relay has accepted
  handed,    \* how often each envelope reached the application handler
  lost,      \* why an envelope was let go without a stored message
  faults, crashes

serverVars  == <<mailbox, age, pushed>>
runtimeVars == <<poll, relayAck, lane, recent, chatUp, chat>>
storeVars   == <<seen, stored>>
historyVars == <<handed, lost, faults, crashes>>
mailboxVars == <<serverVars, runtimeVars, storeVars, air, historyVars>>

Idle == [at |-> "idle", pkt |-> NoPkt]
NoPoll == [at |-> "idle", ack |-> {}, items |-> {}, todo |-> {}]

\* Ways an envelope can be consumed without leaving a message behind.
Losses == {"no", "window", "unsubscribed", "crash"}

Smaller(a, b) == IF a < b THEN a ELSE b

-----------------------------------------------------------------------------
(***************************************************************************)
(* Initial state: a page that has just started, nothing sent yet.          *)
(***************************************************************************)
MailboxInit ==
  /\ mailbox = {} /\ pushed = {} /\ air = {}
  /\ age \in [Pkt -> Ages \cap {"early", "fresh"}]
  /\ poll = NoPoll /\ relayAck = {}
  /\ lane = [l \in Lane |-> Idle]
  /\ recent = {} /\ seen = {} /\ stored = {}
  /\ chatUp = ChatFirst
  /\ chat = [p \in Pkt |-> "none"]
  /\ handed = [p \in Pkt |-> 0]
  /\ lost = [p \in Pkt |-> "no"]
  /\ faults = 0 /\ crashes = 0

Unused == Pkt \ (pushed \cup air)

(***************************************************************************)
(* The relay and the sender's side of it.                                  *)
(***************************************************************************)

\* Mutant: an envelope that went out over a data channel is pushed as well.
PushOfAired(p) ==
  /\ p \notin pushed
  /\ mailbox' = mailbox \cup {p}
  /\ pushed' = pushed \cup {p}
  /\ UNCHANGED <<age, runtimeVars, storeVars, air, historyVars>>

\* relay.ts "push": upsert with ignoreDuplicates.  A device only pushes
\* envelopes it has just created, so the pktId is new.
Push(p) ==
  /\ p \in Unused
  /\ mailbox' = mailbox \cup {p}
  /\ pushed' = pushed \cup {p}
  /\ UNCHANGED <<age, runtimeVars, storeVars, air, historyVars>>

\* send() over an open data channel, or broadcastRaw by a relaying node.
Broadcast(p) ==
  /\ p \in Unused
  /\ air' = air \cup {p}
  /\ UNCHANGED <<serverVars, runtimeVars, storeVars, historyVars>>

\* Time passes for one envelope.
GrowOld(p) ==
  /\ p \in pushed \cup air
  /\ age[p] # "expired"
  /\ Older[age[p]] \in Ages
  /\ age' = [age EXCEPT ![p] = Older[age[p]]]
  /\ UNCHANGED <<mailbox, pushed, runtimeVars, storeVars, air, historyVars>>

\* relay_prune_expired, the scheduled job.
PruneExpired ==
  /\ \E p \in mailbox : age[p] = "expired"
  /\ mailbox' = {p \in mailbox : age[p] # "expired"}
  /\ UNCHANGED <<age, pushed, runtimeVars, storeVars, air, historyVars>>

-----------------------------------------------------------------------------
(***************************************************************************)
(* pollRelay.  relayBusy is tested and set in one step, so one poll runs.  *)
(***************************************************************************)
PollStart ==
  /\ poll.at = "idle"
  /\ poll' = [NoPoll EXCEPT !.at = "asked", !.ack = relayAck]
  /\ UNCHANGED <<relayAck, lane, recent, chatUp, chat>>
  /\ UNCHANGED <<serverVars, storeVars, air, historyVars>>

\* Mutant: the rows that are returned are deleted at once.
ServerPullDeletes ==
  /\ poll.at = "asked"
  /\ LET ready == {p \in mailbox \ poll.ack : age[p] # "expired"} IN
     \E items \in SUBSET ready :
       /\ Cardinality(items) = Smaller(MaxPull, Cardinality(ready))
       /\ poll' = [poll EXCEPT !.at = "answered", !.items = items]
       /\ mailbox' = (mailbox \ poll.ack) \ items
  /\ UNCHANGED <<age, pushed, relayAck, lane, recent, chatUp, chat>>
  /\ UNCHANGED <<storeVars, air, historyVars>>

\* relay.ts "pull": delete what the request acknowledges, then read at most
\* MaxPull unexpired rows.  Which rows come first (priority, created_at) is
\* left open.
ServerPull ==
  /\ poll.at = "asked"
  /\ mailbox' = mailbox \ poll.ack
  /\ LET ready == {p \in mailbox' : age[p] # "expired"} IN
     \E items \in SUBSET ready :
       /\ Cardinality(items) = Smaller(MaxPull, Cardinality(ready))
       /\ poll' = [poll EXCEPT !.at = "answered", !.items = items]
  /\ UNCHANGED <<age, pushed, relayAck, lane, recent, chatUp, chat>>
  /\ UNCHANGED <<storeVars, air, historyVars>>

\* The request is refused (429, 503, degraded, cooldown), or the rows are
\* deleted and the select fails, or the answer is lost: pullRelayEnvelopes
\* returns null and relayAck is kept for the next round.
PullFails ==
  /\ poll.at \in {"asked", "answered"}
  /\ faults < MaxFaults
  /\ faults' = faults + 1
  /\ mailbox' \in {mailbox} \cup
       (IF poll.at = "asked" THEN {mailbox \ poll.ack} ELSE {})
  /\ poll' = NoPoll
  /\ UNCHANGED <<age, pushed, relayAck, lane, recent, chatUp, chat>>
  /\ UNCHANGED <<storeVars, air, handed, lost, crashes>>

\* The answer arrives: the previous acknowledgements are settled.
PollBatch ==
  /\ poll.at = "answered"
  /\ relayAck' = {}
  /\ poll' = IF poll.items = {} THEN NoPoll
             ELSE [poll EXCEPT !.at = "handling", !.todo = poll.items]
  /\ UNCHANGED <<lane, recent, chatUp, chat>>
  /\ UNCHANGED <<serverVars, storeVars, air, historyVars>>

\* Mutant: the last onMeshMessage of the batch is not awaited.
PollDoneEarly ==
  /\ poll.at = "handling" /\ poll.todo = {}
  /\ relayAck' = poll.items
  /\ poll' = NoPoll
  /\ UNCHANGED <<lane, recent, chatUp, chat>>
  /\ UNCHANGED <<serverVars, storeVars, air, historyVars>>

\* Mutant: only what is acknowledged already is acknowledged again.
PollDoneNoAck ==
  /\ poll.at = "handling" /\ poll.todo = {} /\ lane[Cloud] = Idle
  /\ relayAck' = poll.ack
  /\ poll' = NoPoll
  /\ UNCHANGED <<lane, recent, chatUp, chat>>
  /\ UNCHANGED <<serverVars, storeVars, air, historyVars>>

\* Every envelope of the batch has been awaited: acknowledge them next time.
PollDone ==
  /\ poll.at = "handling" /\ poll.todo = {} /\ lane[Cloud] = Idle
  /\ relayAck' = poll.items
  /\ poll' = NoPoll
  /\ UNCHANGED <<lane, recent, chatUp, chat>>
  /\ UNCHANGED <<serverVars, storeVars, air, historyVars>>

-----------------------------------------------------------------------------
(***************************************************************************)
(* onMeshMessage.  The guard runs synchronously; then three awaits:        *)
(* alreadySeen ("check"), markSeen ("mark") and openEnvelope ("open").     *)
(***************************************************************************)

\* Mutant: an admitted envelope is not remembered.
AdmitForgets(l, p) ==
  \/ /\ p \in recent
     /\ UNCHANGED <<lane, recent, lost>>
  \/ /\ p \notin recent /\ age[p] # "fresh"
     /\ lost' = [lost EXCEPT ![p] = "window"]
     /\ UNCHANGED <<lane, recent>>
  \/ /\ p \notin recent /\ age[p] = "fresh"
     /\ lane' = [lane EXCEPT ![l] = [at |-> "check", pkt |-> p]]
     /\ UNCHANGED <<recent, lost>>

\* admitEnvelope: duplicate filter first, then the time window, then remember.
\* Signatures are valid here.  A rejected envelope is dropped and the call
\* returns at once, so for pollRelay it counts as handled.
Admit(l, p) ==
  \/ /\ p \in recent
     /\ UNCHANGED <<lane, recent, lost>>
  \/ /\ p \notin recent /\ age[p] # "fresh"
     /\ lost' = [lost EXCEPT ![p] = "window"]
     /\ UNCHANGED <<lane, recent>>
  \/ /\ p \notin recent /\ age[p] = "fresh"
     /\ recent' = recent \cup {p}
     /\ lane' = [lane EXCEPT ![l] = [at |-> "check", pkt |-> p]]
     /\ UNCHANGED lost

\* The for loop of pollRelay hands over the next envelope and awaits it.
PollNext(p) ==
  /\ poll.at = "handling" /\ lane[Cloud] = Idle
  /\ p \in poll.todo
  /\ poll' = [poll EXCEPT !.todo = @ \ {p}]
  /\ Admit(Cloud, p)
  /\ UNCHANGED <<relayAck, chatUp, chat, handed, faults, crashes>>
  /\ UNCHANGED <<serverVars, storeVars, air>>

\* A data channel delivers a copy.
AirDeliver(l, p) ==
  /\ l # Cloud /\ lane[l] = Idle
  /\ p \in air
  /\ Admit(l, p)
  /\ UNCHANGED <<poll, relayAck, chatUp, chat, handed, faults, crashes>>
  /\ UNCHANGED <<serverVars, storeVars, air>>

\* The guard's filter keeps RECENT_LIMIT ids: the oldest falls out when 4096
\* others have come in, which is long after the call that added it is over.
Forget(p) ==
  /\ Overflow
  /\ p \in recent
  /\ \A l \in Lane : lane[l].pkt # p
  /\ recent' = recent \ {p}
  /\ UNCHANGED <<poll, relayAck, lane, chatUp, chat>>
  /\ UNCHANGED <<serverVars, storeVars, air, historyVars>>

\* if (await alreadySeen(pktId)) return;
CheckSeen(l) ==
  /\ lane[l].at = "check"
  /\ lane' = [lane EXCEPT ![l] =
               IF lane[l].pkt \in seen THEN Idle ELSE [@ EXCEPT !.at = "mark"]]
  /\ UNCHANGED <<poll, relayAck, recent, chatUp, chat>>
  /\ UNCHANGED <<serverVars, storeVars, air, historyVars>>

\* await markSeen(pktId);
MarkSeen(l) ==
  /\ lane[l].at = "mark"
  /\ seen' = seen \cup {lane[l].pkt}
  /\ lane' = [lane EXCEPT ![l].at = "open"]
  /\ UNCHANGED <<poll, relayAck, recent, chatUp, chat, stored>>
  /\ UNCHANGED <<serverVars, air, historyVars>>

\* The mesh bus calls the subscribers of kind "chat" and awaits none of them.
\* With no subscriber the call does nothing.
Dispatch(p) ==
  IF chatUp
  THEN chat' = [chat EXCEPT ![p] = "lookup"] /\ UNCHANGED lost
  ELSE lost' = [lost EXCEPT ![p] = "unsubscribed"] /\ UNCHANGED chat

\* handleForMe: the body is opened and given to the application handler.
HandOver(l) ==
  LET p == lane[l].pkt IN
  /\ lane[l].at = "open"
  /\ lane' = [lane EXCEPT ![l] = Idle]
  /\ handed' = [handed EXCEPT ![p] = @ + 1]
  /\ Dispatch(p)
  /\ UNCHANGED <<poll, relayAck, recent, chatUp, faults, crashes>>
  /\ UNCHANGED <<serverVars, storeVars, air>>

-----------------------------------------------------------------------------
(***************************************************************************)
(* onChat, and the page's life cycle.                                      *)
(***************************************************************************)

\* if (await getMessage(p.id)) return;
ChatLookup(p) ==
  /\ chat[p] = "lookup"
  /\ chat' = [chat EXCEPT ![p] = IF MsgOf[p] \in stored THEN "none" ELSE "append"]
  /\ UNCHANGED <<poll, relayAck, lane, recent, chatUp>>
  /\ UNCHANGED <<serverVars, storeVars, air, historyVars>>

\* await appendLocal(conv, msg): putMessage.
ChatAppend(p) ==
  /\ chat[p] = "append"
  /\ chat' = [chat EXCEPT ![p] = "none"]
  /\ stored' = stored \cup {MsgOf[p]}
  /\ UNCHANGED <<poll, relayAck, lane, recent, chatUp, seen>>
  /\ UNCHANGED <<serverVars, air, historyVars>>

\* bootChat reaches onMesh("chat", ...), which CallHost only calls once
\* startNode() has resolved.
BootChat ==
  /\ ~chatUp
  /\ chatUp' = TRUE
  /\ UNCHANGED <<poll, relayAck, lane, recent, chat>>
  /\ UNCHANGED <<serverVars, storeVars, air, historyVars>>

\* An envelope marked as seen whose message is not written yet.
Unsaved == {p \in Pkt : \/ chat[p] # "none"
                        \/ \E l \in Lane : lane[l].at = "open" /\ lane[l].pkt = p}

\* The page is closed or reloaded: memory is gone, IndexedDB stays.
Reload ==
  /\ crashes < MaxCrashes
  /\ crashes' = crashes + 1
  /\ lost' = [p \in Pkt |-> IF p \in Unsaved THEN "crash" ELSE lost[p]]
  /\ poll' = NoPoll /\ relayAck' = {}
  /\ lane' = [l \in Lane |-> Idle]
  /\ recent' = {}
  /\ chatUp' = ChatFirst
  /\ chat' = [p \in Pkt |-> "none"]
  /\ UNCHANGED <<serverVars, storeVars, air, handed, faults>>

-----------------------------------------------------------------------------
\* onMeshMessage goes on after an await.
LaneStep(l) == CheckSeen(l) \/ MarkSeen(l) \/ HandOver(l)

\* The receiving device.
Receiver ==
  \/ PollStart \/ PollBatch \/ PollDone
  \/ \E p \in Pkt : PollNext(p) \/ Forget(p) \/ ChatLookup(p) \/ ChatAppend(p)
  \/ \E l \in Lane : LaneStep(l) \/ \E p \in Pkt : AirDeliver(l, p)
  \/ BootChat \/ Reload

\* The relay, the mesh and the clock.
Surroundings ==
  \/ ServerPull \/ PullFails \/ PruneExpired
  \/ \E p \in Pkt : GrowOld(p)

MailboxNext ==
  \/ \E p \in Pkt : Push(p) \/ Broadcast(p)
  \/ Receiver
  \/ Surroundings

MailboxSpec == MailboxInit /\ [][MailboxNext]_mailboxVars

(***************************************************************************)
(* Fairness.  scheduleRelayPoll re-arms its timer after every round, so a  *)
(* poll always starts again; an await whose IndexedDB request or HTTP call *)
(* has been issued completes; the relay answers once its MaxFaults bad     *)
(* answers are used up.  Nothing is assumed of senders, of data channels,  *)
(* of the clock or of the user who reloads the page.                       *)
(***************************************************************************)
\* One round of pollRelay, the relay's answer included.
PollStep ==
  \/ PollStart \/ ServerPull \/ PollBatch \/ PollDone
  \/ \E p \in Pkt : PollNext(p)
  \/ LaneStep(Cloud)

ReceiverFairness ==
  /\ WF_mailboxVars(PollStep)
  /\ \A l \in Lane \ {Cloud} : WF_mailboxVars(LaneStep(l))
  /\ \A p \in Pkt : WF_mailboxVars(ChatLookup(p) \/ ChatAppend(p))
  /\ WF_mailboxVars(BootChat)

MailboxFairSpec == MailboxSpec /\ ReceiverFairness

-----------------------------------------------------------------------------
(***************************************************************************)
(* Properties.                                                             *)
(***************************************************************************)

\* Type invariant: every variable holds what the code can put there.
MailboxTypeOK ==
  /\ mailbox \subseteq pushed /\ pushed \subseteq Pkt /\ air \subseteq Pkt \ pushed
  /\ age \in [Pkt -> AllAges]
  /\ poll \in [at : {"idle", "asked", "answered", "handling"},
               ack : SUBSET Pkt, items : SUBSET Pkt, todo : SUBSET Pkt]
  /\ relayAck \subseteq Pkt
  /\ lane \in [Lane -> {Idle} \cup [at : {"check", "mark", "open"}, pkt : Pkt]]
  /\ recent \subseteq Pkt /\ seen \subseteq Pkt /\ stored \subseteq Msg
  /\ chatUp \in BOOLEAN
  /\ chat \in [Pkt -> {"none", "lookup", "append"}]
  /\ handed \in [Pkt -> Nat]
  /\ lost \in [Pkt -> Losses]
  /\ faults \in 0..MaxFaults /\ crashes \in 0..MaxCrashes

\* An envelope reaches the application at most once in the device's life,
\* however many lanes deliver it, however often the relay sends it again and
\* wherever a reload falls: the guard's filter covers the awaits, the inbox
\* store covers what the filter has forgotten.
HandedAtMostOnce == \A p \in Pkt : handed[p] <= 1

\* The envelope's message is stored, is on its way to the store past the
\* point where a repeated pull would be refused, or was let go for a reason
\* that can be named.
Settled(p) ==
  \/ MsgOf[p] \in stored
  \/ p \in Unsaved
  \/ lost[p] # "no"

\* The device never asks the relay to delete an envelope it has not been
\* through: neither the next acknowledgement nor one under way names an
\* envelope that a reload would have to fetch again.
AckedAreSettled == \A p \in relayAck \cup poll.ack : Settled(p)

\* An envelope the relay has accepted stays in the mailbox until it expires
\* or is settled at the receiver, through failed pulls, lost answers, full
\* batches and reloads in the middle of a batch.
Accounted == \A p \in pushed : p \in mailbox \/ age[p] = "expired" \/ Settled(p)

\* What relay.ts:4-9 promises: until its 14 days are over, an envelope the
\* relay accepted is in the mailbox or on its way into the message store.
KeptUntilDelivered ==
  \A p \in pushed : \/ p \in mailbox \/ age[p] = "expired"
                    \/ MsgOf[p] \in stored \/ p \in Unsaved

\* A row leaves the mailbox or expires: no batch limit, repeated pull, lost
\* acknowledgement or reload keeps the relay serving it for ever.
MailboxDrains ==
  \A p \in Pkt : p \in mailbox ~> p \notin mailbox \/ age[p] = "expired"

=============================================================================

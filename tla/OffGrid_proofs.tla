--------------------------- MODULE OffGrid_proofs ----------------------------
(***************************************************************************)
(* Theorems about OffGrid: the composed sender and mailbox, for any        *)
(* messages, envelopes, overlapping rounds, failures and reloads.          *)
(***************************************************************************)
EXTENDS OffGrid, RelayMailbox_proofs, WellFoundedInduction

-----------------------------------------------------------------------------
(***************************************************************************)
(* The composition runs the mailbox as it is.                              *)
(***************************************************************************)
LEMMA MailboxStep == [Next]_vars => [MailboxNext]_mailboxVars
  <1>1. \A f \in Flusher : Forward(f) => [MailboxNext]_mailboxVars
    <2> SUFFICES ASSUME NEW f \in Flusher, Forward(f) PROVE [MailboxNext]_mailboxVars
      OBVIOUS
    <2>1. Broadcast(Upcoming(f).env) => Upcoming(f).env \in Pkt
      BY DEF Broadcast, Unused
    <2> QED
      BY <2>1 DEF Forward, MailboxNext
  <1> QED
    BY <1>1 DEF Next, Sender, PushCall, DirectCall, RealtimeCall, ThrownCall, MailboxNext, vars

\* Every behaviour of the composed system is one of RelayMailbox, so that what
\* is proved of the mailbox alone holds of it here.
THEOREM ComposedMailbox == Spec => MailboxSpec
  <1>1. Init => MailboxInit
    BY DEF Init
  <1>2. [Next]_vars => [MailboxNext]_mailboxVars
    BY MailboxStep
  <1> QED
    BY <1>1, <1>2, PTL DEF Spec, MailboxSpec

\* Neither the relay nor a channel takes back that an envelope was sent.
LEMMA SentStays ==
  ASSUME [MailboxNext]_mailboxVars
  PROVE  pushed \subseteq pushed' /\ air \subseteq air'
  <1> USE DEF mailboxVars, serverVars, runtimeVars, storeVars, historyVars
  <1>1. CASE UNCHANGED mailboxVars
    BY <1>1
  <1>2. CASE \E p \in Pkt : Push(p) \/ Broadcast(p)
    BY <1>2 DEF Push, Broadcast
  <1>3. CASE Surroundings
    BY <1>3 DEF Surroundings, ServerPull, PullFails, PruneExpired, GrowOld
  <1>4. CASE Receiver
    BY <1>4 DEF Receiver, PollStart, PollBatch, PollDone, PollNext, Forget, ChatLookup,
                ChatAppend, LaneStep, CheckSeen, MarkSeen, HandOver, Dispatch, AirDeliver,
                BootChat, Reload
  <1> QED
    BY <1>1, <1>2, <1>3, <1>4 DEF MailboxNext

\* The least-number principle, for the ids of intents.
LEMMA Least ==
  ASSUME NEW S \in SUBSET Nat, NEW n \in S
  PROVE  \E m \in S : \A k \in S : m <= k
  <1>1. \A x, y \in Nat : <<x, y>> \in OpToRel(<, Nat) <=> x < y
    BY DEF OpToRel
  <1>2. \E R : IsWellFoundedOn(R, Nat) /\ \A x, y \in Nat : <<x, y>> \in R <=> x < y
    BY <1>1, NatLessThanWellFounded
  <1>3. PICK R : IsWellFoundedOn(R, Nat) /\ \A x, y \in Nat : <<x, y>> \in R <=> x < y
    BY <1>2
  <1>4. PICK m \in S : \A k \in S : ~ (<<k, m>> \in R)
    <2>1. S \subseteq Nat /\ S # {}
      OBVIOUS
    <2>2. IsWellFoundedOn(R, Nat)
      BY <1>3
    <2>3. \E x \in S : \A y \in S : ~ (<<y, x>> \in R)
      BY <2>1, <2>2, WFMin, Zenon
    <2> QED
      BY <2>3
  <1>5. \A k \in S : ~(k < m)
    BY <1>3, <1>4
  <1>6. \A k \in S : k \in Nat /\ m \in Nat
    OBVIOUS
  <1> QED
    BY <1>5, <1>6

-----------------------------------------------------------------------------
(***************************************************************************)
(* The inductive invariant of the sender.  Every step of a send() knows    *)
(* the message it is about; what a round of flushQueue has in its snapshot *)
(* is still traced by the queue, in it or in an older intent.              *)
(***************************************************************************)
CallAt == {"read", "asked", "relay", "direct", "stored", "failed", "queued"}
CallRec == [at : CallAt, msg : Msg]
Rests == [at : {"idle", "import", "load"}]
Lists == [at : {"loaded", "next"}, todo : SUBSET Item]
Rows == [at : {"next", "send", "tell"}, todo : SUBSET Item, row : Intents(Item)]

Typed ==
  /\ status \in [Msg -> {"none", "pending", "sent"}]
  /\ outbox \in SUBSET Item /\ nextId \in Nat
  /\ missed \in SUBSET Msg /\ thrown \in SUBSET Pkt
  /\ call \in [Caller -> {NoCall} \cup CallRec]
  /\ flush \in [Flusher -> Rests \cup Lists \cup Rows]
  /\ flushBusy \in BOOLEAN /\ cooldown \in BOOLEAN

\* The calls of sendText and retryMessage are about their message, the call of
\* a round about the row it sends.
Owned ==
  /\ \A m \in Msg : /\ call[Sending(m)] \in CallRec => call[Sending(m)].msg = m
                    /\ call[Retrying(m)] \in CallRec => call[Retrying(m)].msg = m
  /\ \A f \in Flusher : flush[f].at = "send" =>
       call[f] \in CallRec /\ call[f].msg = flush[f].row.msg

\* Messages of which an envelope was taken or is queued, or that were missed.
Taken == {m \in Msg : HandedOver(m) \/ m \in missed}

Handed ==
  /\ \A m \in Msg : status[m] = "sent" => m \in Taken
  /\ \A c \in Caller : call[c].at = "stored" => call[c].msg \in Taken
  /\ \A f \in Flusher : flush[f].at = "tell" => flush[f].row.msg \in Taken

Traced(r) == r.msg \in Taken \/ \E q \in Intents(outbox) : q.msg = r.msg /\ q.id <= r.id

Snapshots ==
  \A f \in Flusher : flush[f].at = "loaded" => \A r \in Intents(flush[f].todo) : Traced(r)

SendInv == Typed /\ Owned /\ Handed /\ Snapshots

\* What an action of the sender leaves of the messages that were taken, and
\* of the intents.
Remembers == Taken \subseteq Taken'

KeepsIntents ==
  \A r \in Intents(outbox) : r \in outbox' \/ r.msg \in Taken'
                    \/ \E q \in Intents(outbox)' : q.msg = r.msg /\ q.id < r.id

\* An envelope leaves the queue only for a channel, or is missed.
LEMMA Remembering ==
  ASSUME [MailboxNext]_mailboxVars, missed \subseteq missed',
         \A r \in outbox \ Intents(outbox) :
           r \in outbox' \/ r.msg \in missed' \/ \E p \in air' : MsgOf[p] = r.msg
  PROVE  Remembers
  <1>1. pushed \subseteq pushed' /\ air \subseteq air'
    BY SentStays
  <1>2. \A m \in Msg : OnChannel(m) => OnChannel(m)' \/ m \in missed'
    BY <1>1 DEF OnChannel, Intents
  <1> QED
    BY <1>1, <1>2 DEF Remembers, Taken, HandedOver

LEMMA ItemKinds ==
  /\ \A r \in Item : r.id \in Nat /\ r.msg \in Msg /\ r.env \in Pkt \cup {NoPkt}
  /\ \A r \in Item : r.env # NoPkt => r.env \in Pkt /\ r.msg = MsgOf[r.env]
  /\ Intents(Item) \subseteq Item
  BY DEF Item, Intents

LEMMA CallKinds ==
  /\ NoCall \notin CallRec /\ NoCall.at = "idle"
  /\ \A v \in CallRec : v.at \in CallAt /\ v.msg \in Msg
  /\ \A v \in CallRec, a \in CallAt : LET w == [v EXCEPT !.at = a]
                                      IN  w \in CallRec /\ w.at = a /\ w.msg = v.msg
  /\ \A m \in Msg, a \in CallAt : LET w == [at |-> a, msg |-> m]
                                  IN  w \in CallRec /\ w.at = a /\ w.msg = m
  <1>1. NoCall.at = "idle"
    BY DEF NoCall
  <1>2. \A v \in CallRec : v.at \in CallAt /\ v.msg \in Msg
    BY DEF CallRec
  <1>3. "idle" \notin CallAt
    BY DEF CallAt
  <1> QED
    BY <1>1, <1>2, <1>3 DEF CallRec

LEMMA RoundKinds ==
  ASSUME NEW r \in Rests \cup Lists \cup Rows
  PROVE  /\ r.at \in {"loaded", "next"} => r.todo \in SUBSET Item
         /\ r.at \in {"send", "tell"} => r \in Rows
  <1>1. \A x \in Rests : x.at \in {"idle", "import", "load"}
    BY DEF Rests
  <1>2. \A x \in Lists : x.at \in {"loaded", "next"} /\ x.todo \in SUBSET Item
    BY DEF Lists
  <1>3. \A x \in Rows : x.at \in {"next", "send", "tell"} /\ x.todo \in SUBSET Item
    BY DEF Rows
  <1> QED
    BY <1>1, <1>2, <1>3

LEMMA CallerKinds ==
  /\ \A m \in Msg : Sending(m) \in Caller /\ Retrying(m) \in Caller
  /\ \A m, n \in Msg : Sending(m) # Retrying(n)
  /\ \A m, n \in Msg : m # n => Sending(m) # Sending(n) /\ Retrying(m) # Retrying(n)
  /\ \A f \in Flusher : f \in Caller /\ \A m \in Msg : f # Sending(m) /\ f # Retrying(m)
  <1>1. \A m \in Msg : /\ Sending(m) \in {"send", "retry"} \X Msg
                       /\ Retrying(m) \in {"send", "retry"} \X Msg
    BY DEF Sending, Retrying
  <1>2. /\ \A m, n \in Msg : Sending(m) # Retrying(n)
        /\ \A m, n \in Msg : m # n => Sending(m) # Sending(n) /\ Retrying(m) # Retrying(n)
    BY DEF Sending, Retrying
  <1> QED
    BY <1>1, <1>2, OutboxAssumption DEF Caller

\* What a snapshot has is traced as long as no step lets an intent go for
\* nothing.
LEMMA SnapshotsStay ==
  ASSUME SendInv, Typed', Remembers, KeepsIntents,
         \A f \in Flusher : flush'[f].at = "loaded" =>
           flush'[f] = flush[f] \/ flush'[f].todo \subseteq outbox'
  PROVE  Snapshots'
  <1>1. \A r \in Item : Traced(r) => Traced(r)'
    <2> SUFFICES ASSUME NEW r \in Item, Traced(r) PROVE Traced(r)'
      OBVIOUS
    <2>1. r.msg \in Msg
      BY ItemKinds
    <2>2. CASE r.msg \in Taken
      BY <2>1, <2>2 DEF Remembers, Traced
    <2>3. CASE \E q \in Intents(outbox) : q.msg = r.msg /\ q.id <= r.id
      <3>1. PICK q \in Intents(outbox) : q.msg = r.msg /\ q.id <= r.id
        BY <2>3
      <3>2. \/ q \in Intents(outbox)' \/ q.msg \in Taken'
            \/ \E x \in Intents(outbox)' : x.msg = q.msg /\ x.id < q.id
        BY DEF KeepsIntents, Intents
      <3>3. \A x \in Intents(outbox)' : x.id \in Nat
        BY ItemKinds DEF Typed, Intents
      <3>4. q.id \in Nat /\ r.id \in Nat
        BY ItemKinds DEF SendInv, Typed, Intents
      <3> QED
        BY <3>1, <3>2, <3>3, <3>4 DEF Traced
    <2> QED
      BY <2>2, <2>3 DEF Traced
  <1>2. \A r \in Intents(outbox)' : Traced(r)'
    <2>1. \A r \in Intents(outbox)' : r.id \in Nat
      BY ItemKinds DEF Typed, Intents
    <2> QED
      BY <2>1 DEF Traced
  <1>3. \A f \in Flusher : flush[f].at = "loaded" => flush[f].todo \subseteq Item
    BY RoundKinds DEF SendInv, Typed
  <1> QED
    BY <1>1, <1>2, <1>3 DEF SendInv, Snapshots, Intents

\* The answer of a send() that is under way.
LEMMA AnswerKeeps ==
  ASSUME SendInv, Remembers, NEW c \in Caller, call[c] \in CallRec, NEW a \in CallAt,
         Answer(c, a), UNCHANGED <<status, flush, flushBusy>>,
         outbox \subseteq outbox', outbox' \in SUBSET Item, nextId' \in Nat,
         cooldown' \in BOOLEAN, missed' \in SUBSET Msg, thrown' \in SUBSET Pkt,
         a = "stored" => call[c].msg \in Taken'
  PROVE  SendInv' /\ KeepsIntents
  <1>1. PICK v : v = [call[c] EXCEPT !.at = a]
    OBVIOUS
  <1>2. v \in CallRec /\ v.at = a /\ v.msg = call[c].msg
    BY <1>1, CallKinds
  <1>3. call' = [call EXCEPT ![c] = v]
    BY <1>1 DEF Answer
  <1>4. Typed'
    BY <1>2, <1>3 DEF SendInv, Typed
  <1>5. call'[c] = v /\ \A d \in Caller : d # c => call'[d] = call[d]
    BY <1>3 DEF SendInv, Typed
  <1>6. Owned'
    BY <1>2, <1>5, CallerKinds DEF SendInv, Owned
  <1>7. Handed'
    <2>1. \A m \in Msg : status'[m] = "sent" => m \in Taken'
      BY DEF SendInv, Handed, Remembers
    <2>2. \A d \in Caller : call'[d].at = "stored" => call'[d].msg \in Taken'
      <3> TAKE d \in Caller
      <3>1. CASE d = c
        BY <1>2, <1>5, <3>1
      <3>2. CASE d # c /\ call[d].at = "stored"
        <4>1. call[d] \in CallRec
          BY <3>2, CallKinds DEF SendInv, Typed
        <4> QED
          BY <1>5, <3>2, <4>1, CallKinds DEF SendInv, Handed, Remembers
      <3> QED
        BY <1>5, <3>1, <3>2
    <2>3. \A f \in Flusher : flush[f].at = "tell" => flush'[f].row.msg \in Taken'
      <3> TAKE f \in Flusher
      <3>1. flush[f].at = "tell" => flush[f].row.msg \in Msg
        BY RoundKinds, ItemKinds DEF SendInv, Typed, Rows
      <3> QED
        BY <3>1 DEF SendInv, Handed, Remembers
    <2> QED
      BY <2>1, <2>2, <2>3 DEF Handed
  <1>8. KeepsIntents
    BY DEF KeepsIntents, Intents
  <1>9. Snapshots'
    BY <1>4, <1>8, SnapshotsStay
  <1> QED
    BY <1>4, <1>6, <1>7, <1>8, <1>9 DEF SendInv

\* What stays handed over when neither the calls nor the rounds bring news.
LEMMA HandedStays ==
  ASSUME SendInv, Remembers, \A m \in Msg : status'[m] = "sent" => m \in Taken',
         \A d \in Caller : call'[d].at = "stored" => call'[d] = call[d],
         \A f \in Flusher : flush'[f].at = "tell" =>
           flush'[f] = flush[f] \/ flush'[f].row.msg \in Taken'
  PROVE  Handed'
  <1>1. \A d \in Caller : call[d].at = "stored" => call[d].msg \in Msg
    BY CallKinds DEF SendInv, Typed
  <1>2. \A f \in Flusher : flush[f].at = "tell" => flush[f].row.msg \in Msg
    BY RoundKinds, ItemKinds DEF SendInv, Typed, Rows
  <1>3. \A d \in Caller : call'[d].at = "stored" => call'[d].msg \in Taken'
    BY <1>1 DEF SendInv, Handed, Remembers
  <1>4. \A f \in Flusher : flush'[f].at = "tell" => flush'[f].row.msg \in Taken'
    BY <1>2 DEF SendInv, Handed, Remembers
  <1> QED
    BY <1>3, <1>4 DEF Handed

-----------------------------------------------------------------------------
(***************************************************************************)
(* The steps of a send().                                                  *)
(***************************************************************************)
LEMMA CallsKeep ==
  ASSUME SendInv, Remembers, NEW c \in Caller,
         \/ CallGoesOn(c) \/ CallSkipped(c) \/ CallRefused(c) \/ CallLost(c)
         \/ CallDirect(c) \/ CallMissed(c) \/ \E p \in Pkt : CallThrown(c, p)
         \/ CallStored(c) /\ call[c].msg \in Taken'
  PROVE  SendInv' /\ KeepsIntents
  <1> USE DEF callVars, flushVars, boundVars, directVars
  <1>1. call[c].at # "idle" => call[c] \in CallRec
    BY CallKinds DEF SendInv, Typed
  <1>2. /\ outbox \in SUBSET Item /\ nextId \in Nat /\ cooldown \in BOOLEAN
        /\ missed \in SUBSET Msg /\ thrown \in SUBSET Pkt
    BY DEF SendInv, Typed
  <1>3. /\ {"relay", "failed", "stored", "direct"} \subseteq CallAt
        /\ "failed" # "stored" /\ "relay" # "stored" /\ "direct" # "stored"
    BY DEF CallAt
  <1>4. CASE CallGoesOn(c)
    BY <1>1, <1>2, <1>3, <1>4, AnswerKeeps DEF CallGoesOn
  <1>5. CASE CallSkipped(c)
    BY <1>1, <1>2, <1>3, <1>5, AnswerKeeps DEF CallSkipped, Waiting
  <1>6. CASE CallRefused(c)
    BY <1>1, <1>2, <1>3, <1>6, AnswerKeeps DEF CallRefused, Waiting
  <1>7. CASE CallLost(c)
    BY <1>1, <1>2, <1>3, <1>7, AnswerKeeps DEF CallLost
  <1>8. CASE CallStored(c) /\ call[c].msg \in Taken'
    BY <1>1, <1>2, <1>3, <1>8, AnswerKeeps DEF CallStored, Waiting
  <1>9. CASE CallDirect(c)
    BY <1>1, <1>2, <1>3, <1>9, AnswerKeeps DEF CallDirect
  <1>10. CASE CallMissed(c)
    <2>1. call[c] \in CallRec /\ call[c].msg \in Msg
      BY <1>1, <1>10, CallKinds DEF CallMissed
    <2>2. missed' \in SUBSET Msg /\ call[c].msg \in Taken'
      BY <1>2, <1>10, <2>1 DEF CallMissed, Taken
    <2> QED
      BY <1>2, <1>3, <1>10, <2>1, <2>2, AnswerKeeps DEF CallMissed
  <1>11. ASSUME NEW p \in Pkt, CallThrown(c, p) PROVE SendInv' /\ KeepsIntents
    <2>1. call[c] \in CallRec /\ call[c].msg \in Msg /\ MsgOf[p] = call[c].msg
      BY <1>1, <1>11, CallKinds DEF CallThrown
    <2>2. PICK i \in Item : /\ i.env = p /\ i.msg = call[c].msg
                            /\ outbox' = outbox \cup {i}
      <3>1. [id |-> nextId, msg |-> call[c].msg, env |-> p] \in Item
        BY <1>2, <2>1 DEF Item
      <3> QED
        BY <1>11, <3>1 DEF CallThrown, Enter
    <2>3. i \in outbox' \ Intents(outbox)'
      BY <2>2, EnvelopeAssumption DEF Intents
    <2>4. call[c].msg \in Taken'
      BY <2>1, <2>2, <2>3 DEF Taken, HandedOver, OnChannel
    <2>5. outbox' \in SUBSET Item /\ nextId' \in Nat /\ thrown' \in SUBSET Pkt
      BY <1>2, <1>11, <2>2 DEF CallThrown, Enter
    <2> QED
      BY <1>2, <1>3, <1>11, <2>1, <2>2, <2>4, <2>5, AnswerKeeps DEF CallThrown
  <1> QED
    BY <1>4, <1>5, <1>6, <1>7, <1>8, <1>9, <1>10, <1>11

(***************************************************************************)
(* The chat engine.                                                        *)
(***************************************************************************)

\* A step of sendText or retryMessage starts or ends the call of its message.
LEMMA EngineKeeps ==
  ASSUME SendInv, Remembers, Typed', UNCHANGED flush, outbox \subseteq outbox',
         NEW m \in Msg, NEW c \in {Sending(m), Retrying(m)},
         NEW w \in {NoCall} \cup CallRec, call' = [call EXCEPT ![c] = w],
         w \in CallRec => w.at # "stored" /\ w.msg = m,
         \A n \in Msg : status'[n] = "sent" => n \in Taken'
  PROVE  SendInv' /\ KeepsIntents
  <1>1. call'[c] = w /\ \A d \in Caller : d # c => call'[d] = call[d]
    BY CallerKinds DEF SendInv, Typed
  <1>2. Owned'
    <2>1. \A n \in Msg : /\ call'[Sending(n)] \in CallRec => call'[Sending(n)].msg = n
                         /\ call'[Retrying(n)] \in CallRec => call'[Retrying(n)].msg = n
      BY <1>1, CallerKinds DEF SendInv, Owned
    <2>2. \A f \in Flusher : call'[f] = call[f]
      BY <1>1, CallerKinds
    <2> QED
      BY <2>1, <2>2 DEF SendInv, Owned
  <1>3. \A d \in Caller : call'[d].at = "stored" => call'[d] = call[d]
    BY <1>1, CallKinds
  <1>4. Handed'
    BY <1>3, HandedStays
  <1>5. KeepsIntents
    BY DEF KeepsIntents, Intents
  <1>6. Snapshots'
    BY <1>5, SnapshotsStay
  <1> QED
    BY <1>2, <1>4, <1>5, <1>6 DEF SendInv

LEMMA ChatKeeps ==
  ASSUME SendInv, Remembers, NEW m \in Msg,
         \/ Compose(m) \/ ComposeSent(m) \/ ComposeQueued(m)
         \/ Resend(m) \/ ResendAsk(m) \/ ResendSent(m) \/ ResendQueued(m) \/ ResendPending(m)
  PROVE  SendInv' /\ KeepsIntents
  <1> USE DEF callVars, flushVars, boundVars, directVars
  <1>1. Sending(m) \in Caller /\ Retrying(m) \in Caller
    BY CallerKinds
  <1>2. \A n \in Msg : status[n] = "sent" => n \in Taken'
    BY DEF SendInv, Handed, Remembers
  <1>3. [at |-> "asked", msg |-> m] \in CallRec /\ [at |-> "read", msg |-> m] \in CallRec
    BY DEF CallRec, CallAt
  <1>4. \A c \in {Sending(m), Retrying(m)} : call[c].at # "idle" =>
          call[c] \in CallRec /\ call[c].msg = m
    BY <1>1, CallKinds DEF SendInv, Typed, Owned
  <1>5. \A c \in {Sending(m), Retrying(m)} : call[c].at = "stored" => m \in Taken'
    BY <1>1, <1>4 DEF SendInv, Handed, Remembers
  <1>6. /\ status \in [Msg -> {"none", "pending", "sent"}] /\ outbox \in SUBSET Item
        /\ nextId \in Nat /\ call \in [Caller -> {NoCall} \cup CallRec]
    BY DEF SendInv, Typed
  <1>7. [id |-> nextId, msg |-> m, env |-> NoPkt] \in Item
    BY <1>6 DEF Item
  <1>8. CASE Compose(m)
    <2>1. Typed' BY <1>3, <1>8 DEF Compose, Ask, SendInv, Typed
    <2>2. \A n \in Msg : status'[n] = "sent" => n \in Taken'
      BY <1>2, <1>6, <1>8 DEF Compose
    <2> QED BY <1>3, <1>8, <2>1, <2>2, EngineKeeps DEF Compose, Ask
  <1>9. CASE ComposeSent(m)
    <2>1. Typed' BY <1>9 DEF ComposeSent, Sent, SendInv, Typed
    <2>2. \A n \in Msg : status'[n] = "sent" => n \in Taken'
      BY <1>2, <1>5, <1>6, <1>9 DEF ComposeSent, Sent
    <2> QED BY <1>9, <2>1, <2>2, CallKinds, EngineKeeps DEF ComposeSent
  <1>10. CASE ComposeQueued(m)
    <2>1. Typed'
      <3>1. outbox' \in SUBSET Item /\ nextId' \in Nat
        BY <1>6, <1>7, <1>10 DEF ComposeQueued, Enqueue, Enter
      <3>2. call' \in [Caller -> {NoCall} \cup CallRec]
        BY <1>6, <1>10 DEF ComposeQueued
      <3> QED BY <1>10, <3>1, <3>2 DEF ComposeQueued, SendInv, Typed
    <2> QED BY <1>2, <1>10, <2>1, CallKinds, EngineKeeps DEF ComposeQueued, Enqueue, Enter
  <1>11. CASE Resend(m)
    <2>1. Typed' BY <1>3, <1>11 DEF Resend, SendInv, Typed
    <2> QED BY <1>2, <1>3, <1>11, <2>1, EngineKeeps DEF Resend
  <1>12. CASE ResendAsk(m)
    <2>1. Typed' BY <1>3, <1>12 DEF ResendAsk, Ask, SendInv, Typed
    <2>2. \A n \in Msg : status'[n] = "sent" => n \in Taken'
      BY <1>2, <1>6, <1>12 DEF ResendAsk
    <2> QED BY <1>3, <1>12, <2>1, <2>2, EngineKeeps DEF ResendAsk, Ask
  <1>13. CASE ResendSent(m)
    <2>1. Typed' BY <1>13 DEF ResendSent, SendInv, Typed
    <2>2. \A n \in Msg : status'[n] = "sent" => n \in Taken'
      BY <1>2, <1>5, <1>6, <1>13 DEF ResendSent
    <2> QED BY <1>13, <2>1, <2>2, CallKinds, EngineKeeps DEF ResendSent
  <1>14. CASE ResendQueued(m)
    <2>1. PICK w : w = [call[Retrying(m)] EXCEPT !.at = "queued"]
      OBVIOUS
    <2>2. call[Retrying(m)] \in CallRec /\ call[Retrying(m)].msg = m
      BY <1>4, <1>14 DEF ResendQueued
    <2>3. "queued" \in CallAt
      BY DEF CallAt
    <2>4. w \in CallRec /\ w.at = "queued" /\ w.msg = m
      BY <2>1, <2>2, <2>3, CallKinds
    <2>5. call' = [call EXCEPT ![Retrying(m)] = w]
      BY <1>14, <2>1 DEF ResendQueued, Answer
    <2>6. Typed'
      <3>1. outbox' \in SUBSET Item /\ nextId' \in Nat
        BY <1>6, <1>7, <1>14 DEF ResendQueued, Enqueue, Enter
      <3>2. call' \in [Caller -> {NoCall} \cup CallRec]
        BY <1>6, <2>4, <2>5
      <3> QED BY <1>14, <3>1, <3>2 DEF ResendQueued, SendInv, Typed
    <2>7. outbox \subseteq outbox' /\ UNCHANGED <<flush, status>>
      BY <1>14 DEF ResendQueued, Enqueue, Enter
    <2> QED BY <1>2, <2>4, <2>5, <2>6, <2>7, EngineKeeps
  <1>15. CASE ResendPending(m)
    <2>1. Typed' BY <1>15 DEF ResendPending, SendInv, Typed
    <2>2. \A n \in Msg : status'[n] = "sent" => n \in Taken'
      BY <1>2, <1>6, <1>15 DEF ResendPending
    <2> QED BY <1>15, <2>1, <2>2, CallKinds, EngineKeeps DEF ResendPending
  <1> QED
    BY <1>8, <1>9, <1>10, <1>11, <1>12, <1>13, <1>14, <1>15

-----------------------------------------------------------------------------
(***************************************************************************)
(* The rounds of flushQueue.                                               *)
(***************************************************************************)

\* A step of round f moves it to v and leaves its call as w.
LEMMA RoundKeeps ==
  ASSUME SendInv, Remembers, Typed', KeepsIntents, NEW f \in Flusher,
         NEW v \in Rests \cup Lists \cup Rows, flush' = [flush EXCEPT ![f] = v],
         NEW w \in {NoCall} \cup CallRec, call' = [call EXCEPT ![f] = w],
         w.at = "stored" => w = call[f],
         v.at = "send" => w \in CallRec /\ w.msg = v.row.msg,
         v.at = "loaded" => v.todo \subseteq outbox',
         v.at = "tell" => v.row.msg \in Taken',
         \A n \in Msg : status'[n] = "sent" => n \in Taken'
  PROVE  SendInv'
  <1>1. /\ call'[f] = w /\ \A d \in Caller : d # f => call'[d] = call[d]
        /\ flush'[f] = v /\ \A g \in Flusher : g # f => flush'[g] = flush[g]
    BY CallerKinds DEF SendInv, Typed
  <1>2. Owned'
    <2>1. \A n \in Msg : /\ call'[Sending(n)] = call[Sending(n)]
                         /\ call'[Retrying(n)] = call[Retrying(n)]
      BY <1>1, CallerKinds
    <2>2. \A g \in Flusher : flush'[g].at = "send" =>
            call'[g] \in CallRec /\ call'[g].msg = flush'[g].row.msg
      BY <1>1, CallerKinds DEF SendInv, Owned
    <2> QED
      BY <2>1, <2>2 DEF SendInv, Owned
  <1>3. Handed'
    BY <1>1, HandedStays
  <1>4. Snapshots'
    BY <1>1, SnapshotsStay
  <1> QED
    BY <1>2, <1>3, <1>4 DEF SendInv

\* Of the intents of one message the oldest in the snapshot survives the
\* removal of repeats, and the queue traces it.
LEMMA DedupeKeeps ==
  ASSUME SendInv, Remembers, NEW f \in Flusher, FlushDedupe(f)
  PROVE  KeepsIntents
  <1> DEFINE rows == flush[f].todo
  <1>1. /\ Intents(rows) \in SUBSET Item /\ outbox \in SUBSET Item
        /\ Intents(outbox) \in SUBSET Item
    BY RoundKinds DEF FlushDedupe, SendInv, Typed, Intents
  <1>2. outbox' = outbox \ Repeats(rows)
    BY DEF FlushDedupe
  <1> HIDE DEF rows
  <1> SUFFICES ASSUME NEW r \in Intents(outbox), r \notin outbox'
               PROVE  \/ r.msg \in Taken'
                      \/ \E q \in Intents(outbox)' : q.msg = r.msg /\ q.id < r.id
    BY DEF KeepsIntents
  <1>3. r \in Intents(rows) /\ \E q \in Intents(rows) : q.msg = r.msg /\ q.id < r.id
    BY <1>2 DEF Repeats, Intents
  <1>4. PICK older \in Intents(rows) : older.msg = r.msg /\ older.id < r.id
    BY <1>3
  <1> DEFINE ids == {q.id : q \in {x \in Intents(rows) : x.msg = r.msg}}
  <1>5. ids \in SUBSET Nat /\ r.id \in ids
    BY <1>1, <1>3, ItemKinds
  <1>6. \E n \in ids : \A k \in ids : n <= k
    <2> HIDE DEF ids
    <2> QED BY <1>5, Least
  <1>7. PICK q1 \in Intents(rows) :
          q1.msg = r.msg /\ \A q \in Intents(rows) : q.msg = r.msg => q1.id <= q.id
    BY <1>6
  <1>8. Traced(q1)
    BY <1>7 DEF FlushDedupe, SendInv, Snapshots, rows
  <1>9. r.msg \in Msg
    BY <1>1, ItemKinds
  <1>10. CASE q1.msg \in Taken
    BY <1>7, <1>9, <1>10 DEF Remembers
  <1>11. CASE \E x \in Intents(outbox) : x.msg = q1.msg /\ x.id <= q1.id
    <2>1. PICK x \in Intents(outbox) : x.msg = q1.msg /\ x.id <= q1.id
      BY <1>11
    <2>2. \A q \in Intents(rows) : q.id \in Nat
      BY <1>1, ItemKinds
    <2>3. x.id \in Nat /\ r.id \in Nat
      BY <1>1, ItemKinds
    <2>4. x \notin Repeats(rows)
      BY <1>7, <2>1, <2>2, <2>3 DEF Repeats
    <2>5. x \in Intents(outbox)'
      BY <1>2, <2>4 DEF Intents
    <2>6. x.id < r.id
      BY <1>4, <1>7, <2>1, <2>2, <2>3
    <2> QED
      BY <1>7, <2>1, <2>5, <2>6
  <1> QED
    BY <1>8, <1>10, <1>11 DEF Traced

LEMMA OldestIn ==
  ASSUME NEW rows \in SUBSET Item, rows # {}
  PROVE  Oldest(rows) \in rows
  <1> DEFINE ids == {q.id : q \in rows}
  <1>1. ids \in SUBSET Nat
    BY ItemKinds
  <1>2. PICK r \in rows : TRUE
    OBVIOUS
  <1>3. r.id \in ids
    BY <1>2
  <1>4. \E n \in ids : \A k \in ids : n <= k
    <2> HIDE DEF ids
    <2> QED BY <1>1, <1>3, Least
  <1>5. \E q \in rows : \A k \in rows : q.id <= k.id
    BY <1>4
  <1> QED
    BY <1>5 DEF Oldest

LEMMA FlushKeeps ==
  ASSUME SendInv, Remembers, NEW f \in Flusher,
         \/ FlushEnter(f) \/ FlushBegin(f) \/ FlushLoad(f) \/ FlushDedupe(f) \/ FlushPick(f)
         \/ FlushNotSent(f) \/ FlushSent(f) \/ FlushTell(f) \/ FlushEnd(f)
         \/ ForwardKept(f) \/ ForwardTaken(f) \/ ForwardMissed(f)
  PROVE  SendInv' /\ KeepsIntents
  <1> USE DEF callVars, flushVars, boundVars, directVars
  <1>1. f \in Caller
    BY CallerKinds
  <1>2. /\ status \in [Msg -> {"none", "pending", "sent"}] /\ outbox \in SUBSET Item
        /\ call \in [Caller -> {NoCall} \cup CallRec]
        /\ flush \in [Flusher -> Rests \cup Lists \cup Rows]
    BY DEF SendInv, Typed
  <1>3. \A n \in Msg : status[n] = "sent" => n \in Taken'
    BY DEF SendInv, Handed, Remembers
  <1>4. UNCHANGED outbox => KeepsIntents
    BY DEF KeepsIntents, Intents
  <1>5. UNCHANGED call => call' = [call EXCEPT ![f] = call[f]]
    BY <1>1, <1>2
  <1>6. call[f] \in {NoCall} \cup CallRec
    BY <1>1, <1>2
  <1>7. /\ [at |-> "idle"] \in Rests /\ [at |-> "import"] \in Rests /\ [at |-> "load"] \in Rests
        /\ \A t \in SUBSET Item : [at |-> "loaded", todo |-> t] \in Lists
                                  /\ [at |-> "next", todo |-> t] \in Lists
        /\ \A t \in SUBSET Item, r \in Intents(Item) : [at |-> "send", todo |-> t, row |-> r] \in Rows
    BY DEF Rests, Lists, Rows
  <1>8. ASSUME flush[f] \in Rows, NEW a \in {"next", "tell"}
        PROVE  LET v == [flush[f] EXCEPT !.at = a]
               IN  v \in Rows /\ v.at = a /\ v.row = flush[f].row
    BY <1>8 DEF Rows
  <1>9. flush[f].at \in {"send", "tell"} => flush[f] \in Rows /\ flush[f].row \in Intents(Item)
    BY <1>2, RoundKinds DEF Rows
  <1>10. CASE FlushEnter(f)
    <2>1. PICK v \in Rests : v.at = "import" /\ flush' = [flush EXCEPT ![f] = v]
      BY <1>7, <1>10 DEF FlushEnter, Round
    <2>2. UNCHANGED <<status, outbox, call, cooldown, nextId, flushBusy, missed, thrown>>
      BY <1>10 DEF FlushEnter
    <2>3. Typed' BY <1>2, <2>1, <2>2 DEF SendInv, Typed
    <2> QED BY <1>3, <1>4, <1>5, <1>6, <2>1, <2>2, <2>3, RoundKeeps
  <1>11. CASE FlushBegin(f)
    <2>1. PICK v \in Rests : flush' = [flush EXCEPT ![f] = v]
      BY <1>7, <1>11 DEF FlushBegin, Round, NoRound
    <2>2. v.at \in {"idle", "import", "load"}
      BY DEF Rests
    <2>3. flushBusy' \in BOOLEAN
      BY <1>11 DEF FlushBegin, SendInv, Typed
    <2>4. UNCHANGED <<status, outbox, call, cooldown, nextId, missed, thrown>>
      BY <1>11 DEF FlushBegin
    <2>5. Typed' BY <1>2, <2>1, <2>3, <2>4 DEF SendInv, Typed
    <2> QED BY <1>3, <1>4, <1>5, <1>6, <2>1, <2>2, <2>4, <2>5, RoundKeeps
  <1>12. CASE FlushLoad(f)
    <2>1. PICK v \in Lists : /\ v.at = "loaded" /\ v.todo = outbox
                            /\ flush' = [flush EXCEPT ![f] = v]
      BY <1>2, <1>7, <1>12 DEF FlushLoad, Round
    <2>2. UNCHANGED <<status, outbox, call, cooldown, nextId, flushBusy, missed, thrown>>
      BY <1>12 DEF FlushLoad
    <2>3. Typed' BY <1>2, <2>1, <2>2 DEF SendInv, Typed
    <2> QED BY <1>3, <1>4, <1>5, <1>6, <2>1, <2>2, <2>3, RoundKeeps
  <1>13. CASE FlushDedupe(f)
    <2>1. PICK v \in Lists : v.at = "next" /\ flush' = [flush EXCEPT ![f] = v]
      <3>1. flush[f].todo \in SUBSET Item
        BY <1>2, <1>13, RoundKinds DEF FlushDedupe
      <3>2. PICK t \in SUBSET Item : t = Batch(flush[f].todo \ Repeats(flush[f].todo))
        BY <3>1 DEF Batch
      <3>3. flush' = [flush EXCEPT ![f] = [at |-> "next", todo |-> t]]
        BY <1>13, <3>2 DEF FlushDedupe, Round
      <3> QED BY <1>7, <3>3
    <2>2. outbox' \in SUBSET Item /\ UNCHANGED <<status, call, cooldown, nextId, flushBusy, missed, thrown>>
      BY <1>2, <1>13 DEF FlushDedupe
    <2>3. Typed' BY <1>2, <2>1, <2>2 DEF SendInv, Typed
    <2>4. KeepsIntents BY <1>13, DedupeKeeps
    <2> QED BY <1>3, <1>5, <1>6, <2>1, <2>2, <2>3, <2>4, RoundKeeps
  <1>14. CASE FlushPick(f)
    <2>1. flush[f].todo \in SUBSET Item /\ flush[f].todo # {}
      BY <1>2, <1>14, RoundKinds DEF FlushPick, Proceeds
    <2>2. PICK r \in Intents(Item) : r = Upcoming(f)
      BY <1>14, <2>1, OldestIn DEF FlushPick, Upcoming, Intents
    <2>3. r.msg \in Msg /\ flush[f].todo \ {r} \in SUBSET Item
      BY <2>1, ItemKinds
    <2>4. flush' = [flush EXCEPT ![f] = [at |-> "send", todo |-> flush[f].todo \ {r}, row |-> r]]
      BY <1>14, <2>2 DEF FlushPick, Round
    <2>5. PICK v \in Rows : v.at = "send" /\ v.row = r /\ flush' = [flush EXCEPT ![f] = v]
      BY <1>7, <2>3, <2>4
    <2>6. PICK w \in CallRec : /\ w.at = "asked" /\ w.msg = r.msg
                              /\ call' = [call EXCEPT ![f] = w]
      <3>1. [at |-> "asked", msg |-> r.msg] \in CallRec
        BY <2>3 DEF CallRec, CallAt
      <3> QED BY <1>14, <2>2, <3>1 DEF FlushPick, Ask
    <2>7. UNCHANGED <<status, outbox, flushBusy, cooldown, nextId, missed, thrown>>
      BY <1>14 DEF FlushPick
    <2>8. Typed' BY <1>2, <2>5, <2>6, <2>7 DEF SendInv, Typed
    <2> QED BY <1>3, <1>4, <2>5, <2>6, <2>7, <2>8, RoundKeeps
  <1>15. CASE FlushNotSent(f)
    <2>1. PICK v \in Rows : v = [flush[f] EXCEPT !.at = "next"] /\ v.at = "next"
      BY <1>8, <1>9, <1>15 DEF FlushNotSent
    <2>2. flush' = [flush EXCEPT ![f] = v] /\ call' = [call EXCEPT ![f] = NoCall]
      BY <1>15, <2>1 DEF FlushNotSent, Round
    <2>3. UNCHANGED <<status, outbox, flushBusy, cooldown, nextId, missed, thrown>>
      BY <1>15 DEF FlushNotSent
    <2>4. Typed' BY <1>2, <2>2, <2>3 DEF SendInv, Typed
    <2> QED BY <1>3, <1>4, <2>1, <2>2, <2>3, <2>4, CallKinds, RoundKeeps
  <1>16. CASE FlushSent(f)
    <2>1. PICK v \in Rows : /\ v = [flush[f] EXCEPT !.at = "tell"] /\ v.at = "tell"
                           /\ v.row = flush[f].row
      BY <1>8, <1>9, <1>16 DEF FlushSent
    <2>2. flush' = [flush EXCEPT ![f] = v] /\ call' = [call EXCEPT ![f] = NoCall]
      BY <1>16, <2>1 DEF FlushSent, Round
    <2>3. /\ outbox' = outbox \ {flush[f].row}
          /\ UNCHANGED <<status, flushBusy, cooldown, nextId, missed, thrown>>
      BY <1>16 DEF FlushSent
    <2>4. Typed' BY <1>2, <2>2, <2>3 DEF SendInv, Typed
    <2>5. flush[f].row.msg \in Taken'
      BY <1>1, <1>16 DEF FlushSent, SendInv, Owned, Handed, Remembers
    <2>6. KeepsIntents
      BY <2>3, <2>5 DEF KeepsIntents, Intents
    <2> QED BY <1>3, <2>1, <2>2, <2>4, <2>5, <2>3, <2>6, CallKinds, RoundKeeps
  <1>17. CASE FlushTell(f)
    <2>1. PICK v \in Rows : v = [flush[f] EXCEPT !.at = "next"] /\ v.at = "next"
      BY <1>8, <1>9, <1>17 DEF FlushTell
    <2>2. flush' = [flush EXCEPT ![f] = v] /\ UNCHANGED <<outbox, call, flushBusy, cooldown, nextId, missed, thrown>>
      BY <1>17, <2>1 DEF FlushTell, Round
    <2>3. flush[f].row.msg \in Taken'
      BY <1>17 DEF FlushTell, SendInv, Handed, Remembers
    <2>4. /\ status' \in [Msg -> {"none", "pending", "sent"}]
          /\ \A n \in Msg : status'[n] = "sent" => n \in Taken'
      BY <1>2, <1>3, <1>17, <2>3 DEF FlushTell, Sent
    <2>5. Typed' BY <1>2, <2>2, <2>4 DEF SendInv, Typed
    <2> QED BY <1>4, <1>5, <1>6, <2>1, <2>2, <2>4, <2>5, RoundKeeps
  <1>18. CASE FlushEnd(f)
    <2>1. PICK v \in Rests : v.at = "idle" /\ flush' = [flush EXCEPT ![f] = v]
      BY <1>7, <1>18 DEF FlushEnd, Round, NoRound
    <2>2. UNCHANGED <<status, outbox, call, cooldown, nextId, missed, thrown>> /\ flushBusy' \in BOOLEAN
      BY <1>18 DEF FlushEnd
    <2>3. Typed' BY <1>2, <2>1, <2>2 DEF SendInv, Typed
    <2> QED BY <1>3, <1>4, <1>5, <1>6, <2>1, <2>2, <2>3, RoundKeeps
  <1>19. CASE ForwardKept(f) \/ ForwardTaken(f) \/ ForwardMissed(f)
    <2>1. FlushForward(f)
      BY <1>19 DEF ForwardKept, ForwardTaken, ForwardMissed
    <2>2. /\ flush[f].todo \in SUBSET Item /\ Upcoming(f) \in flush[f].todo
          /\ Upcoming(f) \in Item /\ Upcoming(f).env # NoPkt
      BY <1>2, <2>1, RoundKinds, OldestIn DEF FlushForward, Proceeds, Upcoming
    <2>3. flush[f].todo \ {Upcoming(f)} \in SUBSET Item
      BY <2>2
    <2>4. PICK v \in Lists : v.at = "next" /\ flush' = [flush EXCEPT ![f] = v]
      BY <1>7, <2>1, <2>3 DEF FlushForward, Round
    <2>5. /\ outbox' = outbox \/ outbox' = outbox \ {Upcoming(f)}
          /\ UNCHANGED <<status, call, flushBusy, cooldown, nextId, thrown>>
      BY <1>19, <2>1 DEF ForwardKept, ForwardTaken, ForwardMissed, FlushForward
    <2>6. missed' \in SUBSET Msg
      BY <1>19, <2>2, ItemKinds DEF ForwardKept, ForwardTaken, ForwardMissed, SendInv, Typed
    <2>7. Typed' BY <1>2, <2>4, <2>5, <2>6 DEF SendInv, Typed
    <2>8. KeepsIntents
      BY <2>2, <2>5 DEF KeepsIntents, Intents
    <2> QED BY <1>3, <1>5, <1>6, <2>4, <2>5, <2>7, <2>8, RoundKeeps
  <1> QED
    BY <1>10, <1>11, <1>12, <1>13, <1>14, <1>15, <1>16, <1>17, <1>18, <1>19

-----------------------------------------------------------------------------
(***************************************************************************)
(* All steps of the composition.                                           *)
(***************************************************************************)
LEMMA SendInvInit == Init => SendInv
  <1> SUFFICES ASSUME OutboxInit PROVE SendInv
    BY DEF Init
  <1> USE DEF OutboxInit
  <1>1. NoRound \in Rests /\ NoRound.at = "idle"
    BY DEF NoRound, Rests
  <1>2. Typed
    BY <1>1 DEF Typed
  <1>3. Owned /\ Handed /\ Snapshots
    BY <1>1, CallKinds, CallerKinds DEF Owned, Handed, Snapshots
  <1> QED
    BY <1>2, <1>3 DEF SendInv

\* A reload of the sending page keeps what is in IndexedDB.
LEMMA RestartKeeps ==
  ASSUME SendInv, Remembers, Restart
  PROVE  SendInv' /\ KeepsIntents
  <1>1. NoRound \in Rests /\ NoRound.at = "idle"
    BY DEF NoRound, Rests
  <1>2. Typed'
    BY <1>1 DEF Restart, SendInv, Typed, directVars
  <1>3. /\ \A c \in Caller : call'[c] = NoCall
        /\ \A f \in Flusher : flush'[f] = NoRound
        /\ UNCHANGED <<status, outbox>>
    BY DEF Restart
  <1>4. Owned' /\ Snapshots'
    BY <1>1, <1>3, CallKinds, CallerKinds DEF Owned, Snapshots
  <1>5. Handed'
    BY <1>1, <1>3, CallKinds DEF SendInv, Handed, Remembers
  <1> QED
    BY <1>2, <1>3, <1>4, <1>5 DEF SendInv, KeepsIntents, Intents

\* Steps that change neither the stores nor the calls nor the rounds.
LEMMA RestKeeps ==
  ASSUME SendInv, Remembers, cooldown' \in BOOLEAN,
         UNCHANGED <<status, outbox, call, flush, flushBusy, nextId, directVars>>
  PROVE  SendInv' /\ KeepsIntents
  <1>1. Typed' /\ Owned'
    BY DEF SendInv, Typed, Owned, directVars
  <1>2. \A m \in Msg : status'[m] = "sent" => m \in Taken'
    BY DEF SendInv, Handed, Remembers
  <1>3. Handed'
    BY <1>2, HandedStays
  <1>4. KeepsIntents
    BY DEF KeepsIntents, Intents
  <1>5. Snapshots'
    BY <1>1, <1>4, SnapshotsStay
  <1> QED
    BY <1>1, <1>3, <1>4, <1>5 DEF SendInv

\* The three steps that take items out of the queue, and the steps that do not.
LEMMA NextRemembers == SendInv /\ [Next]_vars => Remembers
  <1> SUFFICES ASSUME SendInv, [Next]_vars PROVE Remembers
    OBVIOUS
  <1> USE DEF callVars, flushVars, boundVars, directVars
  <1>1. [MailboxNext]_mailboxVars
    BY MailboxStep
  <1>2. ASSUME outbox \subseteq outbox', missed \subseteq missed' PROVE Remembers
    BY <1>1, <1>2, Remembering
  <1>3. ASSUME NEW f \in Flusher, FlushDedupe(f) PROVE Remembers
    <2>1. missed' = missed /\ outbox' = outbox \ Repeats(flush[f].todo)
      BY <1>3 DEF FlushDedupe
    <2>2. \A r \in outbox \ Intents(outbox) : r \in outbox'
      BY <2>1 DEF Repeats, Intents
    <2> QED
      BY <1>1, <2>1, <2>2, Remembering
  <1>4. ASSUME NEW f \in Flusher, FlushSent(f) PROVE Remembers
    <2>1. flush[f].row \in Intents(Item)
      BY <1>4, RoundKinds DEF FlushSent, SendInv, Typed, Rows
    <2>2. missed' = missed /\ \A r \in outbox \ Intents(outbox) : r \in outbox'
      BY <1>4, <2>1 DEF FlushSent, Intents
    <2> QED
      BY <1>1, <2>2, Remembering
  <1>5. ASSUME NEW f \in Flusher, Forward(f) \/ ForwardMissed(f) PROVE Remembers
    <2>1. FlushForward(f) /\ missed \subseteq missed' /\ outbox' = outbox \ {Upcoming(f)}
      BY <1>5 DEF Forward, ForwardTaken, ForwardMissed
    <2>2. Upcoming(f) \in Item /\ Upcoming(f).env # NoPkt
      BY <2>1, RoundKinds, OldestIn DEF FlushForward, Proceeds, Upcoming, SendInv, Typed
    <2>3. \/ Upcoming(f).msg \in missed'
          \/ \E p \in air' : MsgOf[p] = Upcoming(f).msg
      BY <1>5, <2>2, ItemKinds DEF Forward, ForwardMissed, Broadcast, mailboxVars
    <2> QED
      BY <1>1, <2>1, <2>3, Remembering
  <1>6. ASSUME NEW c \in Caller, NEW p \in Pkt,
               \/ PushCall(c, p) \/ RealtimeCall(c, p)
               \/ DirectCall(c, p) \/ ThrownCall(c, p)
        PROVE  Remembers
    BY <1>2, <1>6 DEF PushCall, RealtimeCall, DirectCall, ThrownCall, CallStored,
                      CallGoesOn, CallThrown, Enter
  <1>7. CASE OutboxStep
    <2>1. ASSUME NEW c \in Caller,
                 CallSkipped(c) \/ CallRefused(c) \/ CallLost(c) \/ CallMissed(c)
          PROVE  Remembers
      BY <1>2, <2>1 DEF CallSkipped, CallRefused, CallLost, CallMissed
    <2>2. ASSUME NEW m \in Msg,
                 \/ Compose(m) \/ ComposeSent(m) \/ ComposeQueued(m) \/ Resend(m)
                 \/ ResendAsk(m) \/ ResendSent(m) \/ ResendQueued(m) \/ ResendPending(m)
          PROVE  Remembers
      BY <1>2, <2>2 DEF Compose, ComposeSent, ComposeQueued, Resend, ResendAsk, ResendSent,
                        ResendQueued, ResendPending, Enqueue, Enter
    <2>3. ASSUME NEW f \in Flusher,
                 \/ FlushEnter(f) \/ FlushBegin(f) \/ FlushLoad(f) \/ FlushPick(f)
                 \/ FlushNotSent(f) \/ FlushTell(f) \/ FlushEnd(f) \/ ForwardKept(f)
          PROVE  Remembers
      BY <1>2, <2>3 DEF FlushEnter, FlushBegin, FlushLoad, FlushPick, FlushNotSent,
                        FlushTell, FlushEnd, ForwardKept
    <2>4. CASE CooldownEnds \/ Restart
      BY <1>2, <2>4 DEF CooldownEnds, Restart
    <2> QED
      BY <1>3, <1>4, <1>5, <1>7, <2>1, <2>2, <2>3, <2>4 DEF OutboxStep
  <1>8. CASE UNCHANGED outboxVars
    BY <1>2, <1>8 DEF outboxVars
  <1>9. ASSUME NEW c \in Caller, CallDirect(c) PROVE Remembers
    BY <1>2, <1>9 DEF CallDirect
  <1> QED
    BY <1>5, <1>6, <1>7, <1>8, <1>9 DEF Next, Sender, vars

LEMMA SendInvNext == SendInv /\ [Next]_vars => SendInv' /\ KeepsIntents
  <1> SUFFICES ASSUME SendInv, [Next]_vars PROVE SendInv' /\ KeepsIntents
    OBVIOUS
  <1>1. Remembers
    BY NextRemembers
  <1>2. cooldown \in BOOLEAN
    BY DEF SendInv, Typed
  <1>3. ASSUME NEW c \in Caller, NEW p \in Pkt,
               \/ PushCall(c, p) \/ RealtimeCall(c, p)
               \/ DirectCall(c, p) \/ ThrownCall(c, p)
        PROVE  SendInv' /\ KeepsIntents
    <2>1. CASE PushCall(c, p) \/ RealtimeCall(c, p) \/ DirectCall(c, p)
      <3>1. MsgOf[p] = call[c].msg /\ p \in pushed' \cup air'
        BY <2>1 DEF PushCall, DirectCall, RealtimeCall, Push, Broadcast
      <3>2. MsgOf[p] \in Msg
        BY EnvelopeAssumption
      <3>3. call[c].msg \in Taken'
        BY <3>1, <3>2 DEF Taken, HandedOver, OnChannel
      <3>4. CallStored(c) \/ CallGoesOn(c)
        BY <2>1 DEF PushCall, DirectCall, RealtimeCall
      <3> QED
        BY <1>1, <3>3, <3>4, CallsKeep
    <2>2. CASE ThrownCall(c, p)
      BY <1>1, <2>2, CallsKeep DEF ThrownCall
    <2> QED
      BY <1>3, <2>1, <2>2
  <1>4. CASE OutboxStep
    <2>1. ASSUME NEW c \in Caller,
                 CallSkipped(c) \/ CallRefused(c) \/ CallLost(c) \/ CallMissed(c)
          PROVE  SendInv' /\ KeepsIntents
      BY <1>1, <2>1, CallsKeep
    <2>2. CASE CooldownEnds
      BY <1>1, <2>2, RestKeeps DEF CooldownEnds, flushVars, boundVars
    <2>3. ASSUME NEW m \in Msg,
                 \/ Compose(m) \/ ComposeSent(m) \/ ComposeQueued(m) \/ Resend(m)
                 \/ ResendAsk(m) \/ ResendSent(m) \/ ResendQueued(m) \/ ResendPending(m)
          PROVE  SendInv' /\ KeepsIntents
      BY <1>1, <2>3, ChatKeeps
    <2>4. ASSUME NEW f \in Flusher,
                 \/ FlushEnter(f) \/ FlushBegin(f) \/ FlushLoad(f) \/ FlushDedupe(f)
                 \/ FlushPick(f) \/ FlushNotSent(f) \/ FlushSent(f) \/ FlushTell(f)
                 \/ FlushEnd(f) \/ ForwardKept(f) \/ ForwardMissed(f)
          PROVE  SendInv' /\ KeepsIntents
      BY <1>1, <2>4, FlushKeeps
    <2>5. CASE Restart
      BY <1>1, <2>5, RestartKeeps
    <2> QED
      BY <1>4, <2>1, <2>2, <2>3, <2>4, <2>5 DEF OutboxStep
  <1>5. ASSUME NEW f \in Flusher, Forward(f) PROVE SendInv' /\ KeepsIntents
    BY <1>1, <1>5, FlushKeeps DEF Forward
  <1>6. ASSUME NEW c \in Caller, CallDirect(c) PROVE SendInv' /\ KeepsIntents
    BY <1>1, <1>6, CallsKeep
  <1>7. CASE UNCHANGED outboxVars
    BY <1>1, <1>2, <1>7, RestKeeps DEF outboxVars, callVars, flushVars, boundVars
  <1> QED
    BY <1>3, <1>4, <1>5, <1>6, <1>7 DEF Next, Sender, vars

LEMMA SendInvKept == Spec => []SendInv
  BY SendInvInit, SendInvNext, PTL DEF Spec

\* The sender's variables always hold what the code can put there.
THEOREM OutboxTypeCorrect == Spec => []OutboxTypeOK
  <1>1. SendInv => OutboxTypeOK
    <2> SUFFICES ASSUME SendInv PROVE OutboxTypeOK
      OBVIOUS
    <2>1. \A c \in Caller : call[c] = NoCall \/ call[c] \in CallRec
      BY DEF SendInv, Typed
    <2>2. ASSUME NEW f \in Flusher
          PROVE  \/ flush[f] \in Rests
                 \/ flush[f].at \in {"loaded", "next"} /\ flush[f].todo \subseteq Item
                 \/ /\ flush[f].at \in {"send", "tell"}
                    /\ flush[f].todo \subseteq Item /\ flush[f].row \in Intents(Item)
      <3>1. flush[f] \in Rests \/ flush[f] \in Lists \/ flush[f] \in Rows
        BY DEF SendInv, Typed
      <3> QED
        BY <3>1 DEF Lists, Rows
    <2>3. /\ status \in [Msg -> {"none", "pending", "sent"}] /\ outbox \subseteq Item
          /\ flushBusy \in BOOLEAN /\ cooldown \in BOOLEAN
          /\ missed \subseteq Msg /\ thrown \subseteq Pkt
      BY DEF SendInv, Typed
    <2> QED
      BY <2>1, <2>2, <2>3 DEF OutboxTypeOK, CallRec, CallAt, Rests
  <1> QED
    BY <1>1, SendInvKept, PTL

\* The first tick is never shown for a message of which no envelope was taken
\* or queued, however many rounds, resends and reloads overlap, unless a direct
\* send of it reached no channel.
THEOREM SentWasHandedOver == Spec => []SentIsHandedOver
  <1>1. SendInv => SentIsHandedOver
    BY DEF SendInv, Handed, Taken, SentIsHandedOver
  <1> QED
    BY <1>1, SendInvKept, PTL

\* Overlapping rounds of flushQueue never delete the last trace of a message
\* that was not handed over, unless a direct send of it reached no channel.
THEOREM IntentsKept == Spec => IntentKept
  <1>1. SendInv /\ KeepsIntents =>
          \A r \in Intents(outbox) :
            \/ r \in outbox' \/ HandedOver(r.msg)' \/ r.msg \in missed'
            \/ \E q \in Intents(outbox)' : q.msg = r.msg /\ q.id < r.id
    BY DEF KeepsIntents, Taken
  <1>2. SendInv /\ [Next]_vars =>
          [\A r \in Intents(outbox) :
             \/ r \in outbox' \/ HandedOver(r.msg)' \/ r.msg \in missed'
             \/ \E q \in Intents(outbox)' : q.msg = r.msg /\ q.id < r.id]_vars
    BY <1>1, SendInvNext
  <1> QED
    BY <1>2, SendInvKept, PTL DEF Spec, IntentKept

\* A message shown as sent that only the relay can have is in the mailbox, or
\* the receiver let it go for one of the named reasons.
THEOREM SentStaysAccounted == Spec => []SentIsAccounted
  <1>1. SentIsHandedOver /\ Accounted => SentIsAccounted
    BY DEF SentIsHandedOver, HandedOver, Accounted, SentIsAccounted
  <1> QED
    BY <1>1, SentWasHandedOver, ComposedMailbox, NothingUnaccounted, PTL

-----------------------------------------------------------------------------
(***************************************************************************)
(* The queue keeps the safety part of Courier's promise.  At the sender    *)
(* all that is queued, under way or in a snapshot is of messages that were *)
(* composed; at the receiver all that is on its way into the store came    *)
(* out of an envelope that was sent.                                       *)
(***************************************************************************)
Accepted == {m \in Msg : status[m] # "none"}
Gone == pushed \cup air

\* What a round of flushQueue holds is of messages in S.
About(v, S) ==
  /\ v.at \in {"loaded", "next", "send", "tell"} => \A r \in v.todo : r.msg \in S
  /\ v.at \in {"send", "tell"} => v.row.msg \in S

SenderKnows ==
  /\ \A c \in Caller : call[c].at # "idle" => call[c].msg \in Accepted
  /\ \A r \in outbox : r.msg \in Accepted
  /\ \A f \in Flusher : About(flush[f], Accepted)
EnvelopesKnown == \A p \in Gone : MsgOf[p] \in Accepted

ChatKnows == \A p \in Pkt : chat[p] # "none" => p \in Gone

\* The receiver writes what an envelope brought, and nothing else.
LEMMA ReceiverStores ==
  ASSUME MailboxTypeOK, HandInv, FlowInv, ChatKnows, [MailboxNext]_mailboxVars
  PROVE  /\ ChatKnows'
         /\ stored' = stored \/ \E p \in Gone : stored' = stored \cup {MsgOf[p]}
  <1> USE DEF mailboxVars, serverVars, runtimeVars, storeVars, historyVars
  <1>1. Gone \subseteq Gone'
    BY SentStays DEF Gone
  <1>2. ASSUME \A p \in Pkt : chat'[p] # "none" => chat[p] # "none" PROVE ChatKnows'
    BY <1>1, <1>2 DEF ChatKnows
  <1>3. ASSUME NEW l \in Lane, HandOver(l) PROVE ChatKnows' /\ stored' = stored
    <2>1. PICK p \in Pkt : p = lane[l].pkt
      BY <1>3 DEF HandOver, MailboxTypeOK, Idle
    <2>2. p \in Gone
      BY <1>3, <2>1 DEF HandOver, HandInv, Busy, FlowInv, Gone
    <2>3. \A q \in Pkt : q # p => chat'[q] = chat[q]
      BY <1>3, <2>1 DEF HandOver, Dispatch, MailboxTypeOK
    <2> QED
      BY <1>1, <1>3, <2>2, <2>3 DEF HandOver, ChatKnows
  <1>4. ASSUME NEW p \in Pkt, ChatLookup(p) PROVE ChatKnows' /\ stored' = stored
    <2>1. \A q \in Pkt : chat'[q] # "none" => chat[q] # "none"
      BY <1>4 DEF ChatLookup, MailboxTypeOK
    <2> QED
      BY <1>2, <1>4, <2>1 DEF ChatLookup
  <1>5. ASSUME NEW p \in Pkt, ChatAppend(p)
        PROVE  ChatKnows' /\ p \in Gone /\ stored' = stored \cup {MsgOf[p]}
    <2>1. \A q \in Pkt : chat'[q] # "none" => chat[q] # "none"
      BY <1>5 DEF ChatAppend, MailboxTypeOK
    <2> QED
      BY <1>2, <1>5, <2>1 DEF ChatAppend, ChatKnows
  <1>6. CASE Reload
    BY <1>2, <1>6 DEF Reload
  <1>7. ASSUME UNCHANGED <<chat, stored>> PROVE ChatKnows' /\ stored' = stored
    BY <1>2, <1>7
  <1>8. \/ UNCHANGED <<chat, stored>> \/ Reload
        \/ \E l \in Lane : HandOver(l)
        \/ \E p \in Pkt : ChatLookup(p) \/ ChatAppend(p)
    <2>1. ASSUME NEW p \in Pkt, Push(p) \/ Broadcast(p) PROVE UNCHANGED <<chat, stored>>
      BY <2>1 DEF Push, Broadcast
    <2>2. ASSUME Surroundings PROVE UNCHANGED <<chat, stored>>
      <3>1. ServerPull => UNCHANGED <<chat, stored>>
        BY DEF ServerPull
      <3>2. PullFails \/ PruneExpired => UNCHANGED <<chat, stored>>
        BY DEF PullFails, PruneExpired
      <3>3. \A p \in Pkt : GrowOld(p) => UNCHANGED <<chat, stored>>
        BY DEF GrowOld
      <3> QED
        BY <2>2, <3>1, <3>2, <3>3 DEF Surroundings
    <2>3. ASSUME PollStart \/ PollBatch \/ PollDone \/ BootChat PROVE UNCHANGED <<chat, stored>>
      BY <2>3 DEF PollStart, PollBatch, PollDone, BootChat
    <2>4. ASSUME NEW p \in Pkt, PollNext(p) \/ Forget(p) PROVE UNCHANGED <<chat, stored>>
      BY <2>4 DEF PollNext, Forget
    <2>5. ASSUME NEW l \in Lane, CheckSeen(l) \/ MarkSeen(l) \/ \E p \in Pkt : AirDeliver(l, p)
          PROVE  UNCHANGED <<chat, stored>>
      BY <2>5 DEF CheckSeen, MarkSeen, AirDeliver
    <2> QED
      BY <2>1, <2>2, <2>3, <2>4, <2>5 DEF MailboxNext, Receiver, LaneStep
  <1>9. Reload => stored' = stored
    BY DEF Reload
  <1> QED
    BY <1>3, <1>4, <1>5, <1>6, <1>7, <1>8, <1>9


\* A step that brings the sender nothing but messages that were accepted.
LEMMA SenderLearns ==
  ASSUME SenderKnows, Accepted \subseteq Accepted',
         \A c \in Caller : call'[c] = call[c] \/ call'[c].at = "idle" \/ call'[c].msg \in Accepted',
         \A r \in outbox' : r \in outbox \/ r.msg \in Accepted',
         \A f \in Flusher : flush'[f] = flush[f] \/ About(flush'[f], Accepted')
  PROVE  SenderKnows'
  <1>1. \A v : About(v, Accepted) => About(v, Accepted')
    BY DEF About
  <1> QED
    BY <1>1 DEF SenderKnows

\* send(): the message of a call never changes.
LEMMA CallsKnow ==
  ASSUME SendInv, SenderKnows, NEW c \in Caller,
         \/ CallGoesOn(c) \/ CallSkipped(c) \/ CallRefused(c) \/ CallLost(c) \/ CallStored(c)
         \/ CallDirect(c) \/ CallMissed(c) \/ \E p \in Pkt : CallThrown(c, p)
  PROVE  SenderKnows' /\ Accepted' = Accepted
  <1>1. /\ call[c].at # "idle" /\ UNCHANGED <<status, flush>>
        /\ \E a \in CallAt : call' = [call EXCEPT ![c] = [call[c] EXCEPT !.at = a]]
    BY DEF CallGoesOn, CallSkipped, CallRefused, CallLost, CallStored, CallDirect, CallMissed,
           CallThrown, Waiting, Answer, CallAt, flushVars
  <1>2. call[c] \in CallRec
    BY <1>1, CallKinds DEF SendInv, Typed
  <1>3. PICK w \in CallRec : w.msg = call[c].msg /\ call' = [call EXCEPT ![c] = w]
    BY <1>1, <1>2, CallKinds
  <1>4. Accepted' = Accepted
    BY <1>1 DEF Accepted
  <1>5. \A d \in Caller : call'[d] = IF d = c THEN w ELSE call[d]
    BY <1>3 DEF SendInv, Typed
  <1>6. call[c].msg \in Accepted
    BY <1>1 DEF SenderKnows
  <1>7. \A r \in outbox' : r \in outbox \/ r.msg = call[c].msg
    BY DEF CallGoesOn, CallSkipped, CallRefused, CallLost, CallStored, CallDirect, CallMissed,
           CallThrown, Enter
  <1> QED
    BY <1>1, <1>3, <1>4, <1>5, <1>6, <1>7, SenderLearns

\* The chat engine: only sendText accepts a message.
LEMMA ChatKnowsIts ==
  ASSUME SendInv, SenderKnows, NEW m \in Msg,
         \/ Compose(m) \/ ComposeSent(m) \/ ComposeQueued(m)
         \/ Resend(m) \/ ResendAsk(m) \/ ResendSent(m) \/ ResendQueued(m) \/ ResendPending(m)
  PROVE  /\ SenderKnows'
         /\ Accepted' = Accepted \/ (m \notin Accepted /\ Accepted' = Accepted \cup {m})
  <1>1. /\ status \in [Msg -> {"none", "pending", "sent"}]
        /\ call \in [Caller -> {NoCall} \cup CallRec]
        /\ Sending(m) \in Caller /\ Retrying(m) \in Caller
    BY CallerKinds DEF SendInv, Typed
  <1>2. \A c \in {Sending(m), Retrying(m)} : call[c].at # "idle" => call[c] \in CallRec /\ call[c].msg = m
    BY <1>1, CallKinds DEF SendInv, Owned
  <1>3. \A c \in {Sending(m), Retrying(m)} : call[c].at # "idle" => m \in Accepted
    BY <1>1, <1>2 DEF SenderKnows
  <1>4. flush' = flush
    BY DEF Compose, ComposeSent, ComposeQueued, Resend, ResendAsk, ResendSent, ResendQueued,
           ResendPending, flushVars
  <1>5. CASE Compose(m)
    <2>1. m \notin Accepted /\ Accepted' = Accepted \cup {m}
      BY <1>1, <1>5 DEF Compose, Accepted
    <2>2. \A c \in Caller : call'[c] = call[c] \/ call'[c].msg = m
      BY <1>1, <1>5 DEF Compose, Ask
    <2>3. outbox' = outbox
      BY <1>5 DEF Compose
    <2> QED
      BY <1>4, <2>1, <2>2, <2>3, SenderLearns
  <1>6. CASE Resend(m)
    <2>1. m \in Accepted /\ Accepted' = Accepted
      BY <1>6 DEF Resend, Accepted
    <2>2. \A c \in Caller : call'[c] = call[c] \/ call'[c].msg = m
      BY <1>1, <1>6 DEF Resend
    <2>3. outbox' = outbox
      BY <1>6 DEF Resend
    <2> QED
      BY <1>4, <2>1, <2>2, <2>3, SenderLearns
  <1>7. CASE ComposeSent(m) \/ ResendAsk(m) \/ ResendSent(m) \/ ResendPending(m)
    <2>1. m \in Accepted
      BY <1>3, <1>7 DEF ComposeSent, ResendAsk, ResendSent, ResendPending
    <2>2. Accepted' = Accepted
      BY <1>1, <1>7, <2>1 DEF ComposeSent, ResendAsk, ResendSent, ResendPending, Sent, Accepted
    <2>3. \A c \in Caller : call'[c] = call[c] \/ call'[c].at = "idle" \/ call'[c].msg = m
      BY <1>1, <1>7, CallKinds DEF ComposeSent, ResendAsk, ResendSent, ResendPending, Ask
    <2>4. outbox' = outbox
      BY <1>7 DEF ComposeSent, ResendAsk, ResendSent, ResendPending
    <2> QED
      BY <1>4, <2>1, <2>2, <2>3, <2>4, SenderLearns
  <1>8. CASE ComposeQueued(m) \/ ResendQueued(m)
    <2>1. m \in Accepted
      BY <1>3, <1>8 DEF ComposeQueued, ResendQueued
    <2>2. Accepted' = Accepted
      BY <1>8 DEF ComposeQueued, ResendQueued, Accepted
    <2>3. \A r \in outbox' : r \in outbox \/ r.msg = m
      BY <1>8 DEF ComposeQueued, ResendQueued, Enqueue, Enter
    <2>4. \A c \in Caller : call'[c] = call[c] \/ call'[c].at = "idle" \/ call'[c].msg = m
      <3>1. CASE ComposeQueued(m)
        BY <1>1, <3>1, CallKinds DEF ComposeQueued
      <3>2. CASE ResendQueued(m)
        <4>1. call[Retrying(m)] \in CallRec /\ call[Retrying(m)].msg = m
          BY <1>2, <3>2 DEF ResendQueued
        <4>2. PICK w : w = [call[Retrying(m)] EXCEPT !.at = "queued"]
          OBVIOUS
        <4>3. w.msg = m
          BY <4>1, <4>2 DEF CallRec
        <4>4. call' = [call EXCEPT ![Retrying(m)] = w]
          BY <3>2, <4>2 DEF ResendQueued, Answer
        <4> QED
          BY <1>1, <4>3, <4>4
      <3> QED
        BY <1>8, <3>1, <3>2
    <2> QED
      BY <1>4, <2>1, <2>2, <2>3, <2>4, SenderLearns
  <1> QED
    BY <1>5, <1>6, <1>7, <1>8

\* The rounds of flushQueue: what they hold came out of the queue.
LEMMA FlushKnows ==
  ASSUME SendInv, SenderKnows, NEW f \in Flusher,
         \/ FlushEnter(f) \/ FlushBegin(f) \/ FlushLoad(f) \/ FlushDedupe(f) \/ FlushPick(f)
         \/ FlushNotSent(f) \/ FlushSent(f) \/ FlushTell(f) \/ FlushEnd(f)
         \/ ForwardKept(f) \/ ForwardTaken(f) \/ ForwardMissed(f)
  PROVE  SenderKnows' /\ Accepted' = Accepted
  <1>1. /\ status \in [Msg -> {"none", "pending", "sent"}]
        /\ call \in [Caller -> {NoCall} \cup CallRec] /\ f \in Caller
        /\ flush \in [Flusher -> Rests \cup Lists \cup Rows]
    BY CallerKinds DEF SendInv, Typed
  <1>2. Accepted' = Accepted
    BY <1>1 DEF Accepted, FlushEnter, FlushBegin, FlushLoad, FlushDedupe, FlushPick,
                FlushNotSent, FlushSent, FlushTell, FlushEnd, Sent, ForwardKept,
                ForwardTaken, ForwardMissed, FlushForward
  <1>3. outbox' \subseteq outbox
    BY DEF FlushEnter, FlushBegin, FlushLoad, FlushDedupe, FlushPick, FlushNotSent,
           FlushSent, FlushTell, FlushEnd, ForwardKept, ForwardTaken, ForwardMissed
  <1>4. About(flush[f], Accepted)
    BY DEF SenderKnows
  <1> SUFFICES /\ \E v : flush' = [flush EXCEPT ![f] = v] /\ About(v, Accepted)
               /\ \A c \in Caller : call'[c] = call[c] \/ call'[c].at = "idle"
                                    \/ call'[c].msg \in Accepted
    <2>1. \A g \in Flusher : flush'[g] = flush[g] \/ About(flush'[g], Accepted')
      BY <1>1, <1>2
    <2> QED
      BY <1>2, <1>3, <2>1, SenderLearns
  <1>5. CASE FlushEnter(f) \/ FlushBegin(f) \/ FlushEnd(f)
    <2>1. PICK v \in Rests : flush' = [flush EXCEPT ![f] = v]
      <3>1. \A a \in {"idle", "import", "load"} : [at |-> a] \in Rests
        BY DEF Rests
      <3> QED
        BY <1>5, <3>1 DEF FlushEnter, FlushBegin, FlushEnd, Round, NoRound
    <2>2. v.at \in {"idle", "import", "load"}
      BY DEF Rests
    <2>3. call' = call
      BY <1>5 DEF FlushEnter, FlushBegin, FlushEnd, callVars
    <2> QED
      BY <2>1, <2>2, <2>3 DEF About
  <1>6. CASE FlushLoad(f)
    <2>1. PICK v : v = [at |-> "loaded", todo |-> outbox]
      OBVIOUS
    <2>2. v.at = "loaded" /\ v.todo = outbox /\ flush' = [flush EXCEPT ![f] = v] /\ call' = call
      BY <1>6, <2>1 DEF FlushLoad, Round, callVars
    <2> QED
      BY <2>2 DEF About, SenderKnows
  <1>7. CASE FlushDedupe(f)
    <2>1. PICK v : v = [at |-> "next", todo |-> Batch(flush[f].todo \ Repeats(flush[f].todo))]
      OBVIOUS
    <2>2. v.at = "next" /\ v.todo \subseteq flush[f].todo
      BY <2>1 DEF Batch
    <2>3. flush' = [flush EXCEPT ![f] = v] /\ call' = call /\ flush[f].at = "loaded"
      BY <1>7, <2>1 DEF FlushDedupe, Round, callVars
    <2> QED
      BY <1>4, <2>2, <2>3 DEF About
  <1>8. CASE FlushPick(f)
    <2>1. flush[f].todo \in SUBSET Item /\ flush[f].todo # {} /\ flush[f].at = "next"
      BY <1>1, <1>8, RoundKinds DEF FlushPick, Proceeds
    <2>2. PICK r \in flush[f].todo : r = Upcoming(f)
      BY <2>1, OldestIn DEF Upcoming
    <2>3. r.msg \in Accepted
      BY <1>4, <2>1 DEF About
    <2>4. PICK v : v = [at |-> "send", todo |-> flush[f].todo \ {r}, row |-> r]
      OBVIOUS
    <2>5. v.at = "send" /\ v.row = r /\ v.todo \subseteq flush[f].todo
      BY <2>4
    <2>6. flush' = [flush EXCEPT ![f] = v]
      BY <1>8, <2>2, <2>4 DEF FlushPick, Round
    <2>7. \A c \in Caller : call'[c] = call[c] \/ call'[c].msg = r.msg
      BY <1>1, <1>8, <2>2 DEF FlushPick, Ask
    <2> QED
      BY <1>4, <2>1, <2>3, <2>5, <2>6, <2>7 DEF About
  <1>9. CASE FlushNotSent(f) \/ FlushSent(f) \/ FlushTell(f)
    <2>1. flush[f] \in Rows /\ flush[f].at \in {"send", "tell"}
      BY <1>1, <1>9, RoundKinds DEF FlushNotSent, FlushSent, FlushTell
    <2>2. \E a \in {"next", "tell"} : flush' = [flush EXCEPT ![f] = [flush[f] EXCEPT !.at = a]]
      BY <1>9 DEF FlushNotSent, FlushSent, FlushTell, Round
    <2>3. \A a \in {"next", "tell"} : LET v == [flush[f] EXCEPT !.at = a]
                                      IN  v.todo = flush[f].todo /\ v.row = flush[f].row
      BY <2>1 DEF Rows
    <2>4. PICK v : /\ v.todo = flush[f].todo /\ v.row = flush[f].row
                   /\ flush' = [flush EXCEPT ![f] = v]
      BY <2>2, <2>3
    <2>5. \A c \in Caller : call'[c] = call[c] \/ call'[c].at = "idle"
      BY <1>1, <1>9, CallKinds DEF FlushNotSent, FlushSent, FlushTell, callVars
    <2> QED
      BY <1>4, <2>1, <2>4, <2>5 DEF About
  <1>10. CASE ForwardKept(f) \/ ForwardTaken(f) \/ ForwardMissed(f)
    <2>1. FlushForward(f)
      BY <1>10 DEF ForwardKept, ForwardTaken, ForwardMissed
    <2>2. PICK v : v = [at |-> "next", todo |-> flush[f].todo \ {Upcoming(f)}]
      OBVIOUS
    <2>3. v.at = "next" /\ v.todo \subseteq flush[f].todo
      BY <2>2
    <2>4. flush' = [flush EXCEPT ![f] = v] /\ call' = call /\ flush[f].at = "next"
      BY <2>1, <2>2 DEF FlushForward, Proceeds, Round, callVars
    <2> QED
      BY <1>4, <2>3, <2>4 DEF About
  <1> QED
    BY <1>5, <1>6, <1>7, <1>8, <1>9, <1>10

-----------------------------------------------------------------------------
CourierInv == SenderKnows /\ EnvelopesKnown /\ ChatKnows /\ stored \subseteq Accepted

LEMMA CourierInvInit == Init => CourierInv /\ C!CourierInit
  <1> SUFFICES ASSUME OutboxInit, MailboxInit PROVE CourierInv /\ C!CourierInit
    BY DEF Init
  <1>1. Accepted = {} /\ stored = {} /\ Gone = {}
    BY DEF OutboxInit, MailboxInit, Accepted, Gone
  <1>2. SenderKnows
    BY CallKinds DEF OutboxInit, SenderKnows, About, NoRound
  <1>3. ChatKnows
    BY DEF MailboxInit, ChatKnows
  <1> QED
    BY <1>1, <1>2, <1>3 DEF CourierInv, EnvelopesKnown, C!CourierInit, Accepted

\* The sender accepts, at most one message at a time; what it gives to the
\* relay or a channel is an envelope of a message it accepted.
LEMMA SenderStep ==
  ASSUME SendInv, CourierInv, Sender
  PROVE  /\ SenderKnows' /\ stored' = stored
         /\ \/ Accepted' = Accepted
            \/ \E m \in Msg \ Accepted : Accepted' = Accepted \cup {m}
         /\ \A p \in Gone' : p \in Gone \/ MsgOf[p] \in Accepted
  <1>1. ASSUME NEW c \in Caller, NEW p \in Pkt,
               PushCall(c, p) \/ DirectCall(c, p) \/ RealtimeCall(c, p)
        PROVE  /\ SenderKnows' /\ stored' = stored /\ Accepted' = Accepted
               /\ \A q \in Gone' : q \in Gone \/ MsgOf[q] \in Accepted
    <2>1. CallStored(c) \/ CallGoesOn(c)
      BY <1>1 DEF PushCall, DirectCall, RealtimeCall
    <2>2. MsgOf[p] = call[c].msg /\ (Push(p) \/ Broadcast(p))
      BY <1>1 DEF PushCall, DirectCall, RealtimeCall
    <2>3. call[c].at # "idle"
      BY <2>1 DEF CallStored, CallGoesOn, Waiting
    <2>4. MsgOf[p] \in Accepted
      BY <2>2, <2>3 DEF CourierInv, SenderKnows
    <2>5. stored' = stored /\ Gone' = Gone \cup {p}
      BY <2>2 DEF Push, Broadcast, Gone, storeVars, serverVars
    <2> QED
      BY <2>1, <2>4, <2>5, CallsKnow DEF CourierInv
  <1>2. ASSUME NEW c \in Caller, UNCHANGED mailboxVars,
               CallDirect(c) \/ \E p \in Pkt : CallThrown(c, p)
        PROVE  SenderKnows' /\ Accepted' = Accepted /\ stored' = stored /\ Gone' = Gone
    BY <1>2, CallsKnow DEF CourierInv, Gone, mailboxVars, serverVars, storeVars
  <1>3. ASSUME NEW f \in Flusher, Forward(f)
        PROVE  /\ SenderKnows' /\ stored' = stored /\ Accepted' = Accepted
               /\ \A q \in Gone' : q \in Gone \/ MsgOf[q] \in Accepted
    <2>1. FlushForward(f) /\ SenderKnows' /\ Accepted' = Accepted
      BY <1>3, FlushKnows DEF Forward, ForwardTaken, CourierInv
    <2>2. Upcoming(f) \in flush[f].todo /\ Upcoming(f) \in Item /\ Upcoming(f).env # NoPkt
      BY <2>1, RoundKinds, OldestIn DEF FlushForward, Proceeds, Upcoming, SendInv, Typed
    <2>3. Upcoming(f).msg \in Accepted /\ MsgOf[Upcoming(f).env] = Upcoming(f).msg
      BY <2>1, <2>2, ItemKinds DEF FlushForward, Proceeds, CourierInv, SenderKnows, About
    <2>4. stored' = stored /\ Gone' \subseteq Gone \cup {Upcoming(f).env}
      BY <1>3 DEF Forward, Broadcast, Gone, mailboxVars, storeVars, serverVars
    <2> QED
      BY <2>1, <2>3, <2>4
  <1>4. CASE OutboxStep /\ UNCHANGED mailboxVars
    <2>1. UNCHANGED <<stored, pushed, air>>
      BY <1>4 DEF mailboxVars, serverVars, storeVars
    <2>2. ASSUME NEW c \in Caller,
                 CallSkipped(c) \/ CallRefused(c) \/ CallLost(c) \/ CallMissed(c)
          PROVE  SenderKnows' /\ Accepted' = Accepted
      BY <2>2, CallsKnow DEF CourierInv
    <2>3. ASSUME CooldownEnds PROVE SenderKnows' /\ Accepted' = Accepted
      BY <2>3 DEF CooldownEnds, flushVars, CourierInv, SenderKnows, Accepted
    <2>4. ASSUME NEW m \in Msg,
                 \/ Compose(m) \/ ComposeSent(m) \/ ComposeQueued(m) \/ Resend(m)
                 \/ ResendAsk(m) \/ ResendSent(m) \/ ResendQueued(m) \/ ResendPending(m)
          PROVE  /\ SenderKnows'
                 /\ Accepted' = Accepted \/ (m \notin Accepted /\ Accepted' = Accepted \cup {m})
      BY <2>4, ChatKnowsIts DEF CourierInv
    <2>5. ASSUME NEW f \in Flusher,
                 \/ FlushEnter(f) \/ FlushBegin(f) \/ FlushLoad(f) \/ FlushDedupe(f)
                 \/ FlushPick(f) \/ FlushNotSent(f) \/ FlushSent(f) \/ FlushTell(f)
                 \/ FlushEnd(f) \/ ForwardKept(f) \/ ForwardMissed(f)
          PROVE  SenderKnows' /\ Accepted' = Accepted
      BY <2>5, FlushKnows DEF CourierInv
    <2>6. ASSUME Restart PROVE SenderKnows' /\ Accepted' = Accepted
      <3>1. Accepted' = Accepted /\ outbox' = outbox
        BY <2>6 DEF Restart, Accepted
      <3>2. \A c \in Caller : call'[c].at = "idle"
        BY <2>6, CallKinds DEF Restart
      <3>3. \A f \in Flusher : flush'[f].at = "idle"
        BY <2>6 DEF Restart, NoRound
      <3> QED
        BY <3>1, <3>2, <3>3 DEF CourierInv, SenderKnows, About
    <2>7. \A q \in Gone' : q \in Gone
      BY <2>1 DEF Gone
    <2> QED
      BY <1>4, <2>1, <2>2, <2>3, <2>4, <2>5, <2>6, <2>7 DEF OutboxStep
  <1> QED
    BY <1>1, <1>2, <1>3, <1>4 DEF Sender, ThrownCall

\* The receiver and the surroundings deliver, at most one message at a time.
LEMMA ReceiverStep ==
  ASSUME CourierInv, MailboxTypeOK, HandInv, FlowInv,
         Receiver \/ Surroundings, UNCHANGED outboxVars
  PROVE  /\ SenderKnows' /\ Accepted' = Accepted /\ Gone' = Gone
         /\ stored' = stored \/ \E m \in Accepted : stored' = stored \cup {m}
  <1>1. [MailboxNext]_mailboxVars
    BY DEF MailboxNext
  <1>2. UNCHANGED <<status, outbox, call, flush>>
    BY DEF outboxVars, callVars, flushVars
  <1>3. SenderKnows' /\ Accepted' = Accepted
    BY <1>2 DEF CourierInv, SenderKnows, Accepted
  <1>4. UNCHANGED <<pushed, air>>
    <2> USE DEF serverVars
    <2>1. CASE Surroundings
      <3>1. ServerPull => UNCHANGED <<pushed, air>>
        BY DEF ServerPull
      <3>2. PullFails \/ PruneExpired => UNCHANGED <<pushed, air>>
        BY DEF PullFails, PruneExpired
      <3>3. \A p \in Pkt : GrowOld(p) => UNCHANGED <<pushed, air>>
        BY DEF GrowOld
      <3> QED
        BY <2>1, <3>1, <3>2, <3>3 DEF Surroundings
    <2>2. CASE PollStart \/ PollBatch \/ PollDone \/ BootChat \/ Reload
      BY <2>2 DEF PollStart, PollBatch, PollDone, BootChat, Reload
    <2>3. ASSUME NEW p \in Pkt, PollNext(p) \/ Forget(p) \/ ChatLookup(p) \/ ChatAppend(p)
          PROVE  UNCHANGED <<pushed, air>>
      BY <2>3 DEF PollNext, Forget, ChatLookup, ChatAppend
    <2>4. ASSUME NEW l \in Lane, LaneStep(l) \/ \E p \in Pkt : AirDeliver(l, p)
          PROVE  UNCHANGED <<pushed, air>>
      BY <2>4 DEF LaneStep, CheckSeen, MarkSeen, HandOver, AirDeliver
    <2> QED
      BY <2>1, <2>2, <2>3, <2>4 DEF Receiver
  <1>5. stored' = stored \/ \E p \in Gone : stored' = stored \cup {MsgOf[p]}
    BY <1>1, ReceiverStores DEF CourierInv
  <1>6. \A p \in Gone : MsgOf[p] \in Accepted
    BY DEF CourierInv, EnvelopesKnown
  <1> QED
    BY <1>3, <1>4, <1>5, <1>6 DEF Gone

LEMMA CourierStep ==
  ASSUME CourierInv, SendInv, MailboxTypeOK, HandInv, FlowInv, [Next]_vars
  PROVE  CourierInv' /\ [C!CourierNext]_<<Accepted, stored>>
  <1>1. [MailboxNext]_mailboxVars
    BY MailboxStep
  <1>2. ChatKnows'
    BY <1>1, ReceiverStores DEF CourierInv
  <1>3. CASE Sender
    <2>1. /\ SenderKnows' /\ stored' = stored
          /\ \/ Accepted' = Accepted
             \/ \E m \in Msg \ Accepted : Accepted' = Accepted \cup {m}
          /\ \A p \in Gone' : p \in Gone \/ MsgOf[p] \in Accepted
      BY <1>3, SenderStep
    <2>2. CourierInv'
      BY <1>2, <2>1 DEF CourierInv, EnvelopesKnown
    <2>3. CASE Accepted' = Accepted
      BY <2>1, <2>2, <2>3
    <2>4. CASE \E m \in Msg \ Accepted : Accepted' = Accepted \cup {m}
      <3>1. \E m \in Msg : C!Accept(m)
        BY <2>1, <2>4 DEF C!Accept, Accepted
      <3> QED
        BY <2>2, <3>1 DEF C!CourierNext
    <2> QED
      BY <2>1, <2>3, <2>4
  <1>4. CASE (Receiver \/ Surroundings) /\ UNCHANGED outboxVars
    <2>1. /\ SenderKnows' /\ Accepted' = Accepted /\ Gone' = Gone
          /\ stored' = stored \/ \E m \in Accepted : stored' = stored \cup {m}
      BY <1>4, ReceiverStep
    <2>2. CourierInv'
      BY <1>2, <2>1 DEF CourierInv, EnvelopesKnown
    <2>3. CASE stored' = stored
      BY <2>1, <2>2, <2>3
    <2>4. CASE \E m \in Accepted : m \notin stored /\ stored' = stored \cup {m}
      <3>1. \E m \in Msg : C!Deliver(m)
        BY <2>1, <2>4 DEF C!Deliver, Accepted
      <3> QED
        BY <2>2, <3>1 DEF C!CourierNext
    <2> QED
      BY <2>1, <2>3, <2>4
  <1>5. CASE UNCHANGED vars
    <2>1. UNCHANGED <<status, outbox, call, flush, stored, pushed, air>>
      BY <1>5 DEF vars, outboxVars, callVars, flushVars, mailboxVars, serverVars, storeVars
    <2>2. CourierInv' /\ Accepted' = Accepted
      BY <1>2, <2>1 DEF CourierInv, SenderKnows, EnvelopesKnown, Accepted, Gone
    <2> QED
      BY <2>1, <2>2
  <1> QED
    BY <1>3, <1>4, <1>5 DEF Next

\* The receiver never shows a message nobody composed, and none twice: every
\* step of the two devices and the relay accepts one message, delivers one
\* that was accepted and not delivered before, or changes neither store.
THEOREM CourierHolds == Spec => C!CourierSafety
  <1>1. MailboxInit => HandInv /\ FlowInv
    BY DEF MailboxInit, HandInv, HandedAtMostOnce, Busy, Idle, FlowInv, AckedAreSettled,
           Accounted, NoPoll
  <1>2. MailboxTypeOK /\ HandInv /\ [MailboxNext]_mailboxVars => HandInv'
    BY HandStep
  <1>3. MailboxTypeOK /\ MailboxTypeOK' /\ FlowInv /\ [MailboxNext]_mailboxVars => FlowInv'
    BY FlowStep
  <1>4. MailboxSpec => [](MailboxTypeOK /\ HandInv /\ FlowInv)
    BY <1>1, <1>2, <1>3, TypeCorrect, PTL DEF MailboxSpec
  <1>5. Init => CourierInv /\ C!CourierInit
    BY CourierInvInit
  <1>6. /\ CourierInv /\ SendInv /\ MailboxTypeOK /\ HandInv /\ FlowInv /\ [Next]_vars
        => CourierInv' /\ [C!CourierNext]_<<{m \in Msg : status[m] # "none"}, stored>>
    BY CourierStep DEF Accepted
  <1> QED
    BY <1>4, <1>5, <1>6, ComposedMailbox, SendInvKept, PTL DEF Spec, C!CourierSafety

=============================================================================

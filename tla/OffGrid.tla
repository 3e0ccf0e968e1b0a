------------------------------ MODULE OffGrid -------------------------------
(***************************************************************************)
(* The off-grid queue end to end: the sending device (Outbox), the cloud   *)
(* relay and the receiving device (RelayMailbox).  The two meet where the  *)
(* sender's push is written by the relay, and where a data channel or the  *)
(* realtime channel takes an envelope.                                     *)
(***************************************************************************)
EXTENDS Outbox, RelayMailbox

CONSTANT MeshUp    \* may the two devices have a live path to each other?

ASSUME OffGridAssumption == MeshUp \in BOOLEAN

vars == <<outboxVars, mailboxVars>>

Init == OutboxInit /\ MailboxInit

\* relayViaCloud makes a new envelope for every attempt.
PushCall(c, p) ==
  /\ ~cooldown /\ Waiting(c) /\ p \notin thrown
  /\ CallStored(c)
  /\ MsgOf[p] = call[c].msg
  /\ Push(p)

\* dc.send(raw): the channel takes the bytes.
DirectCall(c, p) ==
  /\ call[c].at = "direct" /\ p \notin thrown
  /\ CallStored(c)
  /\ MsgOf[p] = call[c].msg
  /\ Broadcast(p)

\* dc.send(raw) throws for a new envelope.
ThrownCall(c, p) ==
  /\ p \in Unused \ thrown
  /\ CallThrown(c, p)
  /\ UNCHANGED mailboxVars

\* A queued envelope is taken, by a round or by one that still has it in its
\* snapshot: then the channel gets a second copy.
Forward(f) ==
  /\ ForwardTaken(f)
  /\ \/ Broadcast(Upcoming(f).env)
     \/ Upcoming(f).env \in air /\ UNCHANGED mailboxVars

\* channel.send to a receiver that is present on the realtime channel.  With
\* any answer but "ok" send() goes on to the relay, in a new envelope.
RealtimeCall(c, p) ==
  /\ MeshUp
  /\ call[c].at = "asked" /\ p \notin thrown
  /\ MsgOf[p] = call[c].msg
  /\ Broadcast(p)
  /\ CallStored(c) \/ CallGoesOn(c)

\* The sending device, and its calls to the relay and into data channels.
Sender ==
  \/ \E c \in Caller, p \in Pkt : \/ PushCall(c, p) \/ RealtimeCall(c, p)
                                  \/ DirectCall(c, p) \/ ThrownCall(c, p)
  \/ \E c \in Caller : MeshUp /\ CallDirect(c) /\ UNCHANGED mailboxVars
  \/ \E f \in Flusher : Forward(f)
  \/ OutboxStep /\ UNCHANGED mailboxVars

Next ==
  \/ Sender
  \/ Receiver /\ UNCHANGED outboxVars
  \/ Surroundings /\ UNCHANGED outboxVars

Spec == Init /\ [][Next]_vars

\* The sender while the receiving device is off and nothing expires.
SenderSpec == Init /\ [][Sender]_vars

(***************************************************************************)
(* Fairness.  scheduleQueueFlush and the 60 s interval keep starting       *)
(* rounds; pumpRetryQueue keeps resending what is pending; an issued       *)
(* request completes; cooldown windows end.  The receiver's part is the    *)
(* one of RelayMailbox.  Nothing is assumed of users, reloads, failures.   *)
(***************************************************************************)
SenderFairness ==
  /\ WF_outboxVars(CooldownEnds)
  /\ \A m \in Msg : /\ WF_outboxVars(ComposeSent(m) \/ ComposeQueued(m))
                    /\ WF_outboxVars(Resend(m))
                    /\ WF_outboxVars(ResendAsk(m) \/ ResendSent(m)
                                     \/ ResendQueued(m) \/ ResendPending(m))
  /\ \A c \in Caller : WF_vars(\/ CallSkipped(c) /\ UNCHANGED mailboxVars
                               \/ \E p \in Pkt : PushCall(c, p))
  /\ \A f \in Flusher : /\ WF_outboxVars(FlushEnter(f))
                        /\ WF_outboxVars(FlushBegin(f) \/ FlushLoad(f) \/ FlushDedupe(f)
                                         \/ FlushPick(f) \/ FlushNotSent(f)
                                         \/ FlushSent(f) \/ FlushTell(f) \/ FlushEnd(f)
                                         \/ ForwardKept(f))

FairSpec == Spec /\ SenderFairness /\ ReceiverFairness

-----------------------------------------------------------------------------
(***************************************************************************)
(* Properties.                                                             *)
(***************************************************************************)

\* Type invariant of the sender's half.
OutboxTypeOK ==
  /\ status \in [Msg -> {"none", "pending", "sent"}]
  /\ outbox \subseteq Item
  /\ \A c \in Caller : call[c] = NoCall
       \/ call[c] \in [at : {"read", "asked", "relay", "direct", "stored", "failed", "queued"},
                      msg : Msg]
  /\ \A f \in Flusher :
       \/ flush[f] \in [at : {"idle", "import", "load"}]
       \/ flush[f].at \in {"loaded", "next"} /\ flush[f].todo \subseteq Item
       \/ /\ flush[f].at \in {"send", "tell"}
          /\ flush[f].todo \subseteq Item /\ flush[f].row \in Intents(Item)
  /\ flushBusy \in BOOLEAN /\ cooldown \in BOOLEAN
  /\ missed \subseteq Msg /\ thrown \subseteq Pkt

\* A channel took an envelope of the message, or one waits in the queue for
\* a channel to take it.
OnChannel(m) ==
  \/ \E p \in air : MsgOf[p] = m
  \/ \E r \in outbox \ Intents(outbox) : r.msg = m

HandedOver(m) == OnChannel(m) \/ \E p \in pushed : MsgOf[p] = m

\* A message shows its first tick only when the relay or a channel took an
\* envelope of it or one is queued, whichever of the overlapping rounds and
\* resends got through.  The exception is the direct send that returned true
\* and reached no channel (missed).
SentIsHandedOver ==
  \A m \in Msg : status[m] = "sent" => HandedOver(m) \/ m \in missed

\* An intent leaves the queue only if an older intent of the same message
\* stays, or an envelope of it was handed over: overlapping rounds working on
\* stale snapshots never delete the last trace of an unsent message.  Here
\* too, the exception is a direct send that reached no channel.
IntentKept ==
  [][\A r \in Intents(outbox) :
       \/ r \in outbox' \/ HandedOver(r.msg)' \/ r.msg \in missed'
       \/ \E q \in Intents(outbox)' : q.msg = r.msg /\ q.id < r.id]_vars

\* A message the sender shows as sent, and that only the relay can have, is
\* in the mailbox or was let go at the receiver for a named reason.
SentIsAccounted ==
  \A m \in Msg : status[m] = "sent" /\ m \notin missed /\ ~OnChannel(m) =>
    \E p \in pushed : /\ MsgOf[p] = m
                      /\ p \in mailbox \/ age[p] = "expired" \/ Settled(p)

\* What the queue promises (module Courier): accepted when the message is in
\* the sender's store, delivered when it is in the receiver's.  With no mesh
\* short cut, no reload of the receiver, a receiver that reads its mailbox
\* inside the guard's window and a chat engine that is up first, every
\* message composed is delivered, through lost answers, refusals, cooldowns,
\* repeated sends and reloads of the sender.
C == INSTANCE Courier WITH accepted <- {m \in Msg : status[m] # "none"},
                           delivered <- stored

Delivers == C!CourierSpec

=============================================================================

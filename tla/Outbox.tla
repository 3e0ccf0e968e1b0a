------------------------------- MODULE Outbox -------------------------------
(***************************************************************************)
(* The sending device: the chat engine that composes a message             *)
(* (lib/chat/engine.ts), BrowserNode.send and flushQueue over the outbox    *)
(* kept in IndexedDB (lib/browser-node.ts, lib/store/idb.ts), and the       *)
(* relay client with its shared cooldown (lib/relay-cloud.ts).              *)
(*                                                                         *)
(* send() is called by sendText, by retryMessage (one at a time for a      *)
(* message) and by rounds of flushQueue.  Rounds are started by timers and *)
(* events; flushBusy is tested before an await and set after it, so        *)
(* several rounds can be running.  A step is what runs between two awaits. *)
(* Messages are small enough for one envelope, and go to one receiver.     *)
(***************************************************************************)
EXTENDS Naturals, FiniteSets, Envelopes

CONSTANTS
  Flusher,     \* rounds of flushQueue that can overlap
  MaxBatch,    \* intents sent in one round (25 in the code)
  MaxResends,  \* bound: calls of retryMessage in the life of a page (RETRY_MAX)
  MaxRefusals, \* bound: sends that are refused or whose answer is lost
  MaxRestarts  \* bound: reloads of the sending page

ASSUME OutboxAssumption ==
  /\ Flusher \cap ({"send", "retry"} \X Msg) = {}
  /\ MaxBatch \in Nat \ {0}
  /\ MaxResends \in Nat /\ MaxRefusals \in Nat /\ MaxRestarts \in Nat

VARIABLES
  \* kept in IndexedDB
  status,    \* status of the message in store "messages"
  outbox,    \* store "outbox": items, ordered by the time they were queued
  \* lost at a reload
  call,      \* the send() in progress of each caller
  flush,     \* rounds of flushQueue
  flushBusy,
  cooldown,  \* is relayCooldownRemainingMs() > 0?
  \* history: the messages a direct send of which left nothing behind, the
  \* envelopes whose direct send threw
  missed, thrown,
  \* bounds
  nextId, resends, refusals, restarts

callVars  == <<call, cooldown>>
flushVars == <<flush, flushBusy>>
boundVars == <<nextId, resends, refusals, restarts>>
directVars == <<missed, thrown>>
outboxVars == <<status, outbox, callVars, flushVars, directVars, boundVars>>

Sending(m) == <<"send", m>>     \* the sendText of m
Retrying(m) == <<"retry", m>>   \* the retryMessage of m
Caller == Flusher \cup ({"send", "retry"} \X Msg)

\* QueuedItem: an intent to send a message, or ("fwd") an envelope of it.
Item == {r \in [id : Nat, msg : Msg, env : Pkt \cup {NoPkt}] :
           r.env # NoPkt => r.msg = MsgOf[r.env]}
Intents(rows) == {r \in rows : r.env = NoPkt}

NoCall == [at |-> "idle"]
NoRound == [at |-> "idle"]

OutboxInit ==
  /\ status = [m \in Msg |-> "none"]
  /\ outbox = {}
  /\ call = [c \in Caller |-> NoCall]
  /\ flush = [f \in Flusher |-> NoRound]
  /\ flushBusy = FALSE /\ cooldown = FALSE
  /\ missed = {} /\ thrown = {}
  /\ nextId = 0 /\ resends = 0 /\ refusals = 0 /\ restarts = 0

-----------------------------------------------------------------------------
(***************************************************************************)
(* send(): an open data channel, else the realtime channel, else the relay. *)
(***************************************************************************)
Ask(c, m) == call' = [call EXCEPT ![c] = [at |-> "asked", msg |-> m]]
Answer(c, a) == call' = [call EXCEPT ![c].at = a]

Waiting(c) == call[c].at \in {"asked", "relay"}

\* The realtime channel did not confirm: only the relay is left.
CallGoesOn(c) ==
  /\ call[c].at = "asked"
  /\ refusals < MaxRefusals
  /\ refusals' = refusals + 1
  /\ Answer(c, "relay")
  /\ UNCHANGED <<status, outbox, flushVars, cooldown, directVars, nextId, resends, restarts>>

\* An open channel to the receiver is listed: the envelope is made, and from
\* here on send() returns true.
CallDirect(c) ==
  /\ call[c].at = "asked"
  /\ Answer(c, "direct")
  /\ UNCHANGED <<status, outbox, flushVars, cooldown, directVars, boundVars>>

\* The relay has written the envelope (relay.ts "push"), or a channel has
\* taken it; OffGrid joins this step with what receives it.
CallStored(c) ==
  /\ Waiting(c) \/ call[c].at = "direct"
  /\ Answer(c, "stored")
  /\ UNCHANGED <<status, outbox, flushVars, cooldown, directVars, boundVars>>

\* The peer is gone when dc.send should run: peer?.dc?.send does nothing.
CallMissed(c) ==
  /\ call[c].at = "direct"
  /\ Answer(c, "stored")
  /\ missed' = missed \cup {call[c].msg}
  /\ UNCHANGED <<status, outbox, flushVars, cooldown, thrown, boundVars>>

\* Item e of message m (NoPkt: an intent) is written under a new random key.
Enter(m, e) ==
  /\ outbox' = outbox \cup {[id |-> nextId, msg |-> m, env |-> e]}
  /\ nextId' = nextId + 1

\* dc.send(raw) throws: the envelope itself is queued.
CallThrown(c, p) ==
  /\ call[c].at = "direct"
  /\ MsgOf[p] = call[c].msg
  /\ Enter(call[c].msg, p)
  /\ thrown' = thrown \cup {p}
  /\ Answer(c, "stored")
  /\ UNCHANGED <<status, flushVars, cooldown, missed, resends, refusals, restarts>>

\* call() returns null at once inside the cooldown window.
CallSkipped(c) ==
  /\ Waiting(c) /\ cooldown
  /\ Answer(c, "failed")
  /\ UNCHANGED <<status, outbox, flushVars, cooldown, directVars, boundVars>>

\* 429, 503 or degraded: noteBusy opens the cooldown window for everyone.
CallRefused(c) ==
  /\ Waiting(c) /\ ~cooldown
  /\ refusals < MaxRefusals
  /\ refusals' = refusals + 1
  /\ cooldown' = TRUE
  /\ Answer(c, "failed")
  /\ UNCHANGED <<status, outbox, flushVars, directVars, nextId, resends, restarts>>

\* The envelope is stored but the answer is lost: fetch throws.
CallLost(c) ==
  /\ call[c].at = "stored"
  /\ refusals < MaxRefusals
  /\ refusals' = refusals + 1
  /\ Answer(c, "failed")
  /\ UNCHANGED <<status, outbox, flushVars, cooldown, directVars, nextId, resends, restarts>>

CooldownEnds ==
  /\ cooldown
  /\ cooldown' = FALSE
  /\ UNCHANGED <<status, outbox, call, flushVars, directVars, boundVars>>

-----------------------------------------------------------------------------
(***************************************************************************)
(* The chat engine.                                                        *)
(***************************************************************************)

\* setStatus(m, "sent"): only a pending message moves.
Sent(m) == status' = [status EXCEPT ![m] = IF @ = "pending" THEN "sent" ELSE @]

\* Mutant: enqueue keeps the bare message.
EnqueueBare(m) ==
  /\ outbox' = outbox \cup {m}
  /\ nextId' = nextId + 1

\* No path worked: enqueue writes an intent.
Enqueue(m) == Enter(m, NoPkt)

\* sendText: the message is stored as pending, then sent.
Compose(m) ==
  /\ status[m] = "none"
  /\ status' = [status EXCEPT ![m] = "pending"]
  /\ Ask(Sending(m), m)
  /\ UNCHANGED <<outbox, flushVars, cooldown, directVars, boundVars>>

\* send() returned true.
ComposeSent(m) ==
  /\ call[Sending(m)].at = "stored"
  /\ Sent(m)
  /\ call' = [call EXCEPT ![Sending(m)] = NoCall]
  /\ UNCHANGED <<outbox, flushVars, cooldown, directVars, boundVars>>

\* Mutant: a queued message gets its first tick.
ComposeQueuedAsSent(m) ==
  /\ call[Sending(m)].at = "failed"
  /\ Enqueue(m)
  /\ Sent(m)
  /\ call' = [call EXCEPT ![Sending(m)] = NoCall]
  /\ UNCHANGED <<flushVars, cooldown, directVars, resends, refusals, restarts>>

\* send() returned false; setStatus(m, "pending") has no effect.
ComposeQueued(m) ==
  /\ call[Sending(m)].at = "failed"
  /\ Enqueue(m)
  /\ call' = [call EXCEPT ![Sending(m)] = NoCall]
  /\ UNCHANGED <<status, flushVars, cooldown, directVars, resends, refusals, restarts>>

\* pumpRetryQueue or the user's tap: retryMessage reads the message.
Resend(m) ==
  /\ status[m] = "pending" /\ call[Retrying(m)] = NoCall
  /\ resends < MaxResends
  /\ resends' = resends + 1
  /\ call' = [call EXCEPT ![Retrying(m)] = [at |-> "read", msg |-> m]]
  /\ UNCHANGED <<status, outbox, flushVars, cooldown, directVars, nextId, refusals, restarts>>

\* ... writes back what it read, as pending, and sends.
ResendAsk(m) ==
  /\ call[Retrying(m)].at = "read"
  /\ status' = [status EXCEPT ![m] = "pending"]
  /\ Ask(Retrying(m), m)
  /\ UNCHANGED <<outbox, flushVars, cooldown, directVars, boundVars>>

\* send() returned true: the copy read at the start is written as sent.
ResendSent(m) ==
  /\ call[Retrying(m)].at = "stored"
  /\ status' = [status EXCEPT ![m] = "sent"]
  /\ call' = [call EXCEPT ![Retrying(m)] = NoCall]
  /\ UNCHANGED <<outbox, flushVars, cooldown, directVars, boundVars>>

\* send() failed: an intent is queued, and the copy read at the start is
\* written as pending, whatever a round of flushQueue has made of it since.
ResendQueued(m) ==
  /\ call[Retrying(m)].at = "failed"
  /\ Enqueue(m)
  /\ Answer(Retrying(m), "queued")
  /\ UNCHANGED <<status, flushVars, cooldown, directVars, resends, refusals, restarts>>

ResendPending(m) ==
  /\ call[Retrying(m)].at = "queued"
  /\ status' = [status EXCEPT ![m] = "pending"]
  /\ call' = [call EXCEPT ![Retrying(m)] = NoCall]
  /\ UNCHANGED <<outbox, flushVars, cooldown, directVars, boundVars>>

-----------------------------------------------------------------------------
(***************************************************************************)
(* flushQueue.                                                             *)
(***************************************************************************)

Round(f, r) == flush' = [flush EXCEPT ![f] = r]

\* if (this.flushBusy) return;  followed by an await.
FlushEnter(f) ==
  /\ flush[f].at = "idle" /\ ~flushBusy
  /\ Round(f, [at |-> "import"])
  /\ UNCHANGED <<status, outbox, callVars, flushBusy, directVars, boundVars>>

\* The cooldown test, then flushBusy = true.
FlushBegin(f) ==
  /\ flush[f].at = "import"
  /\ IF cooldown
     THEN Round(f, NoRound) /\ UNCHANGED flushBusy
     ELSE Round(f, [at |-> "load"]) /\ flushBusy' = TRUE
  /\ UNCHANGED <<status, outbox, callVars, directVars, boundVars>>

\* The intents of a message that follow its oldest one.
Repeats(rows) ==
  {r \in Intents(rows) : \E q \in Intents(rows) : q.msg = r.msg /\ q.id < r.id}

Oldest(rows) == CHOOSE r \in rows : \A q \in rows : r.id <= q.id

\* slice(0, MaxBatch) of the rows in the order of getPackets.
Batch(rows) ==
  {r \in rows : Cardinality({q \in rows : q.id < r.id}) < MaxBatch}

\* getPackets.
FlushLoad(f) ==
  /\ flush[f].at = "load"
  /\ Round(f, [at |-> "loaded", todo |-> outbox])
  /\ UNCHANGED <<status, outbox, callVars, flushBusy, directVars, boundVars>>

\* The loop that deletes repeated intents.
FlushDedupe(f) ==
  /\ flush[f].at = "loaded"
  /\ LET rows == flush[f].todo IN
     /\ outbox' = outbox \ Repeats(rows)
     /\ Round(f, [at |-> "next", todo |-> Batch(rows \ Repeats(rows))])
  /\ UNCHANGED <<status, callVars, flushBusy, directVars, boundVars>>

\* The next row of the snapshot.
Upcoming(f) == Oldest(flush[f].todo)
Proceeds(f) == flush[f].at = "next" /\ flush[f].todo # {} /\ ~cooldown

\* An intent is sent with allowEnqueue = false.
FlushPick(f) ==
  /\ Proceeds(f)
  /\ LET r == Upcoming(f) IN
     /\ r.env = NoPkt
     /\ Round(f, [at |-> "send", todo |-> flush[f].todo \ {r}, row |-> r])
     /\ Ask(f, r.msg)
  /\ UNCHANGED <<status, outbox, flushBusy, cooldown, directVars, boundVars>>

\* A queued envelope goes to every open channel (broadcastRaw).
FlushForward(f) ==
  /\ Proceeds(f)
  /\ Upcoming(f).env # NoPkt
  /\ Round(f, [at |-> "next", todo |-> flush[f].todo \ {Upcoming(f)}])
  /\ UNCHANGED <<status, callVars, flushBusy, thrown, boundVars>>

\* No channel is open: the row stays.
ForwardKept(f) == FlushForward(f) /\ UNCHANGED <<outbox, missed>>

\* The receiver's channel takes it, and the row is deleted.
ForwardTaken(f) ==
  /\ FlushForward(f)
  /\ outbox' = outbox \ {Upcoming(f)}
  /\ UNCHANGED missed

\* Some channel is open, and the row is deleted, but the receiver's is not
\* among them or throws.
ForwardMissed(f) ==
  /\ FlushForward(f)
  /\ outbox' = outbox \ {Upcoming(f)}
  /\ missed' = missed \cup {Upcoming(f).msg}

\* Mutant: the intent is deleted whatever send() returned.
FlushNotSentDeletes(f) ==
  /\ flush[f].at = "send" /\ call[f].at = "failed"
  /\ outbox' = outbox \ {flush[f].row}
  /\ Round(f, [flush[f] EXCEPT !.at = "next"])
  /\ call' = [call EXCEPT ![f] = NoCall]
  /\ UNCHANGED <<status, flushBusy, cooldown, directVars, boundVars>>

\* send() returned false: the intent stays for a later round.
FlushNotSent(f) ==
  /\ flush[f].at = "send" /\ call[f].at = "failed"
  /\ Round(f, [flush[f] EXCEPT !.at = "next"])
  /\ call' = [call EXCEPT ![f] = NoCall]
  /\ UNCHANGED <<status, outbox, flushBusy, cooldown, directVars, boundVars>>

\* send() returned true: delete the intent ...
FlushSent(f) ==
  /\ flush[f].at = "send" /\ call[f].at = "stored"
  /\ outbox' = outbox \ {flush[f].row}
  /\ Round(f, [flush[f] EXCEPT !.at = "tell"])
  /\ call' = [call EXCEPT ![f] = NoCall]
  /\ UNCHANGED <<status, flushBusy, cooldown, directVars, boundVars>>

\* ... and tell the chat engine (event tedbirge:outbox-sent).
FlushTell(f) ==
  /\ flush[f].at = "tell"
  /\ Sent(flush[f].row.msg)
  /\ Round(f, [flush[f] EXCEPT !.at = "next"])
  /\ UNCHANGED <<outbox, callVars, flushBusy, directVars, boundVars>>

\* Mutant: the end of a round does not reset flushBusy.
FlushEndBusy(f) ==
  /\ flush[f].at = "next"
  /\ flush[f].todo = {} \/ cooldown
  /\ Round(f, NoRound)
  /\ UNCHANGED <<status, outbox, callVars, flushBusy, directVars, boundVars>>

\* The finally block.
FlushEnd(f) ==
  /\ flush[f].at = "next"
  /\ flush[f].todo = {} \/ cooldown
  /\ Round(f, NoRound)
  /\ flushBusy' = FALSE
  /\ UNCHANGED <<status, outbox, callVars, directVars, boundVars>>

-----------------------------------------------------------------------------
\* The sending page is closed or reloaded.
Restart ==
  /\ restarts < MaxRestarts
  /\ restarts' = restarts + 1
  /\ call' = [c \in Caller |-> NoCall]
  /\ flush' = [f \in Flusher |-> NoRound]
  /\ flushBusy' = FALSE /\ cooldown' = FALSE /\ resends' = 0
  /\ UNCHANGED <<status, outbox, directVars, nextId, refusals>>

\* Steps of the sender that leave the relay alone.
OutboxStep ==
  \/ \E c \in Caller : CallSkipped(c) \/ CallRefused(c) \/ CallLost(c) \/ CallMissed(c)
  \/ CooldownEnds
  \/ \E m \in Msg : \/ Compose(m) \/ ComposeSent(m) \/ ComposeQueued(m)
                    \/ Resend(m) \/ ResendAsk(m) \/ ResendSent(m)
                    \/ ResendQueued(m) \/ ResendPending(m)
  \/ \E f \in Flusher : \/ FlushEnter(f) \/ FlushBegin(f) \/ FlushLoad(f)
                        \/ FlushDedupe(f) \/ FlushPick(f) \/ FlushNotSent(f)
                        \/ FlushSent(f) \/ FlushTell(f) \/ FlushEnd(f)
                        \/ ForwardKept(f) \/ ForwardMissed(f)
  \/ Restart

OutboxNext ==
  \/ OutboxStep
  \/ \E c \in Caller : \/ CallStored(c) \/ CallGoesOn(c) \/ CallDirect(c)
                        \/ \E p \in Pkt : CallThrown(c, p)
  \/ \E f \in Flusher : ForwardTaken(f)

OutboxSpec == OutboxInit /\ [][OutboxNext]_outboxVars

=============================================================================

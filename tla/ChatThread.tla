----------------------------- MODULE ChatThread ------------------------------
(***************************************************************************)
(* A direct conversation of the chat engine (lib/chat/engine.ts): the      *)
(* records of its messages at the author's device and at the reader's, the *)
(* ticks that come back, the retries, the sweep and the unread badge.      *)
(*                                                                         *)
(* A handler reads a record, awaits, and writes { ...record, ... } back:   *)
(* it is a task that keeps the record it has read, and every other handler *)
(* may run between its steps.  What the mesh carries is late, lost or      *)
(* comes twice.  Groups, media, edits, reactions, history sync and hidden  *)
(* read receipts are left out; of a text only whether it is deleted counts.*)
(***************************************************************************)
EXTENDS Naturals, FiniteSets

CONSTANTS
  Msgs,         \* messages the author may write
  RetryMax,     \* RETRY_MAX (6 in the code)
  MaxTasks,     \* bound: handlers under way when another, but for the sweep, starts
  MaxUnread     \* bound: the badge counts up to it

ASSUME ChatAssumption == RetryMax \in Nat /\ MaxTasks \in Nat /\ MaxUnread \in Nat \ {0}

None == [status |-> "none"]
rank == [pending |-> 0, failed |-> 0, sent |-> 1, delivered |-> 2, read |-> 3]
Statuses == DOMAIN rank
Records == [status : Statuses, deleted : BOOLEAN]
Receipts == {"delivered", "read"}

\* What the mesh carries of a message.
Signals == Msgs \X ({"text", "delete"} \cup Receipts)

VARIABLES
  rec,        \* the author's messages (IndexedDB)
  queued,     \* texts that are kept in the outbox
  attempts,   \* retryState
  lock,       \* retryInFlight
  writing,    \* handlers under way at the author's device
  wire,       \* what has been sent over the mesh
  store,      \* the reader's messages (IndexedDB)
  unread,     \* conversation.unread at the reader's device
  reading,    \* handlers under way at the reader's device
  \* history
  seen,       \* messages that have once been marked as read
  lostCount   \* a handler has put back an old unread count

author == <<rec, queued, attempts, lock, writing>>
reader == <<store, unread, reading, seen, lostCount>>
chatVars == <<author, wire, reader>>

\* "to" is the status to write, "by" who asked for the retry, "tries" the
\* attempts that the pump had counted when it did.
Writings ==
  [op : {"set"}, n : 1..2, msg : Msgs, snap : Records, to : Statuses]
    \cup [op : {"send"}, n : 1..2, msg : Msgs, snap : {None}]
    \cup [op : {"delete", "pump", "sweep"}, n : 1..2, msg : Msgs, snap : Records]
    \cup [op : {"retry"}, n : 1..2, msg : Msgs, snap : Records, by : {"user", "pump"},
          tries : 0..RetryMax, at : {"in", "send", "sent", "kept"}]

Readings ==
  [op : {"append"}, n : 1..2, msg : Msgs, snap : {None}, count : 0..MaxUnread, stored : BOOLEAN]
    \cup [op : {"mark"}, n : 1..2, at : {"reset", "list"}]
    \cup [op : {"read", "delete"}, n : 1..2, msg : Msgs, snap : Records]
    \cup [op : {"reply"}, n : 1..2, count : 0..MaxUnread]

ChatInit ==
  /\ rec = [m \in Msgs |-> None] /\ store = rec
  /\ attempts = [m \in Msgs |-> 0]
  /\ queued = {} /\ lock = {} /\ writing = {} /\ reading = {} /\ wire = {}
  /\ unread = 0 /\ seen = {} /\ lostCount = FALSE

\* Handlers are added; n tells apart two that stand at the same point.
And(tasks, more) ==
  tasks \cup {IF t \in tasks THEN [t EXCEPT !.n = 2] ELSE t : t \in more}

-----------------------------------------------------------------------------
(***************************************************************************)
(* The author's device.                                                    *)
(***************************************************************************)
Start(t) == writing' = And(writing, {t})
Goes(t, u) == writing' = And(writing \ {t}, {u})
Ends(t) == writing' = writing \ {t}
Room == Cardinality(writing) + Cardinality(reading) < MaxTasks

Put(m, r) == rec' = [rec EXCEPT ![m] = r]
Has(m) == rec[m] # None

\* Mutant: whatever comes last wins.
RankedAny(r, status) == TRUE

\* setStatus: may a record become this?
Ranked(r, status) ==
  IF status = "failed" THEN r.status = "pending"
  ELSE rank[status] > rank[r.status] \/ r.status = "failed"

\* setStatus reads the record; it goes on if the rank lets it.
StatusRead(m, status, rest) ==
  IF Has(m) /\ Ranked(rec[m], status)
  THEN writing' = And(rest, {[op |-> "set", n |-> 1, msg |-> m, snap |-> rec[m], to |-> status]})
  ELSE writing' = rest

StatusPut(t) ==
  /\ t.op = "set"
  /\ Put(t.msg, [t.snap EXCEPT !.status = t.to]) /\ Ends(t)
  /\ UNCHANGED <<queued, attempts, lock, wire, reader>>

\* sendText up to its first sendMesh: appendLocal.
SendText(m) ==
  /\ ~Has(m) /\ Room
  /\ Put(m, [status |-> "pending", deleted |-> FALSE])
  /\ Start([op |-> "send", n |-> 1, msg |-> m, snap |-> None])
  /\ UNCHANGED <<queued, attempts, lock, wire, reader>>

\* sendMesh: the text leaves at once or is kept in the outbox.  The text of a
\* deleted message is empty, and onChat does not take an empty one.
SendMesh(m, deleted, ok) ==
  IF deleted THEN UNCHANGED <<wire, queued>>
  ELSE IF ok THEN wire' = wire \cup {<<m, "text">>} /\ UNCHANGED queued
  ELSE queued' = queued \cup {m} /\ UNCHANGED wire

SendDone(t) ==
  /\ t.op = "send"
  /\ \E ok \in BOOLEAN :
       /\ SendMesh(t.msg, FALSE, ok)
       /\ StatusRead(t.msg, IF ok THEN "sent" ELSE "pending", writing \ {t})
  /\ UNCHANGED <<rec, attempts, lock, reader>>

\* The outbox gets rid of a text; "tedbirge:outbox-sent" calls setStatus.
OutboxSent(m) ==
  /\ m \in queued /\ Room
  /\ queued' = queued \ {m} /\ wire' = wire \cup {<<m, "text">>}
  /\ StatusRead(m, "sent", writing)
  /\ UNCHANGED <<rec, attempts, lock, reader>>

onReceipt(m, status) ==
  /\ <<m, status>> \in wire /\ Room
  /\ StatusRead(m, status, writing)
  /\ UNCHANGED <<rec, queued, attempts, lock, wire, reader>>

deleteMessage(m) ==
  /\ Has(m) /\ ~rec[m].deleted /\ Room
  /\ Start([op |-> "delete", n |-> 1, msg |-> m, snap |-> rec[m]])
  /\ UNCHANGED <<rec, queued, attempts, lock, wire, reader>>

DeletePut(t) ==
  /\ t.op = "delete"
  /\ Put(t.msg, [t.snap EXCEPT !.deleted = TRUE]) /\ Ends(t)
  /\ wire' = wire \cup {<<t.msg, "delete">>}
  /\ UNCHANGED <<queued, attempts, lock, reader>>

\* retryMessage up to its last getter: the lock is tested before the awaits.
Entered(m, by) ==
  [op |-> "retry", n |-> 1, msg |-> m, snap |-> rec[m], by |-> by, at |-> "in",
   tries |-> IF by = "pump" THEN attempts[m] ELSE 0]

\* The button is there when the message has failed (MessageRow).
RetryTap(m) ==
  /\ Has(m) /\ rec[m].status = "failed" /\ ~rec[m].deleted /\ m \notin lock /\ Room
  /\ Start(Entered(m, "user"))
  /\ UNCHANGED <<rec, queued, attempts, lock, wire, reader>>

\* The lock is taken, without a second look, and the record put as pending.
RetryLock(t) ==
  /\ t.op = "retry" /\ t.at = "in"
  /\ lock' = lock \cup {t.msg}
  /\ Put(t.msg, [t.snap EXCEPT !.status = "pending"])
  /\ Goes(t, [t EXCEPT !.at = "send"])
  /\ UNCHANGED <<queued, attempts, wire, reader>>

RetrySend(t) ==
  /\ t.op = "retry" /\ t.at = "send"
  /\ \E ok \in BOOLEAN :
       /\ SendMesh(t.msg, t.snap.deleted, ok)
       /\ Goes(t, [t EXCEPT !.at = IF ok THEN "sent" ELSE "kept"])
  /\ UNCHANGED <<rec, attempts, lock, reader>>

\* pumpRetryQueue counts an attempt that did not send the message.
Failed(m, tries) == attempts' = [attempts EXCEPT ![m] = tries + 1]
Forgotten(m) == attempts' = [attempts EXCEPT ![m] = 0]

\* Mutant: the lock is given back only after a success.
RetryDoneKeepsLock(t) ==
  /\ t.op = "retry" /\ t.at \in {"sent", "kept"}
  /\ Put(t.msg, [t.snap EXCEPT !.status = IF t.at = "sent" THEN "sent" ELSE "pending"])
  /\ lock' = IF t.at = "sent" THEN lock \ {t.msg} ELSE lock
  /\ IF t.by = "user" THEN UNCHANGED attempts
     ELSE IF t.at = "sent" THEN Forgotten(t.msg) ELSE Failed(t.msg, t.tries)
  /\ Ends(t)
  /\ UNCHANGED <<queued, wire, reader>>

\* The record is put once more, as it was read first; finally gives the lock back.
RetryDone(t) ==
  /\ t.op = "retry" /\ t.at \in {"sent", "kept"}
  /\ Put(t.msg, [t.snap EXCEPT !.status = IF t.at = "sent" THEN "sent" ELSE "pending"])
  /\ lock' = lock \ {t.msg}
  /\ IF t.by = "user" THEN UNCHANGED attempts
     ELSE IF t.at = "sent" THEN Forgotten(t.msg) ELSE Failed(t.msg, t.tries)
  /\ Ends(t)
  /\ UNCHANGED <<queued, wire, reader>>

\* A pass of pumpRetryQueue lists the rows; passes may overlap.
PumpRead(m) ==
  /\ Has(m) /\ rec[m].status = "pending" /\ Room
  /\ Start([op |-> "pump", n |-> 1, msg |-> m, snap |-> rec[m]])
  /\ UNCHANGED <<rec, queued, attempts, lock, wire, reader>>

\* Mutant: one attempt too many.
PumpRowOnceMore(t) ==
  /\ t.op = "pump"
  /\ \/ /\ attempts[t.msg] > RetryMax
        /\ Forgotten(t.msg) /\ Put(t.msg, [t.snap EXCEPT !.status = "failed"]) /\ Ends(t)
     \/ /\ attempts[t.msg] <= RetryMax /\ t.msg \notin lock /\ Has(t.msg)
        /\ Goes(t, Entered(t.msg, "pump")) /\ UNCHANGED <<rec, attempts>>
     \/ /\ attempts[t.msg] <= RetryMax /\ ~(t.msg \notin lock /\ Has(t.msg))
        /\ Failed(t.msg, attempts[t.msg]) /\ Ends(t) /\ UNCHANGED rec
  /\ UNCHANGED <<queued, lock, wire, reader>>

\* The pass comes to the row, and it is due.
PumpRow(t) ==
  /\ t.op = "pump"
  /\ \/ /\ attempts[t.msg] >= RetryMax
        /\ Forgotten(t.msg) /\ Put(t.msg, [t.snap EXCEPT !.status = "failed"]) /\ Ends(t)
     \/ /\ attempts[t.msg] < RetryMax /\ t.msg \notin lock /\ Has(t.msg)
        /\ Goes(t, Entered(t.msg, "pump")) /\ UNCHANGED <<rec, attempts>>
     \/ /\ attempts[t.msg] < RetryMax /\ ~(t.msg \notin lock /\ Has(t.msg))
        /\ Failed(t.msg, attempts[t.msg]) /\ Ends(t) /\ UNCHANGED rec
  /\ UNCHANGED <<queued, lock, wire, reader>>

\* Sweeps are a minute apart and do not overlap.
Swept(m) == \E t \in writing : t.op = "sweep" /\ t.msg = m

\* Mutant: the messages the pump still tries are left to it.
SweepReadLeaves(m) ==
  /\ Has(m) /\ rec[m].status = "pending" /\ ~Swept(m) /\ attempts[m] = RetryMax
  /\ Start([op |-> "sweep", n |-> 1, msg |-> m, snap |-> rec[m]])
  /\ UNCHANGED <<rec, queued, attempts, lock, wire, reader>>

\* sweepStalePending lists the rows older than PENDING_TTL_MS.
SweepRead(m) ==
  /\ Has(m) /\ rec[m].status = "pending" /\ ~Swept(m)
  /\ Start([op |-> "sweep", n |-> 1, msg |-> m, snap |-> rec[m]])
  /\ UNCHANGED <<rec, queued, attempts, lock, wire, reader>>

SweepPut(t) ==
  /\ t.op = "sweep"
  /\ Put(t.msg, [t.snap EXCEPT !.status = "failed"]) /\ Ends(t)
  /\ UNCHANGED <<queued, attempts, lock, wire, reader>>

WriterStep(t) ==
  \/ StatusPut(t) \/ SendDone(t) \/ DeletePut(t) \/ RetryLock(t) \/ RetrySend(t)
  \/ RetryDone(t) \/ PumpRow(t) \/ SweepPut(t)

AuthorNext ==
  \/ \E m \in Msgs :
       \/ SendText(m) \/ OutboxSent(m) \/ deleteMessage(m) \/ RetryTap(m)
       \/ PumpRead(m) \/ SweepRead(m)
       \/ \E status \in Receipts : onReceipt(m, status)
  \/ \E t \in writing : WriterStep(t)

-----------------------------------------------------------------------------
(***************************************************************************)
(* The reader's device.                                                    *)
(***************************************************************************)
Begins(t) ==
  /\ Room
  /\ reading' = And(reading, {t})
Turns(t, us) == reading' = And(reading \ {t}, us)
Keep(m, r) == store' = [store EXCEPT ![m] = r]

Counted(n) == IF n < MaxUnread THEN n + 1 ELSE n

\* Mutant: the receipt does not wait for the database.
onTextAcks(m) ==
  /\ <<m, "text">> \in wire /\ store[m] = None
  /\ Begins([op |-> "append", n |-> 1, msg |-> m, snap |-> None, count |-> unread, stored |-> FALSE])
  /\ wire' = wire \cup {<<m, "delivered">>}
  /\ UNCHANGED <<author, store, unread, seen, lostCount>>

\* onChat with a text: the conversation is read, then getMessage finds nothing.
onText(m) ==
  /\ <<m, "text">> \in wire /\ store[m] = None
  /\ Begins([op |-> "append", n |-> 1, msg |-> m, snap |-> None, count |-> unread, stored |-> FALSE])
  /\ UNCHANGED <<author, wire, store, unread, seen, lostCount>>

\* appendLocal: putMessage ...
AppendStore(t) ==
  /\ t.op = "append" /\ ~t.stored
  /\ Keep(t.msg, [status |-> "delivered", deleted |-> FALSE])
  /\ Turns(t, {[t EXCEPT !.stored = TRUE]})
  /\ UNCHANGED <<author, wire, unread, seen, lostCount>>

\* ... and putConversation; then the receipt goes out.
AppendCount(t) ==
  /\ t.op = "append" /\ t.stored
  /\ unread' = Counted(t.count)
  /\ Turns(t, {}) /\ wire' = wire \cup {<<t.msg, "delivered">>}
  /\ UNCHANGED <<author, store, seen, lostCount>>

onDelete(m) ==
  /\ <<m, "delete">> \in wire /\ store[m] # None
  /\ Begins([op |-> "delete", n |-> 1, msg |-> m, snap |-> store[m]])
  /\ UNCHANGED <<author, wire, store, unread, seen, lostCount>>

DeleteKeep(t) ==
  /\ t.op = "delete"
  /\ Keep(t.msg, [t.snap EXCEPT !.deleted = TRUE]) /\ Turns(t, {})
  /\ UNCHANGED <<author, wire, unread, seen, lostCount>>

\* markRead: the conversation is read; a count of 0 is not written again.
markRead ==
  /\ Begins([op |-> "mark", n |-> 1, at |-> IF unread # 0 THEN "reset" ELSE "list"])
  /\ UNCHANGED <<author, wire, store, unread, seen, lostCount>>

Unread(m) == store[m] # None /\ store[m].status # "read"
ToRead == {[op |-> "read", n |-> 1, msg |-> m, snap |-> store[m]] : m \in {n \in Msgs : Unread(n)}}

\* Mutant: the messages are listed before the count is reset.
MarkStepListsFirst(t) ==
  /\ t.op = "mark"
  /\ IF t.at = "reset"
     THEN Turns(t, ToRead \cup {[t EXCEPT !.at = "list"]}) /\ UNCHANGED unread
     ELSE Turns(t, {}) /\ unread' = 0
  /\ UNCHANGED <<author, wire, store, seen, lostCount>>

\* The count is reset; then the messages that are not read are listed, and
\* each is written back.
MarkStep(t) ==
  /\ t.op = "mark"
  /\ IF t.at = "reset"
     THEN Turns(t, {[t EXCEPT !.at = "list"]}) /\ unread' = 0
     ELSE Turns(t, ToRead) /\ UNCHANGED unread
  /\ UNCHANGED <<author, wire, store, seen, lostCount>>

ReadKeep(t) ==
  /\ t.op = "read"
  /\ Keep(t.msg, [t.snap EXCEPT !.status = "read"]) /\ Turns(t, {})
  /\ seen' = seen \cup {t.msg} /\ wire' = wire \cup {<<t.msg, "read">>}
  /\ UNCHANGED <<author, unread, lostCount>>

\* The reader's own sendText and addSystemMessage: the conversation is read,
\* and written back as a whole.
Reply ==
  /\ Begins([op |-> "reply", n |-> 1, count |-> unread])
  /\ UNCHANGED <<author, wire, store, unread, seen, lostCount>>

ReplyPut(t) ==
  /\ t.op = "reply"
  /\ unread' = t.count /\ Turns(t, {})
  /\ lostCount' = (lostCount \/ t.count < unread)
  /\ UNCHANGED <<author, wire, store, seen>>

ReaderStep(t) ==
  \/ AppendStore(t) \/ AppendCount(t) \/ DeleteKeep(t) \/ MarkStep(t)
  \/ ReadKeep(t) \/ ReplyPut(t)

ReaderNext ==
  \/ \E m \in Msgs : onText(m) \/ onDelete(m)
  \/ markRead \/ Reply
  \/ \E t \in reading : ReaderStep(t)

-----------------------------------------------------------------------------
ChatNext == AuthorNext \/ ReaderNext

\* A database call returns, and the sweep runs every minute (bootChat).
ChatSpec ==
  /\ ChatInit /\ [][ChatNext]_chatVars
  /\ \A m \in Msgs : WF_chatVars(SweepRead(m))
  /\ \A m \in Msgs : WF_chatVars(\E t \in writing : SweepPut(t) /\ t.msg = m)

-----------------------------------------------------------------------------
ChatTypeOK ==
  /\ rec \in [Msgs -> Records \cup {None}] /\ store \in [Msgs -> Records \cup {None}]
  /\ queued \in SUBSET Msgs /\ lock \in SUBSET Msgs /\ seen \in SUBSET Msgs
  /\ attempts \in [Msgs -> 0..RetryMax]
  /\ writing \in SUBSET Writings /\ reading \in SUBSET Readings
  /\ wire \in SUBSET Signals
  /\ unread \in 0..MaxUnread /\ lostCount \in BOOLEAN

\* A tick at the author's device is true: two ticks when the reader's device
\* has the message, blue ones when it has been marked as read there
\* (engine.ts, onReceipt, appendLocal, markRead).
TicksAreTrue ==
  \A m \in Msgs : Has(m) =>
    /\ rec[m].status \in {"delivered", "read"} => store[m] # None
    /\ rec[m].status = "read" => m \in seen

\* A message that the reader has not read shows in the badge, unless the
\* handler that counts it is under way or one has put back an old count.
BadgeCoversUnread ==
  (unread = 0 /\ ~lostCount) =>
    \A m \in Msgs : Unread(m) =>
      \/ \E t \in reading : t.op \in {"append", "read"} /\ t.msg = m
      \/ \E t \in reading : t.op = "mark"
      \/ store[m].deleted

\* retryInFlight holds a message only while a retry of it is under way: a
\* message is never barred from being sent again for good.
LockIsReleased ==
  \A m \in lock : \E t \in writing : t.op = "retry" /\ t.msg = m /\ t.at # "in"

\* A record moves on: a status goes back, or a deleted message comes back, only
\* when a handler writes back a record that has changed since it was read,
\* or by a retry, which starts over.
Forward(r, s) == rank[s.status] >= rank[r.status] /\ (r.deleted => s.deleted)

Stale(r, tasks, m) ==
  \E t \in tasks : t.op \in {"set", "delete", "pump", "sweep", "append", "read"}
                     /\ t.msg = m /\ t.snap # r

RecordsMoveOn ==
  [][\A m \in Msgs :
       /\ (Has(m) /\ ~Forward(rec[m], rec'[m])) =>
            \/ Stale(rec[m], writing \ writing', m)
            \/ \E t \in writing \ writing' : t.op = "retry" /\ t.msg = m
       /\ (store[m] # None /\ ~Forward(store[m], store'[m])) =>
            Stale(store[m], reading \ reading', m)]_chatVars

\* A message does not wait for ever: it is sent, or the user is told.
PendingEnds ==
  \A m \in Msgs : (Has(m) /\ rec[m].status = "pending") ~> rec[m].status # "pending"
=============================================================================

-------------------------- MODULE ChatThread_proofs --------------------------
(***************************************************************************)
(* Theorems about ChatThread, for any messages and bounds.                 *)
(***************************************************************************)
EXTENDS ChatThread, TLAPS

-----------------------------------------------------------------------------
(***************************************************************************)
(* Types.                                                                  *)
(***************************************************************************)
Sets == [op : {"set"}, n : 1..2, msg : Msgs, snap : Records, to : Statuses]
Sends == [op : {"send"}, n : 1..2, msg : Msgs, snap : {None}]
Rows == [op : {"delete", "pump", "sweep"}, n : 1..2, msg : Msgs, snap : Records]
Retries == [op : {"retry"}, n : 1..2, msg : Msgs, snap : Records, by : {"user", "pump"},
            tries : 0..RetryMax, at : {"in", "send", "sent", "kept"}]

\* The pump retries a message only while it has attempts left.
WithinMax == \A t \in writing : (t.op = "retry" /\ t.by = "pump") => t.tries < RetryMax

TypeInv == ChatTypeOK /\ WithinMax

LEMMA WritingKinds ==
  ASSUME NEW t \in Writings
  PROVE  /\ t.op = "set" => t \in Sets
         /\ t.op = "send" => t \in Sends
         /\ t.op \in {"delete", "pump", "sweep"} => t \in Rows
         /\ t.op = "retry" => t \in Retries
  BY DEF Writings, Sets, Sends, Rows, Retries

LEMMA WritingTwin ==
  ASSUME NEW t \in Writings
  PROVE  [t EXCEPT !.n = 2] \in Writings /\ [t EXCEPT !.n = 2].op = t.op
  BY DEF Writings

Appends == [op : {"append"}, n : 1..2, msg : Msgs, snap : {None},
            count : 0..MaxUnread, stored : BOOLEAN]
Marks == [op : {"mark"}, n : 1..2, at : {"reset", "list"}]
Copies == [op : {"read", "delete"}, n : 1..2, msg : Msgs, snap : Records]
Replies == [op : {"reply"}, n : 1..2, count : 0..MaxUnread]

LEMMA ReadingKinds ==
  ASSUME NEW t \in Readings
  PROVE  /\ t.op = "append" => t \in Appends
         /\ t.op = "mark" => t \in Marks
         /\ t.op \in {"read", "delete"} => t \in Copies
         /\ t.op = "reply" => t \in Replies
  BY DEF Readings, Appends, Marks, Copies, Replies

LEMMA ReadingTwin ==
  ASSUME NEW t \in Readings
  PROVE  [t EXCEPT !.n = 2] \in Readings /\ [t EXCEPT !.n = 2].op = t.op
  BY DEF Readings

\* Handlers of a type that are added to others leave the set typed.
LEMMA WritingAnd ==
  ASSUME NEW tasks \in SUBSET Writings, NEW more \in SUBSET Writings
  PROVE  And(tasks, more) \in SUBSET Writings
  BY WritingTwin DEF And

LEMMA ReadingAnd ==
  ASSUME NEW tasks \in SUBSET Readings, NEW more \in SUBSET Readings
  PROVE  And(tasks, more) \in SUBSET Readings
  BY ReadingTwin DEF And

LEMMA StatusesAre == Statuses = {"pending", "failed", "sent", "delivered", "read"}
  BY DEF Statuses, rank

LEMMA PutTyped ==
  ASSUME ChatTypeOK, NEW m \in Msgs, NEW r \in Records, Put(m, r)
  PROVE  rec' \in [Msgs -> Records \cup {None}]
  BY DEF Put, ChatTypeOK

LEMMA KeepTyped ==
  ASSUME ChatTypeOK, NEW m \in Msgs, NEW r \in Records, Keep(m, r)
  PROVE  store' \in [Msgs -> Records \cup {None}]
  BY DEF Keep, ChatTypeOK

\* setStatus adds at most a typed handler that writes.
LEMMA StatusReadTyped ==
  ASSUME ChatTypeOK, NEW m \in Msgs, NEW status \in Statuses,
         NEW rest \in SUBSET Writings, StatusRead(m, status, rest)
  PROVE  /\ writing' \in SUBSET Writings
         /\ \A t \in writing' : t \in rest \/ t.op = "set"
  <1> DEFINE u == [op |-> "set", n |-> 1, msg |-> m, snap |-> rec[m], to |-> status]
  <1>1. CASE Has(m) /\ Ranked(rec[m], status)
    <2>1. rec[m] \in Records
      BY <1>1 DEF Has, ChatTypeOK
    <2>2. u \in Writings
      BY <2>1 DEF Writings
    <2>3. writing' = And(rest, {u})
      BY <1>1 DEF StatusRead
    <2>4. \A t \in And(rest, {u}) : t \in rest \/ t.op = "set"
      BY <2>2, WritingTwin DEF And
    <2> QED
      BY <2>2, <2>3, <2>4, WritingAnd
  <1>2. CASE ~(Has(m) /\ Ranked(rec[m], status))
    BY <1>2 DEF StatusRead
  <1> QED
    BY <1>1, <1>2

\* A handler that is added keeps its kind.
LEMMA StartTyped ==
  ASSUME NEW tasks \in SUBSET Writings, NEW u \in Writings
  PROVE  /\ And(tasks, {u}) \in SUBSET Writings
         /\ \A t \in And(tasks, {u}) :
              t \in tasks \/ t = u \/ t = [u EXCEPT !.n = 2]
  BY WritingAnd DEF And

LEMMA Budgeted ==
  ASSUME NEW tasks \in SUBSET Writings, NEW u \in Writings,
         \A t \in tasks : (t.op = "retry" /\ t.by = "pump") => t.tries < RetryMax,
         (u.op = "retry" /\ u.by = "pump") => u.tries < RetryMax
  PROVE  \A t \in And(tasks, {u}) : (t.op = "retry" /\ t.by = "pump") => t.tries < RetryMax
  <1> SUFFICES ASSUME NEW t \in And(tasks, {u}), t.op = "retry", t.by = "pump"
               PROVE  t.tries < RetryMax
    OBVIOUS
  <1>1. CASE t \in tasks
    BY <1>1
  <1>2. CASE t = u
    BY <1>2
  <1>3. CASE t = [u EXCEPT !.n = 2]
    <2>1. u.op = "retry"
      BY <1>3, WritingTwin
    <2>2. u \in Retries
      BY <2>1, WritingKinds
    <2>3. u.by = t.by /\ u.tries = t.tries
      BY <2>2, <1>3 DEF Retries
    <2> QED
      BY <2>1, <2>3
  <1> QED
    BY <1>1, <1>2, <1>3 DEF And

\* The author's handlers that start.
LEMMA StartsTyped ==
  ASSUME TypeInv, NEW m \in Msgs,
         \/ SendText(m) \/ OutboxSent(m) \/ deleteMessage(m) \/ RetryTap(m)
         \/ PumpRead(m) \/ SweepRead(m) \/ \E status \in Receipts : onReceipt(m, status)
  PROVE  TypeInv'
  <1> USE DEF TypeInv, WithinMax
  <1> DEFINE new == [status |-> "pending", deleted |-> FALSE]
             Row(op) == [op |-> op, n |-> 1, msg |-> m, snap |-> rec[m]]
  <1>r. Has(m) => rec[m] \in Records
    BY DEF Has, ChatTypeOK
  <1>w. writing \in SUBSET Writings
    BY DEF ChatTypeOK
  <1>1. CASE SendText(m)
    <2> DEFINE u == [op |-> "send", n |-> 1, msg |-> m, snap |-> None]
    <2>1. u \in Writings /\ u.op # "retry"
      BY DEF Writings
    <2>2. new \in Records
      BY StatusesAre DEF Records
    <2>3. rec' \in [Msgs -> Records \cup {None}]
      BY <1>1, <2>2, PutTyped DEF SendText
    <2>4. writing' = And(writing, {u})
      BY <1>1 DEF SendText, Start
    <2>5. writing' \in SUBSET Writings /\ WithinMax'
      BY <1>w, <2>1, <2>4, WritingAnd, Budgeted
    <2> QED
      BY <1>1, <2>3, <2>5 DEF SendText, ChatTypeOK, reader
  <1>2. CASE OutboxSent(m)
    <2>1. writing' \in SUBSET Writings /\ WithinMax'
      BY <1>2, <1>w, StatusReadTyped, StatusesAre DEF OutboxSent
    <2>2. wire' \in SUBSET Signals /\ queued' \in SUBSET Msgs
      BY <1>2 DEF OutboxSent, ChatTypeOK, Signals
    <2> QED
      BY <1>2, <2>1, <2>2 DEF OutboxSent, ChatTypeOK, reader
  <1>3. CASE deleteMessage(m)
    <2>1. Row("delete") \in Writings /\ Row("delete").op # "retry"
      BY <1>3, <1>r DEF deleteMessage, Writings
    <2>2. writing' \in SUBSET Writings /\ WithinMax'
      BY <1>3, <1>w, <2>1, WritingAnd, Budgeted DEF deleteMessage, Start
    <2> QED
      BY <1>3, <2>2 DEF deleteMessage, ChatTypeOK, reader
  <1>4. CASE RetryTap(m)
    <2> DEFINE u == Entered(m, "user")
    <2>1. u \in Writings /\ u.by # "pump"
      BY <1>4, <1>r, ChatAssumption DEF RetryTap, Writings, Entered
    <2>2. writing' \in SUBSET Writings /\ WithinMax'
      <3> HIDE DEF u
      <3>1. writing' = And(writing, {u})
        BY <1>4 DEF RetryTap, Start, u
      <3> QED
        BY <3>1, <1>w, <2>1, WritingAnd, Budgeted
    <2> QED
      BY <1>4, <2>2 DEF RetryTap, ChatTypeOK, reader
  <1>5. CASE PumpRead(m)
    <2>1. Row("pump") \in Writings /\ Row("pump").op # "retry"
      BY <1>5, <1>r DEF PumpRead, Writings
    <2>2. writing' \in SUBSET Writings /\ WithinMax'
      BY <1>5, <1>w, <2>1, WritingAnd, Budgeted DEF PumpRead, Start
    <2> QED
      BY <1>5, <2>2 DEF PumpRead, ChatTypeOK, reader
  <1>6. CASE SweepRead(m)
    <2>1. Row("sweep") \in Writings /\ Row("sweep").op # "retry"
      BY <1>6, <1>r DEF SweepRead, Writings
    <2>2. writing' \in SUBSET Writings /\ WithinMax'
      BY <1>6, <1>w, <2>1, WritingAnd, Budgeted DEF SweepRead, Start
    <2> QED
      BY <1>6, <2>2 DEF SweepRead, ChatTypeOK, reader
  <1>7. CASE \E status \in Receipts : onReceipt(m, status)
    <2>1. PICK status \in Receipts : onReceipt(m, status)
      BY <1>7
    <2>2. status \in Statuses
      BY StatusesAre DEF Receipts
    <2>3. writing' \in SUBSET Writings /\ WithinMax'
      BY <1>w, <2>1, <2>2, StatusReadTyped DEF onReceipt
    <2> QED
      BY <2>1, <2>3 DEF onReceipt, ChatTypeOK, reader
  <1> QED
    BY <1>1, <1>2, <1>3, <1>4, <1>5, <1>6, <1>7

\* The author's handlers that go on.
LEMMA WritersTyped ==
  ASSUME TypeInv, NEW t \in writing, WriterStep(t)
  PROVE  TypeInv'
  <1> USE DEF TypeInv, WithinMax
  <1>w. /\ t \in Writings /\ writing \ {t} \in SUBSET Writings
        /\ \A s \in writing \ {t} : (s.op = "retry" /\ s.by = "pump") => s.tries < RetryMax
    BY DEF ChatTypeOK
  <1>1. CASE StatusPut(t)
    <2>1. t \in Sets
      BY <1>1, <1>w, WritingKinds DEF StatusPut
    <2>2. [t.snap EXCEPT !.status = t.to] \in Records /\ t.msg \in Msgs
      BY <2>1 DEF Sets, Records
    <2>3. rec' \in [Msgs -> Records \cup {None}]
      BY <1>1, <2>2, PutTyped DEF StatusPut
    <2> QED
      BY <1>1, <1>w, <2>3 DEF StatusPut, Ends, ChatTypeOK, reader
  <1>2. CASE SendDone(t)
    <2>1. t \in Sends
      BY <1>2, <1>w, WritingKinds DEF SendDone
    <2>2. PICK ok \in BOOLEAN :
            /\ SendMesh(t.msg, FALSE, ok)
            /\ StatusRead(t.msg, IF ok THEN "sent" ELSE "pending", writing \ {t})
      BY <1>2 DEF SendDone
    <2>3. t.msg \in Msgs /\ (IF ok THEN "sent" ELSE "pending") \in Statuses
      BY <2>1, StatusesAre DEF Sends
    <2>4. writing' \in SUBSET Writings /\ WithinMax'
      BY <1>w, <2>2, <2>3, StatusReadTyped
    <2>5. wire' \in SUBSET Signals /\ queued' \in SUBSET Msgs
      BY <2>2, <2>3 DEF SendMesh, ChatTypeOK, Signals
    <2> QED
      BY <1>2, <2>4, <2>5 DEF SendDone, ChatTypeOK, reader
  <1>3. CASE DeletePut(t)
    <2>1. t \in Rows
      BY <1>3, <1>w, WritingKinds DEF DeletePut
    <2>2. [t.snap EXCEPT !.deleted = TRUE] \in Records /\ t.msg \in Msgs
      BY <2>1 DEF Rows, Records
    <2>3. rec' \in [Msgs -> Records \cup {None}]
      BY <1>3, <2>2, PutTyped DEF DeletePut
    <2>4. wire' \in SUBSET Signals
      BY <1>3, <2>2 DEF DeletePut, ChatTypeOK, Signals
    <2> QED
      BY <1>3, <1>w, <2>3, <2>4 DEF DeletePut, Ends, ChatTypeOK, reader
  <1>4. CASE RetryLock(t)
    <2> DEFINE u == [t EXCEPT !.at = "send"]
    <2>1. t \in Retries
      BY <1>4, <1>w, WritingKinds DEF RetryLock
    <2>2. [t.snap EXCEPT !.status = "pending"] \in Records /\ t.msg \in Msgs
      BY <2>1, StatusesAre DEF Retries, Records
    <2>3. rec' \in [Msgs -> Records \cup {None}]
      BY <1>4, <2>2, PutTyped DEF RetryLock
    <2>4. u \in Retries /\ u.by = t.by /\ u.tries = t.tries /\ u.op = t.op
      BY <2>1 DEF Retries
    <2>5. u \in Writings
      BY <2>4 DEF Retries, Writings
    <2>6. writing' \in SUBSET Writings /\ WithinMax'
      <3> HIDE DEF u
      <3>1. writing' = And(writing \ {t}, {u})
        BY <1>4 DEF RetryLock, Goes, u
      <3>2. (u.op = "retry" /\ u.by = "pump") => u.tries < RetryMax
        BY <2>4
      <3> QED
        BY <3>1, <3>2, <1>w, <2>5, WritingAnd, Budgeted
    <2>7. lock' \in SUBSET Msgs
      BY <1>4, <2>2 DEF RetryLock, ChatTypeOK
    <2> QED
      BY <1>4, <2>3, <2>6, <2>7 DEF RetryLock, ChatTypeOK, reader
  <1>5. CASE RetrySend(t)
    <2>1. t \in Retries
      BY <1>5, <1>w, WritingKinds DEF RetrySend
    <2>2. PICK ok \in BOOLEAN :
            /\ SendMesh(t.msg, t.snap.deleted, ok)
            /\ Goes(t, [t EXCEPT !.at = IF ok THEN "sent" ELSE "kept"])
      BY <1>5 DEF RetrySend
    <2> DEFINE u == [t EXCEPT !.at = IF ok THEN "sent" ELSE "kept"]
    <2>3. u \in Retries /\ u.by = t.by /\ u.tries = t.tries /\ u.op = t.op /\ t.msg \in Msgs
      BY <2>1 DEF Retries
    <2>4. u \in Writings
      BY <2>3 DEF Retries, Writings
    <2>5. writing' \in SUBSET Writings /\ WithinMax'
      <3> HIDE DEF u
      <3>1. writing' = And(writing \ {t}, {u})
        BY <2>2 DEF Goes, u
      <3>2. (u.op = "retry" /\ u.by = "pump") => u.tries < RetryMax
        BY <2>3
      <3> QED
        BY <3>1, <3>2, <1>w, <2>4, WritingAnd, Budgeted
    <2>6. wire' \in SUBSET Signals /\ queued' \in SUBSET Msgs
      BY <2>2, <2>3 DEF SendMesh, ChatTypeOK, Signals
    <2> QED
      BY <1>5, <2>5, <2>6 DEF RetrySend, ChatTypeOK, reader
  <1>6. CASE RetryDone(t)
    <2>1. t \in Retries
      BY <1>6, <1>w, WritingKinds DEF RetryDone
    <2> DEFINE r == [t.snap EXCEPT !.status = IF t.at = "sent" THEN "sent" ELSE "pending"]
    <2>2. r \in Records /\ t.msg \in Msgs
      BY <2>1, StatusesAre DEF Retries, Records
    <2>3. rec' \in [Msgs -> Records \cup {None}]
      BY <1>6, <2>2, PutTyped DEF RetryDone
    <2>4. t.by = "pump" => t.tries + 1 \in 0..RetryMax
      BY <1>6, <2>1, ChatAssumption DEF Retries, RetryDone
    <2>5. attempts' \in [Msgs -> 0..RetryMax]
      BY <1>6, <2>1, <2>2, <2>4, ChatAssumption
      DEF RetryDone, Forgotten, Failed, ChatTypeOK, Retries
    <2> QED
      BY <1>6, <1>w, <2>3, <2>5 DEF RetryDone, Ends, ChatTypeOK, reader
  <1>7. CASE PumpRow(t)
    <2>1. t \in Rows
      BY <1>7, <1>w, WritingKinds DEF PumpRow
    <2>2. [t.snap EXCEPT !.status = "failed"] \in Records /\ t.msg \in Msgs
      BY <2>1, StatusesAre DEF Rows, Records
    <2>3. CASE /\ Forgotten(t.msg) /\ Put(t.msg, [t.snap EXCEPT !.status = "failed"])
               /\ Ends(t) /\ UNCHANGED <<queued, lock, wire, reader>>
      <3>1. rec' \in [Msgs -> Records \cup {None}]
        BY <2>2, <2>3, PutTyped
      <3>2. attempts' \in [Msgs -> 0..RetryMax]
        <4>1. attempts \in [Msgs -> 0..RetryMax] /\ 0 \in 0..RetryMax
          BY ChatAssumption DEF ChatTypeOK
        <4> QED
          BY <2>3, <4>1 DEF Forgotten
      <3> QED
        BY <1>w, <2>3, <3>1, <3>2 DEF Ends, ChatTypeOK, reader
    <2>4. CASE /\ attempts[t.msg] < RetryMax /\ Goes(t, Entered(t.msg, "pump"))
               /\ UNCHANGED <<rec, attempts>> /\ UNCHANGED <<queued, lock, wire, reader>>
               /\ Has(t.msg)
      <3> DEFINE u == Entered(t.msg, "pump")
      <3>1. rec[t.msg] \in Records /\ attempts[t.msg] \in 0..RetryMax
        BY <2>2, <2>4 DEF Has, ChatTypeOK
      <3>2. u \in Writings /\ u.tries < RetryMax
        BY <2>2, <2>4, <3>1 DEF Entered, Writings
      <3>3. writing' \in SUBSET Writings /\ WithinMax'
        <4> HIDE DEF u
        <4>1. writing' = And(writing \ {t}, {u})
          BY <2>4 DEF Goes, u
        <4> QED
          BY <4>1, <1>w, <3>2, WritingAnd, Budgeted
      <3> QED
        BY <2>4, <3>3 DEF ChatTypeOK, reader
    <2>5. CASE /\ attempts[t.msg] < RetryMax /\ Failed(t.msg, attempts[t.msg]) /\ Ends(t)
               /\ UNCHANGED rec /\ UNCHANGED <<queued, lock, wire, reader>>
      <3>1. attempts[t.msg] \in 0..RetryMax
        BY <2>2 DEF ChatTypeOK
      <3>2. attempts' \in [Msgs -> 0..RetryMax]
        BY <2>5, <2>2, <3>1, ChatAssumption DEF Failed, ChatTypeOK
      <3> QED
        BY <1>w, <2>5, <3>2 DEF Ends, ChatTypeOK, reader
    <2> QED
      BY <1>7, <2>3, <2>4, <2>5 DEF PumpRow
  <1>8. CASE SweepPut(t)
    <2>1. t \in Rows
      BY <1>8, <1>w, WritingKinds DEF SweepPut
    <2>2. [t.snap EXCEPT !.status = "failed"] \in Records /\ t.msg \in Msgs
      BY <2>1, StatusesAre DEF Rows, Records
    <2>3. rec' \in [Msgs -> Records \cup {None}]
      BY <1>8, <2>2, PutTyped DEF SweepPut
    <2> QED
      BY <1>8, <1>w, <2>3 DEF SweepPut, Ends, ChatTypeOK, reader
  <1> QED
    BY <1>1, <1>2, <1>3, <1>4, <1>5, <1>6, <1>7, <1>8 DEF WriterStep

\* The reader's handlers.
LEMMA ReadersTyped ==
  ASSUME TypeInv, ReaderNext
  PROVE  TypeInv'
  <1> USE DEF TypeInv
  <1>a. UNCHANGED author
    BY DEF ReaderNext, ReaderStep, onText, onDelete, markRead, Reply, AppendStore,
       AppendCount, DeleteKeep, MarkStep, ReadKeep, ReplyPut
  <1>b. /\ WithinMax' /\ writing' = writing /\ queued' = queued /\ lock' = lock
        /\ rec' = rec /\ attempts' = attempts
    BY <1>a DEF author, WithinMax
  <1>r. reading \in SUBSET Readings /\ unread \in 0..MaxUnread
    BY DEF ChatTypeOK
  <1>s. \A m \in Msgs : store[m] # None => store[m] \in Records
    BY DEF ChatTypeOK
  <1>1. CASE \E m \in Msgs : onText(m)
    <2>1. PICK m \in Msgs : onText(m)
      BY <1>1
    <2> DEFINE u == [op |-> "append", n |-> 1, msg |-> m, snap |-> None,
                     count |-> unread, stored |-> FALSE]
    <2>2. u \in Readings
      BY <1>r DEF Readings
    <2>3. reading' \in SUBSET Readings
      BY <1>r, <2>1, <2>2, ReadingAnd DEF onText, Begins
    <2> QED
      BY <1>b, <2>1, <2>3 DEF onText, ChatTypeOK
  <1>2. CASE \E m \in Msgs : onDelete(m)
    <2>1. PICK m \in Msgs : onDelete(m)
      BY <1>2
    <2> DEFINE u == [op |-> "delete", n |-> 1, msg |-> m, snap |-> store[m]]
    <2>2. u \in Readings
      BY <1>s, <2>1 DEF Readings, onDelete
    <2>3. reading' \in SUBSET Readings
      BY <1>r, <2>1, <2>2, ReadingAnd DEF onDelete, Begins
    <2> QED
      BY <1>b, <2>1, <2>3 DEF onDelete, ChatTypeOK
  <1>3. CASE markRead
    <2> DEFINE u == [op |-> "mark", n |-> 1, at |-> IF unread # 0 THEN "reset" ELSE "list"]
    <2>1. u \in Readings
      BY DEF Readings
    <2>2. reading' \in SUBSET Readings
      BY <1>3, <1>r, <2>1, ReadingAnd DEF markRead, Begins
    <2> QED
      BY <1>3, <1>b, <2>2 DEF markRead, ChatTypeOK
  <1>4. CASE Reply
    <2> DEFINE u == [op |-> "reply", n |-> 1, count |-> unread]
    <2>1. u \in Readings
      BY <1>r DEF Readings
    <2>2. reading' \in SUBSET Readings
      BY <1>4, <1>r, <2>1, ReadingAnd DEF Reply, Begins
    <2> QED
      BY <1>4, <1>b, <2>2 DEF Reply, ChatTypeOK
  <1>5. ASSUME NEW t \in reading, ReaderStep(t) PROVE ChatTypeOK'
    <2>t. t \in Readings /\ reading \ {t} \in SUBSET Readings
      BY <1>r
    <2>e. Turns(t, {}) => reading' \in SUBSET Readings
      BY <2>t, ReadingAnd DEF Turns
    <2>1. CASE AppendStore(t)
      <3>1. t \in Appends
        BY <2>1, <2>t, ReadingKinds DEF AppendStore
      <3>2. [t EXCEPT !.stored = TRUE] \in Readings /\ t.msg \in Msgs
        BY <3>1 DEF Appends, Readings
      <3>3. reading' \in SUBSET Readings
        BY <2>1, <2>t, <3>2, ReadingAnd DEF AppendStore, Turns
      <3>4. [status |-> "delivered", deleted |-> FALSE] \in Records
        BY StatusesAre DEF Records
      <3>5. store' \in [Msgs -> Records \cup {None}]
        BY <2>1, <3>2, <3>4, KeepTyped DEF AppendStore
      <3> QED
        BY <1>b, <2>1, <3>3, <3>5 DEF AppendStore, ChatTypeOK
    <2>2. CASE AppendCount(t)
      <3>1. t \in Appends
        BY <2>2, <2>t, ReadingKinds DEF AppendCount
      <3>2. unread' \in 0..MaxUnread
        BY <2>2, <3>1, ChatAssumption DEF AppendCount, Counted, Appends
      <3>3. wire' \in SUBSET Signals
        BY <2>2, <3>1 DEF AppendCount, Appends, Signals, Receipts, ChatTypeOK
      <3> QED
        BY <1>b, <2>2, <2>e, <3>2, <3>3 DEF AppendCount, ChatTypeOK
    <2>3. CASE DeleteKeep(t)
      <3>1. t \in Copies
        BY <2>3, <2>t, ReadingKinds DEF DeleteKeep
      <3>2. [t.snap EXCEPT !.deleted = TRUE] \in Records /\ t.msg \in Msgs
        BY <3>1 DEF Copies, Records
      <3>3. store' \in [Msgs -> Records \cup {None}]
        BY <2>3, <3>2, KeepTyped DEF DeleteKeep
      <3> QED
        BY <1>b, <2>3, <2>e, <3>3 DEF DeleteKeep, ChatTypeOK
    <2>4. CASE MarkStep(t)
      <3>1. t \in Marks
        BY <2>4, <2>t, ReadingKinds DEF MarkStep
      <3>2. [t EXCEPT !.at = "list"] \in Readings
        BY <3>1 DEF Marks, Readings
      <3>3. ToRead \in SUBSET Readings
        BY <1>s DEF ToRead, Unread, Readings
      <3>4. reading' \in SUBSET Readings
        BY <2>4, <2>t, <3>2, <3>3, ReadingAnd DEF MarkStep, Turns
      <3>5. unread' \in 0..MaxUnread
        BY <2>4, <1>r, ChatAssumption DEF MarkStep
      <3> QED
        BY <1>b, <2>4, <3>4, <3>5 DEF MarkStep, ChatTypeOK
    <2>5. CASE ReadKeep(t)
      <3>1. t \in Copies
        BY <2>5, <2>t, ReadingKinds DEF ReadKeep
      <3>2. [t.snap EXCEPT !.status = "read"] \in Records /\ t.msg \in Msgs
        BY <3>1, StatusesAre DEF Copies, Records
      <3>3. store' \in [Msgs -> Records \cup {None}]
        BY <2>5, <3>2, KeepTyped DEF ReadKeep
      <3>4. wire' \in SUBSET Signals /\ seen' \in SUBSET Msgs
        BY <2>5, <3>2 DEF ReadKeep, Signals, Receipts, ChatTypeOK
      <3> QED
        BY <1>b, <2>5, <2>e, <3>3, <3>4 DEF ReadKeep, ChatTypeOK
    <2>6. CASE ReplyPut(t)
      <3>1. t \in Replies
        BY <2>6, <2>t, ReadingKinds DEF ReplyPut
      <3> QED
        BY <1>b, <2>6, <2>e, <3>1 DEF ReplyPut, Replies, ChatTypeOK
    <2> QED
      BY <1>5, <2>1, <2>2, <2>3, <2>4, <2>5, <2>6 DEF ReaderStep
  <1> QED
    BY <1>1, <1>2, <1>3, <1>4, <1>5, <1>b DEF ReaderNext

LEMMA TypeInvInit == ChatInit => TypeInv
  <1> SUFFICES ASSUME ChatInit PROVE TypeInv
    OBVIOUS
  <1>1. rec \in [Msgs -> Records \cup {None}] /\ store \in [Msgs -> Records \cup {None}]
    BY DEF ChatInit
  <1>2. attempts \in [Msgs -> 0..RetryMax] /\ unread \in 0..MaxUnread
    BY ChatAssumption DEF ChatInit
  <1>3. WithinMax
    BY DEF ChatInit, WithinMax
  <1> QED
    BY <1>1, <1>2, <1>3 DEF ChatInit, TypeInv, ChatTypeOK

LEMMA TypeInvNext == TypeInv /\ [ChatNext]_chatVars => TypeInv'
  <1> SUFFICES ASSUME TypeInv, [ChatNext]_chatVars PROVE TypeInv'
    OBVIOUS
  <1>1. CASE AuthorNext
    BY <1>1, StartsTyped, WritersTyped DEF AuthorNext
  <1>2. CASE ReaderNext
    BY <1>2, ReadersTyped
  <1>3. CASE UNCHANGED chatVars
    BY <1>3 DEF chatVars, author, reader, TypeInv, ChatTypeOK, WithinMax
  <1> QED
    BY <1>1, <1>2, <1>3 DEF ChatNext

\* Every variable of the conversation keeps its type; an attempt is counted
\* only within RETRY_MAX (pumpRetryQueue).
THEOREM ChatTypeCorrect == ChatSpec => []ChatTypeOK
  <1>1. ChatSpec => []TypeInv
    BY TypeInvInit, TypeInvNext, PTL DEF ChatSpec
  <1>2. TypeInv => ChatTypeOK
    BY DEF TypeInv
  <1> QED
    BY <1>1, <1>2, PTL

-----------------------------------------------------------------------------
(***************************************************************************)
(* Ticks.                                                                  *)
(***************************************************************************)
\* What a status says of the reader's device.
IsTrue(m, status) ==
  /\ status \in Receipts => store[m] # None
  /\ status = "read" => m \in seen

\* What a handler has read, and is about to write, is true.
Truthful(t) ==
  /\ t.op # "send" => IsTrue(t.msg, t.snap.status)
  /\ t.op = "set" => IsTrue(t.msg, t.to)

TickInv ==
  /\ \A m \in Msgs : m \in seen => store[m] # None
  /\ \A m \in Msgs : Has(m) => IsTrue(m, rec[m].status)
  /\ \A m \in Msgs, status \in Receipts : <<m, status>> \in wire => IsTrue(m, status)
  /\ \A t \in writing : Truthful(t)
  /\ \A t \in reading :
       /\ t.op = "append" => (t.stored => store[t.msg] # None)
       /\ t.op \in {"read", "delete"} => store[t.msg] # None

LEMMA Written ==
  ASSUME NEW tasks \in SUBSET Writings, NEW u \in Writings, NEW t \in And(tasks, {u})
  PROVE  \/ t \in tasks
         \/ /\ t.op = u.op /\ t.msg = u.msg /\ t.snap = u.snap
            /\ t.op = "set" => t.to = u.to
            /\ t.op = "retry" => t.at = u.at
  <1>1. ASSUME t = [u EXCEPT !.n = 2]
        PROVE  /\ t.op = u.op /\ t.msg = u.msg /\ t.snap = u.snap
               /\ t.op = "set" => t.to = u.to
               /\ t.op = "retry" => t.at = u.at
    BY <1>1 DEF Writings
  <1> QED
    BY <1>1 DEF And

LEMMA TruthfulAnd ==
  ASSUME NEW tasks \in SUBSET Writings, NEW u \in Writings,
         \A t \in tasks : Truthful(t), Truthful(u)
  PROVE  \A t \in And(tasks, {u}) : Truthful(t)
  BY Written DEF Truthful

LEMMA TruthfulStatusRead ==
  ASSUME ChatTypeOK, TickInv, NEW m \in Msgs, NEW status \in Statuses,
         NEW rest \in SUBSET writing, IsTrue(m, status), StatusRead(m, status, rest)
  PROVE  \A t \in writing' : Truthful(t)
  <1> DEFINE u == [op |-> "set", n |-> 1, msg |-> m, snap |-> rec[m], to |-> status]
  <1>0. rest \in SUBSET Writings /\ \A t \in rest : Truthful(t)
    BY DEF ChatTypeOK, TickInv
  <1>1. CASE Has(m) /\ Ranked(rec[m], status)
    <2>1. rec[m] \in Records
      BY <1>1 DEF Has, ChatTypeOK
    <2>2. u \in Writings
      BY <2>1 DEF Writings
    <2>3. writing' = And(rest, {u})
      BY <1>1 DEF StatusRead
    <2>4. Truthful(u)
      BY <1>1 DEF Truthful, TickInv
    <2> QED
      BY <1>0, <2>2, <2>3, <2>4, TruthfulAnd
  <1>2. CASE ~(Has(m) /\ Ranked(rec[m], status))
    BY <1>0, <1>2 DEF StatusRead
  <1> QED
    BY <1>1, <1>2

\* A text that is sent or kept is no receipt.
LEMMA NoReceipt ==
  ASSUME NEW m, NEW deleted, NEW ok, SendMesh(m, deleted, ok), NEW n, NEW status \in Receipts,
         <<n, status>> \in wire'
  PROVE  <<n, status>> \in wire
  BY DEF SendMesh, Receipts

\* The author's steps: what changes is the record, the wire and the handlers.
LEMMA TicksOfAuthor ==
  ASSUME TypeInv, TickInv, UNCHANGED reader,
         \A m \in Msgs : Has(m)' => IsTrue(m, rec'[m].status),
         \A m \in Msgs, status \in Receipts : <<m, status>> \in wire' => <<m, status>> \in wire,
         \A t \in writing' : Truthful(t)
  PROVE  TickInv'
  <1>1. \A m, status : IsTrue(m, status)' <=> IsTrue(m, status)
    BY DEF IsTrue, reader
  <1>2. \A t : Truthful(t)' <=> Truthful(t)
    BY <1>1 DEF Truthful
  <1> QED
    BY <1>1, <1>2 DEF TickInv, reader

LEMMA TicksOfStarts ==
  ASSUME TypeInv, TickInv, NEW m \in Msgs,
         \/ SendText(m) \/ OutboxSent(m) \/ deleteMessage(m) \/ RetryTap(m)
         \/ PumpRead(m) \/ SweepRead(m) \/ \E status \in Receipts : onReceipt(m, status)
  PROVE  TickInv'
  <1> USE DEF TypeInv
  <1> DEFINE Row(op) == [op |-> op, n |-> 1, msg |-> m, snap |-> rec[m]]
  <1>w. writing \in SUBSET Writings /\ \A t \in writing : Truthful(t)
    BY DEF ChatTypeOK, TickInv
  <1>r. Has(m) => rec[m] \in Records /\ IsTrue(m, rec[m].status)
    BY DEF Has, ChatTypeOK, TickInv
  <1>h. \A n \in Msgs : Has(n) => IsTrue(n, rec[n].status)
    BY DEF TickInv
  <1>1. CASE SendText(m)
    <2> DEFINE u == [op |-> "send", n |-> 1, msg |-> m, snap |-> None]
    <2>1. u \in Writings /\ Truthful(u)
      BY DEF Writings, Truthful
    <2>2. \A t \in writing' : Truthful(t)
      BY <1>1, <1>w, <2>1, TruthfulAnd DEF SendText, Start
    <2>3. \A n \in Msgs : Has(n)' => IsTrue(n, rec'[n].status)
      BY <1>1, <1>h DEF SendText, Put, Has, IsTrue, Receipts, ChatTypeOK
    <2> QED
      BY <1>1, <2>2, <2>3, TicksOfAuthor DEF SendText
  <1>2. CASE OutboxSent(m)
    <2>1. IsTrue(m, "sent") /\ "sent" \in Statuses
      BY StatusesAre DEF IsTrue, Receipts
    <2>2. \A t \in writing' : Truthful(t)
      BY <1>2, <2>1, TruthfulStatusRead DEF OutboxSent
    <2>3. \A n \in Msgs, status \in Receipts : <<n, status>> \in wire' => <<n, status>> \in wire
      BY <1>2 DEF OutboxSent, Receipts
    <2> QED
      BY <1>2, <1>h, <2>2, <2>3, TicksOfAuthor DEF OutboxSent, Has
  <1>3. CASE deleteMessage(m)
    <2>1. Row("delete") \in Writings /\ Truthful(Row("delete"))
      BY <1>3, <1>r DEF deleteMessage, Writings, Truthful
    <2>2. \A t \in writing' : Truthful(t)
      BY <1>3, <1>w, <2>1, TruthfulAnd DEF deleteMessage, Start
    <2> QED
      BY <1>3, <1>h, <2>2, TicksOfAuthor DEF deleteMessage, Has
  <1>4. CASE RetryTap(m)
    <2>1. Entered(m, "user") \in Writings /\ Truthful(Entered(m, "user"))
      BY <1>4, <1>r, ChatAssumption DEF RetryTap, Writings, Truthful, Entered
    <2>2. \A t \in writing' : Truthful(t)
      BY <1>4, <1>w, <2>1, TruthfulAnd DEF RetryTap, Start
    <2> QED
      BY <1>4, <1>h, <2>2, TicksOfAuthor DEF RetryTap, Has
  <1>5. CASE PumpRead(m)
    <2>1. Row("pump") \in Writings /\ Truthful(Row("pump"))
      BY <1>5, <1>r DEF PumpRead, Writings, Truthful
    <2>2. \A t \in writing' : Truthful(t)
      BY <1>5, <1>w, <2>1, TruthfulAnd DEF PumpRead, Start
    <2> QED
      BY <1>5, <1>h, <2>2, TicksOfAuthor DEF PumpRead, Has
  <1>6. CASE SweepRead(m)
    <2>1. Row("sweep") \in Writings /\ Truthful(Row("sweep"))
      BY <1>6, <1>r DEF SweepRead, Writings, Truthful
    <2>2. \A t \in writing' : Truthful(t)
      BY <1>6, <1>w, <2>1, TruthfulAnd DEF SweepRead, Start
    <2> QED
      BY <1>6, <1>h, <2>2, TicksOfAuthor DEF SweepRead, Has
  <1>7. CASE \E status \in Receipts : onReceipt(m, status)
    <2>1. PICK status \in Receipts : onReceipt(m, status)
      BY <1>7
    <2>2. status \in Statuses /\ IsTrue(m, status)
      BY <2>1, StatusesAre DEF Receipts, onReceipt, TickInv
    <2>3. \A t \in writing' : Truthful(t)
      BY <2>1, <2>2, TruthfulStatusRead DEF onReceipt
    <2> QED
      BY <2>1, <1>h, <2>3, TicksOfAuthor DEF onReceipt, Has
  <1> QED
    BY <1>1, <1>2, <1>3, <1>4, <1>5, <1>6, <1>7

\* A record that a handler writes is true if its status is.
LEMMA TruePut ==
  ASSUME ChatTypeOK, TickInv, NEW m \in Msgs, NEW r \in Records, Put(m, r),
         IsTrue(m, r.status)
  PROVE  \A n \in Msgs : Has(n)' => IsTrue(n, rec'[n].status)
  BY DEF Put, Has, ChatTypeOK, TickInv

LEMMA TicksOfWriters ==
  ASSUME TypeInv, TickInv, NEW t \in writing, WriterStep(t)
  PROVE  TickInv'
  <1> USE DEF TypeInv
  <1>w. /\ t \in Writings /\ writing \ {t} \in SUBSET Writings
        /\ \A s \in writing \ {t} : Truthful(s)
        /\ Truthful(t)
    BY DEF ChatTypeOK, TickInv
  <1>h. \A n \in Msgs : Has(n) => IsTrue(n, rec[n].status)
    BY DEF TickInv
  <1>q. \A n, status : status \in {"pending", "failed", "sent"} => IsTrue(n, status)
    BY DEF IsTrue, Receipts
  <1>1. CASE StatusPut(t)
    <2>1. t \in Sets
      BY <1>1, <1>w, WritingKinds DEF StatusPut
    <2> DEFINE r == [t.snap EXCEPT !.status = t.to]
    <2>2. r \in Records /\ r.status = t.to /\ t.msg \in Msgs
      BY <2>1 DEF Sets, Records
    <2>3. IsTrue(t.msg, r.status)
      BY <1>w, <2>1, <2>2 DEF Truthful, Sets
    <2>4. \A n \in Msgs : Has(n)' => IsTrue(n, rec'[n].status)
      BY <1>1, <2>2, <2>3, TruePut DEF StatusPut
    <2> QED
      BY <1>1, <1>w, <2>4, TicksOfAuthor DEF StatusPut, Ends
  <1>2. CASE SendDone(t)
    <2>1. t \in Sends
      BY <1>2, <1>w, WritingKinds DEF SendDone
    <2>2. PICK ok \in BOOLEAN :
            /\ SendMesh(t.msg, FALSE, ok)
            /\ StatusRead(t.msg, IF ok THEN "sent" ELSE "pending", writing \ {t})
      BY <1>2 DEF SendDone
    <2>3. t.msg \in Msgs /\ (IF ok THEN "sent" ELSE "pending") \in Statuses
      BY <2>1, StatusesAre DEF Sends
    <2>4. \A s \in writing' : Truthful(s)
      BY <1>q, <2>2, <2>3, TruthfulStatusRead
    <2>5. \A n \in Msgs, status \in Receipts : <<n, status>> \in wire' => <<n, status>> \in wire
      BY <2>2, NoReceipt
    <2> QED
      BY <1>2, <1>h, <2>4, <2>5, TicksOfAuthor DEF SendDone, Has
  <1>3. CASE DeletePut(t)
    <2>1. t \in Rows
      BY <1>3, <1>w, WritingKinds DEF DeletePut
    <2> DEFINE r == [t.snap EXCEPT !.deleted = TRUE]
    <2>2. r \in Records /\ r.status = t.snap.status /\ t.msg \in Msgs
      BY <2>1 DEF Rows, Records
    <2>3. IsTrue(t.msg, r.status)
      BY <1>3, <1>w, <2>2 DEF Truthful, DeletePut
    <2>4. \A n \in Msgs : Has(n)' => IsTrue(n, rec'[n].status)
      BY <1>3, <2>2, <2>3, TruePut DEF DeletePut
    <2>5. \A n \in Msgs, status \in Receipts : <<n, status>> \in wire' => <<n, status>> \in wire
      BY <1>3 DEF DeletePut, Receipts
    <2> QED
      BY <1>3, <1>w, <2>4, <2>5, TicksOfAuthor DEF DeletePut, Ends
  <1>4. CASE RetryLock(t)
    <2>1. t \in Retries
      BY <1>4, <1>w, WritingKinds DEF RetryLock
    <2> DEFINE r == [t.snap EXCEPT !.status = "pending"]
               u == [t EXCEPT !.at = "send"]
    <2>2. r \in Records /\ r.status = "pending" /\ t.msg \in Msgs
      BY <2>1, StatusesAre DEF Retries, Records
    <2>3. \A n \in Msgs : Has(n)' => IsTrue(n, rec'[n].status)
      BY <1>4, <1>q, <2>2, TruePut DEF RetryLock
    <2>4. u \in Retries /\ u.msg = t.msg /\ u.snap = t.snap /\ u.op = t.op
      BY <2>1 DEF Retries
    <2>5. u \in Writings /\ Truthful(u)
      BY <1>4, <1>w, <2>4 DEF Retries, Writings, Truthful, RetryLock
    <2>6. \A s \in writing' : Truthful(s)
      BY <1>4, <1>w, <2>5, TruthfulAnd DEF RetryLock, Goes
    <2> QED
      BY <1>4, <2>3, <2>6, TicksOfAuthor DEF RetryLock
  <1>5. CASE RetrySend(t)
    <2>1. t \in Retries
      BY <1>5, <1>w, WritingKinds DEF RetrySend
    <2>2. PICK ok \in BOOLEAN :
            /\ SendMesh(t.msg, t.snap.deleted, ok)
            /\ Goes(t, [t EXCEPT !.at = IF ok THEN "sent" ELSE "kept"])
      BY <1>5 DEF RetrySend
    <2> DEFINE u == [t EXCEPT !.at = IF ok THEN "sent" ELSE "kept"]
    <2>3. u \in Retries /\ u.msg = t.msg /\ u.snap = t.snap /\ u.op = t.op
      BY <2>1 DEF Retries
    <2>4. u \in Writings /\ Truthful(u)
      BY <1>5, <1>w, <2>3 DEF Retries, Writings, Truthful, RetrySend
    <2>5. \A s \in writing' : Truthful(s)
      BY <1>w, <2>2, <2>4, TruthfulAnd DEF Goes
    <2>6. \A n \in Msgs, status \in Receipts : <<n, status>> \in wire' => <<n, status>> \in wire
      BY <2>2, NoReceipt
    <2> QED
      BY <1>5, <1>h, <2>5, <2>6, TicksOfAuthor DEF RetrySend, Has
  <1>6. CASE RetryDone(t)
    <2>1. t \in Retries
      BY <1>6, <1>w, WritingKinds DEF RetryDone
    <2> DEFINE r == [t.snap EXCEPT !.status = IF t.at = "sent" THEN "sent" ELSE "pending"]
    <2>2. r \in Records /\ r.status \in {"sent", "pending"} /\ t.msg \in Msgs
      BY <2>1, StatusesAre DEF Retries, Records
    <2>3. \A n \in Msgs : Has(n)' => IsTrue(n, rec'[n].status)
      BY <1>6, <1>q, <2>2, TruePut DEF RetryDone
    <2> QED
      BY <1>6, <1>w, <2>3, TicksOfAuthor DEF RetryDone, Ends
  <1>7. CASE PumpRow(t)
    <2>1. t \in Rows
      BY <1>7, <1>w, WritingKinds DEF PumpRow
    <2> DEFINE r == [t.snap EXCEPT !.status = "failed"]
    <2>2. r \in Records /\ r.status = "failed" /\ t.msg \in Msgs
      BY <2>1, StatusesAre DEF Rows, Records
    <2>3. CASE Put(t.msg, r) /\ Ends(t) /\ UNCHANGED <<wire, reader>>
      <3>1. \A n \in Msgs : Has(n)' => IsTrue(n, rec'[n].status)
        BY <1>q, <2>2, <2>3, TruePut
      <3> QED
        BY <1>w, <2>3, <3>1, TicksOfAuthor DEF Ends
    <2>4. CASE /\ Goes(t, Entered(t.msg, "pump")) /\ Has(t.msg)
               /\ attempts[t.msg] < RetryMax /\ UNCHANGED <<rec, wire, reader>>
      <3> DEFINE u == Entered(t.msg, "pump")
      <3>1. rec[t.msg] \in Records /\ attempts[t.msg] \in 0..RetryMax
        BY <2>2, <2>4 DEF Has, ChatTypeOK
      <3>2. u \in Writings
        BY <2>2, <3>1 DEF Entered, Writings
      <3>3. Truthful(u)
        BY <1>h, <2>2, <2>4 DEF Entered, Truthful
      <3>4. \A s \in writing' : Truthful(s)
        BY <1>w, <2>4, <3>2, <3>3, TruthfulAnd DEF Goes
      <3> QED
        BY <1>h, <2>4, <3>4, TicksOfAuthor DEF Has
    <2>5. CASE Ends(t) /\ UNCHANGED <<rec, wire, reader>>
      BY <1>w, <1>h, <2>5, TicksOfAuthor DEF Ends, Has
    <2> QED
      BY <1>7, <2>3, <2>4, <2>5 DEF PumpRow
  <1>8. CASE SweepPut(t)
    <2>1. t \in Rows
      BY <1>8, <1>w, WritingKinds DEF SweepPut
    <2> DEFINE r == [t.snap EXCEPT !.status = "failed"]
    <2>2. r \in Records /\ r.status = "failed" /\ t.msg \in Msgs
      BY <2>1, StatusesAre DEF Rows, Records
    <2>3. \A n \in Msgs : Has(n)' => IsTrue(n, rec'[n].status)
      BY <1>8, <1>q, <2>2, TruePut DEF SweepPut
    <2> QED
      BY <1>8, <1>w, <2>3, TicksOfAuthor DEF SweepPut, Ends
  <1> QED
    BY <1>1, <1>2, <1>3, <1>4, <1>5, <1>6, <1>7, <1>8 DEF WriterStep

\* The reader's handlers and the messages they work on.
Sound(t) ==
  /\ t.op = "append" => (t.stored => store[t.msg] # None)
  /\ t.op \in {"read", "delete"} => store[t.msg] # None

LEMMA Read ==
  ASSUME NEW tasks \in SUBSET Readings, NEW more \in SUBSET Readings,
         NEW t \in And(tasks, more)
  PROVE  \/ t \in tasks
         \/ \E u \in more :
              /\ t.op = u.op
              /\ t.op \in {"append", "read", "delete"} => t.msg = u.msg
              /\ t.op = "append" => t.stored = u.stored
  <1>1. ASSUME NEW u \in more, t = [u EXCEPT !.n = 2]
        PROVE  /\ t.op = u.op
               /\ t.op \in {"append", "read", "delete"} => t.msg = u.msg
               /\ t.op = "append" => t.stored = u.stored
    BY <1>1 DEF Readings
  <1> QED
    BY <1>1 DEF And

\* The reader's steps: no message goes, and what is sent is true.
LEMMA TicksOfReader ==
  ASSUME TypeInv, TickInv, UNCHANGED author,
         \A m \in Msgs : store[m] # None => store'[m] # None,
         seen \subseteq seen',
         \A m \in Msgs : m \in seen' \ seen => store'[m] # None,
         \A m \in Msgs, status \in Receipts :
           <<m, status>> \in wire' \ wire => IsTrue(m, status)',
         \A t \in reading' : Sound(t)'
  PROVE  TickInv'
  <1>1. \A m \in Msgs : \A status : IsTrue(m, status) => IsTrue(m, status)'
    BY DEF IsTrue
  <1>2. \A t \in writing : t.msg \in Msgs
    BY DEF TypeInv, ChatTypeOK, Writings
  <1>3. \A t \in writing' : Truthful(t)'
    BY <1>1, <1>2 DEF Truthful, TickInv, author
  <1>4. \A m \in Msgs : Has(m)' => IsTrue(m, rec[m].status)'
    BY <1>1 DEF TickInv, author, Has
  <1>5. \A m \in Msgs, status \in Receipts : <<m, status>> \in wire' => IsTrue(m, status)'
    BY <1>1 DEF TickInv
  <1>6. \A m \in Msgs : m \in seen' => store'[m] # None
    BY DEF TickInv
  <1> QED
    BY <1>3, <1>4, <1>5, <1>6 DEF TickInv, Sound, author

LEMMA TicksOfReaders ==
  ASSUME TypeInv, TickInv, ReaderNext
  PROVE  TickInv'
  <1> USE DEF TypeInv
  <1>a. UNCHANGED author
    BY DEF ReaderNext, ReaderStep, onText, onDelete, markRead, Reply, AppendStore,
       AppendCount, DeleteKeep, MarkStep, ReadKeep, ReplyPut
  <1>r. reading \in SUBSET Readings /\ \A t \in reading : Sound(t)
    BY DEF ChatTypeOK, TickInv, Sound
  <1>s. \A m \in Msgs : store[m] # None => store[m] \in Records
    BY DEF ChatTypeOK
  <1>f. \A r \in Records : r # None
    BY StatusesAre DEF Records, None
  <1>1. CASE \E m \in Msgs : onText(m)
    <2>1. PICK m \in Msgs : onText(m)
      BY <1>1
    <2> DEFINE u == [op |-> "append", n |-> 1, msg |-> m, snap |-> None,
                     count |-> unread, stored |-> FALSE]
    <2>2. u \in Readings
      BY DEF Readings, ChatTypeOK
    <2>3. reading' = And(reading, {u}) /\ UNCHANGED <<store, seen, wire>>
      BY <2>1 DEF onText, Begins
    <2>4. \A t \in reading' : Sound(t)'
      <3>1. u.op = "append" /\ ~u.stored
        OBVIOUS
      <3> HIDE DEF u
      <3>2. {u} \in SUBSET Readings
        BY <2>2
      <3>3. \A t \in reading' : t \in reading \/ (t.op = "append" /\ t.stored = u.stored)
        BY <1>r, <2>3, <3>1, <3>2, Read
      <3> QED
        BY <1>r, <2>3, <3>1, <3>3 DEF Sound
    <2> QED
      BY <1>a, <2>3, <2>4, TicksOfReader
  <1>2. CASE \E m \in Msgs : onDelete(m)
    <2>1. PICK m \in Msgs : onDelete(m)
      BY <1>2
    <2> DEFINE u == [op |-> "delete", n |-> 1, msg |-> m, snap |-> store[m]]
    <2>2. u \in Readings
      BY <1>s, <2>1 DEF Readings, onDelete
    <2>3. reading' = And(reading, {u}) /\ UNCHANGED <<store, seen, wire>> /\ store[m] # None
      BY <2>1 DEF onDelete, Begins
    <2>4. \A t \in reading' : Sound(t)'
      BY <1>r, <2>2, <2>3, Read DEF Sound
    <2> QED
      BY <1>a, <2>3, <2>4, TicksOfReader
  <1>3. CASE markRead
    <2> DEFINE u == [op |-> "mark", n |-> 1, at |-> IF unread # 0 THEN "reset" ELSE "list"]
    <2>1. u \in Readings
      BY DEF Readings
    <2>2. reading' = And(reading, {u}) /\ UNCHANGED <<store, seen, wire>>
      BY <1>3 DEF markRead, Begins
    <2>3. \A t \in reading' : Sound(t)'
      BY <1>r, <2>1, <2>2, Read DEF Sound
    <2> QED
      BY <1>a, <2>2, <2>3, TicksOfReader
  <1>4. CASE Reply
    <2> DEFINE u == [op |-> "reply", n |-> 1, count |-> unread]
    <2>1. u \in Readings
      BY DEF Readings, ChatTypeOK
    <2>2. reading' = And(reading, {u}) /\ UNCHANGED <<store, seen, wire>>
      BY <1>4 DEF Reply, Begins
    <2>3. \A t \in reading' : Sound(t)'
      BY <1>r, <2>1, <2>2, Read DEF Sound
    <2> QED
      BY <1>a, <2>2, <2>3, TicksOfReader
  <1>5. ASSUME NEW t \in reading, ReaderStep(t) PROVE TickInv'
    <2>t. /\ t \in Readings /\ reading \ {t} \in SUBSET Readings
          /\ \A s \in reading \ {t} : Sound(s)
          /\ Sound(t)
      BY <1>r
    <2>k. ASSUME NEW us \in SUBSET Readings, Turns(t, us),
                 \A m \in Msgs : store[m] # None => store'[m] # None,
                 \A u \in us : Sound(u)'
          PROVE  \A s \in reading' : Sound(s)'
      <3>1. reading' = And(reading \ {t}, us)
        BY <2>k DEF Turns
      <3>2. \A s \in reading \ {t} : s.op \in {"append", "read", "delete"} => s.msg \in Msgs
        BY <2>t DEF Readings
      <3>3. \A s \in reading \ {t} : Sound(s)'
        BY <2>t, <2>k, <3>2 DEF Sound
      <3>4. ASSUME NEW s \in reading' PROVE Sound(s)'
        <4>1. CASE s \in reading \ {t}
          BY <3>3, <4>1
        <4>2. CASE \E u \in us :
                     /\ s.op = u.op
                     /\ s.op \in {"append", "read", "delete"} => s.msg = u.msg
                     /\ s.op = "append" => s.stored = u.stored
          BY <2>k, <4>2 DEF Sound
        <4> QED
          BY <2>t, <2>k, <3>1, <4>1, <4>2, Read
      <3> QED
        BY <3>4
    <2>1. CASE AppendStore(t)
      <3>1. t \in Appends
        BY <2>1, <2>t, ReadingKinds DEF AppendStore
      <3> DEFINE u == [t EXCEPT !.stored = TRUE]
      <3>2. u \in Readings /\ t.msg \in Msgs /\ u.msg = t.msg /\ u.op = "append"
        BY <3>1 DEF Appends, Readings
      <3>3. [status |-> "delivered", deleted |-> FALSE] # None
        BY DEF None
      <3>4. /\ \A m \in Msgs : store[m] # None => store'[m] # None
            /\ store'[t.msg] # None
        BY <2>1, <3>2, <3>3 DEF AppendStore, Keep, ChatTypeOK
      <3>5. \A s \in reading' : Sound(s)'
        <4>1. PICK v : v = [t EXCEPT !.stored = TRUE]
          OBVIOUS
        <4>2. v \in Readings /\ v.msg = t.msg /\ v.op = "append"
          BY <3>2, <4>1
        <4>3. Sound(v)'
          BY <3>4, <4>2 DEF Sound
        <4>4. Turns(t, {v})
          BY <2>1, <4>1 DEF AppendStore
        <4>5. {v} \in SUBSET Readings /\ \A x \in {v} : Sound(x)'
          BY <4>2, <4>3 DEF Sound
        <4> QED
          BY <2>k, <3>4, <4>4, <4>5
      <3> QED
        BY <1>a, <2>1, <3>4, <3>5, TicksOfReader DEF AppendStore
    <2>2. CASE AppendCount(t)
      <3>1. t \in Appends
        BY <2>2, <2>t, ReadingKinds DEF AppendCount
      <3>2. \A s \in reading' : Sound(s)'
        BY <2>2, <2>k DEF AppendCount
      <3>3. store[t.msg] # None
        BY <2>2, <2>t, <3>1 DEF AppendCount, Sound
      <3>4. \A m \in Msgs, status \in Receipts :
              <<m, status>> \in wire' \ wire => IsTrue(m, status)'
        BY <2>2, <3>3 DEF AppendCount, IsTrue
      <3> QED
        BY <1>a, <2>2, <3>2, <3>4, TicksOfReader DEF AppendCount
    <2>3. CASE DeleteKeep(t)
      <3>1. t \in Copies
        BY <2>3, <2>t, ReadingKinds DEF DeleteKeep
      <3>2. [t.snap EXCEPT !.deleted = TRUE] \in Records /\ t.msg \in Msgs
        BY <3>1 DEF Copies, Records
      <3>3. \A m \in Msgs : store[m] # None => store'[m] # None
        BY <2>3, <3>2, <1>f DEF DeleteKeep, Keep, ChatTypeOK
      <3>4. \A s \in reading' : Sound(s)'
        BY <2>3, <2>k, <3>3 DEF DeleteKeep
      <3> QED
        BY <1>a, <2>3, <3>3, <3>4, TicksOfReader DEF DeleteKeep
    <2>4. CASE MarkStep(t)
      <3>1. t \in Marks
        BY <2>4, <2>t, ReadingKinds DEF MarkStep
      <3>2. [t EXCEPT !.at = "list"] \in Readings /\ [t EXCEPT !.at = "list"].op = "mark"
        BY <3>1 DEF Marks, Readings
      <3>3. ToRead \in SUBSET Readings
        BY <1>s DEF ToRead, Unread, Readings
      <3>4. \A u \in ToRead : Sound(u)'
        BY <2>4 DEF ToRead, Unread, Sound, MarkStep
      <3>5. \A s \in reading' : Sound(s)'
        <4>0. \A m \in Msgs : store[m] # None => store'[m] # None
          BY <2>4 DEF MarkStep
        <4>1. CASE t.at = "reset"
          <5>1. PICK v : v = [t EXCEPT !.at = "list"]
            OBVIOUS
          <5>2. {v} \in SUBSET Readings /\ Turns(t, {v}) /\ \A x \in {v} : Sound(x)'
            BY <2>4, <3>2, <4>1, <5>1 DEF MarkStep, Sound
          <5> QED
            BY <2>k, <4>0, <5>2
        <4>2. CASE t.at # "reset"
          <5>1. Turns(t, ToRead)
            BY <2>4, <4>2 DEF MarkStep
          <5> QED
            BY <2>k, <3>3, <3>4, <4>0, <5>1
        <4> QED
          BY <4>1, <4>2
      <3> QED
        BY <1>a, <2>4, <3>5, TicksOfReader DEF MarkStep
    <2>5. CASE ReadKeep(t)
      <3>1. t \in Copies
        BY <2>5, <2>t, ReadingKinds DEF ReadKeep
      <3>2. [t.snap EXCEPT !.status = "read"] \in Records /\ t.msg \in Msgs
        BY <3>1, StatusesAre DEF Copies, Records
      <3>3. /\ \A m \in Msgs : store[m] # None => store'[m] # None
            /\ store'[t.msg] # None
        BY <2>5, <3>2, <1>f DEF ReadKeep, Keep, ChatTypeOK
      <3>4. \A s \in reading' : Sound(s)'
        BY <2>5, <2>k, <3>3 DEF ReadKeep
      <3>5. \A m \in Msgs, status \in Receipts :
              <<m, status>> \in wire' \ wire => IsTrue(m, status)'
        BY <2>5, <3>3 DEF ReadKeep, IsTrue
      <3> QED
        BY <1>a, <2>5, <3>3, <3>4, <3>5, TicksOfReader DEF ReadKeep
    <2>6. CASE ReplyPut(t)
      <3>1. \A s \in reading' : Sound(s)'
        BY <2>6, <2>k DEF ReplyPut
      <3> QED
        BY <1>a, <2>6, <3>1, TicksOfReader DEF ReplyPut
    <2> QED
      BY <1>5, <2>1, <2>2, <2>3, <2>4, <2>5, <2>6 DEF ReaderStep
  <1> QED
    BY <1>1, <1>2, <1>3, <1>4, <1>5 DEF ReaderNext

LEMMA TickInvNext == TypeInv /\ TickInv /\ [ChatNext]_chatVars => TickInv'
  <1> SUFFICES ASSUME TypeInv, TickInv, [ChatNext]_chatVars PROVE TickInv'
    OBVIOUS
  <1>1. CASE AuthorNext
    BY <1>1, TicksOfStarts, TicksOfWriters DEF AuthorNext
  <1>2. CASE ReaderNext
    BY <1>2, TicksOfReaders
  <1>3. CASE UNCHANGED chatVars
    BY <1>3 DEF chatVars, author, reader, TickInv, IsTrue, Truthful, Has
  <1> QED
    BY <1>1, <1>2, <1>3 DEF ChatNext

\* Ticks are true, for any messages, handlers under way, losses and repeats:
\* the receipts that travel, the records and the copies of them that handlers
\* keep never say more than the reader's device has done.
THEOREM TicksTrue == ChatSpec => []TicksAreTrue
  <1>1. ChatInit => TickInv
    BY DEF ChatInit, TickInv, Has
  <1>2. TickInv => TicksAreTrue
    BY DEF TickInv, TicksAreTrue, IsTrue, Receipts
  <1> QED
    BY <1>1, <1>2, TypeInvInit, TypeInvNext, TickInvNext, PTL DEF ChatSpec

-----------------------------------------------------------------------------
(***************************************************************************)
(* The lock of retries.                                                    *)
(***************************************************************************)
Holds(t, m) == t.op = "retry" /\ t.msg = m /\ t.at # "in"

\* A handler that holds the lock stays while others come.
LEMMA AndKeeps ==
  ASSUME NEW tasks, NEW more
  PROVE  tasks \subseteq And(tasks, more)
  BY DEF And

LEMMA AndHolds ==
  ASSUME NEW tasks, NEW u \in Retries, NEW m, Holds(u, m)
  PROVE  \E t \in And(tasks, {u}) : Holds(t, m)
  <1>1. Holds([u EXCEPT !.n = 2], m)
    BY DEF Holds, Retries
  <1> QED
    BY <1>1 DEF And

LEMMA LockNext == TypeInv /\ LockIsReleased /\ [ChatNext]_chatVars => LockIsReleased'
  <1> SUFFICES ASSUME TypeInv, LockIsReleased, [ChatNext]_chatVars,
                      NEW m \in lock'
               PROVE  \E t \in writing' : Holds(t, m)
    BY DEF LockIsReleased, Holds
  <1>w. writing \in SUBSET Writings
    BY DEF TypeInv, ChatTypeOK
  <1>h. m \in lock => \E t \in writing : Holds(t, m)
    BY DEF LockIsReleased, Holds
  <1>1. CASE lock' \subseteq lock /\ writing \subseteq writing'
    BY <1>1, <1>h
  <1>2. ASSUME NEW t \in writing, t.op # "retry", lock' = lock, writing \ {t} \subseteq writing'
        PROVE  \E s \in writing' : Holds(s, m)
    BY <1>2, <1>h DEF Holds
  <1>3. ASSUME NEW n \in Msgs,
               \/ SendText(n) \/ OutboxSent(n) \/ deleteMessage(n) \/ RetryTap(n)
               \/ PumpRead(n) \/ SweepRead(n) \/ \E status \in Receipts : onReceipt(n, status)
        PROVE  lock' = lock /\ writing \subseteq writing'
    <2>1. lock' = lock
      BY <1>3 DEF SendText, OutboxSent, deleteMessage, RetryTap, PumpRead, SweepRead, onReceipt
    <2>2. ASSUME NEW u, Start(u) PROVE writing \subseteq writing'
      BY <2>2, AndKeeps DEF Start
    <2>3. ASSUME NEW status, StatusRead(n, status, writing) PROVE writing \subseteq writing'
      BY <2>3, AndKeeps DEF StatusRead
    <2>4. CASE SendText(n) \/ deleteMessage(n) \/ RetryTap(n) \/ PumpRead(n) \/ SweepRead(n)
      BY <2>1, <2>2, <2>4 DEF SendText, deleteMessage, RetryTap, PumpRead, SweepRead
    <2>5. CASE OutboxSent(n) \/ \E status \in Receipts : onReceipt(n, status)
      BY <2>1, <2>3, <2>5 DEF OutboxSent, onReceipt
    <2> QED
      BY <1>3, <2>4, <2>5
  <1>4. ASSUME NEW t \in writing,
               StatusPut(t) \/ SendDone(t) \/ DeletePut(t) \/ PumpRow(t) \/ SweepPut(t)
        PROVE  \E s \in writing' : Holds(s, m)
    <2>1. t.op # "retry" /\ lock' = lock
      BY <1>4 DEF StatusPut, SendDone, DeletePut, PumpRow, SweepPut
    <2>a. Ends(t) => writing \ {t} \subseteq writing'
      BY DEF Ends
    <2>b. ASSUME NEW u, Goes(t, u) PROVE writing \ {t} \subseteq writing'
      BY <2>b, AndKeeps DEF Goes
    <2>c. ASSUME NEW status, StatusRead(t.msg, status, writing \ {t})
          PROVE  writing \ {t} \subseteq writing'
      BY <2>c, AndKeeps DEF StatusRead
    <2>2. writing \ {t} \subseteq writing'
      <3>1. CASE StatusPut(t) \/ DeletePut(t) \/ SweepPut(t)
        BY <2>a, <3>1 DEF StatusPut, DeletePut, SweepPut
      <3>2. CASE PumpRow(t)
        BY <2>a, <2>b, <3>2 DEF PumpRow
      <3>3. CASE SendDone(t)
        BY <2>c, <3>3 DEF SendDone
      <3> QED
        BY <1>4, <3>1, <3>2, <3>3
    <2> QED
      BY <1>2, <2>1, <2>2
  <1>5. ASSUME NEW t \in writing, RetryLock(t) \/ RetrySend(t)
        PROVE  \E s \in writing' : Holds(s, m)
    <2>1. t \in Retries
      BY <1>5, <1>w, WritingKinds DEF RetryLock, RetrySend
    <2>2. PICK u \in Retries : Goes(t, u) /\ Holds(u, t.msg)
      <3>1. ASSUME NEW at \in {"send", "sent", "kept"}
            PROVE  [t EXCEPT !.at = at] \in Retries /\ Holds([t EXCEPT !.at = at], t.msg)
        BY <2>1 DEF Retries, Holds
      <3> QED
        BY <1>5, <3>1 DEF RetryLock, RetrySend
    <2>3. lock' \subseteq lock \cup {t.msg}
      BY <1>5 DEF RetryLock, RetrySend
    <2>4. writing' = And(writing \ {t}, {u})
      BY <2>2 DEF Goes
    <2>5. CASE m = t.msg
      BY <2>2, <2>4, <2>5, AndHolds
    <2>6. CASE m # t.msg
      BY <1>h, <2>3, <2>4, <2>6, AndKeeps DEF Holds
    <2> QED
      BY <2>5, <2>6
  <1>6. ASSUME NEW t \in writing, RetryDone(t)
        PROVE  \E s \in writing' : Holds(s, m)
    BY <1>6, <1>h DEF RetryDone, Ends, Holds
  <1>7. CASE AuthorNext
    BY <1>1, <1>3, <1>4, <1>5, <1>6, <1>7 DEF AuthorNext, WriterStep
  <1>8. CASE ReaderNext \/ UNCHANGED chatVars
    <2>1. lock' = lock /\ writing' = writing
      BY <1>8 DEF ReaderNext, ReaderStep, onText, onDelete, markRead, Reply, AppendStore,
         AppendCount, DeleteKeep, MarkStep, ReadKeep, ReplyPut, author, chatVars
    <2> QED
      BY <1>h, <2>1
  <1> QED
    BY <1>7, <1>8 DEF ChatNext

\* No message is barred from retries for good: retryInFlight holds it only
\* while a retry is under way, also when two have passed its test together.
THEOREM LockGivenBack == ChatSpec => []LockIsReleased
  <1>1. ChatInit => LockIsReleased
    BY DEF ChatInit, LockIsReleased
  <1> QED
    BY <1>1, TypeInvInit, TypeInvNext, LockNext, PTL DEF ChatSpec

-----------------------------------------------------------------------------
(***************************************************************************)
(* The badge.                                                              *)
(***************************************************************************)
Covers(t, m) ==
  \/ t.op \in {"append", "read"} /\ t.msg = m
  \/ t.op = "mark"

LEMMA CoverAnd ==
  ASSUME NEW tasks, NEW more \in SUBSET Readings, NEW u \in more, NEW m, Covers(u, m)
  PROVE  \E t \in And(tasks, more) : Covers(t, m)
  <1>1. Covers([u EXCEPT !.n = 2], m)
    BY DEF Covers, Readings
  <1> QED
    BY <1>1 DEF And

LEMMA BadgeNext ==
  TypeInv /\ BadgeCoversUnread /\ [ChatNext]_chatVars => BadgeCoversUnread'
  <1> SUFFICES ASSUME TypeInv, BadgeCoversUnread, [ChatNext]_chatVars,
                      unread' = 0, ~lostCount', NEW m \in Msgs, Unread(m)', ~store'[m].deleted
               PROVE  \E t \in reading' : Covers(t, m)
    BY DEF BadgeCoversUnread, Covers
  <1>r. reading \in SUBSET Readings /\ unread \in 0..MaxUnread
    BY DEF TypeInv, ChatTypeOK
  <1>h. (unread = 0 /\ ~lostCount /\ Unread(m) /\ ~store[m].deleted)
          => \E t \in reading : Covers(t, m)
    BY DEF BadgeCoversUnread, Covers
  <1>1. CASE UNCHANGED <<store, unread, lostCount>> /\ reading \subseteq reading'
    BY <1>1, <1>h DEF Unread
  <1>2. CASE \E n \in Msgs : onText(n) \/ onDelete(n)
    BY <1>1, <1>2, AndKeeps DEF onText, onDelete, Begins
  <1>3. CASE markRead \/ Reply
    BY <1>1, <1>3, AndKeeps DEF markRead, Reply, Begins
  <1>4. ASSUME NEW t \in reading, ReaderStep(t) PROVE \E s \in reading' : Covers(s, m)
    <2>t. t \in Readings
      BY <1>r
    <2>o. ASSUME NEW us, Turns(t, us), UNCHANGED <<unread, lostCount>>, ~Covers(t, m),
                 store'[m] = store[m]
          PROVE  \E s \in reading' : Covers(s, m)
      BY <1>h, <2>o, AndKeeps DEF Turns, Unread
    <2>1. CASE AppendStore(t)
      <3>1. t \in Appends
        BY <2>1, <2>t, ReadingKinds DEF AppendStore
      <3>2. PICK v : v = [t EXCEPT !.stored = TRUE]
        OBVIOUS
      <3>3. v \in Readings /\ v.msg = t.msg /\ v.op = "append"
        BY <3>1, <3>2 DEF Appends, Readings
      <3>4. reading' = And(reading \ {t}, {v})
        BY <2>1, <3>2 DEF AppendStore, Turns
      <3>5. CASE t.msg = m
        BY <3>3, <3>4, <3>5, CoverAnd DEF Covers
      <3>6. CASE t.msg # m
        <4>1. store'[m] = store[m] /\ ~Covers(t, m)
          BY <2>1, <3>6 DEF AppendStore, Keep, TypeInv, ChatTypeOK, Covers
        <4> QED
          BY <2>1, <2>o, <4>1 DEF AppendStore
      <3> QED
        BY <3>5, <3>6
    <2>2. CASE AppendCount(t)
      <3>1. t \in Appends
        BY <2>2, <2>t, ReadingKinds DEF AppendCount
      <3>2. unread' # 0
        BY <2>2, <3>1, ChatAssumption DEF AppendCount, Counted, Appends
      <3> QED
        BY <3>2
    <2>3. CASE DeleteKeep(t)
      <3>1. t \in Copies /\ t.op = "delete"
        BY <2>3, <2>t, ReadingKinds DEF DeleteKeep
      <3>2. m # t.msg
        BY <2>3, <3>1 DEF DeleteKeep, Keep, TypeInv, ChatTypeOK, Copies, Records
      <3>3. store'[m] = store[m] /\ ~Covers(t, m)
        BY <2>3, <3>1, <3>2 DEF DeleteKeep, Keep, TypeInv, ChatTypeOK, Covers
      <3> QED
        BY <2>3, <2>o, <3>3 DEF DeleteKeep
    <2>4. CASE MarkStep(t)
      <3>1. t \in Marks
        BY <2>4, <2>t, ReadingKinds DEF MarkStep
      <3>2. CASE t.at = "reset"
        <4>1. PICK v : v = [t EXCEPT !.at = "list"]
          OBVIOUS
        <4>2. v \in Readings /\ v.op = "mark"
          BY <3>1, <4>1 DEF Marks, Readings
        <4>3. reading' = And(reading \ {t}, {v})
          BY <2>4, <3>2, <4>1 DEF MarkStep, Turns
        <4> QED
          BY <4>2, <4>3, CoverAnd DEF Covers
      <3>3. CASE t.at # "reset"
        <4>1. reading' = And(reading \ {t}, ToRead) /\ store' = store
          BY <2>4, <3>3 DEF MarkStep, Turns
        <4>2. ToRead \in SUBSET Readings
          BY DEF ToRead, Unread, Readings, TypeInv, ChatTypeOK
        <4>3. \E u \in ToRead : Covers(u, m)
          <5> DEFINE u == [op |-> "read", n |-> 1, msg |-> m, snap |-> store[m]]
          <5>1. Unread(m)
            BY <4>1 DEF Unread
          <5>2. u \in ToRead
            BY <5>1 DEF ToRead
          <5>3. Covers(u, m)
            BY DEF Covers
          <5> QED
            BY <5>2, <5>3
        <4> QED
          BY <4>1, <4>2, <4>3, CoverAnd
      <3> QED
        BY <3>2, <3>3
    <2>5. CASE ReadKeep(t)
      <3>1. t \in Copies /\ t.op = "read"
        BY <2>5, <2>t, ReadingKinds DEF ReadKeep
      <3>2. m # t.msg
        BY <2>5, <3>1 DEF ReadKeep, Keep, TypeInv, ChatTypeOK, Copies, Records, Unread
      <3>3. store'[m] = store[m] /\ ~Covers(t, m)
        BY <2>5, <3>1, <3>2 DEF ReadKeep, Keep, TypeInv, ChatTypeOK, Covers
      <3> QED
        BY <2>5, <2>o, <3>3 DEF ReadKeep
    <2>6. CASE ReplyPut(t)
      <3>1. t \in Replies /\ t.op = "reply"
        BY <2>6, <2>t, ReadingKinds DEF ReplyPut
      <3>2. unread = 0 /\ ~lostCount /\ store' = store /\ ~Covers(t, m)
        <4>1. t.count = 0 /\ store' = store
          BY <2>6 DEF ReplyPut
        <4>2. lostCount' = (lostCount \/ 0 < unread)
          BY <2>6, <4>1 DEF ReplyPut
        <4>3. ~lostCount /\ ~(0 < unread)
          BY <4>2
        <4>4. unread = 0
          BY <4>3, <1>r, ChatAssumption
        <4>5. ~Covers(t, m)
          BY <3>1 DEF Covers
        <4> QED
          BY <4>1, <4>3, <4>4, <4>5
      <3>3. reading \ {t} \subseteq reading'
        BY <2>6, AndKeeps DEF ReplyPut, Turns
      <3> QED
        BY <1>h, <3>2, <3>3 DEF Unread
    <2> QED
      BY <1>4, <2>1, <2>2, <2>3, <2>4, <2>5, <2>6 DEF ReaderStep
  <1>5. CASE AuthorNext
    BY <1>1, <1>5 DEF AuthorNext, WriterStep, SendText, OutboxSent, deleteMessage, RetryTap,
       PumpRead, SweepRead, onReceipt, StatusPut, SendDone, DeletePut, RetryLock, RetrySend,
       RetryDone, PumpRow, SweepPut, reader
  <1>6. CASE UNCHANGED chatVars
    BY <1>1, <1>6 DEF chatVars, reader
  <1>7. CASE ReaderNext
    BY <1>2, <1>3, <1>4, <1>7 DEF ReaderNext
  <1> QED
    BY <1>5, <1>6, <1>7 DEF ChatNext

\* An unread message shows in the badge, however texts, repeats, deletions and
\* calls of markRead interleave, unless an old count has been put back.
THEOREM BadgeCovers == ChatSpec => []BadgeCoversUnread
  <1>1. ChatInit => BadgeCoversUnread
    BY DEF ChatInit, BadgeCoversUnread, Unread
  <1> QED
    BY <1>1, TypeInvInit, TypeInvNext, BadgeNext, PTL DEF ChatSpec

-----------------------------------------------------------------------------
(***************************************************************************)
(* Records move on.                                                        *)
(***************************************************************************)
\* What a handler has tested holds of the record it keeps.
Tested(t) ==
  /\ t.op = "set" => Ranked(t.snap, t.to)
  /\ t.op \in {"pump", "sweep"} => t.snap.status = "pending"

MoveInv == \A t \in writing : Tested(t)

LEMMA TestedAnd ==
  ASSUME NEW tasks \in SUBSET Writings, NEW u \in Writings,
         \A t \in tasks : Tested(t), Tested(u)
  PROVE  \A t \in And(tasks, {u}) : Tested(t)
  BY Written DEF Tested

LEMMA MoveInvNext == TypeInv /\ MoveInv /\ [ChatNext]_chatVars => MoveInv'
  <1> SUFFICES ASSUME TypeInv, MoveInv, [ChatNext]_chatVars
               PROVE  \A s \in writing' : Tested(s)
    BY DEF MoveInv, Tested
  <1> USE DEF TypeInv
  <1>w. writing \in SUBSET Writings /\ \A t \in writing : Tested(t)
    BY DEF ChatTypeOK, MoveInv
  <1>r. \A m \in Msgs : Has(m) => rec[m] \in Records
    BY DEF Has, ChatTypeOK
  <1>g. ASSUME NEW rest \in SUBSET writing, NEW u \in Writings, Tested(u),
               writing' = And(rest, {u})
        PROVE  \A s \in writing' : Tested(s)
    BY <1>w, <1>g, TestedAnd
  <1>s. ASSUME NEW rest \in SUBSET writing, NEW m \in Msgs, NEW status \in Statuses,
               StatusRead(m, status, rest)
        PROVE  \A s \in writing' : Tested(s)
    <2>1. CASE Has(m) /\ Ranked(rec[m], status)
      <3> DEFINE u == [op |-> "set", n |-> 1, msg |-> m, snap |-> rec[m], to |-> status]
      <3>1. u \in Writings /\ Tested(u)
        BY <1>r, <2>1 DEF Writings, Tested
      <3>2. writing' = And(rest, {u})
        BY <1>s, <2>1 DEF StatusRead
      <3> QED
        BY <1>w, <3>1, <3>2, TestedAnd
    <2>2. CASE ~(Has(m) /\ Ranked(rec[m], status))
      BY <1>w, <1>s, <2>2 DEF StatusRead
    <2> QED
      BY <2>1, <2>2
  <1>1. ASSUME NEW m \in Msgs, SendText(m) PROVE \A s \in writing' : Tested(s)
    <2> DEFINE u == [op |-> "send", n |-> 1, msg |-> m, snap |-> None]
    <2>1. u \in Writings /\ Tested(u) /\ writing' = And(writing, {u})
      BY <1>1 DEF SendText, Start, Writings, Tested
    <2> QED
      BY <1>w, <2>1, TestedAnd
  <1>2. ASSUME NEW m \in Msgs, NEW op \in {"delete", "pump", "sweep"}, Has(m),
               op # "delete" => rec[m].status = "pending",
               Start([op |-> op, n |-> 1, msg |-> m, snap |-> rec[m]])
        PROVE  \A s \in writing' : Tested(s)
    <2> DEFINE u == [op |-> op, n |-> 1, msg |-> m, snap |-> rec[m]]
    <2>1. u \in Writings /\ Tested(u) /\ writing' = And(writing, {u})
      BY <1>r, <1>2 DEF Start, Writings, Tested
    <2> QED
      BY <1>w, <2>1, TestedAnd
  <1>3. ASSUME NEW m \in Msgs, deleteMessage(m) \/ PumpRead(m) \/ SweepRead(m)
        PROVE  \A s \in writing' : Tested(s)
    BY <1>2, <1>3 DEF deleteMessage, PumpRead, SweepRead
  <1>4. ASSUME NEW m \in Msgs, RetryTap(m) PROVE \A s \in writing' : Tested(s)
    <2>1. Entered(m, "user") \in Writings /\ Tested(Entered(m, "user"))
      BY <1>r, <1>4, ChatAssumption DEF RetryTap, Entered, Writings, Tested
    <2> QED
      BY <1>4, <1>w, <2>1, TestedAnd DEF RetryTap, Start
  <1>5. ASSUME NEW m \in Msgs, OutboxSent(m) \/ \E status \in Receipts : onReceipt(m, status)
        PROVE  \A s \in writing' : Tested(s)
    BY <1>5, <1>s, StatusesAre DEF OutboxSent, onReceipt, Receipts
  <1>6. ASSUME NEW t \in writing,
               StatusPut(t) \/ DeletePut(t) \/ RetryDone(t) \/ SweepPut(t)
        PROVE  \A s \in writing' : Tested(s)
    BY <1>6, <1>w DEF StatusPut, DeletePut, RetryDone, SweepPut, Ends
  <1>7. ASSUME NEW t \in writing, SendDone(t) PROVE \A s \in writing' : Tested(s)
    <2>1. t \in Sends
      BY <1>7, <1>w, WritingKinds DEF SendDone
    <2>2. PICK ok \in BOOLEAN :
            StatusRead(t.msg, IF ok THEN "sent" ELSE "pending", writing \ {t})
      BY <1>7 DEF SendDone
    <2>3. t.msg \in Msgs /\ (IF ok THEN "sent" ELSE "pending") \in Statuses
      BY <2>1, StatusesAre DEF Sends
    <2> QED
      BY <1>s, <2>2, <2>3
  <1>8. ASSUME NEW t \in writing, RetryLock(t) \/ RetrySend(t)
        PROVE  \A s \in writing' : Tested(s)
    <2>1. t \in Retries
      BY <1>8, <1>w, WritingKinds DEF RetryLock, RetrySend
    <2>2. PICK u \in Retries : Goes(t, u)
      <3>1. ASSUME NEW at \in {"send", "sent", "kept"}
            PROVE  [t EXCEPT !.at = at] \in Retries
        BY <2>1 DEF Retries
      <3> QED
        BY <1>8, <3>1 DEF RetryLock, RetrySend
    <2>3. u \in Writings /\ Tested(u)
      BY DEF Retries, Writings, Tested
    <2>4. writing' = And(writing \ {t}, {u})
      BY <2>2 DEF Goes
    <2> QED
      BY <1>g, <2>3, <2>4
  <1>9. ASSUME NEW t \in writing, PumpRow(t) PROVE \A s \in writing' : Tested(s)
    <2>1. t \in Rows
      BY <1>9, <1>w, WritingKinds DEF PumpRow
    <2>2. CASE Ends(t)
      BY <1>w, <2>2 DEF Ends
    <2>3. CASE Goes(t, Entered(t.msg, "pump")) /\ Has(t.msg)
      <3>1. PICK u : u = Entered(t.msg, "pump")
        OBVIOUS
      <3>2. rec[t.msg] \in Records /\ attempts[t.msg] \in 0..RetryMax /\ t.msg \in Msgs
        BY <1>r, <2>1, <2>3 DEF Rows, ChatTypeOK
      <3>3. u \in Writings /\ Tested(u)
        BY <3>1, <3>2 DEF Entered, Writings, Tested
      <3>4. writing' = And(writing \ {t}, {u})
        BY <2>3, <3>1 DEF Goes
      <3> QED
        BY <1>g, <3>3, <3>4
    <2> QED
      BY <1>9, <2>2, <2>3 DEF PumpRow
  <1>10. CASE ReaderNext \/ UNCHANGED chatVars
    <2>1. writing' = writing
      BY <1>10 DEF ReaderNext, ReaderStep, onText, onDelete, markRead, Reply, AppendStore,
         AppendCount, DeleteKeep, MarkStep, ReadKeep, ReplyPut, author, chatVars
    <2> QED
      BY <1>w, <2>1
  <1>11. CASE AuthorNext
    BY <1>1, <1>3, <1>4, <1>5, <1>6, <1>7, <1>8, <1>9, <1>11 DEF AuthorNext, WriterStep
  <1> QED
    BY <1>10, <1>11 DEF ChatNext

\* A record that is written back unchanged but for one field.
LEMMA ForwardSelf == ASSUME NEW r \in Records PROVE Forward(r, r)
  BY DEF Forward, Records, Statuses, rank

LEMMA ForwardRanked ==
  ASSUME NEW r \in Records, NEW status \in Statuses, Ranked(r, status)
  PROVE  Forward(r, [r EXCEPT !.status = status])
  BY DEF Forward, Ranked, Records, Statuses, rank

LEMMA ForwardDeleted ==
  ASSUME NEW r \in Records PROVE Forward(r, [r EXCEPT !.deleted = TRUE])
  BY DEF Forward, Records, Statuses, rank

LEMMA ForwardRead ==
  ASSUME NEW r \in Records PROVE Forward(r, [r EXCEPT !.status = "read"])
  BY DEF Forward, Records, Statuses, rank

AuthorMoves(m) ==
  (Has(m) /\ ~Forward(rec[m], rec'[m])) =>
     \/ Stale(rec[m], writing \ writing', m)
     \/ \E t \in writing \ writing' : t.op = "retry" /\ t.msg = m

ReaderMoves(m) ==
  (store[m] # None /\ ~Forward(store[m], store'[m])) =>
     Stale(store[m], reading \ reading', m)

LEMMA AuthorMovesOn ==
  ASSUME TypeInv, MoveInv, [ChatNext]_chatVars, NEW m \in Msgs
  PROVE  AuthorMoves(m)
  <1> USE DEF TypeInv
  <1>w. writing \in SUBSET Writings /\ \A t \in writing : Tested(t)
    BY DEF ChatTypeOK, MoveInv
  <1>r. Has(m) => rec[m] \in Records
    BY DEF Has, ChatTypeOK
  <1>0. CASE rec'[m] = rec[m]
    BY <1>0, <1>r, ForwardSelf DEF AuthorMoves
  <1>p. ASSUME NEW t \in writing, NEW r, Put(t.msg, r), Ends(t), t.msg \in Msgs,
               t.op \in {"set", "delete", "pump", "sweep"},
               t.snap \in Records => Forward(t.snap, r)
        PROVE  AuthorMoves(m)
    <2>1. CASE t.msg # m
      <3>1. rec'[m] = rec[m]
        BY <1>p, <2>1 DEF Put, ChatTypeOK
      <3> QED
        BY <1>0, <3>1
    <2>2. CASE t.msg = m /\ t.snap # rec[m]
      <3>1. t \in writing \ writing'
        BY <1>p DEF Ends
      <3> QED
        BY <1>p, <2>2, <3>1 DEF AuthorMoves, Stale
    <2>3. CASE t.msg = m /\ t.snap = rec[m]
      <3>1. rec'[m] = r
        BY <1>p, <2>3 DEF Put, ChatTypeOK
      <3> QED
        BY <1>p, <1>r, <2>3, <3>1 DEF AuthorMoves
    <2> QED
      BY <2>1, <2>2, <2>3
  <1>1. ASSUME NEW n \in Msgs, SendText(n) PROVE AuthorMoves(m)
    <2>1. n = m => ~Has(m)
      BY <1>1 DEF SendText
    <2>2. n # m => rec'[m] = rec[m]
      BY <1>1 DEF SendText, Put, ChatTypeOK
    <2> QED
      BY <1>0, <2>1, <2>2 DEF AuthorMoves
  <1>2. ASSUME NEW t \in writing, StatusPut(t) PROVE AuthorMoves(m)
    <2>1. t \in Sets /\ Ranked(t.snap, t.to)
      BY <1>w, <1>2, WritingKinds DEF StatusPut, Tested
    <2>2. Forward(t.snap, [t.snap EXCEPT !.status = t.to]) /\ t.msg \in Msgs
      BY <2>1, ForwardRanked DEF Sets
    <2> QED
      BY <1>2, <1>p, <2>2 DEF StatusPut
  <1>3. ASSUME NEW t \in writing, DeletePut(t) PROVE AuthorMoves(m)
    <2>1. t \in Rows
      BY <1>w, <1>3, WritingKinds DEF DeletePut
    <2>2. Forward(t.snap, [t.snap EXCEPT !.deleted = TRUE]) /\ t.msg \in Msgs
      BY <2>1, ForwardDeleted DEF Rows
    <2> QED
      BY <1>3, <1>p, <2>2 DEF DeletePut
  <1>4. ASSUME NEW t \in writing, SweepPut(t) \/ PumpRow(t) PROVE AuthorMoves(m)
    <2>1. t \in Rows /\ t.snap.status = "pending"
      BY <1>w, <1>4, WritingKinds DEF SweepPut, PumpRow, Tested
    <2>2. Ranked(t.snap, "failed")
      BY <2>1 DEF Ranked
    <2>3. Forward(t.snap, [t.snap EXCEPT !.status = "failed"]) /\ t.msg \in Msgs
      BY <2>1, <2>2, ForwardRanked, StatusesAre DEF Rows
    <2>4. \/ rec' = rec
          \/ Put(t.msg, [t.snap EXCEPT !.status = "failed"]) /\ Ends(t)
      BY <1>4 DEF SweepPut, PumpRow
    <2>5. t.op \in {"pump", "sweep"}
      BY <1>4 DEF SweepPut, PumpRow
    <2> QED
      BY <1>0, <1>p, <2>3, <2>4, <2>5
  <1>5. ASSUME NEW t \in writing, RetryLock(t) \/ RetryDone(t) PROVE AuthorMoves(m)
    <2>1. t \in Retries
      BY <1>w, <1>5, WritingKinds DEF RetryLock, RetryDone
    <2>2. t.msg # m => rec'[m] = rec[m]
      BY <1>5, <2>1 DEF RetryLock, RetryDone, Put, ChatTypeOK
    <2>3. t \notin writing'
      <3>1. CASE RetryDone(t)
        BY <3>1 DEF RetryDone, Ends
      <3>2. CASE RetryLock(t)
        <4>1. [t EXCEPT !.at = "send"].at = "send" /\ t.at = "in"
          BY <2>1, <3>2 DEF Retries, RetryLock
        <4>2. PICK u : u = [t EXCEPT !.at = "send"]
          OBVIOUS
        <4>3. u \in Retries /\ u.at = "send"
          BY <2>1, <4>2 DEF Retries
        <4>4. [u EXCEPT !.n = 2].at = "send"
          BY <4>3 DEF Retries
        <4>5. writing' = And(writing \ {t}, {u})
          BY <3>2, <4>2 DEF RetryLock, Goes
        <4> QED
          BY <4>1, <4>3, <4>4, <4>5 DEF And
      <3> QED
        BY <1>5, <3>1, <3>2
    <2> QED
      BY <1>0, <2>1, <2>2, <2>3 DEF AuthorMoves, Retries
  <1>6. ASSUME NEW n \in Msgs,
               \/ OutboxSent(n) \/ deleteMessage(n) \/ RetryTap(n) \/ PumpRead(n)
               \/ SweepRead(n) \/ \E status \in Receipts : onReceipt(n, status)
        PROVE  rec' = rec
    BY <1>6 DEF OutboxSent, deleteMessage, RetryTap, PumpRead, SweepRead, onReceipt
  <1>7. ASSUME NEW t \in writing, SendDone(t) \/ RetrySend(t) PROVE rec' = rec
    BY <1>7 DEF SendDone, RetrySend
  <1>8. CASE AuthorNext
    BY <1>0, <1>1, <1>2, <1>3, <1>4, <1>5, <1>6, <1>7, <1>8 DEF AuthorNext, WriterStep
  <1>9. CASE ReaderNext \/ UNCHANGED chatVars
    <2>1. rec' = rec
      BY <1>9 DEF ReaderNext, ReaderStep, onText, onDelete, markRead, Reply, AppendStore,
         AppendCount, DeleteKeep, MarkStep, ReadKeep, ReplyPut, author, chatVars
    <2> QED
      BY <1>0, <2>1
  <1> QED
    BY <1>8, <1>9 DEF ChatNext

LEMMA ReaderMovesOn ==
  ASSUME TypeInv, [ChatNext]_chatVars, NEW m \in Msgs
  PROVE  ReaderMoves(m)
  <1> USE DEF TypeInv
  <1>w. reading \in SUBSET Readings
    BY DEF ChatTypeOK
  <1>r. store[m] # None => store[m] \in Records
    BY DEF ChatTypeOK
  <1>0. CASE store'[m] = store[m]
    BY <1>0, <1>r, ForwardSelf DEF ReaderMoves
  <1>1. ASSUME NEW t \in reading, AppendStore(t) PROVE ReaderMoves(m)
    <2>1. t \in Appends
      BY <1>w, <1>1, ReadingKinds DEF AppendStore
    <2>2. t.msg # m => store'[m] = store[m]
      BY <1>1 DEF AppendStore, Keep, ChatTypeOK
    <2>3. PICK u : u = [t EXCEPT !.stored = TRUE]
      OBVIOUS
    <2>4. u \in Appends /\ u.stored /\ [u EXCEPT !.n = 2].stored
      BY <2>1, <2>3 DEF Appends
    <2>5. reading' = And(reading \ {t}, {u}) /\ ~t.stored
      BY <1>1, <2>3 DEF AppendStore, Turns
    <2>6. t \notin reading'
      BY <2>4, <2>5 DEF And
    <2>7. t.op = "append" /\ t.snap = None
      BY <2>1 DEF Appends
    <2> QED
      BY <1>0, <2>2, <2>6, <2>7 DEF ReaderMoves, Stale
  <1>2. ASSUME NEW t \in reading, DeleteKeep(t) \/ ReadKeep(t) PROVE ReaderMoves(m)
    <2>1. t \in Copies
      BY <1>w, <1>2, ReadingKinds DEF DeleteKeep, ReadKeep
    <2>2. PICK r : Keep(t.msg, r) /\ Forward(t.snap, r)
      BY <1>2, <2>1, ForwardDeleted, ForwardRead DEF DeleteKeep, ReadKeep, Copies
    <2>3. t \notin reading'
      BY <1>2 DEF DeleteKeep, ReadKeep, Turns, And
    <2>4. CASE t.msg # m
      <3>1. store'[m] = store[m]
        BY <2>2, <2>4 DEF Keep, ChatTypeOK
      <3> QED
        BY <1>0, <3>1
    <2>5. CASE t.msg = m /\ t.snap # store[m]
      BY <2>1, <2>3, <2>5 DEF ReaderMoves, Stale, Copies
    <2>6. CASE t.msg = m /\ t.snap = store[m]
      <3>1. store'[m] = r
        BY <2>2, <2>6 DEF Keep, ChatTypeOK
      <3> QED
        BY <2>2, <2>6, <3>1 DEF ReaderMoves
    <2> QED
      BY <2>4, <2>5, <2>6
  <1>3. ASSUME NEW t \in reading, AppendCount(t) \/ MarkStep(t) \/ ReplyPut(t)
        PROVE  store' = store
    BY <1>3 DEF AppendCount, MarkStep, ReplyPut
  <1>4. CASE ReaderNext
    BY <1>0, <1>1, <1>2, <1>3, <1>4 DEF ReaderNext, ReaderStep, onText, onDelete, markRead, Reply
  <1>5. CASE AuthorNext \/ UNCHANGED chatVars
    <2>1. store' = store
      BY <1>5 DEF AuthorNext, WriterStep, SendText, OutboxSent, deleteMessage, RetryTap,
         PumpRead, SweepRead, onReceipt, StatusPut, SendDone, DeletePut, RetryLock, RetrySend,
         RetryDone, PumpRow, SweepPut, reader, chatVars
    <2> QED
      BY <1>0, <2>1
  <1> QED
    BY <1>4, <1>5 DEF ChatNext

\* A status goes back, or a deleted message comes back, only by a handler that
\* writes back a record that has changed since it read it, or by a retry.
THEOREM MoveOn == ChatSpec => RecordsMoveOn
  <1>1. ChatInit => MoveInv
    BY DEF ChatInit, MoveInv
  <1>2. TypeInv /\ MoveInv /\ [ChatNext]_chatVars
          => \A m \in Msgs : AuthorMoves(m) /\ ReaderMoves(m)
    BY AuthorMovesOn, ReaderMovesOn
  <1>3. TypeInv /\ MoveInv /\ [ChatNext]_chatVars
          => [\A m \in Msgs :
                /\ (Has(m) /\ ~Forward(rec[m], rec'[m])) =>
                     \/ Stale(rec[m], writing \ writing', m)
                     \/ \E t \in writing \ writing' : t.op = "retry" /\ t.msg = m
                /\ (store[m] # None /\ ~Forward(store[m], store'[m])) =>
                     Stale(store[m], reading \ reading', m)]_chatVars
    BY <1>2 DEF AuthorMoves, ReaderMoves
  <1> QED
    BY <1>1, <1>3, TypeInvInit, TypeInvNext, MoveInvNext, PTL DEF ChatSpec, RecordsMoveOn

=============================================================================

----------------------------- MODULE SharedRing ------------------------------
(***************************************************************************)
(* The ring buffer that carries binary frames between the main thread and  *)
(* the kernel worker (kernel/shared-ring.ts), with the loop that drains it *)
(* (ringReader of kernel-worker-bridge.ts, pump of kernel.worker.ts).      *)
(*                                                                         *)
(* One thread pushes, one pops.  The two cursors and the signal counter    *)
(* are accessed with Atomics, so each access is a step of its own and the  *)
(* steps of the threads interleave; plain writes to the data area are      *)
(* steps too.  A cell of the data area is a byte, abstracted to what it is *)
(* a part of: the four bytes of a length or marker, or the body of a       *)
(* record.  Sizes are parameters so that a small ring has every wrap.      *)
(***************************************************************************)
EXTENDS Integers, Sequences

CONSTANTS
  Capacity,   \* bytes of the data area (512 KiB in the code)
  LenBytes,   \* LEN_BYTES (4 in the code)
  Lengths,    \* lengths of the records that are pushed, in bytes
  Val,        \* what a body can be told apart by
  SignalMod   \* the signal counter's modulus (2^32 in the code)

ASSUME RingAssumption ==
  /\ Capacity \in Nat \ {0} /\ LenBytes \in Nat \ {0}
  /\ Lengths \subseteq Nat \ {0}   \* a frame has a header of 12 bytes
  /\ SignalMod \in Nat \ {0, 1}

Record == [len : Lengths, val : Val]
Byte == 0..(Capacity - 1)

\* Cells: the first byte of a length word shows the word, the others do not.
Blank == <<"blank">>
Word(n) == <<"word", n>>
WordRest == <<"rest">>
Body(v) == <<"body", v>>
WrapMarker == <<"wrap">>

VARIABLES
  head, tail, signal,  \* the control words HEAD, TAIL and SIGNAL
  data,                \* the data area
  push,                \* the writer between two accesses
  pop,                 \* the reader between two accesses
  queued, got          \* history: records published and not popped; last one popped

ctrl == <<head, tail, signal>>
history == <<queued, got>>
ringVars == <<ctrl, data, push, pop, history>>

Resting == [at |-> "rest"]
Popping == [at |-> "load"]

RingInit ==
  /\ head = 0 /\ tail = 0 /\ signal = 0
  /\ data = [i \in Byte |-> Blank]
  /\ push = Resting /\ pop = Popping
  /\ queued = <<>> /\ got = <<>>

\* freeBytes(head, tail): one byte stays free to tell full from empty.
FreeBytes(h, t) == IF t > h THEN t - h - 1 ELSE Capacity - h + t - 1

\* A length word, or the marker, is written at position h.
WithWord(d, h, w) ==
  [i \in Byte |-> IF i = h THEN w
                  ELSE IF i \in (h + 1)..(h + LenBytes - 1) THEN WordRest
                  ELSE d[i]]

-----------------------------------------------------------------------------
(***************************************************************************)
(* push(bytes).                                                            *)
(***************************************************************************)
Need(r) == LenBytes + r.len

\* Does a record pushed at h leave the end of the data area and start at 0?
Wraps(h, r) == h + Need(r) > Capacity

\* The cursors are loaded and there is room, the length word of a possible
\* marker included.  Otherwise push returns false and nothing changes.
PushLoad(r) ==
  /\ push = Resting
  /\ Need(r) + LenBytes < Capacity
  /\ FreeBytes(head, tail) >= Need(r) + LenBytes
  /\ push' = [at |-> IF Wraps(head, r) THEN "wrap" ELSE "fill",
              rec |-> r, head |-> head, tail |-> tail]
  /\ UNCHANGED <<ctrl, data, pop, history>>

\* Mutant: the room at the start of the data area is not checked again.
PushWrapUnchecked ==
  /\ push.at = "wrap"
  /\ data' = IF push.head + LenBytes <= Capacity
             THEN WithWord(data, push.head, WrapMarker) ELSE data
  /\ push' = [push EXCEPT !.at = "fill", !.head = 0]
  /\ UNCHANGED <<ctrl, pop, history>>

\* The marker, if its four bytes still fit; then the record goes to 0 when
\* there is room, and push returns false when there is not.
PushWrap ==
  /\ push.at = "wrap"
  /\ data' = IF push.head + LenBytes <= Capacity
             THEN WithWord(data, push.head, WrapMarker) ELSE data
  /\ push' = IF FreeBytes(0, push.tail) < Need(push.rec) THEN Resting
             ELSE [push EXCEPT !.at = "fill", !.head = 0]
  /\ UNCHANGED <<ctrl, pop, history>>

\* Length and body.
PushFill ==
  /\ push.at = "fill"
  /\ LET start == push.head + LenBytes
         d == WithWord(data, push.head, Word(push.rec.len))
     IN  data' = [i \in Byte |-> IF i \in start..(start + push.rec.len - 1)
                                 THEN Body(push.rec.val) ELSE d[i]]
  /\ push' = [push EXCEPT !.at = "publish"]
  /\ UNCHANGED <<ctrl, pop, history>>

\* Mutant: the cursor is not taken modulo the capacity.
PushPublishPast ==
  /\ push.at = "publish"
  /\ head' = push.head + Need(push.rec)
  /\ queued' = Append(queued, push.rec)
  /\ push' = [at |-> "signal"]
  /\ UNCHANGED <<tail, signal, data, pop, got>>

\* Atomics.store(HEAD)
PushPublish ==
  /\ push.at = "publish"
  /\ head' = (push.head + Need(push.rec)) % Capacity
  /\ queued' = Append(queued, push.rec)
  /\ push' = [at |-> "signal"]
  /\ UNCHANGED <<tail, signal, data, pop, got>>

\* Atomics.add(SIGNAL)
PushSignal ==
  /\ push.at = "signal"
  /\ signal' = (signal + 1) % SignalMod
  /\ push' = [at |-> "notify"]
  /\ UNCHANGED <<head, tail, data, pop, history>>

\* Atomics.notify(SIGNAL)
PushNotify ==
  /\ push.at = "notify"
  /\ pop' = IF pop.at = "parked" THEN Popping ELSE pop
  /\ push' = Resting
  /\ UNCHANGED <<ctrl, data, history>>

-----------------------------------------------------------------------------
(***************************************************************************)
(* pop(), in the loop that calls it until it returns null and then awaits  *)
(* waitForData.                                                            *)
(***************************************************************************)

\* The cursors are loaded; equal cursors: null.
PopLoad ==
  /\ pop.at = "load"
  /\ pop' = IF tail = head THEN [at |-> "seen"] ELSE [at |-> "marker", head |-> head]
  /\ UNCHANGED <<ctrl, data, push, history>>

\* The marker sends the reader to 0, and that is stored at once.
AtMarker == tail + LenBytes <= Capacity /\ data[tail] = WrapMarker

PopMarker ==
  /\ pop.at = "marker"
  /\ tail' = IF AtMarker THEN 0 ELSE tail
  /\ pop' = IF AtMarker /\ pop.head = 0 THEN [at |-> "seen"] ELSE [at |-> "read"]
  /\ UNCHANGED <<head, signal, data, push, history>>

\* view.getUint32 and data.slice.  Reading a length word that does not end
\* inside the data area throws a RangeError, which ends the loop.  A word or
\* a body that is not one is read as garbage.
Slice(start, n) == {data[i] : i \in start..(start + n - 1)}

PopRead ==
  /\ pop.at = "read"
  /\ pop' =
       IF tail + LenBytes > Capacity THEN [at |-> "dead"]
       ELSE IF data[tail] = WrapMarker THEN [at |-> "seen"]
       ELSE IF \E r \in Record : /\ data[tail] = Word(r.len)
                                 /\ Slice(tail + LenBytes, r.len) \subseteq {Body(r.val)}
       THEN [at |-> "store", rec |-> CHOOSE r \in Record :
               /\ data[tail] = Word(r.len)
               /\ Slice(tail + LenBytes, r.len) \subseteq {Body(r.val)}]
       ELSE [at |-> "garbage"]
  /\ UNCHANGED <<ctrl, data, push, history>>

\* Mutant: the cursor is not taken modulo the capacity.
PopStorePast ==
  /\ pop.at = "store"
  /\ tail' = tail + Need(pop.rec)
  /\ got' = <<pop.rec>>
  /\ queued' = Tail(queued)
  /\ pop' = Popping
  /\ UNCHANGED <<head, signal, data, push>>

\* Atomics.store(TAIL); the record is delivered.
PopStore ==
  /\ pop.at = "store"
  /\ tail' = (tail + Need(pop.rec)) % Capacity
  /\ got' = <<pop.rec>>
  /\ queued' = Tail(queued)
  /\ pop' = Popping
  /\ UNCHANGED <<head, signal, data, push>>

\* waitForData: SIGNAL is loaded, the cursors are compared, and waitAsync
\* parks only if SIGNAL has not moved.
WaitSeen ==
  /\ pop.at = "seen"
  /\ pop' = [at |-> "compare", seen |-> signal]
  /\ UNCHANGED <<ctrl, data, push, history>>

\* Mutant: the cursors are not compared again after SIGNAL was loaded.
WaitCompareSkipped ==
  /\ pop.at = "compare"
  /\ pop' = [pop EXCEPT !.at = "park"]
  /\ UNCHANGED <<ctrl, data, push, history>>

WaitCompare ==
  /\ pop.at = "compare"
  /\ pop' = IF head # tail THEN Popping ELSE [pop EXCEPT !.at = "park"]
  /\ UNCHANGED <<ctrl, data, push, history>>

\* Mutant: waitAsync is given the value SIGNAL has by then.
WaitParkBlind ==
  /\ pop.at = "park"
  /\ pop' = [at |-> "parked"]
  /\ UNCHANGED <<ctrl, data, push, history>>

WaitPark ==
  /\ pop.at = "park"
  /\ pop' = IF signal # pop.seen THEN Popping ELSE [at |-> "parked"]
  /\ UNCHANGED <<ctrl, data, push, history>>

\* The 25 or 50 ms are over.
WaitTimeout ==
  /\ pop.at = "parked"
  /\ pop' = Popping
  /\ UNCHANGED <<ctrl, data, push, history>>

-----------------------------------------------------------------------------
PushStep == PushWrap \/ PushFill \/ PushPublish \/ PushSignal \/ PushNotify
PopStep == \/ PopLoad \/ PopMarker \/ PopRead \/ PopStore
           \/ WaitSeen \/ WaitCompare \/ WaitPark

RingNext == (\E r \in Record : PushLoad(r)) \/ PushStep \/ PopStep \/ WaitTimeout

(***************************************************************************)
(* Fairness: both threads run on.  Nobody has to push, and the timeout of  *)
(* waitForData is not relied on.                                           *)
(***************************************************************************)
RingSpec == RingInit /\ [][RingNext]_ringVars
                     /\ WF_ringVars(PushStep) /\ WF_ringVars(PopStep)

-----------------------------------------------------------------------------
(***************************************************************************)
(* Properties.                                                             *)
(***************************************************************************)

\* Type invariant: cursors stay inside the data area.
RingTypeOK ==
  /\ head \in Byte /\ tail \in Byte /\ signal \in 0..(SignalMod - 1)
  /\ \A i \in Byte : data[i] \in {Blank, WordRest, WrapMarker}
                       \cup {Word(n) : n \in Lengths} \cup {Body(v) : v \in Val}
  /\ push \in [at : {"rest", "signal", "notify"}]
         \cup [at : {"wrap", "fill", "publish"}, rec : Record, head : Byte, tail : Byte]
  /\ pop \in [at : {"load", "seen", "read", "parked", "garbage", "dead"}]
        \cup [at : {"marker"}, head : Byte]
        \cup [at : {"store"}, rec : Record]
        \cup [at : {"compare", "park"}, seen : 0..(SignalMod - 1)]
  /\ queued \in Seq(Record)

\* The writer never touches a byte the reader may still read: the cells it
\* is about to write lie outside what is published and not popped.
Unread == IF tail <= head THEN tail..(head - 1)
          ELSE (tail..(Capacity - 1)) \cup (0..(head - 1))

WritesAreFree ==
  push.at = "fill" =>
    (push.head..(push.head + Need(push.rec) - 1)) \cap Unread = {}

\* No wake-up is lost: when a record waits and the reader sleeps, the writer is
\* still on its way to the notify that wakes it, whatever the accesses of
\* waitForData and of push saw of each other.
WakeIsComing ==
  pop.at = "parked" /\ queued # <<>> => push.at \in {"signal", "notify"}

\* The ring is a queue: records come out whole, once and in order, and a
\* parked reader is always woken for one, through every wrap, without the
\* help of waitForData's timeout.
Q == INSTANCE Fifo WITH queue <- queued, taken <- got

RingIsFifo == Q!FifoSpec

\* What shared-ring.ts:13 says of the marker, and the test "sarma
\* (wrap-around) sonrası veri bozulmaz" of the ring: a wrap never leaves the
\* reader with less than a length word to read before the end of the data
\* area, where getUint32 throws and the loop that drains the ring ends.
ReaderRunsOn == pop.at # "dead"

=============================================================================

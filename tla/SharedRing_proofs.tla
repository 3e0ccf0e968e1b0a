-------------------------- MODULE SharedRing_proofs --------------------------
(***************************************************************************)
(* The ring is a queue for every capacity, every length word and every set *)
(* of lengths: the cursors stay inside the data area, nothing unread is    *)
(* overwritten, no record is torn, lost or doubled, and no wake-up is      *)
(* lost.  When the frames that are pushed also keep the cursors on         *)
(* multiples of the length word, the reader never runs off the end of the  *)
(* data area.                                                              *)
(***************************************************************************)
EXTENDS SharedRing, TLAPS

\* A multiple of the length word.
Aligned(n) == \E k \in Int : n = k * LenBytes

\* Sums of aligned positions are aligned.
LEMMA AlignedSum ==
  ASSUME NEW a \in Int, NEW b \in Int, Aligned(a), Aligned(b)
  PROVE  Aligned(a + b)
<1>1. PICK i \in Int, j \in Int : a = i * LenBytes /\ b = j * LenBytes
  BY DEF Aligned
<1>2. a + b = (i + j) * LenBytes /\ i + j \in Int
  BY <1>1, RingAssumption
<1>3. QED
  BY <1>2 DEF Aligned

\* So is what is left of one modulo the capacity.
LEMMA AlignedMod ==
  ASSUME NEW a \in Nat, Aligned(a), Aligned(Capacity)
  PROVE  Aligned(a % Capacity) /\ a % Capacity \in Byte
<1>1. PICK i \in Int, c \in Int : a = i * LenBytes /\ Capacity = c * LenBytes
  BY DEF Aligned
<1>2. /\ a = Capacity * (a \div Capacity) + (a % Capacity)
      /\ a \div Capacity \in Int /\ a % Capacity \in Byte
  BY RingAssumption DEF Byte
<1> DEFINE q == a \div Capacity
<1>3. a % Capacity = (i - c * q) * LenBytes /\ i - c * q \in Int
  <2> HIDE DEF q
  <2>1. a % Capacity = i * LenBytes - (c * LenBytes) * q
    BY <1>1, <1>2, RingAssumption DEF q
  <2>2. q \in Int
    BY <1>2 DEF q
  <2>3. QED
    BY <1>1, <2>1, <2>2, RingAssumption
<1>4. QED
  BY <1>2, <1>3 DEF Aligned

\* A length word at an aligned position ends inside the data area.
LEMMA AlignedFits ==
  ASSUME NEW t \in Byte, Aligned(t), Aligned(Capacity)
  PROVE  t + LenBytes <= Capacity
<1>1. PICK i \in Int, c \in Int : t = i * LenBytes /\ Capacity = c * LenBytes
  BY DEF Aligned
<1>2. i < c
  BY <1>1, RingAssumption DEF Byte
<1>3. (i + 1) * LenBytes <= c * LenBytes
  BY <1>2, RingAssumption
<1>4. QED
  BY <1>1, <1>3, RingAssumption DEF Byte

\* The start of the data area, and the length word itself.
LEMMA AlignedWord == 0 \in Byte /\ Aligned(0) /\ Aligned(LenBytes)
<1>1. 0 = 0 * LenBytes /\ LenBytes = 1 * LenBytes
  BY RingAssumption
<1>2. QED
  BY <1>1, RingAssumption DEF Byte, Aligned

\* What a record takes up.
LEMMA AlignedNeed ==
  ASSUME \A n \in Lengths : Aligned(n), NEW r \in Record
  PROVE  Need(r) \in Nat /\ Aligned(Need(r))
<1>1. r.len \in Lengths
  BY DEF Record
<1> DEFINE n == r.len
<1> HIDE DEF n
<1>2. n \in Nat /\ LenBytes \in Nat /\ Aligned(n)
  BY <1>1, RingAssumption DEF n
<1>3. Aligned(LenBytes + n)
  BY <1>2, AlignedWord, AlignedSum
<1>4. Need(r) = LenBytes + n /\ Need(r) \in Nat
  BY <1>2 DEF Need, n
<1>5. QED
  BY <1>3, <1>4

-----------------------------------------------------------------------------
RestingPush == [at : {"rest", "signal", "notify"}]
MovingPush == [at : {"wrap", "fill", "publish"}, rec : Record, head : Byte, tail : Byte]
PlainPop == [at : {"load", "seen", "read", "parked", "garbage"}]
WaitingPop == [at : {"compare", "park"}, seen : Int]

AlignedInv ==
  /\ head \in Byte /\ Aligned(head)
  /\ tail \in Byte /\ Aligned(tail)
  /\ signal \in Int
  /\ push \in RestingPush \cup MovingPush
  /\ push \in MovingPush => Aligned(push.head)
  /\ pop \in PlainPop \cup [at : {"marker"}, head : Byte]
               \cup [at : {"store"}, rec : Record] \cup WaitingPop

\* Steps of the writer keep its cursor aligned.
LEMMA PushAligned ==
  ASSUME Aligned(Capacity), \A n \in Lengths : Aligned(n),
         AlignedInv, PushStep \/ \E r \in Record : PushLoad(r)
  PROVE  AlignedInv'
<1> USE DEF ctrl, history
<1>1. 0 \in Byte /\ Aligned(0)
  BY AlignedWord
<1>2. \A r \in Record : Need(r) \in Nat /\ Aligned(Need(r))
  BY AlignedNeed
<1>3. ASSUME NEW r \in Record, PushLoad(r) PROVE AlignedInv'
  <2>1. push' \in MovingPush /\ push'.head = head
    BY <1>3 DEF PushLoad, AlignedInv, MovingPush
  <2>2. QED
    BY <1>3, <2>1 DEF PushLoad, AlignedInv
<1>4. CASE PushWrap
  <2>1. push \in MovingPush
    BY <1>4 DEF PushWrap, AlignedInv, RestingPush
  <2>2. push' = Resting \/ (push' \in MovingPush /\ push'.head = 0)
    BY <1>1, <1>4, <2>1 DEF PushWrap, MovingPush
  <2>3. QED
    BY <1>1, <1>4, <2>2 DEF PushWrap, AlignedInv, Resting, RestingPush, MovingPush
<1>5. CASE PushFill
  <2>1. push \in MovingPush
    BY <1>5 DEF PushFill, AlignedInv, RestingPush
  <2>2. push' \in MovingPush /\ push'.head = push.head
    BY <1>5, <2>1 DEF PushFill, MovingPush
  <2>3. QED
    BY <1>5, <2>1, <2>2 DEF PushFill, AlignedInv
<1>6. CASE PushPublish
  <2>1. push \in MovingPush
    BY <1>6 DEF PushPublish, AlignedInv, RestingPush
  <2>2. /\ push.head \in Nat /\ Need(push.rec) \in Nat
        /\ Aligned(push.head) /\ Aligned(Need(push.rec))
    BY <1>2, <2>1 DEF AlignedInv, MovingPush, Byte
  <2>3. Aligned(push.head + Need(push.rec))
    BY <2>2, AlignedSum
  <2>4. head' \in Byte /\ Aligned(head)'
    <3>1. head' = (push.head + Need(push.rec)) % Capacity
      BY <1>6 DEF PushPublish
    <3>2. push.head + Need(push.rec) \in Nat
      BY <2>2
    <3>3. QED
      BY <2>3, <3>1, <3>2, AlignedMod DEF Aligned
  <2>5. push' \in RestingPush /\ push' \notin MovingPush
    BY <1>6 DEF PushPublish, RestingPush, MovingPush
  <2>6. QED
    BY <1>6, <2>4, <2>5 DEF PushPublish, AlignedInv
<1>7. CASE PushSignal
  <2>1. push' \in RestingPush /\ push' \notin MovingPush
    BY <1>7 DEF PushSignal, RestingPush, MovingPush
  <2>2. signal' \in Int
    BY <1>7, RingAssumption DEF PushSignal, AlignedInv
  <2>3. QED
    BY <1>7, <2>1, <2>2 DEF PushSignal, AlignedInv
<1>8. CASE PushNotify
  <2>1. push' \in RestingPush /\ push' \notin MovingPush
    BY <1>8 DEF PushNotify, Resting, RestingPush, MovingPush
  <2>2. pop' = pop \/ pop' \in PlainPop
    BY <1>8 DEF PushNotify, Popping, PlainPop
  <2>3. QED
    BY <1>8, <2>1, <2>2 DEF PushNotify, AlignedInv
<1>9. QED
  BY <1>3, <1>4, <1>5, <1>6, <1>7, <1>8 DEF PushStep

\* Steps of the reader keep its cursor aligned, and find a length word
\* wherever they look for one.
LEMMA PopAligned ==
  ASSUME Aligned(Capacity), \A n \in Lengths : Aligned(n),
         AlignedInv, PopStep \/ WaitTimeout
  PROVE  AlignedInv'
<1> USE DEF ctrl, history
<1>1. 0 \in Byte /\ Aligned(0)
  BY AlignedWord
<1>2. \A r \in Record : Need(r) \in Nat /\ Aligned(Need(r))
  BY AlignedNeed
<1>3. CASE PopLoad
  BY <1>3 DEF PopLoad, AlignedInv, PlainPop
<1>4. CASE PopMarker
  <2>1. tail' \in Byte /\ Aligned(tail)'
    BY <1>1, <1>4 DEF PopMarker, AlignedInv, Aligned
  <2>2. pop' \in PlainPop
    BY <1>4 DEF PopMarker, PlainPop
  <2>3. QED
    BY <1>4, <2>1, <2>2 DEF PopMarker, AlignedInv
<1>5. CASE PopRead
  <2>1. tail + LenBytes <= Capacity
    BY AlignedFits DEF AlignedInv
  <2>2. ~(tail + LenBytes > Capacity)
    BY <2>1, RingAssumption DEF AlignedInv, Byte
  <2>3. pop' \in PlainPop \/ pop' \in [at : {"store"}, rec : Record]
    BY <1>5, <2>2 DEF PopRead, PlainPop
  <2>4. QED
    BY <1>5, <2>3 DEF PopRead, AlignedInv
<1>6. CASE PopStore
  <2>1. pop.rec \in Record
    BY <1>6 DEF PopStore, AlignedInv, PlainPop, WaitingPop
  <2>2. tail \in Nat /\ Need(pop.rec) \in Nat /\ Aligned(Need(pop.rec))
    BY <1>2, <2>1 DEF AlignedInv, Byte
  <2>3. Aligned(tail + Need(pop.rec))
    BY <2>2, AlignedSum DEF AlignedInv
  <2>4. tail' \in Byte /\ Aligned(tail)'
    <3>1. tail' = (tail + Need(pop.rec)) % Capacity
      BY <1>6 DEF PopStore
    <3>2. tail + Need(pop.rec) \in Nat
      BY <2>2
    <3>3. QED
      BY <2>3, <3>1, <3>2, AlignedMod DEF Aligned
  <2>5. QED
    BY <1>6, <2>4 DEF PopStore, AlignedInv, Popping, PlainPop
<1>7. CASE WaitSeen
  BY <1>7 DEF WaitSeen, AlignedInv, WaitingPop
<1>8. CASE WaitCompare
  <2>1. pop \in WaitingPop
    BY <1>8 DEF WaitCompare, AlignedInv, PlainPop
  <2>2. pop' \in PlainPop \/ pop' \in WaitingPop
    BY <1>8, <2>1 DEF WaitCompare, Popping, PlainPop, WaitingPop
  <2>3. QED
    BY <1>8, <2>2 DEF WaitCompare, AlignedInv
<1>9. CASE WaitPark \/ WaitTimeout
  BY <1>9 DEF WaitPark, WaitTimeout, AlignedInv, Popping, PlainPop
<1>10. QED
  BY <1>3, <1>4, <1>5, <1>6, <1>7, <1>8, <1>9 DEF PopStep

\* If the capacity and all lengths are multiples of the length word, no wrap
\* ever makes the reader throw, whatever the capacity and the interleaving.
\* Frames of 12 + n bytes are not: the run ring_end shows the other side.
THEOREM AlignedReaderRunsOn ==
  ASSUME Aligned(Capacity), \A n \in Lengths : Aligned(n)
  PROVE  RingSpec => []ReaderRunsOn
<1>1. RingInit => AlignedInv
  <2>1. 0 \in Byte /\ Aligned(0)
    BY AlignedWord
  <2>2. QED
    BY <2>1 DEF RingInit, AlignedInv, Resting, Popping, RestingPush, MovingPush,
                PlainPop
<1>2. AlignedInv /\ [RingNext]_ringVars => AlignedInv'
  <2>1. ASSUME AlignedInv, UNCHANGED ringVars PROVE AlignedInv'
    BY <2>1 DEF ringVars, ctrl, history, AlignedInv, Aligned
  <2>2. QED
    BY <2>1, PushAligned, PopAligned DEF RingNext
<1>3. AlignedInv => ReaderRunsOn
  BY DEF AlignedInv, ReaderRunsOn, PlainPop, WaitingPop
<1>4. QED
  BY <1>1, <1>2, <1>3, PTL DEF RingSpec

-----------------------------------------------------------------------------
(***************************************************************************)
(* Type correctness.                                                       *)
(***************************************************************************)

\* What a record takes up.
LEMMA NeedIs ==
  ASSUME NEW r \in Record
  PROVE  /\ r.len \in Nat \ {0} /\ r.val \in Val
         /\ Need(r) \in Nat /\ Need(r) = LenBytes + r.len /\ Need(r) > LenBytes
  <1>1. r.len \in Lengths /\ r.val \in Val
    BY DEF Record
  <1>2. r.len \in Nat \ {0} /\ LenBytes \in Nat
    BY <1>1, RingAssumption
  <1> QED
    BY <1>1, <1>2 DEF Need

\* The writer's type, by what it is about to do.
LEMMA PushIs ==
  ASSUME RingTypeOK
  PROVE  /\ push.at \in {"rest", "signal", "notify", "wrap", "fill", "publish"}
         /\ push.at \in {"wrap", "fill", "publish"} =>
              /\ push \in MovingPush
              /\ push.rec \in Record /\ push.head \in Byte /\ push.tail \in Byte
  BY DEF RingTypeOK, MovingPush

LEMMA PopIs ==
  ASSUME RingTypeOK
  PROVE  /\ pop.at \in {"load", "seen", "read", "parked", "garbage", "dead", "marker",
                        "store", "compare", "park"}
         /\ pop.at = "marker" => pop.head \in Byte
         /\ pop.at = "store" => pop.rec \in Record
         /\ pop.at \in {"compare", "park"} => pop = [at |-> pop.at, seen |-> pop.seen]
                                             /\ pop.seen \in 0..(SignalMod - 1)
  BY DEF RingTypeOK

\* A cursor modulo the capacity.
LEMMA ModByte ==
  ASSUME NEW a \in Nat
  PROVE  a % Capacity \in Byte
  BY RingAssumption DEF Byte

\* What a cell may hold.
Cells == {Blank, WordRest, WrapMarker} \cup {Word(n) : n \in Lengths}
           \cup {Body(v) : v \in Val}

LEMMA WordTyped ==
  ASSUME NEW d, \A i \in Byte : d[i] \in Cells, NEW h, NEW w \in Cells
  PROVE  \A i \in Byte : WithWord(d, h, w)[i] \in Cells
  <1>1. WordRest \in Cells
    BY DEF Cells
  <1> QED
    BY <1>1 DEF WithWord

LEMMA RingTypedPush ==
  ASSUME RingTypeOK, PushStep \/ \E r \in Record : PushLoad(r)
  PROVE  RingTypeOK'
  <1> USE DEF ctrl, history
  <1>0. 0 \in Byte /\ 0 \in 0..(SignalMod - 1)
    BY RingAssumption DEF Byte
  <1>1. ASSUME NEW r \in Record, PushLoad(r) PROVE RingTypeOK'
    <2>1. push' \in MovingPush
      BY <1>1 DEF PushLoad, RingTypeOK, MovingPush
    <2> QED
      BY <1>1, <2>1 DEF PushLoad, RingTypeOK, MovingPush
  <1>2. CASE PushWrap
    <2>1. push \in MovingPush
      BY <1>2, PushIs DEF PushWrap
    <2>2. push' = Resting \/ push' \in MovingPush
      BY <1>0, <1>2, <2>1 DEF PushWrap, MovingPush
    <2>3. \A i \in Byte : data'[i] \in Cells
      <3>1. WrapMarker \in Cells /\ \A i \in Byte : data[i] \in Cells
        BY DEF Cells, RingTypeOK
      <3>2. data' = WithWord(data, push.head, WrapMarker) \/ data' = data
        BY <1>2 DEF PushWrap
      <3> QED
        BY <3>1, <3>2, WordTyped
    <2> QED
      BY <1>2, <2>2, <2>3 DEF PushWrap, RingTypeOK, Resting, MovingPush, Cells
  <1>3. CASE PushFill
    <2>1. push \in MovingPush
      BY <1>3, PushIs DEF PushFill
    <2>2. push' \in MovingPush
      BY <1>3, <2>1 DEF PushFill, MovingPush
    <2>3. \A i \in Byte : data'[i] \in Cells
      <3>1. push.rec.len \in Lengths /\ push.rec.val \in Val
        BY <2>1 DEF MovingPush, Record
      <3>2. Word(push.rec.len) \in Cells /\ Body(push.rec.val) \in Cells
        BY <3>1 DEF Cells
      <3>3. \A i \in Byte : data[i] \in Cells
        BY DEF Cells, RingTypeOK
      <3> DEFINE d == WithWord(data, push.head, Word(push.rec.len))
      <3>4. \A i \in Byte : d[i] \in Cells
        BY <3>2, <3>3, WordTyped
      <3>5. \E S : data' = [i \in Byte |-> IF i \in S THEN Body(push.rec.val) ELSE d[i]]
        BY <1>3 DEF PushFill
      <3> HIDE DEF d
      <3> QED
        BY <3>2, <3>4, <3>5
    <2> QED
      BY <1>3, <2>2, <2>3 DEF PushFill, RingTypeOK, MovingPush, Cells
  <1>4. CASE PushPublish
    <2>1. push.head \in Nat /\ push.rec \in Record /\ Need(push.rec) \in Nat
      BY <1>4, PushIs, NeedIs DEF PushPublish, Byte
    <2>2. head' \in Byte
      BY <1>4, <2>1, ModByte DEF PushPublish
    <2>3. queued' \in Seq(Record)
      BY <1>4, <2>1 DEF PushPublish, RingTypeOK
    <2> QED
      BY <1>4, <2>2, <2>3 DEF PushPublish, RingTypeOK
  <1>5. CASE PushSignal
    <2>1. signal' \in 0..(SignalMod - 1)
      BY <1>5, RingAssumption DEF PushSignal, RingTypeOK
    <2> QED
      BY <1>5, <2>1 DEF PushSignal, RingTypeOK
  <1>6. CASE PushNotify
    BY <1>6 DEF PushNotify, RingTypeOK, Resting, Popping
  <1> QED
    BY <1>1, <1>2, <1>3, <1>4, <1>5, <1>6 DEF PushStep

LEMMA RingTypedPop ==
  ASSUME RingTypeOK, pop.at = "store" => queued # << >>, PopStep \/ WaitTimeout
  PROVE  RingTypeOK'
  <1> USE DEF ctrl, history
  <1>0. 0 \in Byte
    BY RingAssumption DEF Byte
  <1>1. CASE PopLoad
    BY <1>1 DEF PopLoad, RingTypeOK
  <1>2. CASE PopMarker
    <2>1. tail' \in Byte /\ (pop' = [at |-> "seen"] \/ pop' = [at |-> "read"])
      BY <1>0, <1>2 DEF PopMarker, RingTypeOK
    <2> QED
      BY <1>2, <2>1 DEF PopMarker, RingTypeOK
  <1>3. CASE PopRead
    <2>1. \/ pop' \in {[at |-> "dead"], [at |-> "seen"], [at |-> "garbage"]}
          \/ pop' \in [at : {"store"}, rec : Record]
      BY <1>3 DEF PopRead
    <2> QED
      BY <1>3, <2>1 DEF PopRead, RingTypeOK
  <1>4. CASE PopStore
    <2>1. tail + Need(pop.rec) \in Nat
      BY <1>4, PopIs, NeedIs DEF PopStore, RingTypeOK, Byte
    <2>2. tail' \in Byte
      BY <1>4, <2>1, ModByte DEF PopStore
    <2>3. queued' \in Seq(Record)
      <3>1. queued \in Seq(Record) /\ queued # << >> /\ queued' = Tail(queued)
        BY <1>4 DEF PopStore, RingTypeOK
      <3> QED
        BY <3>1
    <2> QED
      BY <1>4, <2>2, <2>3 DEF PopStore, RingTypeOK, Popping
  <1>5. CASE WaitSeen
    BY <1>5 DEF WaitSeen, RingTypeOK
  <1>6. CASE WaitCompare
    <2>1. pop = [at |-> "compare", seen |-> pop.seen] /\ pop.seen \in 0..(SignalMod - 1)
      BY <1>6, PopIs DEF WaitCompare
    <2>2. pop' = Popping \/ pop' = [at |-> "park", seen |-> pop.seen]
      BY <1>6, <2>1 DEF WaitCompare
    <2> QED
      BY <1>6, <2>1, <2>2 DEF WaitCompare, RingTypeOK, Popping
  <1>7. CASE WaitPark
    BY <1>7 DEF WaitPark, RingTypeOK, Popping
  <1>8. CASE WaitTimeout
    BY <1>8 DEF WaitTimeout, RingTypeOK, Popping
  <1> QED
    BY <1>1, <1>2, <1>3, <1>4, <1>5, <1>6, <1>7, <1>8 DEF PopStep

LEMMA RingTypedInit == RingInit => RingTypeOK
  BY RingAssumption DEF RingInit, RingTypeOK, Resting, Popping, Byte

LEMMA RingTypedSame == RingTypeOK /\ UNCHANGED ringVars => RingTypeOK'
  BY DEF ringVars, ctrl, history, RingTypeOK

-----------------------------------------------------------------------------
(***************************************************************************)
(* Where the records lie.  at[i] is the first byte of the i-th record that *)
(* is queued.  Distances are counted from the tail on, in the direction of *)
(* writing, so that wraps need no case of their own.                       *)
(***************************************************************************)

\* A position up to the capacity, as a cursor.
AsByte(p) == IF p = Capacity THEN 0 ELSE p

\* Bytes from t to p.
Dist(t, p) == IF t <= p THEN p - t ELSE p + Capacity - t

\* The record r is written at p, in one piece.
Holds(p, r) ==
  /\ p + Need(r) <= Capacity
  /\ data[p] = Word(r.len)
  /\ \A i \in (p + LenBytes)..(p + Need(r) - 1) : data[i] = Body(r.val)

\* A reader at p finds the record at q: it is there, or it is at the start of
\* the data area and a marker sends the reader to it, if one has room.
Leads(p, q) == q = p \/ (q = 0 /\ (p + LenBytes <= Capacity => data[p] = WrapMarker))

Placed(at) ==
  /\ \A i \in 1..Len(queued) :
       Holds(at[i], queued[i]) /\ Dist(tail, at[i]) + Need(queued[i]) <= Dist(tail, head)
  /\ \A i, j \in 1..Len(queued) : i < j => Dist(tail, at[i]) + Need(queued[i]) <= Dist(tail, at[j])
  /\ \A i, j \in 1..Len(queued) : i < j => Dist(tail, at[i]) + (j - i) <= Dist(tail, at[j])
  /\ \A i \in 1..(Len(queued) - 1) : Leads(AsByte(at[i] + Need(queued[i])), at[i + 1])
  /\ queued = << >> => tail = head
  /\ queued # << >> =>
       /\ Leads(tail, at[1])
       /\ AsByte(at[Len(queued)] + Need(queued[Len(queued)])) = head

\* What the reader has learned from the cursors is still so.
Reads(at) ==
  /\ pop.at \in {"marker", "read", "store"} => queued # << >>
  /\ pop.at = "read" => at[1] = tail \/ tail + LenBytes > Capacity
  /\ pop.at = "store" => at[1] = tail /\ pop.rec = queued[1]
  /\ pop.at # "garbage"

\* n bytes from the head on are free.
Ahead(n) == head + n <= Capacity /\ head + n < (IF tail > head THEN tail ELSE tail + Capacity)

\* What the writer has learned is still so, although its tail is old.
Writes ==
  /\ push.at = "wrap" =>
       /\ push.head = head /\ head + Need(push.rec) > Capacity
       /\ push.tail <= tail /\ tail <= head
       /\ Capacity - head + push.tail - 1 >= Need(push.rec) + LenBytes
  /\ push.at \in {"fill", "publish"} =>
       \/ push.head = head /\ Ahead(Need(push.rec))
       \/ /\ push.head = 0 /\ tail <= head /\ Need(push.rec) < tail
          /\ head + LenBytes <= Capacity => data[head] = WrapMarker
  /\ push.at = "publish" => Holds(push.head, push.rec)

RingInv ==
  /\ RingTypeOK
  /\ Writes
  /\ \E at \in [1..Len(queued) -> Byte] : Placed(at) /\ Reads(at)

\* Cells of different kinds differ, and a word and a body show what they are of.
LEMMA CellKinds ==
  /\ \A n : Word(n) # WrapMarker
  /\ \A n, m : Word(n) = Word(m) => n = m
  /\ \A v, w : Body(v) = Body(w) => v = w
  <1>1. ASSUME NEW n PROVE Word(n) # WrapMarker
    <2>1. Word(n)[1] = "word" /\ WrapMarker[1] = "wrap"
      BY DEF Word, WrapMarker
    <2> QED
      BY <2>1
  <1>2. ASSUME NEW n, NEW m, Word(n) = Word(m) PROVE n = m
    <2>1. Word(n)[2] = n /\ Word(m)[2] = m
      BY DEF Word
    <2> QED
      BY <1>2, <2>1
  <1>3. ASSUME NEW v, NEW w, Body(v) = Body(w) PROVE v = w
    <2>1. Body(v)[2] = v /\ Body(w)[2] = w
      BY DEF Body
    <2> QED
      BY <1>3, <2>1
  <1> QED
    BY <1>1, <1>2, <1>3

\* The remainder of a position up to the capacity.
LEMMA AsByteIsMod ==
  ASSUME NEW p \in 0..Capacity
  PROVE  p % Capacity = AsByte(p) /\ AsByte(p) \in Byte
  <1>1. Capacity \in Nat \ {0}
    BY RingAssumption
  <1>2. CASE p < Capacity
    BY <1>1, <1>2 DEF AsByte, Byte
  <1>3. CASE p = Capacity
    BY <1>1, <1>3 DEF AsByte, Byte
  <1> QED
    BY <1>2, <1>3, <1>1

\* The records of the queue, as numbers.
LEMMA QueueIs ==
  ASSUME RingTypeOK
  PROVE  /\ Len(queued) \in Nat /\ queued \in Seq(Record)
         /\ queued = << >> <=> Len(queued) = 0
         /\ \A i \in 1..Len(queued) :
              /\ queued[i] \in Record
              /\ Need(queued[i]) \in Nat /\ Need(queued[i]) > LenBytes
              /\ Need(queued[i]) = LenBytes + queued[i].len
              /\ queued[i].len \in Nat \ {0}
  <1>1. queued \in Seq(Record)
    BY DEF RingTypeOK
  <1>2. \A i \in 1..Len(queued) : queued[i] \in Record
    BY <1>1
  <1> QED
    BY <1>1, <1>2, NeedIs

LEMMA CursorsAre ==
  ASSUME RingTypeOK
  PROVE  /\ Capacity \in Nat \ {0} /\ LenBytes \in Nat \ {0}
         /\ head \in 0..(Capacity - 1) /\ tail \in 0..(Capacity - 1)
  BY RingAssumption DEF RingTypeOK, Byte

\* One record's place.
LEMMA PlaceOf ==
  ASSUME RingTypeOK, NEW at \in [1..Len(queued) -> Byte], Placed(at), NEW i \in 1..Len(queued)
  PROVE  /\ Need(queued[i]) \in Nat /\ Need(queued[i]) > LenBytes
         /\ Need(queued[i]) = LenBytes + queued[i].len /\ queued[i].len \in Nat \ {0}
         /\ queued[i] \in Record /\ at[i] \in Byte /\ at[i] \in 0..(Capacity - 1)
         /\ at[i] + Need(queued[i]) \in 1..Capacity
         /\ Holds(at[i], queued[i]) /\ Dist(tail, at[i]) + Need(queued[i]) <= Dist(tail, head)
  <1>1. Holds(at[i], queued[i]) /\ Dist(tail, at[i]) + Need(queued[i]) <= Dist(tail, head)
    BY DEF Placed
  <1>2. /\ Need(queued[i]) \in Nat /\ Need(queued[i]) > LenBytes /\ queued[i] \in Record
        /\ Need(queued[i]) = LenBytes + queued[i].len /\ queued[i].len \in Nat \ {0}
    BY QueueIs
  <1>3. at[i] \in Byte /\ at[i] \in 0..(Capacity - 1)
    BY DEF Byte
  <1>4. at[i] + Need(queued[i]) <= Capacity
    BY <1>1 DEF Holds
  <1>5. at[i] + Need(queued[i]) \in 1..Capacity
    BY <1>2, <1>3, <1>4, CursorsAre
  <1> QED
    BY <1>1, <1>2, <1>3, <1>5

\* The cells the queue's records and markers lie in are unread.
LEMMA PlacedIsUnread ==
  ASSUME RingTypeOK, NEW at \in [1..Len(queued) -> Byte], Placed(at), NEW i \in 1..Len(queued)
  PROVE  /\ \A k \in at[i]..(at[i] + Need(queued[i]) - 1) : k \in Byte /\ k \in Unread
         /\ i < Len(queued) /\ at[i + 1] # AsByte(at[i] + Need(queued[i])) =>
              AsByte(at[i] + Need(queued[i])) \in Unread
         /\ tail \in Unread
  <1> DEFINE p == at[i]
             n == Need(queued[i])
  <1>1. /\ n \in Nat /\ n > LenBytes /\ p \in 0..(Capacity - 1)
        /\ p + n <= Capacity /\ Dist(tail, p) + n <= Dist(tail, head)
    BY PlaceOf
  <1>2. \A k \in p..(p + n - 1) : k \in Byte /\ k \in Unread
    <2> HIDE DEF p, n
    <2> QED
      BY <1>1, CursorsAre DEF Dist, Unread, Byte
  <1>3. ASSUME i < Len(queued), at[i + 1] # AsByte(p + n) PROVE AsByte(p + n) \in Unread
    <2> DEFINE q == at[i + 1]
               m == Need(queued[i + 1])
    <2>1. i + 1 \in 1..Len(queued) /\ i \in 1..(Len(queued) - 1)
      BY <1>3, QueueIs
    <2>2. m \in Nat /\ m > LenBytes /\ q \in 0..(Capacity - 1) /\ Dist(tail, q) + m <= Dist(tail, head)
      BY <2>1, PlaceOf
    <2>3. Dist(tail, p) + n <= Dist(tail, q)
      <3>1. i \in 1..Len(queued) /\ i < i + 1
        BY <2>1, QueueIs
      <3> QED
        BY <2>1, <3>1 DEF Placed
    <2>4. q = 0 /\ q # AsByte(p + n)
      BY <1>3, <2>1 DEF Placed, Leads
    <2> SUFFICES AsByte(p + n) \in Unread
      OBVIOUS
    <2> HIDE DEF p, n, q, m
    <2>5. CASE p + n = Capacity
      BY <2>4, <2>5 DEF AsByte
    <2>6. CASE p + n < Capacity
      <3>1. AsByte(p + n) = p + n
        BY <2>6, <1>1, CursorsAre DEF AsByte
      <3>2. p + n \in Unread
        <4>1. tail > head /\ p >= tail
          BY <1>1, <2>2, <2>3, <2>4, CursorsAre DEF Dist
        <4> QED
          BY <1>1, <2>6, <4>1, CursorsAre DEF Unread
      <3> QED
        BY <3>1, <3>2
    <2> QED
      BY <1>1, <2>5, <2>6, CursorsAre
  <1>4. tail \in Unread
    <2> HIDE DEF p, n
    <2>1. tail # head
      BY <1>1, CursorsAre DEF Dist
    <2> QED
      BY <2>1, CursorsAre DEF Unread
  <1> QED
    BY <1>2, <1>3, <1>4

-----------------------------------------------------------------------------
(***************************************************************************)
(* The writer.                                                             *)
(***************************************************************************)

\* Where the writer is about to write is free, and once it has written, the
\* record's place fits behind those of the queue.
LEMMA FreeAhead ==
  ASSUME RingTypeOK, Writes, push.at \in {"fill", "publish"}
  PROVE  /\ Need(push.rec) \in Nat /\ Need(push.rec) > LenBytes
         /\ push.head \in 0..(Capacity - 1) /\ push.head + Need(push.rec) \in 1..Capacity
         /\ (push.head..(push.head + Need(push.rec) - 1)) \cap Unread = {}
         /\ AsByte(push.head + Need(push.rec)) \in 0..(Capacity - 1)
         /\ Dist(tail, push.head) + Need(push.rec)
              <= Dist(tail, AsByte(push.head + Need(push.rec)))
         /\ Dist(tail, head) <= Dist(tail, push.head)
  <1> DEFINE p == push.head
             n == Need(push.rec)
  <1>1. p \in 0..(Capacity - 1) /\ n \in Nat /\ n > LenBytes
    BY PushIs, NeedIs DEF Byte
  <1>2. \/ p = head /\ Ahead(n)
        \/ p = 0 /\ tail <= head /\ n < tail
    BY DEF Writes
  <1> SUFFICES
        /\ p + n \in 1..Capacity
        /\ (p..(p + n - 1)) \cap Unread = {}
        /\ AsByte(p + n) \in 0..(Capacity - 1)
        /\ Dist(tail, p) + n <= Dist(tail, AsByte(p + n))
        /\ Dist(tail, head) <= Dist(tail, p)
    BY <1>1
  <1> HIDE DEF p, n
  <1>3. p + n \in 1..Capacity
    BY <1>1, <1>2, CursorsAre DEF Ahead
  <1>4. (p..(p + n - 1)) \cap Unread = {}
    BY <1>1, <1>2, CursorsAre DEF Ahead, Unread
  <1>5. AsByte(p + n) \in 0..(Capacity - 1)
    BY <1>3, CursorsAre DEF AsByte
  <1>6. Dist(tail, head) <= Dist(tail, p)
    BY <1>1, <1>2, CursorsAre DEF Dist
  <1>7. Dist(tail, p) + n <= Dist(tail, AsByte(p + n))
    <2>1. CASE p + n = Capacity
      BY <1>1, <1>2, <2>1, CursorsAre DEF Ahead, AsByte, Dist
    <2>2. CASE p + n < Capacity
      <3>1. AsByte(p + n) = p + n
        BY <1>1, <2>2, CursorsAre DEF AsByte
      <3>2. Dist(tail, p) + n <= Dist(tail, p + n)
        BY <1>1, <1>2, <2>2, CursorsAre DEF Ahead, Dist
      <3> QED
        BY <3>1, <3>2
    <2> QED
      BY <1>3, <2>1, <2>2, CursorsAre
  <1> QED
    BY <1>3, <1>4, <1>5, <1>6, <1>7

\* Writing outside what is unread moves no record.
LEMMA PlacedKept ==
  ASSUME RingTypeOK, NEW at \in [1..Len(queued) -> Byte], Placed(at),
         UNCHANGED <<head, tail, queued>>, \A k \in Unread : data'[k] = data[k]
  PROVE  Placed(at)'
  <1>1. \A i \in 1..Len(queued) : Holds(at[i], queued[i])'
    <2> TAKE i \in 1..Len(queued)
    <2>1. Holds(at[i], queued[i])
      BY PlaceOf
    <2>2. \A k \in at[i]..(at[i] + Need(queued[i]) - 1) : data'[k] = data[k]
      BY PlacedIsUnread
    <2>3. /\ at[i] \in 0..(Capacity - 1) /\ Need(queued[i]) \in Nat
          /\ Need(queued[i]) > LenBytes /\ LenBytes \in Nat
      BY PlaceOf, CursorsAre
    <2>4. at[i] \in at[i]..(at[i] + Need(queued[i]) - 1)
      BY <2>3
    <2>5. \A k \in (at[i] + LenBytes)..(at[i] + Need(queued[i]) - 1) :
            k \in at[i]..(at[i] + Need(queued[i]) - 1)
      BY <2>3
    <2>6. Need(queued[i])' = Need(queued[i]) /\ queued'[i] = queued[i]
      BY DEF Need
    <2> QED
      BY <2>1, <2>2, <2>4, <2>5, <2>6 DEF Holds
  <1>2. \A i \in 1..(Len(queued) - 1) :
          Leads(AsByte(at[i] + Need(queued[i])), at[i + 1])'
    <2> TAKE i \in 1..(Len(queued) - 1)
    <2>1. i \in 1..Len(queued) /\ i < Len(queued)
      BY QueueIs
    <2>2. Leads(AsByte(at[i] + Need(queued[i])), at[i + 1])
      BY DEF Placed
    <2>3. at[i + 1] = AsByte(at[i] + Need(queued[i]))
          \/ AsByte(at[i] + Need(queued[i])) \in Unread
      BY <2>1, PlacedIsUnread
    <2>4. AsByte(at[i] + Need(queued[i]))' = AsByte(at[i] + Need(queued[i]))
      BY DEF AsByte, Need
    <2> QED
      BY <2>2, <2>3, <2>4 DEF Leads
  <1>3. queued # << >> => Leads(tail, at[1])'
    <2> HAVE queued # << >>
    <2>1. 1 \in 1..Len(queued)
      BY QueueIs
    <2>2. tail \in Unread /\ Leads(tail, at[1])
      BY <2>1, PlacedIsUnread DEF Placed
    <2> QED
      BY <2>2 DEF Leads
  <1> QED
    BY <1>1, <1>2, <1>3 DEF Placed, Dist, AsByte, Need

\* What the reader has learned does not depend on the writer.
LEMMA ReadsKept ==
  ASSUME NEW at, Reads(at), UNCHANGED <<tail, queued, pop>>
  PROVE  Reads(at)'
  BY DEF Reads

\* A step that leaves the records where they are and the reader with what it
\* has learned keeps the invariant, if the writer's part of it holds.
LEMMA KeepsPlaces ==
  ASSUME RingInv, RingTypeOK', Writes',
         UNCHANGED <<head, tail, queued>>, \A k \in Unread : data'[k] = data[k],
         \A at \in [1..Len(queued) -> Byte] : Placed(at) /\ Reads(at) => Reads(at)'
  PROVE  RingInv'
  <1>1. PICK at \in [1..Len(queued) -> Byte] : Placed(at) /\ Reads(at)
    BY DEF RingInv
  <1>2. Placed(at)' /\ Reads(at)'
    BY <1>1, PlacedKept DEF RingInv
  <1>3. at \in [1..Len(queued') -> Byte]
    OBVIOUS
  <1> QED
    BY <1>2, <1>3 DEF RingInv, Byte

LEMMA PushLoadKeeps ==
  ASSUME RingInv, RingTypeOK', NEW r \in Record, PushLoad(r)
  PROVE  RingInv'
  <1> USE DEF ctrl, history
  <1>1. UNCHANGED <<head, tail, queued, data, pop>>
    BY DEF PushLoad
  <1>2. /\ push'.at = "wrap" => head + Need(r) > Capacity
        /\ push'.at = "fill" => head + Need(r) <= Capacity
        /\ push'.at \in {"wrap", "fill"} /\ push'.rec = r
        /\ push'.head = head /\ push'.tail = tail
        /\ FreeBytes(head, tail) >= Need(r) + LenBytes
    BY CursorsAre, NeedIs DEF RingInv, PushLoad, Wraps
  <1>3. Writes'
    <2> DEFINE n == Need(r)
    <2>1. n \in Nat /\ RingTypeOK /\ Need(push'.rec) = n
      BY <1>2, NeedIs DEF RingInv
    <2> HIDE DEF n
    <2>2. push'.at = "wrap" => tail <= head /\ Capacity - head + tail - 1 >= n + LenBytes
      BY <1>2, <2>1, CursorsAre DEF FreeBytes, n
    <2>3. push'.at = "fill" => Ahead(n)
      BY <1>2, <2>1, CursorsAre DEF FreeBytes, Ahead, n
    <2>4. Ahead(n)' = Ahead(n) /\ (push'.at = "wrap" => head + n > Capacity)
      BY <1>1, <1>2 DEF Ahead, n
    <2>5. tail <= tail
      BY <2>1, CursorsAre
    <2>6. Need(push.rec)' = n
      BY <2>1 DEF Need
    <2> QED
      BY <1>1, <1>2, <2>2, <2>3, <2>4, <2>5, <2>6 DEF Writes, Ahead
  <1> QED
    BY <1>1, <1>3, KeepsPlaces, ReadsKept

\* The marker is written where the record would not fit, behind what is unread.
LEMMA PushWrapKeeps ==
  ASSUME RingInv, RingTypeOK', PushWrap
  PROVE  RingInv'
  <1> USE DEF ctrl, history
  <1> DEFINE n == Need(push.rec)
  <1>1. UNCHANGED <<head, tail, queued, pop>>
    BY DEF PushWrap
  <1>2. /\ n \in Nat /\ n > LenBytes /\ push.tail \in 0..(Capacity - 1)
        /\ push.head = head /\ head + n > Capacity /\ push.tail <= tail /\ tail <= head
        /\ Capacity - head + push.tail - 1 >= n + LenBytes
        /\ push \in MovingPush
    BY PushIs, NeedIs DEF RingInv, PushWrap, Writes, Byte
  <1>3. data' = IF head + LenBytes <= Capacity THEN WithWord(data, head, WrapMarker) ELSE data
    BY <1>2 DEF PushWrap
  <1>4. \A k \in Unread : data'[k] = data[k]
    <2> TAKE k \in Unread
    <2>1. k \in Byte /\ k # head /\ k \notin (head + 1)..(head + LenBytes - 1)
      BY <1>2, CursorsAre DEF RingInv, Unread, Byte
    <2> QED
      BY <1>3, <2>1 DEF WithWord
  <1>5. head + LenBytes <= Capacity => data'[head] = WrapMarker
    BY <1>3, CursorsAre DEF RingInv, WithWord, Byte
  <1>6. Writes'
    <2>1. CASE push' = Resting
      BY <2>1 DEF Resting, Writes
    <2>2. CASE FreeBytes(0, push.tail) >= n /\ push' = [push EXCEPT !.at = "fill", !.head = 0]
      <3>1. push'.at = "fill" /\ push'.head = 0 /\ push'.rec = push.rec
        BY <1>2, <2>2 DEF MovingPush
      <3>2. n < tail
        <4> HIDE DEF n
        <4>1. push.tail # 0
          BY <1>2, CursorsAre DEF RingInv
        <4> QED
          BY <1>2, <2>2, <4>1, CursorsAre DEF RingInv, FreeBytes
      <3>3. Need(push.rec)' = n
        BY <3>1 DEF Need
      <3> QED
        BY <1>1, <1>2, <1>5, <3>1, <3>2, <3>3 DEF Writes
    <2>3. FreeBytes(0, push.tail) >= n \/ FreeBytes(0, push.tail) < n
      BY <1>2, CursorsAre DEF RingInv, FreeBytes
    <2> QED
      BY <2>1, <2>2, <2>3 DEF PushWrap
  <1> QED
    BY <1>1, <1>4, <1>6, KeepsPlaces, ReadsKept

LEMMA PushFillKeeps ==
  ASSUME RingInv, RingTypeOK', PushFill
  PROVE  RingInv'
  <1> USE DEF ctrl, history
  <1> DEFINE n == Need(push.rec)
             p == push.head
             d == WithWord(data, p, Word(push.rec.len))
  <1>1. UNCHANGED <<head, tail, queued, pop>>
    BY DEF PushFill
  <1>2. /\ n \in Nat /\ n > LenBytes /\ p \in 0..(Capacity - 1) /\ p + n \in 1..Capacity
        /\ (p..(p + n - 1)) \cap Unread = {}
    BY FreeAhead DEF RingInv, PushFill
  <1>3. push \in MovingPush /\ n = LenBytes + push.rec.len /\ push.rec.len \in Nat
        /\ Capacity \in Nat /\ LenBytes \in Nat \ {0}
    BY PushIs, NeedIs, CursorsAre DEF RingInv, PushFill
  <1>4. push'.at = "publish" /\ push'.rec = push.rec /\ push'.head = p
    BY <1>3 DEF PushFill, MovingPush
  <1>5. data' = [i \in Byte |-> IF i \in (p + LenBytes)..(p + n - 1)
                                THEN Body(push.rec.val) ELSE d[i]]
    <2>1. p + LenBytes + push.rec.len - 1 = p + n - 1
      BY <1>2, <1>3
    <2> HIDE DEF n
    <2> QED
      BY <2>1 DEF PushFill
  <1>6. \A k \in Byte : k \notin p..(p + n - 1) => data'[k] = data[k]
    <2> TAKE k \in Byte
    <2> HAVE k \notin p..(p + n - 1)
    <2>1. k \notin (p + LenBytes)..(p + n - 1) /\ k # p /\ k \notin (p + 1)..(p + LenBytes - 1)
      <3> HIDE DEF n, p
      <3> QED
        BY <1>2, <1>3 DEF Byte
    <2>2. d[k] = data[k]
      BY <2>1 DEF WithWord
    <2> HIDE DEF d, n, p
    <2> QED
      BY <1>5, <2>1, <2>2
  <1>7. \A k \in Unread : data'[k] = data[k]
    <2>1. Unread \subseteq Byte
      BY CursorsAre DEF RingInv, Unread, Byte
    <2> HIDE DEF n, p
    <2> QED
      BY <1>2, <1>6, <2>1
  <1>8. data'[p] = Word(push.rec.len)
    <2>1. p \in Byte /\ p \notin (p + LenBytes)..(p + n - 1)
      <3> HIDE DEF n, p
      <3> QED
        BY <1>2, <1>3 DEF Byte
    <2>2. d[p] = Word(push.rec.len)
      BY <2>1 DEF WithWord
    <2> HIDE DEF d, n, p
    <2> QED
      BY <1>5, <2>1, <2>2
  <1>9. Holds(push.head, push.rec)'
    <2>1. \A i \in (p + LenBytes)..(p + n - 1) : data'[i] = Body(push.rec.val)
      <3> HIDE DEF d, n, p
      <3>1. \A i \in (p + LenBytes)..(p + n - 1) : i \in Byte
        BY <1>2, <1>3 DEF Byte
      <3> QED
        BY <1>5, <3>1
    <2>2. p + n <= Capacity
      <3> HIDE DEF n, p
      <3> QED
        BY <1>2, <1>3
    <2>3. Need(push.rec)' = n
      BY <1>4 DEF Need
    <2> QED
      BY <1>4, <1>8, <2>1, <2>2, <2>3 DEF Holds
  <1>10. Writes'
    <2>1. Need(push.rec)' = n
      BY <1>4 DEF Need
    <2>2. CASE p = head /\ Ahead(n)
      <3>1. Ahead(Need(push.rec))'
        BY <1>1, <2>1, <2>2 DEF Ahead
      <3> QED
        BY <1>1, <1>4, <1>9, <2>1, <2>2, <3>1 DEF Writes, Ahead
    <2>3. CASE /\ p = 0 /\ tail <= head /\ n < tail
               /\ head + LenBytes <= Capacity => data[head] = WrapMarker
      <3>1. data'[head] = data[head]
        <4>1. head \in Byte /\ head \notin p..(p + n - 1)
          <5> HIDE DEF n, p
          <5> QED
            BY <1>2, <2>3, CursorsAre DEF RingInv, Byte
        <4> QED
          BY <1>6, <4>1
      <3> QED
        BY <1>1, <1>4, <1>9, <2>1, <2>3, <3>1 DEF Writes
    <2> QED
      BY <2>2, <2>3 DEF RingInv, Writes, PushFill
  <1> QED
    BY <1>1, <1>7, <1>10, KeepsPlaces, ReadsKept

\* The record becomes the queue's last, at the place it was written to.
LEMMA PushPublishKeeps ==
  ASSUME RingInv, RingTypeOK', PushPublish
  PROVE  RingInv'
  <1> USE DEF ctrl, history
  <1> DEFINE n == Need(push.rec)
             p == push.head
             l == Len(queued)
  <1>1. PICK at \in [1..Len(queued) -> Byte] : Placed(at) /\ Reads(at)
    BY DEF RingInv
  <1>2. UNCHANGED <<tail, data, pop>> /\ RingTypeOK /\ push.at = "publish" /\ push'.at = "signal"
        /\ push.rec \in Record
    BY PushIs DEF PushPublish, RingInv
  <1>3. /\ n \in Nat /\ n > LenBytes /\ p \in 0..(Capacity - 1) /\ p + n \in 1..Capacity
        /\ AsByte(p + n) \in 0..(Capacity - 1)
        /\ Dist(tail, p) + n <= Dist(tail, AsByte(p + n))
        /\ Dist(tail, head) <= Dist(tail, p)
    BY <1>2, FreeAhead DEF RingInv
  <1>4. head' = AsByte(p + n)
    <2>1. p + n \in 0..Capacity
      BY <1>3, CursorsAre, <1>2
    <2> QED
      BY <2>1, AsByteIsMod DEF PushPublish
  <1>5. /\ l \in Nat /\ Len(queued') = l + 1 /\ queued'[l + 1] = push.rec
        /\ \A i \in 1..l : queued'[i] = queued[i]
        /\ queued' # << >>
    BY <1>2, QueueIs DEF PushPublish
  <1>6. \E to \in [1..Len(queued') -> Byte] :
          /\ to[l + 1] = p
          /\ \A i \in 1..l : to[i] = at[i] /\ i # l + 1 /\ i \in 1..(l + 1)
    <2> DEFINE to == [i \in 1..(l + 1) |-> IF i = l + 1 THEN p ELSE at[i]]
    <2>1. to \in [1..Len(queued') -> Byte]
      BY <1>3, <1>5 DEF Byte
    <2>2. /\ to[l + 1] = p
          /\ \A i \in 1..l : to[i] = at[i] /\ i # l + 1 /\ i \in 1..(l + 1)
      BY <1>5
    <2> QED
      BY <2>1, <2>2
  <1>7. PICK to \in [1..Len(queued') -> Byte] :
          /\ to[l + 1] = p
          /\ \A i \in 1..l : to[i] = at[i] /\ i # l + 1 /\ i \in 1..(l + 1)
    BY <1>6
  <1>8. \A i \in 1..l : /\ Need(queued[i]) \in Nat /\ at[i] \in 0..(Capacity - 1)
                        /\ Holds(at[i], queued[i])
                        /\ Dist(tail, at[i]) + Need(queued[i]) <= Dist(tail, head)
    BY <1>1, <1>2, PlaceOf
  <1>9. Holds(p, push.rec) /\ Leads(head, p)
    BY <1>2 DEF RingInv, Writes, Leads
  <1>10. /\ Dist(tail, p) \in Int /\ Dist(tail, head) \in Int /\ Dist(tail, head') \in Int
         /\ \A i \in 1..l : Dist(tail, at[i]) \in Int
    <2>1. \A x \in 0..(Capacity - 1) : Dist(tail, x) \in Int
      BY <1>2, CursorsAre DEF Dist
    <2>2. head \in 0..(Capacity - 1) /\ head' \in 0..(Capacity - 1)
      BY <1>2, <1>3, <1>4, CursorsAre
    <2> QED
      BY <1>3, <1>8, <2>1, <2>2
  <1> HIDE DEF p, n
  <1>11. \A i \in 1..l : /\ Dist(tail, at[i]) + Need(queued[i]) <= Dist(tail, head')
                         /\ Dist(tail, at[i]) + Need(queued[i]) <= Dist(tail, p)
    <2> TAKE i \in 1..l
    <2>1. Need(queued[i]) \in Nat /\ Dist(tail, at[i]) + Need(queued[i]) <= Dist(tail, head)
      BY <1>8
    <2>2. Dist(tail, at[i]) \in Int
      BY <1>10
    <2>3. Dist(tail, p) + n <= Dist(tail, head') /\ n \in Nat
      BY <1>3, <1>4
    <2> DEFINE a == Dist(tail, at[i])  b == Need(queued[i])  c == Dist(tail, head)
               e == Dist(tail, p)  f == Dist(tail, head')
    <2>4. a \in Int /\ b \in Nat /\ c \in Int /\ e \in Int /\ f \in Int /\ n \in Nat
          /\ a + b <= c /\ c <= e /\ e + n <= f
      BY <1>3, <1>10, <2>1, <2>2, <2>3
    <2> SUFFICES a + b <= f /\ a + b <= e
      OBVIOUS
    <2> HIDE DEF a, b, c, e, f
    <2> QED
      BY <2>4
  <1>12. \A i \in 1..(l + 1) :
           Holds(to[i], queued'[i]) /\ Dist(tail, to[i]) + Need(queued'[i]) <= Dist(tail, head')
    <2> TAKE i \in 1..(l + 1)
    <2>1. CASE i = l + 1
      BY <1>3, <1>4, <1>5, <1>7, <1>9, <2>1 DEF n
    <2>2. CASE i \in 1..l
      BY <1>5, <1>7, <1>8, <1>11, <2>2
    <2> QED
      BY <1>5, <2>1, <2>2
  <1>13. \A i, j \in 1..(l + 1) : i < j =>
           Dist(tail, to[i]) + Need(queued'[i]) <= Dist(tail, to[j])
    <2> TAKE i, j \in 1..(l + 1)
    <2> HAVE i < j
    <2>1. i \in 1..l /\ (j = l + 1 \/ j \in 1..l)
      BY <1>5
    <2>2. to[i] = at[i] /\ queued'[i] = queued[i]
      BY <1>5, <1>7, <2>1
    <2>3. CASE j = l + 1
      BY <1>7, <1>11, <2>1, <2>2, <2>3
    <2>4. CASE j \in 1..l
      <3>1. Dist(tail, at[i]) + Need(queued[i]) <= Dist(tail, at[j])
        BY <1>1, <2>1, <2>4 DEF Placed
      <3> QED
        BY <1>7, <2>2, <2>4, <3>1
    <2> QED
      BY <2>1, <2>3, <2>4
  <1>13a. \A i, j \in 1..(l + 1) : i < j => Dist(tail, to[i]) + (j - i) <= Dist(tail, to[j])
    <2> TAKE i, j \in 1..(l + 1)
    <2> HAVE i < j
    <2>1. i \in 1..l /\ (j = l + 1 \/ j \in 1..l) /\ l \in 1..l /\ i \in Nat
      BY <1>5
    <2>2. to[i] = at[i] /\ to[l] = at[l] /\ queued'[l] = queued[l]
      BY <1>5, <1>7, <2>1
    <2>3. CASE j \in 1..l
      <3>1. Dist(tail, at[i]) + (j - i) <= Dist(tail, at[j])
        BY <1>1, <2>1, <2>3 DEF Placed
      <3> QED
        BY <1>7, <2>2, <2>3, <3>1
    <2>4. CASE j = l + 1
      <3> DEFINE a == Dist(tail, at[i])  b == Dist(tail, at[l])  c == Dist(tail, p)
      <3>1. a \in Int /\ b \in Int /\ c \in Int
        BY <1>10, <2>1
      <3>2. b + 1 <= c
        <4>1. b + Need(queued[l]) <= c /\ Need(queued[l]) \in Nat /\ Need(queued[l]) > 0
          BY <1>11, <1>2, <2>1, QueueIs, CursorsAre
        <4> HIDE DEF b, c
        <4> QED
          BY <3>1, <4>1
      <3>3. a + (l - i) <= b
        <4>1. CASE i = l
          <5>1. a = b /\ l - i = 0
            BY <1>5, <4>1
          <5> HIDE DEF a, b
          <5> QED
            BY <3>1, <5>1
        <4>2. CASE i # l
          <5>1. i < l
            BY <1>5, <2>1, <4>2
          <5> QED
            BY <1>1, <2>1, <5>1 DEF Placed
        <4> QED
          BY <4>1, <4>2
      <3> HIDE DEF a, b, c
      <3>4. a + (l + 1 - i) <= c
        BY <1>5, <2>1, <3>1, <3>2, <3>3
      <3> QED
        BY <1>7, <2>2, <2>4, <3>4 DEF a, c
    <2> QED
      BY <2>1, <2>3, <2>4
  <1>14. \A i \in 1..l : Leads(AsByte(to[i] + Need(queued'[i])), to[i + 1])
    <2> TAKE i \in 1..l
    <2>1. to[i] = at[i] /\ queued'[i] = queued[i]
      BY <1>5, <1>7
    <2>2. CASE i = l
      <3>1. queued # << >>
        BY <1>2, <1>5, <2>2, QueueIs
      <3>2. AsByte(at[l] + Need(queued[l])) = head
        BY <1>1, <3>1 DEF Placed
      <3> QED
        BY <1>7, <1>9, <2>1, <2>2, <3>2
    <2>3. CASE i < l
      <3>1. i \in 1..(l - 1) /\ i + 1 \in 1..l
        BY <1>5, <2>3
      <3>2. Leads(AsByte(at[i] + Need(queued[i])), at[i + 1])
        BY <1>1, <3>1 DEF Placed
      <3> QED
        BY <1>7, <2>1, <3>1, <3>2
    <2> QED
      BY <1>5, <2>2, <2>3
  <1>15. Leads(tail, to[1]) /\ (queued # << >> => to[1] = at[1] /\ queued'[1] = queued[1])
    <2>1. CASE queued = << >>
      <3>1. l = 0 /\ tail = head
        BY <1>1, <1>2, <2>1, QueueIs DEF Placed
      <3> QED
        BY <1>7, <1>9, <2>1, <3>1
    <2>2. CASE queued # << >>
      <3>1. 1 \in 1..l /\ Leads(tail, at[1])
        BY <1>1, <1>2, <2>2, QueueIs DEF Placed
      <3> QED
        BY <1>5, <1>7, <3>1
    <2> QED
      BY <2>1, <2>2
  <1>16. AsByte(to[l + 1] + Need(queued'[l + 1])) = head'
    BY <1>4, <1>5, <1>7 DEF n
  <1>17. Placed(to)'
    <2>1. Len(queued') - 1 = l /\ Len(queued') = l + 1
      BY <1>5
    <2>2. \A i : Need(queued[i])' = Need(queued'[i])
      BY DEF Need
    <2> QED
      BY <1>2, <1>5, <1>12, <1>13, <1>13a, <1>14, <1>15, <1>16, <2>1
      DEF Placed, Holds, Leads, Dist, Need, AsByte
  <1>18. Reads(to)'
    BY <1>1, <1>2, <1>15, <1>5 DEF Reads
  <1>19. Writes'
    BY <1>2 DEF Writes
  <1> QED
    BY <1>17, <1>18, <1>19 DEF RingInv, Byte

LEMMA PushEndKeeps ==
  ASSUME RingInv, RingTypeOK', PushSignal \/ PushNotify
  PROVE  RingInv'
  <1> USE DEF ctrl, history
  <1>1. UNCHANGED <<head, tail, queued, data>> /\ push'.at \in {"notify", "rest"}
    BY DEF PushSignal, PushNotify, Resting
  <1>2. Writes'
    BY <1>1 DEF Writes
  <1>3. \A at \in [1..Len(queued) -> Byte] : Placed(at) /\ Reads(at) => Reads(at)'
    <2>1. pop' = pop \/ pop'.at = "load"
      BY DEF PushSignal, PushNotify, Popping
    <2> QED
      BY <1>1, <2>1 DEF Reads
  <1> QED
    BY <1>1, <1>2, <1>3, KeepsPlaces

-----------------------------------------------------------------------------
(***************************************************************************)
(* The reader.                                                             *)
(***************************************************************************)

\* When the tail moves on by d bytes, what lies behind them comes nearer.
LEMMA DistMoves ==
  ASSUME NEW t \in 0..(Capacity - 1), NEW x \in 0..(Capacity - 1), NEW d \in Nat,
         t + d <= Capacity, d <= Dist(t, x)
  PROVE  /\ AsByte(t + d) \in 0..(Capacity - 1)
         /\ Dist(t, x) \in Nat /\ Dist(AsByte(t + d), x) = Dist(t, x) - d
  <1>1. Capacity \in Nat \ {0}
    BY RingAssumption
  <1>2. CASE t + d = Capacity
    BY <1>1, <1>2 DEF AsByte, Dist
  <1>3. CASE t + d < Capacity
    <2>1. AsByte(t + d) = t + d
      BY <1>1, <1>3 DEF AsByte
    <2>2. Dist(t, x) \in Nat /\ Dist(t + d, x) = Dist(t, x) - d
      BY <1>1, <1>3 DEF Dist
    <2> QED
      BY <1>1, <1>3, <2>1, <2>2
  <1> QED
    BY <1>1, <1>2, <1>3

\* What the writer has learned stays so when the tail moves on, as far as the
\* head.
LEMMA WritesMove ==
  ASSUME RingTypeOK, RingTypeOK', Writes, NEW d \in Nat,
         tail + d <= Capacity, d <= Dist(tail, head), tail' = AsByte(tail + d),
         UNCHANGED <<head, data, push>>
  PROVE  Writes'
  <1>1. Need(push.rec)' = Need(push.rec) /\ Holds(push.head, push.rec)' = Holds(push.head, push.rec)
    BY DEF Need, Holds
  <1>2. tail <= head => tail' \in tail..head
    BY CursorsAre DEF AsByte, Dist
  <1>3. tail > head => tail' = 0 \/ (tail' \in Nat /\ tail' >= tail)
    BY CursorsAre DEF AsByte, Dist
  <1>4. tail' \in 0..(Capacity - 1)
    BY DEF RingTypeOK, Byte
  <1>5. push.at \in {"wrap", "fill", "publish"} => Need(push.rec) \in Nat /\ push.tail \in 0..(Capacity - 1)
    BY PushIs, NeedIs DEF Byte
  <1> DEFINE n == Need(push.rec)
  <1>6. ASSUME n \in Nat, Ahead(n) PROVE Ahead(Need(push.rec))'
    <2>1. head + n <= Capacity /\ head + n < (IF tail' > head THEN tail' ELSE tail' + Capacity)
      <3> HIDE DEF n
      <3> QED
        BY <1>2, <1>3, <1>4, <1>6, CursorsAre DEF Ahead
    <2> QED
      BY <1>1, <2>1 DEF Ahead
  <1>7. push.at = "wrap" => push.tail <= tail' /\ tail' <= head
    BY <1>2, <1>4, <1>5, CursorsAre DEF Writes
  <1>8. ASSUME n \in Nat, tail <= head, n < tail PROVE n < tail' /\ tail' <= head
    <2> HIDE DEF n
    <2> QED
      BY <1>2, <1>4, <1>8, CursorsAre
  <1> QED
    BY <1>1, <1>5, <1>6, <1>7, <1>8 DEF Writes

\* Steps of the reader that read no record.
LEMMA PopWaitKeeps ==
  ASSUME RingInv, RingTypeOK', PopLoad \/ WaitSeen \/ WaitCompare \/ WaitPark \/ WaitTimeout
  PROVE  RingInv'
  <1> USE DEF ctrl, history
  <1>1. UNCHANGED <<head, tail, queued, data, push>>
    BY DEF PopLoad, WaitSeen, WaitCompare, WaitPark, WaitTimeout
  <1>2. \/ pop'.at \in {"seen", "compare", "load", "park", "parked"}
        \/ pop'.at = "marker" /\ tail # head
    <2>1. CASE PopLoad
      BY <2>1 DEF PopLoad
    <2>2. CASE WaitSeen
      BY <2>2 DEF WaitSeen
    <2>3. CASE WaitCompare
      <3>1. pop = [at |-> pop.at, seen |-> pop.seen]
        BY <2>3, PopIs DEF RingInv, WaitCompare
      <3> QED
        BY <2>3, <3>1 DEF WaitCompare, Popping
    <2>4. CASE WaitPark \/ WaitTimeout
      BY <2>4 DEF WaitPark, WaitTimeout, Popping
    <2> QED
      BY <2>1, <2>2, <2>3, <2>4
  <1>3. \A at \in [1..Len(queued) -> Byte] : Placed(at) /\ Reads(at) => Reads(at)'
    BY <1>1, <1>2 DEF Reads, Placed
  <1>4. Writes'
    BY <1>1 DEF RingInv, Writes, Ahead, Holds, Need
  <1> QED
    BY <1>1, <1>3, <1>4, KeepsPlaces

\* At a marker the first record is at the start of the data area.
LEMMA MarkerLeads ==
  ASSUME RingTypeOK, NEW at \in [1..Len(queued) -> Byte], Placed(at), queued # << >>, AtMarker
  PROVE  at[1] = 0 /\ at[1] # tail
  <1>1. 1 \in 1..Len(queued)
    BY QueueIs
  <1>2. Holds(at[1], queued[1]) /\ Leads(tail, at[1])
    BY <1>1 DEF Placed
  <1>3. at[1] # tail
    BY <1>2, CellKinds DEF Holds, AtMarker
  <1> QED
    BY <1>2, <1>3 DEF Leads

LEMMA PopMarkerKeeps ==
  ASSUME RingInv, RingTypeOK', PopMarker
  PROVE  RingInv'
  <1> USE DEF ctrl, history
  <1>1. PICK at \in [1..Len(queued) -> Byte] : Placed(at) /\ Reads(at)
    BY DEF RingInv
  <1>2. /\ RingTypeOK /\ Writes /\ queued # << >> /\ 1 \in 1..Len(queued)
        /\ UNCHANGED <<head, data, push, queued>>
        /\ pop'.at \in {"seen", "read"}
    BY <1>1, QueueIs DEF RingInv, PopMarker, Reads
  <1>3. CASE ~AtMarker
    <2>1. tail' = tail
      BY <1>3 DEF PopMarker
    <2>2. Leads(tail, at[1])
      BY <1>1, <1>2 DEF Placed
    <2>3. Reads(at)'
      <3>1. at[1] = tail \/ tail + LenBytes > Capacity
        BY <1>2, <1>3, <2>2, CursorsAre DEF Leads, AtMarker
      <3> QED
        BY <1>2, <2>1, <3>1 DEF Reads
    <2>4. Placed(at)'
      BY <1>1, <1>2, <2>1, PlacedKept
    <2>5. Writes'
      BY <1>2, <2>1 DEF Writes, Ahead, Holds, Need
    <2> QED
      BY <1>2, <2>3, <2>4, <2>5 DEF RingInv, Byte
  <1>4. CASE AtMarker
    <2>1. at[1] = 0 /\ at[1] # tail /\ tail' = 0
      BY <1>1, <1>2, <1>4, MarkerLeads DEF PopMarker
    <2> DEFINE d == Capacity - tail
    <2>2. /\ d \in Nat /\ tail + d <= Capacity /\ tail' = AsByte(tail + d)
          /\ d = Dist(tail, 0) /\ tail \in 0..(Capacity - 1) /\ head \in 0..(Capacity - 1)
      BY <1>2, <2>1, CursorsAre DEF AsByte, Dist
    <2>3. \A x \in 0..(Capacity - 1) : d <= Dist(tail, x) =>
            /\ Dist(tail, x) \in Nat /\ Dist(tail', x) = Dist(tail, x) - d
      <3> HIDE DEF d
      <3> QED
        BY <2>2, DistMoves
    <2>4. \A i \in 1..Len(queued) : /\ at[i] \in 0..(Capacity - 1)
                                    /\ Holds(at[i], queued[i]) /\ Need(queued[i]) \in Nat
                                    /\ d <= Dist(tail, at[i])
                                    /\ Dist(tail, at[i]) + Need(queued[i]) <= Dist(tail, head)
      <3> TAKE i \in 1..Len(queued)
      <3>1. /\ at[i] \in 0..(Capacity - 1) /\ Holds(at[i], queued[i])
            /\ Need(queued[i]) \in Nat /\ i \in Nat
            /\ Dist(tail, at[i]) + Need(queued[i]) <= Dist(tail, head)
        BY <1>1, <1>2, PlaceOf
      <3>2. CASE i = 1
        BY <2>1, <2>2, <3>1, <3>2
      <3>3. CASE i > 1
        <4>1. Dist(tail, at[1]) + Need(queued[1]) <= Dist(tail, at[i])
          BY <1>1, <1>2, <3>3 DEF Placed
        <4>2. Need(queued[1]) \in Nat /\ d = Dist(tail, at[1])
          BY <1>2, <2>1, <2>2, QueueIs
        <4>3. Dist(tail, at[i]) \in Int
          BY <2>2, <3>1 DEF Dist
        <4> HIDE DEF d
        <4> QED
          BY <2>2, <3>1, <4>1, <4>2, <4>3
      <3> QED
        BY <3>1, <3>2, <3>3
    <2>5. d <= Dist(tail, head)
      <3>1. d <= Dist(tail, at[1]) /\ Dist(tail, at[1]) + Need(queued[1]) <= Dist(tail, head)
            /\ Need(queued[1]) \in Nat /\ at[1] \in 0..(Capacity - 1)
        BY <1>2, <2>4
      <3>2. Dist(tail, head) \in Int /\ Dist(tail, at[1]) \in Int
        BY <2>2, <3>1 DEF Dist
      <3> HIDE DEF d
      <3> QED
        BY <2>2, <3>1, <3>2
    <2> HIDE DEF d
    <2>6. Writes'
      BY <1>2, <2>2, <2>5, WritesMove
    <2>7. \A i \in 1..Len(queued) : Dist(tail', at[i]) + Need(queued[i]) <= Dist(tail', head)
      <3> TAKE i \in 1..Len(queued)
      <3>1. /\ Dist(tail', at[i]) = Dist(tail, at[i]) - d /\ Dist(tail, at[i]) \in Nat
            /\ Dist(tail', head) = Dist(tail, head) - d /\ Dist(tail, head) \in Nat
        BY <2>2, <2>3, <2>4, <2>5
      <3>2. Need(queued[i]) \in Nat /\ Dist(tail, at[i]) + Need(queued[i]) <= Dist(tail, head)
        BY <2>4
      <3> DEFINE a == Dist(tail, at[i])  b == Need(queued[i])  c == Dist(tail, head)
      <3>3. a \in Nat /\ b \in Nat /\ c \in Nat /\ a + b <= c /\ d \in Nat
        BY <2>2, <3>1, <3>2
      <3> HIDE DEF a, b, c
      <3>4. (a - d) + b <= c - d
        BY <3>3
      <3> QED
        BY <3>1, <3>4 DEF a, b, c
    <2>8. \A i, j \in 1..Len(queued) : i < j =>
            Dist(tail', at[i]) + Need(queued[i]) <= Dist(tail', at[j])
      <3> TAKE i, j \in 1..Len(queued)
      <3> HAVE i < j
      <3>1. /\ Dist(tail', at[i]) = Dist(tail, at[i]) - d /\ Dist(tail, at[i]) \in Nat
            /\ Dist(tail', at[j]) = Dist(tail, at[j]) - d /\ Dist(tail, at[j]) \in Nat
        BY <2>2, <2>3, <2>4
      <3>2. Need(queued[i]) \in Nat /\ Dist(tail, at[i]) + Need(queued[i]) <= Dist(tail, at[j])
        BY <1>1, <2>4 DEF Placed
      <3> DEFINE a == Dist(tail, at[i])  b == Need(queued[i])  c == Dist(tail, at[j])
      <3>3. a \in Nat /\ b \in Nat /\ c \in Nat /\ a + b <= c /\ d \in Nat
        BY <2>2, <3>1, <3>2
      <3> HIDE DEF a, b, c
      <3>4. (a - d) + b <= c - d
        BY <3>3
      <3> QED
        BY <3>1, <3>4 DEF a, b, c
    <2>8a. \A i, j \in 1..Len(queued) : i < j =>
             Dist(tail', at[i]) + (j - i) <= Dist(tail', at[j])
      <3> TAKE i, j \in 1..Len(queued)
      <3> HAVE i < j
      <3> DEFINE a == Dist(tail, at[i])  c == Dist(tail, at[j])
      <3>1. /\ Dist(tail', at[i]) = a - d /\ a \in Nat
            /\ Dist(tail', at[j]) = c - d /\ c \in Nat
        BY <2>2, <2>3, <2>4
      <3>2. i \in Nat /\ j \in Nat /\ a + (j - i) <= c
        BY <1>1, <1>2 DEF Placed
      <3> HIDE DEF a, c
      <3>3. (a - d) + (j - i) <= c - d
        BY <2>2, <3>1, <3>2
      <3> QED
        BY <3>1, <3>3
    <2>9. Placed(at)'
      <3>1. \A i \in 1..Len(queued) : Holds(at[i], queued[i])'
        BY <1>2, <2>4 DEF Holds, Need
      <3>2. \A i \in 1..(Len(queued) - 1) :
              Leads(AsByte(at[i] + Need(queued[i])), at[i + 1])'
        BY <1>1, <1>2 DEF Placed, Leads, AsByte, Need
      <3>3. /\ tail' = at[1]
            /\ AsByte(at[Len(queued)] + Need(queued[Len(queued)]))' = head'
        BY <1>1, <1>2, <2>1 DEF Placed, Leads, AsByte, Need
      <3> QED
        BY <1>2, <2>7, <2>8, <2>8a, <3>1, <3>2, <3>3 DEF Placed, Dist, Need, Leads
    <2>10. Reads(at)'
      BY <1>2, <2>1 DEF Reads
    <2> QED
      BY <1>2, <2>6, <2>9, <2>10 DEF RingInv, Byte
  <1> QED
    BY <1>3, <1>4

\* At the first record's place the reader gets that record, whole.
LEMMA FirstIsRead ==
  ASSUME RingTypeOK, NEW at \in [1..Len(queued) -> Byte], Placed(at), queued # << >>,
         at[1] = tail, NEW r \in Record, data[tail] = Word(r.len),
         Slice(tail + LenBytes, r.len) \subseteq {Body(r.val)}
  PROVE  r = queued[1]
  <1> DEFINE q == queued[1]
  <1>1. 1 \in 1..Len(queued)
    BY QueueIs
  <1>2. /\ Holds(tail, q) /\ q \in Record /\ q.len \in Nat \ {0}
        /\ Need(q) = LenBytes + q.len /\ tail \in 0..(Capacity - 1) /\ LenBytes \in Nat
    BY <1>1, PlaceOf, CursorsAre
  <1>3. r.len = q.len
    BY <1>2, CellKinds DEF Holds
  <1>4. r.val = q.val
    <2> DEFINE k == tail + LenBytes
    <2>1. /\ k \in (tail + LenBytes)..(tail + Need(q) - 1)
          /\ k \in (tail + LenBytes)..(tail + LenBytes + q.len - 1)
      BY <1>2
    <2>2. data[k] = Body(q.val)
      BY <1>2, <2>1 DEF Holds
    <2>3. data[k] \in Slice(tail + LenBytes, r.len)
      BY <1>3, <2>1 DEF Slice
    <2> QED
      BY <2>2, <2>3, CellKinds
  <1> QED
    BY <1>2, <1>3, <1>4 DEF Record

\* And there is one to get.
LEMMA FirstIsThere ==
  ASSUME RingTypeOK, NEW at \in [1..Len(queued) -> Byte], Placed(at), queued # << >>,
         at[1] = tail
  PROVE  /\ queued[1] \in Record /\ data[tail] = Word(queued[1].len)
         /\ Slice(tail + LenBytes, queued[1].len) \subseteq {Body(queued[1].val)}
         /\ data[tail] # WrapMarker
  <1> DEFINE q == queued[1]
  <1>1. 1 \in 1..Len(queued)
    BY QueueIs
  <1>2. /\ Holds(tail, q) /\ q \in Record /\ q.len \in Nat \ {0}
        /\ Need(q) = LenBytes + q.len /\ tail \in 0..(Capacity - 1) /\ LenBytes \in Nat
    BY <1>1, PlaceOf, CursorsAre
  <1>3. tail + LenBytes + q.len - 1 = tail + Need(q) - 1
    BY <1>2
  <1>4. data[tail] = Word(q.len)
    BY <1>2 DEF Holds
  <1>5. \A i \in (tail + LenBytes)..(tail + LenBytes + q.len - 1) : data[i] = Body(q.val)
    BY <1>2, <1>3 DEF Holds
  <1> QED
    BY <1>2, <1>4, <1>5, CellKinds DEF Slice

LEMMA PopReadKeeps ==
  ASSUME RingInv, RingTypeOK', PopRead
  PROVE  RingInv'
  <1> USE DEF ctrl, history
  <1>1. UNCHANGED <<head, tail, queued, data, push>> /\ RingTypeOK
    BY DEF PopRead, RingInv
  <1>2. Writes'
    BY <1>1 DEF RingInv, Writes, Ahead, Holds, Need
  <1>3. ASSUME NEW at \in [1..Len(queued) -> Byte], Placed(at), Reads(at)
        PROVE  Reads(at)'
    <2> DEFINE Found(r) == /\ data[tail] = Word(r.len)
                           /\ Slice(tail + LenBytes, r.len) \subseteq {Body(r.val)}
    <2>1. queued # << >> /\ (at[1] = tail \/ tail + LenBytes > Capacity)
      BY <1>3 DEF Reads, PopRead
    <2>2. CASE tail + LenBytes > Capacity
      BY <2>2 DEF PopRead, Reads
    <2>3. CASE ~(tail + LenBytes > Capacity)
      <3>1. at[1] = tail
        BY <2>1, <2>3
      <3>2. Found(queued[1]) /\ queued[1] \in Record /\ data[tail] # WrapMarker
        BY <1>1, <1>3, <2>1, <3>1, FirstIsThere
      <3>3. \A r \in Record : Found(r) => r = queued[1]
        BY <1>1, <1>3, <2>1, <3>1, FirstIsRead
      <3>4. pop' = [at |-> "store", rec |-> CHOOSE r \in Record : Found(r)]
        BY <2>3, <3>2 DEF PopRead
      <3>5. (CHOOSE r \in Record : Found(r)) = queued[1]
        <4> HIDE DEF Found
        <4> QED
          BY <3>2, <3>3
      <3> QED
        BY <1>1, <2>1, <3>1, <3>4, <3>5 DEF Reads
    <2> QED
      BY <2>2, <2>3
  <1> QED
    BY <1>1, <1>2, <1>3, KeepsPlaces

\* The record read is the queue's first; the rest of the queue moves up.
LEMMA PopStoreKeeps ==
  ASSUME RingInv, RingTypeOK', PopStore
  PROVE  RingInv'
  <1> USE DEF ctrl, history
  <1> DEFINE l == Len(queued)
             d == Need(pop.rec)
  <1>1. PICK at \in [1..Len(queued) -> Byte] : Placed(at) /\ Reads(at)
    BY DEF RingInv
  <1>2. /\ RingTypeOK /\ Writes /\ queued # << >> /\ at[1] = tail /\ pop.rec = queued[1]
        /\ UNCHANGED <<head, data, push>> /\ queued' = Tail(queued) /\ pop'.at = "load"
    BY <1>1 DEF RingInv, PopStore, Reads, Popping
  <1>3. /\ l \in Nat /\ l > 0 /\ 1 \in 1..l
        /\ Len(queued') = l - 1 /\ \A i \in 1..(l - 1) : queued'[i] = queued[i + 1]
        /\ \A i \in 1..(l - 1) : i + 1 \in 1..l
    BY <1>2, QueueIs
  <1>4. /\ d \in Nat /\ tail + d \in 1..Capacity /\ tail \in 0..(Capacity - 1)
        /\ head \in 0..(Capacity - 1)
        /\ Dist(tail, tail) + d <= Dist(tail, head)
    BY <1>1, <1>2, <1>3, PlaceOf, CursorsAre
  <1>5. tail' = AsByte(tail + d)
    <2>1. tail + d \in 0..Capacity
      BY <1>4
    <2> QED
      BY <2>1, AsByteIsMod DEF PopStore
  <1>6. d <= Dist(tail, head)
    <2>1. Dist(tail, tail) = 0 /\ Dist(tail, head) \in Int
      BY <1>4, CursorsAre, <1>2 DEF Dist
    <2> QED
      BY <1>4, <2>1
  <1>7. \A x \in 0..(Capacity - 1) : d <= Dist(tail, x) =>
          /\ Dist(tail, x) \in Nat /\ Dist(tail', x) = Dist(tail, x) - d
    <2> HIDE DEF d
    <2>1. tail + d <= Capacity
      BY <1>4, CursorsAre, <1>2
    <2> QED
      BY <1>4, <1>5, <2>1, DistMoves
  <1>8. \A i \in 1..(l - 1) :
          /\ at[i + 1] \in 0..(Capacity - 1) /\ Holds(at[i + 1], queued[i + 1])
          /\ Need(queued[i + 1]) \in Nat
          /\ Dist(tail, at[i + 1]) + Need(queued[i + 1]) <= Dist(tail, head)
          /\ d <= Dist(tail, at[i + 1])
    <2> TAKE i \in 1..(l - 1)
    <2>1. i + 1 \in 1..l /\ 1 < i + 1
      BY <1>3
    <2>2. /\ at[i + 1] \in 0..(Capacity - 1) /\ Holds(at[i + 1], queued[i + 1])
          /\ Need(queued[i + 1]) \in Nat
          /\ Dist(tail, at[i + 1]) + Need(queued[i + 1]) <= Dist(tail, head)
      BY <1>1, <1>2, <2>1, PlaceOf
    <2>3. Dist(tail, tail) + d <= Dist(tail, at[i + 1])
      BY <1>1, <1>2, <1>3, <2>1 DEF Placed
    <2>4. Dist(tail, tail) = 0 /\ Dist(tail, at[i + 1]) \in Int
      BY <1>4, <2>2, CursorsAre, <1>2 DEF Dist
    <2> HIDE DEF d
    <2> QED
      BY <1>4, <2>2, <2>3, <2>4
  <1>9. Writes'
    <2> HIDE DEF d
    <2>1. tail + d <= Capacity
      BY <1>4, CursorsAre, <1>2
    <2> QED
      BY <1>2, <1>4, <1>5, <1>6, <2>1, WritesMove
  <1>10. PICK to \in [1..Len(queued') -> Byte] : \A i \in 1..(l - 1) : to[i] = at[i + 1]
    <2> DEFINE f == [i \in 1..(l - 1) |-> at[i + 1]]
    <2>1. f \in [1..Len(queued') -> Byte] /\ \A i \in 1..(l - 1) : f[i] = at[i + 1]
      BY <1>3
    <2> QED
      BY <2>1
  <1> HIDE DEF d
  <1>11. \A i \in 1..(l - 1) : Dist(tail', to[i]) + Need(queued'[i]) <= Dist(tail', head)
    <2> TAKE i \in 1..(l - 1)
    <2> DEFINE a == Dist(tail, at[i + 1])  b == Need(queued[i + 1])  c == Dist(tail, head)
    <2>1. /\ Dist(tail', at[i + 1]) = a - d /\ a \in Nat
          /\ Dist(tail', head) = c - d /\ c \in Nat
      BY <1>4, <1>6, <1>7, <1>8
    <2>2. b \in Nat /\ a + b <= c
      BY <1>8
    <2>3. to[i] = at[i + 1] /\ queued'[i] = queued[i + 1]
      BY <1>3, <1>10
    <2> HIDE DEF a, c
    <2>4. (a - d) + b <= c - d
      BY <1>4, <2>1, <2>2
    <2> QED
      BY <2>1, <2>3, <2>4
  <1>12. \A i, j \in 1..(l - 1) : i < j =>
           Dist(tail', to[i]) + Need(queued'[i]) <= Dist(tail', to[j])
    <2> TAKE i, j \in 1..(l - 1)
    <2> HAVE i < j
    <2> DEFINE a == Dist(tail, at[i + 1])  b == Need(queued[i + 1])  c == Dist(tail, at[j + 1])
    <2>1. /\ Dist(tail', at[i + 1]) = a - d /\ a \in Nat
          /\ Dist(tail', at[j + 1]) = c - d /\ c \in Nat
      BY <1>4, <1>7, <1>8
    <2>2. b \in Nat /\ a + b <= c
      <3>1. i + 1 \in 1..l /\ j + 1 \in 1..l /\ i + 1 < j + 1
        BY <1>3
      <3> QED
        BY <1>1, <1>8, <3>1 DEF Placed
    <2>3. to[i] = at[i + 1] /\ queued'[i] = queued[i + 1] /\ to[j] = at[j + 1]
      BY <1>3, <1>10
    <2> HIDE DEF a, c
    <2>4. (a - d) + b <= c - d
      BY <1>4, <2>1, <2>2
    <2> QED
      BY <2>1, <2>3, <2>4
  <1>12a. \A i, j \in 1..(l - 1) : i < j => Dist(tail', to[i]) + (j - i) <= Dist(tail', to[j])
    <2> TAKE i, j \in 1..(l - 1)
    <2> HAVE i < j
    <2> DEFINE a == Dist(tail, at[i + 1])  c == Dist(tail, at[j + 1])
    <2>1. /\ Dist(tail', at[i + 1]) = a - d /\ a \in Nat
          /\ Dist(tail', at[j + 1]) = c - d /\ c \in Nat
      BY <1>4, <1>7, <1>8
    <2>2. i \in Nat /\ j \in Nat /\ a + (j - i) <= c
      <3>1. i + 1 \in 1..l /\ j + 1 \in 1..l /\ i + 1 < j + 1 /\ i \in Nat /\ j \in Nat
            /\ (j + 1) - (i + 1) = j - i
        BY <1>3
      <3>2. a + ((j + 1) - (i + 1)) <= c
        BY <1>1, <3>1 DEF Placed
      <3> QED
        BY <3>1, <3>2
    <2>3. to[i] = at[i + 1] /\ to[j] = at[j + 1]
      BY <1>10
    <2> HIDE DEF a, c
    <2>4. (a - d) + (j - i) <= c - d
      BY <1>4, <2>1, <2>2
    <2> QED
      BY <2>1, <2>3, <2>4
  <1>13. \A i \in 1..(l - 1) : Holds(to[i], queued[i])'
    BY <1>2, <1>3, <1>8, <1>10 DEF Holds, Need
  <1>14. \A i \in 1..(l - 2) : Leads(AsByte(to[i] + Need(queued'[i])), to[i + 1])
    <2> TAKE i \in 1..(l - 2)
    <2>1. i \in 1..(l - 1) /\ i + 1 \in 1..(l - 1) /\ i + 1 \in 1..(l - 1)
      BY <1>3
    <2>2. Leads(AsByte(at[i + 1] + Need(queued[i + 1])), at[i + 1 + 1])
      BY <1>1, <2>1 DEF Placed
    <2> QED
      BY <1>3, <1>10, <2>1, <2>2
  <1>15. queued' = << >> => tail' = head
    <2> HAVE queued' = << >>
    <2>1. l = 1
      BY <1>3
    <2>2. AsByte(at[1] + Need(queued[1])) = head
      BY <1>1, <1>2, <2>1 DEF Placed
    <2> QED
      BY <1>2, <1>5, <2>2 DEF d
  <1>16. queued' # << >> => /\ Leads(tail', to[1])
                            /\ AsByte(to[l - 1] + Need(queued'[l - 1])) = head
    <2> HAVE queued' # << >>
    <2>1. l # 1
      <3>1. queued' \in Seq(Record)
        BY DEF RingTypeOK
      <3> QED
        BY <1>3, <3>1
    <2>2. 1 \in 1..(l - 1) /\ l - 1 \in 1..(l - 1) /\ l - 1 + 1 = l
      BY <1>3, <2>1
    <2>3. Leads(AsByte(at[1] + Need(queued[1])), at[1 + 1])
      BY <1>1, <2>2 DEF Placed
    <2>4. AsByte(at[l] + Need(queued[l])) = head
      BY <1>1, <1>2 DEF Placed
    <2>5. to[1] = at[1 + 1] /\ to[l - 1] = at[l] /\ queued'[l - 1] = queued[l]
      BY <1>3, <1>10, <2>2
    <2> QED
      BY <1>2, <1>5, <2>3, <2>4, <2>5 DEF d
  <1>17. Placed(to)'
    <2>1. Len(queued') - 1 = l - 2 /\ Len(queued') = l - 1
      BY <1>3
    <2>2. \A p, q : Leads(p, q) => Leads(p, q)'
      BY <1>2 DEF Leads
    <2>3. \A i \in 1..(l - 2) : Leads(AsByte(to[i] + Need(queued[i])), to[i + 1])'
      BY <1>2, <1>14 DEF Leads, AsByte, Need
    <2>4. queued' # << >> => Leads(tail, to[1])'
      BY <1>2, <1>16 DEF Leads
    <2>5. queued' # << >> => AsByte(to[l - 1] + Need(queued'[l - 1])) = head'
      BY <1>2, <1>16
    <2> HIDE DEF l
    <2> QED
      BY <1>2, <1>11, <1>12, <1>12a, <1>13, <1>15, <2>1, <2>3, <2>4, <2>5 DEF Placed, Dist, AsByte, Need
  <1>18. Reads(to)'
    BY <1>2 DEF Reads
  <1> QED
    BY <1>2, <1>9, <1>17, <1>18 DEF RingInv, Byte

-----------------------------------------------------------------------------
(***************************************************************************)
(* The theorems of the specification.                                      *)
(***************************************************************************)

LEMMA RingInvInit == RingInit => RingInv
  <1> SUFFICES ASSUME RingInit PROVE RingInv
    OBVIOUS
  <1>1. Len(queued) = 0 /\ queued = << >> /\ tail = head
    BY DEF RingInit
  <1>2. PICK at \in [1..Len(queued) -> Byte] : TRUE
    <2> DEFINE f == [i \in 1..Len(queued) |-> 0]
    <2>1. f \in [1..Len(queued) -> Byte]
      BY RingAssumption DEF Byte
    <2> QED
      BY <2>1
  <1>3. Placed(at)
    BY <1>1 DEF Placed
  <1>4. Reads(at) /\ Writes
    BY DEF RingInit, Reads, Writes, Resting, Popping
  <1> QED
    BY <1>3, <1>4, RingTypedInit DEF RingInv

LEMMA RingInvStep == RingInv /\ [RingNext]_ringVars => RingInv'
  <1> SUFFICES ASSUME RingInv, [RingNext]_ringVars PROVE RingInv'
    OBVIOUS
  <1>1. RingTypeOK'
    <2>1. pop.at = "store" => queued # << >>
      BY DEF RingInv, Reads
    <2> QED
      BY <2>1, RingTypedPush, RingTypedPop, RingTypedSame DEF RingNext, RingInv
  <1>2. CASE \E r \in Record : PushLoad(r)
    BY <1>1, <1>2, PushLoadKeeps
  <1>3. CASE PushStep
    BY <1>1, <1>3, PushWrapKeeps, PushFillKeeps, PushPublishKeeps, PushEndKeeps DEF PushStep
  <1>4. CASE PopStep \/ WaitTimeout
    BY <1>1, <1>4, PopWaitKeeps, PopMarkerKeeps, PopReadKeeps, PopStoreKeeps DEF PopStep
  <1>5. CASE UNCHANGED ringVars
    <2>1. UNCHANGED <<head, tail, data, push, pop, queued>>
      BY <1>5 DEF ringVars, ctrl, history
    <2>2. Writes'
      BY <2>1 DEF RingInv, Writes, Ahead, Holds, Need
    <2>3. \A at \in [1..Len(queued) -> Byte] : Placed(at) /\ Reads(at) => Reads(at)'
      BY <2>1, ReadsKept
    <2> QED
      BY <1>1, <2>1, <2>2, <2>3, KeepsPlaces
  <1> QED
    BY <1>2, <1>3, <1>4, <1>5 DEF RingNext

LEMMA RingInvAlways == RingSpec => []RingInv
  <1> QED
    BY RingInvInit, RingInvStep, PTL DEF RingSpec

\* The control words stay inside the data area and every cell holds a part of
\* a record or a marker, whatever the sizes (kernel/shared-ring.ts).
THEOREM RingTypeCorrect == RingSpec => []RingTypeOK
  <1>1. RingInv => RingTypeOK
    BY DEF RingInv
  <1> QED
    BY <1>1, RingInvAlways, PTL

\* push writes no byte that pop may still read, although the tail push decides
\* by is old when it writes (freeBytes and the wrap in kernel/shared-ring.ts).
THEOREM WritesFree == RingSpec => []WritesAreFree
  <1>1. RingInv => WritesAreFree
    BY FreeAhead DEF RingInv, WritesAreFree
  <1> QED
    BY <1>1, RingInvAlways, PTL

\* pop never takes a length or a body that was not written as one: no torn
\* record, at any interleaving of the two threads and across every wrap.
THEOREM WholeRecords == RingSpec => [](pop.at # "garbage")
  <1>1. RingInv => pop.at # "garbage"
    BY DEF RingInv, Reads
  <1> QED
    BY <1>1, RingInvAlways, PTL

\* The ring is a queue: pop returns the records push accepted, once and in
\* their order.  Only the store of HEAD puts one, only the store of TAIL takes
\* one.  (That each comes out in the end is liveness.)
THEOREM RecordsInOrder == RingSpec => Q!FifoSafety
  <1>1. RingInit => Q!FifoInit
    BY DEF RingInit, Q!FifoInit
  <1>2. RingInv /\ [RingNext]_ringVars => [Q!FifoNext]_<<queued, got>>
    <2> SUFFICES ASSUME RingInv, [RingNext]_ringVars
                 PROVE  Q!FifoNext \/ UNCHANGED <<queued, got>>
      OBVIOUS
    <2>1. CASE PushPublish
      <3>1. push.rec \in Record
        BY <2>1, PushIs DEF RingInv, PushPublish
      <3>2. Q!Put(push.rec)
        BY <2>1 DEF PushPublish, Q!Put
      <3> QED
        BY <3>1, <3>2 DEF Q!FifoNext
    <2>2. CASE PopStore
      <3>1. queued # << >> /\ pop.rec = queued[1]
        BY <2>2 DEF RingInv, Reads, PopStore
      <3>2. Q!Take
        BY <2>2, <3>1 DEF PopStore, Q!Take
      <3> QED
        BY <3>2 DEF Q!FifoNext
    <2>3. CASE ~PushPublish /\ ~PopStore
      BY <2>3 DEF RingNext, PushLoad, PushStep, PushWrap, PushFill, PushSignal, PushNotify,
                  PopStep, PopLoad, PopMarker, PopRead, WaitSeen, WaitCompare, WaitPark,
                  WaitTimeout, ringVars, history
    <2> QED
      BY <2>1, <2>2, <2>3
  <1> QED
    BY <1>1, <1>2, RingInvAlways, PTL DEF RingSpec, Q!FifoSafety

-----------------------------------------------------------------------------
(***************************************************************************)
(* No wake-up is lost.  The counter is compared modulo SignalMod; it has   *)
(* not come round since the reader looked, because every increment is for  *)
(* a record that is still in the ring, but for one of an earlier record.   *)
(***************************************************************************)

\* The writer has published a record and not counted it yet.
Pending == IF push.at = "signal" THEN 1 ELSE 0

\* The counter was incremented k times since the reader loaded it.
Counted(k) == signal = pop.seen + k \/ signal = pop.seen + k - SignalMod

WakeInv ==
  /\ pop.at \in {"compare", "park"} =>
       \E k \in Nat : /\ Counted(k) /\ k + Pending <= Len(queued) + 1
                      /\ pop.at = "park" => Len(queued) <= k + Pending
  /\ WakeIsComing

\* There are fewer records in the ring than bytes.
LEMMA QueueFits ==
  ASSUME RingInv, Capacity <= SignalMod
  PROVE  Len(queued) \in Nat /\ Len(queued) + 1 < SignalMod
  <1>1. PICK at \in [1..Len(queued) -> Byte] : Placed(at)
    BY DEF RingInv
  <1>2. RingTypeOK /\ SignalMod \in Nat \ {0, 1}
    BY RingAssumption DEF RingInv
  <1> DEFINE l == Len(queued)
  <1>3. l \in Nat
    BY <1>2, QueueIs
  <1>4. CASE l = 0
    <2> HIDE DEF l
    <2>1. l + 1 < SignalMod
      BY <1>2, <1>4
    <2> QED
      BY <1>3, <2>1 DEF l
  <1>5. CASE l # 0
    <2>1. 1 \in 1..l /\ l \in 1..l
      BY <1>3, <1>5
    <2> DEFINE a == Dist(tail, at[1])  b == Dist(tail, at[l])  n == Need(queued[l])
               c == Dist(tail, head)
    <2>2. n \in Nat /\ n > LenBytes /\ b + n <= c /\ at[l] \in 0..(Capacity - 1)
          /\ at[1] \in 0..(Capacity - 1)
      BY <1>1, <1>2, <2>1, PlaceOf
    <2>3. a \in Nat /\ b \in Nat /\ c \in 0..(Capacity - 1)
      <3>1. \A x \in 0..(Capacity - 1) : Dist(tail, x) \in 0..(Capacity - 1)
        BY <1>2, CursorsAre DEF Dist
      <3>2. head \in 0..(Capacity - 1) /\ 0..(Capacity - 1) \subseteq Nat
        BY <1>2, CursorsAre
      <3> HIDE DEF l
      <3> QED
        BY <2>2, <3>1, <3>2
    <2>4. a + (l - 1) <= b
      <3>1. CASE l = 1
        <4>1. a = b
          BY <3>1
        <4> HIDE DEF a, b, l
        <4> QED
          BY <2>3, <3>1, <4>1
      <3>2. CASE l # 1
        <4>1. 1 < l
          <5> HIDE DEF l
          <5> QED
            BY <1>3, <1>5, <3>2
        <4> QED
          BY <1>1, <2>1, <4>1 DEF Placed
      <3> QED
        BY <3>1, <3>2
    <2> HIDE DEF a, b, c, n, l
    <2>5. LenBytes \in Nat \ {0} /\ Capacity \in Nat
      BY RingAssumption
    <2>6. l + 1 < SignalMod
      BY <1>2, <1>3, <2>2, <2>3, <2>4, <2>5
    <2> QED
      BY <1>3, <2>6 DEF l
  <1> QED
    BY <1>4, <1>5

LEMMA WakeInvPush ==
  ASSUME RingInv, WakeInv, Capacity <= SignalMod, PushStep \/ \E r \in Record : PushLoad(r)
  PROVE  WakeInv'
  <1> USE DEF ctrl, history
  <1>1. Len(queued) \in Nat /\ Len(queued) + 1 < SignalMod /\ queued \in Seq(Record)
    BY QueueFits DEF RingInv, RingTypeOK
  <1>2. SignalMod \in Nat \ {0, 1} /\ signal \in 0..(SignalMod - 1)
    BY RingAssumption DEF RingInv, RingTypeOK
  <1>3. pop.at \in {"compare", "park"} => pop.seen \in 0..(SignalMod - 1)
    BY PopIs DEF RingInv
  <1>4. CASE (\E r \in Record : PushLoad(r)) \/ PushWrap \/ PushFill
    <2>1. UNCHANGED <<signal, pop, queued>> /\ push.at \notin {"signal", "notify"}
      BY <1>4 DEF PushLoad, PushWrap, PushFill, Resting
    <2>2. Pending' = Pending
      <3>1. push'.at \in {"wrap", "fill", "publish", "rest"}
        <4>1. CASE \E r \in Record : PushLoad(r)
          BY <4>1 DEF PushLoad
        <4>2. CASE PushWrap \/ PushFill
          <5>1. push \in MovingPush
            BY <4>2, PushIs DEF RingInv, PushWrap, PushFill
          <5>2. push' = Resting \/ push' \in MovingPush
            <6>1. 0 \in Byte
              BY RingAssumption DEF Byte
            <6> QED
              BY <4>2, <5>1, <6>1 DEF PushWrap, PushFill, MovingPush
          <5> QED
            BY <5>2 DEF MovingPush, Resting
        <4> QED
          BY <1>4, <4>1, <4>2
      <3> QED
        BY <2>1, <3>1 DEF Pending
    <2> QED
      BY <2>1, <2>2 DEF WakeInv, WakeIsComing, Counted
  <1>5. CASE PushPublish
    <2>1. /\ UNCHANGED <<signal, pop>> /\ Pending = 0 /\ Pending' = 1 /\ push'.at = "signal"
          /\ Len(queued') = Len(queued) + 1
      BY <1>1, <1>5, PushIs DEF PushPublish, Pending, RingInv
    <2>2. ASSUME pop.at \in {"compare", "park"}
          PROVE  \E k \in Nat : /\ Counted(k)' /\ k + 1 <= Len(queued') + 1
                                /\ pop.at = "park" => Len(queued') <= k + 1
      <3>1. PICK k \in Nat : /\ Counted(k) /\ k <= Len(queued) + 1
                             /\ pop.at = "park" => Len(queued) <= k
        <4>1. PICK k \in Nat : /\ Counted(k) /\ k + Pending <= Len(queued) + 1
                               /\ pop.at = "park" => Len(queued) <= k + Pending
          BY <2>2 DEF WakeInv
        <4>2. k + Pending = k
          BY <2>1
        <4> QED
          BY <4>1, <4>2
      <3> QED
        BY <1>1, <2>1, <3>1 DEF Counted
    <2> QED
      BY <2>1, <2>2 DEF WakeInv, WakeIsComing
  <1>6. CASE PushSignal
    <2>1. UNCHANGED <<queued, pop>> /\ Pending = 1 /\ Pending' = 0 /\ push'.at = "notify"
      BY <1>6 DEF PushSignal, Pending
    <2>2. signal' = IF signal + 1 = SignalMod THEN 0 ELSE signal + 1
      BY <1>2, <1>6 DEF PushSignal
    <2>3. ASSUME pop.at \in {"compare", "park"}
          PROVE  \E k \in Nat : /\ Counted(k)' /\ k + 0 <= Len(queued) + 1
                                /\ pop.at = "park" => Len(queued) <= k + 0
      <3>1. PICK k \in Nat : /\ Counted(k) /\ k + 1 <= Len(queued) + 1
                             /\ pop.at = "park" => Len(queued) <= k + 1
        BY <2>1, <2>3 DEF WakeInv
      <3>2. signal' = pop.seen + (k + 1) \/ signal' = pop.seen + (k + 1) - SignalMod
        <4> DEFINE e == pop.seen  l == Len(queued)
        <4>1. /\ e \in 0..(SignalMod - 1) /\ l \in Nat /\ l + 1 < SignalMod
              /\ k + 1 <= l + 1 /\ (signal = e + k \/ signal = e + k - SignalMod)
          BY <1>1, <1>3, <2>3, <3>1 DEF Counted
        <4> SUFFICES signal' = e + (k + 1) \/ signal' = e + (k + 1) - SignalMod
          OBVIOUS
        <4> HIDE DEF e, l
        <4>2. CASE signal + 1 = SignalMod
          <5>1. signal' = 0
            BY <2>2, <4>2
          <5> QED
            BY <1>2, <4>1, <4>2, <5>1
        <4>3. CASE signal + 1 # SignalMod
          <5>1. signal' = signal + 1
            BY <2>2, <4>3
          <5> QED
            BY <1>2, <4>1, <5>1
        <4> QED
          BY <4>2, <4>3
      <3>3. Counted(k + 1)'
        BY <2>1, <3>2 DEF Counted
      <3>4. k + 1 \in Nat /\ k + 1 + 0 = k + 1
        OBVIOUS
      <3> QED
        BY <3>1, <3>3, <3>4
    <2> QED
      BY <2>1, <2>3 DEF WakeInv, WakeIsComing
  <1>7. CASE PushNotify
    <2>1. UNCHANGED <<queued, signal>> /\ Pending = 0 /\ Pending' = 0
      BY <1>7 DEF PushNotify, Pending, Resting
    <2>2. pop'.at # "parked" /\ (pop' = pop \/ pop'.at = "load")
      BY <1>7 DEF PushNotify, Popping
    <2> QED
      BY <2>1, <2>2 DEF WakeInv, WakeIsComing, Counted
  <1> QED
    BY <1>4, <1>5, <1>6, <1>7 DEF PushStep

LEMMA WakeInvPop ==
  ASSUME RingInv, WakeInv, Capacity <= SignalMod, PopStep \/ WaitTimeout
  PROVE  WakeInv'
  <1> USE DEF ctrl, history
  <1>1. Len(queued) \in Nat /\ Len(queued) + 1 < SignalMod
    BY QueueFits
  <1>2. SignalMod \in Nat \ {0, 1} /\ signal \in 0..(SignalMod - 1)
    BY RingAssumption DEF RingInv, RingTypeOK
  <1>3. UNCHANGED push /\ Pending' = Pending /\ Pending \in {0, 1}
    BY DEF Pending, PopStep, PopLoad, PopMarker, PopRead, PopStore, WaitSeen, WaitCompare,
           WaitPark, WaitTimeout
  <1>4. CASE PopLoad \/ PopMarker \/ PopRead \/ PopStore \/ WaitTimeout
    <2>1. pop'.at \notin {"compare", "park", "parked"}
      BY <1>4 DEF PopLoad, PopMarker, PopRead, PopStore, WaitTimeout, Popping
    <2> QED
      BY <2>1 DEF WakeInv, WakeIsComing
  <1>5. CASE WaitSeen
    <2>1. pop'.at = "compare" /\ pop'.seen = signal /\ UNCHANGED <<signal, queued>>
      BY <1>5 DEF WaitSeen
    <2>2. Counted(0)'
      BY <1>2, <2>1 DEF Counted
    <2>3. 0 + Pending <= Len(queued) + 1
      BY <1>1, <1>3
    <2> QED
      BY <1>3, <2>1, <2>2, <2>3 DEF WakeInv, WakeIsComing
  <1>6. CASE WaitCompare
    <2>1. pop = [at |-> pop.at, seen |-> pop.seen] /\ pop.at = "compare"
          /\ UNCHANGED <<signal, queued>>
      BY <1>6, PopIs DEF RingInv, WaitCompare
    <2>2. CASE head # tail
      BY <1>6, <2>2 DEF WaitCompare, WakeInv, WakeIsComing, Popping
    <2>3. CASE head = tail
      <3>1. pop'.at = "park" /\ pop'.seen = pop.seen
        BY <1>6, <2>1, <2>3 DEF WaitCompare
      <3>2. Len(queued) = 0
        <4>1. PICK at \in [1..Len(queued) -> Byte] : Placed(at)
          BY DEF RingInv
        <4>2. ASSUME Len(queued) # 0 PROVE FALSE
          <5>1. 1 \in 1..Len(queued)
            BY <1>1, <4>2
          <5>2. /\ Need(queued[1]) \in Nat /\ Need(queued[1]) > LenBytes
                /\ Dist(tail, at[1]) + Need(queued[1]) <= Dist(tail, head)
                /\ at[1] \in 0..(Capacity - 1)
            BY <4>1, <5>1, PlaceOf DEF RingInv
          <5>3. Dist(tail, at[1]) \in Nat /\ Dist(tail, head) = 0 /\ LenBytes \in Nat
            BY <2>3, <5>2, CursorsAre DEF RingInv, Dist
          <5> QED
            BY <5>2, <5>3
        <4> QED
          BY <4>2
      <3>3. PICK k \in Nat : Counted(k) /\ k + Pending <= Len(queued) + 1
        BY <2>1 DEF WakeInv
      <3>4. Counted(k)' /\ Len(queued) <= k + Pending
        BY <1>3, <2>1, <3>1, <3>2, <3>3 DEF Counted
      <3> QED
        BY <1>3, <2>1, <3>1, <3>3, <3>4 DEF WakeInv, WakeIsComing
    <2> QED
      BY <2>2, <2>3
  <1>7. CASE WaitPark
    <2>1. pop.at = "park" /\ pop.seen \in 0..(SignalMod - 1) /\ UNCHANGED queued
      BY <1>7, PopIs DEF RingInv, WaitPark
    <2>2. CASE signal # pop.seen
      BY <1>7, <2>2 DEF WaitPark, WakeInv, WakeIsComing, Popping
    <2>3. CASE signal = pop.seen
      <3>1. PICK k \in Nat : /\ Counted(k) /\ k + Pending <= Len(queued) + 1
                             /\ Len(queued) <= k + Pending
        BY <2>1 DEF WakeInv
      <3>2. k = 0
        BY <1>1, <1>2, <1>3, <2>1, <2>3, <3>1 DEF Counted
      <3>3. Len(queued) <= Pending
        BY <1>3, <3>1, <3>2
      <3>4. queued # << >> => push.at = "signal"
        <4>1. queued # << >> => Len(queued) # 0
          BY QueueIs DEF RingInv
        <4> QED
          BY <1>1, <3>3, <4>1 DEF Pending
      <3>5. pop'.at = "parked"
        BY <1>7, <2>3 DEF WaitPark
      <3> QED
        BY <1>3, <2>1, <3>4, <3>5 DEF WakeInv, WakeIsComing
    <2> QED
      BY <2>2, <2>3
  <1> QED
    BY <1>4, <1>5, <1>6, <1>7 DEF PopStep

\* waitForData never sleeps on a record whose notify is already over, provided
\* the counter (32 bits) has at least as many values as the data area has
\* bytes (512 KiB): it cannot come round between the reader's two looks.
THEOREM NoLostWake ==
  ASSUME Capacity <= SignalMod
  PROVE  RingSpec => []WakeIsComing
  <1>1. RingInit => WakeInv
    BY DEF RingInit, WakeInv, WakeIsComing, Popping
  <1>2. RingInv /\ WakeInv /\ [RingNext]_ringVars => WakeInv'
    <2> SUFFICES ASSUME RingInv, WakeInv, [RingNext]_ringVars PROVE WakeInv'
      OBVIOUS
    <2>1. CASE UNCHANGED ringVars
      <3>1. UNCHANGED <<signal, push, pop, queued>>
        BY <2>1 DEF ringVars, ctrl, history
      <3> QED
        BY <3>1 DEF WakeInv, WakeIsComing, Counted, Pending
    <2> QED
      BY <2>1, WakeInvPush, WakeInvPop DEF RingNext
  <1>3. WakeInv => WakeIsComing
    BY DEF WakeInv
  <1> QED
    BY <1>1, <1>2, <1>3, RingInvAlways, PTL DEF RingSpec

=============================================================================

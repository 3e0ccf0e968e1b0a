------------------------- MODULE KernelBridge_proofs -------------------------
(***************************************************************************)
(* Theorems about KernelBridge, for any number of calls, workers, faults   *)
(* and disposals, and for rings of any capacity.                           *)
(***************************************************************************)
EXTENDS KernelBridge, TLAPS

(***************************************************************************)
(* The inductive invariant.  A frame on its way belongs to a call that was *)
(* issued, no call outlives the issue of CorrMod others, and a call is in  *)
(* use when it was issued; only then is the low part of a request enough   *)
(* to find the caller.                                                     *)
(***************************************************************************)
IssuedTo(n) == {f \in Frame : f.req <= n}
Issued == IssuedTo(seq)

FramesIssued ==
  /\ post \in [Workers -> Seq(Issued \cup {RingInit})]
  /\ back \in [Workers -> Seq(Issued)]
  /\ c2w \in [Workers -> Seq(Issued)]
  /\ w2c \in [Workers -> Seq(Issued)]
  /\ hello \in [Workers -> SUBSET Issued]

CallsIssued ==
  /\ \A c \in Calls : status[c] = "unused" <=> c > seq
  /\ cutOff \subseteq 1..seq
  /\ \A c \in pending : seq - c < CorrMod
  /\ \A c \in Calls : got[c] # 0 => got[c] = c

Controls ==
  /\ worker \in Workers \cup {None} /\ rings \in {None, worker}
  /\ seq \in 0..MaxCalls /\ pending \in SUBSET Calls
  /\ reader \in {"off", "on"}
  /\ status \in [Calls -> {"unused", "waiting", "answered", "fallback"}]
  /\ life \in [Workers -> {"none", "loading", "up", "failed", "ended"}]
  /\ pump \in [Workers -> {"off", "on", "dead"}]
  /\ raised \in SUBSET Workers
  /\ got \in [Calls -> 0..MaxCalls]
  /\ cutOff \in SUBSET Calls /\ dropped \in SUBSET Calls
  /\ brokenOn \in Workers \cup {None}
  /\ faults \in 0..MaxFaults /\ disposals \in 0..MaxDisposals

BridgeInv == Controls /\ FramesIssued /\ CallsIssued /\ TableIsExact /\ RingsAreRead

-----------------------------------------------------------------------------
(***************************************************************************)
(* Frames.                                                                 *)
(***************************************************************************)

\* The remainder of a number that is less than one modulus above c is c for
\* c itself only.
LEMMA CorrUnique ==
  ASSUME NEW n \in Nat \ {0}, NEW a \in Nat, NEW c \in Nat,
         c <= a, a - c < n, c = a % n
  PROVE  a = c
  <1>1. c < n
    OBVIOUS
  <1>2. CASE a < n
    BY <1>2
  <1>3. CASE a >= n
    <2>1. a - n \in 0..(n - 1)
      BY <1>1, <1>3
    <2>2. a % n = a - n
      BY <2>1
    <2> QED
      BY <2>1, <2>2
  <1> QED
    BY <1>2, <1>3

\* A frame that is put into a queue of its type leaves it typed.
LEMMA Queued ==
  ASSUME NEW S, NEW q \in [Workers -> Seq(S)], NEW w \in Workers, NEW e \in S
  PROVE  [q EXCEPT ![w] = Append(@, e)] \in [Workers -> Seq(S)]
  <1>1. Append(q[w], e) \in Seq(S)
    OBVIOUS
  <1> QED
    BY <1>1

\* More frames are issued as seq grows.
LEMMA MoreIssued ==
  ASSUME Controls, FramesIssued, NEW n \in Nat, n >= seq
  PROVE  /\ post \in [Workers -> Seq(IssuedTo(n) \cup {RingInit})]
         /\ back \in [Workers -> Seq(IssuedTo(n))]
         /\ c2w \in [Workers -> Seq(IssuedTo(n))]
         /\ w2c \in [Workers -> Seq(IssuedTo(n))]
         /\ hello \in [Workers -> SUBSET IssuedTo(n)]
  <1> DEFINE More == IssuedTo(n)
  <1>1. Issued \subseteq More
    BY BridgeAssumption DEF Issued, IssuedTo, Frame, Calls, Controls
  <1>2. Seq(Issued) \subseteq Seq(More)
    BY <1>1
  <1>3. Seq(Issued \cup {RingInit}) \subseteq Seq(More \cup {RingInit})
    BY <1>1
  <1> QED
    BY <1>1, <1>2, <1>3 DEF FramesIssued

\* The number in a frame finds at most the call the frame belongs to.
LEMMA DueIsOwn ==
  ASSUME Controls, CallsIssued, NEW f \in Issued, NEW c \in pending, c = Corr(f)
  PROVE  c = f.req
  <1>1. f.req \in Nat /\ c \in Nat /\ seq \in Nat /\ f.req <= seq /\ CorrMod \in Nat \ {0}
    BY BridgeAssumption DEF Issued, IssuedTo, Frame, Calls, Controls
  <1>2. c = f.req % CorrMod
    BY DEF Corr
  <1>3. c <= f.req
    BY <1>1, <1>2
  <1>4. seq - c < CorrMod
    BY DEF CallsIssued
  <1> QED
    BY <1>1, <1>2, <1>3, <1>4, CorrUnique

\* An answer settles its own call or none.
LEMMA DeliverKeeps ==
  ASSUME BridgeInv, NEW f \in Issued, Deliver(f), UNCHANGED <<seq, cutOff>>
  PROVE  /\ pending' \in SUBSET Calls
         /\ status' \in [Calls -> {"unused", "waiting", "answered", "fallback"}]
         /\ got' \in [Calls -> 0..MaxCalls]
         /\ CallsIssued' /\ TableIsExact'
  <1> USE DEF BridgeInv
  <1> DEFINE due == {c \in pending : c = Corr(f)}
  <1>1. /\ pending' = pending \ due
        /\ status' = [c \in Calls |-> IF c \in due THEN "answered" ELSE status[c]]
        /\ got' = [c \in Calls |-> IF c \in due THEN f.req ELSE got[c]]
    BY DEF Deliver
  <1>2. \A c \in due : c = f.req /\ c \in Calls /\ status[c] = "waiting" /\ c \notin cutOff
    BY DueIsOwn DEF TableIsExact
  <1>3. f.req \in 1..MaxCalls
    BY DEF Issued, IssuedTo, Frame, Calls
  <1> HIDE DEF due
  <1>4. /\ pending' \in SUBSET Calls
        /\ status' \in [Calls -> {"unused", "waiting", "answered", "fallback"}]
    BY <1>1 DEF Controls
  <1>5. got' \in [Calls -> 0..MaxCalls]
    BY <1>1, <1>3 DEF Controls
  <1>6. CallsIssued'
    BY <1>1, <1>2 DEF CallsIssued
  <1>7. TableIsExact'
    BY <1>1, <1>2 DEF TableIsExact
  <1> QED
    BY <1>4, <1>5, <1>6, <1>7

-----------------------------------------------------------------------------
(***************************************************************************)
(* The invariant holds at first, and every step keeps it.                  *)
(***************************************************************************)
LEMMA BridgeInvInit == BridgeInit => BridgeInv
  <1> SUFFICES ASSUME BridgeInit PROVE BridgeInv
    OBVIOUS
  <1> USE BridgeAssumption DEF BridgeInit
  <1>1. Controls
    BY DEF Controls, Calls, Workers, None
  <1>2. FramesIssued
    <2>1. << >> \in Seq(Issued) /\ << >> \in Seq(Issued \cup {RingInit})
      OBVIOUS
    <2> QED
      BY <2>1 DEF FramesIssued
  <1>3. CallsIssued
    BY DEF CallsIssued, Calls
  <1>4. TableIsExact
    BY DEF TableIsExact
  <1>5. RingsAreRead
    BY DEF RingsAreRead
  <1> QED
    BY <1>1, <1>2, <1>3, <1>4, <1>5 DEF BridgeInv

\* A call is issued: its frame is the only new one, and the rings of a new
\* worker have a reader.
LEMMA CallKeeps ==
  ASSUME BridgeInv, NEW op \in Ops, Call(op)
  PROVE  BridgeInv'
  <1> USE BridgeAssumption DEF BridgeInv
  <1> DEFINE f == [req |-> seq', op |-> op]
             More == IssuedTo(seq')
  <1>1. /\ seq' = seq + 1 /\ seq \in Nat /\ seq' \in Calls
        /\ pending' = pending \cup {seq'}
        /\ status' = [status EXCEPT ![seq'] = "waiting"]
        /\ UNCHANGED <<got, cutOff, dropped, brokenOn, faults, disposals>>
        /\ UNCHANGED <<pump, hello, raised, back, w2c>>
    BY DEF Call, Controls, Calls, historyVars
  <1>2. f \in More
    BY <1>1 DEF IssuedTo, Frame
  <1>3. Issued' = More
    BY DEF Issued
  <1>4. /\ worker' \in Workers /\ rings' \in {None, worker'}
        /\ rings' # rings => rings' = None \/ reader' = "on"
        /\ reader' \in {"off", "on"} /\ (reader' = reader \/ reader' = "on")
        /\ life' \in [Workers -> {"none", "loading", "up", "failed", "ended"}]
    BY DEF Call, HasWorker, NewWorker, Controls
  <1>5. /\ post \in [Workers -> Seq(More \cup {RingInit})]
        /\ back \in [Workers -> Seq(More)] /\ c2w \in [Workers -> Seq(More)]
        /\ w2c \in [Workers -> Seq(More)] /\ hello \in [Workers -> SUBSET More]
    <2>1. seq' \in Nat /\ seq' >= seq
      BY <1>1
    <2> QED
      BY <2>1, MoreIssued
  <1> HIDE DEF More, f
  <1>6. c2w' \in [Workers -> Seq(More)] /\ post' \in [Workers -> Seq(More \cup {RingInit})]
    <2> DEFINE announced == IF rings = rings' THEN post
                            ELSE [post EXCEPT ![worker'] = Append(@, RingInit)]
    <2>1. Send(f)
      BY DEF Call, f
    <2>2. announced \in [Workers -> Seq(More \cup {RingInit})]
      <3>1. [post EXCEPT ![worker'] = Append(@, RingInit)] \in [Workers -> Seq(More \cup {RingInit})]
        BY <1>4, <1>5, Queued
      <3> QED
        BY <3>1, <1>5
    <2>3. CASE rings' # None /\ Len(c2w[rings']) < RingCap
      <3>1. c2w' = [c2w EXCEPT ![rings'] = Append(@, f)] /\ post' = announced
        BY <2>1, <2>3 DEF Send
      <3>2. rings' \in Workers
        BY <2>3, <1>4
      <3>3. [c2w EXCEPT ![rings'] = Append(@, f)] \in [Workers -> Seq(More)]
        BY <3>2, <1>2, <1>5, Queued
      <3> QED
        BY <3>1, <3>3, <2>2
    <2>4. CASE ~(rings' # None /\ Len(c2w[rings']) < RingCap)
      <3>1. post' = [announced EXCEPT ![worker'] = Append(@, f)] /\ c2w' = c2w
        BY <2>1, <2>4 DEF Send
      <3> HIDE DEF announced
      <3>2. f \in More \cup {RingInit}
        BY <1>2
      <3>3. [announced EXCEPT ![worker'] = Append(@, f)] \in [Workers -> Seq(More \cup {RingInit})]
        BY <3>2, <2>2, <1>4, Queued
      <3> QED
        BY <3>1, <3>3, <1>5
    <2> QED
      BY <2>3, <2>4
  <1>7. FramesIssued'
    BY <1>1, <1>3, <1>5, <1>6 DEF FramesIssued
  <1>8. Controls'
    <2>1. /\ seq' \in 0..MaxCalls /\ pending' \in SUBSET Calls
          /\ status' \in [Calls -> {"unused", "waiting", "answered", "fallback"}]
      BY <1>1 DEF Controls, Calls
    <2>2. /\ worker' \in Workers \cup {None} /\ rings' \in {None, worker'}
          /\ reader' \in {"off", "on"}
          /\ life' \in [Workers -> {"none", "loading", "up", "failed", "ended"}]
      BY <1>4
    <2> QED
      BY <1>1, <2>1, <2>2 DEF Controls
  <1>9. CallsIssued'
    <2>1. \A c \in Calls : status'[c] = "unused" <=> c > seq'
      BY <1>1 DEF CallsIssued, Controls, Calls
    <2>2. \A c \in pending' : seq' - c < CorrMod
      BY <1>1 DEF Call, Controls, Calls
    <2> QED
      BY <1>1, <2>1, <2>2 DEF CallsIssued
  <1>10. TableIsExact'
    BY <1>1 DEF TableIsExact, CallsIssued, Controls, Calls
  <1>11. RingsAreRead'
    BY <1>1, <1>4 DEF RingsAreRead, Controls
  <1> QED
    BY <1>7, <1>8, <1>9, <1>10, <1>11

\* The other steps of the page.
LEMMA PageKeeps ==
  ASSUME BridgeInv,
         \/ \E c \in Calls : Timeout(c)
         \/ ReaderTake \/ ReaderExit \/ ReaderDies \/ Dispose
         \/ \E w \in Workers : OnMessage(w) \/ OnError(w)
  PROVE  BridgeInv'
  <1> USE BridgeAssumption DEF BridgeInv
  <1>0. None \notin Workers
    BY DEF None, Workers
  <1>1. CASE \E c \in Calls : Timeout(c)
    <2> PICK c \in Calls : Timeout(c)
      BY <1>1
    <2> USE DEF Timeout, workerVars, wireVars, historyVars
    <2>1. Controls'
      BY DEF Controls
    <2>2. FramesIssued'
      BY DEF FramesIssued, Issued
    <2>3. CallsIssued'
      BY DEF CallsIssued, Controls, TableIsExact
    <2>4. TableIsExact'
      BY DEF TableIsExact, Controls
    <2>5. RingsAreRead'
      BY DEF RingsAreRead
    <2> QED
      BY <2>1, <2>2, <2>3, <2>4, <2>5
  <1>2. CASE ReaderTake
    <2> USE <1>2 DEF ReaderTake, workerVars
    <2>1. rings \in Workers /\ w2c[rings] \in Seq(Issued) /\ w2c[rings] # << >>
      BY DEF Controls, FramesIssued
    <2>2. Head(w2c[rings]) \in Issued /\ Tail(w2c[rings]) \in Seq(Issued)
      BY <2>1
    <2>3. /\ Deliver(Head(w2c[rings])) /\ UNCHANGED <<seq, cutOff>>
      OBVIOUS
    <2>4. CallsIssued' /\ TableIsExact'
      BY <2>2, <2>3, DeliverKeeps
    <2>5. Controls'
      BY <2>2, <2>3, DeliverKeeps DEF Controls
    <2>6. FramesIssued'
      BY <2>2 DEF FramesIssued, Issued
    <2>7. RingsAreRead'
      BY DEF RingsAreRead
    <2> QED
      BY <2>4, <2>5, <2>6, <2>7
  <1>3. CASE ReaderExit
    <2> USE <1>3 DEF ReaderExit, workerVars, wireVars, historyVars
    <2>1. Controls' /\ FramesIssued'
      BY DEF Controls, FramesIssued, Issued
    <2>2. CallsIssued' /\ TableIsExact' /\ RingsAreRead'
      BY DEF CallsIssued, TableIsExact, RingsAreRead
    <2> QED
      BY <2>1, <2>2
  <1>4. CASE ReaderDies
    <2> USE <1>4 DEF ReaderDies, workerVars, wireVars, Fault
    <2>1. Controls' /\ FramesIssued'
      BY DEF Controls, FramesIssued, Issued
    <2>2. CallsIssued' /\ TableIsExact' /\ RingsAreRead'
      BY DEF CallsIssued, TableIsExact, RingsAreRead
    <2> QED
      BY <2>1, <2>2
  <1>5. CASE Dispose
    <2> USE <1>5 DEF Dispose
    <2>1. Controls'
      BY DEF Controls
    <2>2. FramesIssued'
      <3>1. << >> \in Seq(Issued)
        OBVIOUS
      <3>2. back' \in [Workers -> Seq(Issued)]
        BY <3>1 DEF FramesIssued
      <3> QED
        BY <3>2 DEF FramesIssued, Issued
    <2>3. CallsIssued'
      <3>1. pending \subseteq 1..seq
        BY DEF TableIsExact, CallsIssued, Controls, Calls
      <3> QED
        BY <3>1 DEF CallsIssued
    <2>4. TableIsExact'
      BY DEF TableIsExact
    <2>5. RingsAreRead'
      BY DEF RingsAreRead
    <2> QED
      BY <2>1, <2>2, <2>3, <2>4, <2>5
  <1>6. CASE \E w \in Workers : OnMessage(w)
    <2> PICK w \in Workers : OnMessage(w)
      BY <1>6
    <2> USE DEF OnMessage, workerVars
    <2>1. back[w] \in Seq(Issued) /\ back[w] # << >>
      BY DEF FramesIssued
    <2>2. Head(back[w]) \in Issued /\ Tail(back[w]) \in Seq(Issued)
      BY <2>1
    <2>3. Deliver(Head(back[w])) /\ UNCHANGED <<seq, cutOff>>
      OBVIOUS
    <2>4. CallsIssued' /\ TableIsExact'
      BY <2>2, <2>3, DeliverKeeps
    <2>5. Controls'
      BY <2>2, <2>3, DeliverKeeps DEF Controls
    <2>6. FramesIssued'
      BY <2>2 DEF FramesIssued, Issued
    <2>7. RingsAreRead'
      BY DEF RingsAreRead
    <2> QED
      BY <2>4, <2>5, <2>6, <2>7
  <1>7. CASE \E w \in Workers : OnError(w)
    <2> PICK w \in Workers : OnError(w)
      BY <1>7
    <2> USE DEF OnError, wireVars, historyVars
    <2>1. Controls' /\ FramesIssued'
      BY DEF Controls, FramesIssued, Issued
    <2>2. CallsIssued' /\ TableIsExact' /\ RingsAreRead'
      BY DEF CallsIssued, TableIsExact, RingsAreRead
    <2> QED
      BY <2>1, <2>2
  <1> QED
    BY <1>1, <1>2, <1>3, <1>4, <1>5, <1>6, <1>7

\* A worker moves frames that were issued, and nothing else.
LEMMA WorkerKeeps ==
  ASSUME BridgeInv, NEW w \in Workers, WorkerStep(w)
  PROVE  BridgeInv' /\ UNCHANGED pageVars /\ UNCHANGED <<got, cutOff>>
  <1> USE DEF BridgeInv
  <1> DEFINE Moved ==
        /\ UNCHANGED pageVars /\ UNCHANGED <<got, cutOff, brokenOn, disposals>>
        /\ life' \in [Workers -> {"none", "loading", "up", "failed", "ended"}]
        /\ pump' \in [Workers -> {"off", "on", "dead"}]
        /\ raised' \in SUBSET Workers
        /\ dropped' \in SUBSET Calls /\ faults' \in 0..MaxFaults
        /\ post' \in [Workers -> Seq(Issued \cup {RingInit})]
        /\ back' \in [Workers -> Seq(Issued)] /\ c2w' \in [Workers -> Seq(Issued)]
        /\ w2c' \in [Workers -> Seq(Issued)] /\ hello' \in [Workers -> SUBSET Issued]
  <1> SUFFICES Moved
    <2>1. Controls'
      BY DEF Controls, pageVars
    <2>2. FramesIssued'
      BY DEF FramesIssued, Issued, pageVars
    <2>3. CallsIssued'
      BY DEF CallsIssued, pageVars
    <2>4. TableIsExact' /\ RingsAreRead'
      BY DEF TableIsExact, RingsAreRead, pageVars
    <2> QED
      BY <2>1, <2>2, <2>3, <2>4
  <1> USE DEF Controls, FramesIssued
  <1>0. \A f \in Issued : f \in Frame /\ f.req \in Calls
    BY DEF Issued, IssuedTo, Frame
  <1>1. \A s \in Seq(Issued) : s # << >> => Head(s) \in Issued /\ Tail(s) \in Seq(Issued)
    OBVIOUS
  <1>2. \A f \in Issued : Reply(w, f) =>
          back' \in [Workers -> Seq(Issued)] /\ w2c' \in [Workers -> Seq(Issued)]
    <2> TAKE f \in Issued
    <2>1. Append(w2c[w], f) \in Seq(Issued) /\ Append(back[w], f) \in Seq(Issued)
      OBVIOUS
    <2> HIDE DEF Issued
    <2> QED
      BY <2>1 DEF Reply
  <1>3. \A f \in Issued : Handle(w, f) =>
          /\ back' \in [Workers -> Seq(Issued)] /\ w2c' \in [Workers -> Seq(Issued)]
          /\ hello' \in [Workers -> SUBSET Issued]
    <2> TAKE f \in Issued
    <2> HIDE DEF Issued
    <2>1. ASSUME hello' = [hello EXCEPT ![w] = @ \cup {f}]
          PROVE  hello' \in [Workers -> SUBSET Issued]
      BY <2>1
    <2>2. ASSUME UNCHANGED <<back, w2c>>
          PROVE  back' \in [Workers -> Seq(Issued)] /\ w2c' \in [Workers -> Seq(Issued)]
      BY <2>2
    <2> QED
      BY <1>2, <2>1, <2>2 DEF Handle
  <1>4. Fault => faults' \in 0..MaxFaults
    BY BridgeAssumption DEF Fault
  <1>5. CASE Load(w)
    BY <1>5 DEF Load, pageVars, wireVars, historyVars
  <1>6. CASE LoadFails(w)
    BY <1>6, <1>4 DEF LoadFails, pageVars, wireVars
  <1>7. CASE Attach(w)
    <2>1. Tail(post[w]) \in Seq(Issued \cup {RingInit})
      BY <1>7 DEF Attach
    <2>2. /\ UNCHANGED <<pageVars, historyVars, life, hello, raised, back, c2w, w2c>>
          /\ post' = [post EXCEPT ![w] = Tail(@)] /\ pump' = [pump EXCEPT ![w] = "on"]
      BY <1>7 DEF Attach
    <2> QED
      BY <2>1, <2>2 DEF pageVars, historyVars
  <1>8. CASE OnFrame(w)
    <2> DEFINE f == Head(post[w])
    <2>1. f \in Issued /\ Tail(post[w]) \in Seq(Issued \cup {RingInit})
      BY <1>8 DEF OnFrame
    <2>2. /\ UNCHANGED pageVars /\ UNCHANGED <<life, pump, c2w, got, cutOff, brokenOn, disposals>>
          /\ post' = [post EXCEPT ![w] = Tail(@)]
      BY <1>8 DEF OnFrame, pageVars
    <2>3. \/ Handle(w, f) /\ UNCHANGED <<raised, dropped, faults>>
          \/ /\ Fault /\ raised' = raised \cup {w} /\ dropped' = dropped \cup {f.req}
             /\ UNCHANGED <<hello, back, w2c>>
      BY <1>8 DEF OnFrame
    <2> HIDE DEF f
    <2> QED
      BY <2>1, <2>2, <2>3, <1>0, <1>3, <1>4
  <1>9. CASE PumpTake(w)
    <2>1. Head(c2w[w]) \in Issued /\ Tail(c2w[w]) \in Seq(Issued)
      BY <1>9, <1>1 DEF PumpTake
    <2> QED
      BY <1>9, <2>1, <1>3 DEF PumpTake, pageVars, historyVars
  <1>10. CASE PumpDies(w)
    <2>1. Head(c2w[w]) \in Issued /\ Tail(c2w[w]) \in Seq(Issued)
      BY <1>10, <1>1 DEF PumpDies
    <2> QED
      BY <1>10, <2>1, <1>0, <1>4 DEF PumpDies, pageVars
  <1>11. CASE \E f \in hello[w] : HelloReady(w, f)
    BY <1>11, <1>2 DEF HelloReady, pageVars, historyVars
  <1> QED
    BY <1>5, <1>6, <1>7, <1>8, <1>9, <1>10, <1>11 DEF WorkerStep

LEMMA BridgeInvNext == BridgeInv /\ [BridgeNext]_bridgeVars => BridgeInv'
  <1> SUFFICES ASSUME BridgeInv, [BridgeNext]_bridgeVars PROVE BridgeInv'
    OBVIOUS
  <1>1. CASE \E op \in Ops : Call(op)
    BY <1>1, CallKeeps
  <1>2. CASE \/ \E c \in Calls : Timeout(c)
             \/ ReaderTake \/ ReaderExit \/ ReaderDies \/ Dispose
             \/ \E w \in Workers : OnMessage(w) \/ OnError(w)
    BY <1>2, PageKeeps
  <1>3. CASE \E w \in Workers : WorkerStep(w)
    BY <1>3, WorkerKeeps
  <1>4. CASE UNCHANGED bridgeVars
    <2> USE <1>4 DEF bridgeVars, pageVars, workerVars, wireVars, historyVars, BridgeInv
    <2>1. Controls' /\ FramesIssued'
      BY DEF Controls, FramesIssued, Issued
    <2>2. CallsIssued' /\ TableIsExact' /\ RingsAreRead'
      BY DEF CallsIssued, TableIsExact, RingsAreRead
    <2> QED
      BY <2>1, <2>2
  <1> QED
    BY <1>1, <1>2, <1>3, <1>4 DEF BridgeNext

LEMMA BridgeKept == BridgeSpec => []BridgeInv
  BY BridgeInvInit, BridgeInvNext, PTL DEF BridgeSpec

(***************************************************************************)
(* What the invariant says.                                                *)
(***************************************************************************)

\* Type correctness: every variable of the bridge keeps its type, whichever
\* transport a frame takes (kernel-worker-bridge.ts, kernel.worker.ts).
THEOREM BridgeTypeCorrect == BridgeSpec => []BridgeTypeOK
  <1>1. BridgeInv => BridgeTypeOK
    <2> SUFFICES ASSUME BridgeInv PROVE BridgeTypeOK
      OBVIOUS
    <2>1. Issued \subseteq Frame
      BY DEF Issued, IssuedTo
    <2>2. Seq(Issued) \subseteq Seq(Frame)
      BY <2>1
    <2>3. Seq(Issued \cup {RingInit}) \subseteq Seq(Frame \cup {RingInit})
      BY <2>1
    <2> HIDE DEF Issued
    <2> QED
      BY <2>1, <2>2, <2>3 DEF BridgeInv, Controls, FramesIssued, BridgeTypeOK, Wire
  <1> QED
    BY <1>1, BridgeKept, PTL

\* The table of pending calls holds exactly the calls that wait, so that no
\* entry leaks and no caller is forgotten but by disposeKernelWorker.
THEOREM TableExact == BridgeSpec => []TableIsExact
  <1>1. BridgeInv => TableIsExact
    BY DEF BridgeInv
  <1> QED
    BY <1>1, BridgeKept, PTL

\* Current rings are read (ringReader), across every replacement of the
\* worker, unless the reader died on these very rings.
THEOREM RingsRead == BridgeSpec => []RingsAreRead
  <1>1. BridgeInv => RingsAreRead
    BY DEF BridgeInv
  <1> QED
    BY <1>1, BridgeKept, PTL

-----------------------------------------------------------------------------
(***************************************************************************)
(* The bridge implements RemoteCall, but for its liveness: every step is   *)
(* one of a remote call or none.                                           *)
(***************************************************************************)
LEMMA InitRefines == BridgeInit => Remote!CallsInit
  BY DEF BridgeInit, Remote!CallsInit, abstractState

LEMMA SameCalls ==
  ASSUME UNCHANGED <<status, cutOff, got>>
  PROVE  UNCHANGED <<abstractState, got>>
  BY DEF abstractState

LEMMA DeliverRefines ==
  ASSUME BridgeInv, NEW f \in Issued, Deliver(f), UNCHANGED cutOff
  PROVE  [Remote!CallsNext]_<<abstractState, got>>
  <1> DEFINE due == {c \in pending : c = Corr(f)}
  <1>1. /\ status' = [c \in Calls |-> IF c \in due THEN "answered" ELSE status[c]]
        /\ got' = [c \in Calls |-> IF c \in due THEN f.req ELSE got[c]]
    BY DEF Deliver
  <1>2. \A c \in due : c = f.req /\ c \in Calls /\ status[c] = "waiting" /\ c \notin cutOff
    BY DueIsOwn DEF TableIsExact, BridgeInv
  <1>3. /\ status \in [Calls -> {"unused", "waiting", "answered", "fallback"}]
        /\ got \in [Calls -> 0..MaxCalls]
    BY DEF BridgeInv, Controls
  <1> HIDE DEF due
  <1>4. CASE due = {}
    <2>1. status' = status /\ got' = got
      BY <1>1, <1>3, <1>4
    <2> QED
      BY <2>1, SameCalls
  <1>5. CASE due # {}
    <2>1. PICK c \in due : due = {c}
      BY <1>2, <1>5
    <2>2. c \in Calls /\ c = f.req /\ abstractState[c] = "waiting"
      BY <1>2 DEF abstractState
    <2>3. abstractState' = [abstractState EXCEPT ![c] = "answered"]
      BY <1>1, <1>2, <2>1 DEF abstractState
    <2>4. got' = [got EXCEPT ![c] = c]
      BY <1>1, <1>3, <2>1, <2>2
    <2>5. Remote!Answer(c)
      BY <2>2, <2>3, <2>4 DEF Remote!Answer
    <2> QED
      BY <2>2, <2>5 DEF Remote!CallsNext, Remote!End
  <1> QED
    BY <1>4, <1>5

LEMMA StepRefines ==
  BridgeInv /\ [BridgeNext]_bridgeVars => [Remote!CallsNext]_<<abstractState, got>>
  <1> SUFFICES ASSUME BridgeInv, [BridgeNext]_bridgeVars
               PROVE  [Remote!CallsNext]_<<abstractState, got>>
    OBVIOUS
  <1>1. CASE \E op \in Ops : Call(op)
    <2> PICK op \in Ops : Call(op)
      BY <1>1
    <2> DEFINE c == seq + 1
    <2>1. c \in Calls /\ c > seq /\ c \notin cutOff /\ status[c] = "unused"
      BY BridgeAssumption DEF Call, BridgeInv, Controls, CallsIssued, Calls
    <2>2. status' = [status EXCEPT ![c] = "waiting"] /\ UNCHANGED <<got, cutOff>>
      BY DEF Call, historyVars
    <2> HIDE DEF c
    <2>3. abstractState[c] = "unused" /\ abstractState' = [abstractState EXCEPT ![c] = "waiting"]
      BY <2>1, <2>2 DEF abstractState, BridgeInv, Controls
    <2>4. Remote!Issue(c)
      BY <2>2, <2>3 DEF Remote!Issue
    <2> QED
      BY <2>1, <2>4 DEF Remote!CallsNext
  <1>2. CASE \E c \in Calls : Timeout(c)
    <2> PICK c \in Calls : Timeout(c)
      BY <1>2
    <2>1. /\ c \notin cutOff /\ status[c] = "waiting"
          /\ status' = [status EXCEPT ![c] = "fallback"] /\ UNCHANGED <<got, cutOff>>
      BY DEF Timeout, historyVars, BridgeInv, TableIsExact
    <2>2. abstractState[c] = "waiting" /\ abstractState' = [abstractState EXCEPT ![c] = "fallback"]
      BY <2>1 DEF abstractState, BridgeInv, Controls
    <2>3. Remote!GiveUp(c)
      BY <2>1, <2>2 DEF Remote!GiveUp
    <2> QED
      BY <2>3 DEF Remote!CallsNext, Remote!End
  <1>3. CASE ReaderTake
    <2>1. rings \in Workers /\ w2c[rings] \in Seq(Issued) /\ w2c[rings] # << >>
      BY <1>3 DEF ReaderTake, BridgeInv, Controls, FramesIssued
    <2>2. Head(w2c[rings]) \in Issued
      BY <2>1
    <2>3. Deliver(Head(w2c[rings])) /\ UNCHANGED cutOff
      BY <1>3 DEF ReaderTake
    <2> QED
      BY <2>2, <2>3, DeliverRefines
  <1>4. CASE ReaderExit \/ ReaderDies
    BY <1>4, SameCalls DEF ReaderExit, ReaderDies, historyVars
  <1>5. CASE Dispose
    <2>1. pending = {c \in Calls : abstractState[c] = "waiting"}
      BY DEF BridgeInv, TableIsExact, abstractState
    <2>2. UNCHANGED <<status, got>> /\ cutOff' = cutOff \cup pending
      BY <1>5 DEF Dispose
    <2>3. CASE pending = {}
      BY <2>2, <2>3, SameCalls
    <2>4. CASE pending # {}
      <3>1. abstractState' = [c \in Calls |-> IF abstractState[c] = "waiting" THEN "abandoned"
                                               ELSE abstractState[c]]
        BY <2>1, <2>2 DEF abstractState
      <3>2. \E c \in Calls : abstractState[c] = "waiting"
        BY <2>1, <2>4
      <3>3. Remote!Abandon
        BY <2>2, <3>1, <3>2 DEF Remote!Abandon
      <3> QED
        BY <3>3 DEF Remote!CallsNext
    <2> QED
      BY <2>3, <2>4
  <1>6. CASE \E w \in Workers : OnMessage(w)
    <2> PICK w \in Workers : OnMessage(w)
      BY <1>6
    <2>1. back[w] \in Seq(Issued) /\ back[w] # << >>
      BY DEF OnMessage, BridgeInv, FramesIssued
    <2>2. Head(back[w]) \in Issued
      BY <2>1
    <2>3. Deliver(Head(back[w])) /\ UNCHANGED cutOff
      BY DEF OnMessage
    <2> QED
      BY <2>2, <2>3, DeliverRefines
  <1>7. CASE \E w \in Workers : OnError(w)
    BY <1>7, SameCalls DEF OnError, historyVars
  <1>8. CASE \E w \in Workers : WorkerStep(w)
    BY <1>8, WorkerKeeps, SameCalls DEF pageVars
  <1>9. CASE UNCHANGED bridgeVars
    BY <1>9, SameCalls DEF bridgeVars, pageVars, historyVars
  <1> QED
    BY <1>1, <1>2, <1>3, <1>4, <1>5, <1>6, <1>7, <1>8, <1>9 DEF BridgeNext

\* Every answer reaches the call it belongs to, once, and no call that ended
\* is revived: late answers, answers of a worker that was replaced and answers
\* over the other transport are dropped (deliver).  Modulo CorrMod the number
\* in a frame is enough for that.
THEOREM AnswersFindTheirCalls == BridgeSpec => Remote!CallsSafety
  <1>1. BridgeInit => Remote!CallsInit
    BY InitRefines
  <1>2. BridgeInv /\ [BridgeNext]_bridgeVars => [Remote!CallsNext]_<<abstractState, got>>
    BY StepRefines
  <1> QED
    BY <1>1, <1>2, BridgeKept, PTL DEF BridgeSpec, Remote!CallsSafety

-----------------------------------------------------------------------------
(***************************************************************************)
(* No transport loses or doubles a frame.  Where the frame of a call is:   *)
(* kinds of places are told apart first, positions within a queue second.  *)
(***************************************************************************)
Kinds == {"post", "back", "c2w", "w2c", "hello"}

\* A queue holds a frame of call c, and no two.
Held(s, c) == \E i \in DOMAIN s : s[i].req = c
Once(s, c) == \A i, j \in DOMAIN s : s[i].req = c /\ s[j].req = c => i = j

Has(k, w, c) ==
  \/ k = "post" /\ Held(post[w], c)
  \/ k = "back" /\ Held(back[w], c)
  \/ k = "c2w" /\ Held(c2w[w], c)
  \/ k = "w2c" /\ Held(w2c[w], c)
  \/ k = "hello" /\ \E f \in hello[w] : f.req = c

OnceEach == \A w \in Workers, c \in Calls :
  /\ Once(post[w], c) /\ Once(back[w], c) /\ Once(c2w[w], c) /\ Once(w2c[w], c)
  /\ \A f, g \in hello[w] : f.req = c /\ g.req = c => f = g

Alone == \A c \in Calls, k, l \in Kinds, v, w \in Workers :
  Has(k, v, c) /\ Has(l, w, c) => k = l /\ v = w

Somewhere == \A c \in pending \ dropped :
  c < CorrMod => \E k \in Kinds, w \in Workers : Has(k, w, c)

Carried == OnceEach /\ Alone /\ Somewhere

\* What the steps do to the places: a call's frame is in one place only, in
\* none, or every frame stays where it is.
Lands(h, l, w) == \A c \in Calls, k \in Kinds, v \in Workers :
  Has(k, v, c)' <=> (c # h /\ Has(k, v, c)) \/ (c = h /\ k = l /\ v = w)
Leaves(h) == \A c \in Calls, k \in Kinds, v \in Workers :
  Has(k, v, c)' <=> c # h /\ Has(k, v, c)
Stays == \A c \in Calls, k \in Kinds, v \in Workers : Has(k, v, c)' <=> Has(k, v, c)

LEMMA LandedCarried ==
  ASSUME Carried, OnceEach', NEW h \in Calls, NEW l \in Kinds, NEW w \in Workers, Lands(h, l, w),
         pending' \ dropped' \subseteq (pending \ dropped) \cup {h}, pending' \subseteq Calls
  PROVE  Carried'
  <1>1. Alone'
    BY DEF Carried, Alone, Lands
  <1>2. Somewhere'
    <2> SUFFICES ASSUME NEW c \in pending' \ dropped', c < CorrMod
                 PROVE  \E k \in Kinds, v \in Workers : Has(k, v, c)'
      BY DEF Somewhere
    <2>1. CASE c = h
      BY <2>1 DEF Lands
    <2>2. CASE c # h
      <3>1. PICK k \in Kinds, v \in Workers : Has(k, v, c)
        BY <2>2 DEF Carried, Somewhere
      <3> QED
        BY <2>2, <3>1 DEF Lands
    <2> QED
      BY <2>1, <2>2
  <1> QED
    BY <1>1, <1>2 DEF Carried

LEMMA LeftCarried ==
  ASSUME Carried, OnceEach', NEW h \in Calls, Leaves(h),
         pending' \ dropped' \subseteq pending \ dropped, pending' \subseteq Calls,
         h < CorrMod => h \notin pending' \ dropped'
  PROVE  Carried'
  <1>1. Alone'
    BY DEF Carried, Alone, Leaves
  <1>2. Somewhere'
    <2> SUFFICES ASSUME NEW c \in pending' \ dropped', c < CorrMod
                 PROVE  \E k \in Kinds, v \in Workers : Has(k, v, c)'
      BY DEF Somewhere
    <2>1. PICK k \in Kinds, v \in Workers : Has(k, v, c)
      BY DEF Carried, Somewhere
    <2> QED
      BY <2>1 DEF Leaves
  <1> QED
    BY <1>1, <1>2 DEF Carried

LEMMA StayedCarried ==
  ASSUME Carried, OnceEach', Stays, pending' \ dropped' \subseteq pending \ dropped,
         pending' \subseteq Calls
  PROVE  Carried'
  <1>1. Alone'
    BY DEF Carried, Alone, Stays
  <1>2. Somewhere'
    <2> SUFFICES ASSUME NEW c \in pending' \ dropped', c < CorrMod
                 PROVE  \E k \in Kinds, v \in Workers : Has(k, v, c)'
      BY DEF Somewhere
    <2>1. PICK k \in Kinds, v \in Workers : Has(k, v, c)
      BY DEF Carried, Somewhere
    <2> QED
      BY <2>1 DEF Stays
  <1> QED
    BY <1>1, <1>2 DEF Carried

\* What a queue may hold.
Packet == Frame \cup {RingInit}

\* A queue that loses its head.
LEMMA HeadLeaves ==
  ASSUME NEW s \in Seq(Packet), s # << >>, NEW c, Once(s, c)
  PROVE  /\ Held(Tail(s), c) <=> Held(s, c) /\ c # Head(s).req
         /\ Once(Tail(s), c)
         /\ Held(s, Head(s).req)
  <1>1. /\ Len(s) \in Nat /\ Len(s) > 0 /\ DOMAIN s = 1..Len(s)
        /\ DOMAIN Tail(s) = 1..(Len(s) - 1) /\ Head(s) = s[1] /\ 1 \in DOMAIN s
        /\ \A i \in 1..(Len(s) - 1) : Tail(s)[i] = s[i + 1] /\ i + 1 \in 1..Len(s)
    OBVIOUS
  <1>2. ASSUME Held(Tail(s), c) PROVE Held(s, c) /\ c # Head(s).req
    <2>1. PICK i \in 1..(Len(s) - 1) : s[i + 1].req = c /\ i + 1 \in DOMAIN s /\ i + 1 # 1
      BY <1>1, <1>2 DEF Held
    <2> QED
      BY <1>1, <2>1 DEF Held, Once
  <1>3. ASSUME Held(s, c), c # Head(s).req PROVE Held(Tail(s), c)
    <2>1. PICK i \in 1..Len(s) : s[i].req = c
      BY <1>1, <1>3 DEF Held
    <2>2. i # 1
      BY <1>1, <1>3, <2>1
    <2>3. i - 1 \in 1..(Len(s) - 1) /\ (i - 1) + 1 = i
      BY <1>1, <2>1, <2>2
    <2>4. Tail(s)[i - 1] = s[i] /\ i - 1 \in DOMAIN Tail(s)
      BY <1>1, <2>3
    <2> QED
      BY <2>1, <2>4 DEF Held
  <1>4. Once(Tail(s), c)
    <2> SUFFICES ASSUME NEW i \in 1..(Len(s) - 1), NEW j \in 1..(Len(s) - 1),
                        s[i + 1].req = c, s[j + 1].req = c
                 PROVE  i = j
      BY <1>1 DEF Once
    <2>1. i + 1 = j + 1
      BY <1>1 DEF Once
    <2> QED
      BY <1>1, <2>1
  <1>5. Held(s, Head(s).req)
    BY <1>1 DEF Held
  <1> QED
    BY <1>2, <1>3, <1>4, <1>5

\* A queue that gets one more.
LEMMA LastJoins ==
  ASSUME NEW s \in Seq(Packet), NEW f \in Packet, NEW c
  PROVE  /\ Held(Append(s, f), c) <=> Held(s, c) \/ c = f.req
         /\ Once(s, c) /\ ~(c = f.req /\ Held(s, c)) => Once(Append(s, f), c)
  <1> DEFINE a == Append(s, f)
  <1>1. /\ Len(s) \in Nat /\ DOMAIN s = 1..Len(s)
        /\ DOMAIN a = 1..(Len(s) + 1) /\ a[Len(s) + 1] = f
        /\ \A i \in 1..Len(s) : a[i] = s[i]
    OBVIOUS
  <1>2. \A i \in 1..(Len(s) + 1) : i \in 1..Len(s) \/ i = Len(s) + 1
    BY <1>1
  <1>3. \A i \in 1..Len(s) : i \in 1..(Len(s) + 1)
    BY <1>1
  <1>4. Len(s) + 1 \in 1..(Len(s) + 1)
    BY <1>1
  <1> HIDE DEF a
  <1>5. Held(a, c) <=> Held(s, c) \/ c = f.req
    BY <1>1, <1>2, <1>3, <1>4 DEF Held
  <1>6. Once(s, c) /\ ~(c = f.req /\ Held(s, c)) => Once(a, c)
    BY <1>1, <1>2 DEF Held, Once
  <1> QED
    BY <1>5, <1>6 DEF a

\* The same of one queue among those of all workers.
Single(q) == \A v \in Workers, c \in Calls : Once(q[v], c)
Took(q, r, w) == q[w] # << >> /\ r = [q EXCEPT ![w] = Tail(@)]
Put(q, r, w, f) == /\ r = [q EXCEPT ![w] = Append(@, f)]
                   /\ f.req \in Calls => ~Held(q[w], f.req)
Loses(q, r, w, h) == \A v \in Workers, c \in Calls :
  /\ Held(r[v], c) <=> Held(q[v], c) /\ ~(v = w /\ c = h)
  /\ Once(r[v], c)
Gains(q, r, w, h) == \A v \in Workers, c \in Calls :
  /\ Held(r[v], c) <=> Held(q[v], c) \/ (v = w /\ c = h)
  /\ Once(r[v], c)

LEMMA TookFrom ==
  ASSUME NEW q \in [Workers -> Seq(Packet)], NEW r, NEW w \in Workers, Took(q, r, w), Single(q)
  PROVE  /\ Loses(q, r, w, Head(q[w]).req) /\ Held(q[w], Head(q[w]).req)
         /\ Head(q[w]) \in Packet
  <1>1. q[w] \in Seq(Packet) /\ q[w] # << >>
    BY DEF Took
  <1>2. ASSUME NEW v \in Workers, NEW c \in Calls
        PROVE  /\ Held(r[v], c) <=> Held(q[v], c) /\ ~(v = w /\ c = Head(q[w]).req)
               /\ Once(r[v], c)
    <2>1. CASE v = w
      <3>1. r[v] = Tail(q[w]) /\ Once(q[w], c)
        BY <2>1 DEF Took, Single
      <3>2. /\ Held(Tail(q[w]), c) <=> Held(q[w], c) /\ c # Head(q[w]).req
            /\ Once(Tail(q[w]), c)
        BY <1>1, <3>1, HeadLeaves
      <3> QED
        BY <2>1, <3>1, <3>2
    <2>2. CASE v # w
      <3>1. r[v] = q[v]
        BY <2>2 DEF Took
      <3> QED
        BY <2>2, <3>1 DEF Single
    <2> QED
      BY <2>1, <2>2
  <1>3. Held(q[w], Head(q[w]).req) /\ Head(q[w]) \in Packet
    <2>1. Head(q[w]) = q[w][1] /\ 1 \in DOMAIN q[w] /\ Head(q[w]) \in Packet
      BY <1>1
    <2> QED
      BY <2>1 DEF Held
  <1> QED
    BY <1>2, <1>3 DEF Loses

LEMMA PutTo ==
  ASSUME NEW q \in [Workers -> Seq(Packet)], NEW r, NEW w \in Workers, NEW f \in Packet,
         Put(q, r, w, f), Single(q)
  PROVE  Gains(q, r, w, f.req)
  <1>1. ASSUME NEW v \in Workers, NEW c \in Calls
        PROVE  /\ Held(r[v], c) <=> Held(q[v], c) \/ (v = w /\ c = f.req)
               /\ Once(r[v], c)
    <2>1. CASE v = w
      <3>1. r[v] = Append(q[w], f) /\ q[w] \in Seq(Packet) /\ Once(q[w], c)
            /\ ~(c = f.req /\ Held(q[w], c))
        BY <2>1 DEF Put, Single
      <3>2. /\ Held(Append(q[w], f), c) <=> Held(q[w], c) \/ c = f.req
            /\ Once(Append(q[w], f), c)
        BY <3>1, LastJoins
      <3> QED
        BY <2>1, <3>1, <3>2
    <2>2. CASE v # w
      <3>1. r[v] = q[v]
        BY <2>2 DEF Put
      <3> QED
        BY <2>2, <3>1 DEF Single
    <2> QED
      BY <2>1, <2>2
  <1> QED
    BY <1>1 DEF Gains

\* The transports as they are: queues of issued frames.
LEMMA WiresAre ==
  ASSUME BridgeInv
  PROVE  /\ post \in [Workers -> Seq(Issued \cup {RingInit})]
         /\ back \in [Workers -> Seq(Issued)] /\ c2w \in [Workers -> Seq(Issued)]
         /\ w2c \in [Workers -> Seq(Issued)] /\ hello \in [Workers -> SUBSET Issued]
         /\ post \in [Workers -> Seq(Packet)] /\ back \in [Workers -> Seq(Packet)]
         /\ c2w \in [Workers -> Seq(Packet)] /\ w2c \in [Workers -> Seq(Packet)]
         /\ \A f \in Issued : f \in Packet /\ f \in Frame /\ f.req \in Calls /\ f.req <= seq
         /\ RingInit.req \notin Calls /\ pending \subseteq Calls /\ dropped \subseteq Calls
         /\ seq \in Nat
  <1>1. \A f \in Issued : f \in Packet /\ f \in Frame /\ f.req \in Calls /\ f.req <= seq
    BY DEF Issued, IssuedTo, Frame, Packet
  <1>2. RingInit.req \notin Calls
    BY DEF RingInit, None, Calls
  <1>3. Seq(Issued) \subseteq Seq(Packet) /\ Seq(Issued \cup {RingInit}) \subseteq Seq(Packet)
    BY <1>1 DEF Packet
  <1> HIDE DEF Issued
  <1> QED
    BY <1>1, <1>2, <1>3 DEF BridgeInv, FramesIssued, Controls

\* Nothing of a call is anywhere before it is issued.
LEMMA NewIsNowhere ==
  ASSUME BridgeInv, NEW c \in Calls, c > seq, NEW k \in Kinds, NEW w \in Workers
  PROVE  ~Has(k, w, c)
  <1>1. \A s \in Seq(Issued) : ~Held(s, c)
    <2> SUFFICES ASSUME NEW s \in Seq(Issued), NEW i \in DOMAIN s, s[i].req = c PROVE FALSE
      BY DEF Held
    <2>1. s[i] \in Issued
      OBVIOUS
    <2> QED
      BY <2>1, WiresAre DEF Calls
  <1>2. \A s \in Seq(Issued \cup {RingInit}) : ~Held(s, c)
    <2> SUFFICES ASSUME NEW s \in Seq(Issued \cup {RingInit}), NEW i \in DOMAIN s, s[i].req = c
                 PROVE  FALSE
      BY DEF Held
    <2>1. s[i] \in Issued \/ s[i] = RingInit
      OBVIOUS
    <2> QED
      BY <2>1, WiresAre DEF Calls
  <1>3. \A f \in hello[w] : f.req # c
    BY WiresAre DEF Calls
  <1>4. /\ post[w] \in Seq(Issued \cup {RingInit}) /\ back[w] \in Seq(Issued)
        /\ c2w[w] \in Seq(Issued) /\ w2c[w] \in Seq(Issued)
    BY WiresAre
  <1> QED
    BY <1>1, <1>2, <1>3, <1>4 DEF Has

\* call: the frame goes to one transport.
LEMMA CallCarries ==
  ASSUME BridgeInv, Carried, NEW op \in Ops, Call(op)
  PROVE  Carried'
  <1> DEFINE f == [req |-> seq', op |-> op]
             announced == IF rings = rings' THEN post
                          ELSE [post EXCEPT ![worker'] = Append(@, RingInit)]
  <1>0. /\ seq' = seq + 1 /\ seq \in Nat /\ seq' \in Calls
        /\ pending' = pending \cup {seq'} /\ UNCHANGED <<dropped, hello, back, w2c>>
    BY WiresAre, BridgeAssumption DEF Call, Calls, historyVars
  <1>1. /\ seq' > seq /\ f.req = seq'
        /\ worker' \in Workers /\ rings' \in {None, worker'} /\ f \in Packet
    <2>1. worker' \in Workers /\ rings' \in {None, worker'}
      BY DEF Call, HasWorker, NewWorker, BridgeInv, Controls
    <2> QED
      BY <1>0, <2>1 DEF Packet, Frame
  <1> PICK u \in Workers : u = worker'
    BY <1>1
  <1> PICK h \in Calls : h = seq'
    BY <1>0
  <1>2. \A k \in Kinds, v \in Workers : ~Has(k, v, h)
    BY <1>1, NewIsNowhere
  <1>3. \A v \in Workers : ~Held(post[v], h) /\ ~Held(c2w[v], h)
    BY <1>2 DEF Has, Kinds
  <1>4. /\ announced \in [Workers -> Seq(Packet)] /\ Single(announced)
        \* the announcement is no frame
        /\ \A v \in Workers, c \in Calls : Held(announced[v], c) <=> Held(post[v], c)
    <2>1. CASE rings = rings'
      BY <2>1, WiresAre DEF Carried, OnceEach, Single
    <2>2. CASE rings # rings'
      <3>1. RingInit \in Packet /\ Single(post)
        BY DEF Packet, Carried, OnceEach, Single
      <3>2. announced \in [Workers -> Seq(Packet)]
        BY <2>2, <3>1, WiresAre, Queued
      <3>3. Put(post, announced, u, RingInit)
        BY <2>2, WiresAre DEF Put
      <3>4. Gains(post, announced, u, RingInit.req)
        BY <3>1, <3>3, WiresAre, PutTo
      <3> QED
        BY <3>2, <3>4, WiresAre DEF Gains, Single
    <2> QED
      BY <2>1, <2>2
  <1>5. Send(f)
    BY DEF Call
  <1> HIDE DEF announced, f
  <1>6. CASE rings' # None /\ Len(c2w[rings']) < RingCap
    <2>1. c2w' = [c2w EXCEPT ![u] = Append(@, f)] /\ post' = announced
      BY <1>1, <1>5, <1>6 DEF Send, announced
    <2>2. Put(c2w, c2w', u, f) /\ Single(c2w)
      BY <1>1, <1>3, <2>1 DEF Put, Carried, OnceEach, Single
    <2>3. Gains(c2w, c2w', u, h)
      BY <1>1, <2>2, WiresAre, PutTo
    <2>4. OnceEach'
      BY <1>0, <1>4, <2>1, <2>3 DEF Carried, OnceEach, Single, Gains
    <2>5. Lands(h, "c2w", u)
      BY <1>0, <1>2, <1>4, <2>1, <2>3 DEF Lands, Has, Kinds, Gains
    <2> QED
      BY <1>0, <2>4, <2>5, WiresAre, LandedCarried DEF Kinds
  <1>7. CASE ~(rings' # None /\ Len(c2w[rings']) < RingCap)
    <2>1. post' = [announced EXCEPT ![u] = Append(@, f)] /\ c2w' = c2w
      BY <1>5, <1>7 DEF Send, announced
    <2>2. Put(announced, post', u, f)
      BY <1>1, <1>3, <1>4, <2>1 DEF Put
    <2>3. Gains(announced, post', u, h)
      BY <1>1, <1>4, <2>2, PutTo
    <2>4. OnceEach'
      BY <1>0, <2>1, <2>3 DEF Carried, OnceEach, Gains
    <2>5. Lands(h, "post", u)
      BY <1>0, <1>2, <1>4, <2>1, <2>3 DEF Lands, Has, Kinds, Gains
    <2> QED
      BY <1>0, <2>4, <2>5, WiresAre, LandedCarried DEF Kinds
  <1> QED
    BY <1>6, <1>7

\* A frame whose number still fits finds its call.
LEMMA DeliverEnds ==
  ASSUME BridgeInv, NEW f \in Issued, Deliver(f), f.req < CorrMod
  PROVE  f.req \notin pending'
  <1>1. f.req \in Nat /\ CorrMod \in Nat \ {0}
    BY WiresAre, BridgeAssumption DEF Calls
  <1>2. Corr(f) = f.req
    BY <1>1 DEF Corr
  <1> QED
    BY <1>2 DEF Deliver

\* The steps of the page that deliver an answer.
LEMMA DeliverCarries ==
  ASSUME BridgeInv, Carried, ReaderTake \/ \E w \in Workers : OnMessage(w)
  PROVE  Carried'
  <1>1. CASE ReaderTake
    <2>1. PICK w \in Workers : w = rings
      BY <1>1 DEF ReaderTake, BridgeInv, Controls
    <2> DEFINE f == Head(w2c[w])
    <2>2. /\ w2c[w] # << >> /\ w2c' = [w2c EXCEPT ![w] = Tail(@)] /\ Deliver(f)
          /\ UNCHANGED <<hello, post, back, c2w, dropped>>
      BY <1>1, <2>1 DEF ReaderTake, workerVars
    <2>3. f \in Issued
      BY <2>2, WiresAre
    <2>4. PICK h \in Calls : h = f.req
      BY <2>3, WiresAre
    <2>5. Took(w2c, w2c', w) /\ Single(w2c)
      BY <2>2 DEF Took, Carried, OnceEach, Single
    <2>6. Loses(w2c, w2c', w, h) /\ Held(w2c[w], h)
      BY <2>4, <2>5, WiresAre, TookFrom
    <2>7. \A k \in Kinds, v \in Workers : Has(k, v, h) => k = "w2c" /\ v = w
      BY <2>6 DEF Carried, Alone, Kinds, Has
    <2> HIDE DEF f
    <2>8. Leaves(h)
      BY <2>2, <2>6, <2>7 DEF Leaves, Has, Kinds, Loses
    <2>9. OnceEach'
      BY <2>2, <2>6 DEF Carried, OnceEach, Loses
    <2>10. pending' \subseteq pending /\ (h < CorrMod => h \notin pending')
      BY <2>2, <2>3, <2>4, DeliverEnds DEF Deliver
    <2> QED
      BY <2>2, <2>8, <2>9, <2>10, WiresAre, LeftCarried
  <1>2. CASE \E w \in Workers : OnMessage(w)
    <2>1. PICK w \in Workers : OnMessage(w)
      BY <1>2
    <2> DEFINE f == Head(back[w])
    <2>2. /\ back[w] # << >> /\ back' = [back EXCEPT ![w] = Tail(@)] /\ Deliver(f)
          /\ UNCHANGED <<hello, post, w2c, c2w, dropped>>
      BY <1>2, <2>1 DEF OnMessage, workerVars
    <2>3. f \in Issued
      BY <2>2, WiresAre
    <2>4. PICK h \in Calls : h = f.req
      BY <2>3, WiresAre
    <2>5. Took(back, back', w) /\ Single(back)
      BY <2>2 DEF Took, Carried, OnceEach, Single
    <2>6. Loses(back, back', w, h) /\ Held(back[w], h)
      BY <2>4, <2>5, WiresAre, TookFrom
    <2>7. \A k \in Kinds, v \in Workers : Has(k, v, h) => k = "back" /\ v = w
      BY <2>6 DEF Carried, Alone, Kinds, Has
    <2> HIDE DEF f
    <2>8. Leaves(h)
      BY <2>2, <2>6, <2>7 DEF Leaves, Has, Kinds, Loses
    <2>9. OnceEach'
      BY <2>2, <2>6 DEF Carried, OnceEach, Loses
    <2>10. pending' \subseteq pending /\ (h < CorrMod => h \notin pending')
      BY <2>2, <2>3, <2>4, DeliverEnds DEF Deliver
    <2> QED
      BY <2>2, <2>8, <2>9, <2>10, WiresAre, LeftCarried
  <1> QED
    BY <1>1, <1>2

\* The steps of the page that move no frame.
LEMMA PageCarries ==
  ASSUME BridgeInv, Carried,
         \/ \E c \in Calls : Timeout(c)
         \/ ReaderExit \/ ReaderDies \/ Dispose
         \/ \E w \in Workers : OnError(w)
  PROVE  Carried'
  <1>1. CASE Dispose
    <2>1. /\ UNCHANGED <<hello, post, c2w, w2c>> /\ pending' = {}
          /\ \A w \in Workers : back'[w] = back[w] \/ back'[w] = << >>
      BY <1>1, WiresAre DEF Dispose
    <2>2. \A c : ~Held(<< >>, c) /\ Once(<< >>, c)
      BY DEF Held, Once
    <2>3. OnceEach'
      BY <2>1, <2>2 DEF Carried, OnceEach
    <2>4. \A c \in Calls, k \in Kinds, w \in Workers : Has(k, w, c)' => Has(k, w, c)
      BY <2>1, <2>2 DEF Has
    <2>5. Alone' /\ Somewhere'
      BY <2>1, <2>4 DEF Carried, Alone, Somewhere
    <2> QED
      BY <2>3, <2>5 DEF Carried
  <1>2. CASE \/ \E c \in Calls : Timeout(c)
             \/ ReaderExit \/ ReaderDies \/ \E w \in Workers : OnError(w)
    <2>1. UNCHANGED <<hello, post, back, c2w, w2c, dropped>> /\ pending' \subseteq pending
      BY <1>2 DEF Timeout, ReaderExit, ReaderDies, OnError, workerVars, wireVars, historyVars
    <2>2. OnceEach' /\ Stays
      BY <2>1 DEF Carried, OnceEach, Stays, Has
    <2> QED
      BY <2>1, <2>2, WiresAre, StayedCarried
  <1> QED
    BY <1>1, <1>2
-----------------------------------------------------------------------------
\* An answer goes to one of the two ways back.
LEMMA ReplyCarries ==
  ASSUME BridgeInv, Carried, NEW w \in Workers, NEW f \in Issued, Reply(w, f),
         UNCHANGED <<pending, dropped>>,
         \A c \in Calls, v \in Workers :
           /\ Once(post'[v], c) /\ Once(c2w'[v], c)
           /\ \A g, e \in hello'[v] : g.req = c /\ e.req = c => g = e,
         \A c \in Calls, v \in Workers, k \in {"post", "c2w", "hello"} :
           Has(k, v, c)' <=> c # f.req /\ Has(k, v, c),
         \A v \in Workers, k \in {"back", "w2c"} : ~Has(k, v, f.req)
  PROVE  Carried'
  <1>1. f \in Packet /\ f.req \in Calls
    BY WiresAre
  <1> PICK h \in Calls : h = f.req
    BY <1>1
  <1>2. /\ Single(back) /\ Single(w2c)
        /\ \A v \in Workers : ~Held(back[v], h) /\ ~Held(w2c[v], h)
    BY DEF Carried, OnceEach, Single, Has
  <1>3. CASE pump[w] # "off" /\ Len(w2c[w]) < RingCap
    <2>1. w2c' = [w2c EXCEPT ![w] = Append(@, f)] /\ back' = back
      BY <1>3 DEF Reply
    <2>2. Put(w2c, w2c', w, f)
      BY <1>2, <2>1 DEF Put
    <2>3. Gains(w2c, w2c', w, h)
      BY <1>1, <1>2, <2>2, WiresAre, PutTo
    <2>4. OnceEach'
      BY <2>1, <2>3 DEF Carried, OnceEach, Gains
    <2>5. Lands(h, "w2c", w)
      BY <1>2, <2>1, <2>3 DEF Lands, Has, Kinds, Gains
    <2> QED
      BY <2>4, <2>5, WiresAre, LandedCarried DEF Kinds
  <1>4. CASE ~(pump[w] # "off" /\ Len(w2c[w]) < RingCap)
    <2>1. back' = [back EXCEPT ![w] = Append(@, f)] /\ w2c' = w2c
      BY <1>4 DEF Reply
    <2>2. Put(back, back', w, f)
      BY <1>2, <2>1 DEF Put
    <2>3. Gains(back, back', w, h)
      BY <1>1, <1>2, <2>2, WiresAre, PutTo
    <2>4. OnceEach'
      BY <2>1, <2>3 DEF Carried, OnceEach, Gains
    <2>5. Lands(h, "back", w)
      BY <1>2, <2>1, <2>3 DEF Lands, Has, Kinds, Gains
    <2> QED
      BY <2>4, <2>5, WiresAre, LandedCarried DEF Kinds
  <1> QED
    BY <1>3, <1>4

\* A request that was taken off its transport is answered, or waits.
LEMMA HandleCarries ==
  ASSUME BridgeInv, Carried, NEW w \in Workers, NEW f \in Issued, Handle(w, f),
         UNCHANGED <<pending, dropped>>,
         \A c \in Calls, v \in Workers : Once(post'[v], c) /\ Once(c2w'[v], c),
         \A c \in Calls, v \in Workers, k \in {"post", "c2w"} :
           Has(k, v, c)' <=> c # f.req /\ Has(k, v, c),
         \A v \in Workers, k \in {"hello", "back", "w2c"} : ~Has(k, v, f.req)
  PROVE  Carried'
  <1>1. f.req \in Calls
    BY WiresAre
  <1> PICK h \in Calls : h = f.req
    BY <1>1
  <1>2. CASE f.op = "hello" /\ hello' = [hello EXCEPT ![w] = @ \cup {f}] /\ UNCHANGED <<back, w2c>>
    <2>1. \A v \in Workers : hello'[v] = IF v = w THEN hello[v] \cup {f} ELSE hello[v]
      BY <1>2, WiresAre
    <2>2. \A v \in Workers : \A g \in hello[v] : g.req # h
      BY DEF Has
    <2>3. OnceEach'
      <3>1. \A c \in Calls, v \in Workers : \A g, e \in hello'[v] : g.req = c /\ e.req = c => g = e
        <4> SUFFICES ASSUME NEW c \in Calls, NEW v \in Workers,
                            NEW g \in hello'[v], NEW e \in hello'[v], g.req = c, e.req = c
                     PROVE  g = e
          OBVIOUS
        <4>1. (g \in hello[v] \/ (g = f /\ v = w)) /\ (e \in hello[v] \/ (e = f /\ v = w))
          BY <2>1
        <4>2. CASE g \in hello[v] /\ e \in hello[v]
          BY <4>2 DEF Carried, OnceEach
        <4> QED
          BY <2>2, <4>1, <4>2
      <3> QED
        BY <1>2, <3>1 DEF Carried, OnceEach
    <2>4. Lands(h, "hello", w)
      <3>1. ASSUME NEW c \in Calls, NEW v \in Workers
            PROVE  Has("hello", v, c)' <=> (c # h /\ Has("hello", v, c)) \/ (c = h /\ v = w)
        BY <2>1, <2>2 DEF Has
      <3>2. ASSUME NEW c \in Calls, NEW v \in Workers, NEW k \in {"back", "w2c"}
            PROVE  Has(k, v, c)' <=> c # h /\ Has(k, v, c)
        BY <1>2 DEF Has
      <3> QED
        BY <3>1, <3>2 DEF Lands, Kinds
    <2> QED
      BY <2>3, <2>4, WiresAre, LandedCarried DEF Kinds
  <1>3. CASE Reply(w, f) /\ UNCHANGED hello
    <2>1. \A c \in Calls, v \in Workers : Has("hello", v, c)' <=> c # h /\ Has("hello", v, c)
      BY <1>3 DEF Has
    <2>2. \A c \in Calls, v \in Workers : \A g, e \in hello'[v] : g.req = c /\ e.req = c => g = e
      BY <1>3 DEF Carried, OnceEach
    <2> QED
      BY <1>3, <2>1, <2>2, ReplyCarries
  <1> QED
    BY <1>2, <1>3 DEF Handle

\* The frame at the head of a queue to a worker is in no other place.
LEMMA PostHead ==
  ASSUME BridgeInv, Carried, NEW w \in Workers, post[w] # << >>,
         post' = [post EXCEPT ![w] = Tail(@)]
  PROVE  /\ Loses(post, post', w, Head(post[w]).req)
         /\ Head(post[w]) = RingInit \/ Head(post[w]) \in Issued
         /\ Head(post[w]).req \in Calls =>
              \A k \in Kinds, v \in Workers :
                Has(k, v, Head(post[w]).req) => k = "post" /\ v = w
  <1>1. Took(post, post', w) /\ Single(post)
    BY DEF Took, Carried, OnceEach, Single
  <1>2. Loses(post, post', w, Head(post[w]).req) /\ Held(post[w], Head(post[w]).req)
    BY <1>1, WiresAre, TookFrom
  <1>3. Head(post[w]) = RingInit \/ Head(post[w]) \in Issued
    <2>1. post[w] \in Seq(Issued \cup {RingInit})
      BY WiresAre
    <2> QED
      BY <2>1
  <1>4. Has("post", w, Head(post[w]).req)
    BY <1>2 DEF Has
  <1> QED
    BY <1>2, <1>3, <1>4 DEF Carried, Alone, Kinds

LEMMA RingHead ==
  ASSUME BridgeInv, Carried, NEW w \in Workers, c2w[w] # << >>,
         c2w' = [c2w EXCEPT ![w] = Tail(@)]
  PROVE  /\ Loses(c2w, c2w', w, Head(c2w[w]).req)
         /\ Head(c2w[w]) \in Issued
         /\ \A k \in Kinds, v \in Workers :
              Has(k, v, Head(c2w[w]).req) => k = "c2w" /\ v = w
  <1>1. Took(c2w, c2w', w) /\ Single(c2w)
    BY DEF Took, Carried, OnceEach, Single
  <1>2. Loses(c2w, c2w', w, Head(c2w[w]).req) /\ Held(c2w[w], Head(c2w[w]).req)
    BY <1>1, WiresAre, TookFrom
  <1>3. Head(c2w[w]) \in Issued
    <2>1. c2w[w] \in Seq(Issued)
      BY WiresAre
    <2> QED
      BY <2>1
  <1>4. Has("c2w", w, Head(c2w[w]).req) /\ Head(c2w[w]).req \in Calls
    BY <1>2, <1>3, WiresAre DEF Has
  <1> QED
    BY <1>2, <1>3, <1>4 DEF Carried, Alone, Kinds

LEMMA WorkerCarries ==
  ASSUME BridgeInv, Carried, NEW w \in Workers, WorkerStep(w)
  PROVE  Carried'
  <1>1. CASE Load(w) \/ LoadFails(w)
    <2>1. UNCHANGED <<hello, post, back, c2w, w2c, pending, dropped>>
      BY <1>1 DEF Load, LoadFails, pageVars, wireVars, historyVars
    <2>2. OnceEach' /\ Stays
      BY <2>1 DEF Carried, OnceEach, Stays, Has
    <2> QED
      BY <2>1, <2>2, WiresAre, StayedCarried
  <1>2. CASE Attach(w)
    <2>1. /\ post[w] # << >> /\ Head(post[w]) = RingInit
          /\ post' = [post EXCEPT ![w] = Tail(@)]
          /\ UNCHANGED <<hello, back, c2w, w2c, pending, dropped>>
      BY <1>2 DEF Attach, pageVars, historyVars
    <2>2. Loses(post, post', w, RingInit.req)
      BY <2>1, PostHead
    <2>3. OnceEach' /\ Stays
      BY <2>1, <2>2, WiresAre DEF Carried, OnceEach, Stays, Has, Loses
    <2> QED
      BY <2>1, <2>3, WiresAre, StayedCarried
  <1>3. CASE OnFrame(w)
    <2> DEFINE f == Head(post[w])
    <2>1. /\ post[w] # << >> /\ f # RingInit /\ post' = [post EXCEPT ![w] = Tail(@)]
          /\ UNCHANGED <<c2w, pending>>
          /\ \/ Handle(w, f) /\ UNCHANGED dropped
             \/ dropped' = dropped \cup {f.req} /\ UNCHANGED <<hello, back, w2c>>
      BY <1>3 DEF OnFrame, pageVars
    <2>2. /\ Loses(post, post', w, f.req) /\ f \in Issued
      BY <2>1, PostHead
    <2>3. PICK h \in Calls : h = f.req
      BY <2>2, WiresAre
    <2>4. \A k \in Kinds, v \in Workers : Has(k, v, h) => k = "post" /\ v = w
      BY <2>1, <2>3, PostHead
    <2> HIDE DEF f
    <2>5. \A c \in Calls, v \in Workers : Once(post'[v], c) /\ Once(c2w'[v], c)
      BY <2>1, <2>2 DEF Carried, OnceEach, Loses
    <2>6. \A c \in Calls, v \in Workers, k \in {"post", "c2w"} :
            Has(k, v, c)' <=> c # h /\ Has(k, v, c)
      BY <2>1, <2>2, <2>3, <2>4 DEF Has, Kinds, Loses
    <2>7. CASE Handle(w, f) /\ UNCHANGED dropped
      <3>1. \A v \in Workers, k \in {"hello", "back", "w2c"} : ~Has(k, v, h)
        BY <2>4 DEF Kinds
      <3> QED
        BY <2>1, <2>2, <2>3, <2>5, <2>6, <2>7, <3>1, HandleCarries
    <2>8. CASE dropped' = dropped \cup {f.req} /\ UNCHANGED <<hello, back, w2c>>
      <3>1. OnceEach'
        BY <2>5, <2>8 DEF Carried, OnceEach
      <3>2. \A c \in Calls, v \in Workers, k \in {"hello", "back", "w2c"} :
              Has(k, v, c)' <=> c # h /\ Has(k, v, c)
        BY <2>4, <2>8 DEF Has, Kinds
      <3>3. Leaves(h)
        BY <2>6, <3>2 DEF Leaves, Kinds
      <3> QED
        BY <2>1, <2>3, <2>8, <3>1, <3>3, WiresAre, LeftCarried
    <2> QED
      BY <2>1, <2>7, <2>8
  <1>4. CASE PumpTake(w)
    <2> DEFINE f == Head(c2w[w])
    <2>1. /\ c2w[w] # << >> /\ c2w' = [c2w EXCEPT ![w] = Tail(@)]
          /\ UNCHANGED <<post, pending, dropped>> /\ Handle(w, f)
      BY <1>4 DEF PumpTake, pageVars, historyVars
    <2>2. /\ Loses(c2w, c2w', w, f.req) /\ f \in Issued
      BY <2>1, RingHead
    <2>3. PICK h \in Calls : h = f.req
      BY <2>2, WiresAre
    <2>4. \A k \in Kinds, v \in Workers : Has(k, v, h) => k = "c2w" /\ v = w
      BY <2>1, <2>3, RingHead
    <2> HIDE DEF f
    <2>5. \A c \in Calls, v \in Workers : Once(post'[v], c) /\ Once(c2w'[v], c)
      BY <2>1, <2>2 DEF Carried, OnceEach, Loses
    <2>6. \A c \in Calls, v \in Workers, k \in {"post", "c2w"} :
            Has(k, v, c)' <=> c # h /\ Has(k, v, c)
      BY <2>1, <2>2, <2>3, <2>4 DEF Has, Kinds, Loses
    <2>7. \A v \in Workers, k \in {"hello", "back", "w2c"} : ~Has(k, v, h)
      BY <2>4 DEF Kinds
    <2> QED
      BY <2>1, <2>2, <2>3, <2>5, <2>6, <2>7, HandleCarries
  <1>5. CASE PumpDies(w)
    <2>1. /\ c2w[w] # << >> /\ UNCHANGED <<hello, post, back, w2c, pending>>
          /\ \/ /\ c2w' = [c2w EXCEPT ![w] = Tail(@)]
                /\ dropped' = dropped \cup {Head(c2w[w]).req}
             \/ UNCHANGED <<c2w, dropped>>
      BY <1>5 DEF PumpDies, pageVars
    <2>2. CASE UNCHANGED <<c2w, dropped>>
      <3>1. OnceEach' /\ Stays
        BY <2>1, <2>2 DEF Carried, OnceEach, Stays, Has
      <3> QED
        BY <2>1, <2>2, <3>1, WiresAre, StayedCarried
    <2>3. CASE c2w' = [c2w EXCEPT ![w] = Tail(@)] /\ dropped' = dropped \cup {Head(c2w[w]).req}
      <3>1. Loses(c2w, c2w', w, Head(c2w[w]).req) /\ Head(c2w[w]) \in Issued
        BY <2>1, <2>3, RingHead
      <3>2. PICK h \in Calls : h = Head(c2w[w]).req
        BY <3>1, WiresAre
      <3>3. \A k \in Kinds, v \in Workers : Has(k, v, h) => k = "c2w" /\ v = w
        BY <2>1, <2>3, <3>2, RingHead
      <3>4. OnceEach'
        BY <2>1, <3>1 DEF Carried, OnceEach, Loses
      <3>5. Leaves(h)
        BY <2>1, <3>1, <3>2, <3>3 DEF Leaves, Has, Kinds, Loses
      <3> QED
        BY <2>1, <2>3, <3>2, <3>4, <3>5, WiresAre, LeftCarried
    <2> QED
      BY <2>1, <2>2, <2>3
  <1>6. CASE \E f \in hello[w] : HelloReady(w, f)
    <2>1. PICK f \in hello[w] : HelloReady(w, f)
      BY <1>6
    <2>2. /\ hello' = [hello EXCEPT ![w] = @ \ {f}] /\ Reply(w, f)
          /\ UNCHANGED <<post, c2w, pending, dropped>>
      BY <2>1 DEF HelloReady, pageVars, historyVars
    <2>3. f \in Issued /\ f.req \in Calls
      BY WiresAre
    <2>4. PICK h \in Calls : h = f.req
      BY <2>3
    <2>5. Has("hello", w, h)
      BY <2>4 DEF Has
    <2>6. \A k \in Kinds, v \in Workers : Has(k, v, h) => k = "hello" /\ v = w
      BY <2>5 DEF Carried, Alone, Kinds
    <2>7. \A v \in Workers : hello'[v] = IF v = w THEN hello[v] \ {f} ELSE hello[v]
      BY <2>2, WiresAre
    <2>8. \A c \in Calls, v \in Workers :
            /\ Once(post'[v], c) /\ Once(c2w'[v], c)
            /\ \A g, e \in hello'[v] : g.req = c /\ e.req = c => g = e
      BY <2>2, <2>7 DEF Carried, OnceEach
    <2>9. \A c \in Calls, v \in Workers : Has("hello", v, c)' <=> c # h /\ Has("hello", v, c)
      <3>1. \A g \in hello[w] : g.req = h => g = f
        BY <2>4 DEF Carried, OnceEach
      <3>2. \A v \in Workers : v # w => \A g \in hello[v] : g.req # h
        BY <2>6 DEF Has, Kinds
      <3> QED
        BY <2>4, <2>7, <3>1, <3>2 DEF Has
    <2>10. \A c \in Calls, v \in Workers, k \in {"post", "c2w"} :
             Has(k, v, c)' <=> c # h /\ Has(k, v, c)
      BY <2>2, <2>6 DEF Has, Kinds
    <2>11. \A v \in Workers, k \in {"back", "w2c"} : ~Has(k, v, h)
      BY <2>6 DEF Kinds
    <2> QED
      BY <2>2, <2>3, <2>4, <2>8, <2>9, <2>10, <2>11, ReplyCarries
  <1> QED
    BY <1>1, <1>2, <1>3, <1>4, <1>5, <1>6 DEF WorkerStep

-----------------------------------------------------------------------------
LEMMA CarriedInit == BridgeInit => Carried
  <1> SUFFICES ASSUME BridgeInit PROVE Carried
    OBVIOUS
  <1>1. \A c : ~Held(<< >>, c) /\ Once(<< >>, c)
    BY DEF Held, Once
  <1>2. \A c : \A k \in Kinds, w \in Workers : ~Has(k, w, c)
    BY <1>1 DEF BridgeInit, Has
  <1>3. OnceEach
    BY <1>1 DEF BridgeInit, OnceEach
  <1>4. pending = {}
    BY DEF BridgeInit
  <1> QED
    BY <1>2, <1>3, <1>4 DEF Carried, Alone, Somewhere

LEMMA CarriedNext == BridgeInv /\ Carried /\ [BridgeNext]_bridgeVars => Carried'
  <1> SUFFICES ASSUME BridgeInv, Carried, [BridgeNext]_bridgeVars PROVE Carried'
    OBVIOUS
  <1>1. CASE UNCHANGED bridgeVars
    <2>1. UNCHANGED <<hello, post, back, c2w, w2c, pending, dropped>>
      BY <1>1 DEF bridgeVars, pageVars, workerVars, wireVars, historyVars
    <2>2. OnceEach' /\ Stays
      BY <2>1 DEF Carried, OnceEach, Stays, Has
    <2> QED
      BY <2>1, <2>2, WiresAre, StayedCarried
  <1>2. CASE \E op \in Ops : Call(op)
    BY <1>2, CallCarries
  <1>3. CASE ReaderTake \/ \E w \in Workers : OnMessage(w)
    BY <1>3, DeliverCarries
  <1>4. CASE \/ \E c \in Calls : Timeout(c)
             \/ ReaderExit \/ ReaderDies \/ Dispose
             \/ \E w \in Workers : OnError(w)
    BY <1>4, PageCarries
  <1>5. CASE \E w \in Workers : WorkerStep(w)
    BY <1>5, WorkerCarries
  <1> QED
    BY <1>1, <1>2, <1>3, <1>4, <1>5 DEF BridgeNext

\* One place of one kind, and one position in it.
LEMMA CarriedIsUnderWay == BridgeInv /\ Carried => FrameIsUnderWay
  <1> SUFFICES ASSUME BridgeInv, Carried, NEW c \in pending \ dropped, c < CorrMod
               PROVE  \E p \in Places(c) : Places(c) = {p}
    BY DEF FrameIsUnderWay
  <1>1. c \in Calls
    BY WiresAre
  <1>2. PICK k \in Kinds, w \in Workers : Has(k, w, c)
    BY DEF Carried, Somewhere
  <1>3. \A l \in Kinds, v \in Workers : Has(l, v, c) => l = k /\ v = w
    BY <1>1, <1>2 DEF Carried, Alone
  <1>4. \A v \in Workers : Copies(post[v], c) # {} => k = "post" /\ v = w
    BY <1>3 DEF Copies, Has, Held, Kinds
  <1>5. \A v \in Workers : Copies(back[v], c) # {} => k = "back" /\ v = w
    BY <1>3 DEF Copies, Has, Held, Kinds
  <1>6. \A v \in Workers : Copies(c2w[v], c) # {} => k = "c2w" /\ v = w
    BY <1>3 DEF Copies, Has, Held, Kinds
  <1>7. \A v \in Workers : Copies(w2c[v], c) # {} => k = "w2c" /\ v = w
    BY <1>3 DEF Copies, Has, Held, Kinds
  <1>8. \A v \in Workers : \A f \in hello[v] : f.req = c => k = "hello" /\ v = w
    BY <1>3 DEF Has, Kinds
  <1>9. ASSUME NEW q, NEW kind, Once(q[w], c), Held(q[w], c),
               \A v \in Workers : v # w => Copies(q[v], c) = {}
        PROVE  \E p : In(q, kind, c) = {p}
    <2>1. PICK i \in DOMAIN q[w] : q[w][i].req = c
      BY <1>9 DEF Held
    <2>2. Copies(q[w], c) = {i}
      BY <1>9, <2>1 DEF Copies, Once
    <2>3. In(q, kind, c) = {<<kind, w, i>>}
      BY <1>9, <2>2 DEF In
    <2> QED
      BY <2>3
  <1>10. ASSUME NEW q, NEW kind, \A v \in Workers : Copies(q[v], c) = {}
         PROVE  In(q, kind, c) = {}
    BY <1>10 DEF In
  <1>11. /\ k # "post" => In(post, "post", c) = {}
         /\ k # "back" => In(back, "back", c) = {}
         /\ k # "c2w" => In(c2w, "c2w", c) = {}
         /\ k # "w2c" => In(w2c, "w2c", c) = {}
    BY <1>4, <1>5, <1>6, <1>7, <1>10
  <1>12. k # "hello" => Waits(c) = {}
    BY <1>8 DEF Waits
  <1>13. /\ Once(post[w], c) /\ Once(back[w], c) /\ Once(c2w[w], c) /\ Once(w2c[w], c)
         /\ \A f, g \in hello[w] : f.req = c /\ g.req = c => f = g
    BY <1>1 DEF Carried, OnceEach
  <1>14. /\ k = "post" => \E p : In(post, "post", c) = {p}
         /\ k = "back" => \E p : In(back, "back", c) = {p}
         /\ k = "c2w" => \E p : In(c2w, "c2w", c) = {p}
         /\ k = "w2c" => \E p : In(w2c, "w2c", c) = {p}
    <2>1. CASE k = "post"
      BY <1>2, <1>4, <1>9, <1>13, <2>1 DEF Has
    <2>2. CASE k = "back"
      BY <1>2, <1>5, <1>9, <1>13, <2>2 DEF Has
    <2>3. CASE k = "c2w"
      BY <1>2, <1>6, <1>9, <1>13, <2>3 DEF Has
    <2>4. CASE k = "w2c"
      BY <1>2, <1>7, <1>9, <1>13, <2>4 DEF Has
    <2> QED
      BY <2>1, <2>2, <2>3, <2>4
  <1>15. k = "hello" => \E p : Waits(c) = {p}
    <2> SUFFICES ASSUME k = "hello" PROVE \E p : Waits(c) = {p}
      OBVIOUS
    <2>1. PICK f \in hello[w] : f.req = c
      BY <1>2 DEF Has
    <2>2. \A v \in Workers : {g \in hello[v] : g.req = c} = IF v = w THEN {f} ELSE {}
      BY <1>8, <1>13, <2>1
    <2>3. Waits(c) = {<<"hello", w, f>>}
      BY <2>2 DEF Waits
    <2> QED
      BY <2>3
  <1>16. \E p : Places(c) = {p}
    BY <1>11, <1>12, <1>14, <1>15 DEF Places, Kinds
  <1> QED
    BY <1>16

\* Whatever ring is full, replaced or left by a dead pump, the request or the
\* answer of a call that waits is in exactly one place.
THEOREM FramesKept == BridgeSpec => []FrameIsUnderWay
  <1>1. BridgeInit => BridgeInv /\ Carried
    BY BridgeInvInit, CarriedInit
  <1>2. BridgeInv /\ Carried /\ [BridgeNext]_bridgeVars => (BridgeInv /\ Carried)'
    BY BridgeInvNext, CarriedNext
  <1>3. BridgeInv /\ Carried => FrameIsUnderWay
    BY CarriedIsUnderWay
  <1> QED
    BY <1>1, <1>2, <1>3, PTL DEF BridgeSpec

=============================================================================

---------------------------- MODULE KernelBridge -----------------------------
(***************************************************************************)
(* The bridge between the page and the kernel worker                       *)
(* (kernel/kernel-worker-bridge.ts, kernel/kernel.worker.ts, kernel/ipc.ts):*)
(* the table of pending calls, the two transports - a pair of shared rings *)
(* and postMessage behind them - and the loops that drain the rings.       *)
(*                                                                         *)
(* The page is one thread and every worker is another; a step is what one  *)
(* of them runs before it returns to its event loop, except that the loops *)
(* that drain a ring take one frame per step.  A ring is the queue module  *)
(* SharedRing implements, of a few frames here.  A frame is its request    *)
(* and its operation; an answer carries the request it answers.            *)
(***************************************************************************)
EXTENDS Naturals, Sequences

CONSTANTS
  MaxCalls,     \* bound: calls issued
  CorrMod,      \* a frame keeps the low bits of corrId (2^32 in the code)
  MaxWorkers,   \* bound: workers started one after the other
  RingCap,      \* frames a ring holds
  MaxFaults,    \* bound: scripts that do not load, handlers and pops that throw
  MaxDisposals  \* bound: disposeKernelWorker

ASSUME BridgeAssumption ==
  /\ MaxCalls \in Nat /\ MaxWorkers \in Nat /\ RingCap \in Nat
  /\ CorrMod \in Nat \ {0}
  /\ MaxFaults \in Nat /\ MaxDisposals \in Nat

Calls == 1..MaxCalls
Workers == 1..MaxWorkers
None == 0

\* HELLO waits for the Wasm module; ROUTE and DIGEST are answered at once.
Ops == {"hello", "direct"}
Frame == [req : Calls, op : Ops]
RingInit == [req |-> None, op |-> "ring"]   \* the {t: "ring"} message

\* encodeFrame: setUint32(4, corrId)
Corr(f) == f.req % CorrMod

VARIABLES
  \* the page
  worker,   \* the worker that new calls go to, or None
  rings,    \* the worker whose rings ringOut and ringIn are, or None
  seq,      \* seq, the last corrId
  pending,  \* corrIds in the table of pending calls
  reader,   \* ringReader: "off", or "on" (ringLoop)
  status,   \* what became of each call
  \* every worker
  life,     \* "none", "loading", "up", "failed" (to load) or "ended"
  pump,     \* "off" (no rings attached), "on" or "dead"
  hello,    \* HELLO frames that wait for ensureWasm
  raised,   \* workers with an error event on its way to the page
  \* transports, by worker
  post, back,   \* postMessage to the worker and to the page
  c2w, w2c,     \* the rings to the worker and to the page
  \* history
  got,      \* the request whose answer a call was given
  cutOff,   \* calls that disposeKernelWorker took out of the table
  dropped,  \* requests that went down with a throw or a worker
  brokenOn, \* the rings on which the reader died
  faults, disposals

pageVars == <<worker, rings, seq, pending, reader, status>>
workerVars == <<life, pump, hello, raised>>
wireVars == <<post, back, c2w, w2c>>
historyVars == <<got, cutOff, dropped, brokenOn, faults, disposals>>
bridgeVars == <<pageVars, workerVars, wireVars, historyVars>>

BridgeInit ==
  /\ worker = None /\ rings = None /\ seq = 0 /\ pending = {} /\ reader = "off"
  /\ status = [c \in Calls |-> "unused"]
  /\ life = [w \in Workers |-> "none"]
  /\ pump = [w \in Workers |-> "off"]
  /\ hello = [w \in Workers |-> {}]
  /\ raised = {}
  /\ post = [w \in Workers |-> <<>>] /\ back = [w \in Workers |-> <<>>]
  /\ c2w = [w \in Workers |-> <<>>] /\ w2c = [w \in Workers |-> <<>>]
  /\ got = [c \in Calls |-> 0]
  /\ cutOff = {} /\ dropped = {} /\ brokenOn = None
  /\ faults = 0 /\ disposals = 0

Fault == faults < MaxFaults /\ faults' = faults + 1

-----------------------------------------------------------------------------
(***************************************************************************)
(* The page.                                                               *)
(***************************************************************************)

\* ensureWorker when there is one.
HasWorker ==
  /\ worker # None
  /\ UNCHANGED <<worker, rings, reader, life>>

\* ensureWorker, setupRings: a new worker and, if shared memory is there,
\* rings for it and the reader, unless one is still running.
NewWorker(w) ==
  /\ worker = None
  /\ life[w] = "none" /\ \A v \in 1..(w - 1) : life[v] # "none"
  /\ worker' = w
  /\ life' = [life EXCEPT ![w] = "loading"]
  /\ \/ rings' = None /\ UNCHANGED reader
     \/ rings' = w /\ reader' = "on"

\* Mutant: a full ring is taken for success.
SendNoFallback(f) ==
  /\ c2w' = IF rings' # None /\ Len(c2w[rings']) < RingCap
            THEN [c2w EXCEPT ![rings'] = Append(@, f)] ELSE c2w
  /\ post' = IF rings' # None
             THEN IF rings = rings' THEN post
                  ELSE [post EXCEPT ![worker'] = Append(@, RingInit)]
             ELSE [post EXCEPT ![worker'] = Append(@, f)]

\* The ring first; postMessage if there is none or it is full.  The rings of
\* a new worker are announced to it before anything else.
Send(f) ==
  LET fits == rings' # None /\ Len(c2w[rings']) < RingCap
      announced == IF rings = rings' THEN post
                   ELSE [post EXCEPT ![worker'] = Append(@, RingInit)]
  IN  IF fits
      THEN c2w' = [c2w EXCEPT ![rings'] = Append(@, f)] /\ post' = announced
      ELSE post' = [announced EXCEPT ![worker'] = Append(@, f)] /\ UNCHANGED c2w

\* call(op, payload).  Bound on the rate: fewer than CorrMod calls are issued
\* in the 1.5 s a call may wait.
Call(op) ==
  /\ seq < MaxCalls
  /\ \A c \in pending : seq + 1 - c < CorrMod
  /\ HasWorker \/ \E w \in Workers : NewWorker(w)
  /\ seq' = seq + 1
  /\ pending' = pending \cup {seq'}
  /\ status' = [status EXCEPT ![seq'] = "waiting"]
  /\ Send([req |-> seq', op |-> op])
  /\ UNCHANGED <<pump, hello, raised, back, w2c, historyVars>>

\* deliver(buf): the answer goes to the pending call with the frame's
\* corrId; an answer nobody waits for is dropped.
Deliver(f) ==
  LET due == {c \in pending : c = Corr(f)} IN
  /\ pending' = pending \ due
  /\ status' = [c \in Calls |-> IF c \in due THEN "answered" ELSE status[c]]
  /\ got' = [c \in Calls |-> IF c \in due THEN f.req ELSE got[c]]

\* worker.onmessage
OnMessage(w) ==
  /\ back[w] # <<>>
  /\ back' = [back EXCEPT ![w] = Tail(@)]
  /\ Deliver(Head(back[w]))
  /\ UNCHANGED <<worker, rings, seq, reader, workerVars, post, c2w, w2c>>
  /\ UNCHANGED <<cutOff, dropped, brokenOn, faults, disposals>>

\* ringReader takes a frame from the rings that are current now.
ReaderTake ==
  /\ reader = "on" /\ rings # None
  /\ w2c[rings] # <<>>
  /\ w2c' = [w2c EXCEPT ![rings] = Tail(@)]
  /\ Deliver(Head(w2c[rings]))
  /\ UNCHANGED <<worker, rings, seq, reader, workerVars, post, back, c2w>>
  /\ UNCHANGED <<cutOff, dropped, brokenOn, faults, disposals>>

\* Mutant: the loop ends when the ring is empty.
ReaderExitsEmpty ==
  /\ reader = "on" /\ (rings # None => w2c[rings] = <<>>)
  /\ reader' = "off"
  /\ UNCHANGED <<worker, rings, seq, pending, status>>
  /\ UNCHANGED <<workerVars, wireVars, historyVars>>

\* It wakes, at the latest after 25 ms, and finds no rings.
ReaderExit ==
  /\ reader = "on" /\ rings = None
  /\ reader' = "off"
  /\ UNCHANGED <<worker, rings, seq, pending, status>>
  /\ UNCHANGED <<workerVars, wireVars, historyVars>>

\* pop throws at the end of the ring (SharedRing!ReaderRunsOn is violated).
ReaderDies ==
  /\ reader = "on" /\ rings # None
  /\ w2c[rings] # <<>>
  /\ Fault
  /\ reader' = "off" /\ brokenOn' = rings
  /\ UNCHANGED <<worker, rings, seq, pending, status, workerVars, wireVars>>
  /\ UNCHANGED <<got, cutOff, dropped, disposals>>

\* Mutant: a call that times out stays in the table.
TimeoutKeeps(c) ==
  /\ c \in pending
  /\ status' = [status EXCEPT ![c] = "fallback"]
  /\ UNCHANGED <<worker, rings, seq, pending, reader>>
  /\ UNCHANGED <<workerVars, wireVars, historyVars>>

\* TIMEOUT_MS are over: resolve(null), the caller computes by itself.  The
\* timer of a call that is in the table no more does nothing.
Timeout(c) ==
  /\ c \in pending
  /\ pending' = pending \ {c}
  /\ status' = [status EXCEPT ![c] = "fallback"]
  /\ UNCHANGED <<worker, rings, seq, reader>>
  /\ UNCHANGED <<workerVars, wireVars, historyVars>>

\* Mutant: the numbering starts again with the next worker.
OnErrorResets(w) ==
  /\ w \in raised
  /\ raised' = raised \ {w}
  /\ worker' = None /\ rings' = None
  /\ seq' = 0
  /\ UNCHANGED <<pending, reader, status, life, pump, hello>>
  /\ UNCHANGED <<wireVars, historyVars>>

\* Mutant: the rings of the worker that failed are kept.
OnErrorKeepsRings(w) ==
  /\ w \in raised
  /\ raised' = raised \ {w}
  /\ worker' = None
  /\ UNCHANGED <<rings, seq, pending, reader, status, life, pump, hello>>
  /\ UNCHANGED <<wireVars, historyVars>>

\* worker.onerror.  The handler does not look at which worker it is, and the
\* worker is not ended: what it still posts is delivered.
OnError(w) ==
  /\ w \in raised
  /\ raised' = raised \ {w}
  /\ worker' = None /\ rings' = None
  /\ UNCHANGED <<seq, pending, reader, status, life, pump, hello>>
  /\ UNCHANGED <<wireVars, historyVars>>

\* disposeKernelWorker: the table is cleared, and the promises of the calls
\* in it are never settled.
Dispose ==
  /\ disposals < MaxDisposals
  /\ disposals' = disposals + 1
  /\ life' = [w \in Workers |-> IF w = worker THEN "ended" ELSE life[w]]
  /\ back' = [w \in Workers |-> IF w = worker THEN <<>> ELSE back[w]]
  /\ raised' = raised \ {worker}
  /\ worker' = None /\ rings' = None /\ pending' = {}
  /\ cutOff' = cutOff \cup pending
  /\ UNCHANGED <<seq, reader, status, pump, hello, post, c2w, w2c>>
  /\ UNCHANGED <<got, dropped, brokenOn, faults>>

-----------------------------------------------------------------------------
(***************************************************************************)
(* A worker.                                                               *)
(***************************************************************************)
Load(w) ==
  /\ life[w] = "loading"
  /\ life' = [life EXCEPT ![w] = "up"]
  /\ UNCHANGED <<pump, hello, raised, pageVars, wireVars, historyVars>>

\* The script cannot be fetched: the page gets an error event.
LoadFails(w) ==
  /\ life[w] = "loading"
  /\ Fault
  /\ life' = [life EXCEPT ![w] = "failed"]
  /\ raised' = raised \cup {w}
  /\ UNCHANGED <<pump, hello, pageVars, wireVars>>
  /\ UNCHANGED <<got, cutOff, dropped, brokenOn, disposals>>

\* post(bytes): the ring once it is attached, postMessage if it is full.
Reply(w, f) ==
  IF pump[w] # "off" /\ Len(w2c[w]) < RingCap
  THEN w2c' = [w2c EXCEPT ![w] = Append(@, f)] /\ UNCHANGED back
  ELSE back' = [back EXCEPT ![w] = Append(@, f)] /\ UNCHANGED w2c

\* handle(buf)
Handle(w, f) ==
  \/ /\ f.op = "hello"
     /\ hello' = [hello EXCEPT ![w] = @ \cup {f}]
     /\ UNCHANGED <<back, w2c>>
  \/ f.op = "direct" /\ Reply(w, f) /\ UNCHANGED hello

\* ensureWasm().then(...)
HelloReady(w, f) ==
  /\ life[w] = "up" /\ f \in hello[w]
  /\ hello' = [hello EXCEPT ![w] = @ \ {f}]
  /\ Reply(w, f)
  /\ UNCHANGED <<life, pump, raised, post, c2w, pageVars, historyVars>>

\* self.onmessage with a {t: "ring"} message
Attach(w) ==
  /\ life[w] = "up"
  /\ post[w] # <<>> /\ Head(post[w]) = RingInit
  /\ post' = [post EXCEPT ![w] = Tail(@)]
  /\ pump' = [pump EXCEPT ![w] = "on"]
  /\ UNCHANGED <<life, hello, raised, back, c2w, w2c, pageVars, historyVars>>

\* self.onmessage with a frame; when handle throws, the page is told.
OnFrame(w) ==
  LET f == Head(post[w]) IN
  /\ life[w] = "up"
  /\ post[w] # <<>> /\ f # RingInit
  /\ post' = [post EXCEPT ![w] = Tail(@)]
  /\ \/ /\ Handle(w, f)
        /\ UNCHANGED <<raised, dropped, faults>>
     \/ /\ Fault
        /\ raised' = raised \cup {w}
        /\ dropped' = dropped \cup {f.req}
        /\ UNCHANGED <<hello, back, w2c>>
  /\ UNCHANGED <<life, pump, c2w, pageVars, got, cutOff, brokenOn, disposals>>

\* pump() takes a frame.  When handle throws, or pop does, the pump ends
\* without a word: it is an async function nobody awaits.
PumpTake(w) ==
  /\ life[w] = "up" /\ pump[w] = "on"
  /\ c2w[w] # <<>>
  /\ c2w' = [c2w EXCEPT ![w] = Tail(@)]
  /\ Handle(w, Head(c2w[w]))
  /\ UNCHANGED <<life, pump, raised, post, pageVars, historyVars>>

PumpDies(w) ==
  /\ life[w] = "up" /\ pump[w] = "on"
  /\ c2w[w] # <<>>
  /\ Fault
  /\ pump' = [pump EXCEPT ![w] = "dead"]
  /\ \/ /\ c2w' = [c2w EXCEPT ![w] = Tail(@)]
        /\ dropped' = dropped \cup {Head(c2w[w]).req}
     \/ UNCHANGED <<c2w, dropped>>
  /\ UNCHANGED <<life, hello, raised, post, back, w2c, pageVars>>
  /\ UNCHANGED <<got, cutOff, brokenOn, disposals>>

-----------------------------------------------------------------------------
WorkerStep(w) ==
  \/ Load(w) \/ LoadFails(w) \/ Attach(w) \/ OnFrame(w)
  \/ PumpTake(w) \/ PumpDies(w) \/ \E f \in hello[w] : HelloReady(w, f)

BridgeNext ==
  \/ \E op \in Ops : Call(op)
  \/ \E c \in Calls : Timeout(c)
  \/ ReaderTake \/ ReaderExit \/ ReaderDies \/ Dispose
  \/ \E w \in Workers : OnMessage(w) \/ OnError(w) \/ WorkerStep(w)

(***************************************************************************)
(* Fairness: the timer of every call fires, and that is all: no worker and *)
(* no event has to come.                                                   *)
(***************************************************************************)
BridgeSpec == /\ BridgeInit /\ [][BridgeNext]_bridgeVars
              /\ \A c \in Calls : WF_bridgeVars(Timeout(c))

-----------------------------------------------------------------------------
(***************************************************************************)
(* Properties.                                                             *)
(***************************************************************************)
Wire == [Workers -> Seq(Frame)]

\* Type invariant.
BridgeTypeOK ==
  /\ worker \in Workers \cup {None} /\ rings \in {None, worker}
  /\ seq \in 0..MaxCalls /\ pending \in SUBSET Calls
  /\ reader \in {"off", "on"}
  /\ status \in [Calls -> {"unused", "waiting", "answered", "fallback"}]
  /\ life \in [Workers -> {"none", "loading", "up", "failed", "ended"}]
  /\ pump \in [Workers -> {"off", "on", "dead"}]
  /\ hello \in [Workers -> SUBSET Frame] /\ raised \in SUBSET Workers
  /\ post \in [Workers -> Seq(Frame \cup {RingInit})]
  /\ back \in Wire /\ c2w \in Wire /\ w2c \in Wire
  /\ got \in [Calls -> 0..MaxCalls]
  /\ cutOff \in SUBSET Calls /\ dropped \in SUBSET Calls
  /\ brokenOn \in Workers \cup {None}
  /\ faults \in 0..MaxFaults /\ disposals \in 0..MaxDisposals

\* The table of pending calls and the callers agree: a call that waits is in
\* the table, so that its timer and its answer find it, unless the bridge was
\* disposed of; and nothing else is in the table (it does not leak).
TableIsExact == pending = {c \in Calls : status[c] = "waiting"} \ cutOff

\* The places a request or its answer is in: a position in a queue of a
\* transport, or the set of HELLOs that wait.
Copies(s, c) == {i \in DOMAIN s : s[i].req = c}
In(q, kind, c) == UNION {{<<kind, w, i>> : i \in Copies(q[w], c)} : w \in Workers}
Waits(c) == UNION {{<<"hello", w, f>> : f \in {f \in hello[w] : f.req = c}} : w \in Workers}

Places(c) == In(post, "post", c) \cup In(back, "back", c) \cup In(c2w, "c2w", c)
               \cup In(w2c, "w2c", c) \cup Waits(c)

\* No transport loses or doubles a frame: a call that waits has its request
\* or its answer in exactly one place, whatever ring was full or replaced,
\* unless a handler threw on it, its worker was disposed of, or its corrId no
\* longer fits the frame.
FrameIsUnderWay ==
  \A c \in pending \ dropped : c < CorrMod => \E p \in Places(c) : Places(c) = {p}

\* Whenever there are rings, somebody reads them: a reader that slept while
\* the worker was replaced goes on with the new rings, and two readers never
\* run.  The exception is the reader that died at the end of these rings.
RingsAreRead == rings # None /\ reader = "off" => brokenOn = rings

\* Every call ends, with its own answer or with none: late answers, answers
\* of a replaced worker and answers over the other transport never reach
\* another call.  Only disposeKernelWorker leaves a caller without an end.
abstractState == [c \in Calls |-> IF c \in cutOff THEN "abandoned" ELSE status[c]]

Remote == INSTANCE RemoteCall WITH state <- abstractState

CallsEnd == Remote!CallsSpec

=============================================================================

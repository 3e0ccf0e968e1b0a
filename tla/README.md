# Verification of the messaging core of tedbirge.app

TLA+ models of the part of this repository that moves messages: the browser
node, its off-grid queue and cloud mailbox, the chat engine's conversations, the
ring buffer and the bridge between the page and the kernel worker, the call
engine, and the supervision of the services that keep all of it running. The
models are checked with TLC on small instances; the properties that
matter most are proved with TLAPS for every value of the constants.

Paths below are relative to `src/src/` unless they say otherwise.

## 1. The system

tedbirge.app is a browser application (React, TanStack Start) with a messaging
core that works without a central server being up: a page runs one *browser node*
which talks to other devices over WebRTC data channels, over a realtime broadcast
channel, over serial/Bluetooth carriers, and, when the other side cannot be
reached, through a *cloud relay* that stores encrypted envelopes for 14 days.

| Component | Source | State it keeps | Operations |
|---|---|---|---|
| Cloud relay mailbox | `routes/api/public/relay.ts`, `lib/relay-cloud.ts`, `drizzle/migrations/0000_...sql` | table `relay_envelopes`; the client's cooldown | push, pull (with acknowledgements), pruning by the hour; publish/lookup of keys |
| Receiving pipeline | `lib/browser-node.ts`, `lib/mesh/guard.ts`, `lib/mesh-bus.ts` | `relayBusy`, `relayAck`, the guard's filter of 4096 ids, the inbox store, subscribers | `pollRelay`, `onMeshMessage`, `admitEnvelope`, `handleForMe`, `bootMeshBus` |
| Outbox, sending side | `lib/browser-node.ts`, `lib/store/idb.ts` | the outbox store, `flushBusy`, open channels | `send`, `relayViaCloud`, `enqueue`, `flushQueue` |
| Chat engine | `lib/chat/engine.ts` | message and conversation stores, retry table, `retryInFlight`, unread counts | `sendText`, `setStatus`, `retryMessage`, `pumpRetryQueue`, `sweepStalePending`, `deleteMessage`, `onChat`, `onReceipt`, `markRead`, `bootChat` |
| Browser node life cycle | `lib/node-runtime.ts`, `lib/browser-node.ts` | `node`, timers, listeners, the realtime channel, the saved wish to start | `startNode`, `stopNode`, `start`, `stop`, `connectCloud` |
| Service supervisor | `shell/services/registry.ts`, `shell/services/services.ts` | a record per service: status, retries, timer, stop function | `startAll`, `run`, `fail`, `check`, `restart`, `stop`, `start`, `stopAll` |
| Shared ring | `kernel/shared-ring.ts`, `kernel/kernel-worker-bridge.ts`, `kernel/kernel.worker.ts` | three control words, a data area, the reader's wait | `push`, `pop`, `waitForData` and the loops that drain it |
| Kernel worker bridge | `kernel/kernel-worker-bridge.ts`, `kernel/kernel.worker.ts`, `kernel/ipc.ts` | the worker, its rings, the table of pending calls with their timers | `call`, `deliver`, `ringReader`, `onmessage`, `onerror`, `disposeKernelWorker`; `handle`, `pump` |
| Kernel supervisor, multipath | `kernel/supervisor.ts`, `kernel/multipath.ts` | panic counter, path scores | recovery, splitting of payloads |
| Mesh routing, DHT, edge health | `lib/mesh-routing.ts`, `lib/mesh/*` | edge weights, observed nodes | shortest paths, penalties |
| Calls | `lib/call/engine.ts` | phase, connections, local media, waiting offers, timers, call log entry | `startCall`, `acceptCall`, `endCall`, `onCallSignal`, `restartIce` |
| Tab leadership | `shell/services/registry.ts`, `lib/chat/leader.ts` | a Web Lock | acquire, release |
| Carriers, encryption, VFS, Axiom, native crates, pages, public API | see `PROJECT.json` | - | - |

How they interact:

- The **chat engine** calls `send` of the node and learns of later successes by the
  event `tedbirge:outbox-sent`; it receives through the **mesh bus**, whose handler
  the node calls without awaiting it.
- The **node** calls the **relay** by HTTP. A pull carries the acknowledgement of the
  batch before it; the relay deletes what is acknowledged and then reads.
- The **outbox** and the **inbox** are stores of IndexedDB: they survive a reload, all
  other state of a page does not.
- The **supervisor** starts the runtime, the node and the synchronisation in the
  order of their dependencies; `CallHost` and several panels call `startNode` on
  their own, and `CallHost` starts the chat engine when that call has resolved.
- The **page** and the **kernel worker** share two rings, one per direction, and
  `postMessage` behind them when a ring is full or does not exist. A worker that
  breaks is replaced by a new one with new rings.
- Two **chat engines** change each other's records by what the mesh carries: texts,
  receipts and deletions, late, lost or twice.
- The **call engine** sends its signals over the mesh as well, without an order and
  without a number that says which call they belong to.

What is hard here. Everything runs on one thread per page, but nearly every
operation awaits (IndexedDB, HTTP, `import()`), tests before an await what it uses
after it, and is called from timers, from browser events and by the user at once.
Requests fail after they took effect; pages are reloaded between two stores;
envelopes come over several paths in several copies; the relay keeps what the
receiver's guard will no longer take. Handlers of the chat engine write back whole
records that they read before an await; timers and continuations of a call outlive
it. The ring is the one place with two threads on shared memory.

What makes each component correct:

- *Receiving*: an envelope reaches the application at most once; the device
  acknowledges only what it has been through; an envelope the relay accepted is
  never lost without a name for the loss; mailboxes drain.
- *Sending*: no first tick without an envelope on its way; no intent of an unsent
  message disappears; every message composed is delivered in the end.
- *Life cycle*: one node per page, and a stopped node is silent.
- *Supervisor*: no leaked instance, no revived service, failing services recover.
- *Ring*: a queue without lost wake-ups, at every position of a wrap.
- *Bridge*: every call ends, with its own answer or with none; the table does not
  leak; rings that exist are read.
- *Conversation*: ticks are true; the badge covers what is unread; a record does not
  go back but for the races named; no message is pending for ever or barred from a
  retry.
- *Calls*: nobody is put through without consent; a device without a call has no
  microphone or connection open; calling and ringing end.

## 2. Modules

| Module | Models | Notes |
|---|---|---|
| `Envelopes` | messages and the envelopes that carry them | constants only |
| `RelayMailbox` | relay, `pollRelay`, `onMeshMessage`, guard, inbox, bus, `onChat` | a step is what runs between two awaits |
| `Outbox` | `sendText`, `retryMessage`, `send`, `flushQueue`, the relay client's cooldown | the other end of the same queue |
| `OffGrid` | `Outbox` and `RelayMailbox` composed | they meet where an envelope is taken |
| `Courier` | abstract: what is accepted is delivered | implemented by `OffGrid` |
| `SharedRing` | `SharedRing` with its reader loops, access by access | parameterised by the length word |
| `Fifo` | abstract: a queue that is drained | implemented by `SharedRing` |
| `KernelBridge` | the bridge of the page, its workers, both transports | a ring is `Fifo` here, of a few frames |
| `RemoteCall` | abstract: a call ends with its own answer or with none | implemented by `KernelBridge` |
| `ChatThread` | one conversation at its author's and at its reader's device | records, receipts, retries, badge |
| `Calls` | the call engine of one device | its peer may send anything at any time |
| `ServiceManager` | the supervisor | services and dependencies are constants |
| `NodeRuntime` | `startNode`, `stopNode`, `connectCloud`, timers, listeners | any number of callers |
| `MC*` | instances for TLC | |
| `*_proofs` | theorems and proofs | |

### RelayMailbox

One receiving device. `lane` is the set of `onMeshMessage` calls under way: one from
`pollRelay` (lane `Cloud`, awaited by its loop), one per data channel. A call is at
`check` (`await alreadySeen`), `mark` (`await markSeen`) or `open` (`await openEnvelope`);
the guard's part before the first await is the operator `Admit`. `poll` is the round of
`pollRelay` with the acknowledgement it took before its await; `relayAck` is the field.
`mailbox`/`age` are the relay's rows and how their timestamps look to the guard
(`early`: more than 2 minutes ahead, `fresh`, `stale`: more than 10 minutes old,
`expired`: more than 14 days). `Reload` empties what is not in IndexedDB. `PruneExpired`
is the hourly job of the migration; it deletes in batches in the code and all at once
here. `lost`, `handed`, `pushed` and `air` are history.

### Outbox, OffGrid and Courier

`call[c]` is the `send()` of each caller: `sendText`, `retryMessage`, or a round of
`flushQueue`. `asked` is the start, `relay` means that the realtime channel did not
confirm, `stored` and `failed` are the answers; `CallLost` is the answer that is lost
after the relay wrote the row. `direct` means that an open data channel was listed: the
envelope is being made (`await createEnvelope`), and from here on `send()` returns true, whether
the channel takes it (`DirectCall`), is gone by then (`CallMissed`: `peer?.dc?.send` does nothing, and
nothing is left) or throws (`CallThrown`: the envelope is queued as a `fwd` row). `outbox` holds
intents and `fwd` rows in the order in which they were queued. `flush[f]` is a round: `FlushEnter` tests `flushBusy`,
`FlushBegin` sets it after an await, so rounds overlap. A `fwd` row in its batch goes to every
channel that is open (`broadcastRaw`): it stays when there is none (`ForwardKept`), and is deleted
when there is one, whether the receiver's took it (`ForwardTaken`) or not (`ForwardMissed`). In
`OffGrid` a `CallStored` or `ForwardTaken` of the sender is joined with `Push` or `Broadcast` of
`RelayMailbox`. `missed` (messages a direct send of which reached no channel) and `thrown`
(envelopes that were queued) are history. `Courier` is implemented
with `accepted` = the messages in the sender's store and `delivered` = those in the
receiver's.

### SharedRing and Fifo

Each access to shared memory is a step: loads of the cursors, the marker, the record,
the store of HEAD, the increment of SIGNAL, the notification; on the other side the
loads, the copy, the store of TAIL, and the three steps of `waitForData`. Cells hold a
length word in `LenBytes` cells, payload cells, a wrap marker or garbage. `queued` and
`got` are history, and the queue `Fifo` is implemented with them.

### KernelBridge and RemoteCall

`rings` says which worker's rings `ringOut` and `ringIn` are; `c2w`, `w2c` are the rings of
each worker, as bounded queues (what `SharedRing` is shown to implement), and `post`,
`back` the two directions of `postMessage`. `pending` is the table; `Timeout` is the timer of
a call. A worker is `loading` until its script runs, `up`, `failed` or `ended`; `pump` is its
loop, which dies with the first pop or handler that throws, while HELLO and what comes by
`postMessage` are still answered. `raised` are error events on their way to the page: the
one of an old worker forgets the new one as well. `corrId` is kept modulo `CorrMod`, as the
frame keeps 32 bits of it. `got`, `cutOff`, `dropped` and `brokenOn` are history.

`RemoteCall` is implemented with a call that `disposeKernelWorker` took out of the table
mapped to `abandoned`: its promise never settles.

### ChatThread

`rec` is the author's store, `store` the reader's, each a record of status and deletion. A
handler is a member of `writing` or `reading`: it keeps the record it read (`snap`), or the
unread count (`count`), and writes it back in a later step; a handler may run twice at
once for one message, told apart by `n`. `wire` is what the mesh has carried, never
emptied: each signal may be taken late, repeatedly or never. `lock` is `retryInFlight`,
`attempts` is `retryState`, `queued` the texts that wait in the outbox (`OutboxDelivers` is the
event `tedbirge:outbox-sent`). `SweepRead` and `SweepPut` are `sweepStalePending`, for a
message that is older than 30 minutes. `seen` and `lostCount` are history.

### Calls

`engine` is one record of all variables of the engine; an operation is an operator from a
record to a record, as `cleanup` and `endCall` are called from everywhere. A member of `tasks`
is a call of `startCall`, `acceptCall`, `onCallSignal` or `restartIce` that waits: for the user's
leave to use the microphone (`dial-media`, `accept-media`, `join-media`), for its own connection
(`dial-offer`, `accept-answer`, `glare-answer`) or for `sendMesh` (`dial-sent`, `accept-sent`, `glare-sent`,
`restart-sent`); `live` says
whether the call it belongs to still goes on, `own` whether its connection is still the
current one. The peer is open: every signal is possible in every state, which covers loss,
delay, repetition and another call of the peer. `Connect`, `Glitch` and `Settle` are what the
connection reports. An answer is applied, or rejected because it is one to another offer; either
way the timer was cleared before (`outTimer = "refused"`: rejected while the offer stays open). A
restart timer is `late` when `restartIce` sets it after the call has ended: it acts on the next one.
`consent` is history, and so is `stray`: a task or a timer of a finished
call has changed the state of the engine.

### ServiceManager

`run` is split at its await: `Run` (dependencies, status, call of `start()`) and
`StartResolves`/`StartThrows`. `boot` is the loop of `startAll`. `armed` and `stray` are
the retry timers: one that `e.timer` names and ones that it no longer names because
`fail` overwrote it. `live` counts running instances, `held` says whose stop function
the supervisor has, `overlap` names the services two starts of which overlapped.

### NodeRuntime

A call of `startNode` is at one of its awaits: `sync`, `store` (`start()`: migration,
identity), `cloud` (`connectCloud` removing channels), `pulse` (first heartbeat). The
timers, listeners and the channel carry the node they belong to. `Reconnect`/`Reopen`
are a later `connectCloud`, split at its await. `overlapped` and `raced` record that two
starts overlapped, or that a stop came in the middle of a start or of a redial.

## 3. Runs

| Run | Checks | Question |
|---|---|---|
| `mailbox` | `MailboxTypeOK`, `HandedAtMostOnce`, `AckedAreSettled`, `Accounted`, `MailboxDrains` | may copies over several paths, failures and reloads duplicate or lose an envelope, and is every row picked up in the end? |
| `mailbox_window` | `KeptUntilDelivered` - violated | does "kept for 14 days" hold with the guard's 10 minutes? |
| `sender` | `OutboxTypeOK`, `SentIsHandedOver`, `IntentKept` | do overlapping rounds, resends and refusals lose an unsent message or show a false tick? |
| `offgrid` | `SentIsAccounted`, `Delivers` | does the whole queue implement `Courier`? |
| `chat` | `ChatTypeOK`, `TicksAreTrue`, `BadgeCoversUnread`, `LockIsReleased`, `RecordsMoveOn`, `PendingEnds` | what do handlers that write back old records do to ticks, badge and retries? |
| `ring` | `RingTypeOK`, `WritesAreFree`, `WakeIsComing`, `ReaderRunsOn`, `RingIsFifo` | is the ring a queue without lost wake-ups? |
| `ring_end` | `ReaderRunsOn` - violated | ... and does the reader run on, also for records that are no multiple of the length word? |
| `bridge` | `BridgeTypeOK`, `TableIsExact`, `FrameIsUnderWay`, `RingsAreRead`, `CallsEnd` | does the bridge implement `RemoteCall` over two transports and workers that break? |
| `calls` | `CallsTypeOK`, `IdleIsQuiet`, `ConnectedByConsent`, `WaitingEnds` | is the engine quiet, consensual and never waiting for ever, whatever signals come? |
| `calls_stuck` | `ReconnectingEnds` - violated | does a call whose connection went down come back or end? |
| `services` | `ServicesTypeOK`, `Supervised`, `RevivedOnlyByRace`, `RootsRecover` | does the supervisor lose or revive services? |
| `runtime` | `NodeTypeOK`, `RunningIsKnown`, `OffIsOff`, `ChannelStays` | is a stopped node silent, and who holds the channel? |

### Bounds

Every bound is a constant of the module it bounds.

- `mailbox`: two envelopes of two messages, a batch of one (so that batches are full),
  two data channels (three copies of an envelope can be under way), timestamps inside the
  guard's window, too old for it, and expired at the relay, one failed pull and one reload,
  an overflowing guard. Two envelopes are enough for one to be in the acknowledgement while
  the other is handled; every property is about one envelope, or about one envelope and the
  batch it is in. A timestamp ahead of the clock (`early`) is refused as an old one is; the
  theorems cover it. No symmetry, as liveness is checked.
- `sender`: two messages, of one of which there is one envelope; no send of the other gets
  through, but for direct sends that reach no channel. Two rounds that overlap; a batch of one,
  so that items are left over; two sends that are refused, not confirmed or whose answer is
  lost, so that the first attempt and a repeat can both fail (with one refusal the queue would
  never hold two intents of a message, and no round would delete a repeat); one resend; the
  data channel there or not, gone before the send or throwing. The receiver does nothing
  here: an envelope that was taken stays taken.
- `offgrid`: one message, two envelopes, one round, one resend, one refusal or lost
  answer, one reload of the sender. A lost answer, a repeat in a second envelope and a
  duplicate at the receiver fit in it.
- `chat`: one message, since no handler touches two records but those that walk a list
  row by row; a handler starts only beside fewer than two others at its device, the sweep
  comes on top; one retry by the pump before the message fails; counts up to 2, so that two copies of the message
  count. Three handlers are what the races need: one that holds an old record, one that
  moves it on, and one that depends on it.
- `ring`: 14 cells, a length word of 2, payloads of 2 and 4: the cursors reach every
  even position, and records wrap with 0, 2 and 4 cells left. The signal counter wraps
  at 14, the size of the ring: every record takes a byte at least, so that the counter does
  not come back to the same value within one wait, just as 2^32 keeps it from that in the
  code, whose rings have 512 KiB.
- `bridge`: three calls under a `corrId` modulo 3, so that the third no longer fits the frame (its
  answer finds nobody and its timer ends it); fewer than `CorrMod` calls are issued while one
  waits, as 2^32 calls are not issued within 1.5 s; two workers, so that one is replaced; rings of one frame, so that the second
  call meets a full one; two faults (a script that does not load, a handler or a pop that
  throws) and one dispose.
- `calls`: two calls, so that tasks and timers of the first meet the second; two
  reconnects, so that there is one that is not the last; the user and the peer start another task
  only while fewer than two wait (`MaxTasks`; `restartIce` comes on top), so that one of an ended call runs beside
  one of the next. `sendMesh` may reject (`SendRejects`), as its storage or encryption fails.
  `calls_stuck`: one call and the three reconnects of the code, and `sendMesh` does not reject, so
  that the timer is the only thing that can be missing.
- `services`: the three services of `services.ts` that depend on each other, with real
  names; two retries, four failures, two operations by hand.
- `runtime`: three callers, since two can race while a third comes after a stop; two
  stops.

`CHECK_DEADLOCK FALSE` is stated where the modelled system may come to rest: the sender
when its envelopes are used up, the supervisor when all has settled, the runtime when
all calls have returned, the bridge when all calls have ended, the call engine when it is idle
after its last call.

### Fairness

- `RelayMailbox`: `scheduleRelayPoll` arms its timer again after every round, so
  `PollStep` is weakly fair; requests that were issued complete, so lanes and `onChat`
  are; the chat engine is started in the end. Pushes, data channels, ageing, failures
  and reloads are not fair.
- `OffGrid`: `scheduleQueueFlush` (12 s, growing to 2 min) and the 60 s interval keep starting rounds,
  `pumpRetryQueue` keeps calling `retryMessage` for what is pending, cooldowns end.
- `SharedRing`: both threads run on. Nobody has to push, and the timeout of
  `waitForData` is not fair: a lost wake-up would show.
- `ServiceManager`: `startAll` runs on, `start()` settles, timers fire.
- `ChatThread`: `sweepStalePending` keeps running (`bootChat` calls it every minute). Nothing else
  is fair: neither retries nor receipts nor the mesh.
- `KernelBridge`: only the timer of each call. Workers, rings and readers may stop at any
  point, so that `CallsEnd` says what the page does on its own.
- `Calls`: what the device awaits of its own connection and of its sending comes back
  (`Continue`), a connection does not stay undecided for ever (`Settle`), and the engine's timers
  fire. The peer and the user are not fair; in particular the prompt for the microphone
  (`Prompted`) may stay unanswered. A repeated offer sets the ringing's timer anew: the timer
  here is the last one, as the peer repeats an offer only until its own call ends.

## 4. What the runs found

Each is listed under `findings` in `PROJECT.json` with the lines and the quoted text.

1. `mailbox_window`: the guard refuses envelopes older than 10 minutes, a refused
   envelope counts as handled, and the next pull deletes it at the relay. A message that
   waited for longer is lost, though the relay keeps it for 14 days.
2. `ring_end`: with fewer than 4 bytes left before the end of the data area a wrap
   leaves no marker, and the reader's `getUint32` throws. The ring's frames must be
   multiples of 4 bytes for it to be safe (theorem `AlignedReaderRunsOn`); a payload of
   another length is not excluded by the code.
3. `calls_stuck`: a restart offer that the peer does not answer leaves the connection in
   `have-local-offer`; the next `restartIce` returns at once and sets no timer, so that the
   call stays in `reconnecting` although its header says that it gives way.

Other races are named exceptions inside properties that hold; each property says that
nothing goes wrong but for them:

- `Accounted`: a reload between `markSeen` and the write of the message (`lost =
  "crash"`), and an envelope that came before the chat engine subscribed (`"unsubscribed"`).
- `SentIsHandedOver`, `IntentKept`, `SentIsAccounted`: a direct send that reached no channel
  (`missed`). `send()` lists the open channels, awaits `createEnvelope`, and sends over what is left of them; it
  returns true even when the peer is gone. The message gets its tick, or a round deletes its
  intent, and no envelope of it exists. The same happens when a `fwd` row goes to other channels only.
- `RevivedOnlyByRace`: three ways in which a stopped service comes back, among them
  `startAll` coming to a service that the user has switched off meanwhile.
- `RunningIsKnown`: overlapping calls of `startNode` make several nodes (`overlapped`), of
  which `stopNode` knows the last. `OffIsOff` excepts a stop in the middle of a start or of a
  redial, and allows the one listener that `stop()` forgets.
- `RecordsMoveOn`: a handler that writes back a record it read before an await: a
  delivered message becomes failed or pending again, a deletion is undone, a read message becomes
  unread. A retry starts over by intent.
- `BadgeCoversUnread`: the handlers that count unread messages, and the reader's own
  replies, put back an old count (`lostCount`).
- `CallsEnd`, `TableIsExact`: calls that were under way at `disposeKernelWorker` never
  settle (`cutOff`).
- `IdleIsQuiet`, `ConnectedByConsent`, `WaitingEnds`: tasks and timers of a call that has
  ended (`stray`). `acceptCall`, `dial` and a join make a connection and open the microphone when the
  prompt is answered after a hang-up; `acceptCall` and a glare declare the call active when their answer has
  been sent, whatever happened meanwhile, and the peer's next offer is then answered unasked; the timer that
  a bye sets makes the next call idle; a restart timer that was set after a hang-up restarts the next call.
- `WaitingEnds`: the prompt for the microphone, before which no timer of a dialled call runs and for
  which that of a ringing one is switched off (`AtPrompt`); and an answer that does not fit the open
  offer, for instance one of an earlier call: timer and repeats are switched off before
  `setRemoteDescription` rejects it, and calling goes on until the user or the peer ends it (`refused`).

## 5. Proofs

Eight modules hold theorems; all obligations are proved by SMT, Zenon and LS4.

**`RelayMailbox_proofs`** (any envelopes, lanes, batch sizes, bounds):

- `TypeCorrect`: `MailboxSpec => []MailboxTypeOK`, inductive as it stands.
- `AtMostOnce`: `HandedAtMostOnce`. It is not inductive: `HandInv` adds that an envelope
  on a lane is in the guard's filter, that two lanes never hold the same envelope, that
  what is about to be marked is not in the inbox, that what is about to be opened is in the
  inbox and was not handed over, and that all that was handed over is in the inbox. The
  argument is the code's own: the filter covers the awaits, the inbox covers what the
  filter has forgotten.
- `AckedSettled` and `NothingUnaccounted`: `AckedAreSettled` and `Accounted`, proved together
  from `FlowInv`: what is in the inbox is settled; what is in the filter is settled or on
  lane `Cloud` (no data channel can hold an envelope that was pushed); of the batch, all
  that is not still to do is settled or on lane `Cloud`, which is idle when `PollDone`
  acknowledges.

**`OffGrid_proofs`** (any messages, envelopes, rounds, resends, refusals, reloads):

- `ComposedMailbox`: `Spec => MailboxSpec`: the composition runs the mailbox as it is, so
  the theorems above hold of it.
- `OutboxTypeCorrect`, `SentWasHandedOver` (`SentIsHandedOver`) and `IntentsKept` (`IntentKept`), from
  `SendInv`. It ties every call of `send()` to the message it is for (`Owned`); says that
  whatever reports success (a status, an answer, a row that was told) has an envelope that was
  taken or is queued, or was missed (`Handed`); and of every intent in the snapshot of a round, that
  the same holds of its message or an older or equal intent of it is still in the queue (`Snapshots`). A queued
  envelope leaves the queue only when a channel takes it or when it is missed, so that neither is undone. The last is why overlapping rounds
  delete no last intent: what a round deletes from a stale snapshot is younger than one that
  stays. The step needs the least intent of a message, hence `Least`.
- `SentStaysAccounted`: `SentIsAccounted`, from `SentIsHandedOver` at one end and `Accounted`
  at the other. It is about messages that only the relay can have: none of their envelopes went to a channel.
- `CourierHolds`: the safety part of the refinement `Delivers` (`Spec => C!CourierSafety`): no
  step shows a message at the receiver that nobody composed, none delivers one twice, none
  takes back that a message was accepted. `CourierInv` follows a message along the whole path:
  what calls, the outbox, snapshots and rounds are about was accepted (`SenderKnows`), so is what
  every envelope carries that left the sender (`EnvelopesKnown`), and what is about to be
  written by `onChat` came out of such an envelope (`ChatKnows`; that a lane holds only
  those is in `HandInv` and `FlowInv`).

**`ChatThread_proofs`** (any messages, retries, handlers): `ChatTypeCorrect`; `TicksTrue`
(`TicksAreTrue`) from `TickInv`, which says of every receipt on the wire and of every handler
about to write a tick what the reader's store already says; `LockGivenBack`
(`LockIsReleased`); `BadgeCovers` (`BadgeCoversUnread`); and the action property `MoveOn`
(`RecordsMoveOn`) from `MoveInv`: a handler writes only what it was allowed to write over the
record it read, so that a record goes back only when that one is no longer there.

**`KernelBridge_proofs`** (any calls, workers, faults, ring capacities): `BridgeTypeCorrect`, `TableExact`, `RingsRead` and
`AnswersFindTheirCalls`, the safety part of the refinement `CallsEnd` (`BridgeSpec =>
Remote!CallsSafety`), from `BridgeInv`: frames and table entries are of calls that were issued and no call waits
while `CorrMod` others are issued (so the number in a frame finds its own call or none), the
table and the waiting callers agree, and worker, rings and reader go together (`Controls`). `FramesKept` (`FrameIsUnderWay`) needs `Carried` on
top of it: no queue holds two frames of one call (`OnceEach`), two transports or two workers never hold
frames of the same call (`Alone`), and a call that waits has one somewhere (`Somewhere`). Every action is
shown to land a call's frame in one place, to take it away, or to leave all where they are
(`Lands`, `Leaves`, `Stays`); a new frame is alone as nothing beyond `seq` is anywhere.

**`Calls_proofs`**: `CallsTypeCorrect`, `IdleQuiet` (`IdleIsQuiet`) and `ConsentFirst`
(`ConnectedByConsent`), from `CallsInv`: an engine without a stray is consistent (`EngineOK`);
each task of a call that goes on finds the call in the phase it left it in; media,
connection and log entry exist only in the phases of a call. Each operator on records has a lemma that
says what it keeps.

**`SharedRing_proofs`** (any capacity, length word, record sizes, and every interleaving of the two
threads' accesses): `RingTypeCorrect`, `WritesFree` (`WritesAreFree`), `WholeRecords` (what `pop` reads as a
length and a body was written as one record), `RecordsInOrder` (`RingSpec => Q!FifoSafety`, the safety part of
`RingIsFifo`) and `NoLostWake` (`WakeIsComing`). They come from `RingInv`: there are positions
at which the queued records lie one behind the other from TAIL to HEAD, across a wrap and its
marker (`Placed`), every one whole in the cells; the room the
writer found with a tail that is old by now is still free, its marker is written before it starts at 0, and its
record is whole before HEAD moves (`Writes`); the reader that has seen data takes the oldest record, at TAIL or
behind the marker there (`Reads`). `NoLostWake` adds `WakeInv`, which ties the value the reader compares to the records put since
it loaded it. Its hypothesis `Capacity <= SignalMod` is the code's: the counter has 32 bits and the ring 512 KiB,
so that the writer cannot go once round the counter while the reader sleeps.

`AlignedReaderRunsOn`: if the data area and every record are
multiples of the length word, `ReaderRunsOn` holds. The inductive invariant `AlignedInv`
says that the cursors, also those the two threads have read, are aligned and inside the
data area; the lemmas are about sums, remainders and distances of aligned numbers. The
run `ring_end` shows that the assumption is needed.

**`ServiceManager_proofs`**: `ServicesTypeCorrect`, `NothingLeaks` (`Supervised`) and
`RevivalIsARace` (`RevivedOnlyByRace`). `ServicesInv` is the type invariant and, for each
service, how status, held stop function, starts under way and live instances go
together (`Tracked`). The action property follows from the cases of the next-state
relation.

**`NodeRuntime_proofs`**: `NodeTypeCorrect`, `OneKnownNode` (`RunningIsKnown`),
`StoppedIsQuiet` (`OffIsOff`) and `ChannelKept` (`ChannelStays`), from `NodeInv`: unless two
starts overlapped, at most one call is under way and its node is the one the module
knows; unless a stop raced as well, every timer, listener and redial belongs to the
known node, but for listeners for pushes.

Assumptions are those named in the modules (`EnvelopeAssumption`, `MailboxAssumption`,
`OutboxAssumption`, `OffGridAssumption`, `RingAssumption`, `BridgeAssumption`, `ChatAssumption`,
`CallsAssumption`, `ServiceAssumption`, `RuntimeAssumption`); TLC evaluates each on its
runs. `AlignedReaderRunsOn` has its alignment and `NoLostWake` the size of its counter as a hypothesis of the theorem.

Only model-checked: liveness, that is `MailboxDrains`, `RootsRecover`, `PendingEnds`, `WaitingEnds` and the
fair parts of `Delivers`, `RingIsFifo` and `CallsEnd`, which is out of the prover's reach. The
safety parts of these three refinements are proved, and so is every invariant and every action property of the
passing runs; `ReaderRunsOn` only with its alignment, `WakeIsComing` only with its counter.

## 6. What is not modelled

Inside the modelled components:

- Relay: publish/lookup, rate limits by address, web push, the priority order of a pull
  (any order is allowed), partial batches of the pruning job.
- Receiving: hello packets, invalid signatures, forwarding for other devices, chunks,
  ping/pong, telemetry, signalling; a second tab or a second node of the page with its
  own `relayBusy`; IndexedDB requests that fail and are swallowed by `safe`.
- Sending: payloads sent in chunks, several receivers of one envelope, forwarding for other
  devices, `pruneOutbox` under quota pressure, carriers, several devices per person, the durations of back-offs. Statuses beyond sent, failed
  messages, two calls of `retryMessage` at once and the get and put of `setStatus` as two steps are in
  `ChatThread`, not here.
- Chat: groups, media, edits, reactions, disappearing messages, history synchronisation,
  receipts that the reader hides, several conversations, a reload of the engine's retry
  table and lock (a reload leaves only the stores, and every handler that is cut off is one
  that takes no further step). A message may be deleted for everyone at any age.
- Life cycle: LAN signalling and peer connections, `setNodeLicense` (a stop followed by a
  start), several redials of one node at once (merged into one), the first visit of a
  page on which the saved wish is not set.
- Supervisor: tab leadership, the event log, mounting the shell twice; a missed heartbeat
  is allowed for every running service, though only one of the real ones has a
  health check.
- Ring: the fallback of `waitForData` without `waitAsync`.
- Bridge: what ROUTE and DIGEST compute, and what the caller computes when it gets no answer.
- Calls: conferences and rooms, ICE candidates, screen sharing and other media controls,
  statistics, the contents of the call log (with the duration that a missed call may take from the
  one before, engine.ts:235). Awaits on the local connection are joined to the next step: on a
  connection that was closed an operation under way never comes back, and one that is called later rejects.
  Awaits that leave the device or ask the user (`sendMesh`, the prompt for the microphone) are steps.

Components left out altogether are listed in `PROJECT.json` with the reason.

## 7. Plan

Done: the receiving pipeline, the sending side and their composition, the ring, the
bridge, the conversation, the calls, the supervisor, the life cycle, and the theorems above.
Open, in this order:

1. `RelayMailbox` with several receiving nodes per device, each with its own `relayBusy` and
   filter over one inbox; tab leadership with and without Web Locks.
2. Theorems about what 1 adds: `HandedAtMostOnce` for several nodes over one inbox.
3. Conference calls: several connections with the rule which side opens them.
4. Groups and history synchronisation, on top of `ChatThread`.
5. Kernel supervisor and multipath.

## 8. Running it

    tlc -workers 2 -config MCRelayMailbox.cfg MCRelayMailbox.tla
    tlapm RelayMailbox_proofs.tla

`PROJECT.json` lists every run with its module and configuration, the definitions with
the lines they model, the seeded faults (operators marked `Mutant:`; each breaks the
property it is listed with), the hazards and the theorems.

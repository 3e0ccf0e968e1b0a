----------------------------- MODULE NodeRuntime -----------------------------
(***************************************************************************)
(* The page's one browser node (lib/node-runtime.ts): startNode makes a    *)
(* BrowserNode and awaits its start() (lib/browser-node.ts), stopNode stops *)
(* it.  startNode is called by the service node-start, by bootNodeRuntime, *)
(* by the call host, by the chat engine, by sendMesh, by the network panel *)
(* and when the network mode changes, none of which waits for another.     *)
(*                                                                         *)
(* Every call of startNode makes at most one BrowserNode, which is known   *)
(* here by that call.  A step is what runs between two awaits.             *)
(***************************************************************************)
EXTENDS Naturals, FiniteSets

CONSTANTS
  Call, NoNode,  \* calls of startNode, and the absence of a node
  MaxStops       \* bound: calls of stopNode

ASSUME RuntimeAssumption == NoNode \notin Call /\ MaxStops \in Nat

VARIABLES
  call,       \* where each call of startNode is
  node,       \* the module's variable node
  running,    \* nodes whose state.running is set
  timers,     \* timers that are set: [node, kind]
  listeners,  \* listeners on window and document: [node, kind]
  channel,    \* the node that has the realtime channel
  redial,     \* nodes whose connectCloud is about to open a channel again
  ping, auto, \* pingTimer is set; AUTO_KEY is "1"
  overlapped, \* history: has a startNode begun while another awaited?
  raced,      \* history: has a stop come in the middle of a start or a redial?
  stops

nodeVars == <<call, node, running, timers, listeners, channel, redial, ping,
              auto, overlapped, raced, stops>>

\* relayTimer and retryTimer are set again after every round only while the
\* node is running; the others are intervals.
OneShot == {"relay", "retry"}
TimerKind == OneShot \cup {"local", "dial", "beat", "gc"}
ListenerKind == {"network", "push"}
Starting == {"sync", "store", "cloud", "pulse"}

NodeInit ==
  /\ call = [c \in Call |-> "none"]
  /\ node = NoNode /\ running = {} /\ timers = {} /\ listeners = {}
  /\ channel = NoNode /\ ping = FALSE /\ auto = FALSE
  /\ redial = {} /\ overlapped = FALSE /\ raced = FALSE /\ stops = 0

At(c, here, next) == call[c] = here /\ call' = [call EXCEPT ![c] = next]

-----------------------------------------------------------------------------
(***************************************************************************)
(* startNode.                                                              *)
(***************************************************************************)

Overlap == overlapped' = (overlapped \/ \E c \in Call : call[c] = "sync")

\* Mutant: there is no test of node.
StartNodeAgain(c) ==
  /\ At(c, "none", "sync")
  /\ Overlap
  /\ UNCHANGED <<node, running, timers, listeners, channel, redial, ping, auto>>
  /\ UNCHANGED <<raced, stops>>

\* if (node) return; await syncPersonIdentity();
StartNode(c) ==
  /\ At(c, "none", IF node = NoNode THEN "sync" ELSE "done")
  /\ Overlap
  /\ UNCHANGED <<node, running, timers, listeners, channel, redial, ping, auto>>
  /\ UNCHANGED <<raced, stops>>

\* node = new BrowserNode(...), and start() sets running; then it awaits the
\* migration of the old queue and the identity.
MakeNode(c) ==
  /\ At(c, "sync", "store")
  /\ node' = c
  /\ running' = running \cup {c}
  /\ UNCHANGED <<timers, listeners, channel, redial, ping, auto>>
  /\ UNCHANGED <<overlapped, raced, stops>>

\* Listeners, local discovery and LAN signalling; then connectCloud removes
\* what channel there is.
Listen(c) ==
  /\ At(c, "store", "cloud")
  /\ listeners' = listeners \cup {[node |-> c, kind |-> k] : k \in ListenerKind}
  /\ timers' = timers \cup {[node |-> c, kind |-> "local"]}
  /\ channel' = NoNode
  /\ UNCHANGED <<node, running, redial, ping, auto, overlapped, raced, stops>>

\* connectCloud opens the channel, dialTimer is set; then the heartbeat.
Connect(c) ==
  /\ At(c, "cloud", "pulse")
  /\ channel' = c
  /\ timers' = timers \cup {[node |-> c, kind |-> "dial"]}
  /\ UNCHANGED <<node, running, listeners, redial, ping, auto, overlapped, raced, stops>>

\* The other timers; startNode goes on to AUTO_KEY and pingTimer.
Started(c) ==
  /\ At(c, "pulse", "done")
  /\ timers' = timers \cup {[node |-> c, kind |-> k] : k \in OneShot \cup {"beat", "gc"}}
  /\ auto' = TRUE /\ ping' = TRUE
  /\ UNCHANGED <<node, running, listeners, channel, redial, overlapped, raced, stops>>

-----------------------------------------------------------------------------
(***************************************************************************)
(* stopNode, and what runs by itself.                                      *)
(***************************************************************************)
Of(things, n) == {x \in things : x.node = n}

Races == raced' = (raced \/ node \in redial \/ \E c \in Call : call[c] \in Starting)

\* Mutant: stop() leaves the timer that dials peers.
StopNodeDials ==
  /\ stops < MaxStops
  /\ stops' = stops + 1
  /\ running' = running \ {node}
  /\ timers' = {t \in timers : t.node = node => t.kind = "dial"}
  /\ listeners' = {x \in listeners : x.node = node => x.kind = "push"}
  /\ channel' = IF channel = node THEN NoNode ELSE channel
  /\ node' = NoNode /\ ping' = FALSE /\ auto' = FALSE
  /\ Races
  /\ UNCHANGED <<call, redial, overlapped>>

\* Mutant: stopNode leaves AUTO_KEY as it is.
StopNodeKeepsAuto ==
  /\ stops < MaxStops
  /\ stops' = stops + 1
  /\ running' = running \ {node}
  /\ timers' = timers \ Of(timers, node)
  /\ listeners' = {x \in listeners : x.node = node => x.kind = "push"}
  /\ channel' = IF channel = node THEN NoNode ELSE channel
  /\ node' = NoNode /\ ping' = FALSE
  /\ Races
  /\ UNCHANGED <<call, redial, auto, overlapped>>

\* node?.stop(); node = null; ... stop() does not know of the listener that
\* start() put on tedbirge:relay-poll-now.
StopNode ==
  /\ stops < MaxStops
  /\ stops' = stops + 1
  /\ running' = running \ {node}
  /\ timers' = timers \ Of(timers, node)
  /\ listeners' = {x \in listeners : x.node = node => x.kind = "push"}
  /\ channel' = IF channel = node THEN NoNode ELSE channel
  /\ node' = NoNode /\ ping' = FALSE /\ auto' = FALSE
  /\ Races
  /\ UNCHANGED <<call, redial, overlapped>>

\* relayTimer or retryTimer of a node that is not running: the last round.
LastRound(c) ==
  /\ c \notin running
  /\ \E t \in Of(timers, c) : t.kind \in OneShot /\ timers' = timers \ {t}
  /\ UNCHANGED <<call, node, running, listeners, channel, redial, ping, auto>>
  /\ UNCHANGED <<overlapped, raced, stops>>

\* Mutant: a node that was stopped connects again.
ReconnectStopped(c) ==
  /\ call[c] \in {"cloud", "pulse", "done"} /\ c \notin redial
  /\ [node |-> c, kind |-> "push"] \in listeners
  /\ redial' = redial \cup {c}
  /\ channel' = NoNode
  /\ UNCHANGED <<call, node, running, timers, listeners, ping, auto>>
  /\ UNCHANGED <<overlapped, raced, stops>>

\* The channel was closed or failed, or the page woke up without one
\* (scheduleCloudRetry, handleWake): connectCloud removes what channel there
\* is, of this node or of another, and awaits that.
Reconnect(c) ==
  /\ c \in running /\ call[c] \in {"cloud", "pulse", "done"} /\ c \notin redial
  /\ redial' = redial \cup {c}
  /\ channel' = NoNode
  /\ UNCHANGED <<call, node, running, timers, listeners, ping, auto>>
  /\ UNCHANGED <<overlapped, raced, stops>>

\* ... and opens one.  stop() has set cloudRetries to 0, so the test of
\* running after the await does not hold back a node stopped meanwhile.
Reopen(c) ==
  /\ c \in redial
  /\ redial' = redial \ {c}
  /\ channel' = c
  /\ UNCHANGED <<call, node, running, timers, listeners, ping, auto>>
  /\ UNCHANGED <<overlapped, raced, stops>>

NodeNext ==
  \/ StopNode
  \/ \E c \in Call : \/ StartNode(c) \/ MakeNode(c) \/ Listen(c) \/ Connect(c)
                     \/ Started(c) \/ LastRound(c) \/ Reconnect(c) \/ Reopen(c)

NodeSpec == NodeInit /\ [][NodeNext]_nodeVars

-----------------------------------------------------------------------------
(***************************************************************************)
(* Properties.                                                             *)
(***************************************************************************)

\* Type invariant; the saved wish to start again goes with the ping timer.
NodeTypeOK ==
  /\ call \in [Call -> {"none", "done"} \cup Starting]
  /\ node \in Call \cup {NoNode} /\ channel \in Call \cup {NoNode}
  /\ running \subseteq Call /\ redial \subseteq Call
  /\ timers \subseteq [node : Call, kind : TimerKind]
  /\ listeners \subseteq [node : Call, kind : ListenerKind]
  /\ ping \in BOOLEAN /\ auto = ping
  /\ overlapped \in BOOLEAN /\ raced \in BOOLEAN /\ stops \in 0..MaxStops

\* Unless two calls of startNode overlapped, the node that runs is the one
\* stopNode would stop, through every order of starts and stops.
RunningIsKnown == overlapped \/ running \subseteq {node}

\* Unless a stop came in the middle of a start or a redial, or two starts
\* overlapped, nothing works on once the node is off but the listener for
\* pushes: no timer, no other listener, no channel, and the next page load
\* does not start the node by itself (network-mode.ts:82 counts on it).
OffIsOff ==
  raced \/ overlapped \/ (node = NoNode =>
    /\ timers = {} /\ channel = NoNode /\ ~ping /\ ~auto
    /\ \A x \in listeners : x.kind = "push")

\* Unless starts and stops overlapped, the running node loses its realtime
\* channel only when it redials itself: no other node takes it away.
ChannelStays ==
  [][overlapped \/ raced \/ channel \notin running'
       \/ channel' = channel \/ channel \in redial']_nodeVars
=============================================================================

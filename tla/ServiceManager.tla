--------------------------- MODULE ServiceManager ---------------------------
(***************************************************************************)
(* The supervisor of the background services (shell/services/registry.ts): *)
(* it starts them in the order of their dependencies, checks their         *)
(* heartbeat, retries a failed one after a pause, at most MaxRetries times *)
(* in a row, and lets the user stop, start and restart each by hand.       *)
(*                                                                         *)
(* run() awaits the service's own start(), and every other operation may   *)
(* come in between: a step is what runs between two awaits.                *)
(***************************************************************************)
EXTENDS Naturals, Sequences, FiniteSets

CONSTANTS
  Service,
  Deps,        \* what each service depends on: [Service -> SUBSET Service]
  Order,       \* topoOrder(defs)
  Synchronous, \* services whose start() does not wait for anything
  Switches,    \* services that have a switch: stop(name) and start(name)
  MaxRetries,  \* MAX_RESTARTS (5 in the code)
  MaxFailures, \* bound: starts that throw and heartbeats that are missed
  MaxManual    \* bound: operations by hand

\* topoOrder: every service once, after the services it depends on.
TopoOrder(order) ==
  /\ {order[i] : i \in DOMAIN order} = Service
  /\ Len(order) = Cardinality(Service)
  /\ \A i \in DOMAIN order : Deps[order[i]] \subseteq {order[j] : j \in 1..(i - 1)}

ASSUME ServiceAssumption ==
  /\ Deps \in [Service -> SUBSET Service]
  /\ Order \in Seq(Service) /\ TopoOrder(Order)
  /\ Synchronous \subseteq Service /\ Switches \subseteq Service
  /\ MaxRetries \in Nat /\ MaxFailures \in Nat /\ MaxManual \in Nat

VARIABLES
  status, restarts,  \* info.status and info.restarts
  held,              \* services whose e.stop is set
  armed, stray,      \* services whose e.timer waits; waiting timers no e.timer names
  starting,          \* calls of the service's start() that are awaited
  boot,              \* startAll: the position in Order, and whether a run is awaited
  heartbeat,         \* is the interval of check() set?
  live,              \* history: started instances that nobody has stopped
  overlap,           \* history: services of which two starts have overlapped
  failures, manual

serviceVars == <<status, restarts, held, armed, stray, starting, boot,
                 heartbeat, live, overlap, failures, manual>>

Statuses == {"idle", "starting", "running", "degraded", "failed", "stopped"}

ServicesInit ==
  /\ status = [s \in Service |-> "idle"]
  /\ restarts = [s \in Service |-> 0]
  /\ held = {}
  /\ armed = {} /\ stray = [s \in Service |-> 0]
  /\ starting = [s \in Service |-> 0]
  /\ boot = [next |-> 1, at |-> "go"] /\ heartbeat = FALSE
  /\ live = [s \in Service |-> 0] /\ overlap = {}
  /\ failures = 0 /\ manual = 0

-----------------------------------------------------------------------------
(***************************************************************************)
(* run(s), up to its await, of a service whose status is now.              *)
(***************************************************************************)
DepsReady(s) == \A d \in Deps[s] : status[d] = "running"

Starts(s, now) == now \notin {"running", "starting"} /\ DepsReady(s)

Run(s, now) ==
  /\ status' = [status EXCEPT ![s] =
       IF now \in {"running", "starting"} THEN now
       ELSE IF DepsReady(s) THEN "starting" ELSE "degraded"]
  /\ starting' = [starting EXCEPT ![s] = IF Starts(s, now) THEN @ + 1 ELSE @]
  /\ overlap' = IF Starts(s, now) /\ starting[s] > 0 THEN overlap \cup {s} ELSE overlap

\* e.stop?.(); e.stop = undefined;
StopInstance(s) ==
  /\ live' = [live EXCEPT ![s] = IF s \in held THEN @ - 1 ELSE @]
  /\ held' = held \ {s}

\* Mutant: fail forgets the instance without stopping it.
FailForgets(s) ==
  /\ held' = held \ {s}
  /\ UNCHANGED live
  /\ IF restarts[s] >= MaxRetries
     THEN /\ status' = [status EXCEPT ![s] = "failed"]
          /\ UNCHANGED <<restarts, armed, stray>>
     ELSE /\ status' = [status EXCEPT ![s] = "degraded"]
          /\ restarts' = [restarts EXCEPT ![s] = @ + 1]
          /\ armed' = armed \cup {s}
          /\ stray' = [stray EXCEPT ![s] = IF s \in armed THEN @ + 1 ELSE @]

\* Mutant: the threshold is tested one too late.
FailOnceMore(s) ==
  /\ StopInstance(s)
  /\ IF restarts[s] > MaxRetries
     THEN /\ status' = [status EXCEPT ![s] = "failed"]
          /\ UNCHANGED <<restarts, armed, stray>>
     ELSE /\ status' = [status EXCEPT ![s] = "degraded"]
          /\ restarts' = [restarts EXCEPT ![s] = @ + 1]
          /\ armed' = armed \cup {s}
          /\ stray' = [stray EXCEPT ![s] = IF s \in armed THEN @ + 1 ELSE @]

\* Mutant: the retry is counted and never scheduled.
FailNoTimer(s) ==
  /\ StopInstance(s)
  /\ status' = [status EXCEPT ![s] =
       IF restarts[s] >= MaxRetries THEN "failed" ELSE "degraded"]
  /\ restarts' = [restarts EXCEPT ![s] =
       IF restarts[s] >= MaxRetries THEN @ ELSE @ + 1]
  /\ UNCHANGED <<armed, stray>>

\* fail(e): e.timer is overwritten, and a timer it named keeps waiting.
Fail(s) ==
  /\ StopInstance(s)
  /\ IF restarts[s] >= MaxRetries
     THEN /\ status' = [status EXCEPT ![s] = "failed"]
          /\ UNCHANGED <<restarts, armed, stray>>
     ELSE /\ status' = [status EXCEPT ![s] = "degraded"]
          /\ restarts' = [restarts EXCEPT ![s] = @ + 1]
          /\ armed' = armed \cup {s}
          /\ stray' = [stray EXCEPT ![s] = IF s \in armed THEN @ + 1 ELSE @]

-----------------------------------------------------------------------------
(***************************************************************************)
(* What happens by itself.  Timers and the user come in only while all     *)
(* that is going on awaits something.                                      *)
(***************************************************************************)
Yields == /\ boot.at = "await" \/ boot.next > Len(Order) + 1
          /\ \A s \in Synchronous : starting[s] = 0

\* startAll: for (const n of order) await run(n);
BootNext ==
  /\ boot.at = "go" /\ boot.next \in DOMAIN Order
  /\ LET s == Order[boot.next] IN
     /\ Run(s, status[s])
     /\ boot' = IF Starts(s, status[s])
                THEN [next |-> boot.next, at |-> "await"]
                ELSE [next |-> boot.next + 1, at |-> "go"]
  /\ UNCHANGED <<restarts, held, armed, stray, heartbeat, live, failures, manual>>

\* ... and then the heartbeat.
BootDone ==
  /\ boot.at = "go" /\ boot.next = Len(Order) + 1
  /\ heartbeat' = TRUE
  /\ boot' = [next |-> boot.next + 1, at |-> "go"]
  /\ UNCHANGED <<status, restarts, held, armed, stray, starting, live, overlap,
                 failures, manual>>

\* A start() of s settles.  If startAll awaits a start of s it was this one,
\* or there is another.
Settles(s) ==
  /\ starting[s] > 0
  /\ starting' = [starting EXCEPT ![s] = @ - 1]
  /\ LET mine == boot.at = "await" /\ Order[boot.next] = s IN
     \/ /\ mine
        /\ boot' = [next |-> boot.next + 1, at |-> "go"]
     \/ /\ mine => starting'[s] > 0
        /\ UNCHANGED boot

\* start() resolves, to a stop function or to something else.  Whatever has
\* been done to the service meanwhile, it is now running.
StartResolves(s, hasStop) ==
  /\ Settles(s)
  /\ status' = [status EXCEPT ![s] = "running"]
  /\ held' = IF hasStop THEN held \cup {s} ELSE held
  /\ live' = [live EXCEPT ![s] = IF hasStop THEN @ + 1 ELSE @]
  /\ UNCHANGED <<restarts, armed, stray, heartbeat, overlap, failures, manual>>

StartThrows(s) ==
  /\ Settles(s)
  /\ failures < MaxFailures
  /\ failures' = failures + 1
  /\ Fail(s)
  /\ UNCHANGED <<heartbeat, overlap, manual>>

\* check() finds a service that does not answer.
HeartbeatMissed(s) ==
  /\ Yields /\ heartbeat /\ status[s] = "running"
  /\ failures < MaxFailures
  /\ failures' = failures + 1
  /\ Fail(s)
  /\ UNCHANGED <<starting, boot, heartbeat, overlap, manual>>

\* A retry is due: void run(e.def.name).
TimerFires(s) ==
  /\ Yields
  /\ \/ s \in armed /\ armed' = armed \ {s} /\ UNCHANGED stray
     \/ stray[s] > 0 /\ stray' = [stray EXCEPT ![s] = @ - 1] /\ UNCHANGED armed
  /\ Run(s, status[s])
  /\ UNCHANGED <<restarts, held, boot, heartbeat, live, failures, manual>>

-----------------------------------------------------------------------------
(***************************************************************************)
(* By hand.                                                                *)
(***************************************************************************)
ByHand == Yields /\ manual < MaxManual /\ manual' = manual + 1

\* clearTimeout(e.timer)
ClearTimer(s) == armed' = armed \ {s}

Restart(s) ==
  /\ ByHand
  /\ ClearTimer(s)
  /\ StopInstance(s)
  /\ restarts' = [restarts EXCEPT ![s] = 0]
  /\ Run(s, "stopped")
  /\ UNCHANGED <<stray, boot, heartbeat, failures>>

\* Mutant: stop leaves the retry waiting.
StopKeepsTimer(s) ==
  /\ ByHand /\ status[s] # "stopped"
  /\ StopInstance(s)
  /\ status' = [status EXCEPT ![s] = "stopped"]
  /\ UNCHANGED <<armed, restarts, stray, starting, boot, heartbeat, overlap, failures>>

\* The switch stops any service that is not stopped.
Stop(s) ==
  /\ ByHand /\ status[s] # "stopped"
  /\ ClearTimer(s)
  /\ StopInstance(s)
  /\ status' = [status EXCEPT ![s] = "stopped"]
  /\ UNCHANGED <<restarts, stray, starting, boot, heartbeat, overlap, failures>>

\* ... and starts one that is; the timer is left alone.
Start(s) ==
  /\ ByHand /\ status[s] = "stopped"
  /\ restarts' = [restarts EXCEPT ![s] = 0]
  /\ Run(s, status[s])
  /\ UNCHANGED <<held, armed, stray, boot, heartbeat, live, failures>>

\* The shell is unmounted.  startAll, if it is still at work, goes on.
StopAll ==
  /\ ByHand
  /\ heartbeat' = FALSE
  /\ armed' = {}
  /\ live' = [s \in Service |-> IF s \in held THEN live[s] - 1 ELSE live[s]]
  /\ held' = {}
  /\ status' = [s \in Service |-> "stopped"]
  /\ UNCHANGED <<restarts, stray, starting, boot, overlap, failures>>

-----------------------------------------------------------------------------
StartSettles(s) == StartThrows(s) \/ \E fn \in BOOLEAN : StartResolves(s, fn)

ServicesNext ==
  \/ BootNext \/ BootDone \/ StopAll
  \/ \E s \in Service : \/ StartSettles(s) \/ HeartbeatMissed(s) \/ TimerFires(s)
                        \/ Restart(s)
  \/ \E s \in Switches : Stop(s) \/ Start(s)

(***************************************************************************)
(* Fairness: startAll runs on, a start() that was called settles, and a    *)
(* timer that was set fires.  Nothing is assumed of the user, nor of which *)
(* starts throw.                                                           *)
(***************************************************************************)
ServicesSpec ==
  /\ ServicesInit /\ [][ServicesNext]_serviceVars
  /\ WF_serviceVars(BootNext \/ BootDone)
  /\ \A s \in Service : WF_serviceVars(StartSettles(s)) /\ WF_serviceVars(TimerFires(s))

-----------------------------------------------------------------------------
(***************************************************************************)
(* Properties.                                                             *)
(***************************************************************************)

\* Type invariant; retries in a row never exceed MAX_RESTARTS.
ServicesTypeOK ==
  /\ status \in [Service -> Statuses]
  /\ restarts \in [Service -> 0..MaxRetries]
  /\ held \subseteq Service /\ armed \subseteq Service
  /\ stray \in [Service -> Nat] /\ starting \in [Service -> Nat]
  /\ boot \in [next : 1..(Len(Order) + 2), at : {"go", "await"}]
  /\ heartbeat \in BOOLEAN
  /\ live \in [Service -> Nat] /\ overlap \subseteq Service
  /\ failures \in 0..MaxFailures /\ manual \in 0..MaxManual

\* The supervisor can stop every instance it has started, and holds on to
\* none of a service that is not running: failures, retries, stops and
\* restarts in any order leak no instance, unless two starts of one service
\* overlapped (registry.ts restart and start do not wait for a start that is
\* under way; then the first stop function is overwritten).
Supervised ==
  \A s \in Service : /\ s \in held => status[s] = "running"
                     /\ s \in overlap \/ live[s] = IF s \in held THEN 1 ELSE 0

\* A service that was stopped comes back by hand, or because at that moment
\* startAll had not come to it, a start of it was under way, or a retry
\* timer was waiting that fail() had overwritten: nothing else revives it.
RevivedOnlyByRace ==
  [][\A s \in Service :
       status[s] = "stopped" /\ status'[s] # "stopped" =>
         \/ manual' # manual
         \/ boot.next \in DOMAIN Order /\ Order[boot.next] = s
         \/ starting[s] > 0 \/ stray[s] > 0]_serviceVars

\* A service without dependencies that went down is retried until it runs,
\* has used up its retries, or is stopped, however the user interferes.
RootsRecover ==
  \A s \in Service : Deps[s] = {} =>
    (status[s] = "degraded" ~> status[s] \in {"running", "failed", "stopped"})

=============================================================================

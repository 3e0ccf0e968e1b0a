------------------------ MODULE ServiceManager_proofs -----------------------
(***************************************************************************)
(* The supervisor keeps track of its instances, for every set of services, *)
(* every order and every number of failures and operations by hand.        *)
(***************************************************************************)
EXTENDS ServiceManager, TLAPS

(***************************************************************************)
(* The inductive invariant.  A stop function belongs to a running service  *)
(* and to a live instance; as long as starts of a service have not         *)
(* overlapped, at most one is awaited, and none while an instance is held. *)
(* The timer of a stopped service does not wait.                           *)
(***************************************************************************)
Tracked(s) ==
  /\ s \in held => status[s] = "running" /\ live[s] > 0
  /\ s \in overlap \/ live[s] = IF s \in held THEN 1 ELSE 0
  /\ s \in overlap \/ (starting[s] <= 1 /\ (starting[s] = 1 => s \notin held))
  /\ s \in armed => status[s] # "stopped"

ServicesInv ==
  /\ ServicesTypeOK
  /\ boot.at = "await" => boot.next \in DOMAIN Order
  /\ \A s \in Service : Tracked(s)

(***************************************************************************)
(* The parts that actions share.                                           *)
(***************************************************************************)

\* run(s) leaves statuses and counts of the right type, and starts nothing
\* of the other services.
LEMMA RunType ==
  ASSUME ServicesTypeOK, NEW s \in Service, NEW now \in Statuses, Run(s, now)
  PROVE  /\ status' \in [Service -> Statuses]
         /\ starting' \in [Service -> Nat]
         /\ overlap' \subseteq Service
BY DEF ServicesTypeOK, Statuses, Run

\* fail(s) keeps the types; it stops the instance it forgets.
LEMMA FailType ==
  ASSUME ServicesInv, NEW s \in Service, Fail(s)
  PROVE  /\ status' \in [Service -> Statuses] /\ restarts' \in [Service -> 0..MaxRetries]
         /\ held' \subseteq Service /\ live' \in [Service -> Nat]
         /\ armed' \subseteq Service /\ stray' \in [Service -> Nat]
<1>1. live' \in [Service -> Nat] /\ held' \subseteq Service
  BY DEF ServicesInv, ServicesTypeOK, Tracked, Fail, StopInstance
<1> restarts[s] \in 0..MaxRetries /\ MaxRetries \in Nat
  BY ServiceAssumption DEF ServicesInv, ServicesTypeOK
<1>2. CASE restarts[s] >= MaxRetries
  BY <1>1, <1>2 DEF ServicesInv, ServicesTypeOK, Statuses, Fail
<1>3. CASE ~(restarts[s] >= MaxRetries)
  <2>1. restarts[s] + 1 \in 0..MaxRetries
    BY <1>3
  <2>2. restarts' \in [Service -> 0..MaxRetries]
    <3>1. restarts' = [restarts EXCEPT ![s] = restarts[s] + 1]
      BY <1>3 DEF Fail
    <3>2. QED
      BY <2>1, <3>1 DEF ServicesInv, ServicesTypeOK
  <2>3. stray' \in [Service -> Nat]
    <3>1. \/ stray' = stray
          \/ stray' = [stray EXCEPT ![s] = stray[s] + 1]
      <4>1. CASE s \in armed
        BY <1>3, <4>1 DEF Fail
      <4>2. CASE s \notin armed
        BY <1>3, <4>2 DEF ServicesInv, ServicesTypeOK, Fail
      <4>3. QED
        BY <4>1, <4>2
    <3>2. stray \in [Service -> Nat] /\ stray[s] + 1 \in Nat
      BY DEF ServicesInv, ServicesTypeOK
    <3>3. QED
      BY <3>1, <3>2
  <2>4. status' \in [Service -> Statuses] /\ armed' \subseteq Service
    BY <1>3 DEF ServicesInv, ServicesTypeOK, Statuses, Fail
  <2>5. QED
    BY <1>1, <2>2, <2>3, <2>4
<1>4. QED
  BY <1>2, <1>3

\* The bounds are kept.
LEMMA Counts ==
  ASSUME ServicesTypeOK
  PROVE  /\ ByHand => manual' \in 0..MaxManual
         /\ failures < MaxFailures /\ failures' = failures + 1
              => failures' \in 0..MaxFailures
BY ServiceAssumption DEF ServicesTypeOK, ByHand

\* Settling takes one awaited start away, and startAll may go on.
LEMMA SettlesType ==
  ASSUME ServicesInv, NEW s \in Service, Settles(s)
  PROVE  /\ starting' \in [Service -> Nat]
         /\ boot' \in [next : 1..(Len(Order) + 2), at : {"go", "await"}]
         /\ boot'.at = "await" => boot'.next \in DOMAIN Order
<1>1. starting' \in [Service -> Nat]
  BY DEF ServicesInv, ServicesTypeOK, Settles
<1>2. Len(Order) \in Nat /\ DOMAIN Order = 1..Len(Order)
  BY ServiceAssumption
<1>3. CASE UNCHANGED boot
  BY <1>1, <1>3 DEF ServicesInv, ServicesTypeOK
<1>4. CASE boot.at = "await" /\ boot' = [next |-> boot.next + 1, at |-> "go"]
  BY <1>1, <1>2, <1>4 DEF ServicesInv, ServicesTypeOK
<1>5. QED
  BY <1>3, <1>4 DEF Settles

-----------------------------------------------------------------------------
(***************************************************************************)
(* The invariant is inductive.                                             *)
(***************************************************************************)
LEMMA ServicesStep == ServicesInv /\ [ServicesNext]_serviceVars => ServicesInv'
<1> SUFFICES ASSUME ServicesInv, [ServicesNext]_serviceVars PROVE ServicesInv'
  OBVIOUS
<1>len. Len(Order) \in Nat /\ DOMAIN Order = 1..Len(Order) /\ Order \in Seq(Service)
  BY ServiceAssumption
<1>1. CASE BootNext
  <2> DEFINE s == Order[boot.next]
  <2>1. s \in Service /\ status[s] \in Statuses
    BY <1>1, <1>len DEF BootNext, ServicesInv, ServicesTypeOK
  <2>2. Run(s, status[s])
    BY <1>1 DEF BootNext
  <2>3. boot' \in [next : 1..(Len(Order) + 2), at : {"go", "await"}]
        /\ (boot'.at = "await" => boot'.next \in DOMAIN Order)
    BY <1>1, <1>len DEF BootNext, ServicesInv, ServicesTypeOK
  <2>4. ServicesTypeOK'
    BY <1>1, <2>1, <2>2, <2>3, RunType DEF BootNext, ServicesInv, ServicesTypeOK
  <2>5. ASSUME NEW t \in Service PROVE Tracked(t)'
    <3>1. Tracked(t) /\ live[t] \in Nat /\ starting[t] \in Nat
      BY DEF ServicesInv, ServicesTypeOK
    <3>2. /\ status \in [Service -> Statuses] /\ live \in [Service -> Nat]
          /\ starting \in [Service -> Nat]
      BY DEF ServicesInv, ServicesTypeOK
    <3>3. CASE t = s
      BY <1>1, <2>1, <2>2, <3>1, <3>2, <3>3 DEF BootNext, Run, Starts, Tracked
    <3>4. CASE t # s
      BY <1>1, <2>1, <2>2, <3>1, <3>2, <3>4 DEF BootNext, Run, Starts, Tracked
    <3>5. QED
      BY <3>3, <3>4
  <2>6. QED
    BY <2>3, <2>4, <2>5 DEF ServicesInv
<1>2. CASE BootDone
  <2>1. ServicesTypeOK' /\ boot'.at = "go"
    BY <1>2, <1>len DEF BootDone, ServicesInv, ServicesTypeOK
  <2>2. QED
    BY <1>2, <2>1 DEF BootDone, ServicesInv, Tracked
<1>3. CASE StopAll
  <2>1. ServicesTypeOK'
    <3>1. live' \in [Service -> Nat]
      BY <1>3 DEF StopAll, ServicesInv, ServicesTypeOK, Tracked
    <3>2. status' \in [Service -> Statuses]
      BY <1>3 DEF StopAll, Statuses
    <3>3. manual' \in 0..MaxManual
      BY <1>3, Counts DEF StopAll, ServicesInv
    <3>4. QED
      BY <1>3, <3>1, <3>2, <3>3 DEF StopAll, ServicesInv, ServicesTypeOK
  <2>2. ASSUME NEW t \in Service PROVE Tracked(t)'
    <3>1. Tracked(t) /\ live[t] \in Nat
      BY DEF ServicesInv, ServicesTypeOK
    <3>2. QED
      BY <1>3, <3>1 DEF StopAll, Tracked
  <2>3. QED
    BY <1>3, <2>1, <2>2 DEF StopAll, ServicesInv
<1>4. ASSUME NEW s \in Service, NEW fn \in BOOLEAN, StartResolves(s, fn)
      PROVE  ServicesInv'
  <2>1. Settles(s)
    BY <1>4 DEF StartResolves
  <2>2. ServicesTypeOK' /\ (boot'.at = "await" => boot'.next \in DOMAIN Order)
    <3>1. status' \in [Service -> Statuses]
      BY <1>4 DEF StartResolves, ServicesInv, ServicesTypeOK, Statuses
    <3>2. live' \in [Service -> Nat] /\ held' \subseteq Service
      BY <1>4 DEF StartResolves, ServicesInv, ServicesTypeOK
    <3>3. QED
      BY <1>4, <2>1, <3>1, <3>2, SettlesType DEF StartResolves, ServicesInv, ServicesTypeOK
  <2>3. ASSUME NEW t \in Service PROVE Tracked(t)'
    <3>1. Tracked(t) /\ live[t] \in Nat /\ starting[t] \in Nat
      BY DEF ServicesInv, ServicesTypeOK
    <3>2. /\ status \in [Service -> Statuses] /\ live \in [Service -> Nat]
          /\ starting \in [Service -> Nat]
      BY DEF ServicesInv, ServicesTypeOK
    <3>3. CASE t = s
      BY <1>4, <3>1, <3>2, <3>3 DEF StartResolves, Settles, Tracked
    <3>4. CASE t # s
      BY <1>4, <3>1, <3>2, <3>4 DEF StartResolves, Settles, Tracked
    <3>5. QED
      BY <3>3, <3>4
  <2>4. QED
    BY <2>2, <2>3 DEF ServicesInv
<1>5. ASSUME NEW s \in Service, StartThrows(s)
      PROVE  ServicesInv'
  <2>1. Settles(s) /\ Fail(s)
    BY <1>5 DEF StartThrows
  <2>2. ServicesTypeOK' /\ (boot'.at = "await" => boot'.next \in DOMAIN Order)
    <3>1. failures' \in 0..MaxFailures
      BY <1>5, Counts DEF StartThrows, ServicesInv
    <3>2. QED
      BY <1>5, <2>1, <3>1, SettlesType, FailType DEF StartThrows, ServicesInv, ServicesTypeOK
  <2>3. ASSUME NEW t \in Service PROVE Tracked(t)'
    <3>1. Tracked(t) /\ live[t] \in Nat /\ starting[t] \in Nat
      BY DEF ServicesInv, ServicesTypeOK
    <3>2. /\ status \in [Service -> Statuses] /\ live \in [Service -> Nat]
          /\ starting \in [Service -> Nat]
      BY DEF ServicesInv, ServicesTypeOK
    <3>3. CASE t = s
      BY <1>5, <3>1, <3>2, <3>3 DEF StartThrows, Settles, Fail, StopInstance, Tracked
    <3>4. CASE t # s
      BY <1>5, <3>1, <3>2, <3>4 DEF StartThrows, Settles, Fail, StopInstance, Tracked
    <3>5. QED
      BY <3>3, <3>4
  <2>4. QED
    BY <2>2, <2>3 DEF ServicesInv
<1>6. ASSUME NEW s \in Service, HeartbeatMissed(s)
      PROVE  ServicesInv'
  <2>1. Fail(s)
    BY <1>6 DEF HeartbeatMissed
  <2>2. ServicesTypeOK' /\ UNCHANGED boot
    <3>1. failures' \in 0..MaxFailures
      BY <1>6, Counts DEF HeartbeatMissed, ServicesInv
    <3>2. QED
      BY <1>6, <2>1, <3>1, FailType DEF HeartbeatMissed, ServicesInv, ServicesTypeOK
  <2>3. ASSUME NEW t \in Service PROVE Tracked(t)'
    <3>1. Tracked(t) /\ live[t] \in Nat /\ starting[t] \in Nat
      BY DEF ServicesInv, ServicesTypeOK
    <3>2. /\ status \in [Service -> Statuses] /\ live \in [Service -> Nat]
          /\ starting \in [Service -> Nat]
      BY DEF ServicesInv, ServicesTypeOK
    <3>3. CASE t = s
      BY <1>6, <3>1, <3>2, <3>3 DEF HeartbeatMissed, Fail, StopInstance, Tracked
    <3>4. CASE t # s
      BY <1>6, <3>1, <3>2, <3>4 DEF HeartbeatMissed, Fail, StopInstance, Tracked
    <3>5. QED
      BY <3>3, <3>4
  <2>4. QED
    BY <2>2, <2>3 DEF ServicesInv
<1>7. ASSUME NEW s \in Service, TimerFires(s)
      PROVE  ServicesInv'
  <2>1. Run(s, status[s]) /\ status[s] \in Statuses
    BY <1>7 DEF TimerFires, ServicesInv, ServicesTypeOK
  <2>2. armed' \subseteq Service /\ stray' \in [Service -> Nat]
    <3>1. CASE armed' = armed \ {s} /\ UNCHANGED stray
      BY <3>1 DEF ServicesInv, ServicesTypeOK
    <3>2. CASE stray[s] > 0 /\ stray' = [stray EXCEPT ![s] = @ - 1] /\ UNCHANGED armed
      <4>1. stray[s] \in Nat /\ stray[s] - 1 \in Nat
        BY <3>2 DEF ServicesInv, ServicesTypeOK
      <4>2. QED
        BY <3>2, <4>1 DEF ServicesInv, ServicesTypeOK
    <3>3. QED
      BY <1>7, <3>1, <3>2 DEF TimerFires
  <2>3. ServicesTypeOK'
    BY <1>7, <2>1, <2>2, RunType DEF TimerFires, ServicesInv, ServicesTypeOK
  <2>4. ASSUME NEW t \in Service PROVE Tracked(t)'
    <3>1. Tracked(t) /\ live[t] \in Nat /\ starting[t] \in Nat
      BY DEF ServicesInv, ServicesTypeOK
    <3>2. /\ status \in [Service -> Statuses] /\ live \in [Service -> Nat]
          /\ starting \in [Service -> Nat]
      BY DEF ServicesInv, ServicesTypeOK
    <3>3. CASE t = s
      BY <1>7, <3>1, <3>2, <3>3 DEF TimerFires, Run, Starts, Tracked
    <3>4. CASE t # s
      BY <1>7, <3>1, <3>2, <3>4 DEF TimerFires, Run, Starts, Tracked
    <3>5. QED
      BY <3>3, <3>4
  <2>5. QED
    BY <1>7, <2>3, <2>4 DEF TimerFires, ServicesInv
<1>8. ASSUME NEW s \in Service, Restart(s)
      PROVE  ServicesInv'
  <2>1. Run(s, "stopped") /\ "stopped" \in Statuses
    BY <1>8 DEF Restart, Statuses
  <2>2. live' \in [Service -> Nat] /\ held' \subseteq Service
    BY <1>8 DEF Restart, StopInstance, Tracked, ServicesInv, ServicesTypeOK
  <2>3. ServicesTypeOK'
    <3>1. manual' \in 0..MaxManual
      BY <1>8, Counts DEF Restart, ServicesInv
    <3>2. restarts' \in [Service -> 0..MaxRetries]
      BY <1>8, ServiceAssumption DEF Restart, ServicesInv, ServicesTypeOK
    <3>3. QED
      BY <1>8, <2>1, <2>2, <3>1, <3>2, RunType
         DEF Restart, ClearTimer, ServicesInv, ServicesTypeOK
  <2>4. ASSUME NEW t \in Service PROVE Tracked(t)'
    <3>1. Tracked(t) /\ live[t] \in Nat /\ starting[t] \in Nat
      BY DEF ServicesInv, ServicesTypeOK
    <3>2. /\ status \in [Service -> Statuses] /\ live \in [Service -> Nat]
          /\ starting \in [Service -> Nat]
      BY DEF ServicesInv, ServicesTypeOK
    <3>3. CASE t = s
      BY <1>8, <3>1, <3>2, <3>3 DEF Restart, ClearTimer, Run, Starts, StopInstance, Tracked
    <3>4. CASE t # s
      BY <1>8, <3>1, <3>2, <3>4 DEF Restart, ClearTimer, Run, Starts, StopInstance, Tracked
    <3>5. QED
      BY <3>3, <3>4
  <2>5. QED
    BY <1>8, <2>3, <2>4 DEF Restart, ServicesInv
<1>9. ASSUME NEW s \in Service, Stop(s)
      PROVE  ServicesInv'
  <2>1. live' \in [Service -> Nat] /\ held' \subseteq Service
    BY <1>9 DEF Stop, StopInstance, Tracked, ServicesInv, ServicesTypeOK
  <2>2. ServicesTypeOK'
    <3>1. manual' \in 0..MaxManual
      BY <1>9, Counts DEF Stop, ServicesInv
    <3>2. status' \in [Service -> Statuses]
      BY <1>9 DEF Stop, ServicesInv, ServicesTypeOK, Statuses
    <3>3. QED
      BY <1>9, <2>1, <3>1, <3>2 DEF Stop, ClearTimer, ServicesInv, ServicesTypeOK
  <2>3. ASSUME NEW t \in Service PROVE Tracked(t)'
    <3>1. Tracked(t) /\ live[t] \in Nat /\ starting[t] \in Nat
      BY DEF ServicesInv, ServicesTypeOK
    <3>2. /\ status \in [Service -> Statuses] /\ live \in [Service -> Nat]
          /\ starting \in [Service -> Nat]
      BY DEF ServicesInv, ServicesTypeOK
    <3>3. CASE t = s
      BY <1>9, <3>1, <3>2, <3>3 DEF Stop, ClearTimer, StopInstance, Tracked
    <3>4. CASE t # s
      BY <1>9, <3>1, <3>2, <3>4 DEF Stop, ClearTimer, StopInstance, Tracked
    <3>5. QED
      BY <3>3, <3>4
  <2>4. QED
    BY <1>9, <2>2, <2>3 DEF Stop, ServicesInv
<1>10. ASSUME NEW s \in Service, Start(s)
       PROVE  ServicesInv'
  <2>1. Run(s, status[s]) /\ status[s] \in Statuses
    BY <1>10 DEF Start, ServicesInv, ServicesTypeOK
  <2>2. ServicesTypeOK'
    BY <1>10, <2>1, RunType, ServiceAssumption
       DEF Start, ByHand, ServicesInv, ServicesTypeOK
  <2>3. ASSUME NEW t \in Service PROVE Tracked(t)'
    <3>1. Tracked(t) /\ live[t] \in Nat /\ starting[t] \in Nat
      BY DEF ServicesInv, ServicesTypeOK
    <3>2. /\ status \in [Service -> Statuses] /\ live \in [Service -> Nat]
          /\ starting \in [Service -> Nat]
      BY DEF ServicesInv, ServicesTypeOK
    <3>3. CASE t = s
      BY <1>10, <3>1, <3>2, <3>3 DEF Start, Run, Starts, Tracked
    <3>4. CASE t # s
      BY <1>10, <3>1, <3>2, <3>4 DEF Start, Run, Starts, Tracked
    <3>5. QED
      BY <3>3, <3>4
  <2>4. QED
    BY <1>10, <2>2, <2>3 DEF Start, ServicesInv
<1>11. CASE UNCHANGED serviceVars
  BY <1>11 DEF serviceVars, ServicesInv, ServicesTypeOK, Tracked
<1>12. Switches \subseteq Service
  BY ServiceAssumption
<1>13. QED
  BY <1>1, <1>2, <1>3, <1>4, <1>5, <1>6, <1>7, <1>8, <1>9, <1>10, <1>11, <1>12
     DEF ServicesNext, StartSettles

LEMMA ServicesAlways == ServicesSpec => []ServicesInv
<1>1. ServicesInit => ServicesInv
  <2>1. Len(Order) \in Nat
    BY ServiceAssumption
  <2>2. ASSUME ServicesInit PROVE ServicesTypeOK /\ boot.at # "await"
    <3>1. 0 \in 0..MaxRetries /\ 0 \in 0..MaxFailures /\ 0 \in 0..MaxManual
      BY ServiceAssumption
    <3>2. /\ status \in [Service -> Statuses] /\ restarts \in [Service -> 0..MaxRetries]
          /\ stray \in [Service -> Nat] /\ starting \in [Service -> Nat]
          /\ live \in [Service -> Nat]
      BY <2>2, <3>1 DEF ServicesInit, Statuses
    <3>3. boot \in [next : 1..(Len(Order) + 2), at : {"go", "await"}] /\ boot.at # "await"
      BY <2>1, <2>2 DEF ServicesInit
    <3>4. QED
      BY <2>2, <3>1, <3>2, <3>3 DEF ServicesInit, ServicesTypeOK
  <2>3. ASSUME ServicesInit, NEW s \in Service PROVE Tracked(s)
    BY <2>3 DEF ServicesInit, Tracked
  <2>4. QED
    BY <2>2, <2>3 DEF ServicesInv
<1>2. QED
  BY <1>1, ServicesStep, PTL DEF ServicesSpec

\* The variables of the supervisor hold what the code can put there; a
\* service is never retried more than MAX_RESTARTS times in a row.
THEOREM ServicesTypeCorrect == ServicesSpec => []ServicesTypeOK
<1>1. ServicesInv => ServicesTypeOK
  BY DEF ServicesInv
<1>2. QED
  BY <1>1, ServicesAlways, PTL

\* Every live instance can be stopped by the supervisor, as long as no two
\* starts of its service have overlapped.
THEOREM NothingLeaks == ServicesSpec => []Supervised
<1>1. ServicesInv => Supervised
  BY DEF ServicesInv, Tracked, Supervised
<1>2. QED
  BY <1>1, ServicesAlways, PTL

\* A stopped service is revived by hand or by one of three races, never by
\* the retry timer that stop and restart clear.
THEOREM RevivalIsARace == ServicesSpec => RevivedOnlyByRace
<1> DEFINE Raced(s) ==
      status[s] = "stopped" /\ status'[s] # "stopped" =>
        \/ manual' # manual
        \/ boot.next \in DOMAIN Order /\ Order[boot.next] = s
        \/ starting[s] > 0 \/ stray[s] > 0
<1>1. ServicesInv /\ [ServicesNext]_serviceVars => [\A s \in Service : Raced(s)]_serviceVars
  <2> SUFFICES ASSUME ServicesInv, ServicesNext, NEW s \in Service PROVE Raced(s)
    BY DEF serviceVars
  <2>1. CASE BootNext
    BY <2>1 DEF BootNext, Run, ServicesInv, ServicesTypeOK
  <2>2. CASE BootDone
    BY <2>2 DEF BootDone
  <2>3. CASE manual' # manual
    BY <2>3
  <2>4. ASSUME NEW t \in Service, StartSettles(t) PROVE Raced(s)
    BY <2>4 DEF StartSettles, StartResolves, StartThrows, Settles, Fail,
                ServicesInv, ServicesTypeOK
  <2>5. ASSUME NEW t \in Service, HeartbeatMissed(t) PROVE Raced(s)
    BY <2>5 DEF HeartbeatMissed, Fail, ServicesInv, ServicesTypeOK
  <2>6. ASSUME NEW t \in Service, TimerFires(t) PROVE Raced(s)
    BY <2>6 DEF TimerFires, Run, Tracked, ServicesInv, ServicesTypeOK
  <2>7. ByHand => manual' # manual
    BY DEF ByHand, ServicesInv, ServicesTypeOK
  <2>8. QED
    BY <2>1, <2>2, <2>3, <2>4, <2>5, <2>6, <2>7
       DEF ServicesNext, StopAll, Restart, Stop, Start
<1>2. QED
  BY <1>1, ServicesAlways, PTL DEF ServicesSpec, RevivedOnlyByRace

=============================================================================

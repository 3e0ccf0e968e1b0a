----------------------------- MODULE Calls_proofs ----------------------------
(***************************************************************************)
(* Theorems about Calls, for any number of calls and of reconnections.     *)
(***************************************************************************)
EXTENDS Calls, TLAPS

(***************************************************************************)
(* The inductive invariant, of a state s of the engine.  A task that still *)
(* belongs to the call that goes on was started by the user's wish and     *)
(* finds the phase and the leg of that call; a task that does not is known *)
(* by its marks and leaves one.                                            *)
(***************************************************************************)
Meant(s) == s.consent \/ s.stray

Owned == {"dial-offer", "dial-sent", "accept-answer", "accept-sent", "glare-sent"}

TaskOK(s, t) ==
  /\ t.own /\ t.at \in Owned => s.leg # NoLeg
  /\ t.live => Meant(s)
  /\ t.live /\ s.phase \in {"idle", "ended"} => s.stray

Quiet(s) == s.leg = NoLeg /\ ~s.mic /\ ~s.offer /\ s.meta = None

EngineOK(s) ==
  /\ s \in Engines
  /\ \A t \in s.tasks : TaskOK(s, t)
  /\ s.leg # NoLeg => Meant(s)
  /\ s.phase \in {"outgoing", "active", "reconnecting"} => Meant(s)
  /\ s.phase \in {"idle", "ended"} /\ ~s.stray => Quiet(s)

CallsInv == polite \in BOOLEAN /\ EngineOK(engine)

-----------------------------------------------------------------------------
(***************************************************************************)
(* What the handlers share.                                                *)
(***************************************************************************)
LEMMA LegKinds ==
  /\ NoLeg \notin Legs
  /\ NewLeg \in Legs /\ NewLeg.sig = "stable" /\ ~NewLeg.remote
  /\ \A leg \in Legs : leg # NoLeg /\ leg.sig \in {"stable", "local", "remote"}
  /\ NoLeg.sig = "none"
  <1>1. \A leg \in Legs : leg.sig \in {"stable", "local", "remote"}
    BY DEF Legs
  <1>2. NoLeg.sig = "none"
    BY DEF NoLeg
  <1>3. NewLeg \in Legs /\ NewLeg.sig = "stable" /\ ~NewLeg.remote
    BY DEF NewLeg, Legs
  <1> QED
    BY <1>1, <1>2, <1>3

\* A call that is cleaned up leaves a state that is well formed, whatever
\* the state before was.
LEMMA CleanOK ==
  ASSUME NEW s \in Engines, NEW phase \in {"idle", "ended"}, NEW bye \in BOOLEAN,
         NEW ringing \in BOOLEAN
  PROVE  /\ EngineOK([Clean(s) EXCEPT !.phase = phase, !.remoteRinging = ringing])
         /\ EngineOK([Clean(s) EXCEPT !.phase = phase, !.byeTimers = bye])
  <1> DEFINE idle == {[t EXCEPT !.live = FALSE, !.own = FALSE] : t \in s.tasks}
  <1>1. \A t \in idle : t \in Tasks /\ ~t.live /\ ~t.own
    <2>1. \A t \in Tasks : LET u == [t EXCEPT !.live = FALSE, !.own = FALSE]
                           IN  u \in Tasks /\ ~u.live /\ ~u.own
      BY DEF Tasks
    <2>2. s.tasks \subseteq Tasks
      BY DEF Engines
    <2> QED
      BY <2>1, <2>2
  <1> HIDE DEF idle
  <1>2. \A r \in Engines : r.tasks = idle /\ r.leg = NoLeg /\ ~r.mic /\ ~r.offer /\ r.meta = None
                           /\ r.phase \in {"idle", "ended"} => EngineOK(r)
    BY <1>1 DEF EngineOK, TaskOK, Quiet
  <1>3. Clean(s) = [s EXCEPT
     !.meta = None, !.outTimer = "off", !.ringTimer = FALSE,
     !.restartTimer = "off", !.offer = FALSE, !.leg = NoLeg, !.mic = FALSE,
     !.restarting = FALSE, !.consent = FALSE, !.stray = FALSE,
     !.tasks = idle]
    BY DEF Clean, idle
  <1>4. phase \in Phases /\ None \in {None, "incoming", "outgoing"} /\ idle \in SUBSET Tasks
    BY <1>1 DEF Phases
  <1>5. PICK c : c = Clean(s)
    OBVIOUS
  <1>6. /\ c \in Engines /\ c.tasks = idle /\ c.leg = NoLeg /\ ~c.mic /\ ~c.offer
        /\ c.meta = None
    BY <1>3, <1>4, <1>5 DEF Engines
  <1>7. EngineOK([c EXCEPT !.phase = phase, !.remoteRinging = ringing])
    BY <1>2, <1>4, <1>6 DEF Engines
  <1>8. EngineOK([c EXCEPT !.phase = phase, !.byeTimers = bye])
    BY <1>2, <1>4, <1>6 DEF Engines
  <1> QED
    BY <1>5, <1>7, <1>8

LEMMA EndCallOK ==
  ASSUME NEW s \in Engines, NEW phase \in {"idle", "ended"}
  PROVE  EngineOK(EndCall(s, phase))
  BY CleanOK DEF EndCall

LEMMA TaskIs ==
  ASSUME NEW at \in {"dial-media", "accept-media", "glare-answer", "join-media", "restart-sent"}
  PROVE  Task(at) \in Tasks /\ Task(at).at = at /\ Task(at).live /\ Task(at).own
  BY DEF Task, Tasks

\* A task less, and a timer or mark that the invariant is not about.
LEMMA DoneOK ==
  ASSUME NEW s, EngineOK(s), NEW t
  PROVE  EngineOK(Done(s, t))
  <1>1. PICK r : r = Done(s, t)
    OBVIOUS
  <1>2. /\ r \in Engines /\ r.tasks \subseteq s.tasks
        /\ r.leg = s.leg /\ r.consent = s.consent /\ r.stray = s.stray /\ r.phase = s.phase
        /\ r.mic = s.mic /\ r.offer = s.offer /\ r.meta = s.meta
    BY <1>1 DEF Done, Engines, EngineOK
  <1> QED
    BY <1>1, <1>2 DEF EngineOK, TaskOK, Meant, Quiet

\* A task that goes on, with a leg of its own.
LEMMA OnwardOK ==
  ASSUME NEW s, EngineOK(s), NEW t \in s.tasks, s.leg # NoLeg,
         NEW at \in Owned
  PROVE  EngineOK(Onward(s, t, at))
  <1>0. t \in Tasks
    BY DEF EngineOK, Engines
  <1> DEFINE u == [t EXCEPT !.at = at, !.own = t.own \/ at \in Owning]
  <1>1. t.own \in BOOLEAN /\ t.live \in BOOLEAN
    BY <1>0 DEF Tasks
  <1>2. (t.own \/ at \in Owning) \in BOOLEAN
    OBVIOUS
  <1>3. u \in Tasks /\ u.at = at /\ u.live = t.live
    <2>1. PICK own \in BOOLEAN : own = (t.own \/ at \in Owning)
      BY <1>2
    <2>2. u = [t EXCEPT !.at = at, !.own = own]
      BY <2>1
    <2> HIDE DEF u
    <2> QED
      BY <1>0, <2>2 DEF Tasks, Owned
  <1>4. Onward(s, t, at) = [s EXCEPT !.tasks = (s.tasks \ {t}) \cup {u}]
    BY DEF Onward
  <1> HIDE DEF u
  <1>5. PICK r : r = Onward(s, t, at)
    OBVIOUS
  <1>6. /\ r \in Engines /\ r.tasks = (s.tasks \ {t}) \cup {u}
        /\ r.leg = s.leg /\ r.consent = s.consent /\ r.stray = s.stray /\ r.phase = s.phase
        /\ r.mic = s.mic /\ r.offer = s.offer /\ r.meta = s.meta
    BY <1>3, <1>4, <1>5 DEF Engines, EngineOK
  <1>7. TaskOK(r, u)
    BY <1>3, <1>6 DEF EngineOK, TaskOK, Meant
  <1>8. \A x \in s.tasks : TaskOK(r, x)
    BY <1>6 DEF EngineOK, TaskOK, Meant
  <1> QED
    BY <1>5, <1>6, <1>7, <1>8 DEF EngineOK, Meant, Quiet

\* Only timers and marks differ that the invariant is not about.
LEMMA SameOK ==
  ASSUME NEW s, EngineOK(s), NEW r \in Engines, r.tasks \subseteq s.tasks,
         r.leg = s.leg, r.consent = s.consent, r.stray = s.stray, r.phase = s.phase,
         r.mic = s.mic, r.offer = s.offer, r.meta = s.meta
  PROVE  EngineOK(r)
  BY DEF EngineOK, TaskOK, Meant, Quiet

\* A device that is in a call, by the user's wish or for a named reason.
LEMMA BusyOK ==
  ASSUME NEW s, EngineOK(s), NEW r \in Engines,
         \A t \in r.tasks : t \in s.tasks \/ TaskOK(r, t),
         Meant(r), r.phase \in {"idle", "ended"} => r.stray,
         r.leg = s.leg \/ r.leg # NoLeg
  PROVE  EngineOK(r)
  BY DEF EngineOK, TaskOK, Quiet

\* Such a device begins another task.
LEMMA BegunOK ==
  ASSUME NEW s, EngineOK(s), Meant(s), s.phase \in {"idle", "ended"} => s.stray,
         NEW u \in Tasks, u.at \notin Owned
  PROVE  EngineOK([s EXCEPT !.tasks = s.tasks \cup {u}])
  <1>1. s \in Engines /\ s.tasks \in SUBSET Tasks
    BY DEF EngineOK, Engines
  <1>2. PICK tasks \in SUBSET Tasks : tasks = s.tasks \cup {u}
    BY <1>1
  <1>3. PICK r : r = [s EXCEPT !.tasks = tasks]
    OBVIOUS
  <1>4. /\ r \in Engines /\ r.leg = s.leg /\ r.tasks = tasks /\ r.consent = s.consent
        /\ r.stray = s.stray /\ r.phase = s.phase
    BY <1>1, <1>3 DEF Engines
  <1>5. Meant(r) /\ (r.phase \in {"idle", "ended"} => r.stray)
    BY <1>4 DEF Meant
  <1>6. TaskOK(r, u)
    BY <1>5 DEF TaskOK
  <1>7. EngineOK(r)
    BY <1>2, <1>4, <1>5, <1>6, BusyOK
  <1> QED
    BY <1>2, <1>3, <1>7

\* A leg that is there belongs to such a call.
LEMMA HasLeg ==
  ASSUME NEW s, EngineOK(s), s.leg # NoLeg
  PROVE  s.leg \in Legs /\ Meant(s) /\ (s.phase \in {"idle", "ended"} => s.stray)
  BY DEF EngineOK, Engines, Quiet

LEMMA LegIs ==
  ASSUME NEW leg \in Legs
  PROVE  /\ \A sig \in {"stable", "local", "remote"} :
              /\ [leg EXCEPT !.sig = sig] \in Legs
              /\ [leg EXCEPT !.sig = sig, !.remote = TRUE] \in Legs
         /\ \A conn \in {"new", "connected", "disconnected", "failed"} :
              [leg EXCEPT !.conn = conn] \in Legs
         /\ Agreed(leg) \in Legs
  BY DEF Legs, Agreed

\* The leg that is there is replaced by another state of it.
LEMMA LegOK ==
  ASSUME NEW s, EngineOK(s), s.leg # NoLeg, NEW leg \in Legs
  PROVE  EngineOK([s EXCEPT !.leg = leg])
  <1>1. PICK r : r = [s EXCEPT !.leg = leg]
    OBVIOUS
  <1>2. /\ r \in Engines /\ r.leg = leg /\ r.tasks = s.tasks /\ r.consent = s.consent
        /\ r.stray = s.stray /\ r.phase = s.phase
    BY <1>1 DEF EngineOK, Engines
  <1>3. Meant(r) /\ (r.phase \in {"idle", "ended"} => r.stray)
    BY <1>2, HasLeg DEF Meant
  <1> QED
    BY <1>1, <1>2, <1>3, BusyOK, LegKinds

LEMMA UpOK ==
  ASSUME NEW s, EngineOK(s), Meant(s)
  PROVE  EngineOK(Up(s)) /\ Up(s).stray = s.stray /\ Up(s).leg = s.leg /\ Meant(Up(s))
  <1>1. PICK r : r = Up(s)
    OBVIOUS
  <1>2. /\ r \in Engines /\ r.leg = s.leg /\ r.tasks = s.tasks /\ r.consent = s.consent
        /\ r.stray = s.stray /\ r.phase = "active"
    BY <1>1 DEF EngineOK, Engines, Up, Phases
  <1>3. Meant(r)
    BY <1>2 DEF Meant
  <1> QED
    BY <1>1, <1>2, <1>3, BusyOK

-----------------------------------------------------------------------------
(***************************************************************************)
(* The actions.                                                            *)
(***************************************************************************)

\* A task that goes on takes the camera and makes a leg; if its call is over,
\* it leaves its mark.
LEMMA MediaOK ==
  ASSUME NEW s, EngineOK(s), NEW t \in s.tasks, NEW mic \in BOOLEAN
  PROVE  LET r == WithLeg([s EXCEPT !.mic = mic, !.stray = @ \/ ~t.live])
         IN  EngineOK(r) /\ r.leg # NoLeg /\ t \in r.tasks
  <1>1. t.live \in BOOLEAN /\ s.stray \in BOOLEAN
    BY DEF EngineOK, Engines, Tasks
  <1>2. PICK stray \in BOOLEAN : stray = (s.stray \/ ~t.live)
    BY <1>1
  <1>3. PICK q : q = [s EXCEPT !.mic = mic, !.stray = stray]
    OBVIOUS
  <1>4. /\ q \in Engines /\ q.leg = s.leg /\ q.tasks = s.tasks /\ q.consent = s.consent
        /\ q.stray = stray /\ q.phase = s.phase
    BY <1>3 DEF EngineOK, Engines
  <1>5. Meant(q) /\ (q.phase \in {"idle", "ended"} => q.stray)
    BY <1>1, <1>2, <1>4 DEF EngineOK, TaskOK, Meant
  <1>6. EngineOK(q)
    BY <1>4, <1>5, BusyOK
  <1>7. PICK r : r = WithLeg(q)
    OBVIOUS
  <1>8. CASE q.leg # NoLeg
    BY <1>2, <1>3, <1>4, <1>6, <1>7, <1>8 DEF WithLeg
  <1>9. CASE q.leg = NoLeg
    <2>1. r = [q EXCEPT !.leg = NewLeg]
      BY <1>7, <1>9 DEF WithLeg
    <2>2. /\ r \in Engines /\ r.leg = NewLeg /\ r.tasks = q.tasks /\ r.consent = q.consent
          /\ r.stray = q.stray /\ r.phase = q.phase
      BY <2>1, <1>4, LegKinds DEF Engines
    <2>3. Meant(r) /\ (r.phase \in {"idle", "ended"} => r.stray)
      BY <2>2, <1>5 DEF Meant
    <2>4. EngineOK(r) /\ r.leg # NoLeg
      BY <2>2, <2>3, <1>6, BusyOK, LegKinds
    <2> QED
      BY <1>2, <1>3, <1>4, <1>7, <2>2, <2>4
  <1> QED
    BY <1>8, <1>9

LEMMA PlacingKeeps ==
  ASSUME EngineOK(engine),
         \/ StartCall \/ OutTimer
         \/ \E t \in engine.tasks : DialMedia(t) \/ DialOffer(t) \/ DialDone(t)
  PROVE  EngineOK(engine')
  <1>0. engine \in Engines
    BY DEF EngineOK
  <1>1. CASE StartCall
    <2>1. engine' = [engine EXCEPT
             !.phase = "outgoing",
             !.remoteRinging = FALSE, !.reconnects = 0, !.meta = "outgoing",
             !.tasks = @ \cup {Task("dial-media")},
             !.consent = TRUE]
      BY <1>1 DEF StartCall, BecomeNew
    <2>2. Task("dial-media") \in Tasks /\ Task("dial-media").at = "dial-media"
      BY TaskIs
    <2>3. PICK u : u = Task("dial-media")
      OBVIOUS
    <2>4. /\ engine' \in Engines /\ engine'.leg = engine.leg /\ engine'.consent
          /\ engine'.tasks = engine.tasks \cup {u} /\ engine'.phase = "outgoing"
      <3>1. u \in Tasks
        BY <2>2, <2>3
      <3>2. engine' = [engine EXCEPT
               !.phase = "outgoing",
               !.remoteRinging = FALSE, !.reconnects = 0, !.meta = "outgoing",
               !.tasks = engine.tasks \cup {u}, !.consent = TRUE]
        BY <2>1, <2>3
      <3>3. 0 \in 0..MaxReconnects
        BY CallsAssumption
      <3> QED
        BY <1>0, <3>1, <3>2, <3>3 DEF Engines, Phases
    <2>5. TaskOK(engine', u)
      BY <2>2, <2>3, <2>4 DEF TaskOK, Meant, Owned
    <2> QED
      BY <2>4, <2>5, BusyOK DEF Meant
  <1>2. CASE OutTimer
    <2>1. \A at \in {"off", "reach", "answer"} : EngineOK([engine EXCEPT !.outTimer = at])
      <3> TAKE at \in {"off", "reach", "answer"}
      <3>1. PICK r : r = [engine EXCEPT !.outTimer = at]
        OBVIOUS
      <3>2. /\ r \in Engines /\ r.tasks = engine.tasks
            /\ r.leg = engine.leg /\ r.consent = engine.consent /\ r.stray = engine.stray
            /\ r.phase = engine.phase /\ r.mic = engine.mic /\ r.offer = engine.offer
            /\ r.meta = engine.meta
        BY <1>0, <3>1 DEF Engines
      <3> QED
        BY <3>1, <3>2, SameOK
    <2>2. EngineOK(EndCall(engine, "ended"))
      BY <1>0, EndCallOK
    <2>3. \/ engine' = [engine EXCEPT !.outTimer = "off"]
          \/ engine' = [engine EXCEPT !.outTimer = "answer"]
          \/ engine' = EndCall(engine, "ended")
      BY <1>2 DEF OutTimer, Become
    <2> QED
      BY <2>1, <2>2, <2>3
  <1>3. ASSUME NEW t \in engine.tasks, DialMedia(t)
        PROVE  EngineOK(engine')
    <2>1. PICK mic \in BOOLEAN :
            engine' = Onward(WithLeg([engine EXCEPT !.mic = mic, !.stray = @ \/ ~t.live]),
                             t, "dial-offer")
      BY <1>0, <1>3 DEF DialMedia, Become, Engines
    <2> QED
      BY <2>1, MediaOK, OnwardOK DEF Owned
  <1>4. ASSUME NEW t \in engine.tasks
        PROVE  EngineOK(Done(engine, t)) /\ EngineOK(Armed(Done(engine, t)))
    <2>1. PICK q : q = Done(engine, t)
      OBVIOUS
    <2>2. EngineOK(q)
      BY <2>1, DoneOK
    <2>3. PICK r : r = Armed(q)
      OBVIOUS
    <2>4. /\ r \in Engines /\ r.tasks = q.tasks
          /\ r.leg = q.leg /\ r.consent = q.consent /\ r.stray = q.stray
          /\ r.phase = q.phase /\ r.mic = q.mic /\ r.offer = q.offer /\ r.meta = q.meta
      BY <2>2, <2>3 DEF Engines, Armed, EngineOK
    <2> QED
      BY <2>1, <2>2, <2>3, <2>4, SameOK
  <1>5. ASSUME NEW t \in engine.tasks, DialOffer(t)
        PROVE  EngineOK(engine')
    <2>1. CASE t.own /\ engine.leg.sig # "remote"
      <3>1. engine.leg # NoLeg
        BY <1>5, <2>1 DEF DialOffer, EngineOK, TaskOK, Owned
      <3>2. engine.leg \in Legs
        BY <3>1, HasLeg
      <3>3. PICK leg \in Legs : leg = [engine.leg EXCEPT !.sig = "local"]
        BY <3>2, LegIs
      <3>4. PICK q : q = [engine EXCEPT !.leg = leg]
        OBVIOUS
      <3>5. EngineOK(q)
        BY <3>1, <3>4, LegOK
      <3>6. q.leg # NoLeg /\ t \in q.tasks
        BY <1>0, <3>4, LegKinds DEF Engines
      <3>7. engine' = Onward(q, t, "dial-sent")
        BY <1>5, <2>1, <3>3, <3>4 DEF DialOffer, Become
      <3> QED
        BY <3>5, <3>6, <3>7, OnwardOK DEF Owned
    <2>2. CASE ~(t.own /\ engine.leg.sig # "remote")
      BY <1>4, <1>5, <2>2 DEF DialOffer, Become
    <2> QED
      BY <2>1, <2>2
  <1>6. ASSUME NEW t \in engine.tasks, DialDone(t)
        PROVE  EngineOK(engine')
    BY <1>4, <1>6 DEF DialDone, Become
  <1> QED
    BY <1>1, <1>2, <1>3, <1>5, <1>6

\* The state of the leg changes under a task that has it.
LEMMA LegOnward ==
  ASSUME NEW s, EngineOK(s), NEW t \in s.tasks, s.leg # NoLeg, NEW leg \in Legs,
         NEW at \in Owned
  PROVE  EngineOK(Onward([s EXCEPT !.leg = leg], t, at))
  <1>1. PICK q : q = [s EXCEPT !.leg = leg]
    OBVIOUS
  <1>2. EngineOK(q)
    BY <1>1, LegOK
  <1>3. q.leg # NoLeg /\ t \in q.tasks
    BY <1>1, LegKinds DEF EngineOK, Engines
  <1> QED
    BY <1>1, <1>2, <1>3, OnwardOK

\* The call is up as its answer is sent; if it was ended meanwhile, there is
\* the mark.
LEMMA SentOK ==
  ASSUME NEW s, EngineOK(s), NEW t \in s.tasks
  PROVE  /\ EngineOK([Up(Done(s, t)) EXCEPT !.offer = FALSE, !.stray = @ \/ ~t.live])
         /\ EngineOK([Up(Done(s, t)) EXCEPT !.outTimer = "off", !.stray = @ \/ ~t.live])
  <1>1. PICK q : q = Done(s, t)
    OBVIOUS
  <1>2. EngineOK(q) /\ q.stray = s.stray /\ q.consent = s.consent
    BY <1>1, DoneOK DEF Done, Engines, EngineOK
  <1>3. PICK r : r = Up(q)
    OBVIOUS
  <1>4. /\ r \in Engines /\ r.leg = q.leg /\ r.tasks = q.tasks /\ r.consent = q.consent
        /\ r.stray = q.stray /\ r.phase = "active"
    BY <1>2, <1>3 DEF Up, EngineOK, Engines, Phases
  <1>5. t.live \in BOOLEAN /\ s.stray \in BOOLEAN
    BY DEF EngineOK, Engines, Tasks
  <1>6. PICK stray \in BOOLEAN : stray = (r.stray \/ ~t.live)
    BY <1>5
  <1>7. s.consent \/ stray
    BY <1>2, <1>4, <1>5, <1>6 DEF EngineOK, TaskOK, Meant
  <1>8. ASSUME NEW e \in Engines, e.leg = q.leg, e.tasks = q.tasks,
               e.consent = s.consent, e.stray = stray, e.phase = "active"
        PROVE  EngineOK(e)
    BY <1>2, <1>7, <1>8, BusyOK DEF Meant
  <1>9. EngineOK([r EXCEPT !.offer = FALSE, !.stray = stray])
    <2>1. PICK e : e = [r EXCEPT !.offer = FALSE, !.stray = stray]
      OBVIOUS
    <2>2. /\ e \in Engines /\ e.leg = q.leg /\ e.tasks = q.tasks
          /\ e.consent = s.consent /\ e.stray = stray /\ e.phase = "active"
      BY <1>2, <1>4, <2>1 DEF Engines
    <2> QED
      BY <1>8, <2>1, <2>2
  <1>10. EngineOK([r EXCEPT !.outTimer = "off", !.stray = stray])
    <2>1. PICK e : e = [r EXCEPT !.outTimer = "off", !.stray = stray]
      OBVIOUS
    <2>2. /\ e \in Engines /\ e.leg = q.leg /\ e.tasks = q.tasks
          /\ e.consent = s.consent /\ e.stray = stray /\ e.phase = "active"
      BY <1>2, <1>4, <2>1 DEF Engines
    <2> QED
      BY <1>8, <2>1, <2>2
  <1> QED
    BY <1>1, <1>3, <1>6, <1>9, <1>10

LEMMA AcceptingKeeps ==
  ASSUME EngineOK(engine),
         \/ Accept \/ HangUp
         \/ \E t \in engine.tasks : AcceptMedia(t) \/ AcceptAnswer(t) \/ AcceptDone(t)
  PROVE  EngineOK(engine')
  <1>0. engine \in Engines
    BY DEF EngineOK
  <1>1. CASE Accept
    <2>1. PICK u : u = Task("accept-media")
      OBVIOUS
    <2>2. u \in Tasks /\ u.at = "accept-media"
      BY <2>1, TaskIs
    <2>3. engine.phase = "ringing" /\
          engine' = [engine EXCEPT !.ringTimer = FALSE, !.consent = TRUE,
                                   !.tasks = engine.tasks \cup {u}]
      BY <1>1, <2>1 DEF Accept, Become
    <2>4. /\ engine' \in Engines /\ engine'.leg = engine.leg /\ engine'.consent
          /\ engine'.tasks = engine.tasks \cup {u} /\ engine'.phase = "ringing"
      BY <1>0, <2>2, <2>3 DEF Engines
    <2>5. TaskOK(engine', u)
      BY <2>2, <2>4 DEF TaskOK, Meant, Owned
    <2> QED
      BY <2>4, <2>5, BusyOK DEF Meant
  <1>2. CASE HangUp
    BY <1>0, <1>2, EndCallOK DEF HangUp, Become
  <1>3. ASSUME NEW t \in engine.tasks, AcceptMedia(t)
        PROVE  EngineOK(engine')
    <2>1. PICK mic \in BOOLEAN :
            LET s == WithLeg([engine EXCEPT !.mic = mic, !.stray = @ \/ ~t.live])
            IN  engine' = Onward([s EXCEPT !.leg.sig = "remote", !.leg.remote = TRUE],
                                 t, "accept-answer")
      BY <1>0, <1>3 DEF AcceptMedia, Become, Engines
    <2>2. PICK s : s = WithLeg([engine EXCEPT !.mic = mic, !.stray = @ \/ ~t.live])
      OBVIOUS
    <2>3. EngineOK(s) /\ s.leg # NoLeg /\ t \in s.tasks
      BY <2>2, MediaOK
    <2>4. PICK leg : leg = [s.leg EXCEPT !.sig = "remote", !.remote = TRUE]
      OBVIOUS
    <2>5. leg \in Legs
      BY <2>3, <2>4, HasLeg, LegIs
    <2>6. [s EXCEPT !.leg.sig = "remote", !.leg.remote = TRUE] = [s EXCEPT !.leg = leg]
      BY <2>3, <2>4 DEF EngineOK, Engines
    <2> QED
      BY <2>1, <2>2, <2>3, <2>5, <2>6, LegOnward DEF Owned
  <1>4. ASSUME NEW t, AcceptFails(t)
        PROVE  EngineOK(engine')
    <2>1. [Done(engine, t) EXCEPT !.leg = NoLeg] \in Engines
      BY <1>0 DEF Done, Engines
    <2> QED
      BY <1>4, <2>1, EndCallOK DEF AcceptFails, Become
  <1>5. ASSUME NEW t \in engine.tasks, AcceptAnswer(t)
        PROVE  EngineOK(engine')
    <2>1. CASE t.own /\ engine.leg.sig = "remote"
      <3>1. engine.leg # NoLeg
        BY <2>1, LegKinds
      <3>2. engine.leg \in Legs
        BY <3>1, HasLeg
      <3>3. PICK leg \in Legs : leg = [engine.leg EXCEPT !.sig = "stable"]
        BY <3>2, LegIs
      <3>4. engine' = Onward([engine EXCEPT !.leg = leg], t, "accept-sent")
        BY <1>5, <2>1, <3>3 DEF AcceptAnswer, Become
      <3> QED
        BY <3>1, <3>4, LegOnward DEF Owned
    <2>2. CASE ~(t.own /\ engine.leg.sig = "remote")
      BY <1>4, <1>5, <2>2, DoneOK DEF AcceptAnswer, Become
    <2> QED
      BY <2>1, <2>2
  <1>6. ASSUME NEW t \in engine.tasks, AcceptDone(t)
        PROVE  EngineOK(engine')
    <2>1. CASE AcceptFails(t)
      BY <1>4, <2>1
    <2>2. CASE engine' = [Up(Done(engine, t)) EXCEPT !.offer = FALSE, !.stray = @ \/ ~t.live]
      BY <2>2, SentOK
    <2> QED
      BY <1>6, <2>1, <2>2 DEF AcceptDone, Become
  <1> QED
    BY <1>1, <1>2, <1>3, <1>5, <1>6

\* The leg's state and the phase of a call that goes on.
LEMMA UpLegOK ==
  ASSUME NEW s, EngineOK(s), s.leg # NoLeg, NEW leg \in Legs, NEW r \in Engines,
         r.leg = leg, r.tasks \subseteq s.tasks, r.consent = s.consent, r.stray = s.stray,
         r.phase \in {"active", "reconnecting"} \/ r.phase = s.phase
  PROVE  EngineOK(r)
  <1>1. Meant(r) /\ (r.phase \in {"idle", "ended"} => r.stray)
    BY HasLeg DEF Meant
  <1> QED
    BY <1>1, BusyOK, LegKinds

LEMMA SignalKeeps ==
  ASSUME EngineOK(engine),
         Receive \/ \E t \in engine.tasks : GlareAnswer(t) \/ GlareDone(t) \/ JoinMedia(t)
  PROVE  EngineOK(engine')
  <1>0. engine \in Engines
    BY DEF EngineOK
  <1>1. CASE TakeRestart
    <2>1. engine.leg # NoLeg /\ Agreed(engine.leg) \in Legs
      BY <1>1, HasLeg, LegIs DEF TakeRestart
    <2>2. PICK leg : leg = Agreed(engine.leg)
      OBVIOUS
    <2>3. engine' = [engine EXCEPT !.leg = leg]
      BY <1>1, <2>2 DEF TakeRestart, Become
    <2> QED
      BY <2>1, <2>2, <2>3, LegOK
  <1>2. CASE TakeRinging
    <2>1. engine' = [engine EXCEPT !.remoteRinging = TRUE]
      BY <1>2 DEF TakeRinging, Become
    <2>2. /\ engine' \in Engines /\ engine'.tasks = engine.tasks
          /\ engine'.leg = engine.leg /\ engine'.consent = engine.consent
          /\ engine'.stray = engine.stray /\ engine'.phase = engine.phase
          /\ engine'.mic = engine.mic /\ engine'.offer = engine.offer
          /\ engine'.meta = engine.meta
      BY <1>0, <2>1 DEF Engines
    <2> QED
      BY <2>2, SameOK
  <1>3. CASE TakeAnswer
    <2>1. engine.leg # NoLeg /\ engine.leg \in Legs /\ Agreed(engine.leg) \in Legs
      BY <1>3, HasLeg, LegIs DEF TakeAnswer
    <2>2. PICK leg : leg = Agreed(engine.leg)
      OBVIOUS
    <2>3. CASE \E timer \in {"off", "reach", "answer", "refused"} :
                 engine' = [engine EXCEPT !.outTimer = timer]
      <3>1. /\ engine' \in Engines /\ engine'.tasks = engine.tasks /\ engine'.leg = engine.leg
            /\ engine'.consent = engine.consent /\ engine'.stray = engine.stray
            /\ engine'.phase = engine.phase
        BY <1>0, <2>3 DEF Engines
      <3> QED
        BY <2>1, <3>1, UpLegOK
    <2>4. CASE engine' = [Up(engine) EXCEPT !.outTimer = "off", !.remoteRinging = FALSE,
                                            !.leg = Agreed(@)]
      <3>1. engine' = [engine EXCEPT !.phase = "active", !.outTimer = "off",
                                     !.remoteRinging = FALSE, !.leg = leg]
        BY <1>0, <2>2, <2>4 DEF Up, Engines
      <3>2. /\ engine' \in Engines /\ engine'.tasks = engine.tasks /\ engine'.leg = leg
            /\ engine'.consent = engine.consent /\ engine'.stray = engine.stray
            /\ engine'.phase = "active"
        BY <1>0, <2>1, <2>2, <3>1 DEF Engines, Phases
      <3> QED
        BY <2>1, <2>2, <3>2, UpLegOK
    <2>5. engine.outTimer \in {"off", "reach", "answer", "refused"}
      BY <1>0 DEF Engines
    <2> QED
      BY <1>3, <2>3, <2>4, <2>5 DEF TakeAnswer, Become
  <1>4. CASE TakeBye
    <2>1. PICK c : c = Clean(engine)
      OBVIOUS
    <2>2. engine' = [c EXCEPT !.phase = "ended", !.byeTimers = TRUE]
      BY <1>4, <2>1 DEF TakeBye, Become
    <2> QED
      BY <1>0, <2>1, <2>2, CleanOK
  <1>5. CASE TakeOffer
    <2>1. CASE /\ engine.phase = "outgoing" /\ engine.leg # NoLeg
               /\ engine' = TakeGlare(engine)
      <3>1. CASE engine.leg.sig = "stable"
        BY <1>0, <2>1, <3>1, EndCallOK DEF TakeGlare
      <3>2. CASE engine.leg.sig # "stable"
        <4>1. PICK u : u = Task("glare-answer")
          OBVIOUS
        <4>2. u \in Tasks /\ u.at = "glare-answer" /\ u.live
          BY <4>1, TaskIs
        <4>3. engine.leg \in Legs /\ Meant(engine)
          BY <2>1, HasLeg
        <4>4. PICK leg \in Legs : leg = [engine.leg EXCEPT !.sig = "remote", !.remote = TRUE]
          BY <4>3, LegIs
        <4>5. engine' = [engine EXCEPT !.leg = leg, !.tasks = engine.tasks \cup {u}]
          BY <1>0, <2>1, <3>2, <4>1, <4>4 DEF TakeGlare, Engines
        <4>6. /\ engine' \in Engines /\ engine'.leg = leg
              /\ engine'.tasks = engine.tasks \cup {u} /\ engine'.consent = engine.consent
              /\ engine'.stray = engine.stray /\ engine'.phase = "outgoing"
          <5>1. engine.phase = "outgoing"
            BY <2>1
          <5>2. engine.tasks \cup {u} \in SUBSET Tasks
            BY <1>0, <4>2 DEF Engines
          <5>3. PICK tasks \in SUBSET Tasks : tasks = engine.tasks \cup {u}
            BY <5>2
          <5>4. engine' = [engine EXCEPT !.leg = leg, !.tasks = tasks]
            BY <4>5, <5>3
          <5> QED
            BY <1>0, <4>4, <5>1, <5>3, <5>4 DEF Engines
        <4>7. Meant(engine') /\ TaskOK(engine', u)
          BY <4>2, <4>3, <4>6 DEF Meant, TaskOK, Owned
        <4> QED
          BY <4>4, <4>6, <4>7, BusyOK, LegKinds
      <3> QED
        BY <3>1, <3>2
    <2>2. CASE /\ JoinsCall(engine)
               /\ engine' = [engine EXCEPT !.tasks = @ \cup {Task("join-media")}]
      <3>1. PICK u : u = Task("join-media")
        OBVIOUS
      <3>2. u \in Tasks /\ u.at = "join-media"
        BY <3>1, TaskIs
      <3>3. engine' = [engine EXCEPT !.tasks = engine.tasks \cup {u}]
        BY <2>2, <3>1
      <3>4. Meant(engine) /\ engine.phase = "active"
        BY <2>2 DEF JoinsCall, EngineOK
      <3> QED
        BY <3>2, <3>3, <3>4, BegunOK DEF Owned
    <2>3. CASE engine' = TakeRing(engine)
      <3>1. PICK meta \in {None, "incoming", "outgoing"} :
              engine' = [engine EXCEPT !.offer = TRUE, !.phase = "ringing",
                                       !.meta = meta, !.ringTimer = TRUE]
        BY <1>0, <2>3 DEF TakeRing, Engines
      <3>2. /\ engine' \in Engines /\ engine'.phase = "ringing" /\ engine'.leg = engine.leg
            /\ engine'.tasks = engine.tasks /\ engine'.consent = engine.consent
            /\ engine'.stray = engine.stray
        BY <1>0, <3>1 DEF Engines, Phases
      <3> QED
        BY <3>2 DEF EngineOK, TaskOK, Meant
    <2>4. CASE engine' = engine
      BY <2>4
    <2> QED
      BY <1>5, <2>1, <2>2, <2>3, <2>4 DEF TakeOffer, Become, BecomeNew
  <1>6. ASSUME NEW t \in engine.tasks, GlareAnswer(t)
        PROVE  EngineOK(engine')
    <2>1. PICK q : q = Done(engine, t)
      OBVIOUS
    <2>2. /\ EngineOK(q) /\ q.leg = engine.leg /\ q.tasks \subseteq engine.tasks
          /\ q.consent = engine.consent /\ q.stray = engine.stray
      BY <1>0, <2>1, DoneOK DEF Done, Engines
    <2>3. CASE t.own /\ engine.leg.sig = "remote"
      <3>1. engine.leg # NoLeg /\ engine.leg \in Legs
        BY <2>3, HasLeg, LegKinds
      <3>2. PICK leg \in Legs : leg = [engine.leg EXCEPT !.sig = "stable"]
        BY <3>1, LegIs
      <3>3. engine' = Onward([engine EXCEPT !.leg = leg], t, "glare-sent")
        BY <1>6, <2>3, <3>2 DEF GlareAnswer, Become
      <3> QED
        BY <3>1, <3>3, LegOnward DEF Owned
    <2>4. CASE ~(t.own /\ engine.leg.sig = "remote")
      <3>1. engine' = EndCall(q, "ended") \/ engine' = q
        BY <1>6, <2>1, <2>4 DEF GlareAnswer, Become
      <3> QED
        BY <2>2, <3>1, EndCallOK DEF EngineOK
    <2> QED
      BY <2>3, <2>4
  <1>7. ASSUME NEW t \in engine.tasks, GlareDone(t)
        PROVE  EngineOK(engine')
    <2>1. CASE engine' = [Up(Done(engine, t)) EXCEPT !.outTimer = "off", !.stray = @ \/ ~t.live]
      BY <2>1, SentOK
    <2>2. CASE engine' = EndCall(Done(engine, t), "ended")
      BY <2>2, DoneOK, EndCallOK DEF EngineOK
    <2> QED
      BY <1>7, <2>1, <2>2 DEF GlareDone, Become
  <1>8. ASSUME NEW t \in engine.tasks, JoinMedia(t)
        PROVE  EngineOK(engine')
    <2>1. PICK mic \in BOOLEAN :
            LET s == WithLeg([engine EXCEPT !.mic = mic, !.stray = @ \/ ~t.live])
            IN  engine' = Done([s EXCEPT !.leg = Agreed(@)], t)
      BY <1>0, <1>8 DEF JoinMedia, Become, Engines
    <2>2. PICK s : s = WithLeg([engine EXCEPT !.mic = mic, !.stray = @ \/ ~t.live])
      OBVIOUS
    <2>3. EngineOK(s) /\ s.leg # NoLeg
      BY <2>2, MediaOK
    <2>4. PICK leg \in Legs : leg = Agreed(s.leg)
      BY <2>3, HasLeg, LegIs
    <2>5. engine' = Done([s EXCEPT !.leg = leg], t)
      BY <2>1, <2>2, <2>4
    <2> QED
      BY <2>3, <2>5, LegOK, DoneOK
  <1> QED
    BY <1>1, <1>2, <1>3, <1>4, <1>5, <1>6, <1>7, <1>8 DEF Receive

\* restartIce keeps a state with a leg.
LEMMA RestartOK ==
  ASSUME NEW s, EngineOK(s), s.leg # NoLeg
  PROVE  EngineOK(Restart(s))
  <1>1. CASE s.leg.sig = "stable" /\ ~s.restarting
    <2>1. s.leg \in Legs /\ Meant(s) /\ (s.phase \in {"idle", "ended"} => s.stray)
      BY HasLeg
    <2>2. PICK leg \in Legs : leg = [s.leg EXCEPT !.sig = "local"]
      BY <2>1, LegIs
    <2>3. PICK u : u = Task("restart-sent")
      OBVIOUS
    <2>4. u \in Tasks /\ u.at = "restart-sent"
      BY <2>3, TaskIs
    <2>5. PICK q : q = [s EXCEPT !.leg = leg, !.restarting = TRUE]
      OBVIOUS
    <2>6. /\ q \in Engines /\ q.leg = leg /\ q.tasks = s.tasks /\ q.consent = s.consent
          /\ q.stray = s.stray /\ q.phase = s.phase
      BY <2>5 DEF EngineOK, Engines
    <2>7. EngineOK(q) /\ Meant(q) /\ (q.phase \in {"idle", "ended"} => q.stray)
      BY <2>1, <2>6, UpLegOK DEF Meant
    <2>8. Restart(s) = [q EXCEPT !.tasks = q.tasks \cup {u}]
      BY <1>1, <2>2, <2>3, <2>5, <2>6 DEF Restart, EngineOK, Engines
    <2> QED
      BY <2>4, <2>7, <2>8, BegunOK DEF Owned
  <1>2. CASE ~(s.leg.sig = "stable" /\ ~s.restarting)
    BY <1>2 DEF Restart
  <1> QED
    BY <1>1, <1>2

\* The restart's offer has been sent, or has not.
LEMMA RestartSentKeeps ==
  ASSUME EngineOK(engine), NEW t \in engine.tasks, RestartSent(t)
  PROVE  EngineOK(engine')
  <1>1. PICK q : q = Done(engine, t)
    OBVIOUS
  <1>2. EngineOK(q) /\ q.restartTimer \in {"off", "on", "late"}
    BY <1>1, DoneOK DEF EngineOK, Engines
  <1>3. PICK timer \in {"off", "on", "late"} :
          engine' = [q EXCEPT !.restarting = FALSE, !.restartTimer = timer]
    <2>1. CASE engine' = [q EXCEPT !.restarting = FALSE]
      <3>1. engine' = [q EXCEPT !.restarting = FALSE, !.restartTimer = q.restartTimer]
        BY <1>2, <2>1 DEF EngineOK, Engines
      <3> QED
        BY <1>2, <3>1
    <2>2. CASE engine' = [q EXCEPT !.restarting = FALSE,
                                   !.restartTimer = IF t.live THEN "on" ELSE "late"]
      BY <2>2
    <2> QED
      BY <1>1, <2>1, <2>2 DEF RestartSent, Become
  <1>4. /\ engine' \in Engines /\ engine'.tasks = q.tasks /\ engine'.leg = q.leg
        /\ engine'.consent = q.consent /\ engine'.stray = q.stray /\ engine'.phase = q.phase
        /\ engine'.mic = q.mic /\ engine'.offer = q.offer /\ engine'.meta = q.meta
    BY <1>2, <1>3 DEF EngineOK, Engines
  <1> QED
    BY <1>2, <1>4, SameOK

LEMMA OneMoreIs ==
  ASSUME NEW n \in 0..MaxReconnects
  PROVE  OneMore(n) \in 0..MaxReconnects
  BY CallsAssumption DEF OneMore

LEMMA TimerKeeps ==
  ASSUME EngineOK(engine), RingTimer \/ EndTimer \/ ByeTimer \/ RestartTimer
  PROVE  EngineOK(engine')
  <1>0. engine \in Engines
    BY DEF EngineOK
  <1>1. CASE RingTimer
    <2>1. PICK s : s = [engine EXCEPT !.ringTimer = FALSE, !.offer = FALSE]
      OBVIOUS
    <2>2. /\ s \in Engines /\ s.tasks = engine.tasks /\ s.leg = engine.leg
          /\ s.consent = engine.consent /\ s.stray = engine.stray /\ s.phase = engine.phase
          /\ s.mic = engine.mic /\ s.meta = engine.meta /\ ~s.offer
      BY <1>0, <2>1 DEF Engines
    <2>3. EngineOK(s)
      BY <2>2 DEF EngineOK, TaskOK, Meant, Quiet
    <2>4. engine' = s \/ engine' = EndCall(s, "ended")
      BY <1>1, <2>1 DEF RingTimer, Become
    <2> QED
      BY <2>2, <2>3, <2>4, EndCallOK
  <1>2. CASE EndTimer
    <2>1. engine.phase = "ended" /\ engine' = [engine EXCEPT !.phase = "idle"]
      BY <1>2 DEF EndTimer, Become
    <2>2. /\ engine' \in Engines /\ engine'.tasks = engine.tasks /\ engine'.leg = engine.leg
          /\ engine'.consent = engine.consent /\ engine'.stray = engine.stray
          /\ engine'.phase = "idle" /\ engine'.mic = engine.mic /\ engine'.offer = engine.offer
          /\ engine'.meta = engine.meta
      BY <1>0, <2>1 DEF Engines, Phases
    <2> QED
      BY <2>1, <2>2 DEF EngineOK, TaskOK, Meant, Quiet
  <1>3. CASE ByeTimer
    <2>1. engine.stray \in BOOLEAN
      BY <1>0 DEF Engines
    <2>2. PICK stray \in BOOLEAN : stray = (engine.stray \/ engine.phase \notin {"idle", "ended"})
      BY <2>1
    <2>3. PICK more \in BOOLEAN :
            engine' = [engine EXCEPT !.byeTimers = more, !.phase = "idle",
                                     !.stray = stray]
      BY <1>3, <2>2 DEF ByeTimer, Become
    <2>4. /\ engine' \in Engines /\ engine'.tasks = engine.tasks /\ engine'.leg = engine.leg
          /\ engine'.consent = engine.consent /\ engine'.stray = stray
          /\ engine'.phase = "idle" /\ engine'.mic = engine.mic /\ engine'.offer = engine.offer
          /\ engine'.meta = engine.meta
      BY <1>0, <2>3 DEF Engines, Phases
    <2>5. stray \/ (~engine.stray /\ engine.phase \in {"idle", "ended"})
      BY <2>1, <2>2
    <2>6. engine.stray => stray
      BY <2>2
    <2> QED
      BY <2>4, <2>5, <2>6 DEF EngineOK, TaskOK, Meant, Quiet
  <1>4. CASE RestartTimer
    <2>1. PICK s : s = [engine EXCEPT !.restartTimer = "off"]
      OBVIOUS
    <2>2. /\ s \in Engines /\ s.tasks = engine.tasks /\ s.leg = engine.leg
          /\ s.consent = engine.consent /\ s.stray = engine.stray /\ s.phase = engine.phase
          /\ s.mic = engine.mic /\ s.meta = engine.meta /\ s.offer = engine.offer
      BY <1>0, <2>1 DEF Engines
    <2>3. EngineOK(s)
      BY <2>2, SameOK
    <2>4. CASE engine' = s \/ engine' = EndCall(s, "ended")
      BY <2>2, <2>3, <2>4, EndCallOK
    <2>5. CASE /\ s.leg # NoLeg
               /\ engine' = Restart([s EXCEPT !.reconnects = OneMore(@),
                                              !.stray = @ \/ engine.restartTimer = "late"])
      <3>1. PICK stray \in BOOLEAN : stray = (s.stray \/ engine.restartTimer = "late")
        BY <2>2 DEF Engines
      <3>2. PICK r : r = [s EXCEPT !.reconnects = OneMore(s.reconnects), !.stray = stray]
        OBVIOUS
      <3>3. OneMore(s.reconnects) \in 0..MaxReconnects
        BY <2>2, OneMoreIs DEF Engines
      <3>4. /\ r \in Engines /\ r.tasks = s.tasks /\ r.leg = s.leg
            /\ r.consent = s.consent /\ r.stray = stray /\ r.phase = s.phase
        BY <2>2, <3>2, <3>3 DEF Engines
      <3>5. Meant(r) /\ (r.phase \in {"idle", "ended"} => r.stray)
        BY <2>3, <2>5, <3>1, <3>4, HasLeg DEF Meant
      <3>6. EngineOK(r)
        BY <2>3, <3>4, <3>5, BusyOK
      <3>7. engine' = Restart(r)
        BY <2>5, <3>1, <3>2
      <3> QED
        BY <2>5, <3>4, <3>6, <3>7, RestartOK
    <2> QED
      BY <1>4, <2>1, <2>4, <2>5 DEF RestartTimer, Become
  <1> QED
    BY <1>1, <1>2, <1>3, <1>4

LEMMA ConnectionKeeps ==
  ASSUME EngineOK(engine), Connect \/ \E conn \in {"disconnected", "failed"} : Glitch(conn)
  PROVE  EngineOK(engine')
  <1>0. engine \in Engines
    BY DEF EngineOK
  <1>1. engine.leg # NoLeg /\ engine.leg \in Legs
    BY HasLeg DEF Connect, Glitch
  <1>2. CASE Connect
    <2>1. PICK leg \in Legs : leg = [engine.leg EXCEPT !.conn = "connected"]
      BY <1>1, LegIs
    <2>2. engine' = [Up(engine) EXCEPT !.leg.conn = "connected", !.restartTimer = "off"]
      BY <1>2 DEF Connect, Become
    <2>3. engine' = [engine EXCEPT !.phase = "active", !.leg = leg, !.restartTimer = "off"]
      BY <1>0, <2>1, <2>2 DEF Up, Engines
    <2>4. /\ engine' \in Engines /\ engine'.leg = leg /\ engine'.tasks = engine.tasks
          /\ engine'.phase = "active" /\ engine'.consent = engine.consent
          /\ engine'.stray = engine.stray
      BY <1>0, <2>1, <2>3 DEF Engines, Phases
    <2> QED
      BY <1>1, <2>1, <2>4, UpLegOK
  <1>3. ASSUME NEW conn \in {"disconnected", "failed"}, Glitch(conn)
        PROVE  EngineOK(engine')
    <2>1. PICK leg \in Legs : leg = [engine.leg EXCEPT !.conn = conn]
      BY <1>1, LegIs
    <2>2. PICK s : s = [engine EXCEPT !.phase = "reconnecting", !.leg.conn = conn,
                                      !.reconnects = OneMore(@)]
      OBVIOUS
    <2>3. s = [engine EXCEPT !.phase = "reconnecting", !.leg = leg,
                             !.reconnects = OneMore(engine.reconnects)]
      BY <1>0, <2>1, <2>2 DEF Engines
    <2>4. OneMore(engine.reconnects) \in 0..MaxReconnects
      BY <1>0, OneMoreIs DEF Engines
    <2>5. /\ s \in Engines /\ s.leg = leg /\ s.tasks = engine.tasks
          /\ s.phase = "reconnecting" /\ s.consent = engine.consent
          /\ s.stray = engine.stray
      BY <1>0, <2>1, <2>3, <2>4 DEF Engines, Phases
    <2>6. EngineOK(s) /\ s.leg # NoLeg
      BY <1>1, <2>1, <2>5, UpLegOK, LegKinds
    <2>7. engine' = Restart(s) \/ engine' = EndCall(s, "ended")
      BY <1>3, <2>2 DEF Glitch, Become
    <2> QED
      BY <2>5, <2>6, <2>7, RestartOK, EndCallOK
  <1> QED
    BY <1>2, <1>3

-----------------------------------------------------------------------------
LEMMA CallsInvInit == CallsInit => CallsInv
  <1> SUFFICES ASSUME CallsInit PROVE CallsInv
    OBVIOUS
  <1>1. engine \in Engines
    <2>1. 0 \in 0..MaxReconnects
      BY CallsAssumption
    <2> QED
      BY <2>1 DEF CallsInit, Engines, Phases
  <1>2. /\ engine.tasks = {} /\ engine.leg = NoLeg /\ engine.phase = "idle"
        /\ ~engine.mic /\ ~engine.offer /\ engine.meta = None
    BY DEF CallsInit
  <1> QED
    BY <1>1, <1>2 DEF CallsInit, CallsInv, EngineOK, Quiet

LEMMA CallsInvNext == CallsInv /\ [CallsNext]_callVars => CallsInv'
  <1> SUFFICES ASSUME CallsInv, [CallsNext]_callVars PROVE CallsInv'
    OBVIOUS
  <1>1. EngineOK(engine)
    BY DEF CallsInv
  <1>2. CASE StartCall \/ OutTimer
    <2>1. EngineOK(engine')
      BY <1>1, <1>2, PlacingKeeps
    <2> QED
      BY <1>2, <2>1 DEF CallsInv, StartCall, OutTimer, Become, BecomeNew
  <1>3. CASE Accept \/ HangUp
    <2>1. EngineOK(engine')
      BY <1>1, <1>3, AcceptingKeeps
    <2> QED
      BY <1>3, <2>1 DEF CallsInv, Accept, HangUp, Become
  <1>4. CASE Prompted \/ Continue
    <2>1. PICK t \in engine.tasks :
            \/ DialMedia(t) \/ DialOffer(t) \/ DialDone(t)
            \/ AcceptMedia(t) \/ AcceptAnswer(t) \/ AcceptDone(t)
            \/ GlareAnswer(t) \/ GlareDone(t) \/ JoinMedia(t) \/ RestartSent(t)
      BY <1>4 DEF Prompted, Continue
    <2>2. EngineOK(engine')
      BY <1>1, <2>1, PlacingKeeps, AcceptingKeeps, SignalKeeps, RestartSentKeeps
    <2>3. UNCHANGED polite
      BY <2>1 DEF DialMedia, DialOffer, DialDone, AcceptMedia, AcceptAnswer, AcceptFails,
                  AcceptDone, GlareAnswer, GlareDone, JoinMedia, RestartSent, Become
    <2> QED
      BY <2>2, <2>3 DEF CallsInv
  <1>5. CASE RingTimer \/ EndTimer \/ ByeTimer \/ RestartTimer
    <2>1. EngineOK(engine')
      BY <1>1, <1>5, TimerKeeps
    <2>2. UNCHANGED polite
      BY <1>5 DEF RingTimer, EndTimer, ByeTimer, RestartTimer, Become
    <2> QED
      BY <2>1, <2>2 DEF CallsInv
  <1>6. CASE Receive
    <2>1. EngineOK(engine')
      BY <1>1, <1>6, SignalKeeps
    <2>2. UNCHANGED polite
      BY <1>6 DEF Receive, TakeOffer, TakeRestart, TakeRinging, TakeAnswer, TakeBye,
                  Become, BecomeNew
    <2> QED
      BY <2>1, <2>2 DEF CallsInv
  <1>7. CASE Connect \/ \E conn \in {"disconnected", "failed"} : Glitch(conn)
    <2>1. EngineOK(engine')
      BY <1>1, <1>7, ConnectionKeeps
    <2>2. UNCHANGED polite
      BY <1>7 DEF Connect, Glitch, Become
    <2> QED
      BY <2>1, <2>2 DEF CallsInv
  <1>8. CASE UNCHANGED callVars
    BY <1>8 DEF CallsInv, callVars
  <1> QED
    BY <1>2, <1>3, <1>4, <1>5, <1>6, <1>7, <1>8 DEF CallsNext, Timer

LEMMA CallsKept == CallsSpec => []CallsInv
  BY CallsInvInit, CallsInvNext, PTL DEF CallsSpec

\* Type correctness: no handler of the engine (startCall, acceptCall,
\* onCallSignal, the timers) leaves a state that is none.
THEOREM CallsTypeCorrect == CallsSpec => []CallsTypeOK
  <1>1. CallsInv => CallsTypeOK
    BY DEF CallsInv, EngineOK, CallsTypeOK
  <1> QED
    BY <1>1, CallsKept, PTL

\* Without a call there is no connection, no open microphone, no offer and no
\* call waiting for its log entry (cleanup, endCall), unless a task or timer
\* of an ended call went on.
THEOREM IdleQuiet == CallsSpec => []IdleIsQuiet
  <1>1. CallsInv => IdleIsQuiet
    BY DEF CallsInv, EngineOK, Quiet, IdleIsQuiet
  <1> QED
    BY <1>1, CallsKept, PTL

\* A device has taken the other side's description only if its user placed or
\* accepted a call that was not ended since (acceptCall; the glare, restart and
\* join branches of onCallSignal), with the same exception: a task that went on
\* after a hang-up, among them one that waited for a glare's answer to be sent.
THEOREM ConsentFirst == CallsSpec => []ConnectedByConsent
  <1>1. CallsInv => ConnectedByConsent
    BY DEF CallsInv, EngineOK, Meant, ConnectedByConsent
  <1> QED
    BY <1>1, CallsKept, PTL

=============================================================================

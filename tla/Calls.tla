------------------------------- MODULE Calls ---------------------------------
(***************************************************************************)
(* One-to-one calls: the phases, timers, offers and answers of the call    *)
(* engine (lib/call/engine.ts) of one device, with one other device as its *)
(* peer.                                                                   *)
(*                                                                         *)
(* The device is one thread; a task is a call of startCall, acceptCall,    *)
(* onCallSignal or restartIce that waits at an await - for the user's leave *)
(* to use the microphone, or for sendMesh - and it goes on whatever        *)
(* happened meanwhile.  Awaits that only talk to the local connection are  *)
(* no steps of their own: on a connection that is closed they never come   *)
(* back.  The peer is open: it is another engine behind a network that     *)
(* loses, delays and repeats, so that any signal may come at any time.     *)
(* Connections (WebRTC) and the camera belong to the browser.  Conferences *)
(* are left out.                                                           *)
(***************************************************************************)
EXTENDS Naturals, FiniteSets

CONSTANTS
  MaxReconnects,  \* MAX_RECONNECTS (3 in the code)
  MaxCalls,       \* bound: calls, placed or coming in
  MaxTasks,       \* bound: tasks that wait before the user or the peer starts another
  SendRejects     \* may sendMesh reject, as its storage or encryption fails?

ASSUME CallsAssumption ==
  /\ MaxReconnects \in Nat /\ MaxCalls \in Nat /\ MaxTasks \in Nat
  /\ SendRejects \in BOOLEAN

None == "none"
Phases == {"idle", "ringing", "outgoing", "active", "reconnecting", "ended"}

\* signalingState, whether there is a remoteDescription, connectionState
\* ("new" also when it is connecting).
NoLeg == [sig |-> "none"]
Legs == [sig : {"stable", "local", "remote"}, remote : BOOLEAN,
         conn : {"new", "connected", "disconnected", "failed"}]
NewLeg == [sig |-> "stable", remote |-> FALSE, conn |-> "new"]

\* A task: does its attempt still go on, is its leg still the current one?
\* (Tasks that are alike in all this count as one.)
Tasks == [at : {"dial-media", "dial-offer", "dial-sent", "accept-media",
                "accept-answer", "accept-sent", "glare-answer", "glare-sent",
                "join-media", "restart-sent"},
          live : BOOLEAN, own : BOOLEAN]

VARIABLES
  engine,   \* the variables of the engine, a record
  polite,   \* leg.polite, peerId > nodeSelf()
  calls     \* the number of calls so far

callVars == <<engine, polite, calls>>

Engines ==
  [phase : Phases,
   leg : Legs \cup {NoLeg},        \* legs, which holds the peer's only
   mic : BOOLEAN,                  \* localStream
   offer : BOOLEAN,                \* pendingOffers has the peer
   meta : {None, "incoming", "outgoing"},  \* callMeta
   remoteRinging : BOOLEAN,
   reconnects : 0..MaxReconnects,  \* beyond MAX_RECONNECTS it makes no difference
   \* outgoingTimer: UNREACHABLE_MS, then the rest; "refused": off, cleared for
   \* an answer that does not fit the offer that is open
   outTimer : {"off", "reach", "answer", "refused"},
   ringTimer : BOOLEAN,            \* incomingTimers
   restartTimer : {"off", "on", "late"},   \* reconnectTimers; "late": of a call that had ended
   byeTimers : BOOLEAN,            \* timers of a bye, which nobody clears
   restarting : BOOLEAN,           \* restarting has the peer
   tasks : SUBSET Tasks,
   \* history
   consent : BOOLEAN,              \* the user placed or accepted the call that goes on
   stray : BOOLEAN]                \* a finished call's task, or a bye's timer, went on in this one

CallsInit ==
  /\ polite \in BOOLEAN /\ calls = 0
  /\ engine =
       [phase |-> "idle", leg |-> NoLeg, mic |-> FALSE, offer |-> FALSE,
        meta |-> None, remoteRinging |-> FALSE, reconnects |-> 0,
        outTimer |-> "off", ringTimer |-> FALSE,
        restartTimer |-> "off", byeTimers |-> FALSE,
        restarting |-> FALSE, tasks |-> {},
        consent |-> FALSE, stray |-> FALSE]

-----------------------------------------------------------------------------
(***************************************************************************)
(* What the handlers share, on a state s of the engine.                    *)
(***************************************************************************)
Become(s) == engine' = s /\ UNCHANGED <<polite, calls>>
BecomeNew(s) == engine' = s /\ calls < MaxCalls /\ calls' = calls + 1 /\ UNCHANGED polite

\* Mutant: the local stream stays open.
CleanMicStays(s) ==
  [s EXCEPT
     !.meta = None, !.outTimer = "off", !.ringTimer = FALSE,
     !.restartTimer = "off", !.offer = FALSE, !.leg = NoLeg,
     !.restarting = FALSE, !.consent = FALSE, !.stray = FALSE,
     !.tasks = {[t EXCEPT !.live = FALSE, !.own = FALSE] : t \in s.tasks}]

\* cleanup(), finalizeCallLog() with it.  The tasks are not told.
Clean(s) ==
  [s EXCEPT
     !.meta = None, !.outTimer = "off", !.ringTimer = FALSE,
     !.restartTimer = "off", !.offer = FALSE, !.leg = NoLeg, !.mic = FALSE,
     !.restarting = FALSE, !.consent = FALSE, !.stray = FALSE,
     !.tasks = {[t EXCEPT !.live = FALSE, !.own = FALSE] : t \in s.tasks}]

\* endCall, without a reason: "idle", with one: "ended".
EndCall(s, phase) ==
  [Clean(s) EXCEPT !.phase = phase, !.remoteRinging = FALSE]

\* createLeg
WithLeg(s) == IF s.leg = NoLeg THEN [s EXCEPT !.leg = NewLeg] ELSE s

Up(s) == [s EXCEPT !.phase = "active"]

\* Both descriptions are applied: a connection that is down tries again.
Agreed(leg) ==
  [leg EXCEPT !.sig = "stable", !.remote = TRUE,
              !.conn = IF @ = "connected" THEN @ ELSE "new"]

OneMore(n) == IF n < MaxReconnects THEN n + 1 ELSE n

\* A task that has just taken the leg that is current, or made it.
Owning == {"dial-offer", "accept-answer"}

\* Bound: the user and the peer start another task only while few wait.
Room == Cardinality(engine.tasks) < MaxTasks

Task(at) == [at |-> at, live |-> TRUE, own |-> TRUE]
Done(s, t) == [s EXCEPT !.tasks = @ \ {t}]
Onward(s, t, at) ==
  [s EXCEPT !.tasks = (@ \ {t}) \cup {[t EXCEPT !.at = at, !.own = @ \/ at \in Owning]}]

-----------------------------------------------------------------------------
(***************************************************************************)
(* startCall, dial.                                                        *)
(***************************************************************************)
StartCall ==
  /\ engine.phase \in {"idle", "ended"} /\ Room
  /\ BecomeNew([engine EXCEPT
       !.phase = "outgoing",
       !.remoteRinging = FALSE, !.reconnects = 0, !.meta = "outgoing",
       !.tasks = @ \cup {Task("dial-media")},
       !.consent = TRUE])

\* ensureMedia has answered, with or without a microphone; createLeg.
DialMedia(t) ==
  /\ t.at = "dial-media"
  /\ \E mic \in {engine.mic, TRUE} :
       LET s == WithLeg([engine EXCEPT !.mic = mic, !.stray = @ \/ ~t.live])
       IN  Become(Onward(s, t, "dial-offer"))

\* armTimers
Armed(s) == [s EXCEPT !.outTimer = "reach"]

\* setLocalDescription, sendInvite.  On a closed connection, or with an
\* offer of the peer in hand, the catch of startCall runs; an operation that
\* was under way at the close never comes back.
DialOffer(t) ==
  /\ t.at = "dial-offer"
  /\ IF t.own /\ engine.leg.sig # "remote"
     THEN Become(Onward([engine EXCEPT !.leg.sig = "local"], t, "dial-sent"))
     ELSE \/ Become(Armed(Done(engine, t)))
          \/ ~t.own /\ Become(Done(engine, t))

\* Mutant: the timers are not armed.
DialDoneUnarmed(t) == t.at = "dial-sent" /\ Become(Done(engine, t))

\* startDialRetry, armTimers.  The retries send the offer again and change
\* nothing here; every signal may come more than once anyway.
DialDone(t) == t.at = "dial-sent" /\ Become(Armed(Done(engine, t)))

\* outgoingTimer
OutTimer ==
  /\ engine.outTimer \in {"reach", "answer"}
  /\ Become(
       CASE engine.phase # "outgoing" -> [engine EXCEPT !.outTimer = "off"]
         [] engine.phase = "outgoing" /\ engine.outTimer = "reach"
              /\ engine.remoteRinging -> [engine EXCEPT !.outTimer = "answer"]
         [] OTHER -> EndCall(engine, "ended"))

-----------------------------------------------------------------------------
(***************************************************************************)
(* acceptCall, and the red button.                                         *)
(***************************************************************************)
Accepting == \E t \in engine.tasks :
  t.live /\ t.at \in {"accept-media", "accept-answer", "accept-sent"}

\* Bound: the user accepts once.
Accept ==
  /\ engine.phase = "ringing" /\ engine.offer /\ ~Accepting /\ Room
  /\ Become([engine EXCEPT !.ringTimer = FALSE, !.consent = TRUE,
                           !.tasks = @ \cup {Task("accept-media")}])

\* ensureMedia; createLeg; setRemoteDescription(offer).
AcceptMedia(t) ==
  /\ t.at = "accept-media"
  /\ \E mic \in {engine.mic, TRUE} :
       LET s == WithLeg([engine EXCEPT !.mic = mic, !.stray = @ \/ ~t.live])
       IN  Become(Onward([s EXCEPT !.leg.sig = "remote", !.leg.remote = TRUE], t, "accept-answer"))

\* The catch for this offer closes the leg there is, the one outside ends
\* the call.
AcceptFails(t) == Become(EndCall([Done(engine, t) EXCEPT !.leg = NoLeg], "ended"))

\* createAnswer, setLocalDescription, sendMesh(answer).
AcceptAnswer(t) ==
  /\ t.at = "accept-answer"
  /\ IF t.own /\ engine.leg.sig = "remote"
     THEN Become(Onward([engine EXCEPT !.leg.sig = "stable"], t, "accept-sent"))
     ELSE AcceptFails(t) \/ (~t.own /\ Become(Done(engine, t)))

\* sendMesh has returned true: the call is up.  Nothing checks whether it is
\* still the call that was accepted.  It has returned false: no call.
AcceptDone(t) ==
  /\ t.at = "accept-sent"
  /\ \/ Become([Up(Done(engine, t)) EXCEPT !.offer = FALSE, !.stray = @ \/ ~t.live])
     \/ AcceptFails(t)

\* endCall() by the user.
HangUp ==
  /\ engine.phase \in {"ringing", "outgoing", "active", "reconnecting"}
  /\ Become(EndCall(engine, "idle"))

-----------------------------------------------------------------------------
(***************************************************************************)
(* onCallSignal.                                                           *)
(***************************************************************************)

\* A restart offer for the leg there is; rollback by the polite device.
TakeRestart ==
  /\ engine.leg # NoLeg
  /\ engine.leg.sig = "stable" \/ polite
  /\ Become([engine EXCEPT !.leg = Agreed(@)])

\* Both called: the polite device rolls its offer back and answers.  There
\* must be an offer to roll back.
TakeGlare(s) ==
  IF s.leg.sig = "stable" THEN EndCall(s, "ended")
  ELSE [s EXCEPT !.leg.sig = "remote", !.leg.remote = TRUE,
                 !.tasks = @ \cup {Task("glare-answer")}]

\* Mutant: an ended call counts as one that goes on.
JoinsWhenEnded(s) ==
  /\ s.phase \in {"active", "ended"}
  /\ s.leg # NoLeg => s.leg.sig = "stable" /\ ~s.leg.remote

\* The phase says that a call goes on, and its leg is not set up: the offer
\* is taken for that of another participant, and nobody is asked.
JoinsCall(s) ==
  /\ s.phase = "active"
  /\ s.leg # NoLeg => s.leg.sig = "stable" /\ ~s.leg.remote

TakeRing(s) ==
  [s EXCEPT !.offer = TRUE, !.phase = "ringing",
            !.meta = IF @ = None THEN "incoming" ELSE @, !.ringTimer = TRUE]

\* An offer; a restart offer that meets no leg is one, too.  One that is late
\* (MISSED_AFTER_MS) or a repeat (handledCallIds) changes nothing: the next
\* one may not be.
TakeOffer ==
  LET s == engine
      glare == s.phase = "outgoing" /\ s.leg # NoLeg
  IN
  /\ \/ glare /\ polite /\ Room /\ Become(TakeGlare(s))
     \/ JoinsCall(s) /\ Room /\ Become([s EXCEPT !.tasks = @ \cup {Task("join-media")}])
     \/ /\ s.phase \in {"idle", "ended"} /\ ~JoinsCall(s)
        /\ BecomeNew(TakeRing(s))
     \/ s.phase = "ringing" /\ Become(TakeRing(s))
     \/ \* our offer stands, the leg is set up already, or "busy"
        /\ \/ glare /\ ~polite
           \/ s.phase = "active" /\ ~JoinsCall(s)
           \/ s.phase \in {"outgoing", "reconnecting"} /\ ~glare
        /\ Become(s)

\* The glare's answer is ready.  When the connection was closed or taken
\* over meanwhile, the call ends.
GlareAnswer(t) ==
  /\ t.at = "glare-answer"
  /\ IF t.own /\ engine.leg.sig = "remote"
     THEN Become(Onward([engine EXCEPT !.leg.sig = "stable"], t, "glare-sent"))
     ELSE \/ Become(EndCall(Done(engine, t), "ended"))
          \/ ~t.own /\ Become(Done(engine, t))

\* sendMesh has returned, whatever it returned: the call is up.  Nothing
\* checks whether it still goes on.
GlareDone(t) ==
  /\ t.at = "glare-sent"
  /\ \/ Become([Up(Done(engine, t)) EXCEPT !.outTimer = "off", !.stray = @ \/ ~t.live])
     \/ SendRejects /\ Become(EndCall(Done(engine, t), "ended"))

\* ensureMedia has answered the participant's offer; createLeg, and the
\* answer.  Nothing checks the phase again.
JoinMedia(t) ==
  /\ t.at = "join-media"
  /\ \E mic \in {engine.mic, TRUE} :
       LET s == WithLeg([engine EXCEPT !.mic = mic, !.stray = @ \/ ~t.live])
       IN  Become(Done([s EXCEPT !.leg = Agreed(@)], t))

\* ring
TakeRinging ==
  /\ engine.phase = "outgoing"
  /\ Become([engine EXCEPT !.remoteRinging = TRUE])

\* answer.  The timers go first; then setRemoteDescription, which rejects
\* unless an offer of this device is open and the answer is one to it: it may
\* be of an earlier call, up to CONTROL_FRESH_MS old.
TakeAnswer ==
  /\ engine.leg # NoLeg
  /\ \/ /\ engine.leg.sig = "local"
        /\ \/ Become([Up(engine) EXCEPT !.outTimer = "off", !.remoteRinging = FALSE,
                                         !.leg = Agreed(@)])
           \/ Become([engine EXCEPT !.outTimer = IF @ = "off" THEN @ ELSE "refused"])
     \/ /\ engine.leg.sig # "local"
        /\ Become([engine EXCEPT !.outTimer = IF @ = "refused" THEN @ ELSE "off"])

\* Mutant: busy becomes the phase.
TakeByeBusy ==
  \E phase \in {"ended", "busy"} :
    Become([Clean(engine) EXCEPT !.phase = phase, !.byeTimers = TRUE])

\* bye and busy, of whatever call they are.
TakeBye == Become([Clean(engine) EXCEPT !.phase = "ended", !.byeTimers = TRUE])

-----------------------------------------------------------------------------
(***************************************************************************)
(* Timers, and the connection.                                             *)
(***************************************************************************)

\* incomingTimers
RingTimer ==
  LET s == [engine EXCEPT !.ringTimer = FALSE, !.offer = FALSE] IN
  /\ engine.ringTimer
  /\ Become(IF s.phase = "ringing" THEN EndCall(s, "ended") ELSE s)

\* A timer of endCall, which looks at the phase.  (So short a call that the
\* timer of an earlier one ends its last screen is taken in.)
EndTimer ==
  /\ engine.phase = "ended"
  /\ Become([engine EXCEPT !.phase = "idle"])

\* A timer of a bye does not.
ByeTimer ==
  /\ engine.byeTimers
  /\ \E more \in BOOLEAN :
       Become([engine EXCEPT !.byeTimers = more, !.phase = "idle",
                             !.stray = @ \/ engine.phase \notin {"idle", "ended"}])

\* A connection is tried when both descriptions are there; one that is
\* disconnected may come back by itself.
Tried == \/ engine.leg.sig = "stable" /\ engine.leg.remote /\ engine.leg.conn = "new"
         \/ engine.leg.conn = "disconnected"

\* "connected"
Connect ==
  /\ engine.leg # NoLeg /\ Tried
  /\ Become([Up(engine) EXCEPT !.leg.conn = "connected", !.restartTimer = "off"])

\* restartIce: nothing unless the leg is stable, and no other one under way.
Restart(s) ==
  IF s.leg.sig = "stable" /\ ~s.restarting
  THEN [s EXCEPT !.leg.sig = "local", !.restarting = TRUE,
                 !.tasks = @ \cup {Task("restart-sent")}]
  ELSE s

\* sendMesh has returned: the timer is set, also when the call was ended
\* meanwhile.  It has rejected: there is an error to read, and no timer.
RestartSent(t) ==
  /\ t.at = "restart-sent"
  /\ \/ Become([Done(engine, t) EXCEPT !.restarting = FALSE,
                                       !.restartTimer = IF t.live THEN "on" ELSE "late"])
     \/ SendRejects /\ Become([Done(engine, t) EXCEPT !.restarting = FALSE])

\* "disconnected" or "failed"
Glitch(conn) ==
  /\ engine.leg # NoLeg
  /\ engine.leg.conn = "connected" \/ (conn = "failed" /\ Tried)
  /\ LET s == [engine EXCEPT !.phase = "reconnecting", !.leg.conn = conn,
                             !.reconnects = OneMore(@)]
     IN  Become(IF s.reconnects < MaxReconnects THEN Restart(s) ELSE EndCall(s, "ended"))

\* reconnectTimers.  A timer that is late acts on the call that goes on now.
RestartTimer ==
  LET s == [engine EXCEPT !.restartTimer = "off"] IN
  /\ engine.restartTimer # "off"
  /\ Become(
       CASE s.leg = NoLeg \/ s.leg.conn = "connected" -> s
         [] s.leg # NoLeg /\ s.leg.conn # "connected"
              /\ s.reconnects >= MaxReconnects -> EndCall(s, "ended")
         [] OTHER -> Restart([s EXCEPT !.reconnects = OneMore(@),
                                       !.stray = @ \/ engine.restartTimer = "late"]))

-----------------------------------------------------------------------------
\* A task goes on: the user has answered the prompt for the microphone, or
\* the device's own connection or sending has come back.
Prompted == \E t \in engine.tasks : DialMedia(t) \/ AcceptMedia(t) \/ JoinMedia(t)

Continue == \E t \in engine.tasks :
  \/ DialOffer(t) \/ DialDone(t) \/ AcceptAnswer(t) \/ AcceptDone(t)
  \/ GlareAnswer(t) \/ GlareDone(t) \/ RestartSent(t)

Timer == OutTimer \/ RingTimer \/ EndTimer \/ ByeTimer \/ RestartTimer

Receive ==
  \/ TakeOffer \/ TakeRestart \/ TakeRinging \/ TakeAnswer \/ TakeBye

CallsNext ==
  \/ StartCall \/ Accept \/ HangUp
  \/ Prompted \/ Continue \/ Timer \/ Receive
  \/ Connect \/ \E conn \in {"disconnected", "failed"} : Glitch(conn)

(***************************************************************************)
(* Fairness: timers fire; what the device awaits of itself - connection,   *)
(* its own sending - comes back; and a connection that is tried comes up   *)
(* or is reported as failed.  No signal has to arrive and no user has to   *)
(* act: a prompt for the microphone may stay unanswered.  (Every repeat of *)
(* an offer sets the timer of the ringing anew; the peer, an engine too,   *)
(* stops repeating it when its own timer ends its call.)                   *)
(***************************************************************************)
Settle == engine.leg # NoLeg /\ Tried /\ (Connect \/ Glitch("failed"))

CallsSpec ==
  /\ CallsInit /\ [][CallsNext]_callVars
  /\ WF_callVars(Continue) /\ WF_callVars(Settle)
  /\ WF_callVars(OutTimer) /\ WF_callVars(RingTimer) /\ WF_callVars(RestartTimer)

-----------------------------------------------------------------------------
(***************************************************************************)
(* Properties.                                                             *)
(***************************************************************************)

\* Type invariant.
CallsTypeOK ==
  /\ polite \in BOOLEAN
  /\ engine \in Engines

\* A device without a call has none: no connection, no open microphone, no
\* offer it could still accept and no call that waits for its log entry.
\* The exception is named: a task of a call that was ended went on, or the
\* timer of a bye fired into the next call.
IdleIsQuiet ==
  engine.phase \in {"idle", "ended"} /\ ~engine.stray =>
    engine.leg = NoLeg /\ ~engine.mic /\ ~engine.offer /\ engine.meta = None

\* Nobody is put through without a wish of their own: a device that has
\* taken the other side's description, so that its microphone can be heard,
\* has placed or accepted a call that was not ended since, whatever offers
\* are repeated, restart or cross its own.  The exception is named: a task
\* of a call that was ended went on.  One that waits for the answer to be sent
\* (acceptCall, a glare) declares the ended call active, and the peer's next
\* offer joins it unasked; one that waits for the microphone (acceptCall,
\* startCall, a join) makes a leg.
ConnectedByConsent ==
  engine.leg # NoLeg /\ engine.leg.remote => engine.consent \/ engine.stray

\* The microphone's prompt is open.
AtPrompt == \E t \in engine.tasks : t.live /\ t.at \in {"dial-media", "accept-media"}

Waiting == engine.phase \in {"outgoing", "ringing"}

\* No device calls or rings for ever, whichever signals are lost, late or of
\* another call.  The exceptions are named: the one above; the prompt for the
\* microphone, before which no timer of a dialled call runs and for which that
\* of a ringing one is switched off; and an answer that does not fit, which
\* switches the running timer off before it is looked at.
WaitingEnds ==
  []<>(~Waiting \/ engine.stray \/ AtPrompt \/ engine.outTimer = "refused")

\* What the header says (engine.ts:10-12): when the connection goes down, ICE
\* is restarted, and if that does not help the call gives way.
ReconnectingEnds ==
  engine.phase = "reconnecting" ~> engine.phase # "reconnecting" \/ engine.stray

=============================================================================

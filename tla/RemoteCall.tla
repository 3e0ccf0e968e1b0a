----------------------------- MODULE RemoteCall ------------------------------
(***************************************************************************)
(* What the kernel worker bridge promises its callers: a call that was     *)
(* issued ends, either with the answer to its own request or with none, in *)
(* which case the caller computes the result itself.  A call may also be   *)
(* abandoned, by whoever shuts the bridge down.                            *)
(***************************************************************************)
CONSTANT Calls

VARIABLES state,   \* "unused", "waiting", "answered", "fallback" or "abandoned"
          got      \* the request whose answer a call was given

CallsInit == /\ state = [c \in Calls |-> "unused"]
             /\ got = [c \in Calls |-> 0]

Issue(c) == /\ state[c] = "unused"
            /\ state' = [state EXCEPT ![c] = "waiting"]
            /\ UNCHANGED got

Answer(c) == /\ state[c] = "waiting"
             /\ state' = [state EXCEPT ![c] = "answered"]
             /\ got' = [got EXCEPT ![c] = c]

GiveUp(c) == /\ state[c] = "waiting"
             /\ state' = [state EXCEPT ![c] = "fallback"]
             /\ UNCHANGED got

\* All the calls of a bridge that is shut down, at once.
Abandon == /\ \E c \in Calls : state[c] = "waiting"
           /\ state' = [c \in Calls |-> IF state[c] = "waiting" THEN "abandoned"
                                        ELSE state[c]]
           /\ UNCHANGED got

End(c) == Answer(c) \/ GiveUp(c)

CallsNext == Abandon \/ \E c \in Calls : Issue(c) \/ End(c)

CallsSafety == CallsInit /\ [][CallsNext]_<<state, got>>

CallsSpec == CallsSafety /\ \A c \in Calls : WF_<<state, got>>(End(c))

=============================================================================

------------------------------ MODULE Courier -------------------------------
(***************************************************************************)
(* What the off-grid queue promises a user: a message that was accepted is *)
(* delivered in the end, once, and nothing else is.                        *)
(***************************************************************************)
CONSTANT Msg

VARIABLES accepted, delivered

CourierInit == accepted = {} /\ delivered = {}

Accept(m) ==
  /\ m \notin accepted
  /\ accepted' = accepted \cup {m}
  /\ UNCHANGED delivered

Deliver(m) ==
  /\ m \in accepted \ delivered
  /\ delivered' = delivered \cup {m}
  /\ UNCHANGED accepted

CourierNext == \E m \in Msg : Accept(m) \/ Deliver(m)

CourierSafety == CourierInit /\ [][CourierNext]_<<accepted, delivered>>

CourierSpec ==
  /\ CourierSafety
  /\ \A m \in Msg : WF_<<accepted, delivered>>(Deliver(m))

=============================================================================

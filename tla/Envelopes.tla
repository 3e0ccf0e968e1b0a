------------------------------ MODULE Envelopes ------------------------------
(***************************************************************************)
(* What travels between two devices: chat messages, and the envelopes      *)
(* (mesh/relay packets) that carry them.  A message may be sent again in a *)
(* new envelope; an envelope has one pktId and carries one message.        *)
(***************************************************************************)
CONSTANTS
  Msg,          \* chat messages (payload.id)
  Pkt, NoPkt,   \* envelopes, and the absence of one
  MsgOf         \* the message an envelope carries: [Pkt -> Msg]

ASSUME EnvelopeAssumption ==
  /\ NoPkt \notin Pkt
  /\ MsgOf \in [Pkt -> Msg]

=============================================================================

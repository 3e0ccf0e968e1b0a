---------------------------- MODULE MCRelayMailbox --------------------------
(* RelayMailbox for TLC: two envelopes, each with a message of its own.     *)
EXTENDS RelayMailbox, TLC

CONSTANTS p1, p2, m1, m2

MCPkt == {p1, p2}
MCMsg == {m1, m2}
MCMsgOf == (p1 :> m1) @@ (p2 :> m2)
=============================================================================

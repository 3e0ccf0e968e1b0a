------------------------------ MODULE MCOffGrid -----------------------------
(* OffGrid for TLC: one message and two envelopes to carry it.              *)
EXTENDS OffGrid, TLC

CONSTANTS p1, p2, m1

MCPkt == {p1, p2}
MCMsg == {m1}
MCMsgOf == (p1 :> m1) @@ (p2 :> m1)
=============================================================================

------------------------------ MODULE MCSender ------------------------------
(* The sender of OffGrid for TLC: two messages, and an envelope of one of   *)
(* them; no send of the other ever gets through.                            *)
EXTENDS OffGrid, TLC

CONSTANTS p1, m1, m2

MCPkt == {p1}
MCMsg == {m1, m2}
MCMsgOf == p1 :> m1
Symmetric == Permutations(Flusher)
=============================================================================

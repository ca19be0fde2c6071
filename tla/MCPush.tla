------------------------------- MODULE MCPush -----------------------------
(* Push for TLC: one application and one pairing, two pushes at a time.    *)
EXTENDS Push

CONSTANTS d1, f1, e1, k1, t1, t2
=============================================================================

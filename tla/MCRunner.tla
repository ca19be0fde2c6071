------------------------------ MODULE MCRunner -------------------------------
(* One runner, whose channels are small enough to fill up.                 *)
EXTENDS Runner
=============================================================================

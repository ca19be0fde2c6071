----------------------------- MODULE MCSessions ------------------------------
(* One session, in a worktree or not, with a runner for a restart.         *)
EXTENDS Sessions, TLC

CONSTANTS s1, p1, p2, c1, w

PidSymmetry == Permutations(Pids)
=============================================================================

----------------------------- MODULE MCRelayCore -----------------------------
(* A relay shared by two pairings, with room for one registration.         *)
EXTENDS RelayCore

CONSTANTS d1, d2, t1, t2, p1, s1, f1, c1, c2, c3, l1, l2

Pairings == {<<d1, t1, p1>>, <<d2, t2, p1>>}

\* c1 is daemon d1 and c2 a frontend of either; c3 is daemon d2, or d1 again while
\* its old connection is still open, or another frontend of d1.
Peers == [c \in {c1, c2, c3} |->
    CASE c = c1 -> {<<"daemon", d1, None>>}
      [] c = c2 -> {<<"frontend", d1, f1>>, <<"frontend", d2, f1>>}
      [] c = c3 -> {<<"daemon", d1, None>>, <<"daemon", d2, None>>, <<"frontend", d1, f1>>}]
AppResumes == {<<"frontend", d1, f1>>}

\* `out` is what the last step sent, and no step depends on it.
WithoutOut == <<registryVars, coreVars>>
LimiterSymmetry == Permutations({l1, l2})
=============================================================================

------------------------------ MODULE MCAppKeys ------------------------------
(* What an app holds for a pairing: the record it keeps, and the keys it     *)
(* agrees with the daemon on.                                                *)
(*                                                                           *)
(* For the records a phone, a Mac and a watch; a daemon with a legacy        *)
(* pairing and two more.  For the keys a daemon and up to two apps.          *)
(*                                                                           *)
(* The two specifications have no variable in common.  They are checked in   *)
(* one run: one of them moves while the other is where it started.           *)
EXTENDS AppPairings, KeyExchange

CONSTANTS d, f1, f2

MCDidOf == <<"a", "a", "a">>
MCLegacy == [did \in {"a"} |-> 1]

\* Pairings 2 and 3 are interchangeable: 2 is scanned first.
InOrder == scans[3] > 0 => scans[2] > 0

AppKeys == 1..12
AppSymmetry == Permutations({f1, f2})

\* Which names keys have is of no account, only which are the same: states are
\* told apart by where in this list each key of an app comes first.
KeysOf(f) ==
    <<peers[f], keyPair[f], sessionKeys[f]>>
    \o [i \in DOMAIN up[f] |-> up[f][i].key]
    \o [i \in DOMAIN down[Daemon] |-> IF down[Daemon][i].from = f THEN down[Daemon][i].key ELSE Nil]

KeyPattern(f) ==
    [i \in DOMAIN KeysOf(f) |->
        IF KeysOf(f)[i] = Nil THEN 0
        ELSE CHOOSE j \in 1..i : /\ KeysOf(f)[j] = KeysOf(f)[i]
                                 /\ \A n \in 1..(j-1) : KeysOf(f)[n] # KeysOf(f)[i]]

Shape(q) == [i \in DOMAIN q |-> <<q[i].t, q[i].from>>]

UpToKeyNames ==
    <<pairingsVars, conn, token, relayVars, faults, lost,
      [f \in Frontends |-> KeyPattern(f)],
      [x \in Parties |-> <<Shape(up[x]), Shape(down[x])>>]>>

MCInit == PairingsInit /\ KxInit
MCNext ==
    \/ PairingsInit /\ KxNext /\ UNCHANGED pairingsVars
    \/ KxInit /\ PairingsNext /\ UNCHANGED kxVars
MCSpec == MCInit /\ [][MCNext]_<<pairingsVars, kxVars>>
=============================================================================

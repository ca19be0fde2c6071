-------------------------- MODULE PairingContract -------------------------
(***************************************************************************)
(* What pairing promises, without tasks or locks: one offer at a time; a   *)
(* pairing is stored only after an application joined through the offer    *)
(* for it; it goes when it is removed; and a start of the daemon takes up  *)
(* the pairings that were stored when it began, no others.                 *)
(***************************************************************************)
CONSTANTS Ids, None

VARIABLES offer, joined, stored, restoring

contractVars == <<offer, joined, stored, restoring>>

Init == offer = None /\ joined = FALSE /\ stored = {} /\ restoring = {}

Offer(d) == /\ offer = None
            /\ offer' = d /\ joined' = FALSE
            /\ UNCHANGED <<stored, restoring>>

Join == /\ offer # None
        /\ joined' = TRUE
        /\ UNCHANGED <<offer, stored, restoring>>

Accept == /\ offer # None /\ joined
          /\ stored' = stored \cup {offer}
          /\ offer' = None /\ joined' = FALSE
          /\ UNCHANGED restoring

(* A cancelled offer, or one whose pairing could not be stored.            *)
Withdraw == /\ offer # None
            /\ offer' = None /\ joined' = FALSE
            /\ UNCHANGED <<stored, restoring>>

Remove(d) == /\ d \in stored
             /\ stored' = stored \ {d}
             /\ UNCHANGED <<offer, joined, restoring>>

Restart == /\ offer' = None /\ joined' = FALSE
           /\ restoring' = stored
           /\ UNCHANGED stored

Restore(d) == /\ d \in restoring
              /\ stored' = stored \cup {d}
              /\ restoring' = restoring \ {d}
              /\ UNCHANGED <<offer, joined>>

(* One that cannot be saved again is left alone until the next start.      *)
GiveUp(d) == /\ d \in restoring
             /\ restoring' = restoring \ {d}
             /\ UNCHANGED <<offer, joined, stored>>

Next == \/ \E d \in Ids : Offer(d) \/ Remove(d) \/ Restore(d) \/ GiveUp(d)
        \/ Join \/ Accept \/ Withdraw \/ Restart

Spec == Init /\ [][Next]_contractVars
=============================================================================

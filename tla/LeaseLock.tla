----------------------------- MODULE LeaseLock -----------------------------
(***************************************************************************)
(* What a lease promises: a lock with at most one holder, whose hold may    *)
(* end on its own.  A new holder comes only after the old one has stopped   *)
(* being one; the lock never passes from holder to holder in one step.      *)
(***************************************************************************)
CONSTANT Workers

VARIABLE holders   \* the workers entitled to act under the lease

TypeOK == holders \subseteq Workers

Init == holders = {}

Grant(w) == holders = {} /\ holders' = {w}

\* The holder releases the lease, crashes, or lets it expire.
Lapse(w) == holders = {w} /\ holders' = {}

Next == \E w \in Workers : Grant(w) \/ Lapse(w)

Spec == Init /\ [][Next]_holders
=============================================================================

----------------------------- MODULE Semaphore -----------------------------
(***************************************************************************)
(* What a leased semaphore promises: at most Limit workers hold a permit at *)
(* once, and a permit may end on its own.                                   *)
(***************************************************************************)
EXTENDS Naturals, FiniteSets

CONSTANTS Workers, Limit

VARIABLE holders   \* the workers entitled to act under a permit

Init == holders = {}

Enter(w) ==
    /\ w \notin holders
    /\ Cardinality(holders) < Limit
    /\ holders' = holders \cup {w}

\* Some holders release their permits, crash, or let them expire.
Lapse == holders' \in SUBSET holders

Next == Lapse \/ \E w \in Workers : Enter(w)

Spec == Init /\ [][Next]_holders
=============================================================================

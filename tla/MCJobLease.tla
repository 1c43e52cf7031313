----------------------------- MODULE MCJobLease -----------------------------
(***************************************************************************)
(* Small instances of JobLease: two workers, the second one's clock ahead.   *)
(* With the second instance (Late) calls that were given up may land later.  *)
(* A behaviour is one of one of them.                                       *)
(***************************************************************************)
EXTENDS JobLease, TLC

CONSTANTS w1, w2, MayBeLate

VARIABLES kind, clock1, lock1, call1, held1, late1

MCAhead == (w1 :> 0) @@ (w2 :> MaxSkew)

lateVars == <<clock1, lock1, call1, held1, late1>>
Late == INSTANCE JobLease WITH
    Duration <- 2, TTLs <- {0}, MaxLate <- 1, MaxClock <- 4,
    clock <- clock1, lock <- lock1, call <- call1, held <- held1, late <- late1

LeaseInit ==
    /\ kind \in IF MayBeLate THEN {"PUNCTUAL", "LATE"} ELSE {"PUNCTUAL"}
    /\ Init /\ Late!Init
LeaseNext ==
    /\ \/ kind = "PUNCTUAL" /\ Next /\ UNCHANGED lateVars
       \/ kind = "LATE" /\ Late!Next /\ UNCHANGED vars
    /\ UNCHANGED kind
LeaseSpec == LeaseInit /\ [][LeaseNext]_<<kind, vars, lateVars>>

-----------------------------------------------------------------------------
\* The item goes to another owner only when its lease has expired, also by a
\* call that lands after its caller has given it up (AcquireLease).
LateFailsClosed == Late!FailsClosed
=============================================================================

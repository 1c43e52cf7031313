---------------------------- MODULE LeaseRecord ----------------------------
(***************************************************************************)
(* The DynamoDB item behind a lease, and the three conditional writes that  *)
(* pkg/jobs issues on it.  The LOCK item of a job and the SLOT items of a   *)
(* semaphore have the same three attributes that matter: lease_owner,       *)
(* lease_expires_at and ttl (unix seconds, 0 when absent).                  *)
(*                                                                         *)
(* A conditional write is one atomic step of DynamoDB: the condition is     *)
(* evaluated on the item as it is when the write is applied, with the       *)
(* caller's clock reading `now', which was taken before the call was sent.  *)
(***************************************************************************)
EXTENDS Naturals

CONSTANTS Workers,   \* the lease owners: one owner string per worker
          None,      \* the owner of an item that does not exist
          Duration   \* LeaseDuration, in whole seconds, the same in all calls

ASSUME NoneAssumption == None \notin Workers
ASSUME DurationAssumption == Duration \in Nat \ {0}

Lease == [owner : Workers \cup {None}, expires : Nat, ttl : Nat]

NoLease == [owner |-> None, expires |-> 0, ttl |-> 0]

\* normalizeTTLUnixSeconds(now, ttl, 0): the TTL attribute a write sets, 0 when
\* the call asks for none and the attribute is left as it is.
NormalizeTTL(now, ttl) == IF ttl = 0 THEN 0 ELSE now + ttl

\* Mutant: TTL with SetIfNotExists, as CompleteIdempotencyRecord does.
LeasedKeepTTL(lease, w, now, ttl) ==
    [owner   |-> w,
     expires |-> now + Duration,
     ttl     |-> IF lease.ttl # 0 \/ ttl = 0 THEN lease.ttl ELSE now + ttl]

\* Mutant: an owner's new lease is added to the one it has.
LeasedFromExpiry(lease, w, now, ttl) ==
    [owner   |-> w,
     expires |-> IF lease.owner = w THEN lease.expires + Duration ELSE now + Duration,
     ttl     |-> lease.ttl]

\* The attributes an acquire or refresh leaves on the item.  A TTL that the
\* call does not set survives from the write before.
Leased(lease, w, now, ttl) ==
    [owner   |-> w,
     expires |-> now + Duration,
     ttl     |-> IF ttl = 0 THEN lease.ttl ELSE NormalizeTTL(now, ttl)]

\* Mutant: takes the lease over in its last second.
CanAcquireAtExpiry(lease, w, now) ==
    \/ lease.owner = None
    \/ lease.expires <= now
    \/ lease.owner = w

\* attribute_not_exists(LeaseExpiresAt) OR LeaseExpiresAt < now OR LeaseOwner = w
CanAcquire(lease, w, now) ==
    \/ lease.owner = None
    \/ lease.expires < now
    \/ lease.owner = w

\* Mutant: whoever asks may extend a live lease.
CanRefreshAnyOwner(lease, w, now) == lease.owner # None /\ lease.expires > now

\* IfExists, LeaseOwner = w AND LeaseExpiresAt > now
CanRefresh(lease, w, now) == lease.owner = w /\ lease.expires > now

\* LeaseOwner = w, whatever the expiry
CanRelease(lease, w) == lease.owner = w

\* External: DynamoDB deletes an item some time after its TTL has passed.
CanReap(lease, clock) == lease.ttl # 0 /\ lease.ttl < clock
=============================================================================

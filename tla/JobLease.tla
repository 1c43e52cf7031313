------------------------------ MODULE JobLease ------------------------------
(***************************************************************************)
(* The job lease of pkg/jobs/ledger.go: AcquireLease, RefreshLease and      *)
(* ReleaseLease of DynamoJobLedger on the LOCK item of one job.             *)
(*                                                                         *)
(* Workers are sequential processes with a clock each.  A call reads the    *)
(* worker's clock, travels to DynamoDB, is applied there atomically, and    *)
(* its answer travels back; the clock ticks and other workers act between   *)
(* any two of these steps.  A call or an answer can be lost, a worker can   *)
(* crash, and DynamoDB's TTL process can delete the item.                   *)
(***************************************************************************)
EXTENDS LeaseRecord, FiniteSets

CONSTANTS Ahead,       \* how far each worker's clock is ahead of true time
          MaxSkew,     \* bound on Ahead
          TTLs,        \* values of the calls' TTL input, 0 for none
          MaxLate,     \* how many calls given up by their caller may still land
          MaxClock     \* bound on true time, for TLC

ASSUME SkewAssumption ==
    MaxSkew \in Nat /\ Ahead \in [Workers -> 0 .. MaxSkew]
ASSUME TTLsAssumption == TTLs \subseteq Nat
ASSUME MaxLateAssumption == MaxLate \in Nat

VARIABLES clock,   \* true time, in unix seconds
          lock,    \* the LOCK item
          call,    \* each worker's call in progress
          held,    \* the expiry of the lease a worker was last granted, or 0
          late     \* calls their caller has given up and that may still land

vars == <<clock, lock, call, held, late>>

Requests == {"acquire", "refresh", "release"}
Answers == {"granted", "conflict", "released", "notowned"}
Call == [step : Requests \cup Answers \cup {"idle", "load"},
         now  : Nat,
         ttl  : TTLs \cup {0}]
LateCall == [by : Workers, step : Requests, now : Nat, ttl : TTLs \cup {0}]

Idle == [step |-> "idle", now |-> 0, ttl |-> 0]

TypeOK ==
    /\ clock \in Nat \ {0}
    /\ lock \in Lease
    /\ call \in [Workers -> Call]
    /\ held \in [Workers -> Nat]
    /\ late \subseteq LateCall

Init ==
    /\ clock = 1
    /\ lock = NoLease
    /\ call = [w \in Workers |-> Idle]
    /\ held = [w \in Workers |-> 0]
    /\ late = {}

-----------------------------------------------------------------------------
(* Calls start: the clock is read here, before anything is sent.            *)

Start(w, step, ttl) ==
    /\ call[w].step = "idle"
    /\ call' = [call EXCEPT ![w] =
                  [step |-> step, now |-> clock + Ahead[w], ttl |-> ttl]]
    /\ UNCHANGED <<clock, lock, late>>

StartAcquire(w) ==
    /\ \E ttl \in TTLs : Start(w, "acquire", ttl)
    /\ UNCHANGED held

\* A worker refreshes a lease it was granted, perhaps too late.
StartRefresh(w) ==
    /\ held[w] # 0
    /\ \E ttl \in TTLs : Start(w, "refresh", ttl)
    /\ UNCHANGED held

\* A worker stops working under the lease before it releases it.
StartRelease(w) ==
    /\ Start(w, "release", 0)
    /\ held' = [held EXCEPT ![w] = 0]

-----------------------------------------------------------------------------
(* DynamoDB applies a conditional write.                                    *)

Answer(w, answer) == call' = [call EXCEPT ![w].step = answer]

ApplyAcquire(w) ==
    /\ call[w].step = "acquire"
    /\ \/ /\ CanAcquire(lock, w, call[w].now)
          /\ lock' = Leased(lock, w, call[w].now, call[w].ttl)
          /\ Answer(w, "granted")
       \/ /\ ~CanAcquire(lock, w, call[w].now)
          /\ Answer(w, "conflict")
          /\ UNCHANGED lock
    /\ UNCHANGED <<clock, held, late>>

ApplyRefresh(w) ==
    /\ call[w].step = "refresh"
    /\ \/ /\ CanRefresh(lock, w, call[w].now)
          /\ lock' = Leased(lock, w, call[w].now, call[w].ttl)
          /\ Answer(w, "granted")
       \/ /\ ~CanRefresh(lock, w, call[w].now)
          /\ Answer(w, "conflict")
          /\ UNCHANGED lock
    /\ UNCHANGED <<clock, held, late>>

\* Mutant: the delete asks for a live lease too.
ApplyReleaseIfLive(w) ==
    /\ call[w].step = "release"
    /\ \/ /\ CanRefresh(lock, w, call[w].now)
          /\ lock' = NoLease
          /\ Answer(w, "released")
       \/ /\ ~CanRefresh(lock, w, call[w].now)
          /\ Answer(w, "load")
          /\ UNCHANGED lock
    /\ UNCHANGED <<clock, held, late>>

\* The conditional delete; when its condition fails the item is read back.
ApplyRelease(w) ==
    /\ call[w].step = "release"
    /\ \/ /\ CanRelease(lock, w)
          /\ lock' = NoLease
          /\ Answer(w, "released")
       \/ /\ ~CanRelease(lock, w)
          /\ Answer(w, "load")
          /\ UNCHANGED lock
    /\ UNCHANGED <<clock, held, late>>

\* First(&current) is an eventually consistent read: it may return the item or
\* an earlier version of it, and so take either branch.  Another owner is a
\* conflict; no item, or the caller's own, is success.
LoadAfterRelease(w) ==
    /\ call[w].step = "load"
    /\ \E answer \in {"released", "notowned"} : Answer(w, answer)
    /\ UNCHANGED <<clock, lock, held, late>>

-----------------------------------------------------------------------------
(* The answer reaches the worker, or does not.                              *)

\* Mutant: the lease is counted back from the clock reading.
ReturnBackdated(w) ==
    /\ call[w].step \in Answers
    /\ held' = [held EXCEPT ![w] =
                  IF call[w].step = "granted" THEN call[w].now - Duration ELSE 0]
    /\ call' = [call EXCEPT ![w] = Idle]
    /\ UNCHANGED <<clock, lock, late>>

\* A granted lease is held until the expiry the call asked for; a conflict
\* tells the worker that it holds nothing.
Return(w) ==
    /\ call[w].step \in Answers
    /\ held' = [held EXCEPT ![w] =
                  IF call[w].step = "granted" THEN call[w].now + Duration ELSE 0]
    /\ call' = [call EXCEPT ![w] = Idle]
    /\ UNCHANGED <<clock, lock, late>>

InFlight(w) == [by |-> w, step |-> call[w].step, now |-> call[w].now,
                ttl |-> call[w].ttl]

\* The worker is done with the call.  A request not yet applied is lost, or
\* stays on its way: MaxLate bounds these.
Forget(w) ==
    /\ call' = [call EXCEPT ![w] = Idle]
    /\ \/ UNCHANGED late
       \/ /\ Cardinality(late) < MaxLate
          /\ call[w].step \in Requests
          /\ late' = late \cup {InFlight(w)}

\* The call returns an internal error: the worker learns nothing of whether
\* the write was applied, and keeps the lease it had.
GiveUp(w) ==
    /\ call[w].step # "idle"
    /\ Forget(w)
    /\ UNCHANGED <<clock, lock, held>>

Crash(w) ==
    /\ Forget(w)
    /\ held' = [held EXCEPT ![w] = 0]
    /\ UNCHANGED <<clock, lock>>

\* A call lands after its caller has given it up.
LandLate(c) ==
    /\ late' = late \ {c}
    /\ lock' = CASE c.step = "acquire" /\ CanAcquire(lock, c.by, c.now) ->
                      Leased(lock, c.by, c.now, c.ttl)
                 [] c.step = "refresh" /\ CanRefresh(lock, c.by, c.now) ->
                      Leased(lock, c.by, c.now, c.ttl)
                 [] c.step = "release" /\ CanRelease(lock, c.by) -> NoLease
                 [] OTHER -> lock
    /\ UNCHANGED <<clock, call, held>>

-----------------------------------------------------------------------------
(* The environment.                                                         *)

Tick ==
    /\ clock < MaxClock
    /\ clock' = clock + 1
    /\ UNCHANGED <<lock, call, held, late>>

ReapLock ==
    /\ CanReap(lock, clock)
    /\ lock' = NoLease
    /\ UNCHANGED <<clock, call, held, late>>

WorkerStep(w) ==
    \/ StartAcquire(w) \/ StartRefresh(w) \/ StartRelease(w)
    \/ ApplyAcquire(w) \/ ApplyRefresh(w) \/ ApplyRelease(w)
    \/ LoadAfterRelease(w)
    \/ Return(w) \/ GiveUp(w) \/ Crash(w)

Next ==
    \/ \E w \in Workers : WorkerStep(w)
    \/ \E c \in late : LandLate(c)
    \/ Tick
    \/ ReapLock

Spec == Init /\ [][Next]_vars

-----------------------------------------------------------------------------
(* Properties.                                                              *)

\* A worker may act under its lease while true time, plus the skew another
\* worker's clock may have, has not passed the expiry it was granted.
HoldsLease(w) == clock + MaxSkew <= held[w]

\* At no time do two workers hold the lease, whatever calls are in flight,
\* lost or answered late by: leases exist "to prevent concurrent processors
\* from double-processing a job".
MutualExclusion ==
    \A w1, w2 \in Workers : HoldsLease(w1) /\ HoldsLease(w2) => w1 = w2

\* An abandoned lease blocks the others for one lease duration at most, plus
\* the skew: no sequence of acquires and refreshes piles up expiry.
LeaseBounded == lock.expires <= clock + MaxSkew + Duration

\* ReleaseLease that reports success leaves no lock of its caller behind, also
\* when the delete's condition failed and the read after it decided.
ReleaseFrees ==
    \A w \in Workers : call[w].step = "released" => lock.owner # w

\* The item never goes from one owner to another while its lease has not
\* expired: an acquire fails closed on a stored lease, even when its clock
\* reading is old or it lands after its caller has gone.
FailsClosed ==
    [][ lock.owner # None /\ lock'.owner \notin {None, lock.owner}
          => lock.expires < clock + MaxSkew ]_vars

\* While a worker holds the lease it was granted, no other worker's acquire is
\* granted: the acquire "fails closed if another owner holds a non-expired
\* lease" (docs/features/jobs-ledger.md).
AcquireFailsClosed ==
    [][ \A w1, w2 \in Workers :
          /\ w1 # w2
          /\ HoldsLease(w1)
          /\ call[w2].step = "acquire"
          => call'[w2].step # "granted" ]_vars

\* The holders of the lease behave as those of a lock whose hold can lapse.
Holders == {w \in Workers : HoldsLease(w)}
Lock == INSTANCE LeaseLock WITH holders <- Holders
ImplementsLeaseLock == Lock!Spec

-----------------------------------------------------------------------------
(* The inductive invariant behind MutualExclusion.                          *)

\* Either no call sets a TTL, or every call sets one that outlives the lease.
TTLCoversLease == TTLs \subseteq {0} \/ \A ttl \in TTLs : ttl >= Duration

\* A clock reading is never ahead of the clock it was read from, and the
\* lease a worker holds is not newer than the call it is making.
CallsInOrder ==
    \A w \in Workers :
        /\ call[w].now <= clock + Ahead[w]
        /\ held[w] <= clock + Ahead[w] + Duration
        /\ call[w].step \in {"acquire", "refresh", "granted"}
             => held[w] <= call[w].now + Duration
        /\ call[w].step \in {"acquire", "refresh"} => call[w].ttl \in TTLs
        /\ call[w].step = "release" => held[w] = 0

\* The TTL process can only delete a lock whose lease has expired.
TTLAfterExpiry ==
    /\ lock.ttl # 0 => lock.expires <= lock.ttl
    /\ TTLs \subseteq {0} => lock.ttl = 0

\* The lock item still records the lease of its holder.
Records(w, expiry) ==
    clock + MaxSkew <= expiry => lock.owner = w /\ expiry <= lock.expires

HolderRecorded ==
    \A w \in Workers :
        /\ Records(w, held[w])
        /\ call[w].step = "granted" => Records(w, call[w].now + Duration)

LeaseInv ==
    /\ TypeOK
    /\ late = {}
    /\ CallsInOrder
    /\ TTLAfterExpiry
    /\ HolderRecorded

\* What ReleaseFrees rests on: a release that is past its delete has nothing
\* left of its caller's to find.
ReleasePastDelete ==
    \A w \in Workers : call[w].step \in {"load", "released"} => lock.owner # w

ReleaseInv == TypeOK /\ late = {} /\ ReleasePastDelete

\* What LeaseBounded and FailsClosed rest on, late calls included: no clock
\* reading on its way to DynamoDB is ahead of true time by more than the skew.
ReadingsBounded ==
    /\ \A w \in Workers : call[w].now <= clock + MaxSkew
    /\ \A c \in late : c.now <= clock + MaxSkew

BoundInv == TypeOK /\ ReadingsBounded /\ LeaseBounded
=============================================================================

---------------------------- MODULE JobSemaphore ----------------------------
(***************************************************************************)
(* The counting semaphore of pkg/jobs/ledger.go: AcquireSemaphoreSlot,      *)
(* RefreshSemaphoreSlot, ReleaseSemaphoreSlot and InspectSemaphore on the   *)
(* SLOT items of one (scope, subject).                                      *)
(*                                                                         *)
(* A permit is a lease on one of the slots.  An acquire reads its clock     *)
(* once and then tries the slots in turn, one conditional write each; other *)
(* workers and the clock move between two tries.  The items are the lease   *)
(* records of LeaseRecord.  Calls that land after their caller has given    *)
(* them up are left to JobLease.                                            *)
(***************************************************************************)
EXTENDS LeaseRecord, FiniteSets

CONSTANTS Limits,      \* values of the calls' Limit input
          Limit,       \* the greatest of them
          Ahead,       \* how far each worker's clock is ahead of true time
          MaxSkew,     \* bound on Ahead
          TTLs,        \* values of the calls' TTL input, 0 for none
          MaxClock     \* bound on true time, for TLC

ASSUME LimitsAssumption ==
    /\ Limits \subseteq 1 .. 256
    /\ Limit \in Limits /\ \A n \in Limits : n <= Limit
ASSUME SkewAssumption ==
    MaxSkew \in Nat /\ Ahead \in [Workers -> 0 .. MaxSkew]
ASSUME TTLsAssumption == TTLs \subseteq Nat

VARIABLES clock,   \* true time, in unix seconds
          slots,   \* the SLOT items
          call,    \* each worker's call in progress
          held     \* the expiry of each slot lease a worker was granted, or 0

vars == <<clock, slots, call, held>>

Slots == 0 .. Limit - 1

Call == [step  : {"idle", "acquire", "refresh", "release", "load", "granted", "refused"},
         slot  : Slots,
         limit : Limits \cup {0},
         now   : Nat,
         ttl   : TTLs \cup {0}]

Idle == [step |-> "idle", slot |-> 0, limit |-> 0, now |-> 0, ttl |-> 0]

TypeOK ==
    /\ clock \in Nat \ {0}
    /\ slots \in [Slots -> Lease]
    /\ call \in [Workers -> Call]
    /\ held \in [Workers -> [Slots -> Nat]]

Init ==
    /\ clock = 1
    /\ slots = [i \in Slots |-> NoLease]
    /\ call = [w \in Workers |-> Idle]
    /\ held = [w \in Workers |-> [i \in Slots |-> 0]]

-----------------------------------------------------------------------------
(* Calls start.  An acquire reads the clock here, once for all slots.        *)

Start(w, c) ==
    /\ call[w].step = "idle"
    /\ call' = [call EXCEPT ![w] = c]
    /\ UNCHANGED <<clock, slots>>

StartAcquire(w) ==
    /\ \E limit \in Limits, ttl \in TTLs :
         Start(w, [step |-> "acquire", slot |-> 0, limit |-> limit,
                   now |-> clock + Ahead[w], ttl |-> ttl])
    /\ UNCHANGED held

\* A worker refreshes a slot it was granted, perhaps too late.
StartRefresh(w) ==
    /\ \E i \in Slots, ttl \in TTLs :
         /\ held[w][i] # 0
         /\ Start(w, [step |-> "refresh", slot |-> i, limit |-> 0,
                      now |-> clock + Ahead[w], ttl |-> ttl])
    /\ UNCHANGED held

\* A worker releases a slot it was granted; it stops working under it first.
StartRelease(w) ==
    \E i \in Slots :
        /\ held[w][i] # 0
        /\ Start(w, [step |-> "release", slot |-> i, limit |-> 0, now |-> 0, ttl |-> 0])
        /\ held' = [held EXCEPT ![w][i] = 0]

-----------------------------------------------------------------------------
(* DynamoDB applies a conditional write to the slot of the call.            *)

Answer(w, answer, now) ==
    call' = [call EXCEPT ![w] = [step |-> answer, slot |-> call[w].slot,
                                 limit |-> 0, now |-> now, ttl |-> 0]]

\* An answer that changes nothing of what the worker holds: the call is over.
Done(w) == call' = [call EXCEPT ![w] = Idle]

Grant(w) ==
    LET c == call[w]
    IN  /\ slots' = [slots EXCEPT ![c.slot] = Leased(@, w, c.now, c.ttl)]
        /\ Answer(w, "granted", c.now)

\* Mutant: one slot too many.
TrySlotPastLimit(w) ==
    LET c == call[w]
    IN  /\ c.step = "acquire"
        /\ \/ CanAcquire(slots[c.slot], w, c.now) /\ Grant(w)
           \/ /\ ~CanAcquire(slots[c.slot], w, c.now)
              /\ IF c.slot < c.limit
                   THEN call' = [call EXCEPT ![w].slot = @ + 1]
                   ELSE Done(w)
              /\ UNCHANGED slots
        /\ UNCHANGED <<clock, held>>

\* A slot that cannot be had sends the acquire on to the next one.
TrySlot(w) ==
    LET c == call[w]
    IN  /\ c.step = "acquire"
        /\ \/ CanAcquire(slots[c.slot], w, c.now) /\ Grant(w)
           \/ /\ ~CanAcquire(slots[c.slot], w, c.now)
              /\ IF c.slot + 1 < c.limit
                   THEN call' = [call EXCEPT ![w].slot = @ + 1]
                   ELSE Done(w)
              /\ UNCHANGED slots
        /\ UNCHANGED <<clock, held>>

ApplyRefresh(w) ==
    LET c == call[w]
    IN  /\ c.step = "refresh"
        /\ \/ CanRefresh(slots[c.slot], w, c.now) /\ Grant(w)
           \/ /\ ~CanRefresh(slots[c.slot], w, c.now)
              /\ Answer(w, "refused", 0)
              /\ UNCHANGED slots
        /\ UNCHANGED <<clock, held>>

\* The conditional delete; when its condition fails the item is read back.
ApplyRelease(w) ==
    LET c == call[w]
    IN  /\ c.step = "release"
        /\ \/ /\ CanRelease(slots[c.slot], w)
              /\ slots' = [slots EXCEPT ![c.slot] = NoLease]
              /\ Done(w)
           \/ /\ ~CanRelease(slots[c.slot], w)
              /\ Answer(w, "load", 0)
              /\ UNCHANGED slots
        /\ UNCHANGED <<clock, held>>

\* The read tells whether another worker has the slot; it changes nothing.
LoadAfterRelease(w) ==
    /\ call[w].step = "load"
    /\ Done(w)
    /\ UNCHANGED <<clock, slots, held>>

-----------------------------------------------------------------------------
(* The answer reaches the worker, or does not.                              *)

\* Mutant: the lease is counted from the moment of the answer.
ReturnFromAnswer(w) ==
    LET c == call[w]
    IN  /\ c.step \in {"granted", "refused"}
        /\ held' = [held EXCEPT ![w][c.slot] =
                      IF c.step = "granted" THEN clock + Ahead[w] + Duration ELSE 0]
        /\ Done(w)
        /\ UNCHANGED <<clock, slots>>

\* A granted slot is held until the expiry the call asked for, a refused
\* refresh tells that the slot is lost; "semaphore full" says nothing of slots.
Return(w) ==
    LET c == call[w]
    IN  /\ c.step \in {"granted", "refused"}
        /\ held' = [held EXCEPT ![w][c.slot] =
                      IF c.step = "granted" THEN c.now + Duration ELSE 0]
        /\ Done(w)
        /\ UNCHANGED <<clock, slots>>

\* The call returns an internal error, whether or not its write was applied:
\* an acquire's caller does not know which slot it has taken, if any.
GiveUp(w) ==
    /\ call[w].step # "idle"
    /\ Done(w)
    /\ UNCHANGED <<clock, slots, held>>

Crash(w) ==
    /\ Done(w)
    /\ held' = [held EXCEPT ![w] = [i \in Slots |-> 0]]
    /\ UNCHANGED <<clock, slots>>

-----------------------------------------------------------------------------
(* The environment.                                                         *)

Tick ==
    /\ clock < MaxClock
    /\ clock' = clock + 1
    /\ UNCHANGED <<slots, call, held>>

ReapSlot(i) ==
    /\ CanReap(slots[i], clock)
    /\ slots' = [slots EXCEPT ![i] = NoLease]
    /\ UNCHANGED <<clock, call, held>>

WorkerStep(w) ==
    \/ StartAcquire(w) \/ StartRefresh(w) \/ StartRelease(w)
    \/ TrySlot(w) \/ ApplyRefresh(w) \/ ApplyRelease(w) \/ LoadAfterRelease(w)
    \/ Return(w) \/ GiveUp(w) \/ Crash(w)

Next ==
    \/ \E w \in Workers : WorkerStep(w)
    \/ \E i \in Slots : ReapSlot(i)
    \/ Tick

Spec == Init /\ [][Next]_vars

\* InspectSemaphore: the slots it counts when its clock reads `now'.
Active(now) == {i \in Slots : slots[i].expires > now}

-----------------------------------------------------------------------------
(* Properties.                                                              *)

\* A worker may act under a slot while true time, plus the skew another
\* worker's clock may have, has not passed the expiry it was granted.
HoldsSlot(w, i) == clock + MaxSkew <= held[w][i]
Holders == {w \in Workers : \E i \in Slots : HoldsSlot(w, i)}

\* A slot counts for one worker only, also when an acquire went past it on an
\* old clock reading or lost its answer.
SlotExclusion ==
    \A w1, w2 \in Workers, i \in Slots :
        HoldsSlot(w1, i) /\ HoldsSlot(w2, i) => w1 = w2

\* InspectSemaphore counts every slot whose worker holds it and could still
\* refresh it, whichever clock in the fleet it reads.
OccupancyCoversHolders ==
    \A now \in clock .. clock + MaxSkew, w \in Workers, i \in Slots :
        HoldsSlot(w, i) /\ now < held[w][i] => i \in Active(now)

\* A slot whose worker crashed, or that an acquire took without its caller
\* knowing, is free again after one lease duration and the skew.
LeakedSlotsLapse ==
    \A i \in Slots : slots[i].expires <= clock + MaxSkew + Duration

\* The workers holding slots behave as the holders of a semaphore.
Permits == INSTANCE Semaphore WITH holders <- Holders
ImplementsSemaphore == Permits!Spec

-----------------------------------------------------------------------------
(* The inductive invariant behind SlotExclusion, as that of JobLease.       *)

\* Either no call sets a TTL, or every call sets one that outlives the lease.
TTLCoversLease == TTLs \subseteq {0} \/ \A ttl \in TTLs : ttl >= Duration

\* A clock reading is never ahead of the clock it was read from, and the
\* leases a worker holds are not newer than the call it is making.
InOrder(w) ==
    LET c == call[w]
    IN  /\ c.now <= clock + Ahead[w]
        /\ c.step \in {"acquire", "refresh"} => c.ttl \in TTLs
        /\ c.step = "acquire" => c.slot < c.limit
        /\ c.step = "release" => held[w][c.slot] = 0
        /\ \A i \in Slots :
             /\ held[w][i] <= clock + Ahead[w] + Duration
             /\ c.step \in {"acquire", "refresh", "granted"} => held[w][i] <= c.now + Duration

\* The TTL process can only delete a slot whose lease has expired.
TTLAfterExpiry ==
    \A i \in Slots :
        /\ slots[i].ttl # 0 => slots[i].expires <= slots[i].ttl
        /\ TTLs \subseteq {0} => slots[i].ttl = 0

\* A slot's item still records the lease of its holder.
Records(w, i, expiry) ==
    clock + MaxSkew <= expiry => slots[i].owner = w /\ expiry <= slots[i].expires

HolderRecorded(w) ==
    /\ \A i \in Slots : Records(w, i, held[w][i])
    /\ call[w].step = "granted" => Records(w, call[w].slot, call[w].now + Duration)

SlotInv ==
    /\ TypeOK
    /\ TTLAfterExpiry
    /\ LeakedSlotsLapse
    /\ \A w \in Workers : InOrder(w) /\ HolderRecorded(w)
=============================================================================

--------------------------- MODULE JobLease_proofs ---------------------------
(***************************************************************************)
(* Proofs about JobLease for any set of workers, any lease duration, skew,  *)
(* TTL inputs and number of late calls.                                     *)
(***************************************************************************)
EXTENDS JobLease, FiniteSetTheorems, TLAPS

USE SkewAssumption, TTLsAssumption, NoneAssumption, DurationAssumption
    DEF SkewAssumption, TTLsAssumption, NoneAssumption, DurationAssumption

-----------------------------------------------------------------------------
(* The conditional writes keep the item a lease record.                     *)

LEMMA TTLsNat == TTLs \cup {0} \subseteq Nat
  BY TTLsAssumption

LEMMA NoLeaseType == NoLease \in Lease
  BY DEF NoLease, Lease

LEMMA LeasedType ==
  ASSUME NEW lease \in Lease, NEW w \in Workers, NEW now \in Nat, NEW ttl \in Nat
  PROVE  /\ Leased(lease, w, now, ttl) \in Lease
         /\ Leased(lease, w, now, ttl).owner = w
         /\ Leased(lease, w, now, ttl).expires = now + Duration
         /\ Leased(lease, w, now, ttl).ttl =
              (IF ttl = 0 THEN lease.ttl ELSE now + ttl)
  BY DEF Leased, Lease, NormalizeTTL

LEMMA CallType ==
  ASSUME TypeOK, NEW w \in Workers
  PROVE  call[w].now \in Nat /\ call[w].ttl \in Nat
<1>1. call[w] \in Call
  BY DEF TypeOK
<1> QED BY <1>1, TTLsNat DEF Call

\* An answer changes the step of its caller's call and nothing else.
LEMMA AnswerEffect ==
  ASSUME TypeOK, NEW w \in Workers, NEW answer \in Answers \cup {"load"},
         Answer(w, answer)
  PROVE  /\ call' \in [Workers -> Call]
         /\ call'[w].step = answer
         /\ call'[w].now = call[w].now
         /\ call'[w].ttl = call[w].ttl
         /\ \A u \in Workers \ {w} : call'[u] = call[u]
<1>1. call[w] \in Call
  BY DEF TypeOK
<1>2. call'[w] = [call[w] EXCEPT !.step = answer]
  BY DEF Answer, TypeOK
<1>3. call'[w] \in Call
  BY <1>1, <1>2 DEF Call
<1>4. \A u \in Workers \ {w} : call'[u] = call[u]
  BY DEF Answer, TypeOK
<1>5. call' = [call EXCEPT ![w] = call'[w]]
  BY <1>2 DEF Answer, TypeOK
<1> QED BY <1>1, <1>2, <1>3, <1>4, <1>5 DEF TypeOK, Call

LEMMA TypeInit == Init => TypeOK
  BY NoLeaseType DEF Init, TypeOK, Call, Idle

LEMMA TypeStep ==
  ASSUME TypeOK, [Next]_vars
  PROVE  TypeOK'
<1> USE DEF TypeOK
<1>1. ASSUME NEW w \in Workers, StartAcquire(w) PROVE TypeOK'
  BY <1>1 DEF StartAcquire, Start, Call, Requests
<1>2. ASSUME NEW w \in Workers, StartRefresh(w) PROVE TypeOK'
  BY <1>2 DEF StartRefresh, Start, Call, Requests
<1>3. ASSUME NEW w \in Workers, StartRelease(w) PROVE TypeOK'
  BY <1>3 DEF StartRelease, Start, Call, Requests
<1>4. ASSUME NEW w \in Workers, ApplyAcquire(w) PROVE TypeOK'
  <2>1. Leased(lock, w, call[w].now, call[w].ttl) \in Lease
    BY CallType, LeasedType
  <2>2. call' \in [Workers -> Call]
    BY <1>4, AnswerEffect DEF ApplyAcquire, Answers
  <2> QED BY <1>4, <2>1, <2>2 DEF ApplyAcquire
<1>5. ASSUME NEW w \in Workers, ApplyRefresh(w) PROVE TypeOK'
  <2>1. Leased(lock, w, call[w].now, call[w].ttl) \in Lease
    BY CallType, LeasedType
  <2>2. call' \in [Workers -> Call]
    BY <1>5, AnswerEffect DEF ApplyRefresh, Answers
  <2> QED BY <1>5, <2>1, <2>2 DEF ApplyRefresh
<1>6. ASSUME NEW w \in Workers, ApplyRelease(w) PROVE TypeOK'
  <2>1. lock' \in Lease
    BY <1>6, NoLeaseType DEF ApplyRelease
  <2>2. call' \in [Workers -> Call]
    BY <1>6, AnswerEffect DEF ApplyRelease, Answers
  <2> QED BY <1>6, <2>1, <2>2 DEF ApplyRelease
<1>7. ASSUME NEW w \in Workers, LoadAfterRelease(w) PROVE TypeOK'
  BY <1>7, AnswerEffect DEF LoadAfterRelease, Answers
<1>8. ASSUME NEW w \in Workers, Return(w) PROVE TypeOK'
  BY <1>8 DEF Return, Idle, Call
<1>9. ASSUME NEW w \in Workers, Forget(w) PROVE (call' \in [Workers -> Call] /\ late' \subseteq LateCall)
  BY <1>9 DEF Forget, InFlight, Idle, Call, LateCall
<1>10. ASSUME NEW w \in Workers, GiveUp(w) PROVE TypeOK'
  BY <1>9, <1>10 DEF GiveUp
<1>11. ASSUME NEW w \in Workers, Crash(w) PROVE TypeOK'
  BY <1>9, <1>11 DEF Crash
<1>12. ASSUME NEW c \in late, LandLate(c) PROVE TypeOK'
  <2>1. c.by \in Workers /\ c.now \in Nat /\ c.ttl \in Nat
    BY TTLsNat DEF LateCall
  <2>2. Leased(lock, c.by, c.now, c.ttl) \in Lease
    BY <2>1, LeasedType
  <2> QED BY <1>12, <2>2, NoLeaseType DEF LandLate
<1>13. ASSUME Tick PROVE TypeOK'
  BY <1>13 DEF Tick
<1>14. ASSUME ReapLock PROVE TypeOK'
  BY <1>14, NoLeaseType DEF ReapLock
<1>15. ASSUME UNCHANGED vars PROVE TypeOK'
  BY <1>15 DEF vars
<1> QED
  BY <1>1, <1>2, <1>3, <1>4, <1>5, <1>6, <1>7, <1>8, <1>10, <1>11, <1>12,
     <1>13, <1>14, <1>15 DEF Next, WorkerStep

\* Every reachable state has the types TypeOK gives: whatever the calls ask
\* for, and whichever of them land late, the item stays one lease record.
THEOREM TypeCorrect == Spec => []TypeOK
  BY TypeInit, TypeStep, PTL DEF Spec

-----------------------------------------------------------------------------
(* Mutual exclusion.                                                        *)

LEMMA InvInit == Init => LeaseInv
<1> SUFFICES ASSUME Init PROVE LeaseInv
  OBVIOUS
<1>1. TypeOK
  BY TypeInit
<1>2. ASSUME NEW w \in Workers
      PROVE  /\ call[w] = Idle /\ held[w] = 0 /\ clock = 1
             /\ Ahead[w] \in Nat /\ MaxSkew \in Nat
  BY DEF Init
<1>3. CallsInOrder
  <2> USE DEF CallsInOrder
  <2> TAKE w \in Workers
  <2> QED BY <1>2 DEF Idle
<1>4. TTLAfterExpiry
  BY DEF Init, TTLAfterExpiry, NoLease
<1>5. HolderRecorded
  <2> USE DEF HolderRecorded
  <2> TAKE w \in Workers
  <2> QED BY <1>2 DEF Idle, Records
<1> QED BY <1>1, <1>3, <1>4, <1>5 DEF LeaseInv, Init

\* Without late calls none is ever on its way.
LEMMA NoneLate ==
  ASSUME MaxLate = 0, late = {}, NEW w \in Workers, Forget(w)
  PROVE  late' = {}
  BY FS_EmptySet DEF Forget

\* Nobody else holds the lock, or is about to, when w may acquire it.
LEMMA AcquireExcludes ==
  ASSUME LeaseInv, NEW w \in Workers, NEW u \in Workers \ {w},
         call[w].step = "acquire", CanAcquire(lock, w, call[w].now)
  PROVE  /\ ~(clock + MaxSkew <= held[u])
         /\ call[u].step = "granted" => ~(clock + MaxSkew <= call[u].now + Duration)
<1>1. /\ clock \in Nat /\ held[u] \in Nat /\ lock.expires \in Nat
      /\ call[w].now \in Nat /\ call[u].now \in Nat /\ Ahead[w] \in 0 .. MaxSkew
  BY CallType DEF LeaseInv, TypeOK, Lease
<1>2. call[w].now <= clock + MaxSkew
  BY <1>1 DEF LeaseInv, CallsInOrder
<1>3. \/ lock.owner # u
      \/ lock.expires < clock + MaxSkew
  BY <1>1, <1>2 DEF CanAcquire
<1> QED BY <1>1, <1>3 DEF LeaseInv, HolderRecorded, Records

LEMMA Numbers ==
  ASSUME TypeOK
  PROVE  /\ clock \in Nat /\ clock >= 1 /\ MaxSkew \in Nat /\ Duration \in Nat
         /\ lock.expires \in Nat /\ lock.ttl \in Nat
         /\ \A w \in Workers :
              /\ held[w] \in Nat /\ call[w].now \in Nat /\ call[w].ttl \in Nat
              /\ Ahead[w] \in Nat /\ Ahead[w] <= MaxSkew
  BY CallType DEF TypeOK, Lease

LEMMA StartEffect ==
  ASSUME TypeOK, NEW w \in Workers, NEW step, NEW ttl, Start(w, step, ttl)
  PROVE  /\ call[w].step = "idle"
         /\ call'[w].step = step
         /\ call'[w].now = clock + Ahead[w]
         /\ call'[w].ttl = ttl
         /\ \A u \in Workers \ {w} : call'[u] = call[u]
         /\ UNCHANGED <<clock, lock, late>>
  BY DEF Start, TypeOK

\* Starting a call touches neither the lock nor what its holder was granted.
LEMMA StartKeepsInv ==
  ASSUME LeaseInv, TypeOK', NEW w \in Workers,
         StartAcquire(w) \/ StartRefresh(w) \/ StartRelease(w)
  PROVE  LeaseInv'
<1>1. TypeOK
  BY DEF LeaseInv
<1>2. /\ UNCHANGED <<clock, lock, late>>
      /\ call[w].step = "idle"
      /\ call'[w].step \in Requests
      /\ call'[w].now = clock + Ahead[w]
      /\ call'[w].step \in {"acquire", "refresh"}
           => call'[w].ttl \in TTLs /\ held'[w] = held[w]
      /\ call'[w].step = "release" => held'[w] = 0
      /\ held'[w] = held[w] \/ held'[w] = 0
      /\ \A u \in Workers \ {w} : call'[u] = call[u] /\ held'[u] = held[u]
  <2>1. CASE StartAcquire(w)
    BY <1>1, <2>1, StartEffect DEF StartAcquire, Requests
  <2>2. CASE StartRefresh(w)
    BY <1>1, <2>2, StartEffect DEF StartRefresh, Requests
  <2>3. CASE StartRelease(w)
    BY <1>1, <2>3, StartEffect DEF StartRelease, Requests, TypeOK
  <2> QED BY <2>1, <2>2, <2>3
<1>3. CallsInOrder'
  <2> SUFFICES ASSUME NEW u \in Workers
               PROVE  /\ call'[u].now <= clock' + Ahead[u]
                      /\ held'[u] <= clock' + Ahead[u] + Duration
                      /\ call'[u].step \in {"acquire", "refresh", "granted"}
                           => held'[u] <= call'[u].now + Duration
                      /\ call'[u].step \in {"acquire", "refresh"}
                           => call'[u].ttl \in TTLs
                      /\ call'[u].step = "release" => held'[u] = 0
    BY DEF CallsInOrder
  <2>1. CASE u = w
    BY <1>1, <1>2, <2>1, Numbers DEF LeaseInv, CallsInOrder, Requests
  <2>2. CASE u # w
    BY <1>2, <2>2 DEF LeaseInv, CallsInOrder
  <2> QED BY <2>1, <2>2
<1>4. TTLAfterExpiry'
  BY <1>2 DEF LeaseInv, TTLAfterExpiry
<1>5. HolderRecorded'
  <2> SUFFICES ASSUME NEW u \in Workers
               PROVE  /\ Records(u, held[u])'
                      /\ call'[u].step = "granted" => Records(u, call[u].now + Duration)'
    BY DEF HolderRecorded
  <2>1. CASE u = w
    BY <1>1, <1>2, <2>1, Numbers DEF LeaseInv, HolderRecorded, Records, Requests
  <2>2. CASE u # w
    BY <1>2, <2>2 DEF LeaseInv, HolderRecorded, Records
  <2> QED BY <2>1, <2>2
<1> QED BY <1>2, <1>3, <1>4, <1>5 DEF LeaseInv


\* An acquire or refresh that succeeds: the lock is the caller's, with an expiry
\* no earlier than the one it holds, and nobody else holds it.
LEMMA GrantKeepsInv ==
  ASSUME LeaseInv, TypeOK', TTLCoversLease, NEW w \in Workers,
         call[w].step \in {"acquire", "refresh"},
         lock' = Leased(lock, w, call[w].now, call[w].ttl),
         Answer(w, "granted"),
         UNCHANGED <<clock, held, late>>,
         \A u \in Workers \ {w} :
             /\ ~(clock + MaxSkew <= held[u])
             /\ call[u].step = "granted"
                  => ~(clock + MaxSkew <= call[u].now + Duration)
  PROVE  LeaseInv'
<1>1. TypeOK
  BY DEF LeaseInv
<1>2. /\ call'[w].step = "granted"
      /\ call'[w].now = call[w].now
      /\ \A u \in Workers \ {w} : call'[u] = call[u]
  BY <1>1, AnswerEffect DEF Answers
<1>3. /\ lock'.owner = w
      /\ lock'.expires = call[w].now + Duration
      /\ lock'.ttl = (IF call[w].ttl = 0 THEN lock.ttl ELSE call[w].now + call[w].ttl)
  BY DEF Leased, NormalizeTTL
<1>4. CallsInOrder'
  <2> SUFFICES ASSUME NEW u \in Workers
               PROVE  /\ call'[u].now <= clock' + Ahead[u]
                      /\ held'[u] <= clock' + Ahead[u] + Duration
                      /\ call'[u].step \in {"acquire", "refresh", "granted"}
                           => held'[u] <= call'[u].now + Duration
                      /\ call'[u].step \in {"acquire", "refresh"}
                           => call'[u].ttl \in TTLs
                      /\ call'[u].step = "release" => held'[u] = 0
    BY DEF CallsInOrder
  <2>1. CASE u = w
    BY <1>1, <1>2, <2>1, Numbers DEF LeaseInv, CallsInOrder
  <2>2. CASE u # w
    BY <1>2, <2>2 DEF LeaseInv, CallsInOrder
  <2> QED BY <2>1, <2>2
<1>5. TTLAfterExpiry'
  <2>1. call[w].ttl \in TTLs
    BY DEF LeaseInv, CallsInOrder
  <2>2. CASE TTLs \subseteq {0}
    BY <1>3, <2>1, <2>2 DEF LeaseInv, TTLAfterExpiry
  <2>3. CASE ~(TTLs \subseteq {0})
    <3>1. call[w].ttl >= Duration
      BY <2>1, <2>3 DEF TTLCoversLease
    <3> QED BY <1>1, <1>3, <2>3, <3>1, Numbers DEF TTLAfterExpiry
  <2> QED BY <2>2, <2>3
<1>6. HolderRecorded'
  <2> SUFFICES ASSUME NEW u \in Workers
               PROVE  /\ Records(u, held[u])'
                      /\ call'[u].step = "granted" => Records(u, call[u].now + Duration)'
    BY DEF HolderRecorded
  <2>1. CASE u = w
    <3>1. held[w] <= call[w].now + Duration
      BY DEF LeaseInv, CallsInOrder
    <3> QED BY <1>1, <1>2, <1>3, <2>1, <3>1, Numbers DEF Records
  <2>2. CASE u # w
    BY <1>2, <2>2 DEF Records
  <2> QED BY <2>1, <2>2
<1> QED BY <1>4, <1>5, <1>6 DEF LeaseInv

\* A call's answer other than "granted", the lock left as it is.
LEMMA RefusalKeepsInv ==
  ASSUME LeaseInv, TypeOK', NEW w \in Workers,
         NEW answer \in {"conflict", "released", "notowned", "load"},
         Answer(w, answer), UNCHANGED <<clock, lock, held, late>>
  PROVE  LeaseInv'
<1>1. /\ call'[w].step = answer
      /\ call'[w].now = call[w].now
      /\ \A u \in Workers \ {w} : call'[u] = call[u]
  BY AnswerEffect DEF Answers, LeaseInv
<1>2. CallsInOrder'
  BY <1>1 DEF LeaseInv, CallsInOrder
<1>3. TTLAfterExpiry'
  BY DEF LeaseInv, TTLAfterExpiry
<1>4. HolderRecorded'
  BY <1>1 DEF LeaseInv, HolderRecorded, Records
<1> QED BY <1>2, <1>3, <1>4 DEF LeaseInv

LEMMA AcquireKeepsInv ==
  ASSUME LeaseInv, TypeOK', TTLCoversLease, NEW w \in Workers, ApplyAcquire(w)
  PROVE  LeaseInv'
<1>1. CASE CanAcquire(lock, w, call[w].now)
  BY <1>1, AcquireExcludes, GrantKeepsInv DEF ApplyAcquire
<1>2. CASE ~CanAcquire(lock, w, call[w].now)
  BY <1>2, RefusalKeepsInv DEF ApplyAcquire
<1> QED BY <1>1, <1>2

LEMMA RefreshKeepsInv ==
  ASSUME LeaseInv, TypeOK', TTLCoversLease, NEW w \in Workers, ApplyRefresh(w)
  PROVE  LeaseInv'
<1>1. CASE CanRefresh(lock, w, call[w].now)
  <2>1. \A u \in Workers \ {w} :
             /\ ~(clock + MaxSkew <= held[u])
             /\ call[u].step = "granted"
                  => ~(clock + MaxSkew <= call[u].now + Duration)
    BY <1>1 DEF CanRefresh, LeaseInv, HolderRecorded, Records
  <2> QED BY <1>1, <2>1, GrantKeepsInv DEF ApplyRefresh
<1>2. CASE ~CanRefresh(lock, w, call[w].now)
  BY <1>2, RefusalKeepsInv DEF ApplyRefresh
<1> QED BY <1>1, <1>2


\* When the lock is deleted by its holder or after its lease expired, nobody
\* holds it afterwards.
LEMMA DeleteKeepsInv ==
  ASSUME LeaseInv, TypeOK', lock' = NoLease, UNCHANGED <<clock, held, late>>,
         CallsInOrder',
         \A u \in Workers :
             /\ ~(clock + MaxSkew <= held[u])
             /\ call'[u].step = "granted"
                  => /\ call'[u] = call[u]
                     /\ ~(clock + MaxSkew <= call[u].now + Duration)
  PROVE  LeaseInv'
<1>1. TTLAfterExpiry'
  BY DEF TTLAfterExpiry, NoLease
<1>2. HolderRecorded'
  BY DEF HolderRecorded, Records
<1> QED BY <1>1, <1>2 DEF LeaseInv

LEMMA ReleaseKeepsInv ==
  ASSUME LeaseInv, TypeOK', NEW w \in Workers, ApplyRelease(w)
  PROVE  LeaseInv'
<1>1. CASE CanRelease(lock, w)
  <2>1. /\ call'[w].step = "released"
        /\ call'[w].now = call[w].now
        /\ \A u \in Workers \ {w} : call'[u] = call[u]
    BY <1>1, AnswerEffect DEF Answers, LeaseInv, ApplyRelease
  <2>2. CallsInOrder'
    BY <1>1, <2>1 DEF LeaseInv, CallsInOrder, ApplyRelease
  <2>3. ASSUME NEW u \in Workers
        PROVE  /\ ~(clock + MaxSkew <= held[u])
               /\ call'[u].step = "granted"
                    => /\ call'[u] = call[u]
                       /\ ~(clock + MaxSkew <= call[u].now + Duration)
    <3>1. CASE u = w
      <4>1. held[w] = 0
        BY DEF LeaseInv, CallsInOrder, ApplyRelease
      <4> QED BY <2>1, <3>1, <4>1, Numbers DEF LeaseInv
    <3>2. CASE u # w
      BY <1>1, <2>1, <3>2 DEF CanRelease, LeaseInv, HolderRecorded, Records
    <3> QED BY <3>1, <3>2
  <2> QED BY <1>1, <2>2, <2>3, DeleteKeepsInv DEF ApplyRelease
<1>2. CASE ~CanRelease(lock, w)
  BY <1>2, RefusalKeepsInv DEF ApplyRelease
<1> QED BY <1>1, <1>2

LEMMA ReapKeepsInv ==
  ASSUME LeaseInv, TypeOK', ReapLock
  PROVE  LeaseInv'
<1>1. CallsInOrder'
  BY DEF LeaseInv, CallsInOrder, ReapLock
<1>2. lock.expires < clock
  BY Numbers DEF LeaseInv, TTLAfterExpiry, ReapLock, CanReap
<1>3. \A u \in Workers :
             /\ ~(clock + MaxSkew <= held[u])
             /\ call[u].step = "granted"
                  => ~(clock + MaxSkew <= call[u].now + Duration)
  BY <1>2, Numbers DEF LeaseInv, HolderRecorded, Records
<1> QED BY <1>1, <1>3, DeleteKeepsInv DEF ReapLock

\* The end of a call, by its answer, by giving up or by a crash: the worker
\* holds what it was granted, what it held before, or nothing.
LEMMA EndKeepsInv ==
  ASSUME LeaseInv, TypeOK', NEW w \in Workers,
         call' = [call EXCEPT ![w] = Idle],
         UNCHANGED <<clock, lock, late>>,
         \A u \in Workers \ {w} : held'[u] = held[u],
         \/ held'[w] \in {0, held[w]}
         \/ call[w].step = "granted" /\ held'[w] = call[w].now + Duration
  PROVE  LeaseInv'
<1>1. call'[w] = Idle /\ \A u \in Workers \ {w} : call'[u] = call[u]
  BY DEF LeaseInv, TypeOK
<1>2. CallsInOrder'
  BY <1>1, Numbers DEF LeaseInv, CallsInOrder, Idle
<1>3. TTLAfterExpiry'
  BY DEF LeaseInv, TTLAfterExpiry
<1>4. HolderRecorded'
  BY <1>1, Numbers DEF LeaseInv, HolderRecorded, Records, Idle
<1> QED BY <1>2, <1>3, <1>4 DEF LeaseInv

LEMMA TickKeepsInv ==
  ASSUME LeaseInv, TypeOK', Tick
  PROVE  LeaseInv'
<1>1. CallsInOrder'
  BY Numbers DEF LeaseInv, CallsInOrder, Tick
<1>2. TTLAfterExpiry'
  BY DEF LeaseInv, TTLAfterExpiry, Tick
<1>3. HolderRecorded'
  BY Numbers DEF LeaseInv, HolderRecorded, Records, Tick
<1> QED BY <1>1, <1>2, <1>3 DEF LeaseInv, Tick

LEMMA InvStep ==
  ASSUME MaxLate = 0, TTLCoversLease, LeaseInv, [Next]_vars
  PROVE  LeaseInv'
<1>1. TypeOK'
  BY TypeStep DEF LeaseInv
<1>2. ASSUME NEW w \in Workers, WorkerStep(w) PROVE LeaseInv'
  <2>1. CASE StartAcquire(w) \/ StartRefresh(w) \/ StartRelease(w)
    BY <1>1, <2>1, StartKeepsInv
  <2>2. CASE ApplyAcquire(w)
    BY <1>1, <2>2, AcquireKeepsInv
  <2>3. CASE ApplyRefresh(w)
    BY <1>1, <2>3, RefreshKeepsInv
  <2>4. CASE ApplyRelease(w)
    BY <1>1, <2>4, ReleaseKeepsInv
  <2>5. CASE LoadAfterRelease(w)
    BY <1>1, <2>5, RefusalKeepsInv DEF LoadAfterRelease
  <2>6. CASE Return(w)
    BY <1>1, <2>6, EndKeepsInv DEF Return, LeaseInv, TypeOK
  <2>7. CASE GiveUp(w)
    <3>1. late' = late
      BY <2>7, NoneLate DEF GiveUp, LeaseInv
    <3> QED BY <1>1, <2>7, <3>1, EndKeepsInv DEF GiveUp, Forget
  <2>8. CASE Crash(w)
    <3>1. late' = late
      BY <2>8, NoneLate DEF Crash, LeaseInv
    <3> QED BY <1>1, <2>8, <3>1, EndKeepsInv DEF Crash, Forget, LeaseInv, TypeOK
  <2> QED BY <1>2, <2>1, <2>2, <2>3, <2>4, <2>5, <2>6, <2>7, <2>8 DEF WorkerStep
<1>3. ASSUME NEW c \in late, LandLate(c) PROVE LeaseInv'
  BY <1>3 DEF LeaseInv
<1>4. CASE UNCHANGED vars
  BY <1>1, <1>4 DEF vars, LeaseInv, CallsInOrder, TTLAfterExpiry, HolderRecorded,
                    Records
<1> QED
  BY <1>1, <1>2, <1>3, <1>4, TickKeepsInv, ReapKeepsInv DEF Next

\* The stored lock excludes a second holder.
LEMMA InvImpliesExclusion == LeaseInv => MutualExclusion
<1> SUFFICES ASSUME LeaseInv, NEW w1 \in Workers, NEW w2 \in Workers,
                    HoldsLease(w1), HoldsLease(w2)
             PROVE  w1 = w2
  BY DEF MutualExclusion
<1> QED BY DEF LeaseInv, HolderRecorded, Records, HoldsLease

\* Two workers never hold the job lease at once, for any number of workers, any
\* lease duration and clock skew, with calls and answers lost and workers
\* crashing at any point: provided no call lands after its caller gave it up,
\* and the TTL inputs never let the TTL process delete a live lock.
THEOREM LeaseExclusion ==
  ASSUME MaxLate = 0, TTLCoversLease
  PROVE  Spec => []MutualExclusion
<1>1. LeaseInv /\ [Next]_vars => LeaseInv'
  BY InvStep
<1>2. Spec => []LeaseInv
  BY <1>1, InvInit, PTL DEF Spec
<1> QED BY <1>2, InvImpliesExclusion, PTL

-----------------------------------------------------------------------------
(* What holds of the stored lock also when calls land late.                 *)

LEMMA ForgetKeepsReadings ==
  ASSUME TypeOK, ReadingsBounded, NEW w \in Workers, Forget(w), clock' = clock
  PROVE  ReadingsBounded'
<1>1. \A u \in Workers : call'[u].now <= clock + MaxSkew
  BY Numbers DEF Forget, Idle, ReadingsBounded, TypeOK
<1>2. late' \subseteq late \cup {InFlight(w)}
  BY DEF Forget
<1>3. InFlight(w).now <= clock + MaxSkew
  BY DEF InFlight, ReadingsBounded
<1> QED BY <1>1, <1>2, <1>3 DEF ReadingsBounded

LEMMA BoundInit == Init => BoundInv
<1> SUFFICES ASSUME Init PROVE BoundInv
  OBVIOUS
<1>1. TypeOK
  BY TypeInit
<1>2. ReadingsBounded
  BY DEF Init, ReadingsBounded, Idle
<1>3. LeaseBounded
  BY DEF Init, LeaseBounded, NoLease
<1> QED BY <1>1, <1>2, <1>3 DEF BoundInv

\* No reading that is applied or started exceeds the bound.
LEMMA ReadingsStep ==
  ASSUME BoundInv, [Next]_vars
  PROVE  ReadingsBounded'
<1> USE DEF BoundInv
<1>1. ASSUME NEW w \in Workers,
             StartAcquire(w) \/ StartRefresh(w) \/ StartRelease(w)
      PROVE  ReadingsBounded'
  <2>1. PICK step, ttl : Start(w, step, ttl)
    BY <1>1 DEF StartAcquire, StartRefresh, StartRelease
  <2> QED BY <2>1, StartEffect, Numbers DEF ReadingsBounded
<1>2. ASSUME NEW w \in Workers,
             NEW answer \in Answers \cup {"load"}, Answer(w, answer),
             UNCHANGED <<clock, late>>
      PROVE  ReadingsBounded'
  BY <1>2, AnswerEffect DEF ReadingsBounded
<1>3. ASSUME NEW w \in Workers,
             ApplyAcquire(w) \/ ApplyRefresh(w) \/ ApplyRelease(w)
               \/ LoadAfterRelease(w)
      PROVE  ReadingsBounded'
  BY <1>2, <1>3 DEF ApplyAcquire, ApplyRefresh, ApplyRelease, LoadAfterRelease,
                    Answers
<1>4. ASSUME NEW w \in Workers, Return(w) PROVE ReadingsBounded'
  BY <1>4, Numbers DEF Return, Idle, ReadingsBounded, TypeOK
<1>5. ASSUME NEW w \in Workers, GiveUp(w) \/ Crash(w) PROVE ReadingsBounded'
  BY <1>5, ForgetKeepsReadings DEF GiveUp, Crash
<1>6. ASSUME NEW c \in late, LandLate(c) PROVE ReadingsBounded'
  BY <1>6 DEF LandLate, ReadingsBounded
<1>7. ASSUME Tick PROVE ReadingsBounded'
  <2>1. \A c \in late : c.now \in Nat
    BY DEF TypeOK, LateCall
  <2> QED BY <1>7, <2>1, Numbers DEF Tick, ReadingsBounded
<1>8. ASSUME ReapLock \/ UNCHANGED vars PROVE ReadingsBounded'
  BY <1>8 DEF ReapLock, vars, ReadingsBounded
<1> QED
  BY <1>1, <1>3, <1>4, <1>5, <1>6, <1>7, <1>8 DEF Next, WorkerStep

\* Every step leaves the lock, deletes it, or leases it with a clock reading
\* within the bound, to an owner who may have it.
LEMMA LockStep ==
  ASSUME BoundInv, [Next]_vars
  PROVE  \/ lock' = lock
         \/ lock' = NoLease
         \/ \E w \in Workers, now \in Nat :
              /\ now <= clock + MaxSkew
              /\ CanAcquire(lock, w, now)
              /\ lock'.owner = w
              /\ lock'.expires = now + Duration
              /\ clock' = clock
<1> USE DEF BoundInv
<1> DEFINE Granted ==
      \E w \in Workers, now \in Nat :
              /\ now <= clock + MaxSkew
              /\ CanAcquire(lock, w, now)
              /\ lock'.owner = w
              /\ lock'.expires = now + Duration
              /\ clock' = clock
<1>1. ASSUME NEW w \in Workers, NEW now \in Nat, NEW ttl \in Nat,
             now <= clock + MaxSkew,
             CanAcquire(lock, w, now) \/ CanRefresh(lock, w, now),
             lock' = Leased(lock, w, now, ttl), clock' = clock
      PROVE  Granted
  <2>1. CanAcquire(lock, w, now)
    BY <1>1 DEF CanAcquire, CanRefresh
  <2>2. lock'.owner = w /\ lock'.expires = now + Duration
    BY <1>1 DEF Leased
  <2> QED BY <1>1, <2>1, <2>2
<1>2. ASSUME NEW w \in Workers, ApplyAcquire(w) \/ ApplyRefresh(w)
      PROVE  lock' = lock \/ Granted
  <2>1. call[w].now \in Nat /\ call[w].ttl \in Nat
    BY CallType
  <2>2. call[w].now <= clock + MaxSkew
    BY DEF ReadingsBounded
  <2> QED BY <1>1, <1>2, <2>1, <2>2 DEF ApplyAcquire, ApplyRefresh
<1>3. ASSUME NEW c \in late, LandLate(c)
      PROVE  lock' = lock \/ lock' = NoLease \/ Granted
  <2>1. c.by \in Workers /\ c.now \in Nat /\ c.ttl \in Nat
    BY TTLsNat DEF TypeOK, LateCall
  <2>2. c.now <= clock + MaxSkew
    BY DEF ReadingsBounded
  <2> HIDE DEF Granted
  <2>3. CASE lock' = Leased(lock, c.by, c.now, c.ttl)
             /\ (CanAcquire(lock, c.by, c.now) \/ CanRefresh(lock, c.by, c.now))
    BY <1>1, <1>3, <2>1, <2>2, <2>3 DEF LandLate
  <2> QED BY <1>3, <2>3 DEF LandLate
<1>4. ASSUME NEW w \in Workers,
             ~ApplyAcquire(w), ~ApplyRefresh(w), WorkerStep(w)
      PROVE  lock' = lock \/ lock' = NoLease
  BY <1>4 DEF WorkerStep, StartAcquire, StartRefresh, StartRelease, Start,
              ApplyRelease, LoadAfterRelease, Return, GiveUp, Crash
<1>5. ASSUME Tick \/ ReapLock \/ UNCHANGED vars
      PROVE  lock' = lock \/ lock' = NoLease
  BY <1>5 DEF Tick, ReapLock, vars
<1> QED BY <1>2, <1>3, <1>4, <1>5 DEF Next

LEMMA ClockStep ==
  ASSUME TypeOK, [Next]_vars
  PROVE  clock' \in Nat /\ clock' >= clock
  BY Numbers DEF Next, WorkerStep, StartAcquire, StartRefresh, StartRelease, Start,
       ApplyAcquire, ApplyRefresh, ApplyRelease, LoadAfterRelease, Return, GiveUp,
       Crash, LandLate, Tick, ReapLock, vars

LEMMA BoundStep ==
  ASSUME BoundInv, [Next]_vars
  PROVE  BoundInv'
<1>1. TypeOK' /\ ReadingsBounded'
  BY TypeStep, ReadingsStep DEF BoundInv
<1>2. LeaseBounded'
  BY LockStep, ClockStep, Numbers DEF BoundInv, LeaseBounded, NoLease
<1> QED BY <1>1, <1>2 DEF BoundInv

\* A lease nobody releases ends at most one lease duration, and the skew, from
\* now; late calls included.
THEOREM LeaseAlwaysBounded == Spec => []LeaseBounded
<1>1. BoundInv /\ [Next]_vars => BoundInv'
  BY BoundStep
<1>2. BoundInv => LeaseBounded
  BY DEF BoundInv
<1> QED BY <1>1, <1>2, BoundInit, PTL DEF Spec

\* The stored lock passes from owner to owner only after its expiry, late calls
\* included.
THEOREM LockFailsClosed == Spec => FailsClosed
<1>1. BoundInv /\ [Next]_vars => BoundInv'
  BY BoundStep
<1>2. ASSUME BoundInv, [Next]_vars
      PROVE  [ lock.owner # None /\ lock'.owner \notin {None, lock.owner}
                 => lock.expires < clock + MaxSkew ]_vars
  BY <1>2, LockStep, Numbers DEF BoundInv, CanAcquire, NoLease
<1> QED BY <1>1, <1>2, BoundInit, PTL DEF Spec, FailsClosed

-----------------------------------------------------------------------------
(* Release, and the abstract lock.                                          *)

LEMMA ReleaseInit == Init => ReleaseInv
  BY TypeInit DEF Init, ReleaseInv, ReleasePastDelete, Idle

LEMMA ReleaseStep ==
  ASSUME MaxLate = 0, ReleaseInv, [Next]_vars
  PROVE  ReleaseInv'
<1> USE DEF ReleaseInv
<1>1. TypeOK'
  BY TypeStep
<1>2. ASSUME NEW w \in Workers,
             StartAcquire(w) \/ StartRefresh(w) \/ StartRelease(w)
      PROVE  ReleaseInv'
  <2>1. PICK step \in Requests, ttl \in TTLs \cup {0} : Start(w, step, ttl)
    BY <1>2 DEF StartAcquire, StartRefresh, StartRelease, Requests
  <2> QED BY <1>1, <2>1, StartEffect DEF ReleasePastDelete, Requests
<1>3. ASSUME NEW w \in Workers, ApplyAcquire(w) \/ ApplyRefresh(w)
      PROVE  ReleaseInv'
  <2>1. lock' = lock \/ lock'.owner = w
    BY <1>3 DEF ApplyAcquire, ApplyRefresh, Leased
  <2>2. PICK answer \in Answers \ {"released"} : Answer(w, answer)
    BY <1>3 DEF ApplyAcquire, ApplyRefresh, Answers
  <2> QED BY <1>1, <1>3, <2>1, <2>2, AnswerEffect
          DEF ApplyAcquire, ApplyRefresh, ReleasePastDelete, Answers
<1>4. ASSUME NEW w \in Workers, ApplyRelease(w)
      PROVE  ReleaseInv'
  <2>1. CASE CanRelease(lock, w)
    BY <1>1, <1>4, <2>1, AnswerEffect
       DEF ApplyRelease, ReleasePastDelete, Answers, NoLease
  <2>2. CASE ~CanRelease(lock, w)
    BY <1>1, <1>4, <2>2, AnswerEffect DEF ApplyRelease, ReleasePastDelete,
       CanRelease, Answers
  <2> QED BY <2>1, <2>2
<1>5. ASSUME NEW w \in Workers, LoadAfterRelease(w) PROVE ReleaseInv'
  BY <1>1, <1>5, AnswerEffect DEF LoadAfterRelease, ReleasePastDelete, Answers
<1>6. ASSUME NEW w \in Workers, Return(w) PROVE ReleaseInv'
  BY <1>1, <1>6 DEF Return, Idle, ReleasePastDelete, TypeOK
<1>7. ASSUME NEW w \in Workers, GiveUp(w) \/ Crash(w) PROVE ReleaseInv'
  <2>1. late' = {}
    BY <1>7, NoneLate DEF GiveUp, Crash
  <2> QED BY <1>1, <1>7, <2>1 DEF GiveUp, Crash, Forget, Idle, ReleasePastDelete, TypeOK
<1>8. ASSUME ReapLock PROVE ReleaseInv'
  BY <1>1, <1>8 DEF ReapLock, ReleasePastDelete, NoLease
<1>9. ASSUME Tick \/ UNCHANGED vars PROVE ReleaseInv'
  BY <1>1, <1>9 DEF Tick, vars, ReleasePastDelete
<1> QED
  BY <1>2, <1>3, <1>4, <1>5, <1>6, <1>7, <1>8, <1>9 DEF Next, WorkerStep

\* A release that reports success leaves no lock of its caller behind, for any
\* TTL inputs, provided no call lands late.
THEOREM ReleaseAlwaysFrees ==
  ASSUME MaxLate = 0
  PROVE  Spec => []ReleaseFrees
<1>1. ReleaseInv /\ [Next]_vars => ReleaseInv'
  BY ReleaseStep
<1>2. ReleaseInv => ReleaseFrees
  BY DEF ReleaseInv, ReleasePastDelete, ReleaseFrees
<1> QED BY <1>1, <1>2, ReleaseInit, PTL DEF Spec

\* A worker that comes to hold the lease was recorded in the lock before.
LEMMA NewHolderRecorded ==
  ASSUME LeaseInv, [Next]_vars, NEW w \in Workers, HoldsLease(w)'
  PROVE  \/ HoldsLease(w)
         \/ call[w].step = "granted" /\ clock + MaxSkew <= call[w].now + Duration
<1>1. TypeOK
  BY DEF LeaseInv
<1>2. clock \in Nat /\ clock' \in Nat /\ clock' >= clock /\ clock >= 1 /\ MaxSkew \in Nat
  BY <1>1, ClockStep, Numbers
<1>3. held'[w] \in {0, held[w]} \/
        (/\ call[w].step = "granted" /\ held'[w] = call[w].now + Duration)
  BY <1>1 DEF Next, WorkerStep, StartAcquire, StartRefresh, StartRelease,
       ApplyAcquire, ApplyRefresh, ApplyRelease, LoadAfterRelease, Return, GiveUp,
       Crash, LandLate, Tick, ReapLock, vars, TypeOK
<1>4. held[w] \in Nat /\ call[w].now \in Nat /\ Duration \in Nat
  BY <1>1, Numbers
<1> QED BY <1>2, <1>3, <1>4 DEF HoldsLease

\* The lease implements the abstract lock: workers come to hold it one at a
\* time, each only after the one before has stopped holding it.
THEOREM LeaseImplementsLock ==
  ASSUME MaxLate = 0, TTLCoversLease
  PROVE  Spec => ImplementsLeaseLock
<1>1. LeaseInv /\ [Next]_vars => LeaseInv'
  BY InvStep
<1>2. Init => Lock!Init
  BY DEF Init, Lock!Init, Holders, HoldsLease
<1>3. ASSUME LeaseInv, LeaseInv', [Next]_vars
      PROVE  [Lock!Next]_Holders
  <2>1. \A a, b \in Holders : a = b
    BY <1>3, InvImpliesExclusion DEF MutualExclusion, Holders
  <2>2. \A a, b \in Holders' : a = b
    BY <1>3 DEF LeaseInv, HolderRecorded, Records, Holders, HoldsLease
  <2>3. ASSUME NEW a \in Holders, NEW b \in Holders' PROVE a = b
    <3>1. a \in Workers /\ HoldsLease(a) /\ b \in Workers /\ HoldsLease(b)'
      BY DEF Holders
    <3>2. CASE HoldsLease(b)
      BY <2>1, <3>1, <3>2 DEF Holders
    <3>3. CASE call[b].step = "granted" /\ clock + MaxSkew <= call[b].now + Duration
      BY <1>3, <3>1, <3>3 DEF LeaseInv, HolderRecorded, Records, HoldsLease
    <3> QED BY <1>3, <3>1, <3>2, <3>3, NewHolderRecorded
  <2>4. Holders \subseteq Workers /\ Holders' \subseteq Workers
    BY DEF Holders
  <2>5. CASE Holders = {}
    <3>1. \/ Holders' = {}
          \/ \E w \in Workers : Holders' = {w}
      BY <2>2, <2>4
    <3> QED BY <2>5, <3>1 DEF Lock!Next, Lock!Grant
  <2>6. CASE Holders # {}
    <3>1. PICK w \in Workers : Holders = {w}
      BY <2>1, <2>4, <2>6
    <3>2. Holders' = {} \/ Holders' = {w}
      BY <2>3, <3>1
    <3> QED BY <3>1, <3>2 DEF Lock!Next, Lock!Lapse
  <2> QED BY <2>5, <2>6
<1> QED BY <1>1, <1>2, <1>3, InvInit, PTL DEF Spec, ImplementsLeaseLock, Lock!Spec

=============================================================================

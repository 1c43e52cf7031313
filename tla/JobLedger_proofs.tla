-------------------------- MODULE JobLedger_proofs --------------------------
(***************************************************************************)
(* Proofs about the whole of the ledger: the slots, the job and the request  *)
(* of MCJobLedger.  Those about JobSemaphore are for any set of workers, any *)
(* limits, lease duration and skew, and TTL inputs that cover the lease,     *)
(* those about JobStatus for any workers, statuses and bounds, those about   *)
(* JobRequest for any callers.                                              *)
(***************************************************************************)
EXTENDS MCJobLedger, FiniteSetTheorems, TLAPS

USE SkewAssumption, TTLsAssumption, NoneAssumption, DurationAssumption, LimitsAssumption
    DEF SkewAssumption, TTLsAssumption, NoneAssumption, DurationAssumption, LimitsAssumption

-----------------------------------------------------------------------------
(* The slots of the semaphore: types.                                       *)

LEMMA NoLeaseType == NoLease \in Lease
  BY DEF NoLease, Lease

LEMMA LeasedType ==
  ASSUME NEW lease \in Lease, NEW w \in Workers, NEW now \in Nat, NEW ttl \in Nat
  PROVE  /\ Leased(lease, w, now, ttl) \in Lease
         /\ Leased(lease, w, now, ttl).owner = w
         /\ Leased(lease, w, now, ttl).expires = now + Duration
         /\ Leased(lease, w, now, ttl).ttl =
              (IF ttl = 0 THEN lease.ttl ELSE now + ttl)
  BY DEF Leased, Lease, NormalizeTTL

LEMMA Numbers ==
  ASSUME TypeOK
  PROVE  /\ clock \in Nat /\ clock >= 1 /\ MaxSkew \in Nat /\ Duration \in Nat /\ Duration >= 1
         /\ \A i \in Slots : slots[i].expires \in Nat /\ slots[i].ttl \in Nat
         /\ \A w \in Workers :
              /\ call[w] \in Call
              /\ call[w].now \in Nat /\ call[w].ttl \in Nat
              /\ call[w].slot \in Slots /\ call[w].slot \in Nat /\ call[w].limit \in Nat
              /\ \A i \in Slots : held[w][i] \in Nat
              /\ Ahead[w] \in Nat /\ Ahead[w] <= MaxSkew
<1>1. Limit \in Nat /\ Slots \subseteq Nat /\ Limits \subseteq Nat
  BY DEF Slots
<1>2. clock \in Nat /\ clock >= 1 /\ MaxSkew \in Nat /\ Duration \in Nat /\ Duration >= 1
  BY DEF TypeOK
<1>3. ASSUME NEW i \in Slots PROVE slots[i].expires \in Nat /\ slots[i].ttl \in Nat
  BY DEF TypeOK, Lease
<1>4. ASSUME NEW w \in Workers
      PROVE  /\ call[w] \in Call
             /\ \A i \in Slots : held[w][i] \in Nat
             /\ Ahead[w] \in Nat /\ Ahead[w] <= MaxSkew
  BY DEF TypeOK
<1>5. ASSUME NEW c \in Call
      PROVE  /\ c.now \in Nat /\ c.ttl \in Nat
             /\ c.slot \in Slots /\ c.slot \in Nat /\ c.limit \in Nat
  <2>1. c.now \in Nat /\ c.ttl \in TTLs \cup {0} /\ c.slot \in Slots
          /\ c.limit \in Limits \cup {0}
    BY DEF Call
  <2>2. TTLs \cup {0} \subseteq Nat /\ Limits \cup {0} \subseteq Nat
    BY <1>1
  <2>3. c.ttl \in Nat
    BY <2>1, <2>2
  <2>4. c.limit \in Nat
    BY <2>1, <2>2
  <2>5. c.slot \in Nat
    BY <1>1, <2>1
  <2> QED BY <2>1, <2>3, <2>4, <2>5
<1> QED BY <1>2, <1>3, <1>4, <1>5

LEMMA IdleType == Idle \in Call
  BY DEF Idle, Call, Slots

LEMMA StartEffect ==
  ASSUME TypeOK, NEW w \in Workers, NEW c \in Call, Start(w, c)
  PROVE  /\ call' \in [Workers -> Call]
         /\ call[w].step = "idle"
         /\ call'[w] = c
         /\ \A u \in Workers \ {w} : call'[u] = call[u]
         /\ UNCHANGED <<clock, slots>>
  BY DEF Start, TypeOK

LEMMA AnswerEffect ==
  ASSUME TypeOK, NEW w \in Workers, NEW answer \in {"granted", "refused", "load"},
         NEW now \in Nat, Answer(w, answer, now)
  PROVE  /\ call' \in [Workers -> Call]
         /\ call'[w].step = answer
         /\ call'[w].slot = call[w].slot
         /\ call'[w].now = now
         /\ \A u \in Workers \ {w} : call'[u] = call[u]
<1>1. call[w].slot \in Slots
  BY Numbers
<1>2. [step |-> answer, slot |-> call[w].slot, limit |-> 0, now |-> now, ttl |-> 0] \in Call
  BY <1>1 DEF Call
<1> QED BY <1>2 DEF Answer, TypeOK

LEMMA DoneEffect ==
  ASSUME TypeOK, NEW w \in Workers, Done(w)
  PROVE  /\ call' \in [Workers -> Call]
         /\ call'[w] = Idle
         /\ \A u \in Workers \ {w} : call'[u] = call[u]
  BY IdleType DEF Done, TypeOK

LEMMA GrantEffect ==
  ASSUME TypeOK, NEW w \in Workers, Grant(w)
  PROVE  /\ slots' \in [Slots -> Lease]
         /\ slots'[call[w].slot] = Leased(slots[call[w].slot], w, call[w].now, call[w].ttl)
         /\ \A i \in Slots \ {call[w].slot} : slots'[i] = slots[i]
         /\ Answer(w, "granted", call[w].now)
<1>1. call[w].slot \in Slots /\ call[w].now \in Nat /\ call[w].ttl \in Nat
  BY Numbers
<1>2. Leased(slots[call[w].slot], w, call[w].now, call[w].ttl) \in Lease
  BY <1>1, LeasedType DEF TypeOK
<1> QED BY <1>1, <1>2 DEF Grant, TypeOK

\* A release stops holding one slot.
LEMMA DropEffect ==
  ASSUME TypeOK, NEW w \in Workers, NEW i \in Slots, NEW n \in Nat,
         held' = [held EXCEPT ![w][i] = n]
  PROVE  /\ held' \in [Workers -> [Slots -> Nat]]
         /\ held'[w][i] = n
         /\ \A j \in Slots \ {i} : held'[w][j] = held[w][j]
         /\ \A u \in Workers \ {w} : held'[u] = held[u]
  BY DEF TypeOK

LEMMA StartAcquireEffect ==
  ASSUME TypeOK, NEW w \in Workers, StartAcquire(w)
  PROVE  /\ call' \in [Workers -> Call]
         /\ call[w].step = "idle"
         /\ call'[w].step = "acquire"
         /\ call'[w].now = clock + Ahead[w]
         /\ call'[w].ttl \in TTLs
         /\ call'[w].slot = 0 /\ call'[w].limit \in Nat /\ 0 < call'[w].limit
         /\ \A u \in Workers \ {w} : call'[u] = call[u]
         /\ UNCHANGED <<clock, slots, held>>
<1>1. PICK limit \in Limits, ttl \in TTLs :
        Start(w, [step |-> "acquire", slot |-> 0, limit |-> limit,
                  now |-> clock + Ahead[w], ttl |-> ttl])
  BY DEF StartAcquire
<1>2. [step |-> "acquire", slot |-> 0, limit |-> limit, now |-> clock + Ahead[w],
       ttl |-> ttl] \in Call
  BY Numbers DEF Call, Slots
<1> QED BY <1>1, <1>2, StartEffect DEF StartAcquire

LEMMA StartRefreshEffect ==
  ASSUME TypeOK, NEW w \in Workers, StartRefresh(w)
  PROVE  /\ call' \in [Workers -> Call]
         /\ call[w].step = "idle"
         /\ call'[w].step = "refresh"
         /\ call'[w].now = clock + Ahead[w]
         /\ call'[w].ttl \in TTLs
         /\ \A u \in Workers \ {w} : call'[u] = call[u]
         /\ UNCHANGED <<clock, slots, held>>
<1>1. PICK i \in Slots, ttl \in TTLs :
        Start(w, [step |-> "refresh", slot |-> i, limit |-> 0,
                  now |-> clock + Ahead[w], ttl |-> ttl])
  BY DEF StartRefresh
<1>2. [step |-> "refresh", slot |-> i, limit |-> 0, now |-> clock + Ahead[w],
       ttl |-> ttl] \in Call
  BY Numbers DEF Call
<1> QED BY <1>1, <1>2, StartEffect DEF StartRefresh

LEMMA StartReleaseEffect ==
  ASSUME TypeOK, NEW w \in Workers, StartRelease(w)
  PROVE  /\ call' \in [Workers -> Call]
         /\ call[w].step = "idle"
         /\ call'[w].step = "release"
         /\ call'[w].now = 0
         /\ held' \in [Workers -> [Slots -> Nat]]
         /\ held'[w][call'[w].slot] = 0
         /\ \A j \in Slots : held'[w][j] \in {0, held[w][j]}
         /\ \A u \in Workers \ {w} : call'[u] = call[u] /\ held'[u] = held[u]
         /\ UNCHANGED <<clock, slots>>
<1>1. PICK i \in Slots :
        /\ Start(w, [step |-> "release", slot |-> i, limit |-> 0, now |-> 0, ttl |-> 0])
        /\ held' = [held EXCEPT ![w][i] = 0]
  BY DEF StartRelease
<1>2. [step |-> "release", slot |-> i, limit |-> 0, now |-> 0, ttl |-> 0] \in Call
  BY DEF Call
<1>3. /\ call' \in [Workers -> Call]
      /\ call[w].step = "idle"
      /\ call'[w] = [step |-> "release", slot |-> i, limit |-> 0, now |-> 0, ttl |-> 0]
      /\ \A u \in Workers \ {w} : call'[u] = call[u]
      /\ UNCHANGED <<clock, slots>>
  BY <1>1, <1>2, StartEffect
<1>4. /\ held' \in [Workers -> [Slots -> Nat]]
      /\ held'[w][i] = 0
      /\ \A j \in Slots \ {i} : held'[w][j] = held[w][j]
      /\ \A u \in Workers \ {w} : held'[u] = held[u]
  BY <1>1, DropEffect
<1> QED BY <1>3, <1>4

\* A slot that cannot be had: the acquire goes on within the limit of its call.
LEMMA NextSlotEffect ==
  ASSUME TypeOK, NEW w \in Workers, call[w].step = "acquire",
         call[w].slot + 1 < call[w].limit,
         call' = [call EXCEPT ![w].slot = @ + 1]
  PROVE  /\ call' \in [Workers -> Call]
         /\ call'[w].step = "acquire"
         /\ call'[w].slot < call'[w].limit
         /\ call'[w].now = call[w].now
         /\ call'[w].ttl = call[w].ttl
         /\ \A u \in Workers \ {w} : call'[u] = call[u]
<1>1. call[w] \in Call /\ call[w].slot \in Nat /\ call[w].limit \in Nat
  BY Numbers
<1>2. call[w].limit \in Limits /\ Limit \in Nat /\ call[w].limit <= Limit
  BY <1>1 DEF Call
<1>3. call[w].slot + 1 \in Slots
  BY <1>1, <1>2 DEF Slots
<1>4. call'[w] = [call[w] EXCEPT !.slot = @ + 1]
  BY DEF TypeOK
<1>5. call'[w] \in Call
  BY <1>1, <1>3, <1>4 DEF Call
<1>6. \A u \in Workers \ {w} : call'[u] = call[u]
  BY DEF TypeOK
<1>7. call' = [call EXCEPT ![w] = call'[w]]
  BY <1>4 DEF TypeOK
<1>8. call' \in [Workers -> Call]
  BY <1>5, <1>7 DEF TypeOK
<1> QED BY <1>1, <1>4, <1>6, <1>8 DEF Call

-----------------------------------------------------------------------------
(* The invariant.                                                           *)

LEMMA InvInit == Init => SlotInv
<1> SUFFICES ASSUME Init PROVE SlotInv
  OBVIOUS
<1>1. TypeOK
  BY NoLeaseType, IdleType DEF Init, TypeOK
<1>2. /\ clock = 1 /\ MaxSkew \in Nat /\ Duration \in Nat
      /\ \A w \in Workers :
           /\ call[w] = Idle /\ Ahead[w] \in Nat
           /\ \A i \in Slots : held[w][i] = 0
      /\ \A i \in Slots : slots[i] = NoLease
  BY DEF Init
<1>3. TTLAfterExpiry /\ LeakedSlotsLapse
  BY <1>2 DEF TTLAfterExpiry, LeakedSlotsLapse, NoLease
<1>4. ASSUME NEW w \in Workers PROVE InOrder(w) /\ HolderRecorded(w)
  BY <1>2 DEF InOrder, HolderRecorded, Records, Idle
<1> QED BY <1>1, <1>3, <1>4 DEF SlotInv

\* A step of one worker that leaves the items alone.
LEMMA WorkerKeepsInv ==
  ASSUME SlotInv, TypeOK', NEW w \in Workers, UNCHANGED <<clock, slots>>,
         \A u \in Workers \ {w} : call'[u] = call[u] /\ held'[u] = held[u],
         InOrder(w)', HolderRecorded(w)'
  PROVE  SlotInv'
<1>1. TTLAfterExpiry' /\ LeakedSlotsLapse'
  BY DEF SlotInv, TTLAfterExpiry, LeakedSlotsLapse
<1>2. ASSUME NEW u \in Workers, u # w PROVE InOrder(u)' /\ HolderRecorded(u)'
  BY <1>2 DEF SlotInv, InOrder, HolderRecorded, Records
<1> QED BY <1>1, <1>2 DEF SlotInv

LEMMA StartKeepsInv ==
  ASSUME SlotInv, NEW w \in Workers, StartAcquire(w) \/ StartRefresh(w) \/ StartRelease(w)
  PROVE  SlotInv'
<1>1. TypeOK /\ InOrder(w) /\ HolderRecorded(w)
  BY DEF SlotInv
<1>2. CASE StartAcquire(w) \/ StartRefresh(w)
  <2>1. /\ call' \in [Workers -> Call]
        /\ call'[w].step \in {"acquire", "refresh"}
        /\ call'[w].now = clock + Ahead[w]
        /\ call'[w].ttl \in TTLs
        /\ call'[w].step = "acquire" => call'[w].slot < call'[w].limit
        /\ \A u \in Workers \ {w} : call'[u] = call[u]
        /\ UNCHANGED <<clock, slots, held>>
    BY <1>1, <1>2, StartAcquireEffect, StartRefreshEffect
  <2>2. TypeOK'
    BY <1>1, <2>1 DEF TypeOK
  <2>3. InOrder(w)' /\ HolderRecorded(w)'
    BY <1>1, <2>1, Numbers DEF InOrder, HolderRecorded, Records
  <2> QED BY <2>1, <2>2, <2>3, WorkerKeepsInv
<1>3. CASE StartRelease(w)
  <2>1. /\ call' \in [Workers -> Call]
        /\ call'[w].step = "release"
        /\ call'[w].now = 0
        /\ held' \in [Workers -> [Slots -> Nat]]
        /\ held'[w][call'[w].slot] = 0
        /\ \A j \in Slots : held'[w][j] \in {0, held[w][j]}
        /\ \A u \in Workers \ {w} : call'[u] = call[u] /\ held'[u] = held[u]
        /\ UNCHANGED <<clock, slots>>
    BY <1>1, <1>3, StartReleaseEffect
  <2>2. TypeOK'
    BY <1>1, <2>1 DEF TypeOK
  <2>3. ASSUME NEW i \in Slots
        PROVE  held'[w][i] <= clock' + Ahead[w] + Duration /\ Records(w, i, held[w][i])'
    <3>1. held[w][i] <= clock + Ahead[w] + Duration /\ Records(w, i, held[w][i])
      BY <1>1 DEF InOrder, HolderRecorded
    <3>2. held'[w][i] \in {0, held[w][i]} /\ slots' = slots /\ clock' = clock
      BY <2>1
    <3> QED BY <1>1, <3>1, <3>2, Numbers DEF Records
  <2>4. InOrder(w)'
    BY <1>1, <2>1, <2>3, Numbers DEF InOrder
  <2>5. HolderRecorded(w)'
    BY <2>1, <2>3 DEF HolderRecorded
  <2> QED BY <2>1, <2>2, <2>4, <2>5, WorkerKeepsInv
<1> QED BY <1>2, <1>3

\* The end of a call, by its answer, by giving up or by a crash: the worker
\* holds of each slot what it was granted, what it held before, or nothing.
LEMMA EndKeepsInv ==
  ASSUME SlotInv, NEW w \in Workers, Done(w), UNCHANGED <<clock, slots>>,
         held' \in [Workers -> [Slots -> Nat]],
         \A u \in Workers \ {w} : held'[u] = held[u],
         \A i \in Slots :
             \/ held'[w][i] \in {0, held[w][i]}
             \/ /\ call[w].step = "granted" /\ i = call[w].slot
                /\ held'[w][i] = call[w].now + Duration
  PROVE  SlotInv'
<1>1. TypeOK /\ InOrder(w) /\ HolderRecorded(w)
  BY DEF SlotInv
<1>2. /\ call' \in [Workers -> Call]
      /\ call'[w] = Idle
      /\ \A u \in Workers \ {w} : call'[u] = call[u]
  BY <1>1, DoneEffect
<1>3. TypeOK'
  BY <1>1, <1>2 DEF TypeOK
<1> DEFINE granted == call[w].now + Duration
<1>4. ASSUME NEW i \in Slots
      PROVE  held'[w][i] <= clock' + Ahead[w] + Duration /\ Records(w, i, held[w][i])'
  <2>1. held[w][i] <= clock + Ahead[w] + Duration /\ Records(w, i, held[w][i])
    BY <1>1 DEF InOrder, HolderRecorded
  <2>2. CASE held'[w][i] \in {0, held[w][i]}
    BY <1>1, <2>1, <2>2, Numbers DEF Records
  <2>3. CASE call[w].step = "granted" /\ i = call[w].slot /\ held'[w][i] = granted
    <3>1. Records(w, i, granted) /\ call[w].now <= clock + Ahead[w]
      BY <1>1, <2>3 DEF InOrder, HolderRecorded
    <3> QED BY <1>1, <2>3, <3>1, Numbers DEF Records
  <2> QED BY <2>2, <2>3
<1>5. InOrder(w)'
  <2>1. call'[w].step = "idle" /\ call'[w].now = 0
    BY <1>2 DEF Idle
  <2> QED BY <1>1, <1>4, <2>1, Numbers DEF InOrder
<1>6. HolderRecorded(w)'
  BY <1>2, <1>4 DEF HolderRecorded, Idle
<1> QED BY <1>2, <1>3, <1>5, <1>6, WorkerKeepsInv

\* An answer that says no, and a call that goes on to the next slot.
LEMMA RefusalKeepsInv ==
  ASSUME SlotInv, NEW w \in Workers, NEW answer \in {"refused", "load"},
         Answer(w, answer, 0), UNCHANGED <<clock, slots, held>>
  PROVE  SlotInv'
<1>1. TypeOK /\ InOrder(w) /\ HolderRecorded(w)
  BY DEF SlotInv
<1>2. /\ call' \in [Workers -> Call]
      /\ call'[w].step = answer
      /\ call'[w].now = 0
      /\ \A u \in Workers \ {w} : call'[u] = call[u]
  BY <1>1, AnswerEffect
<1>3. TypeOK'
  BY <1>1, <1>2 DEF TypeOK
<1>4. InOrder(w)' /\ HolderRecorded(w)'
  BY <1>1, <1>2, Numbers DEF InOrder, HolderRecorded, Records
<1> QED BY <1>2, <1>3, <1>4, WorkerKeepsInv

LEMMA NextSlotKeepsInv ==
  ASSUME SlotInv, NEW w \in Workers, call[w].step = "acquire",
         call[w].slot + 1 < call[w].limit,
         call' = [call EXCEPT ![w].slot = @ + 1], UNCHANGED <<clock, slots, held>>
  PROVE  SlotInv'
<1>1. TypeOK /\ InOrder(w) /\ HolderRecorded(w)
  BY DEF SlotInv
<1>2. /\ call' \in [Workers -> Call]
      /\ call'[w].step = "acquire"
      /\ call'[w].slot < call'[w].limit
      /\ call'[w].now = call[w].now
      /\ call'[w].ttl = call[w].ttl
      /\ \A u \in Workers \ {w} : call'[u] = call[u]
  BY <1>1, NextSlotEffect
<1>3. TypeOK'
  BY <1>1, <1>2 DEF TypeOK
<1>4. InOrder(w)' /\ HolderRecorded(w)'
  BY <1>1, <1>2 DEF InOrder, HolderRecorded, Records
<1> QED BY <1>2, <1>3, <1>4, WorkerKeepsInv

-----------------------------------------------------------------------------
(* Writes to a slot.                                                        *)

\* Whoever works, or is about to work, under slot i.
ClaimsNot(u, i) ==
    /\ ~(clock + MaxSkew <= held[u][i])
    /\ call[u].step = "granted" /\ call[u].slot = i
         => ~(clock + MaxSkew <= call[u].now + Duration)

\* A write to a slot that nobody else claims disturbs nobody else.
LEMMA OthersUndisturbed ==
  ASSUME SlotInv, NEW i \in Slots, NEW u \in Workers, ClaimsNot(u, i),
         UNCHANGED <<clock, held>>, call'[u] = call[u],
         \A j \in Slots \ {i} : slots'[j] = slots[j]
  PROVE  InOrder(u)' /\ HolderRecorded(u)'
<1>1. TypeOK /\ InOrder(u) /\ HolderRecorded(u)
  BY DEF SlotInv
<1>2. InOrder(u)'
  BY <1>1 DEF InOrder
<1>3. ASSUME NEW j \in Slots PROVE Records(u, j, held[u][j])'
  <2>1. CASE j = i
    BY <2>1 DEF ClaimsNot, Records
  <2>2. CASE j # i
    BY <1>1, <2>2 DEF HolderRecorded, Records
  <2> QED BY <2>1, <2>2
<1>4. ASSUME call[u].step = "granted"
      PROVE  Records(u, call[u].slot, call[u].now + Duration)'
  <2>1. call[u].slot \in Slots
    BY <1>1, Numbers
  <2>2. CASE call[u].slot = i
    BY <1>4, <2>2 DEF ClaimsNot, Records
  <2>3. CASE call[u].slot # i
    BY <1>1, <1>4, <2>1, <2>3 DEF HolderRecorded, Records
  <2> QED BY <2>2, <2>3
<1> QED BY <1>2, <1>3, <1>4 DEF HolderRecorded

LEMMA GrantKeepsInv ==
  ASSUME SlotInv, TTLCoversLease, NEW w \in Workers,
         call[w].step \in {"acquire", "refresh"}, Grant(w),
         UNCHANGED <<clock, held>>,
         \A u \in Workers \ {w} : ClaimsNot(u, call[w].slot)
  PROVE  SlotInv'
<1> DEFINE i == call[w].slot
           now == call[w].now
           ttl == call[w].ttl
<1>1. TypeOK /\ InOrder(w) /\ HolderRecorded(w) /\ TTLAfterExpiry /\ LeakedSlotsLapse
  BY DEF SlotInv
<1>2. /\ slots' \in [Slots -> Lease]
      /\ slots'[i] = Leased(slots[i], w, now, ttl)
      /\ \A j \in Slots \ {i} : slots'[j] = slots[j]
      /\ Answer(w, "granted", now)
  BY <1>1, GrantEffect
<1>3. i \in Slots /\ now \in Nat /\ ttl \in Nat /\ ttl \in TTLs
  BY <1>1, Numbers DEF InOrder
<1>4. /\ call' \in [Workers -> Call]
      /\ call'[w].step = "granted"
      /\ call'[w].slot = i
      /\ call'[w].now = now
      /\ \A u \in Workers \ {w} : call'[u] = call[u]
  BY <1>1, <1>2, <1>3, AnswerEffect
<1>5. /\ slots'[i].owner = w
      /\ slots'[i].expires = now + Duration
      /\ slots'[i].ttl = (IF ttl = 0 THEN slots[i].ttl ELSE now + ttl)
  BY <1>2 DEF Leased, NormalizeTTL
<1>6. TypeOK'
  BY <1>1, <1>2, <1>4 DEF TypeOK
<1>7. TTLAfterExpiry'
  <2> SUFFICES ASSUME NEW j \in Slots
               PROVE  /\ slots'[j].ttl # 0 => slots'[j].expires <= slots'[j].ttl
                      /\ TTLs \subseteq {0} => slots'[j].ttl = 0
    BY DEF TTLAfterExpiry
  <2>1. CASE j # i
    BY <1>1, <1>2, <2>1 DEF TTLAfterExpiry
  <2>2. CASE j = i /\ TTLs \subseteq {0}
    BY <1>1, <1>3, <1>5, <2>2 DEF TTLAfterExpiry
  <2>3. CASE j = i /\ ~(TTLs \subseteq {0})
    <3>1. ttl >= Duration
      BY <1>3, <2>3 DEF TTLCoversLease
    <3> QED BY <1>1, <1>3, <1>5, <2>3, <3>1, Numbers
  <2> QED BY <2>1, <2>2, <2>3
<1>8. LeakedSlotsLapse'
  <2> SUFFICES ASSUME NEW j \in Slots
               PROVE  slots'[j].expires <= clock + MaxSkew + Duration
    BY DEF LeakedSlotsLapse
  <2>1. CASE j # i
    BY <1>1, <1>2, <2>1 DEF LeakedSlotsLapse
  <2>2. CASE j = i
    BY <1>1, <1>3, <1>5, <2>2, Numbers DEF InOrder
  <2> QED BY <2>1, <2>2
<1>9. InOrder(w)'
  BY <1>1, <1>4 DEF InOrder
<1>10. HolderRecorded(w)'
  <2>1. ASSUME NEW j \in Slots PROVE Records(w, j, held[w][j])'
    <3>1. CASE j # i
      BY <1>1, <1>2, <3>1 DEF HolderRecorded, Records
    <3>2. CASE j = i
      <4>1. held[w][j] <= now + Duration
        BY <1>1 DEF InOrder
      <4> QED BY <1>1, <1>3, <1>5, <3>2, <4>1, Numbers DEF Records
    <3> QED BY <3>1, <3>2
  <2>2. Records(w, call[w].slot, call[w].now + Duration)'
    BY <1>3, <1>4, <1>5, Numbers DEF Records
  <2> QED BY <2>1, <2>2 DEF HolderRecorded
<1>11. ASSUME NEW u \in Workers, u # w PROVE InOrder(u)' /\ HolderRecorded(u)'
  BY <1>2, <1>3, <1>4, <1>11, OthersUndisturbed
<1> QED BY <1>6, <1>7, <1>8, <1>9, <1>10, <1>11 DEF SlotInv

\* Nobody else claims a slot that w may acquire.
LEMMA AcquireExcludes ==
  ASSUME SlotInv, NEW w \in Workers, NEW u \in Workers \ {w},
         call[w].step = "acquire", CanAcquire(slots[call[w].slot], w, call[w].now)
  PROVE  ClaimsNot(u, call[w].slot)
<1> DEFINE i == call[w].slot
<1>1. TypeOK /\ InOrder(w) /\ HolderRecorded(u)
  BY DEF SlotInv
<1>2. /\ clock \in Nat /\ MaxSkew \in Nat /\ i \in Slots /\ slots[i].expires \in Nat
      /\ held[u][i] \in Nat /\ call[u].now \in Nat /\ call[w].now \in Nat
      /\ Duration \in Nat /\ Ahead[w] \in Nat /\ Ahead[w] <= MaxSkew
  BY <1>1, Numbers
<1>3. call[w].now <= clock + MaxSkew
  BY <1>1, <1>2 DEF InOrder
<1>4. slots[i].owner # u \/ slots[i].expires < clock + MaxSkew
  BY <1>2, <1>3 DEF CanAcquire
<1> QED BY <1>1, <1>2, <1>4 DEF HolderRecorded, Records, ClaimsNot

LEMMA TrySlotKeepsInv ==
  ASSUME SlotInv, TTLCoversLease, NEW w \in Workers, TrySlot(w)
  PROVE  SlotInv'
<1>1. CASE CanAcquire(slots[call[w].slot], w, call[w].now)
  BY <1>1, AcquireExcludes, GrantKeepsInv DEF TrySlot
<1>2. CASE call[w].slot + 1 < call[w].limit /\ ~CanAcquire(slots[call[w].slot], w, call[w].now)
  BY <1>2, NextSlotKeepsInv DEF TrySlot
<1>3. CASE /\ ~(call[w].slot + 1 < call[w].limit)
           /\ ~CanAcquire(slots[call[w].slot], w, call[w].now)
  BY <1>3, EndKeepsInv DEF TrySlot, SlotInv, TypeOK
<1> QED BY <1>1, <1>2, <1>3

LEMMA RefreshKeepsInv ==
  ASSUME SlotInv, TTLCoversLease, NEW w \in Workers, ApplyRefresh(w)
  PROVE  SlotInv'
<1>1. CASE CanRefresh(slots[call[w].slot], w, call[w].now)
  <2>1. call[w].slot \in Slots
    BY Numbers DEF SlotInv
  <2>2. ASSUME NEW u \in Workers \ {w} PROVE ClaimsNot(u, call[w].slot)
    BY <1>1, <2>1 DEF CanRefresh, SlotInv, HolderRecorded, Records, ClaimsNot
  <2> QED BY <1>1, <2>2, GrantKeepsInv DEF ApplyRefresh
<1>2. CASE ~CanRefresh(slots[call[w].slot], w, call[w].now)
  BY <1>2, RefusalKeepsInv DEF ApplyRefresh
<1> QED BY <1>1, <1>2

\* A slot that nobody claims is deleted.
LEMMA DeleteKeepsInv ==
  ASSUME SlotInv, NEW i \in Slots, slots' = [slots EXCEPT ![i] = NoLease],
         UNCHANGED <<clock, held>>, call' \in [Workers -> Call],
         \A u \in Workers : ClaimsNot(u, i),
         \A u \in Workers : call'[u] = call[u] \/ call'[u] = Idle
  PROVE  SlotInv'
<1>1. TypeOK /\ TTLAfterExpiry /\ LeakedSlotsLapse
  BY DEF SlotInv
<1>2. /\ slots' \in [Slots -> Lease]
      /\ slots'[i] = NoLease
      /\ \A j \in Slots \ {i} : slots'[j] = slots[j]
  BY <1>1, NoLeaseType DEF TypeOK
<1>3. TypeOK'
  BY <1>1, <1>2 DEF TypeOK
<1>4. TTLAfterExpiry'
  BY <1>1, <1>2 DEF TTLAfterExpiry, NoLease
<1>5. LeakedSlotsLapse'
  BY <1>1, <1>2, Numbers DEF LeakedSlotsLapse, NoLease
<1>6. ASSUME NEW u \in Workers PROVE InOrder(u)' /\ HolderRecorded(u)'
  <2>1. CASE call'[u] = call[u]
    BY <1>2, <2>1, OthersUndisturbed
  <2>2. CASE call'[u] = Idle
    <3>1. InOrder(u)'
      BY <1>1, <2>2, Numbers DEF SlotInv, InOrder, Idle
    <3>2. ASSUME NEW j \in Slots PROVE Records(u, j, held[u][j])'
      <4>1. CASE j = i
        BY <4>1 DEF ClaimsNot, Records
      <4>2. CASE j # i
        BY <1>2, <4>2 DEF SlotInv, HolderRecorded, Records
      <4> QED BY <4>1, <4>2
    <3> QED BY <2>2, <3>1, <3>2 DEF HolderRecorded, Idle
  <2> QED BY <2>1, <2>2
<1> QED BY <1>3, <1>4, <1>5, <1>6 DEF SlotInv

LEMMA ReleaseKeepsInv ==
  ASSUME SlotInv, NEW w \in Workers, ApplyRelease(w)
  PROVE  SlotInv'
<1> DEFINE i == call[w].slot
<1>1. TypeOK /\ InOrder(w)
  BY DEF SlotInv
<1>2. CASE CanRelease(slots[i], w)
  <2>1. i \in Slots
    BY <1>1, Numbers
  <2>2. ASSUME NEW u \in Workers PROVE ClaimsNot(u, i)
    <3>1. CASE u = w
      BY <1>1, <2>1, <3>1, Numbers DEF InOrder, ApplyRelease, ClaimsNot
    <3>2. CASE u # w
      BY <1>2, <2>1, <3>2 DEF CanRelease, SlotInv, HolderRecorded, Records, ClaimsNot
    <3> QED BY <3>1, <3>2
  <2>3. call' \in [Workers -> Call] /\ \A u \in Workers : call'[u] = call[u] \/ call'[u] = Idle
    BY <1>1, <1>2, DoneEffect DEF ApplyRelease
  <2> QED BY <1>2, <2>1, <2>2, <2>3, DeleteKeepsInv DEF ApplyRelease
<1>3. CASE ~CanRelease(slots[i], w)
  BY <1>3, RefusalKeepsInv DEF ApplyRelease
<1> QED BY <1>2, <1>3

LEMMA ReapKeepsInv ==
  ASSUME SlotInv, NEW i \in Slots, ReapSlot(i)
  PROVE  SlotInv'
<1>1. TypeOK
  BY DEF SlotInv
<1>2. slots[i].expires < clock
  BY <1>1, Numbers DEF SlotInv, TTLAfterExpiry, ReapSlot, CanReap
<1>3. ASSUME NEW u \in Workers PROVE ClaimsNot(u, i)
  BY <1>1, <1>2, Numbers DEF SlotInv, HolderRecorded, Records, ClaimsNot
<1> QED BY <1>1, <1>3, DeleteKeepsInv DEF ReapSlot, TypeOK

LEMMA TickKeepsInv ==
  ASSUME SlotInv, Tick
  PROVE  SlotInv'
<1>1. TypeOK /\ clock' = clock + 1 /\ UNCHANGED <<slots, call, held>>
  BY DEF SlotInv, Tick
<1>2. TypeOK'
  BY <1>1 DEF TypeOK
<1>3. TTLAfterExpiry'
  BY <1>1 DEF SlotInv, TTLAfterExpiry
<1>4. LeakedSlotsLapse'
  BY <1>1, Numbers DEF SlotInv, LeakedSlotsLapse
<1>5. ASSUME NEW w \in Workers PROVE InOrder(w)'
  BY <1>1, Numbers DEF SlotInv, InOrder
<1>6. ASSUME NEW w \in Workers PROVE HolderRecorded(w)'
  BY <1>1, Numbers DEF SlotInv, HolderRecorded, Records
<1> QED BY <1>2, <1>3, <1>4, <1>5, <1>6 DEF SlotInv

LEMMA InvStep ==
  ASSUME TTLCoversLease, SlotInv, [Next]_vars
  PROVE  SlotInv'
<1>1. ASSUME NEW w \in Workers, WorkerStep(w) PROVE SlotInv'
  <2>1. CASE LoadAfterRelease(w) \/ GiveUp(w)
    BY <2>1, EndKeepsInv DEF LoadAfterRelease, GiveUp, SlotInv, TypeOK
  <2>2. CASE Crash(w)
    <3>1. /\ held' \in [Workers -> [Slots -> Nat]]
          /\ \A i \in Slots : held'[w][i] = 0
          /\ \A u \in Workers \ {w} : held'[u] = held[u]
      BY <2>2 DEF Crash, SlotInv, TypeOK
    <3> QED BY <2>2, <3>1, EndKeepsInv DEF Crash
  <2>3. CASE Return(w)
    <3> DEFINE c == call[w]
               n == IF c.step = "granted" THEN c.now + Duration ELSE 0
    <3>1. TypeOK /\ c.slot \in Slots /\ n \in Nat /\ held' = [held EXCEPT ![w][c.slot] = n]
      BY <2>3, Numbers DEF Return, SlotInv
    <3>2. /\ held' \in [Workers -> [Slots -> Nat]]
          /\ held'[w][c.slot] = n
          /\ \A j \in Slots \ {c.slot} : held'[w][j] = held[w][j]
          /\ \A u \in Workers \ {w} : held'[u] = held[u]
      <4> HIDE DEF n
      <4> QED BY <3>1, DropEffect
    <3>3. Done(w) /\ UNCHANGED <<clock, slots>>
      BY <2>3 DEF Return
    <3>4. ASSUME NEW i \in Slots
          PROVE  \/ held'[w][i] \in {0, held[w][i]}
                 \/ c.step = "granted" /\ i = c.slot /\ held'[w][i] = c.now + Duration
      BY <3>2
    <3> QED BY <3>2, <3>3, <3>4, EndKeepsInv
  <2> QED BY <1>1, <2>1, <2>2, <2>3, StartKeepsInv, TrySlotKeepsInv, RefreshKeepsInv,
             ReleaseKeepsInv DEF WorkerStep
<1>2. CASE UNCHANGED vars
  BY <1>2 DEF vars, SlotInv, TypeOK, TTLAfterExpiry, LeakedSlotsLapse, InOrder,
              HolderRecorded, Records
<1> QED BY <1>1, <1>2, ReapKeepsInv, TickKeepsInv DEF Next

LEMMA InvAlways ==
  ASSUME TTLCoversLease
  PROVE  Spec => []SlotInv
<1>1. SlotInv /\ [Next]_vars => SlotInv'
  BY InvStep
<1> QED BY <1>1, InvInit, PTL DEF Spec

-----------------------------------------------------------------------------
(* What follows from the invariant.                                         *)

LEMMA InvImpliesExclusion == SlotInv => SlotExclusion
<1> SUFFICES ASSUME SlotInv, NEW v \in Workers, NEW w \in Workers, NEW i \in Slots,
                    HoldsSlot(v, i), HoldsSlot(w, i)
             PROVE  v = w
  BY DEF SlotExclusion
<1> QED BY DEF SlotInv, HolderRecorded, Records, HoldsSlot

\* A slot counts for one worker only, for any number of workers and slots, any
\* lease duration and skew, when TTL inputs cover the lease or are not used.
THEOREM SlotsExclude ==
  ASSUME TTLCoversLease
  PROVE  Spec => []SlotExclusion
  BY InvAlways, InvImpliesExclusion, PTL

\* A slot nobody releases is free again after one lease duration and the skew.
THEOREM SlotsLapse ==
  ASSUME TTLCoversLease
  PROVE  Spec => []LeakedSlotsLapse
<1>1. SlotInv => LeakedSlotsLapse
  BY DEF SlotInv
<1> QED BY <1>1, InvAlways, PTL

\* InspectSemaphore counts every slot that is held and can be refreshed.
THEOREM InspectionCoversHolders ==
  ASSUME TTLCoversLease
  PROVE  Spec => []OccupancyCoversHolders
<1>1. ASSUME SlotInv, NEW now \in clock .. clock + MaxSkew, NEW w \in Workers,
             NEW i \in Slots, HoldsSlot(w, i), now < held[w][i]
      PROVE  i \in Active(now)
  <2>1. TypeOK /\ HolderRecorded(w)
    BY <1>1 DEF SlotInv
  <2>2. held[w][i] <= slots[i].expires
    BY <1>1, <2>1 DEF HolderRecorded, Records, HoldsSlot
  <2>3. slots[i].expires \in Nat /\ held[w][i] \in Nat /\ now \in Int
    BY <2>1, Numbers
  <2> QED BY <1>1, <2>2, <2>3 DEF Active
<1>2. SlotInv => OccupancyCoversHolders
  BY <1>1 DEF OccupancyCoversHolders
<1> QED BY <1>2, InvAlways, PTL

-----------------------------------------------------------------------------
(* The abstract semaphore.                                                  *)

\* Each holder has a slot of its own: there are no more of them than slots.
LEMMA HoldersFit ==
  ASSUME SlotInv
  PROVE  IsFiniteSet(Holders) /\ Cardinality(Holders) <= Limit
<1> DEFINE f == [w \in Holders |-> CHOOSE i \in Slots : HoldsSlot(w, i)]
<1>1. ASSUME NEW w \in Holders PROVE w \in Workers /\ f[w] \in Slots /\ HoldsSlot(w, f[w])
  BY DEF Holders
<1>2. ASSUME NEW a \in Holders, NEW b \in Holders, f[a] = f[b] PROVE a = b
  <2> HIDE DEF f
  <2> QED BY <1>1, <1>2, InvImpliesExclusion DEF SlotExclusion
<1>3. f \in Injection(Holders, Slots)
  BY <1>1, <1>2 DEF Injection, IsInjective
<1>4. IsFiniteSet(Slots) /\ Cardinality(Slots) = Limit
  BY FS_Interval DEF Slots
<1> QED BY <1>3, <1>4, FS_Injection

\* A worker's step is about the slots it holds itself; any other step takes
\* none and gives none.
LEMMA HeldStep ==
  ASSUME TypeOK, [Next]_vars
  PROVE  \/ \E w \in Workers : /\ clock' = clock
                               /\ \A u \in Workers \ {w} : held'[u] = held[u]
         \/ clock' \in {clock, clock + 1} /\ held' = held
<1>1. ASSUME NEW w \in Workers, WorkerStep(w)
      PROVE  clock' = clock /\ \A u \in Workers \ {w} : held'[u] = held[u]
  BY <1>1 DEF WorkerStep, StartAcquire, StartRefresh, StartRelease, Start, TrySlot,
     ApplyRefresh, ApplyRelease, LoadAfterRelease, Return, GiveUp, Crash, TypeOK
<1>2. ASSUME Tick \/ (\E i \in Slots : ReapSlot(i)) \/ UNCHANGED vars
      PROVE  clock' \in {clock, clock + 1} /\ held' = held
  BY <1>2 DEF Tick, ReapSlot, vars
<1> QED BY <1>1, <1>2 DEF Next

\* The workers with slots are the holders of a semaphore with Limit permits:
\* they enter one at a time, when fewer than Limit hold one.
THEOREM SlotsImplementSemaphore ==
  ASSUME TTLCoversLease
  PROVE  Spec => ImplementsSemaphore
<1>1. SlotInv /\ [Next]_vars => SlotInv'
  BY InvStep
<1>2. ASSUME Init PROVE Permits!Init
  <2>1. clock = 1 /\ MaxSkew \in Nat /\ \A w \in Workers, i \in Slots : held[w][i] = 0
    BY <1>2 DEF Init
  <2> QED BY <2>1 DEF Permits!Init, Holders, HoldsSlot
<1> DEFINE Fit == IsFiniteSet(Holders) /\ Cardinality(Holders) <= Limit
<1>3. ASSUME SlotInv, Fit, Fit', [Next]_vars
      PROVE  [Permits!Next]_Holders
  <2>1. TypeOK
    BY <1>3 DEF SlotInv
  <2>2. CASE clock' \in {clock, clock + 1} /\ held' = held
    <3>1. Holders' \subseteq Holders
      <4> SUFFICES ASSUME NEW w \in Workers, NEW i \in Slots, HoldsSlot(w, i)'
                   PROVE  HoldsSlot(w, i)
        BY DEF Holders
      <4>1. clock \in Nat /\ MaxSkew \in Nat /\ held[w][i] \in Nat
        BY <2>1, Numbers
      <4> QED BY <2>2, <4>1 DEF HoldsSlot
    <3> QED BY <3>1 DEF Permits!Next, Permits!Lapse
  <2>3. ASSUME NEW w \in Workers, clock' = clock,
               \A u \in Workers \ {w} : held'[u] = held[u]
        PROVE  [Permits!Next]_Holders
    <3>1. \A u \in Workers \ {w} : u \in Holders' <=> u \in Holders
      BY <2>3 DEF Holders, HoldsSlot
    <3>2. Holders \subseteq Workers /\ Holders' \subseteq Workers
      BY DEF Holders
    <3>3. CASE w \in Holders \/ w \notin Holders'
      <4>1. Holders' \subseteq Holders
        BY <3>1, <3>2, <3>3
      <4> QED BY <4>1 DEF Permits!Next, Permits!Lapse
    <3>4. CASE w \notin Holders /\ w \in Holders'
      <4>1. Holders' = Holders \cup {w}
        BY <3>1, <3>2, <3>4
      <4>2. IsFiniteSet(Holders) /\ Cardinality(Holders') <= Limit
        BY <1>3
      <4>3. Cardinality(Holders') = Cardinality(Holders) + 1
        BY <3>4, <4>1, <4>2, FS_AddElement
      <4>4. Cardinality(Holders) < Limit
        BY <4>2, <4>3, FS_CardinalityType
      <4>5. Permits!Enter(w)
        BY <3>4, <4>1, <4>4 DEF Permits!Enter, Permits!Cardinality, Cardinality
      <4> QED BY <4>5 DEF Permits!Next
    <3> QED BY <3>3, <3>4
  <2> QED BY <1>3, <2>1, <2>2, <2>3, HeldStep
<1>4. SlotInv => Fit
  BY HoldersFit
<1> HIDE DEF Fit
<1> QED BY <1>1, <1>2, <1>3, <1>4, InvInit, PTL DEF Spec, ImplementsSemaphore, Permits!Spec

HIDE DEF SkewAssumption, TTLsAssumption, NoneAssumption, DurationAssumption, LimitsAssumption

-----------------------------------------------------------------------------
(* The job.                                                                 *)

\* Jobs seen have been created; the item is the newest state of the last one.
PastCreated == \A j \in jobs : j.life <= lives
ItemNewest ==
    meta # Status!NoJob =>
        /\ meta \in jobs
        /\ meta.life = lives
        /\ \A j \in jobs : j.life = lives => j.version <= meta.version
ExpectedSeen ==
    \A w \in JobWorkers : jobCall[w].step = "transition" => jobCall[w].expected \in jobs

StatusInv ==
    /\ Status!TypeOK
    /\ Status!VersionNamesState
    /\ PastCreated
    /\ ItemNewest
    /\ ExpectedSeen

LEMMA NoJobNotJob == Status!NoJob \notin Status!Job
  BY DEF Status!NoJob, Status!Job

LEMMA JobCallFields ==
  ASSUME NEW c \in Status!Call
  PROVE  /\ c.step = "create" => c.to \in Statuses
         /\ c.step = "transition" =>
              c.to \in Statuses /\ c.expected \in Status!Job /\ c.checkStatus \in BOOLEAN
  BY DEF Status!Call

LEMMA InitStatus == Status!Init => StatusInv
  BY DEF Status!Init, StatusInv, Status!TypeOK, Status!VersionNamesState, PastCreated,
         ItemNewest, ExpectedSeen, Status!Call, Status!Idle

\* An answer ends its caller's call and no other.
LEMMA JobAnswerEffect ==
  ASSUME Status!TypeOK, NEW w \in JobWorkers, NEW answer \in {"idle", "granted", "conflict"},
         Status!Answer(w, answer)
  PROVE  /\ jobCall' \in [JobWorkers -> Status!Call]
         /\ jobCall'[w].step = answer
         /\ \A u \in JobWorkers \ {w} : jobCall'[u] = jobCall[u]
  BY DEF Status!Answer, Status!TypeOK, Status!Call

\* Calls that start or end leave the item alone.
LEMMA SameItem ==
  ASSUME StatusInv, jobCall' \in [JobWorkers -> Status!Call], UNCHANGED <<meta, lives, jobs>>,
         \A w \in JobWorkers : jobCall'[w].step = "transition" => jobCall'[w].expected \in jobs
  PROVE  StatusInv'
  BY DEF StatusInv, Status!TypeOK, Status!VersionNamesState, PastCreated,
         ItemNewest, ExpectedSeen

LEMMA StartCreateKeeps ==
  ASSUME StatusInv, NEW w \in JobWorkers, Status!StartCreate(w)
  PROVE  StatusInv'
<1>1. PICK s \in Statuses : jobCall' = [jobCall EXCEPT ![w] = [step |-> "create", to |-> s]]
  BY DEF Status!StartCreate
<1>2. jobCall' \in [JobWorkers -> Status!Call]
  BY <1>1 DEF StatusInv, Status!TypeOK, Status!Call
<1>3. \A u \in JobWorkers : jobCall'[u].step = "transition" => jobCall'[u].expected \in jobs
  BY <1>1 DEF StatusInv, Status!TypeOK, ExpectedSeen
<1> QED BY <1>2, <1>3, SameItem DEF Status!StartCreate

LEMMA StartTransitionKeeps ==
  ASSUME StatusInv, NEW w \in JobWorkers, Status!StartTransition(w)
  PROVE  StatusInv'
<1>1. PICK job \in jobs, s \in Statuses, check \in BOOLEAN :
        jobCall' = [jobCall EXCEPT ![w] = [step |-> "transition", checkStatus |-> check,
                                     expected |-> job, to |-> s]]
  BY DEF Status!StartTransition
<1>2. job \in Status!Job
  BY DEF StatusInv, Status!TypeOK
<1>3. jobCall' \in [JobWorkers -> Status!Call]
  BY <1>1, <1>2 DEF StatusInv, Status!TypeOK, Status!Call
<1>4. \A u \in JobWorkers : jobCall'[u].step = "transition" => jobCall'[u].expected \in jobs
  BY <1>1 DEF StatusInv, Status!TypeOK, ExpectedSeen
<1> QED BY <1>3, <1>4, SameItem DEF Status!StartTransition

LEMMA JobEndKeeps ==
  ASSUME StatusInv, NEW w \in JobWorkers, NEW answer \in {"idle", "conflict"},
         Status!Answer(w, answer), UNCHANGED <<meta, lives, jobs>>
  PROVE  StatusInv'
  BY JobAnswerEffect, SameItem DEF StatusInv, ExpectedSeen

\* A job that is newer than all that were seen keeps the invariant.
LEMMA WriteKeeps ==
  ASSUME StatusInv, NEW w \in JobWorkers, NEW job \in Status!Job, Status!Write(w, job),
         lives' \in Nat, job.life = lives', lives <= lives',
         \A j \in jobs : j.life = lives' => j.version < job.version
  PROVE  StatusInv'
<1>1. /\ jobCall' \in [JobWorkers -> Status!Call]
      /\ jobCall'[w].step = "granted"
      /\ \A u \in JobWorkers \ {w} : jobCall'[u] = jobCall[u]
  BY JobAnswerEffect DEF Status!Write, StatusInv
<1>2. jobs' = jobs \cup {job} /\ meta' = job /\ jobs \subseteq Status!Job /\ lives \in Nat
  BY DEF Status!Write, StatusInv, Status!TypeOK
<1>3. \A j \in jobs : j.life \in Nat /\ j.version \in Nat /\ j.life <= lives
  BY <1>2 DEF Status!Job, StatusInv, PastCreated
<1>4. job.life \in Nat /\ job.version \in Nat
  BY DEF Status!Job
<1>5. Status!TypeOK'
  BY <1>1, <1>2 DEF Status!TypeOK
<1>6. Status!VersionNamesState'
  BY <1>2, <1>3, <1>4 DEF Status!VersionNamesState, StatusInv
<1>7. PastCreated'
  BY <1>2, <1>3 DEF PastCreated
<1>8. ItemNewest'
  BY <1>2, <1>3, <1>4 DEF ItemNewest
<1>9. ExpectedSeen'
  BY <1>1, <1>2 DEF ExpectedSeen, StatusInv
<1> QED BY <1>5, <1>6, <1>7, <1>8, <1>9 DEF StatusInv

LEMMA ApplyCreateKeeps ==
  ASSUME StatusInv, NEW w \in JobWorkers, Status!ApplyCreate(w)
  PROVE  StatusInv'
<1>1. CASE meta = Status!NoJob /\ lives' = lives + 1 /\ Status!Write(w, Status!NewJob(w))
  <2>1. jobCall[w] \in Status!Call /\ jobCall[w].step = "create" /\ lives \in Nat
    BY DEF Status!ApplyCreate, StatusInv, Status!TypeOK
  <2>2. Status!NewJob(w) \in Status!Job /\ Status!NewJob(w).life = lives'
    BY <1>1, <2>1, JobCallFields DEF Status!NewJob, Status!Job
  <2>3. \A j \in jobs : j.life = lives' => j.version < Status!NewJob(w).version
    BY <1>1, <2>1 DEF StatusInv, Status!TypeOK, PastCreated, Status!Job
  <2> QED BY <1>1, <2>1, <2>2, <2>3, WriteKeeps
<1>2. CASE Status!Answer(w, "conflict") /\ UNCHANGED <<meta, lives, jobs>>
  BY <1>2, JobEndKeeps
<1> QED BY <1>1, <1>2 DEF Status!ApplyCreate

LEMMA ApplyTransitionKeeps ==
  ASSUME StatusInv, NEW w \in JobWorkers, Status!ApplyTransition(w)
  PROVE  StatusInv'
<1>1. CASE Status!Matches(jobCall[w]) /\ Status!Write(w, Status!Transitioned(jobCall[w]))
  <2>1. jobCall[w] \in Status!Call /\ jobCall[w].step = "transition"
    BY DEF Status!ApplyTransition, StatusInv, Status!TypeOK
  <2>2. meta \in Status!Job /\ meta \in jobs /\ meta.life = lives
    BY <1>1 DEF Status!Matches, StatusInv, Status!TypeOK, ItemNewest
  <2>3. /\ Status!Transitioned(jobCall[w]) \in Status!Job
        /\ Status!Transitioned(jobCall[w]).life = meta.life
        /\ Status!Transitioned(jobCall[w]).version = meta.version + 1
    BY <2>1, <2>2, JobCallFields DEF Status!Transitioned, Status!Job
  <2>4. \A j \in jobs : j.life = lives => j.version < meta.version + 1
    BY <1>1, <2>2 DEF Status!Matches, StatusInv, Status!TypeOK, ItemNewest, Status!Job
  <2>5. lives' = lives /\ lives \in Nat
    BY DEF Status!ApplyTransition, StatusInv, Status!TypeOK
  <2> QED BY <1>1, <2>2, <2>3, <2>4, <2>5, WriteKeeps
<1>2. CASE Status!Answer(w, "conflict") /\ UNCHANGED <<meta, lives, jobs>>
  BY <1>2, JobEndKeeps
<1> QED BY <1>1, <1>2 DEF Status!ApplyTransition

LEMMA ReapKeeps ==
  ASSUME StatusInv, Status!ReapJob
  PROVE  StatusInv'
  BY DEF Status!ReapJob, StatusInv, Status!TypeOK, Status!VersionNamesState, PastCreated,
         ItemNewest, ExpectedSeen

LEMMA StatusStep ==
  ASSUME StatusInv, [Status!Next]_(Status!vars)
  PROVE  StatusInv'
<1>1. ASSUME NEW w \in JobWorkers, Status!Return(w) \/ Status!GiveUp(w) PROVE StatusInv'
  BY <1>1, JobEndKeeps DEF Status!Return, Status!GiveUp
<1>2. ASSUME UNCHANGED Status!vars PROVE StatusInv'
  BY <1>2 DEF Status!vars, StatusInv, Status!TypeOK, Status!VersionNamesState, PastCreated,
              ItemNewest, ExpectedSeen
<1> QED
  BY <1>1, <1>2, StartCreateKeeps, StartTransitionKeeps, ApplyCreateKeeps,
     ApplyTransitionKeeps, ReapKeeps DEF Status!Next

LEMMA StatusAlways == Status!Spec => []StatusInv
<1>1. StatusInv /\ [Status!Next]_(Status!vars) => StatusInv'
  BY StatusStep
<1> QED BY <1>1, InitStatus, PTL DEF Status!Spec

\* Between one creation of a job and its deletion no two states of it have the
\* same version, for any number of workers and transitions.
THEOREM VersionsNameStates == Status!Spec => []Status!VersionNamesState
<1>1. StatusInv => Status!VersionNamesState
  BY DEF StatusInv
<1> QED BY <1>1, StatusAlways, PTL

\* A transition that succeeds replaced the job its caller had decided on, though
\* TransitionJobStatus checks the version only: the version names the job.
THEOREM TransitionsNotLost == Status!Spec => Status!NoLostUpdate
<1>1. ASSUME StatusInv, [Status!Next]_(Status!vars), NEW w \in JobWorkers,
             jobCall[w].step = "transition", jobCall'[w].step = "granted",
             meta.life = jobCall[w].expected.life
      PROVE  meta = jobCall[w].expected
  <2>1. Status!ApplyTransition(w)
    <3>1. ASSUME NEW u \in JobWorkers, u # w,
                 \/ Status!StartCreate(u) \/ Status!StartTransition(u) \/ Status!ApplyCreate(u)
                 \/ Status!ApplyTransition(u) \/ Status!Return(u) \/ Status!GiveUp(u)
          PROVE  FALSE
      BY <1>1, <3>1 DEF Status!StartCreate, Status!StartTransition, Status!ApplyCreate,
                        Status!ApplyTransition, Status!Return, Status!GiveUp,
                        Status!Write, Status!Answer, StatusInv, Status!TypeOK
    <3>2. ~(Status!ReapJob \/ UNCHANGED Status!vars)
      BY <1>1 DEF Status!ReapJob, Status!vars
    <3>3. ~(\/ Status!StartCreate(w) \/ Status!StartTransition(w)
            \/ Status!ApplyCreate(w) \/ Status!Return(w))
      BY <1>1 DEF Status!StartCreate, Status!StartTransition, Status!ApplyCreate, Status!Return
    <3>4. ~Status!GiveUp(w)
      BY <1>1, JobAnswerEffect DEF Status!GiveUp, StatusInv
    <3> QED BY <1>1, <3>1, <3>2, <3>3, <3>4 DEF Status!Next
  <2>2. Status!Matches(jobCall[w])
    BY <1>1, <2>1, JobAnswerEffect DEF Status!ApplyTransition, StatusInv
  <2>3. jobCall[w].expected \in jobs /\ meta \in jobs
    BY <1>1, <2>2 DEF StatusInv, ExpectedSeen, ItemNewest, Status!Matches
  <2> QED BY <1>1, <2>2, <2>3 DEF Status!Matches, StatusInv, Status!VersionNamesState
<1>2. StatusInv /\ [Status!Next]_(Status!vars) =>
        [ \A w \in JobWorkers :
            jobCall[w].step = "transition" /\ jobCall'[w].step = "granted"
              => (meta.life = jobCall[w].expected.life => meta = jobCall[w].expected) ]_(Status!vars)
  BY <1>1
<1> QED BY <1>2, StatusAlways, PTL DEF Status!Spec, Status!NoLostUpdate

-----------------------------------------------------------------------------
(* The request of one idempotency key.                                      *)

RequestTypes ==
    /\ req \in Request!Request \cup {Request!NoRequest}
    /\ reaped \in Nat
    /\ requests \subseteq Request!Request
    /\ caller \in [Callers -> Request!Steps]
    /\ life \in [Callers -> Nat]
    /\ effects \subseteq Callers

CreatedBy(c) == \E r \in requests : r.creator = c

\* A record is of the life that goes on, and of one creator.
ItemCurrent == req # Request!NoRequest => req \in requests /\ life[req.creator] = reaped
OldIsOver == req = Request!NoRequest => \A r \in requests : life[r.creator] < reaped
LivesUpToNow == \A c \in Callers : life[c] <= reaped
OneCreator ==
    \A r, s \in requests : life[r.creator] = life[s.creator] => r.creator = s.creator
LivesCreated == \A k \in 0 .. reaped - 1 : \E r \in requests : life[r.creator] = k
CreatorsWentOn == \A r \in requests : caller[r.creator] # "create"

\* Only a creator gets to the effect, and nobody to the completion without it.
EffectByCreator ==
    \A c \in Callers :
        /\ caller[c] \in {"effect", "complete", "ok"} \/ c \in effects => CreatedBy(c)
        /\ caller[c] \in {"complete", "ok"} => c \in effects
CompletedAfterEffect ==
    \A r \in requests :
        /\ r.status = "COMPLETED" => \E c \in effects : r.by = {c}
        /\ r.status = "IN_PROGRESS" => r.by = {}
ToldAfterEffect == \A c \in Callers : caller[c] = "already_completed" => effects # {}

RequestInv ==
    /\ RequestTypes
    /\ ItemCurrent
    /\ OldIsOver
    /\ LivesUpToNow
    /\ OneCreator
    /\ LivesCreated
    /\ CreatorsWentOn
    /\ EffectByCreator
    /\ CompletedAfterEffect
    /\ ToldAfterEffect

USE DEF Request!Goes

LEMMA RequestType ==
  /\ Request!NoRequest \notin Request!Request
  /\ \A r \in Request!Request :
        /\ r.creator \in Callers /\ r.by \in SUBSET Callers
        /\ r.status \in {"IN_PROGRESS", "COMPLETED"}
  BY DEF Request!NoRequest, Request!Request

LEMMA RequestInit == Request!Init => RequestInv
  BY DEF Request!Init, RequestInv, RequestTypes, ItemCurrent, OldIsOver, LivesUpToNow,
         OneCreator, LivesCreated, CreatorsWentOn, EffectByCreator, CompletedAfterEffect,
         ToldAfterEffect, CreatedBy, Request!Steps

\* A caller's step that leaves the record alone.
LEMMA CallerStep ==
  ASSUME RequestInv, NEW c \in Callers, NEW step \in Request!Steps \ {"create"},
         Request!Goes(c, step), effects' \in {effects, effects \cup {c}},
         UNCHANGED <<req, reaped, requests, life>>,
         step \in {"effect", "complete", "ok"} \/ c \in effects' => CreatedBy(c),
         step \in {"complete", "ok"} => c \in effects',
         step = "already_completed" => effects # {}
  PROVE  RequestInv'
<1>1. RequestTypes'
  BY DEF RequestInv, RequestTypes
<1>2. \A d \in Callers : caller'[d] = IF d = c THEN step ELSE caller[d]
  BY DEF RequestInv, RequestTypes
<1>3. EffectByCreator' /\ ToldAfterEffect'
  BY <1>2 DEF RequestInv, EffectByCreator, ToldAfterEffect, CreatedBy
<1>4. CompletedAfterEffect'
  BY DEF RequestInv, CompletedAfterEffect
<1>5. CreatorsWentOn'
  BY <1>2, RequestType DEF RequestInv, CreatorsWentOn, RequestTypes
<1>6. ItemCurrent' /\ OldIsOver' /\ LivesUpToNow' /\ OneCreator' /\ LivesCreated'
  BY DEF RequestInv, ItemCurrent, OldIsOver, LivesUpToNow, OneCreator, LivesCreated
<1> QED BY <1>1, <1>3, <1>4, <1>5, <1>6 DEF RequestInv

\* A create finds no record: its caller begins a life.
LEMMA CreateKeeps ==
  ASSUME RequestInv, NEW c \in Callers, caller[c] = "create", req = Request!NoRequest,
         Request!Create(c), NEW step \in {"effect", "failed"}, Request!Goes(c, step),
         UNCHANGED <<reaped, effects>>
  PROVE  RequestInv'
<1> DEFINE new == Request!NewRequest(c)
<1>1. /\ new \in Request!Request /\ new.creator = c
      /\ new.status = "IN_PROGRESS" /\ new.by = {}
  BY DEF Request!NewRequest, Request!Request
<1>2. req' = new /\ requests' = requests \cup {new} /\ life' = [life EXCEPT ![c] = reaped]
  BY DEF Request!Create
<1> HIDE DEF new
<1>3. RequestTypes'
  BY <1>1, <1>2 DEF RequestInv, RequestTypes, Request!Steps
<1>4. /\ \A d \in Callers : caller'[d] = IF d = c THEN step ELSE caller[d]
      /\ \A d \in Callers : life'[d] = IF d = c THEN reaped ELSE life[d]
      /\ reaped \in Nat
  BY <1>2 DEF RequestInv, RequestTypes
<1>5. \A r \in requests : r.creator \in Callers /\ r.creator # c /\ life[r.creator] < reaped
  BY RequestType DEF RequestInv, RequestTypes, CreatorsWentOn, OldIsOver
<1>6. ItemCurrent' /\ OldIsOver'
  BY <1>1, <1>2, <1>4, RequestType DEF ItemCurrent, OldIsOver
<1>7. LivesUpToNow'
  BY <1>4 DEF RequestInv, LivesUpToNow
<1>8. OneCreator'
  BY <1>1, <1>2, <1>4, <1>5 DEF RequestInv, OneCreator
<1>9. CreatorsWentOn'
  BY <1>1, <1>2, <1>4, <1>5 DEF RequestInv, CreatorsWentOn
<1>10. EffectByCreator' /\ ToldAfterEffect'
  BY <1>1, <1>2, <1>4 DEF RequestInv, EffectByCreator, ToldAfterEffect, CreatedBy
<1>11. CompletedAfterEffect'
  BY <1>1, <1>2 DEF RequestInv, CompletedAfterEffect
<1>12. LivesCreated'
  BY <1>2, <1>4, <1>5 DEF RequestInv, LivesCreated
<1> QED BY <1>3, <1>6, <1>7, <1>8, <1>9, <1>10, <1>11, <1>12 DEF RequestInv

LEMMA CompleteKeeps ==
  ASSUME RequestInv, NEW c \in Callers, caller[c] = "complete", req # Request!NoRequest,
         req' = Request!Completed(c), requests' = requests \cup {req'},
         Request!Goes(c, "ok"), UNCHANGED <<reaped, life, effects>>
  PROVE  RequestInv'
<1>1. req \in requests /\ req \in Request!Request /\ c \in effects
  BY DEF RequestInv, RequestTypes, ItemCurrent, EffectByCreator
<1>2. /\ req' \in Request!Request /\ req'.creator = req.creator /\ req'.status = "COMPLETED"
      /\ req'.by = IF req.by = {} THEN {c} ELSE req.by
  BY <1>1 DEF Request!Completed, Request!Request
<1>3. RequestTypes'
  BY <1>2 DEF RequestInv, RequestTypes, Request!Steps
<1>4. \A d \in Callers : caller'[d] = IF d = c THEN "ok" ELSE caller[d]
  BY DEF RequestInv, RequestTypes
<1>5. ItemCurrent' /\ OldIsOver' /\ LivesUpToNow'
  BY <1>1, <1>2, RequestType DEF RequestInv, ItemCurrent, OldIsOver, LivesUpToNow
<1>6. OneCreator' /\ LivesCreated'
  BY <1>1, <1>2 DEF RequestInv, OneCreator, LivesCreated
<1>7. CreatorsWentOn'
  BY <1>1, <1>2, <1>4, RequestType DEF RequestInv, CreatorsWentOn
<1>8. EffectByCreator' /\ ToldAfterEffect'
  BY <1>1, <1>4 DEF RequestInv, EffectByCreator, ToldAfterEffect, CreatedBy
<1>9. \E d \in effects : req'.by = {d}
  BY <1>1, <1>2, RequestType DEF RequestInv, CompletedAfterEffect
<1>10. CompletedAfterEffect'
  BY <1>2, <1>9 DEF RequestInv, CompletedAfterEffect
<1> QED BY <1>3, <1>5, <1>6, <1>7, <1>8, <1>10 DEF RequestInv

\* What a read finds completed was completed after an effect.
LEMMA LoadKeeps ==
  ASSUME RequestInv, NEW c \in Callers, Request!LoadExisting(c)
  PROVE  RequestInv'
<1>1. caller[c] = "load" /\ (c \in effects => CreatedBy(c))
  BY DEF Request!LoadExisting, RequestInv, EffectByCreator
<1>2. ASSUME NEW r \in requests,
             Request!Goes(c, IF r.status = "COMPLETED" THEN "already_completed"
                                                       ELSE "already_in_progress")
      PROVE  RequestInv'
  <2>1. r.status = "COMPLETED" => effects # {}
    BY DEF RequestInv, CompletedAfterEffect
  <2> QED BY <1>1, <1>2, <2>1, CallerStep DEF Request!LoadExisting, Request!Steps
<1>3. CASE Request!Goes(c, "failed")
  BY <1>1, <1>3, CallerStep DEF Request!LoadExisting, Request!Steps
<1> QED BY <1>2, <1>3 DEF Request!LoadExisting

LEMMA RequestReapKeeps ==
  ASSUME RequestInv, Request!ReapRequest
  PROVE  RequestInv'
<1>1. RequestTypes' /\ ItemCurrent'
  BY DEF Request!ReapRequest, RequestInv, RequestTypes, ItemCurrent
<1>2. OldIsOver' /\ LivesUpToNow'
  BY RequestType DEF Request!ReapRequest, RequestInv, RequestTypes, OldIsOver, LivesUpToNow
<1>3. OneCreator' /\ CreatorsWentOn' /\ CompletedAfterEffect' /\ ToldAfterEffect'
  BY DEF Request!ReapRequest, RequestInv, OneCreator, CreatorsWentOn, CompletedAfterEffect,
         ToldAfterEffect
<1>4. EffectByCreator'
  BY DEF Request!ReapRequest, RequestInv, EffectByCreator, CreatedBy
<1>5. LivesCreated'
  BY DEF Request!ReapRequest, RequestInv, RequestTypes, ItemCurrent, LivesCreated
<1> QED BY <1>1, <1>2, <1>3, <1>4, <1>5 DEF RequestInv

LEMMA RequestStep ==
  ASSUME RequestInv, [Request!Next]_requestVars
  PROVE  RequestInv'
<1>1. ASSUME NEW c \in Callers, Request!ApplyCreate(c) PROVE RequestInv'
  <2>1. CASE req = Request!NoRequest
    BY <1>1, <2>1, CreateKeeps DEF Request!ApplyCreate
  <2>2. CASE req # Request!NoRequest
    BY <1>1, <2>2, CallerStep DEF Request!ApplyCreate, Request!Steps, RequestInv, EffectByCreator
  <2> QED BY <2>1, <2>2
<1>2. ASSUME NEW c \in Callers, Request!Effect(c) PROVE RequestInv'
  BY <1>2, CallerStep DEF Request!Effect, Request!Steps, RequestInv, EffectByCreator
<1>3. ASSUME NEW c \in Callers, Request!ApplyComplete(c) PROVE RequestInv'
  <2>1. CASE req # Request!NoRequest
    BY <1>3, <2>1, CompleteKeeps DEF Request!ApplyComplete
  <2>2. CASE req = Request!NoRequest
    BY <1>3, <2>2, CallerStep DEF Request!ApplyComplete, Request!Steps, RequestInv, EffectByCreator
  <2> QED BY <2>1, <2>2
<1>4. ASSUME NEW c \in Callers, Request!Fail(c) PROVE RequestInv'
  BY <1>4, CallerStep DEF Request!Fail, Request!Steps, RequestInv, EffectByCreator
<1>5. ASSUME NEW c \in Callers, Request!FailAfterCreate(c) PROVE RequestInv'
  BY <1>5, CreateKeeps DEF Request!FailAfterCreate
<1>6. ASSUME UNCHANGED requestVars PROVE RequestInv'
  BY <1>6 DEF requestVars, RequestInv, RequestTypes, ItemCurrent, OldIsOver, LivesUpToNow,
     OneCreator, LivesCreated, CreatorsWentOn, EffectByCreator, CompletedAfterEffect,
     ToldAfterEffect, CreatedBy
<1> QED
  BY <1>1, <1>2, <1>3, <1>4, <1>5, <1>6, LoadKeeps, RequestReapKeeps DEF Request!Next

LEMMA RequestInvSafe == RequestInv => RequestsSafe
<1> SUFFICES ASSUME RequestInv PROVE RequestsSafe
  OBVIOUS
<1>1. Request!EffectOnce
  BY DEF RequestInv, EffectByCreator, OneCreator, CreatedBy, RequestTypes, Request!EffectOnce
<1>2. Request!CompletedIsTrue
  BY DEF RequestInv, ToldAfterEffect, Request!CompletedIsTrue
<1>3. Request!CompletedByCreator
  <2> SUFFICES ASSUME req # Request!NoRequest, req.status = "COMPLETED"
               PROVE  \E c \in effects : /\ req.by = {c}
                                         /\ life[c] = life[req.creator] => c = req.creator
    BY DEF Request!CompletedByCreator
  <2>1. req \in requests
    BY DEF RequestInv, ItemCurrent
  <2>2. PICK c \in effects : req.by = {c}
    BY <2>1 DEF RequestInv, CompletedAfterEffect
  <2>3. CreatedBy(c)
    BY DEF RequestInv, EffectByCreator, RequestTypes
  <2> QED BY <2>1, <2>2, <2>3 DEF RequestInv, OneCreator, CreatedBy
<1> QED BY <1>1, <1>2, <1>3 DEF RequestsSafe

-----------------------------------------------------------------------------
(* The ledger.                                                              *)

LEMMA LedgerSteps ==
  ASSUME [LedgerNext]_<<kind, vars, jobVars, requestVars>>
  PROVE  /\ [Next]_vars
         /\ [Status!Next]_(Status!vars)
         /\ [Request!Next]_requestVars
  BY DEF LedgerNext, vars, jobVars, Status!vars, requestVars

\* However callers of one idempotency key retry, fail and overlap, the effect is
\* applied once while its record exists, already_completed is told only after it,
\* and a completed record keeps its creator's result.
THEOREM RequestsAlwaysSafe == LedgerSpec => []RequestsSafe
<1>1. LedgerInit => RequestInv
  BY RequestInit DEF LedgerInit
<1>2. RequestInv /\ [LedgerNext]_<<kind, vars, jobVars, requestVars>> => RequestInv'
  BY LedgerSteps, RequestStep
<1> QED BY <1>1, <1>2, RequestInvSafe, PTL DEF LedgerSpec

\* The same of the ledger: within one life of the job a version names one state.
THEOREM VersionsAlwaysNameStates == LedgerSpec => []VersionNamesState
<1>1. LedgerInit => StatusInv
  BY InitStatus DEF LedgerInit
<1>2. StatusInv /\ [LedgerNext]_<<kind, vars, jobVars, requestVars>> => StatusInv'
  BY LedgerSteps, StatusStep
<1>3. StatusInv => VersionNamesState
  BY DEF StatusInv, VersionNamesState
<1> QED BY <1>1, <1>2, <1>3, PTL DEF LedgerSpec

\* The same of the ledger: a transition that succeeds replaced the job its caller
\* had decided on.
THEOREM NoTransitionLost == LedgerSpec => NoLostUpdate
<1>1. LedgerInit => Status!Init
  BY DEF LedgerInit
<1>2. [LedgerNext]_<<kind, vars, jobVars, requestVars>> => [Status!Next]_(Status!vars)
  BY LedgerSteps DEF jobVars, Status!vars
<1>3. LedgerSpec => Status!Spec
  BY <1>1, <1>2, PTL DEF LedgerSpec, Status!Spec
<1> QED BY <1>3, TransitionsNotLost, PTL DEF NoLostUpdate

\* A record is deleted once for each creation, and each caller creates once.
LEMMA RequestTyped ==
  ASSUME RequestInv, IsFiniteSet(Callers)
  PROVE  Request!TypeOK
<1>1. reaped \in Nat
  BY DEF RequestInv, RequestTypes
<1>2. PICK f \in [0 .. reaped - 1 -> Callers] : \A k \in 0 .. reaped - 1 : life[f[k]] = k
  <2>1. \A k \in 0 .. reaped - 1 : \E c \in Callers : life[c] = k
    BY RequestType DEF RequestInv, RequestTypes, LivesCreated
  <2> DEFINE f == [k \in 0 .. reaped - 1 |-> CHOOSE c \in Callers : life[c] = k]
  <2>2. \A k \in 0 .. reaped - 1 : f[k] \in Callers /\ life[f[k]] = k
    BY <2>1
  <2>3. f \in [0 .. reaped - 1 -> Callers]
    BY <2>2
  <2> QED BY <2>2, <2>3
<1>3. f \in Injection(0 .. reaped - 1, Callers)
  BY <1>2 DEF Injection, IsInjective
<1>4. reaped <= Cardinality(Callers) /\ Cardinality(Callers) \in Nat
  <2>1. Cardinality(0 .. reaped - 1) = reaped
    BY <1>1, FS_Interval
  <2>2. Cardinality(0 .. reaped - 1) <= Cardinality(Callers)
    BY <1>3, FS_Injection
  <2>3. Cardinality(Callers) \in Nat
    BY FS_CardinalityType
  <2> QED BY <2>1, <2>2, <2>3
<1>5. life \in [Callers -> 0 .. reaped]
  BY <1>1 DEF RequestInv, RequestTypes, LivesUpToNow
<1>6. reaped \in 0 .. Request!Cardinality(Callers)
  BY <1>1, <1>4 DEF Request!Cardinality, Cardinality
<1> QED BY <1>5, <1>6 DEF RequestInv, RequestTypes, Request!TypeOK

\* The items of the ledger and the calls on them are well formed, for any finite
\* set of callers of the request.
THEOREM LedgerTyped ==
  ASSUME TTLCoversLease, IsFiniteSet(Callers)
  PROVE  LedgerSpec => []LedgerTypeOK
<1> DEFINE Inv == SlotInv /\ StatusInv /\ RequestInv
<1>1. LedgerInit => Inv
  BY InvInit, InitStatus, RequestInit DEF LedgerInit
<1>2. Inv /\ [LedgerNext]_<<kind, vars, jobVars, requestVars>> => Inv'
  BY LedgerSteps, InvStep, StatusStep, RequestStep
<1>3. Inv => LedgerTypeOK
  BY RequestTyped DEF LedgerTypeOK, SlotInv, StatusInv
<1> QED BY <1>1, <1>2, <1>3, PTL DEF LedgerSpec
=============================================================================

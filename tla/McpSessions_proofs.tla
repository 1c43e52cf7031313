------------------------- MODULE McpSessions_proofs -------------------------
(***************************************************************************)
(* Proofs about McpSessions: the requests of a session can be cancelled,    *)
(* the session lasts, and once deleted it is revived only by the messages   *)
(* that overlap its deletion, for any messages, processes and ids and any   *)
(* TTL, duration of the store's calls and staleness of its reads.           *)
(***************************************************************************)
EXTENDS McpSessions, TLAPS

\* The constants are what their names say.
SessionConstants ==
    /\ None \notin Nat /\ None \notin Messages
    /\ Keys # {} /\ Processes # {}
    /\ TTL \in Nat /\ CallTime \in Nat /\ Staleness \in Nat
    /\ MaxBatch \in Nat /\ MaxClock \in Nat

-----------------------------------------------------------------------------
(* The inductive invariant.                                                 *)

\* A batch has a request to go on with.
BatchGoesOn == \A m \in Messages : message[m].step = "next" => message[m].left > 0

\* An entry of the tracker is that of a request that runs in its process.
EntriesRun ==
    \A p \in Processes, k \in Keys, m \in Messages :
        tracker[p][k] = m => Running(m) /\ message[m].process = p /\ message[m].key = k

RequestsInv == TypeOK /\ BatchGoesOn /\ EntriesRun /\ CancelReaches

\* The calls of a message end in time.
CallsInTime ==
    \A m \in Messages : message[m].step \in StoreSteps =>
        message[m].now <= clock /\ clock <= message[m].now + CallTime
LastLasts == last # None => last <= clock /\ clock < Promised(last)
OnlyMemoryEvicts == \A m \in Messages : message[m].step = "evict" => ~durable

LastsInv == CallsInTime /\ LastLasts /\ OnlyMemoryEvicts /\ SessionLasts

\* The session is created once, and used when it was told.
CreatedOnce ==
    /\ created = "no" => \A m \in Messages : message[m].step = "idle"
    /\ created = "asked" =>
         /\ \A m \in Messages : message[m].step \in {"idle", "create"}
         /\ \A m, n \in Messages : message[m].step = "create" /\ message[n].step = "create" => m = n
    /\ created = "told" => \A m \in Messages : message[m].step # "create"

\* A read returns no record older than the bound.
ReadsInTime == \A p \in past : clock <= p.until /\ p.until <= clock + Staleness

\* Who has found the session before it was deleted, or in an old record, came
\* soon enough.
FoundInTime ==
    deleted # None =>
        /\ created = "told" /\ store = None
        /\ \A p \in past : p.record # None => p.until <= deleted + Staleness
        /\ \A m \in Messages :
             message[m].step \in {"check", "evict", "refresh", "mark", "erase"} =>
               message[m].now <= deleted + Staleness

DeletionInv == CreatedOnce /\ ReadsInTime /\ FoundInTime

SessionInv == RequestsInv /\ LastsInv /\ DeletionInv

-----------------------------------------------------------------------------
(* What the steps of a message do to it.                                    *)

\* The message becomes new.
Becomes(m, new) == new \in Message /\ message' = [message EXCEPT ![m] = new]

LEMMA IdleIsMessage ==
  ASSUME SessionConstants
  PROVE  Idle \in Message
<1>1. (CHOOSE k \in Keys : TRUE) \in Keys /\ (CHOOSE p \in Processes : TRUE) \in Processes
  BY DEF SessionConstants
<1> QED BY <1>1 DEF Idle, Message, Times, Record, SessionConstants

LEMMA EndsEffect ==
  ASSUME SessionConstants, NEW m \in Messages, Ends(m)
  PROVE  \E new : Becomes(m, new) /\ new.step = "idle"
<1>1. Idle.step = "idle"
  BY DEF Idle
<1> QED BY <1>1, IdleIsMessage DEF Ends, Becomes

\* A record of a message with other fields.
LEMMA MessageFields ==
  ASSUME NEW r \in Message, NEW s \in StoreSteps \cup {"idle", "next", "run", "lookup"}
  PROVE  /\ [r EXCEPT !.step = s] \in Message
         /\ [r EXCEPT !.step = s].step = s
         /\ [r EXCEPT !.step = s].now = r.now
         /\ [r EXCEPT !.step = s].left = r.left
         /\ [r EXCEPT !.step = s].kind = r.kind
         /\ [r EXCEPT !.step = s].key = r.key
         /\ [r EXCEPT !.step = s].process = r.process
  BY DEF Message

LEMMA MovesEffect ==
  ASSUME TypeOK, NEW m \in Messages,
         NEW s \in StoreSteps \cup {"idle", "next", "run", "lookup"}, MovesTo(m, s)
  PROVE  \E new : /\ Becomes(m, new) /\ new.step = s /\ new.now = message[m].now
                  /\ new.left = message[m].left /\ new.kind = message[m].kind
<1> DEFINE new == [message[m] EXCEPT !.step = s]
<1>1. message[m] \in Message
  BY DEF TypeOK
<1>2. message' = [message EXCEPT ![m] = new]
  BY DEF MovesTo
<1>3. /\ new \in Message /\ new.step = s /\ new.now = message[m].now
      /\ new.left = message[m].left /\ new.kind = message[m].kind
  BY <1>1, MessageFields
<1> HIDE DEF new
<1> QED BY <1>2, <1>3 DEF Becomes

LEMMA ArriveEffect ==
  ASSUME SessionConstants, TypeOK, NEW m \in Messages,
         NEW kind \in {"initialize", "call", "initialized", "cancel", "delete"},
         NEW left \in 0 .. MaxBatch, NEW p \in Processes, Arrive(m, kind, left, p)
  PROVE  \E new : /\ Becomes(m, new) /\ new.now = clock
                  /\ new.step = IF kind = "initialize" THEN "create" ELSE "read"
<1> DEFINE step == IF kind = "initialize" THEN "create" ELSE "read"
           new == [Idle EXCEPT !.kind = kind, !.left = left, !.process = p, !.now = clock,
                               !.step = step]
<1>1. new \in Message /\ new.now = clock /\ new.step = step
  BY IdleIsMessage DEF Message, StoreSteps, TypeOK
<1>2. message' = [message EXCEPT ![m] = new]
  BY DEF Arrive
<1> HIDE DEF new
<1> QED BY <1>1, <1>2 DEF Becomes

\* Two fields set one after the other, and three.
LEMMA FieldsSet ==
  ASSUME TypeOK, NEW m \in Messages, NEW f, NEW g, NEW h,
         NEW a \in Message, NEW b \in Message, NEW c \in Message
  PROVE  /\ f = [message EXCEPT ![m] = a] => f \in [Messages -> Message] /\ f[m] = a
         /\ f = [message EXCEPT ![m] = a] /\ g = [f EXCEPT ![m] = b] =>
              g = [message EXCEPT ![m] = b]
         /\ /\ f = [message EXCEPT ![m] = a] /\ g = [f EXCEPT ![m] = b]
            /\ h = [g EXCEPT ![m] = c]
            => h = [message EXCEPT ![m] = c]
  BY DEF TypeOK

LEMMA ServedEffect ==
  ASSUME SessionConstants, TypeOK, NEW m \in Messages, Served(m)
  PROVE  \E new : /\ Becomes(m, new) /\ new.step \in {"next", "mark", "lookup", "idle"}
                  /\ new.step = "next" => new.left > 0
                  /\ new.step = "mark" => new.now = message[m].now
<1> DEFINE old == message[m]
           a == [old EXCEPT !.step = "next"]
           b == [a EXCEPT !.now = 0]
           c == [b EXCEPT !.kind = "call"]
           d == [old EXCEPT !.step = "lookup"]
           e == [d EXCEPT !.now = 0]
<1>1. old \in Message /\ 0 \in Times
  BY DEF TypeOK, Times, SessionConstants
<1>2. a \in Message /\ a.step = "next" /\ a.left = old.left
  BY <1>1 DEF Message
<1>3. b \in Message /\ b.step = "next" /\ b.left = old.left
  BY <1>1, <1>2 DEF Message
<1>4. c \in Message /\ c.step = "next" /\ c.left = old.left
  BY <1>3 DEF Message
<1>5. d \in Message /\ d.step = "lookup"
  BY <1>1 DEF Message
<1>6. e \in Message /\ e.step = "lookup"
  BY <1>1, <1>5 DEF Message
<1>7. CASE old.left > 0
  <2> DEFINE f == [message EXCEPT ![m] = a]
             g == [f EXCEPT ![m] = [f[m] EXCEPT !.now = 0]]
  <2>1. message' = [g EXCEPT ![m] = [g[m] EXCEPT !.kind = "call"]]
    BY <1>7 DEF Served
  <2>2. f[m] = a /\ g = [f EXCEPT ![m] = b]
    BY DEF TypeOK
  <2>3. g[m] = b
    BY <2>2 DEF TypeOK
  <2>4. message' = [g EXCEPT ![m] = c]
    BY <2>1, <2>3
  <2>5. message' = [message EXCEPT ![m] = c]
    BY <2>2, <2>4, <1>2, <1>3, <1>4, FieldsSet
  <2> HIDE DEF c
  <2> QED BY <1>4, <1>7, <2>5 DEF Becomes
<1>8. CASE ~(old.left > 0) /\ old.kind = "initialized"
  <2>1. MovesTo(m, "mark")
    BY <1>8 DEF Served
  <2> QED BY <2>1, MovesEffect DEF StoreSteps
<1>9. CASE ~(old.left > 0) /\ old.kind = "cancel"
  <2> DEFINE f == [message EXCEPT ![m] = d]
  <2>1. message' = [f EXCEPT ![m] = [f[m] EXCEPT !.now = 0]]
    BY <1>9 DEF Served
  <2>2. f[m] = d
    BY DEF TypeOK
  <2>3. message' = [f EXCEPT ![m] = e]
    BY <2>1, <2>2
  <2>4. message' = [message EXCEPT ![m] = e]
    BY <2>3, <1>5, <1>6, FieldsSet
  <2> HIDE DEF e
  <2> QED BY <1>6, <2>4 DEF Becomes
<1>10. CASE ~(old.left > 0) /\ old.kind \notin {"initialized", "cancel"}
  <2>1. Ends(m)
    BY <1>10 DEF Served
  <2> QED BY <2>1, EndsEffect
<1> QED BY <1>7, <1>8, <1>9, <1>10

LEMMA RefreshEffect ==
  ASSUME SessionConstants, TypeOK, NEW m \in Messages, NEW told \in BOOLEAN, Refresh(m, told)
  PROVE  \E new : /\ Becomes(m, new) /\ new.step \in {"next", "mark", "lookup", "idle"}
                  /\ new.step = "next" => new.left > 0
                  /\ new.step = "mark" => new.now = message[m].now
                  /\ ~told => new.step = "idle"
<1>1. CASE told /\ Served(m)
  BY <1>1, ServedEffect
<1>2. CASE Ends(m)
  BY <1>2, EndsEffect
<1> QED BY <1>1, <1>2 DEF Refresh

LEMMA GetEffect ==
  ASSUME SessionConstants, TypeOK, NEW m \in Messages, Get(m)
  PROVE  \E new : /\ Becomes(m, new) /\ new.step \in {"check", "idle"}
                  /\ new.step = "check" =>
                       /\ new.now = message[m].now
                       /\ store # None \/ \E p \in past : p.record # None
<1> DEFINE old == message[m]
<1>1. PICK record \in {store} \cup {p.record : p \in past} :
        IF record = None THEN Ends(m)
        ELSE message' = [message EXCEPT ![m].step = "check", ![m].copy = record]
  BY DEF Get
<1>2. CASE record = None
  BY <1>1, <1>2, EndsEffect
<1>3. CASE record # None
  <2> DEFINE a == [old EXCEPT !.step = "check"]
             b == [a EXCEPT !.copy = record]
             f == [message EXCEPT ![m] = a]
  <2>1. old \in Message /\ record \in Record
    BY DEF TypeOK
  <2>2. a \in Message /\ a.step = "check" /\ a.now = old.now
    BY <2>1 DEF Message, StoreSteps
  <2>3. b \in Message /\ b.step = "check" /\ b.now = old.now
    BY <2>1, <2>2 DEF Message
  <2>4. message' = [f EXCEPT ![m] = [f[m] EXCEPT !.copy = record]]
    BY <1>1, <1>3
  <2>5. f[m] = a
    BY DEF TypeOK
  <2>6. message' = [f EXCEPT ![m] = b]
    BY <2>4, <2>5
  <2>7. message' = [message EXCEPT ![m] = b]
    BY <2>6, <2>2, <2>3, FieldsSet
  <2> HIDE DEF b
  <2> QED BY <1>3, <2>3, <2>7 DEF Becomes
<1> QED BY <1>2, <1>3

LEMMA CheckEffect ==
  ASSUME SessionConstants, TypeOK, NEW m \in Messages, Check(m)
  PROVE  \E new : /\ Becomes(m, new) /\ new.step \in {"evict", "refresh", "erase", "idle"}
                  /\ new.step = "evict" => ~durable
                  /\ new.step # "idle" => new.now = message[m].now
<1> DEFINE old == message[m]
           step == IF old.kind = "delete" THEN "erase" ELSE "refresh"
<1>1. CASE Ends(m)
  BY <1>1, EndsEffect
<1>2. CASE ~durable /\ MovesTo(m, "evict")
  BY <1>2, MovesEffect DEF StoreSteps
<1>3. CASE message' = [message EXCEPT ![m].copy = None, ![m].step = step]
  <2> DEFINE a == [old EXCEPT !.copy = None]
             b == [a EXCEPT !.step = step]
             f == [message EXCEPT ![m] = a]
  <2>1. old \in Message /\ step \in StoreSteps
    BY DEF TypeOK, StoreSteps
  <2>2. a \in Message /\ a.now = old.now
    BY <2>1 DEF Message, Record
  <2>3. b \in Message /\ b.step = step /\ b.now = old.now
    BY <2>1, <2>2 DEF Message
  <2>4. message' = [f EXCEPT ![m] = [f[m] EXCEPT !.step = step]]
    BY <1>3
  <2>5. f[m] = a
    BY DEF TypeOK
  <2>6. message' = [f EXCEPT ![m] = b]
    BY <2>4, <2>5
  <2>7. message' = [message EXCEPT ![m] = b]
    BY <2>6, <2>2, <2>3, FieldsSet
  <2> HIDE DEF b
  <2> QED BY <2>3, <2>7 DEF Becomes
<1> QED BY <1>1, <1>2, <1>3 DEF Check

LEMMA OverEffect ==
  ASSUME SessionConstants, TypeOK, NEW m \in Messages, Over(m)
  PROVE  \E new : /\ Becomes(m, new) /\ new.step \in {"next", "idle"}
                  /\ new.step = "next" => new.left > 0
<1> DEFINE old == message[m]
<1>1. CASE old.left > 0
  <2> DEFINE a == [old EXCEPT !.step = "next"]
             b == [a EXCEPT !.key = Idle.key]
             f == [message EXCEPT ![m] = a]
  <2>1. old \in Message /\ Idle.key \in Keys
    BY IdleIsMessage DEF TypeOK, Message
  <2>2. a \in Message /\ a.step = "next" /\ a.left = old.left
    BY <2>1 DEF Message
  <2>3. b \in Message /\ b.step = "next" /\ b.left = old.left
    BY <2>1, <2>2 DEF Message
  <2>4. message' = [f EXCEPT ![m] = [f[m] EXCEPT !.key = Idle.key]]
    BY <1>1 DEF Over
  <2>5. f[m] = a
    BY DEF TypeOK
  <2>6. message' = [f EXCEPT ![m] = b]
    BY <2>4, <2>5
  <2>7. message' = [message EXCEPT ![m] = b]
    BY <2>6, <2>2, <2>3, FieldsSet
  <2> HIDE DEF b
  <2> QED BY <1>1, <2>3, <2>7 DEF Becomes
<1>2. CASE ~(old.left > 0)
  <2>1. Ends(m)
    BY <1>2 DEF Over
  <2> QED BY <2>1, EndsEffect
<1> QED BY <1>1, <1>2

LEMMA TrackEffect ==
  ASSUME SessionConstants, TypeOK, BatchGoesOn, NEW m \in Messages, NEW k \in Keys, Track(m, k)
  PROVE  \E new : /\ Becomes(m, new) /\ new.step = "run" /\ new.key = k
                  /\ new.process = message[m].process
<1> DEFINE old == message[m]
           a == [old EXCEPT !.step = "run"]
           b == [a EXCEPT !.key = k]
           c == [b EXCEPT !.left = b.left - 1]
           f == [message EXCEPT ![m] = a]
           g == [f EXCEPT ![m] = [f[m] EXCEPT !.key = k]]
<1>1. old \in Message /\ old.left > 0 /\ MaxBatch \in Nat
  BY DEF TypeOK, Track, BatchGoesOn, SessionConstants
<1>2. a \in Message /\ a.step = "run" /\ a.left = old.left /\ a.process = old.process
  BY <1>1 DEF Message
<1>3. b \in Message /\ b.step = "run" /\ b.left = old.left /\ b.key = k /\ b.process = old.process
  BY <1>1, <1>2 DEF Message
<1>4. b.left - 1 \in 0 .. MaxBatch
  BY <1>1, <1>3 DEF Message
<1>5. c \in Message /\ c.step = "run" /\ c.key = k /\ c.process = old.process
  BY <1>3, <1>4 DEF Message
<1>6. message' = [g EXCEPT ![m] = [g[m] EXCEPT !.left = @ - 1]]
  BY DEF Track
<1>7. f[m] = a /\ g = [f EXCEPT ![m] = b]
  BY DEF TypeOK
<1>8. g[m] = b
  BY <1>7 DEF TypeOK
<1>9. message' = [g EXCEPT ![m] = c]
  BY <1>6, <1>8
<1>10. message' = [message EXCEPT ![m] = c]
  <2>1. f = [message EXCEPT ![m] = a]
    OBVIOUS
  <2> HIDE DEF a, b, c, f, g
  <2> QED BY <2>1, <1>7, <1>9, <1>2, <1>3, <1>5, FieldsSet
<1> HIDE DEF c
<1> QED BY <1>5, <1>10 DEF Becomes

-----------------------------------------------------------------------------
(* The requests.                                                            *)

Kinds == {"initialize", "call", "initialized", "cancel", "delete"}

\* The steps of a message that neither begin nor end a request.
Calls(m) ==
    \/ \E kind \in Kinds, left \in 0 .. MaxBatch, p \in Processes : Arrive(m, kind, left, p)
    \/ \E told \in BOOLEAN : Refresh(m, told)
    \/ Get(m) \/ Check(m) \/ Evict(m) \/ Mark(m) \/ Erase(m) \/ Fail(m)
    \/ \E k \in Keys : Cancel(m, k)

StoreTyped ==
    /\ clock \in Times /\ durable \in BOOLEAN
    /\ store \in Record
    /\ past \subseteq [record : Record, until : 0 .. MaxClock + Staleness]
    /\ created \in {"no", "asked", "told"}
    /\ {last, deleted} \subseteq Times \cup {None}

LEMMA WriteTyped ==
  ASSUME SessionConstants, TypeOK, NEW record \in Record, durable' = durable, clock' = clock,
         store' = record, deleted' \in Times \cup {None},
         past' = IF durable THEN past \cup {[record |-> store, until |-> clock + Staleness]}
                 ELSE past,
         created' \in {"no", "asked", "told"}, last' \in Times \cup {None}
  PROVE  StoreTyped'
<1>1. clock + Staleness \in 0 .. MaxClock + Staleness
  BY DEF SessionConstants, TypeOK, Times
<1>2. past' \subseteq [record : Record, until : 0 .. MaxClock + Staleness]
  BY <1>1 DEF TypeOK
<1> QED BY <1>2 DEF TypeOK, StoreTyped, Times, Record

LEMMA StoreStaysTyped ==
  ASSUME SessionConstants, TypeOK, [Next]_vars
  PROVE  StoreTyped'
<1>1. StoreTyped /\ None \in Record /\ \A m \in Messages : message[m].now + TTL \in Record
  BY DEF TypeOK, StoreTyped, Record, Message, Times, SessionConstants
<1>2. ASSUME NEW m \in Messages, Calls(m)
      PROVE  StoreTyped'
  <2>1. ASSUME NEW kind \in Kinds, NEW left \in 0 .. MaxBatch, NEW p \in Processes,
               Arrive(m, kind, left, p)
        PROVE  StoreTyped'
    BY <1>1, <2>1 DEF Arrive, StoreTyped
  <2>2. ASSUME NEW told \in BOOLEAN, Refresh(m, told)
        PROVE  StoreTyped'
    <3>1. message[m].now \in Times
      BY DEF TypeOK, Message
    <3>2. created' \in {"no", "asked", "told"} /\ {last', deleted'} \subseteq Times \cup {None}
      BY <1>1, <2>2, <3>1 DEF Refresh, Write, StoreTyped
    <3> QED BY <1>1, <2>2, <3>2, WriteTyped DEF Refresh, Write
  <2>3. CASE Get(m) \/ Check(m) \/ Fail(m) \/ \E k \in Keys : Cancel(m, k)
    BY <1>1, <2>3 DEF Get, Check, Fail, Cancel, StoreTyped
  <2>4. CASE Evict(m) \/ Mark(m)
    <3>1. deleted' \in Times \cup {None} /\ last' \in Times \cup {None}
          /\ created' \in {"no", "asked", "told"}
      BY <1>1, <2>4 DEF Evict, Mark, Write, StoreTyped
    <3> QED BY <1>1, <2>4, <3>1, WriteTyped DEF Evict, Mark, Write
  <2>5. CASE Erase(m)
    BY <1>1, <2>5, WriteTyped DEF Erase, StoreTyped
  <2> QED BY <1>2, <2>1, <2>2, <2>3, <2>4, <2>5 DEF Calls
<1>3. CASE Reap
  <2>1. deleted' \in Times \cup {None} /\ last' \in Times \cup {None}
        /\ created' \in {"no", "asked", "told"}
    BY <1>1, <1>3 DEF Reap, Write, StoreTyped
  <2> QED BY <1>1, <1>3, <2>1, WriteTyped DEF Reap, Write
<1>4. CASE Tick
  BY <1>1, <1>4 DEF Tick, StoreTyped, Times, SessionConstants
<1>5. ASSUME NEW m \in Messages, NEW k \in Keys, Track(m, k) PROVE StoreTyped'
  BY <1>1, <1>5 DEF Track, StoreTyped
<1>6. ASSUME NEW m \in Messages, Finish(m) PROVE StoreTyped'
  BY <1>1, <1>6 DEF Finish, StoreTyped
<1>7. ASSUME NEW p \in Processes, Crash(p) PROVE StoreTyped'
  BY <1>1, <1>7 DEF Crash, StoreTyped
<1>8. CASE UNCHANGED vars
  BY <1>1, <1>8 DEF vars, StoreTyped
<1> QED BY <1>2, <1>3, <1>4, <1>5, <1>6, <1>7, <1>8 DEF Next, Calls, Kinds

\* A message that does not run goes on to a step that does not either.
LEMMA CallsEffect ==
  ASSUME SessionConstants, RequestsInv, NEW m \in Messages, Calls(m)
  PROVE  /\ ~Running(m) /\ UNCHANGED <<tracker, shadowed>>
         /\ \A n \in cancelled' \ cancelled :
              \E p \in Processes, k \in Keys : n = tracker[p][k] /\ n # None
         /\ \E new : /\ Becomes(m, new) /\ new.step # "run"
                     /\ new.step = "next" => new.left > 0
<1> USE DEF RequestsInv
<1>1. ASSUME NEW kind \in Kinds, NEW left \in 0 .. MaxBatch, NEW p \in Processes,
             Arrive(m, kind, left, p)
      PROVE  \E new : Becomes(m, new) /\ new.step \notin {"run", "next"}
  BY <1>1, ArriveEffect DEF Kinds
<1>2. ASSUME NEW told \in BOOLEAN, Refresh(m, told)
      PROVE  \E new : Becomes(m, new) /\ new.step # "run" /\ (new.step = "next" => new.left > 0)
  BY <1>2, RefreshEffect
<1>3. Get(m) => \E new : Becomes(m, new) /\ new.step \notin {"run", "next"}
  BY GetEffect
<1>4. Check(m) => \E new : Becomes(m, new) /\ new.step \notin {"run", "next"}
  BY CheckEffect
<1>5. Evict(m) \/ Mark(m) \/ Erase(m) \/ Fail(m) \/ (\E k \in Keys : Cancel(m, k))
        => \E new : Becomes(m, new) /\ new.step \notin {"run", "next"}
  BY EndsEffect DEF Evict, Mark, Erase, Fail, Cancel
<1>6. \E new : Becomes(m, new) /\ new.step # "run" /\ (new.step = "next" => new.left > 0)
  BY <1>1, <1>2, <1>3, <1>4, <1>5 DEF Calls
<1>7. ~Running(m) /\ UNCHANGED <<tracker, shadowed>>
  BY DEF Calls, Arrive, Refresh, Get, Check, Evict, Mark, Erase, Fail, Cancel, requestVars,
     Running, StoreSteps
<1>8. \A n \in cancelled' \ cancelled :
        \E p \in Processes, k \in Keys : n = tracker[p][k] /\ n # None
  <2>1. message[m].process \in Processes
    BY DEF TypeOK, Message
  <2>2. (\A k \in Keys : ~Cancel(m, k)) => cancelled' = cancelled
    BY DEF Calls, Arrive, Refresh, Get, Check, Evict, Mark, Erase, Fail, requestVars
  <2>3. ASSUME NEW k \in Keys, Cancel(m, k)
        PROVE  \A n \in cancelled' \ cancelled : n = tracker[message[m].process][k] /\ n # None
    BY <2>3 DEF Cancel
  <2> QED BY <2>1, <2>2, <2>3
<1> QED BY <1>6, <1>7, <1>8

LEMMA CallsKeepRequests ==
  ASSUME SessionConstants, RequestsInv, NEW m \in Messages, Calls(m), StoreTyped'
  PROVE  RequestsInv'
<1>1. PICK new : Becomes(m, new) /\ new.step # "run" /\ (new.step = "next" => new.left > 0)
  BY CallsEffect
<1>2. ~Running(m) /\ UNCHANGED <<tracker, shadowed>>
      /\ \A n \in cancelled' \ cancelled :
           \E p \in Processes, k \in Keys : n = tracker[p][k] /\ n # None
  BY CallsEffect
<1>3. message' \in [Messages -> Message] /\ message'[m] = new
      /\ \A n \in Messages \ {m} : message'[n] = message[n]
  BY <1>1 DEF Becomes, RequestsInv, TypeOK
<1>4. \A n \in Messages : Running(n) => Running(n)' /\ message'[n] = message[n]
  BY <1>2, <1>3 DEF Running
<1>5. \A n \in Messages : Running(n)' => Running(n) /\ message'[n] = message[n]
  BY <1>1, <1>2, <1>3 DEF Running
<1>6. cancelled' \subseteq {n \in Messages : Running(n)'}
  BY <1>2, <1>4 DEF RequestsInv, TypeOK, EntriesRun
<1>7. TypeOK'
  BY <1>2, <1>3, <1>4, <1>6 DEF RequestsInv, TypeOK, StoreTyped
<1>8. BatchGoesOn'
  BY <1>1, <1>3 DEF RequestsInv, BatchGoesOn
<1>9. EntriesRun'
  BY <1>2, <1>4 DEF RequestsInv, EntriesRun, TypeOK
<1>10. CancelReaches'
  BY <1>2, <1>5 DEF RequestsInv, CancelReaches
<1> QED BY <1>7, <1>8, <1>9, <1>10 DEF RequestsInv

LEMMA TrackKeepsRequests ==
  ASSUME SessionConstants, RequestsInv, NEW m \in Messages, NEW k \in Keys, Track(m, k),
         StoreTyped'
  PROVE  RequestsInv'
<1> DEFINE p == message[m].process
<1> USE DEF RequestsInv
<1>1. PICK new : Becomes(m, new) /\ new.step = "run" /\ new.key = k /\ new.process = p
  BY TrackEffect
<1>2. message' \in [Messages -> Message] /\ message'[m] = new
      /\ \A n \in Messages \ {m} : message'[n] = message[n]
  BY <1>1 DEF Becomes, TypeOK
<1>3. ~Running(m) /\ p \in Processes /\ tracker \in [Processes -> [Keys -> Messages \cup {None}]]
  BY DEF Track, Running, TypeOK, Message
<1>4. /\ tracker' \in [Processes -> [Keys -> Messages \cup {None}]]
      /\ \A q \in Processes, j \in Keys :
           tracker'[q][j] = IF q = p /\ j = k THEN m ELSE tracker[q][j]
  BY <1>3 DEF Track
<1>5. /\ shadowed' = shadowed \cup {n \in Messages : /\ Running(n)
                                                     /\ message[n].key = k /\ message[n].process = p}
      /\ cancelled' = cancelled
  BY DEF Track
<1>6. \A n \in Messages : Running(n) => n # m /\ Running(n)'
  BY <1>2, <1>3 DEF Running
<1>7. TypeOK'
  BY <1>2, <1>4, <1>5, <1>6 DEF TypeOK, StoreTyped
<1>8. BatchGoesOn'
  BY <1>1, <1>2 DEF BatchGoesOn
<1>9. EntriesRun'
  <2> SUFFICES ASSUME NEW q \in Processes, NEW j \in Keys, NEW n \in Messages,
                      tracker'[q][j] = n
               PROVE  Running(n)' /\ message'[n].process = q /\ message'[n].key = j
    BY DEF EntriesRun
  <2>1. CASE q = p /\ j = k
    BY <1>1, <1>2, <1>4, <2>1 DEF Running
  <2>2. CASE ~(q = p /\ j = k)
    <3>1. tracker[q][j] = n
      BY <1>4, <2>2
    <3>2. Running(n) /\ message[n].process = q /\ message[n].key = j
      BY <3>1 DEF EntriesRun
    <3> QED BY <3>1, <3>2, <1>2, <1>6
  <2> QED BY <2>1, <2>2
<1>10. CancelReaches'
  <2> SUFFICES ASSUME NEW n \in Messages, Running(n)', n \notin shadowed'
               PROVE  tracker'[message'[n].process][message'[n].key] = n
    BY DEF CancelReaches
  <2>1. CASE n = m
    BY <1>1, <1>2, <1>3, <1>4, <2>1
  <2>2. CASE n # m
    <3>1. message'[n] = message[n] /\ Running(n) /\ message[n] \in Message
      BY <1>2, <2>2 DEF Running, TypeOK
    <3>2. ~(message[n].key = k /\ message[n].process = p)
      BY <1>5, <3>1
    <3>3. tracker[message[n].process][message[n].key] = n
      BY <1>5, <3>1 DEF CancelReaches
    <3> QED BY <1>4, <3>1, <3>2, <3>3 DEF Message
  <2> QED BY <2>1, <2>2
<1> QED BY <1>7, <1>8, <1>9, <1>10

LEMMA FinishKeepsRequests ==
  ASSUME SessionConstants, RequestsInv, NEW m \in Messages, Finish(m), StoreTyped'
  PROVE  RequestsInv'
<1> DEFINE p == message[m].process
           k == message[m].key
<1> USE DEF RequestsInv
<1>1. PICK new : Becomes(m, new) /\ new.step \in {"next", "idle"}
                 /\ (new.step = "next" => new.left > 0)
  BY OverEffect DEF Finish
<1>2. message' \in [Messages -> Message] /\ message'[m] = new
      /\ \A n \in Messages \ {m} : message'[n] = message[n]
  BY <1>1 DEF Becomes, TypeOK
<1>3. p \in Processes /\ k \in Keys /\ tracker \in [Processes -> [Keys -> Messages \cup {None}]]
  BY DEF TypeOK, Message
<1>4. /\ tracker' \in [Processes -> [Keys -> Messages \cup {None}]]
      /\ \A q \in Processes, j \in Keys :
           tracker'[q][j] = IF q = p /\ j = k /\ tracker[q][j] = m THEN None ELSE tracker[q][j]
  BY <1>3 DEF Finish
<1>5. shadowed' = shadowed \ {m} /\ cancelled' = cancelled \ {m}
  BY DEF Finish
<1>6. /\ ~Running(m)'
      /\ \A n \in Messages \ {m} : Running(n)' <=> Running(n)
  BY <1>1, <1>2 DEF Running
<1>7. TypeOK'
  BY <1>2, <1>4, <1>5, <1>6 DEF TypeOK, StoreTyped
<1>8. BatchGoesOn'
  BY <1>1, <1>2 DEF BatchGoesOn
<1>9. EntriesRun'
  <2> SUFFICES ASSUME NEW q \in Processes, NEW j \in Keys, NEW n \in Messages,
                      tracker'[q][j] = n
               PROVE  Running(n)' /\ message'[n].process = q /\ message'[n].key = j
    BY DEF EntriesRun
  <2>1. tracker[q][j] = n /\ ~(q = p /\ j = k /\ n = m)
    BY <1>4 DEF SessionConstants
  <2>2. Running(n) /\ message[n].process = q /\ message[n].key = j
    BY <2>1 DEF EntriesRun
  <2>3. n # m
    BY <2>1, <2>2
  <2> QED BY <2>1, <2>2, <2>3, <1>2, <1>6
<1>10. CancelReaches'
  <2> SUFFICES ASSUME NEW n \in Messages, Running(n)', n \notin shadowed'
               PROVE  tracker'[message'[n].process][message'[n].key] = n
    BY DEF CancelReaches
  <2>1. n # m /\ message'[n] = message[n] /\ Running(n) /\ message[n] \in Message
    BY <1>2, <1>6 DEF TypeOK
  <2>2. tracker[message[n].process][message[n].key] = n
    BY <1>5, <2>1 DEF CancelReaches
  <2> QED BY <1>4, <2>1, <2>2 DEF Message
<1> QED BY <1>7, <1>8, <1>9, <1>10

LEMMA CrashKeepsRequests ==
  ASSUME SessionConstants, RequestsInv, NEW p \in Processes, Crash(p), StoreTyped'
  PROVE  RequestsInv'
<1> USE DEF RequestsInv
<1>1. /\ message' = [m \in Messages |-> IF message[m].process = p THEN Idle ELSE message[m]]
      /\ cancelled' = cancelled \ {m \in Messages : message[m].process = p}
      /\ shadowed' = shadowed \ {m \in Messages : message[m].process = p}
  BY DEF Crash
<1>2. /\ message' \in [Messages -> Message]
      /\ \A m \in Messages : IF message[m].process = p THEN message'[m].step = "idle"
                             ELSE message'[m] = message[m]
  BY <1>1, IdleIsMessage DEF TypeOK, Idle
<1>3. /\ tracker' \in [Processes -> [Keys -> Messages \cup {None}]]
      /\ \A q \in Processes, k \in Keys : tracker'[q][k] = IF q = p THEN None ELSE tracker[q][k]
  BY DEF Crash, TypeOK
<1>4. \A m \in Messages : Running(m)' <=> Running(m) /\ message[m].process # p
  BY <1>2 DEF Running
<1>5. TypeOK'
  BY <1>1, <1>2, <1>3, <1>4 DEF TypeOK, StoreTyped
<1>6. BatchGoesOn'
  BY <1>2 DEF BatchGoesOn
<1>7. EntriesRun'
  <2> SUFFICES ASSUME NEW q \in Processes, NEW k \in Keys, NEW m \in Messages,
                      tracker'[q][k] = m
               PROVE  Running(m)' /\ message'[m].process = q /\ message'[m].key = k
    BY DEF EntriesRun
  <2>1. tracker[q][k] = m /\ q # p
    BY <1>3 DEF SessionConstants
  <2>2. Running(m) /\ message[m].process = q /\ message[m].key = k
    BY <2>1 DEF EntriesRun
  <2> QED BY <2>1, <2>2, <1>2, <1>4
<1>8. CancelReaches'
  <2> SUFFICES ASSUME NEW m \in Messages, Running(m)', m \notin shadowed'
               PROVE  tracker'[message'[m].process][message'[m].key] = m
    BY DEF CancelReaches
  <2>1. message'[m] = message[m] /\ Running(m) /\ message[m].process # p
        /\ message[m] \in Message /\ m \notin shadowed
    BY <1>1, <1>2, <1>4 DEF TypeOK
  <2> QED BY <1>3, <2>1 DEF CancelReaches, Message
<1> QED BY <1>5, <1>6, <1>7, <1>8

LEMMA RequestsStep ==
  ASSUME SessionConstants, RequestsInv, [Next]_vars
  PROVE  RequestsInv'
<1>1. StoreTyped'
  BY StoreStaysTyped DEF RequestsInv
<1>2. CASE Reap \/ Tick \/ UNCHANGED vars
  BY <1>1, <1>2 DEF RequestsInv, TypeOK, StoreTyped, BatchGoesOn, EntriesRun, CancelReaches,
     Running, Reap, Tick, requestVars, vars
<1> QED
  BY <1>1, <1>2, CallsKeepRequests, TrackKeepsRequests, FinishKeepsRequests, CrashKeepsRequests
  DEF Next, Calls, Kinds

-----------------------------------------------------------------------------
(* The session lasts.                                                       *)

CallsLast == CallsInTime /\ OnlyMemoryEvicts

\* A step of a message: the next call of the store is in time too.
LEMMA MessageGoesOn ==
  ASSUME TypeOK, CallsLast, NEW m \in Messages, NEW new, Becomes(m, new),
         UNCHANGED <<clock, durable>>,
         new.step \in StoreSteps => new.now <= clock /\ clock <= new.now + CallTime,
         new.step = "evict" => ~durable
  PROVE  CallsLast'
<1>1. message'[m] = new /\ \A n \in Messages \ {m} : message'[n] = message[n]
  BY DEF Becomes, TypeOK
<1> QED BY <1>1 DEF CallsLast, CallsInTime, OnlyMemoryEvicts

LEMMA CallsStep ==
  ASSUME SessionConstants, RequestsInv, CallsLast, [Next]_vars
  PROVE  CallsLast'
<1>1. TypeOK /\ BatchGoesOn
  BY DEF RequestsInv
<1>2. \A m \in Messages : message[m].step \in StoreSteps =>
        message[m].now <= clock /\ clock <= message[m].now + CallTime
  BY DEF CallsLast, CallsInTime
<1>3. clock \in Nat /\ CallTime \in Nat
  BY <1>1 DEF TypeOK, Times, SessionConstants
<1>4. ASSUME NEW m \in Messages, NEW kind \in Kinds, NEW left \in 0 .. MaxBatch,
             NEW p \in Processes, Arrive(m, kind, left, p)
      PROVE  CallsLast'
  <2>1. PICK new : Becomes(m, new) /\ new.now = clock
                   /\ new.step = IF kind = "initialize" THEN "create" ELSE "read"
    BY <1>1, <1>4, ArriveEffect DEF Kinds
  <2> QED BY <1>1, <1>3, <1>4, <2>1, MessageGoesOn DEF Arrive
<1>5. ASSUME NEW m \in Messages, NEW told \in BOOLEAN, Refresh(m, told)
      PROVE  CallsLast'
  <2>1. PICK new : Becomes(m, new) /\ new.step \in {"next", "mark", "lookup", "idle"}
                   /\ (new.step = "mark" => new.now = message[m].now)
    BY <1>1, <1>5, RefreshEffect
  <2>2. message[m].step \in StoreSteps
    BY <1>5 DEF Refresh, StoreSteps
  <2>3. new.step \in StoreSteps => new.now <= clock /\ clock <= new.now + CallTime
    BY <1>2, <2>1, <2>2 DEF StoreSteps
  <2> QED BY <1>1, <1>5, <2>1, <2>3, MessageGoesOn DEF Refresh
<1>6. ASSUME NEW m \in Messages, Get(m)
      PROVE  CallsLast'
  <2>1. PICK new : Becomes(m, new) /\ new.step \in {"check", "idle"}
                   /\ (new.step = "check" => new.now = message[m].now)
    BY <1>1, <1>6, GetEffect
  <2>2. new.step \in StoreSteps => new.now <= clock /\ clock <= new.now + CallTime
    BY <1>2, <1>6, <2>1 DEF Get, StoreSteps
  <2> QED BY <1>1, <1>6, <2>1, <2>2, MessageGoesOn DEF Get
<1>7. ASSUME NEW m \in Messages, Check(m)
      PROVE  CallsLast'
  <2>1. PICK new : Becomes(m, new) /\ new.step \in {"evict", "refresh", "erase", "idle"}
                   /\ (new.step = "evict" => ~durable)
                   /\ (new.step # "idle" => new.now = message[m].now)
    BY <1>1, <1>7, CheckEffect
  <2>2. new.step \in StoreSteps => new.now <= clock /\ clock <= new.now + CallTime
    BY <1>2, <1>7, <2>1 DEF Check, StoreSteps
  <2> QED BY <1>1, <1>7, <2>1, <2>2, MessageGoesOn DEF Check
<1>8. ASSUME NEW m \in Messages,
             Evict(m) \/ Mark(m) \/ Erase(m) \/ Fail(m) \/ \E k \in Keys : Cancel(m, k)
      PROVE  CallsLast'
  <2>1. PICK new : Becomes(m, new) /\ new.step = "idle"
    BY <1>1, <1>8, EndsEffect DEF Evict, Mark, Erase, Fail, Cancel
  <2>2. UNCHANGED <<clock, durable>>
    BY <1>8 DEF Evict, Mark, Erase, Fail, Cancel
  <2> QED BY <1>1, <2>1, <2>2, MessageGoesOn DEF StoreSteps
<1>9. ASSUME NEW m \in Messages, NEW k \in Keys, Track(m, k)
      PROVE  CallsLast'
  <2>1. PICK new : Becomes(m, new) /\ new.step = "run"
    BY <1>1, <1>9, TrackEffect
  <2> QED BY <1>1, <1>9, <2>1, MessageGoesOn DEF StoreSteps, Track
<1>10. ASSUME NEW m \in Messages, Finish(m)
       PROVE  CallsLast'
  <2>1. PICK new : Becomes(m, new) /\ new.step \in {"next", "idle"}
    BY <1>1, <1>10, OverEffect DEF Finish
  <2> QED BY <1>1, <1>10, <2>1, MessageGoesOn DEF StoreSteps, Finish
<1>11. ASSUME NEW p \in Processes, Crash(p)
       PROVE  CallsLast'
  <2>1. \A m \in Messages : message'[m] = message[m] \/ message'[m].step = "idle"
    BY <1>11 DEF Crash, Idle
  <2> QED BY <1>11, <2>1 DEF Crash, CallsLast, CallsInTime, OnlyMemoryEvicts, StoreSteps
<1>12. CASE Tick
  <2>1. \A m \in Messages : message[m].step \in StoreSteps => clock < message[m].now + CallTime
    BY <1>12 DEF Tick
  <2>2. \A m \in Messages : message[m].now \in Nat
    BY <1>1 DEF TypeOK, Message, Times
  <2>3. clock' = clock + 1 /\ UNCHANGED <<message, durable>>
    BY <1>12 DEF Tick
  <2> QED BY <1>2, <1>3, <2>1, <2>2, <2>3 DEF CallsLast, CallsInTime, OnlyMemoryEvicts
<1>13. CASE Reap \/ UNCHANGED vars
  BY <1>13 DEF Reap, vars, CallsLast, CallsInTime, OnlyMemoryEvicts
<1> QED
  BY <1>4, <1>5, <1>6, <1>7, <1>8, <1>9, <1>10, <1>11, <1>12, <1>13 DEF Next, Kinds

LEMMA LastsStep ==
  ASSUME SessionConstants, TypeOK, LastsInv, [Next]_vars
  PROVE  LastLasts' /\ SessionLasts'
<1>1. /\ clock \in Nat /\ TTL \in Nat /\ CallTime \in Nat /\ None \notin Nat
      /\ last # None => last \in Nat
      /\ store # None => store \in Nat
      /\ \A m \in Messages : message[m].now \in Nat
  BY DEF TypeOK, Times, SessionConstants, Message, Record
<1>2. /\ last # None => last <= clock /\ clock < last + TTL - CallTime
      /\ durable /\ last # None => store # None /\ store >= last + TTL - CallTime
  BY DEF LastsInv, LastLasts, SessionLasts, Promised
<1>3. \A m \in Messages : message[m].step \in StoreSteps =>
        message[m].now <= clock /\ clock <= message[m].now + CallTime
  BY DEF LastsInv, CallsInTime
<1> USE DEF LastLasts, SessionLasts, Promised
\* A message's expiry is at most a call's time before what is promised.
<1>4. ASSUME NEW m \in Messages, message[m].step \in StoreSteps, store' = message[m].now + TTL,
             UNCHANGED <<clock, durable>>,
             \/ last' = last
             \/ last' = message[m].now /\ clock < message[m].now + TTL - CallTime
      PROVE  LastLasts' /\ SessionLasts'
  <2>1. store' # None /\ store' \in Nat
    BY <1>1, <1>4
  <2>2. message[m].now <= clock /\ clock <= message[m].now + CallTime
    BY <1>3, <1>4
  <2>3. CASE last' = last
    BY <1>1, <1>2, <1>4, <2>1, <2>2, <2>3
  <2>4. CASE last' = message[m].now /\ clock < message[m].now + TTL - CallTime
    BY <1>1, <1>4, <2>1, <2>2, <2>4
  <2> QED BY <1>4, <2>3, <2>4
<1>5. ASSUME NEW m \in Messages, NEW told \in BOOLEAN, Refresh(m, told)
      PROVE  LastLasts' /\ SessionLasts'
  BY <1>4, <1>5 DEF Refresh, Write, StoreSteps
<1>6. ASSUME NEW m \in Messages, Mark(m)
      PROVE  LastLasts' /\ SessionLasts'
  BY <1>4, <1>6 DEF Mark, Write, StoreSteps
<1>7. ASSUME NEW m \in Messages, Evict(m)
      PROVE  LastLasts' /\ SessionLasts'
  BY <1>2, <1>7 DEF Evict, LastsInv, OnlyMemoryEvicts
<1>8. ASSUME NEW m \in Messages, Erase(m)
      PROVE  LastLasts' /\ SessionLasts'
  BY <1>8 DEF Erase
<1>9. CASE Reap
  BY <1>1, <1>2, <1>9 DEF Reap, Expired
<1>10. CASE Tick
  BY <1>1, <1>2, <1>10 DEF Tick
<1>11. CASE UNCHANGED <<clock, durable, store, last>>
  BY <1>2, <1>11
<1>12. ASSUME NEW m \in Messages,
              \/ \E kind \in Kinds, left \in 0 .. MaxBatch, p \in Processes :
                   Arrive(m, kind, left, p)
              \/ Get(m) \/ Check(m) \/ Fail(m) \/ Finish(m)
              \/ \E k \in Keys : Track(m, k) \/ Cancel(m, k)
       PROVE  UNCHANGED <<clock, durable, store, last>>
  BY <1>12 DEF Arrive, Get, Check, Fail, Finish, Track, Cancel
<1>13. ASSUME NEW p \in Processes, Crash(p) PROVE UNCHANGED <<clock, durable, store, last>>
  BY <1>13 DEF Crash
<1>14. UNCHANGED vars => UNCHANGED <<clock, durable, store, last>>
  BY DEF vars
<1> QED
  BY <1>5, <1>6, <1>7, <1>8, <1>9, <1>10, <1>11, <1>12, <1>13, <1>14 DEF Next, Kinds

-----------------------------------------------------------------------------
(* The session that was deleted.                                            *)

Found == {"check", "evict", "refresh", "mark", "erase"}

\* A message moves on, not to create the session.
LEMMA CreatedKept ==
  ASSUME TypeOK, CreatedOnce, NEW m \in Messages, NEW new, Becomes(m, new),
         new.step # "create", created' \in {created, "told"},
         created = "told" \/ (message[m].step = "create" /\ (created' = "told" \/ new.step = "idle"))
  PROVE  CreatedOnce'
<1>1. message'[m] = new /\ \A n \in Messages \ {m} : message'[n] = message[n]
  BY DEF Becomes, TypeOK
<1>2. CASE created = "told"
  BY <1>1, <1>2 DEF CreatedOnce
<1>3. CASE created # "told" /\ message[m].step = "create"
  <2>1. created = "asked"
    BY <1>3 DEF TypeOK, CreatedOnce
  <2>2. \A n \in Messages \ {m} : message'[n].step = "idle"
    BY <1>1, <1>3, <2>1 DEF CreatedOnce
  <2> QED BY <1>1, <2>1, <2>2 DEF CreatedOnce
<1> QED BY <1>2, <1>3

LEMMA CreatedStep ==
  ASSUME SessionConstants, RequestsInv, CreatedOnce, [Next]_vars
  PROVE  CreatedOnce'
<1>1. TypeOK /\ BatchGoesOn
  BY DEF RequestsInv
<1>2. ASSUME NEW m \in Messages, message[m].step \notin {"idle", "create"} PROVE created = "told"
  BY <1>1, <1>2 DEF TypeOK, CreatedOnce
<1>3. ASSUME NEW m \in Messages, NEW kind \in Kinds, NEW left \in 0 .. MaxBatch,
             NEW p \in Processes, Arrive(m, kind, left, p)
      PROVE  CreatedOnce'
  <2>1. PICK new : Becomes(m, new) /\ new.step = IF kind = "initialize" THEN "create" ELSE "read"
    BY <1>1, <1>3, ArriveEffect DEF Kinds
  <2>2. CASE kind = "initialize"
    <3>1. message'[m] = new /\ \A n \in Messages \ {m} : message'[n] = message[n]
      BY <1>1, <2>1 DEF Becomes, TypeOK
    <3>2. created = "no" /\ created' = "asked" /\ new.step = "create"
      BY <1>3, <2>1, <2>2 DEF Arrive
    <3> QED BY <3>1, <3>2 DEF CreatedOnce
  <2>3. CASE kind # "initialize"
    BY <1>1, <1>3, <2>1, <2>3, CreatedKept DEF Arrive
  <2> QED BY <2>2, <2>3
<1>4. ASSUME NEW m \in Messages, NEW told \in BOOLEAN, Refresh(m, told)
      PROVE  CreatedOnce'
  <2>1. PICK new : Becomes(m, new) /\ new.step \in {"next", "mark", "lookup", "idle"}
                   /\ (~told => new.step = "idle")
    BY <1>1, <1>4, RefreshEffect
  <2>2. created' = IF told THEN "told" ELSE created
    BY <1>4 DEF Refresh
  <2>3. created = "told" \/ message[m].step = "create"
    BY <1>2, <1>4 DEF Refresh
  <2> QED BY <1>1, <2>1, <2>2, <2>3, CreatedKept
<1>5. ASSUME NEW m \in Messages, Get(m) PROVE CreatedOnce'
  BY <1>1, <1>2, <1>5, GetEffect, CreatedKept DEF Get
<1>6. ASSUME NEW m \in Messages, Check(m) PROVE CreatedOnce'
  BY <1>1, <1>2, <1>6, CheckEffect, CreatedKept DEF Check
<1>7. ASSUME NEW m \in Messages,
             Evict(m) \/ Mark(m) \/ Erase(m) \/ Fail(m) \/ \E k \in Keys : Cancel(m, k)
      PROVE  CreatedOnce'
  <2>1. PICK new : Becomes(m, new) /\ new.step = "idle"
    BY <1>1, <1>7, EndsEffect DEF Evict, Mark, Erase, Fail, Cancel
  <2>2. created' = created /\ message[m].step # "idle"
    BY <1>7 DEF Evict, Mark, Erase, Fail, Cancel, StoreSteps
  <2>3. created = "told" \/ message[m].step = "create"
    BY <1>2, <2>2
  <2> QED BY <1>1, <2>1, <2>2, <2>3, CreatedKept
<1>8. ASSUME NEW m \in Messages, NEW k \in Keys, Track(m, k) PROVE CreatedOnce'
  BY <1>1, <1>2, <1>8, TrackEffect, CreatedKept DEF Track
<1>9. ASSUME NEW m \in Messages, Finish(m) PROVE CreatedOnce'
  BY <1>1, <1>2, <1>9, OverEffect, CreatedKept DEF Finish, Running
<1>10. ASSUME NEW p \in Processes, Crash(p) PROVE CreatedOnce'
  <2>1. \A m \in Messages : message'[m] = message[m] \/ message'[m].step = "idle"
    BY <1>10 DEF Crash, Idle
  <2> QED BY <1>10, <2>1 DEF Crash, CreatedOnce
<1>11. CASE Reap \/ Tick \/ UNCHANGED vars
  BY <1>11 DEF Reap, Tick, vars, CreatedOnce
<1> QED
  BY <1>3, <1>4, <1>5, <1>6, <1>7, <1>8, <1>9, <1>10, <1>11 DEF Next, Kinds

\* What may be read is what was written within the bound.
LEMMA ReadsStep ==
  ASSUME SessionConstants, TypeOK, ReadsInTime, [Next]_vars
  PROVE  ReadsInTime'
<1>1. clock \in Nat /\ Staleness \in Nat /\ MaxClock \in Nat
      /\ \A p \in past : p.until \in Nat
  BY DEF TypeOK, Times, SessionConstants
<1>2. CASE Tick
  BY <1>1, <1>2 DEF Tick, ReadsInTime
<1>3. CASE UNCHANGED <<clock, past>>
  BY <1>3 DEF ReadsInTime
<1>4. CASE /\ clock' = clock
           /\ past' = IF durable THEN past \cup {[record |-> store, until |-> clock + Staleness]}
                      ELSE past
  BY <1>1, <1>4 DEF ReadsInTime
<1>5. ASSUME NEW m \in Messages, Calls(m) PROVE ReadsInTime'
  <2>1. ASSUME NEW told \in BOOLEAN, Refresh(m, told) PROVE ReadsInTime'
    BY <1>4, <2>1 DEF Refresh, Write
  <2> QED BY <1>3, <1>4, <1>5, <2>1
          DEF Calls, Arrive, Get, Check, Evict, Mark, Erase, Fail, Cancel, Write
<1>6. CASE Reap
  BY <1>4, <1>6 DEF Reap, Write
<1>7. CASE \/ \E m \in Messages : Finish(m) \/ \E k \in Keys : Track(m, k)
           \/ \E p \in Processes : Crash(p)
           \/ UNCHANGED vars
  BY <1>3, <1>7 DEF Finish, Track, Crash, vars
<1> QED BY <1>2, <1>5, <1>6, <1>7 DEF Next, Calls, Kinds

\* The deletion, its time and the messages that found the session.
DeletedTyped ==
    /\ clock \in Nat /\ Staleness \in Nat
    /\ deleted # None => deleted \in Nat
    /\ \A m \in Messages : message[m].now \in Nat
    /\ \A p \in past : p.until \in Nat

LEMMA TypesOfDeletion ==
  ASSUME SessionConstants, TypeOK
  PROVE  DeletedTyped
  BY DEF TypeOK, Times, SessionConstants, Message, DeletedTyped

\* A step after which the session is deleted as before.
LEMMA StaysDeleted ==
  ASSUME TypeOK, FoundInTime, NEW m \in Messages, NEW new, Becomes(m, new),
         deleted' = deleted, created' = created, store' = store \/ store' = None,
         past' \subseteq past \cup {[record |-> store, until |-> clock + Staleness]},
         deleted # None /\ new.step \in Found => new.now <= deleted + Staleness
  PROVE  FoundInTime'
<1>1. message'[m] = new /\ \A n \in Messages \ {m} : message'[n] = message[n]
  BY DEF Becomes, TypeOK
<1>2. CASE deleted # None
  <2>1. store = None /\ store' = None
    BY <1>2 DEF FoundInTime
  <2>2. \A p \in past' : p.record # None => p \in past
    BY <2>1
  <2>3. \A n \in Messages : message'[n].step \in Found => message'[n].now <= deleted' + Staleness
    BY <1>1, <1>2 DEF FoundInTime, Found
  <2> QED BY <1>2, <2>1, <2>2, <2>3 DEF FoundInTime, Found
<1> QED BY <1>2 DEF FoundInTime

LEMMA FoundStep ==
  ASSUME SessionConstants, RequestsInv, LastsInv, DeletionInv, [Next]_vars
  PROVE  FoundInTime'
<1>1. TypeOK /\ BatchGoesOn /\ DeletedTyped /\ CreatedOnce /\ ReadsInTime /\ FoundInTime
      /\ CallsInTime
  BY TypesOfDeletion DEF RequestsInv, DeletionInv, LastsInv
\* Who goes on has found the session in time, if it has.
<1>2. ASSUME NEW m \in Messages, deleted # None, message[m].step \in Found
      PROVE  message[m].now <= deleted + Staleness
  BY <1>1, <1>2 DEF FoundInTime, Found
<1>3. ASSUME NEW m \in Messages, NEW kind \in Kinds, NEW left \in 0 .. MaxBatch,
             NEW p \in Processes, Arrive(m, kind, left, p)
      PROVE  FoundInTime'
  <2>1. PICK new : Becomes(m, new) /\ new.step \in {"create", "read"}
    BY <1>1, <1>3, ArriveEffect DEF Kinds
  <2>2. deleted # None => kind # "initialize"
    BY <1>1, <1>3 DEF Arrive, FoundInTime
  <2>3. CASE deleted # None
    BY <1>1, <1>3, <2>1, <2>2, <2>3, StaysDeleted DEF Arrive, Found
  <2>4. CASE deleted = None
    BY <1>3, <2>4 DEF Arrive, FoundInTime
  <2> QED BY <2>3, <2>4
<1>4. ASSUME NEW m \in Messages, (\E told \in BOOLEAN : Refresh(m, told)) \/ Mark(m)
      PROVE  FoundInTime'
  <2>1. message[m].now + TTL # None
    BY <1>1 DEF DeletedTyped, SessionConstants
  <2>2. deleted' = None
    BY <1>4, <2>1 DEF Refresh, Mark, Write
  <2> QED BY <2>2 DEF FoundInTime
<1>5. ASSUME NEW m \in Messages, Get(m)
      PROVE  FoundInTime'
  <2>1. PICK new : /\ Becomes(m, new) /\ new.step \in {"check", "idle"}
                   /\ new.step = "check" =>
                        /\ new.now = message[m].now
                        /\ store # None \/ \E p \in past : p.record # None
    BY <1>1, <1>5, GetEffect
  <2>2. ASSUME deleted # None, new.step = "check" PROVE new.now <= deleted + Staleness
    <3>1. PICK p \in past : p.record # None
      BY <1>1, <2>1, <2>2 DEF FoundInTime
    <3>2. clock <= p.until /\ p.until <= deleted + Staleness
      BY <1>1, <2>2, <3>1 DEF FoundInTime, ReadsInTime
    <3>3. message[m].now <= clock
      BY <1>1, <1>5 DEF CallsInTime, Get, StoreSteps
    <3> QED BY <1>1, <2>1, <2>2, <3>2, <3>3 DEF DeletedTyped
  <2> QED BY <1>1, <1>5, <2>1, <2>2, StaysDeleted DEF Get, Found
<1>6. ASSUME NEW m \in Messages, Check(m)
      PROVE  FoundInTime'
  <2>1. PICK new : Becomes(m, new) /\ new.step \in {"evict", "refresh", "erase", "idle"}
                   /\ (new.step # "idle" => new.now = message[m].now)
    BY <1>1, <1>6, CheckEffect
  <2>2. deleted # None /\ new.step \in Found => new.now <= deleted + Staleness
    BY <1>2, <1>6, <2>1 DEF Check, Found
  <2> QED BY <1>1, <1>6, <2>1, <2>2, StaysDeleted DEF Check
<1>7. ASSUME NEW m \in Messages, Evict(m) \/ Fail(m) \/ \E k \in Keys : Cancel(m, k)
      PROVE  FoundInTime'
  <2>1. PICK new : Becomes(m, new) /\ new.step = "idle"
    BY <1>1, <1>7, EndsEffect DEF Evict, Fail, Cancel
  <2>2. /\ deleted' = deleted /\ created' = created /\ (store' = store \/ store' = None)
        /\ past' \subseteq past \cup {[record |-> store, until |-> clock + Staleness]}
    BY <1>7 DEF Evict, Fail, Cancel, Write
  <2> QED BY <1>1, <2>1, <2>2, StaysDeleted DEF Found
<1>8. ASSUME NEW m \in Messages, Erase(m)
      PROVE  FoundInTime'
  <2>1. PICK new : Becomes(m, new) /\ new.step = "idle"
    BY <1>1, <1>8, EndsEffect DEF Erase
  <2>2. message'[m] = new /\ \A n \in Messages \ {m} : message'[n] = message[n]
    BY <1>1, <2>1 DEF Becomes, TypeOK
  <2>3. created = "told"
    BY <1>1, <1>8 DEF Erase, CreatedOnce, TypeOK
  <2>4. /\ deleted' = clock /\ store' = None /\ created' = "told"
        /\ past' \subseteq past \cup {[record |-> store, until |-> clock + Staleness]}
    BY <1>8, <2>3 DEF Erase
  <2>5. \A p \in past' : p.until <= deleted' + Staleness
    BY <1>1, <2>4 DEF ReadsInTime, DeletedTyped
  <2>6. \A n \in Messages : message'[n].step \in Found => message'[n].now <= deleted' + Staleness
    <3>1. \A n \in Messages : message[n].step \in Found => message[n].now <= clock
      BY <1>1 DEF CallsInTime, StoreSteps, Found
    <3> QED BY <1>1, <2>1, <2>2, <2>4, <3>1 DEF DeletedTyped, Found
  <2> QED BY <2>4, <2>5, <2>6 DEF FoundInTime, Found
<1>9. ASSUME NEW m \in Messages, Finish(m) \/ \E k \in Keys : Track(m, k)
      PROVE  FoundInTime'
  <2>1. PICK new : Becomes(m, new) /\ new.step \in {"next", "idle", "run"}
    BY <1>1, <1>9, OverEffect, TrackEffect DEF Finish
  <2>2. UNCHANGED <<deleted, created, store, past>>
    BY <1>9 DEF Finish, Track
  <2> QED BY <1>1, <2>1, <2>2, StaysDeleted DEF Found
<1>10. ASSUME NEW p \in Processes, Crash(p) PROVE FoundInTime'
  <2>1. \A m \in Messages : message'[m] = message[m] \/ message'[m].step = "idle"
    BY <1>10 DEF Crash, Idle
  <2> QED BY <1>1, <1>10, <2>1 DEF Crash, FoundInTime
<1>11. CASE Reap
  <2>1. deleted = None
    BY <1>1, <1>11 DEF Reap, FoundInTime
  <2> QED BY <1>11, <2>1 DEF Reap, Write, FoundInTime
<1>12. CASE Tick \/ UNCHANGED vars
  BY <1>1, <1>12 DEF Tick, vars, FoundInTime
<1> QED
  BY <1>3, <1>4, <1>5, <1>6, <1>7, <1>8, <1>9, <1>10, <1>11, <1>12 DEF Next, Kinds

-----------------------------------------------------------------------------
(* The theorems.                                                            *)

LEMMA SessionStarts ==
  ASSUME SessionConstants
  PROVE  Init => SessionInv
<1> SUFFICES ASSUME Init
             PROVE  SessionInv
  OBVIOUS
<1>1. Idle \in Message /\ Idle.step = "idle" /\ message = [m \in Messages |-> Idle]
  BY IdleIsMessage DEF Init, Idle
<1>2. \A m \in Messages : message[m].step = "idle"
  BY <1>1
<1>3. TypeOK
  BY <1>1 DEF Init, TypeOK, Times, Record, SessionConstants
<1>4. RequestsInv
  BY <1>2, <1>3 DEF Init, RequestsInv, BatchGoesOn, EntriesRun, CancelReaches, Running,
     SessionConstants
<1>5. LastsInv
  BY <1>2 DEF Init, LastsInv, CallsInTime, LastLasts, OnlyMemoryEvicts, SessionLasts, StoreSteps
<1>6. DeletionInv
  BY <1>2 DEF Init, DeletionInv, CreatedOnce, ReadsInTime, FoundInTime
<1> QED BY <1>4, <1>5, <1>6 DEF SessionInv

LEMMA SessionStep ==
  ASSUME SessionConstants, SessionInv, [Next]_vars
  PROVE  SessionInv'
<1>1. RequestsInv'
  BY RequestsStep DEF SessionInv
<1>2. LastsInv'
  BY CallsStep, LastsStep DEF SessionInv, RequestsInv, LastsInv, CallsLast
<1>3. DeletionInv'
  BY CreatedStep, ReadsStep, FoundStep DEF SessionInv, RequestsInv, DeletionInv
<1> QED BY <1>1, <1>2, <1>3 DEF SessionInv

\* Who writes the record after the deletion has found the session in time.
LEMMA RevivedInTime ==
  ASSUME SessionConstants, SessionInv, [Next]_vars, deleted # None, store' # None
  PROVE  clock <= deleted + Staleness + CallTime
<1>1. /\ TypeOK /\ DeletedTyped /\ CreatedOnce /\ FoundInTime /\ CallsInTime
      /\ CallTime \in Nat
  BY TypesOfDeletion DEF SessionInv, RequestsInv, DeletionInv, LastsInv, SessionConstants
<1>2. store = None /\ created = "told"
  BY <1>1 DEF FoundInTime
<1>3. ~Reap /\ ~Tick /\ ~UNCHANGED vars
  BY <1>2 DEF Reap, Tick, vars, Write
<1>4. PICK m \in Messages : (\E told \in BOOLEAN : Refresh(m, told)) \/ Mark(m)
  <2>1. ASSUME NEW m \in Messages
        PROVE  /\ ~(Get(m) \/ Check(m) \/ Evict(m) \/ Erase(m) \/ Fail(m) \/ Finish(m))
               /\ \A k \in Keys : ~Track(m, k) /\ ~Cancel(m, k)
    BY <1>2 DEF Get, Check, Evict, Erase, Fail, Track, Cancel, Finish, Write
  <2>2. ASSUME NEW m \in Messages, NEW kind, NEW left, NEW p
        PROVE  ~Arrive(m, kind, left, p)
    BY <1>2 DEF Arrive
  <2>3. ASSUME NEW p \in Processes
        PROVE  ~Crash(p)
    BY <1>2 DEF Crash
  <2> QED BY <1>3, <2>1, <2>2, <2>3, Zenon DEF Next
<1>5. message[m].step \in {"refresh", "mark"}
  BY <1>1, <1>2, <1>4 DEF Refresh, Mark, CreatedOnce
<1>6. message[m].now <= deleted + Staleness /\ clock <= message[m].now + CallTime
  BY <1>1, <1>5 DEF FoundInTime, CallsInTime, StoreSteps
<1> QED BY <1>1, <1>6 DEF DeletedTyped

\* The invariant holds in every reachable state of the session.
LEMMA SessionAlwaysInv ==
  ASSUME SessionConstants
  PROVE  Spec => []SessionInv
<1>1. SessionInv /\ [Next]_vars => SessionInv'
  BY SessionStep
<1> QED BY <1>1, SessionStarts, PTL DEF Spec

\* A session in the DynamoDB store lasts for its TTL after the last message that
\* was served, up to the time that older messages take to write their expiry
\* over it, and a running request can be cancelled in its process, whatever
\* requests with its id ended before.
THEOREM SessionAlwaysSafe ==
  ASSUME SessionConstants
  PROVE  Spec => []SessionSafe
<1>1. SessionInv => SessionSafe
  BY DEF SessionInv, RequestsInv, LastsInv, SessionSafe
<1> QED BY <1>1, SessionAlwaysInv, PTL

\* A deleted session is revived only by a message that was served while DELETE
\* removed it or that read an old record.
THEOREM SessionStaysDeleted ==
  ASSUME SessionConstants
  PROVE  Spec => DeletedStaysGone
<1>1. SessionInv /\ [Next]_vars =>
        [deleted # None /\ store' # None => clock <= deleted + Staleness + CallTime]_vars
  BY RevivedInTime
<1> QED BY <1>1, SessionAlwaysInv, PTL DEF Spec, DeletedStaysGone
=============================================================================

--------------------------- MODULE Streams_proofs ---------------------------
(***************************************************************************)
(* Proofs about MCStreams.  DynamoStreamStore_proofs is carried over to its *)
(* instance of one stream; then come the memory store, each of whose streams *)
(* is a log as StreamLog describes it, however many they are, the response   *)
(* that carries a stream to its client, the event bus, and the instance of   *)
(* DynamoStreamStore with two streams.                                       *)
(***************************************************************************)
EXTENDS MCStreams, DynamoStreamStore_proofs

-----------------------------------------------------------------------------
(* The DynamoDB store with one stream.                                       *)

LEMMA StoreInvOfStreams == StreamsSpec => [](kind = "ONE" => StoreInv)
<1>1. StreamsInit => (kind = "ONE" => StoreInv)
  BY StoreInvInit DEF StreamsInit
<1>2. /\ kind = "ONE" => StoreInv
      /\ [StreamsNext]_<<kind, vars, memVars, busVars, sseVars>>
      => (kind = "ONE" => StoreInv)'
  <2> SUFFICES ASSUME kind = "ONE" => StoreInv,
                      [StreamsNext]_<<kind, vars, memVars, busVars, sseVars>>,
                      kind' = "ONE"
               PROVE  StoreInv'
    OBVIOUS
  <2>1. kind = "ONE" /\ [Next]_vars
    BY DEF StreamsNext
  <2> QED BY <2>1, StoreInvStep
<1> QED BY <1>1, <1>2, PTL DEF StreamsSpec

\* The same of the instance that is run: once DeleteSession is done its events stay gone,
\* and so do their payloads.
THEOREM EventsAlwaysGone == StreamsSpec => []EventsStayGone
<1>1. (kind = "ONE" => StoreInv) => EventsStayGone
  BY DeletionFollows DEF EventsStayGone
<1> QED BY <1>1, StoreInvOfStreams, PTL

LEMMA OneInvOfStreams ==
  ASSUME OneStream PROVE StreamsSpec => [](kind = "ONE" => OneInv)
<1>1. StreamsInit => (kind = "ONE" => OneInv)
  BY OneInvInit DEF StreamsInit
<1>2. /\ kind = "ONE" => OneInv
      /\ [StreamsNext]_<<kind, vars, memVars, busVars, sseVars>>
      => (kind = "ONE" => OneInv)'
  <2> SUFFICES ASSUME kind = "ONE" => OneInv,
                      [StreamsNext]_<<kind, vars, memVars, busVars, sseVars>>,
                      kind' = "ONE"
               PROVE  OneInv'
    OBVIOUS
  <2>1. kind = "ONE" /\ [Next]_vars
    BY DEF StreamsNext
  <2> QED BY <2>1, OneInvStep
<1> QED BY <1>1, <1>2, PTL DEF StreamsSpec

\* The client of a tool call that is the only one of its session receives what was
\* appended without a gap while the session lives, and when its stream ends it has
\* received all of it.
THEOREM ClientsAlwaysReceive ==
  ASSUME OneStream PROVE StreamsSpec => []ClientsReceive
<1>1. (kind = "ONE" => OneInv) => ClientsReceive
  BY OrderFollows, NoGapFollows DEF ClientsReceive, OneInv
<1> QED BY <1>1, OneInvOfStreams, PTL

-----------------------------------------------------------------------------
(* The inductive invariant of the memory store.                             *)

MemRecord == [seq : Nat, stream : Pair, n : 1 .. PairFinal + 1]
MemStream == [events : Seq(MemRecord), closed : BOOLEAN]
MemTool == [step : Mem!ToolSteps, n : 1 .. PairFinal + 1]
MemSub == [step : Mem!SubSteps, of : Pair, index : Nat, canceled : BOOLEAN,
           watched : BOOLEAN]
MemTypes ==
    /\ memNextSeq \in Nat
    /\ known \subseteq Pair
    /\ stream \in [Pair -> MemStream]
    /\ memTool \in [Pair -> MemTool]
    /\ memSub \in [Pair -> MemSub]
    /\ deleted \in BOOLEAN
    /\ memGot \in [Pair -> Seq(MemRecord)]

\* The stream that is known is open until its writer is done, and its events have
\* the numbers of its session's record, in their order.  A stream that was created is
\* known until the deletion.
MemWriterInv(s) ==
    /\ s \in known => memTool[s].step # "create"
    /\ memTool[s].step # "create" => s \in known \/ deleted
    /\ memTool[s].step = "create" => stream[s].events = <<>>
    /\ stream[s].closed => /\ memTool[s].step # "create"
                           /\ s \in known => memTool[s].step = "done"
    /\ \A i \in 1 .. Len(stream[s].events) :
         s \in known => stream[s].events[i].seq <= memNextSeq
    /\ \A i, j \in 1 .. Len(stream[s].events) :
         i < j => stream[s].events[i].seq < stream[s].events[j].seq
    /\ \A i \in 1 .. Len(stream[s].events) :
         stream[s].events[i].seq >= 1 /\ stream[s].events[i].stream = s

\* Two streams of the session's record have no number in common.
MemApart(s, t) ==
    s \in known /\ t \in known /\ s # t =>
      \A i \in 1 .. Len(stream[s].events), j \in 1 .. Len(stream[t].events) :
        stream[s].events[i].seq # stream[t].events[j].seq

\* What a client received of its own stream is how the events begin, and the index of
\* the subscription is where it ends.
MemOwnInv(s) ==
    /\ Len(memGot[s]) <= Len(stream[s].events)
    /\ \A i \in 1 .. Len(memGot[s]) : memGot[s][i] = stream[s].events[i]
    /\ memSub[s].step = "new" => memGot[s] = <<>>
    /\ memSub[s].step = "found" => memGot[s] # <<>>
    /\ memSub[s].step \in {"next", "asleep"} => memSub[s].index = Len(memGot[s])
    /\ memSub[s].step = "send" => /\ memSub[s].index = Len(memGot[s]) + 1
                                  /\ memSub[s].index <= Len(stream[s].events)
    /\ memSub[s].step = "closed" => /\ stream[s].closed
                                    /\ Len(memGot[s]) = Len(stream[s].events)

\* What it received once it resumed another stream rises still, and is of its own
\* stream first and then of the other, in which the number received last is the one
\* before where the subscription is.
MemReached(s, t, a) ==
    /\ stream[t].events[a].seq = memGot[s][Len(memGot[s])].seq
    /\ memSub[s].step \in {"next", "asleep"} => memSub[s].index = a
    /\ memSub[s].step = "send" => memSub[s].index = a + 1 /\ a < Len(stream[t].events)
MemOtherInv(s, t) ==
    /\ deleted /\ s \notin known /\ t \in known
    /\ memSub[s].step # "new" /\ memGot[s] # <<>> /\ stream[s].events # <<>>
    /\ \A i \in 1 .. Len(memGot[s]) :
         \/ \E j \in 1 .. Len(stream[s].events) : memGot[s][i] = stream[s].events[j]
         \/ \E j \in 1 .. Len(stream[t].events) : memGot[s][i] = stream[t].events[j]
    /\ \A i, j \in 1 .. Len(memGot[s]) :
         i < j => /\ memGot[s][i].seq < memGot[s][j].seq
                  /\ memGot[s][j].stream = s => memGot[s][i].stream = s
    /\ \E a \in 1 .. Len(stream[t].events) : MemReached(s, t, a)
MemClientInv(s) ==
    /\ memSub[s].of = s => MemOwnInv(s)
    /\ memSub[s].of # s => MemOtherInv(s, memSub[s].of)

MemStreamInv(s) == MemWriterInv(s) /\ MemClientInv(s)

\* The appends that are over, and the numbers given out, which are not more.
Appended ==
    {x \in Pair \X (1 .. PairFinal + 1) :
        \/ x[2] < memTool[x[1]].n
        \/ x[2] = memTool[x[1]].n /\ memTool[x[1]].step \in {"close", "done"}}
MemIdsCount == memNextSeq <= Cardinality(Appended)

MemInv ==
    /\ MemTypes /\ MemIdsCount
    /\ \A s \in Pair : MemStreamInv(s)
    /\ \A s, t \in Pair : MemApart(s, t)

AllAppends == Pair \X (1 .. PairFinal + 1)

LEMMA AllAppendsCounted ==
  IsFiniteSet(AllAppends) /\ Cardinality(AllAppends) = Cardinality(Pair) * (PairFinal + 1)
<1>1. IsFiniteSet(Pair) /\ PairFinal + 1 \in Nat /\ PairFinal \in Nat /\ PairFinal + 1 >= 1
  BY PairAssumption
<1>2. /\ IsFiniteSet(1 .. PairFinal + 1)
      /\ Cardinality(1 .. PairFinal + 1) = PairFinal + 1
  BY <1>1, FS_Interval
<1> QED BY <1>1, <1>2, FS_Product DEF AllAppends

LEMMA AppendedCounted ==
  /\ IsFiniteSet(Appended) /\ Cardinality(Appended) \in Nat
  /\ Cardinality(Appended) <= Cardinality(Pair) * (PairFinal + 1)
<1>1. Appended \subseteq AllAppends
  BY DEF Appended, AllAppends
<1>2. IsFiniteSet(Appended) /\ Cardinality(Appended) <= Cardinality(AllAppends)
  BY <1>1, AllAppendsCounted, FS_Subset
<1> QED BY <1>2, AllAppendsCounted, FS_CardinalityType

LEMMA MemInvInit == Mem!Init => MemInv
<1> SUFFICES ASSUME Mem!Init PROVE MemInv
  OBVIOUS
<1>1. 1 \in 1 .. PairFinal + 1
  BY PairAssumption
<1>2. MemTypes
  <2>1. stream \in [Pair -> MemStream] /\ memTool \in [Pair -> MemTool]
    BY <1>1 DEF Mem!Init, MemStream, MemTool, Mem!ToolSteps
  <2>2. memSub \in [Pair -> MemSub]
    BY DEF Mem!Init, MemSub, Mem!SubSteps
  <2>3. memNextSeq \in Nat /\ known \subseteq Pair /\ deleted \in BOOLEAN
    BY DEF Mem!Init
  <2>4. memGot \in [Pair -> Seq(MemRecord)]
    <3>1. <<>> \in Seq(MemRecord) /\ memGot = [s \in Pair |-> <<>>]
      BY DEF Mem!Init
    <3> QED BY <3>1
  <2> QED BY <2>1, <2>2, <2>3, <2>4 DEF MemTypes
<1>3. MemIdsCount
  BY AppendedCounted DEF Mem!Init, MemIdsCount
<1>4. ASSUME NEW s \in Pair PROVE MemStreamInv(s)
  <2>1. /\ known = {} /\ stream[s].events = <<>> /\ ~stream[s].closed
        /\ memTool[s].step = "create" /\ memGot[s] = <<>> /\ memSub[s].step = "new"
        /\ memSub[s].of = s
    BY DEF Mem!Init
  <2> QED BY <2>1 DEF MemStreamInv, MemWriterInv, MemClientInv, MemOwnInv
<1>5. \A s, t \in Pair : MemApart(s, t)
  BY DEF Mem!Init, MemApart
<1> QED BY <1>2, <1>3, <1>4, <1>5 DEF MemInv

\* How the steps write the records down.
MemTurns(s, next) == memSub' = [memSub EXCEPT ![s].step = next]
MemTakes(s, next, index) == memSub' = [memSub EXCEPT ![s].step = next, ![s].index = index]
MemFinds(s, next, t) == memSub' = [memSub EXCEPT ![s].step = next, ![s].of = t]
MemBecomes(s, r) == memSub' = [memSub EXCEPT ![s] = r]
MemAt(next, t, index, canceled, watched) ==
    [step |-> next, of |-> t, index |-> index, canceled |-> canceled,
     watched |-> watched]

LEMMA MemSubFields ==
  ASSUME NEW q \in MemSub, NEW v
  PROVE  /\ [q EXCEPT !.step = v] = MemAt(v, q.of, q.index, q.canceled, q.watched)
         /\ [q EXCEPT !.of = v] = MemAt(q.step, v, q.index, q.canceled, q.watched)
         /\ [q EXCEPT !.canceled = v] = MemAt(q.step, q.of, q.index, v, q.watched)
         /\ [q EXCEPT !.watched = v] = MemAt(q.step, q.of, q.index, q.canceled, v)
         /\ [q EXCEPT !.index = v] = MemAt(q.step, q.of, v, q.canceled, q.watched)
BY DEF MemSub, MemAt

LEMMA MemSubChanges ==
  ASSUME MemTypes, NEW s \in Pair, NEW next \in Mem!SubSteps, NEW v
  PROVE  /\ MemTurns(s, next) =>
              MemBecomes(s, MemAt(next, memSub[s].of, memSub[s].index, memSub[s].canceled,
                                  memSub[s].watched))
         /\ MemTakes(s, next, v) =>
              MemBecomes(s, MemAt(next, memSub[s].of, v, memSub[s].canceled,
                                  memSub[s].watched))
         /\ MemFinds(s, next, v) =>
              MemBecomes(s, MemAt(next, v, memSub[s].index, memSub[s].canceled,
                                  memSub[s].watched))
<1> DEFINE q == MemAt(next, memSub[s].of, memSub[s].index, memSub[s].canceled,
                      memSub[s].watched)
           f == [memSub EXCEPT ![s].step = next]
<1>1. memSub \in [Pair -> MemSub] /\ memSub[s] \in MemSub
  BY DEF MemTypes
<1>2. f = [memSub EXCEPT ![s] = [memSub[s] EXCEPT !.step = next]]
  OBVIOUS
<1>3. [memSub[s] EXCEPT !.step = next] = q
  BY <1>1, MemSubFields
<1>4. f = [memSub EXCEPT ![s] = q]
  BY <1>2, <1>3
<1>0. q \in MemSub
  BY <1>1 DEF MemSub, MemAt
<1>5. /\ [q EXCEPT !.index = v]
           = MemAt(next, memSub[s].of, v, memSub[s].canceled, memSub[s].watched)
      /\ [q EXCEPT !.of = v]
           = MemAt(next, v, memSub[s].index, memSub[s].canceled, memSub[s].watched)
  <2>1. /\ [q EXCEPT !.index = v] = MemAt(q.step, q.of, v, q.canceled, q.watched)
        /\ [q EXCEPT !.of = v] = MemAt(q.step, v, q.index, q.canceled, q.watched)
    BY <1>0, MemSubFields
  <2>2. /\ q.step = next /\ q.of = memSub[s].of /\ q.index = memSub[s].index
        /\ q.canceled = memSub[s].canceled /\ q.watched = memSub[s].watched
    BY DEF MemAt
  <2> QED BY <2>1, <2>2
<1>7. /\ [f EXCEPT ![s].index = v] = [f EXCEPT ![s] = [f[s] EXCEPT !.index = v]]
      /\ [f EXCEPT ![s].of = v] = [f EXCEPT ![s] = [f[s] EXCEPT !.of = v]]
  OBVIOUS
<1>8. /\ MemTurns(s, next) => memSub' = f
      /\ MemTakes(s, next, v) => memSub' = [f EXCEPT ![s].index = v]
      /\ MemFinds(s, next, v) => memSub' = [f EXCEPT ![s].of = v]
  BY DEF MemTurns, MemTakes, MemFinds
<1> HIDE DEF f, q
<1>9. f[s] = q
  BY <1>1, <1>4
<1>10. \A m : [f EXCEPT ![s] = m] = [memSub EXCEPT ![s] = m]
  BY <1>1, <1>4
<1>11. /\ [f EXCEPT ![s].index = v] = [memSub EXCEPT ![s] = [q EXCEPT !.index = v]]
       /\ [f EXCEPT ![s].of = v] = [memSub EXCEPT ![s] = [q EXCEPT !.of = v]]
  BY <1>7, <1>9, <1>10
<1>12. MemTurns(s, next) => MemBecomes(s, q)
  BY <1>4, <1>8 DEF MemBecomes
<1>13. MemTakes(s, next, v) =>
         MemBecomes(s, MemAt(next, memSub[s].of, v, memSub[s].canceled,
                             memSub[s].watched))
  BY <1>5, <1>8, <1>11 DEF MemBecomes
<1>14. MemFinds(s, next, v) =>
         MemBecomes(s, MemAt(next, v, memSub[s].index, memSub[s].canceled,
                             memSub[s].watched))
  BY <1>5, <1>8, <1>11 DEF MemBecomes
<1> QED BY <1>12, <1>13, <1>14 DEF q

\* A writer's step: its record.
MemToolGoes(s, next, n) == memTool' = [memTool EXCEPT ![s] = [step |-> next, n |-> n]]

\* Who is awake after a step that moves no subscription on.
MemWoken ==
    \A u \in Pair :
        /\ memSub'[u].of = memSub[u].of /\ memSub'[u].index = memSub[u].index
        /\ \/ memSub'[u].step = memSub[u].step
           \/ memSub[u].step = "asleep" /\ memSub'[u].step = "next"

LEMMA MemToolStep ==
  ASSUME NEW q \in MemTool, NEW next
  PROVE  [q EXCEPT !.step = next] = [step |-> next, n |-> q.n]
BY DEF MemTool

LEMMA MemToolGoesIs ==
  ASSUME MemTypes, NEW s \in Pair, NEW next,
         memTool' = [memTool EXCEPT ![s].step = next]
  PROVE  MemToolGoes(s, next, memTool[s].n)
<1>1. memTool[s] \in MemTool
  BY DEF MemTypes
<1>2. memTool' = [memTool EXCEPT ![s] = [memTool[s] EXCEPT !.step = next]]
  OBVIOUS
<1>3. [memTool[s] EXCEPT !.step = next] = [step |-> next, n |-> memTool[s].n]
  BY <1>1, MemToolStep
<1> QED BY <1>2, <1>3 DEF MemToolGoes

LEMMA MemAfterAppendIs ==
  ASSUME MemTypes, NEW s \in Pair, NEW ok \in BOOLEAN, Mem!AfterAppend(s, ok)
  PROVE  \/ MemToolGoes(s, "append", memTool[s].n + 1) /\ memTool[s].n <= PairFinal
         \/ MemToolGoes(s, "close", memTool[s].n)
<1> DEFINE n == memTool[s].n
           closing == IF n = 1 THEN ~ok ELSE n = PairFinal + 1 \/ (n = PairFinal /\ ok)
           next == IF closing THEN "close" ELSE "append"
           m == IF closing THEN n ELSE n + 1
           q == [memTool[s] EXCEPT !.step = next]
           p == [step |-> next, n |-> n]
           f == [memTool EXCEPT ![s] = p]
<1>1. memTool[s] \in MemTool /\ n \in 1 .. PairFinal + 1 /\ memTool \in [Pair -> MemTool]
  BY DEF MemTypes, MemTool
<1> HIDE DEF next, m
<1>2. memTool' = [[memTool EXCEPT ![s] = q] EXCEPT ![s].n = m]
  BY DEF Mem!AfterAppend, next, m
<1>3. q = p
  BY <1>1, MemToolStep
<1>4. [p EXCEPT !.n = m] = [step |-> next, n |-> m]
  OBVIOUS
<1> HIDE DEF q, p
<1>5. memTool' = [f EXCEPT ![s].n = m]
  BY <1>2, <1>3
<1>6. [f EXCEPT ![s].n = m] = [f EXCEPT ![s] = [f[s] EXCEPT !.n = m]]
  OBVIOUS
<1>7. f[s] = p
  BY <1>1
<1>8. \A x : [f EXCEPT ![s] = x] = [memTool EXCEPT ![s] = x]
  BY <1>1
<1> HIDE DEF f
<1>9. MemToolGoes(s, next, m)
  BY <1>4, <1>5, <1>6, <1>7, <1>8 DEF MemToolGoes
<1>10. CASE closing
  BY <1>9, <1>10 DEF next, m
<1>11. CASE ~closing
  <2>1. n <= PairFinal
    BY <1>1, <1>11, PairAssumption
  <2> QED BY <1>9, <1>11, <2>1 DEF next, m
<1> QED BY <1>10, <1>11

LEMMA MemWokenFields ==
  ASSUME MemTypes, NEW streams
  PROVE  /\ Mem!Woken(streams) \in [Pair -> MemSub]
         /\ \A u \in Pair :
              /\ Mem!Woken(streams)[u].of = memSub[u].of
              /\ Mem!Woken(streams)[u].index = memSub[u].index
              /\ \/ Mem!Woken(streams)[u].step = memSub[u].step
                 \/ memSub[u].step = "asleep" /\ Mem!Woken(streams)[u].step = "next"
<1> DEFINE w == Mem!Woken(streams)
           Awake(u) == MemAt("next", memSub[u].of, memSub[u].index, memSub[u].canceled,
                             memSub[u].watched)
<1>1. w = [u \in Pair |->
             IF memSub[u].of \in streams /\ memSub[u].step = "asleep"
               THEN [memSub[u] EXCEPT !.step = "next"] ELSE memSub[u]]
  BY DEF Mem!Woken
<1>2. \A u \in Pair : memSub[u] \in MemSub
  BY DEF MemTypes
<1>3. \A u \in Pair : [memSub[u] EXCEPT !.step = "next"] = Awake(u)
  BY <1>2, MemSubFields
<1>4. \A u \in Pair : /\ Awake(u) \in MemSub /\ Awake(u).of = memSub[u].of
                      /\ Awake(u).index = memSub[u].index /\ Awake(u).step = "next"
  BY <1>2 DEF MemSub, Mem!SubSteps, MemAt
<1> HIDE DEF w, Awake
<1>5. \A u \in Pair : \/ w[u] = memSub[u]
                      \/ memSub[u].step = "asleep" /\ w[u] = Awake(u)
  BY <1>1, <1>3
<1>6. w \in [Pair -> MemSub]
  BY <1>1, <1>2, <1>3, <1>4
<1>7. \A u \in Pair : /\ w[u].of = memSub[u].of /\ w[u].index = memSub[u].index
                      /\ \/ w[u].step = memSub[u].step
                         \/ memSub[u].step = "asleep" /\ w[u].step = "next"
  BY <1>4, <1>5
<1> QED BY <1>6, <1>7 DEF w

LEMMA MemBroadcastWakes ==
  ASSUME MemTypes, NEW streams, Mem!Broadcast(streams)
  PROVE  MemWoken /\ memSub' \in [Pair -> MemSub]
<1>1. memSub' = Mem!Woken(streams)
  BY DEF Mem!Broadcast
<1> HIDE DEF Mem!Woken
<1> QED BY <1>1, MemWokenFields DEF MemWoken

LEMMA MemFacts ==
  ASSUME MemTypes, NEW s \in Pair
  PROVE  /\ stream[s] \in MemStream /\ stream[s].events \in Seq(MemRecord)
         /\ Len(stream[s].events) \in Nat /\ stream[s].closed \in BOOLEAN
         /\ memTool[s] \in MemTool /\ memTool[s].n \in 1 .. PairFinal + 1
         /\ memTool[s].n \in Nat /\ memTool[s].step \in Mem!ToolSteps
         /\ memSub[s] \in MemSub /\ memSub[s].index \in Nat /\ memSub[s].of \in Pair
         /\ memSub[s].step \in Mem!SubSteps
         /\ memGot[s] \in Seq(MemRecord) /\ Len(memGot[s]) \in Nat
<1>1. /\ stream[s] \in MemStream /\ memTool[s] \in MemTool /\ memSub[s] \in MemSub
      /\ memGot[s] \in Seq(MemRecord)
  BY DEF MemTypes
<1>2. PairFinal \in Nat
  BY PairAssumption
<1> QED BY <1>1, <1>2 DEF MemStream, MemTool, MemSub

\* The appends that are over stay over, and an append that ends is one more.
LEMMA AppendedGrows ==
  ASSUME MemTypes, NEW s \in Pair, NEW next, NEW n \in Nat, MemToolGoes(s, next, n),
         n >= memTool[s].n,
         memTool[s].step \in {"close", "done"} => next \in {"close", "done"}
  PROVE  /\ Appended \subseteq Appended'
         /\ IsFiniteSet(Appended') /\ Cardinality(Appended') \in Nat
         /\ Cardinality(Appended) <= Cardinality(Appended')
         /\ Cardinality(Appended') <= Cardinality(Pair) * (PairFinal + 1)
<1>1. PairFinal \in Nat
  BY PairAssumption
<1>4. Appended' \subseteq AllAppends
  BY DEF Appended, AllAppends
<1>5. Appended \subseteq Appended'
  <2> SUFFICES ASSUME NEW x \in Appended PROVE x \in Appended'
    OBVIOUS
  <2>1. /\ x \in Pair \X (1 .. PairFinal + 1) /\ x[1] \in Pair /\ x[2] \in Nat
        /\ \/ x[2] < memTool[x[1]].n
           \/ x[2] = memTool[x[1]].n /\ memTool[x[1]].step \in {"close", "done"}
    BY <1>1 DEF Appended
  <2>2. CASE x[1] = s
    <3>1. memTool'[s].n = n /\ memTool'[s].step = next
      BY DEF MemTypes, MemToolGoes
    <3>2. memTool[s].n \in Nat
      BY MemFacts
    <3> QED BY <2>1, <2>2, <3>1, <3>2 DEF Appended
  <2>3. CASE x[1] # s
    <3>1. memTool'[x[1]] = memTool[x[1]]
      BY <2>1, <2>3 DEF MemTypes, MemToolGoes
    <3> QED BY <2>1, <3>1 DEF Appended
  <2> QED BY <2>2, <2>3
<1>6. IsFiniteSet(Appended') /\ Cardinality(Appended') <= Cardinality(AllAppends)
  BY <1>4, AllAppendsCounted, FS_Subset
<1>7. Cardinality(Appended) <= Cardinality(Appended')
  BY <1>5, <1>6, FS_Subset
<1> QED BY <1>5, <1>6, <1>7, AllAppendsCounted, FS_CardinalityType

LEMMA AppendedOneMore ==
  ASSUME MemTypes, NEW s \in Pair, NEW next, NEW n \in Nat, MemToolGoes(s, next, n),
         memTool[s].step = "append",
         \/ n = memTool[s].n + 1
         \/ n = memTool[s].n /\ next = "close"
  PROVE  Cardinality(Appended) + 1 <= Cardinality(Appended')
<1> DEFINE x == <<s, memTool[s].n>>
<1>1. memTool[s].n \in 1 .. PairFinal + 1 /\ memTool[s].n \in Nat
  BY MemFacts
<1>2. /\ Appended \subseteq Appended' /\ IsFiniteSet(Appended')
      /\ Cardinality(Appended') \in Nat
  BY <1>1, AppendedGrows
<1>3. memTool'[s].n = n /\ memTool'[s].step = next
  BY DEF MemTypes, MemToolGoes
<1>4. x \notin Appended
  BY <1>1 DEF Appended
<1>5. x \in Appended'
  BY <1>1, <1>3 DEF Appended
<1> HIDE DEF x
<1>6. IsFiniteSet(Appended) /\ Cardinality(Appended) \in Nat
  BY AppendedCounted
<1>7. Cardinality(Appended \cup {x}) = Cardinality(Appended) + 1
  BY <1>4, <1>6, FS_AddElement
<1>8. Appended \cup {x} \subseteq Appended'
  BY <1>2, <1>5
<1>9. Cardinality(Appended \cup {x}) <= Cardinality(Appended')
  BY <1>2, <1>8, FS_Subset
<1> QED BY <1>7, <1>9

\* What a step that moves no subscription on leaves of a client: the streams may grow,
\* and do not once they are closed, and it may be woken.
MemGrows(v) ==
    /\ Len(stream'[v].events) >= Len(stream[v].events)
    /\ \A i \in 1 .. Len(stream[v].events) : stream'[v].events[i] = stream[v].events[i]
    /\ stream[v].closed => /\ stream'[v].closed
                           /\ Len(stream'[v].events) = Len(stream[v].events)

LEMMA MemOwnKept ==
  ASSUME MemTypes, MemTypes', NEW u \in Pair, MemWoken, UNCHANGED memGot, MemOwnInv(u),
         MemGrows(u)
  PROVE  MemOwnInv(u)'
<1>1. /\ Len(stream[u].events) \in Nat /\ Len(memGot[u]) \in Nat
      /\ memSub[u].index \in Nat
  BY MemFacts
<1>2. Len(stream'[u].events) \in Nat
  <2>1. stream'[u] \in MemStream
    BY DEF MemTypes
  <2> QED BY <2>1 DEF MemStream
<1>3. /\ Len(memGot'[u]) <= Len(stream'[u].events)
      /\ \A i \in 1 .. Len(memGot'[u]) : memGot'[u][i] = stream'[u].events[i]
  BY <1>1, <1>2 DEF MemOwnInv, MemGrows
<1>4. /\ memSub'[u].index = memSub[u].index /\ memGot'[u] = memGot[u]
      /\ \/ memSub'[u].step = memSub[u].step
         \/ memSub[u].step = "asleep" /\ memSub'[u].step = "next"
  BY DEF MemWoken
<1>5. memSub'[u].step = "send" => /\ memSub'[u].index = Len(memGot'[u]) + 1
                                  /\ memSub'[u].index <= Len(stream'[u].events)
  <2>1. memSub'[u].step = "send" => /\ memSub[u].index = Len(memGot[u]) + 1
                                    /\ memSub[u].index <= Len(stream[u].events)
    BY <1>4 DEF MemOwnInv
  <2>2. Len(stream'[u].events) >= Len(stream[u].events)
    BY DEF MemGrows
  <2>3. ASSUME NEW i \in Nat, NEW m \in Nat, NEW n \in Nat, i <= m, n >= m
        PROVE  i <= n
    BY ONLY <2>3
  <2>4. memSub[u].index <= Len(stream[u].events) => memSub[u].index <= Len(stream'[u].events)
    BY <1>1, <1>2, <2>2, <2>3
  <2> QED BY <1>4, <2>1, <2>4
<1>6. memSub'[u].step = "closed" => /\ stream'[u].closed
                                    /\ Len(memGot'[u]) = Len(stream'[u].events)
  BY <1>4 DEF MemOwnInv, MemGrows
<1>7. /\ memSub'[u].step = "new" => memGot'[u] = <<>>
      /\ memSub'[u].step = "found" => memGot'[u] # <<>>
      /\ memSub'[u].step \in {"next", "asleep"} => memSub'[u].index = Len(memGot'[u])
  BY <1>4 DEF MemOwnInv
<1> QED BY <1>3, <1>5, <1>6, <1>7 DEF MemOwnInv

LEMMA MemOtherKept ==
  ASSUME MemTypes, MemTypes', NEW u \in Pair, NEW t \in Pair, MemWoken, UNCHANGED memGot,
         MemOtherInv(u, t), MemGrows(u), MemGrows(t),
         deleted', u \notin known', t \in known'
  PROVE  MemOtherInv(u, t)'
<1>1. /\ Len(stream[u].events) \in Nat /\ Len(stream[t].events) \in Nat
      /\ memSub[u].index \in Nat
  BY MemFacts
<1>2. Len(stream'[u].events) \in Nat /\ Len(stream'[t].events) \in Nat
  <2>1. stream'[u] \in MemStream /\ stream'[t] \in MemStream
    BY DEF MemTypes
  <2> QED BY <2>1 DEF MemStream
<1>3. /\ memSub'[u].index = memSub[u].index /\ memGot'[u] = memGot[u]
      /\ \/ memSub'[u].step = memSub[u].step
         \/ memSub[u].step = "asleep" /\ memSub'[u].step = "next"
  BY DEF MemWoken
<1>4. \A v \in {u, t} : \A j \in 1 .. Len(stream[v].events) :
        j \in 1 .. Len(stream'[v].events) /\ stream'[v].events[j] = stream[v].events[j]
  BY <1>1, <1>2 DEF MemGrows
<1>5. \A i \in 1 .. Len(memGot'[u]) :
        \/ \E j \in 1 .. Len(stream'[u].events) : memGot'[u][i] = stream'[u].events[j]
        \/ \E j \in 1 .. Len(stream'[t].events) : memGot'[u][i] = stream'[t].events[j]
  <2> SUFFICES ASSUME NEW i \in 1 .. Len(memGot[u])
               PROVE  \/ \E j \in 1 .. Len(stream'[u].events) :
                           memGot[u][i] = stream'[u].events[j]
                      \/ \E j \in 1 .. Len(stream'[t].events) :
                           memGot[u][i] = stream'[t].events[j]
    BY <1>3
  <2>1. \/ \E j \in 1 .. Len(stream[u].events) : memGot[u][i] = stream[u].events[j]
        \/ \E j \in 1 .. Len(stream[t].events) : memGot[u][i] = stream[t].events[j]
    BY DEF MemOtherInv
  <2> QED BY <1>4, <2>1
<1>6. \E a \in 1 .. Len(stream'[t].events) : MemReached(u, t, a)'
  <2>1. PICK a \in 1 .. Len(stream[t].events) : MemReached(u, t, a)
    BY DEF MemOtherInv
  <2>2. a \in 1 .. Len(stream'[t].events) /\ stream'[t].events[a] = stream[t].events[a]
    BY <1>4
  <2>3. memSub'[u].step \in {"next", "asleep"} => memSub'[u].index = a
    BY <1>3, <2>1 DEF MemReached
  <2>4. memSub'[u].step = "send" =>
          memSub'[u].index = a + 1 /\ a < Len(stream'[t].events)
    <3>1. a < Len(stream[t].events) => a < Len(stream'[t].events)
      BY <1>1, <1>2 DEF MemGrows
    <3> QED BY <1>3, <2>1, <3>1 DEF MemReached
  <2>5. stream'[t].events[a].seq = memGot'[u][Len(memGot'[u])].seq
    BY <1>3, <2>1, <2>2 DEF MemReached
  <2>6. MemReached(u, t, a)'
    BY <2>3, <2>4, <2>5 DEF MemReached
  <2> QED BY <2>2, <2>6
<1>7. memSub'[u].step # "new" /\ memGot'[u] # <<>> /\ stream'[u].events # <<>>
  <2>1. stream[u].events # <<>> /\ stream[u].events \in Seq(MemRecord)
    BY MemFacts DEF MemOtherInv
  <2>2. 1 \in 1 .. Len(stream[u].events)
    BY <1>1, <2>1
  <2>3. 1 \in 1 .. Len(stream'[u].events)
    BY <1>4, <2>2
  <2>4. stream'[u].events # <<>>
    BY <1>2, <2>3
  <2> QED BY <1>3, <2>4 DEF MemOtherInv
<1>8. \A i, j \in 1 .. Len(memGot'[u]) :
        i < j => /\ memGot'[u][i].seq < memGot'[u][j].seq
                 /\ memGot'[u][j].stream = u => memGot'[u][i].stream = u
  BY <1>3 DEF MemOtherInv
<1> QED BY <1>5, <1>6, <1>7, <1>8 DEF MemOtherInv

LEMMA MemClientKept ==
  ASSUME MemTypes, MemTypes', NEW u \in Pair, MemWoken, UNCHANGED memGot, MemClientInv(u),
         MemGrows(u), MemGrows(memSub[u].of),
         memSub[u].of # u => deleted' /\ u \notin known' /\ memSub[u].of \in known'
  PROVE  MemClientInv(u)'
<1>1. memSub'[u].of = memSub[u].of
  BY DEF MemWoken
<1>2. CASE memSub[u].of = u
  <2>1. MemOwnInv(u)'
    BY <1>2, MemOwnKept DEF MemClientInv
  <2> QED BY <1>1, <1>2, <2>1 DEF MemClientInv
<1>3. CASE memSub[u].of # u
  <2>1. PICK t \in Pair : t = memSub[u].of
    BY MemFacts
  <2>2. /\ MemOtherInv(u, t) /\ MemGrows(t) /\ deleted' /\ u \notin known'
        /\ t \in known'
    BY <1>3, <2>1 DEF MemClientInv
  <2>3. MemOtherInv(u, t)'
    BY <2>2, MemOtherKept
  <2>4. memSub'[u].of = t /\ t # u
    BY <1>1, <1>3, <2>1
  <2> QED BY <2>3, <2>4 DEF MemClientInv
<1> QED BY <1>2, <1>3

-----------------------------------------------------------------------------
(* What the steps of the memory store do.                                   *)

MemEvent(s) == [seq |-> memNextSeq + 1, stream |-> s, n |-> memTool[s].n]
MemHolds(all, over) == [events |-> all, closed |-> over]

MemCreates(s) ==
    /\ memTool[s].step = "create" /\ MemToolGoes(s, "append", memTool[s].n)
    /\ memNextSeq' = IF known = {} THEN 0 ELSE memNextSeq
    /\ known' = known \cup {s}
    /\ UNCHANGED <<stream, memSub, deleted, memGot>>
MemAppends(s, next, n) ==
    /\ s \in known /\ memTool[s].step = "append" /\ MemToolGoes(s, next, n)
    /\ \/ n = memTool[s].n + 1 /\ next = "append"
       \/ n = memTool[s].n /\ next = "close"
    /\ memNextSeq' = memNextSeq + 1
    /\ stream' = [stream EXCEPT
          ![s] = MemHolds(Append(stream[s].events, MemEvent(s)), stream[s].closed)]
    /\ MemWoken /\ memSub' \in [Pair -> MemSub]
    /\ UNCHANGED <<known, deleted, memGot>>
MemCloses(s) ==
    /\ s \in known /\ memTool[s].step = "close" /\ MemToolGoes(s, "done", memTool[s].n)
    /\ stream' = [stream EXCEPT ![s] = MemHolds(stream[s].events, TRUE)]
    /\ MemWoken /\ memSub' \in [Pair -> MemSub]
    /\ UNCHANGED <<memNextSeq, known, deleted, memGot>>
\* The writer of a stream that was deleted goes on for nothing.
MemFails(s, next, n) ==
    /\ s \notin known /\ MemToolGoes(s, next, n) /\ n >= memTool[s].n
    /\ \/ memTool[s].step = "append" /\ next \in {"append", "close"}
       \/ memTool[s].step = "close" /\ next = "done"
    /\ UNCHANGED <<memNextSeq, known, stream, memSub, deleted, memGot>>
MemDeletes ==
    /\ ~deleted /\ deleted' /\ known' = {}
    /\ stream' = [u \in Pair |-> IF u \in known THEN MemHolds(stream[u].events, TRUE)
                                                ELSE stream[u]]
    /\ MemWoken /\ memSub' \in [Pair -> MemSub]
    /\ UNCHANGED <<memNextSeq, memTool, memGot>>
\* A request ends, or those who sleep on a stream are woken.
MemMarks ==
    /\ MemWoken /\ memSub' \in [Pair -> MemSub]
    /\ UNCHANGED <<memNextSeq, known, stream, memTool, deleted, memGot>>

MemSends(s, r) ==
    /\ memSub[s].step = "send" /\ r.step = "next" /\ r.index = memSub[s].index
    /\ r.of = memSub[s].of
    /\ memGot' = [memGot EXCEPT
          ![s] = Append(memGot[s], stream[memSub[s].of].events[memSub[s].index])]
\* A resume has found the stream t.
MemLooksUp(s, r, t) ==
    /\ memSub[s].step = "off" /\ r.step = "found" /\ r.of = t /\ memGot[s] # <<>>
    /\ Mem!Holds(t, memGot[s][Len(memGot[s])].seq)
    /\ UNCHANGED memGot
MemStarts(s, r) ==
    /\ \/ memSub[s].step = "new" /\ r.index = Mem!StartIndexAfterSeq(s, 0) /\ r.of = s
       \/ /\ memSub[s].step = "found" /\ memGot[s] # <<>> /\ r.of = memSub[s].of
          /\ r.index = Mem!StartIndexAfterSeq(memSub[s].of,
                                              memGot[s][Len(memGot[s])].seq)
    /\ r.step = "next"
    /\ UNCHANGED memGot
MemEnds(s, r) ==
    /\ memSub[s].step # "closed" /\ r.step \in {"gone", "off"} /\ r.of = memSub[s].of
    /\ UNCHANGED memGot
MemTakesOne(s, r) ==
    /\ memSub[s].step = "next"
    /\ memSub[s].index < Len(stream[memSub[s].of].events)
    /\ r.step = "send" /\ r.index = memSub[s].index + 1 /\ r.of = memSub[s].of
    /\ UNCHANGED memGot
MemDrained(s, r) ==
    /\ memSub[s].step = "next"
    /\ ~(memSub[s].index < Len(stream[memSub[s].of].events))
    /\ stream[memSub[s].of].closed /\ r.step = "closed" /\ r.of = memSub[s].of
    /\ UNCHANGED memGot
MemRests(s, r) ==
    /\ memSub[s].step = "next" /\ r.step = "asleep" /\ r.index = memSub[s].index
    /\ r.of = memSub[s].of
    /\ UNCHANGED memGot
MemPumpFrame(s, r) ==
    MemBecomes(s, r) /\ UNCHANGED <<memNextSeq, known, stream, memTool, deleted>>
MemPumpForm(s, r) ==
    \/ MemSends(s, r) \/ (\E t \in Pair : MemLooksUp(s, r, t)) \/ MemStarts(s, r)
    \/ MemEnds(s, r) \/ MemTakesOne(s, r) \/ MemDrained(s, r) \/ MemRests(s, r)

LEMMA MemStreamFields ==
  ASSUME NEW q \in MemStream, NEW v
  PROVE  /\ [q EXCEPT !.events = v] = MemHolds(v, q.closed)
         /\ [q EXCEPT !.closed = v] = MemHolds(q.events, v)
BY DEF MemStream, MemHolds

LEMMA MemWriterForms ==
  ASSUME MemTypes, NEW s \in Pair, Mem!ToolStep(s)
  PROVE  \/ MemCreates(s) \/ MemCloses(s)
         \/ \E next \in Mem!ToolSteps, n \in 1 .. PairFinal + 1 :
              MemAppends(s, next, n) \/ MemFails(s, next, n)
<1>1. /\ memTool[s].n \in 1 .. PairFinal + 1 /\ memTool[s].n \in Nat
      /\ PairFinal \in Nat /\ PairFinal >= 2 /\ stream[s] \in MemStream
  BY MemFacts, PairAssumption
<1>2. CASE Mem!Create(s)
  <2>1. MemToolGoes(s, "append", memTool[s].n)
    BY <1>2, MemToolGoesIs DEF Mem!Create
  <2> QED BY <1>2, <2>1 DEF Mem!Create, MemCreates
<1>3. CASE Mem!AppendEvent(s)
  <2>1. \/ MemToolGoes(s, "append", memTool[s].n + 1) /\ memTool[s].n <= PairFinal
        \/ MemToolGoes(s, "close", memTool[s].n)
    <3>1. Mem!AfterAppend(s, s \in known) /\ (s \in known) \in BOOLEAN
      BY <1>3 DEF Mem!AppendEvent
    <3> QED BY <3>1, MemAfterAppendIs
  <2>2. /\ memTool[s].n + 1 >= memTool[s].n
        /\ memTool[s].n <= PairFinal => memTool[s].n + 1 \in 1 .. PairFinal + 1
        /\ "append" \in Mem!ToolSteps /\ "close" \in Mem!ToolSteps
    BY <1>1 DEF Mem!ToolSteps
  <2>3. CASE s \in known
    <3>1. /\ memTool[s].step = "append" /\ memNextSeq' = memNextSeq + 1
          /\ stream' = [stream EXCEPT ![s].events = Append(@, MemEvent(s))]
          /\ Mem!Broadcast({s}) /\ UNCHANGED <<known, deleted, memGot>>
      BY <1>3, <2>3 DEF Mem!AppendEvent, MemEvent
    <3>2. MemWoken /\ memSub' \in [Pair -> MemSub]
      BY <3>1, MemBroadcastWakes
    <3>3. stream' = [stream EXCEPT
            ![s] = [stream[s] EXCEPT !.events = Append(stream[s].events, MemEvent(s))]]
      BY <3>1
    <3>4. [stream[s] EXCEPT !.events = Append(stream[s].events, MemEvent(s))]
            = MemHolds(Append(stream[s].events, MemEvent(s)), stream[s].closed)
      BY <1>1, MemStreamFields
    <3>5. stream' = [stream EXCEPT
            ![s] = MemHolds(Append(stream[s].events, MemEvent(s)), stream[s].closed)]
      BY <3>3, <3>4
    <3>6. \/ MemAppends(s, "append", memTool[s].n + 1) /\ memTool[s].n <= PairFinal
          \/ MemAppends(s, "close", memTool[s].n)
      BY <2>1, <2>3, <3>1, <3>2, <3>5 DEF MemAppends
    <3> QED BY <1>1, <2>2, <3>6
  <2>4. CASE s \notin known
    <3>1. /\ memTool[s].step = "append"
          /\ UNCHANGED <<memNextSeq, known, stream, memSub, deleted, memGot>>
      BY <1>3, <2>4 DEF Mem!AppendEvent
    <3>2. \/ MemFails(s, "append", memTool[s].n + 1) /\ memTool[s].n <= PairFinal
          \/ MemFails(s, "close", memTool[s].n)
      BY <1>1, <2>1, <2>2, <2>4, <3>1 DEF MemFails
    <3> QED BY <1>1, <2>2, <3>2
  <2> QED BY <2>3, <2>4
<1>4. CASE Mem!Close(s)
  <2>1. MemToolGoes(s, "done", memTool[s].n) /\ memTool[s].step = "close"
    BY <1>4, MemToolGoesIs DEF Mem!Close
  <2>2. CASE s \in known
    <3>1. /\ stream' = [stream EXCEPT ![s].closed = TRUE] /\ Mem!Broadcast({s})
          /\ UNCHANGED <<memNextSeq, known, deleted, memGot>>
      BY <1>4, <2>2 DEF Mem!Close
    <3>2. MemWoken /\ memSub' \in [Pair -> MemSub]
      BY <3>1, MemBroadcastWakes
    <3>3. stream' = [stream EXCEPT ![s] = [stream[s] EXCEPT !.closed = TRUE]]
      BY <3>1
    <3>4. [stream[s] EXCEPT !.closed = TRUE] = MemHolds(stream[s].events, TRUE)
      BY <1>1, MemStreamFields
    <3>5. stream' = [stream EXCEPT ![s] = MemHolds(stream[s].events, TRUE)]
      BY <3>3, <3>4
    <3> QED BY <2>1, <2>2, <3>1, <3>2, <3>5 DEF MemCloses
  <2>3. CASE s \notin known
    <3>1. UNCHANGED <<memNextSeq, known, stream, memSub, deleted, memGot>>
      BY <1>4, <2>3 DEF Mem!Close
    <3>2. MemFails(s, "done", memTool[s].n)
      BY <1>1, <2>1, <2>3, <3>1 DEF MemFails
    <3>3. "done" \in Mem!ToolSteps
      BY DEF Mem!ToolSteps
    <3> QED BY <1>1, <3>2, <3>3
  <2> QED BY <2>2, <2>3
<1> QED BY <1>2, <1>3, <1>4 DEF Mem!ToolStep

LEMMA MemDeletionForm ==
  ASSUME MemTypes, Mem!DeleteSession
  PROVE  MemDeletes
<1>1. MemWoken /\ memSub' \in [Pair -> MemSub]
  BY MemBroadcastWakes DEF Mem!DeleteSession
<1>2. \A u \in Pair : [stream[u] EXCEPT !.closed = TRUE] = MemHolds(stream[u].events, TRUE)
  BY MemStreamFields DEF MemTypes
<1>3. stream' = [u \in Pair |-> IF u \in known THEN [stream[u] EXCEPT !.closed = TRUE]
                                               ELSE stream[u]]
  BY DEF Mem!DeleteSession
<1>4. stream' = [u \in Pair |-> IF u \in known THEN MemHolds(stream[u].events, TRUE)
                                               ELSE stream[u]]
  BY <1>2, <1>3
<1> QED BY <1>1, <1>4 DEF MemDeletes, Mem!DeleteSession

\* startIndexAfterSeq of nothing received, and of an event of the stream.
LEMMA MemStartIndexIs ==
  ASSUME MemTypes, NEW t \in Pair, NEW seq
  PROVE  /\ Mem!StartIndexAfterSeq(t, seq)
              = Cardinality({i \in 1 .. Len(stream[t].events) :
                               stream[t].events[i].seq <= seq})
         /\ Mem!StartIndexAfterSeq(t, seq) \in Nat
<1> DEFINE all == {i \in 1 .. Len(stream[t].events) : stream[t].events[i].seq <= seq}
<1>1. DOMAIN stream[t].events = 1 .. Len(stream[t].events)
      /\ Len(stream[t].events) \in Nat
  BY MemFacts
<1>2. Mem!StartIndexAfterSeq(t, seq)
        = Cardinality({i \in DOMAIN stream[t].events : stream[t].events[i].seq <= seq})
  BY DEF Mem!StartIndexAfterSeq, Mem!Cardinality, Cardinality
<1>3. Mem!StartIndexAfterSeq(t, seq) = Cardinality(all)
  BY <1>1, <1>2
<1>4. all \subseteq 1 .. Len(stream[t].events)
  OBVIOUS
<1> HIDE DEF all
<1>5. Cardinality(all) \in Nat
  <2> DEFINE n == Len(stream[t].events)
  <2>0. n \in Int /\ 1 \in Int
    BY <1>1
  <2> HIDE DEF n
  <2>1. IsFiniteSet(1 .. n)
    BY <2>0, FS_Interval
  <2>2. IsFiniteSet(all)
    BY <1>4, <2>1, FS_Subset DEF n
  <2> QED BY <2>2, FS_CardinalityType
<1> QED BY <1>3, <1>5 DEF all

LEMMA StartsAtFirst ==
  ASSUME MemTypes, NEW s \in Pair, MemWriterInv(s)
  PROVE  Mem!StartIndexAfterSeq(s, 0) = 0
<1>1. \A i \in 1 .. Len(stream[s].events) : stream[s].events[i].seq \in Nat \ {0}
  <2>1. \A i \in 1 .. Len(stream[s].events) : stream[s].events[i] \in MemRecord
    BY MemFacts
  <2>2. \A i \in 1 .. Len(stream[s].events) : stream[s].events[i].seq >= 1
    BY DEF MemWriterInv
  <2> QED BY <2>1, <2>2 DEF MemRecord
<1>2. {i \in 1 .. Len(stream[s].events) : stream[s].events[i].seq <= 0} = {}
  BY <1>1
<1>3. Mem!StartIndexAfterSeq(s, 0) = Cardinality({})
  BY <1>2, MemStartIndexIs
<1> QED BY <1>3, FS_EmptySet

LEMMA StartsAfter ==
  ASSUME MemTypes, NEW t \in Pair, MemWriterInv(t), NEW k \in 1 .. Len(stream[t].events)
  PROVE  Mem!StartIndexAfterSeq(t, stream[t].events[k].seq) = k
<1> DEFINE evs == stream[t].events
<1>1. k \in Nat /\ k >= 1 /\ Len(evs) \in Nat /\ k <= Len(evs)
  BY MemFacts
<1>2. \A i, j \in 1 .. Len(evs) : i < j => evs[i].seq < evs[j].seq
  BY DEF MemWriterInv
<1>3. \A i \in 1 .. Len(evs) : evs[i] \in MemRecord
  BY MemFacts
<1> HIDE DEF evs
<1>4. \A i \in 1 .. Len(evs) : evs[i].seq \in Nat
  BY <1>3 DEF MemRecord
<1>5. {i \in 1 .. Len(evs) : evs[i].seq <= evs[k].seq} = 1 .. k
  <2>1. ASSUME NEW i \in 1 .. Len(evs), evs[i].seq <= evs[k].seq PROVE i \in 1 .. k
    <3>1. k \in 1 .. Len(evs)
      BY <1>1
    <3>2. ~(k < i)
      BY <1>2, <1>4, <2>1, <3>1
    <3> QED BY <1>1, <3>2
  <2>2. ASSUME NEW i \in 1 .. k PROVE i \in 1 .. Len(evs) /\ evs[i].seq <= evs[k].seq
    <3>1. i \in 1 .. Len(evs) /\ k \in 1 .. Len(evs)
      BY <1>1
    <3>2. CASE i = k
      BY <1>4, <3>1, <3>2
    <3>3. CASE i < k
      BY <1>2, <1>4, <3>1, <3>3
    <3> QED BY <1>1, <3>1, <3>2, <3>3
  <2> QED BY <1>1, <2>1, <2>2
<1>6. Cardinality(1 .. k) = k
  BY <1>1, FS_Interval
<1>7. Mem!StartIndexAfterSeq(t, evs[k].seq)
        = Cardinality({i \in 1 .. Len(evs) : evs[i].seq <= evs[k].seq})
  BY MemStartIndexIs DEF evs
<1> QED BY <1>5, <1>6, <1>7 DEF evs

LEMMA MemSubscribes ==
  ASSUME MemTypes, NEW s \in Pair, NEW t \in Pair, NEW seq, Mem!Subscribe(s, t, seq)
  PROVE  \E r \in MemSub : /\ MemBecomes(s, r) /\ r.step = "next" /\ r.of = t
                           /\ r.index = Mem!StartIndexAfterSeq(t, seq)
<1> DEFINE x == Mem!StartIndexAfterSeq(t, seq)
           r == MemAt("next", t, x, FALSE, TRUE)
<1>1. x \in Nat
  BY MemStartIndexIs
<1>2. MemBecomes(s, r)
  BY DEF Mem!Subscribe, MemBecomes, MemAt
<1> HIDE DEF x
<1>3. r \in MemSub /\ r.step = "next" /\ r.of = t /\ r.index = x
  BY <1>1 DEF MemAt, MemSub, Mem!SubSteps
<1> HIDE DEF r
<1> QED BY <1>2, <1>3 DEF x

\* A subscription that only changes its step.
LEMMA MemTurned ==
  ASSUME MemTypes, NEW s \in Pair, NEW next \in Mem!SubSteps,
         memSub' = [memSub EXCEPT ![s].step = next]
  PROVE  \E r \in MemSub : /\ MemBecomes(s, r) /\ r.step = next
                           /\ r.of = memSub[s].of /\ r.index = memSub[s].index
<1> DEFINE r == MemAt(next, memSub[s].of, memSub[s].index, memSub[s].canceled,
                      memSub[s].watched)
<1>1. MemBecomes(s, r)
  BY MemSubChanges DEF MemTurns
<1>2. /\ r \in MemSub /\ r.step = next
      /\ r.of = memSub[s].of /\ r.index = memSub[s].index
  BY MemFacts DEF MemAt, MemSub
<1> HIDE DEF r
<1> QED BY <1>1, <1>2

LEMMA MemLastIs ==
  ASSUME MemTypes, NEW s \in Pair
  PROVE  Mem!Last(memGot[s]) = memGot[s][Len(memGot[s])]
BY DEF Mem!Last

LEMMA MemFirstForm ==
  ASSUME MemTypes, NEW s \in Pair, MemClientInv(s), Mem!First(s)
  PROVE  \E r \in MemSub : MemPumpFrame(s, r) /\ MemPumpForm(s, r)
<1>1. /\ UNCHANGED <<memNextSeq, known, stream, memTool, deleted, memGot>>
      /\ memSub[s].step = "new" /\ "gone" \in Mem!SubSteps
      /\ Mem!Subscribe(s, s, 0) \/ memSub' = [memSub EXCEPT ![s].step = "gone"]
  BY DEF Mem!First, Mem!SubSteps
<1>2. CASE Mem!Subscribe(s, s, 0)
  <2>1. PICK r \in MemSub : /\ MemBecomes(s, r) /\ r.step = "next" /\ r.of = s
                            /\ r.index = Mem!StartIndexAfterSeq(s, 0)
    BY <1>2, MemSubscribes
  <2>2. MemStarts(s, r)
    BY <1>1, <2>1 DEF MemStarts
  <2> QED BY <1>1, <2>1, <2>2 DEF MemPumpFrame, MemPumpForm
<1>3. CASE memSub' = [memSub EXCEPT ![s].step = "gone"]
  <2>1. PICK r \in MemSub : MemBecomes(s, r) /\ r.step = "gone" /\ r.of = memSub[s].of
    BY <1>1, <1>3, MemTurned
  <2>2. MemEnds(s, r)
    BY <1>1, <2>1 DEF MemEnds
  <2> QED BY <1>1, <2>1, <2>2 DEF MemPumpFrame, MemPumpForm
<1> QED BY <1>1, <1>2, <1>3

LEMMA MemLookUpForm ==
  ASSUME MemTypes, NEW s \in Pair, Mem!StreamForEvent(s)
  PROVE  \E r \in MemSub : MemPumpFrame(s, r) /\ MemPumpForm(s, r)
<1>1. /\ UNCHANGED <<memNextSeq, known, stream, memTool, deleted, memGot>>
      /\ memSub[s].step = "off" /\ "gone" \in Mem!SubSteps /\ "found" \in Mem!SubSteps
      /\ memGot[s] # <<>>
  BY DEF Mem!StreamForEvent, Mem!SubSteps
<1>2. ASSUME NEW t \in Pair, Mem!Holds(t, Mem!Last(memGot[s]).seq),
             memSub' = [memSub EXCEPT ![s].step = "found", ![s].of = t]
      PROVE  \E r \in MemSub : MemPumpFrame(s, r) /\ MemPumpForm(s, r)
  <2> DEFINE r == MemAt("found", t, memSub[s].index, memSub[s].canceled,
                        memSub[s].watched)
  <2>1. MemBecomes(s, r)
    BY <1>1, <1>2, MemSubChanges DEF MemFinds
  <2>2. r \in MemSub /\ r.step = "found" /\ r.of = t
    BY <1>1, MemFacts DEF MemAt, MemSub
  <2> HIDE DEF r
  <2>3. Mem!Holds(t, memGot[s][Len(memGot[s])].seq)
    BY <1>2, MemLastIs
  <2>4. MemLooksUp(s, r, t)
    BY <1>1, <2>2, <2>3 DEF MemLooksUp
  <2> QED BY <1>1, <2>1, <2>2, <2>4 DEF MemPumpFrame, MemPumpForm
<1>3. CASE memSub' = [memSub EXCEPT ![s].step = "gone"]
  <2>1. PICK r \in MemSub : MemBecomes(s, r) /\ r.step = "gone" /\ r.of = memSub[s].of
    BY <1>1, <1>3, MemTurned
  <2>2. MemEnds(s, r)
    BY <1>1, <1>3, <2>1 DEF MemEnds
  <2> QED BY <1>1, <2>1, <2>2 DEF MemPumpFrame, MemPumpForm
<1>4. \/ \E t \in Pair :
           /\ Mem!Holds(t, Mem!Last(memGot[s]).seq)
           /\ memSub' = [memSub EXCEPT ![s].step = "found", ![s].of = t]
      \/ memSub' = [memSub EXCEPT ![s].step = "gone"]
  BY DEF Mem!StreamForEvent
<1> QED BY <1>2, <1>3, <1>4

LEMMA MemResumeForm ==
  ASSUME MemTypes, NEW s \in Pair, memGot[s] # <<>>, Mem!Resume(s)
  PROVE  \E r \in MemSub : MemPumpFrame(s, r) /\ MemPumpForm(s, r)
<1> DEFINE seq == memGot[s][Len(memGot[s])].seq
<1>1. /\ UNCHANGED <<memNextSeq, known, stream, memTool, deleted, memGot>>
      /\ memSub[s].step = "found" /\ "gone" \in Mem!SubSteps /\ memSub[s].of \in Pair
  BY MemFacts DEF Mem!Resume, Mem!SubSteps
<1>2. \/ Mem!Subscribe(s, memSub[s].of, seq)
      \/ memSub' = [memSub EXCEPT ![s].step = "gone"]
  <2>1. \/ Mem!Subscribe(s, memSub[s].of, Mem!Last(memGot[s]).seq)
        \/ memSub' = [memSub EXCEPT ![s].step = "gone"]
    BY DEF Mem!Resume
  <2> QED BY <2>1, MemLastIs
<1>3. CASE Mem!Subscribe(s, memSub[s].of, seq)
  <2> HIDE DEF seq
  <2>1. PICK r \in MemSub : /\ MemBecomes(s, r) /\ r.step = "next" /\ r.of = memSub[s].of
                            /\ r.index = Mem!StartIndexAfterSeq(memSub[s].of, seq)
    BY <1>1, <1>3, MemSubscribes
  <2>2. MemStarts(s, r)
    BY <1>1, <2>1 DEF MemStarts, seq
  <2> QED BY <1>1, <2>1, <2>2 DEF MemPumpFrame, MemPumpForm
<1>4. CASE memSub' = [memSub EXCEPT ![s].step = "gone"]
  <2>1. PICK r \in MemSub : MemBecomes(s, r) /\ r.step = "gone" /\ r.of = memSub[s].of
    BY <1>1, <1>4, MemTurned
  <2>2. MemEnds(s, r)
    BY <1>1, <2>1 DEF MemEnds
  <2> QED BY <1>1, <2>1, <2>2 DEF MemPumpFrame, MemPumpForm
<1> QED BY <1>2, <1>3, <1>4

LEMMA MemTakeForm ==
  ASSUME MemTypes, NEW s \in Pair, Mem!TakeNext(s)
  PROVE  \E r \in MemSub : MemPumpFrame(s, r) /\ MemPumpForm(s, r)
<1> DEFINE t == memSub[s].of
           more == memSub[s].index < Len(stream[t].events)
           next == CASE memSub[s].canceled -> "off"
                     [] ~memSub[s].canceled /\ more -> "send"
                     [] ~memSub[s].canceled /\ ~more /\ stream[t].closed -> "closed"
                     [] OTHER -> "asleep"
           v == IF ~memSub[s].canceled /\ more THEN memSub[s].index + 1
                                               ELSE memSub[s].index
           r == MemAt(next, t, v, memSub[s].canceled, memSub[s].watched)
<1>1. /\ memSub[s].index \in Nat /\ t \in Pair
      /\ memSub[s] \in MemSub /\ memSub[s].canceled \in BOOLEAN
      /\ memSub[s].watched \in BOOLEAN
  BY MemFacts DEF MemSub
<1>2. /\ UNCHANGED <<memNextSeq, known, stream, memTool, deleted, memGot>>
      /\ memSub[s].step = "next"
  BY DEF Mem!TakeNext
<1>3. \/ next = "off"
      \/ next = "send" /\ more /\ v = memSub[s].index + 1
      \/ next = "closed" /\ ~more /\ stream[t].closed
      \/ next = "asleep" /\ v = memSub[s].index
  OBVIOUS
<1>4. next \in Mem!SubSteps /\ v \in Nat
  BY <1>1 DEF Mem!SubSteps
<1> HIDE DEF next, v
<1>5. memSub' = [memSub EXCEPT ![s].step = next, ![s].index = v]
  BY DEF Mem!TakeNext, next, v
<1>6. MemBecomes(s, r)
  BY <1>4, <1>5, MemSubChanges DEF MemTakes
<1>7. r \in MemSub /\ r.step = next /\ r.index = v /\ r.of = t
  BY <1>1, <1>4 DEF MemAt, MemSub
<1> HIDE DEF r
<1>8. MemPumpFrame(s, r)
  BY <1>2, <1>6 DEF MemPumpFrame
<1>9. MemEnds(s, r) \/ MemTakesOne(s, r) \/ MemDrained(s, r) \/ MemRests(s, r)
  BY <1>2, <1>3, <1>7 DEF MemEnds, MemTakesOne, MemDrained, MemRests
<1> QED BY <1>7, <1>8, <1>9 DEF MemPumpForm

LEMMA MemSendForm ==
  ASSUME MemTypes, NEW s \in Pair, Mem!Send(s)
  PROVE  \E r \in MemSub : MemPumpFrame(s, r) /\ MemPumpForm(s, r)
<1>1. /\ UNCHANGED <<memNextSeq, known, stream, memTool, deleted>>
      /\ memSub[s].step = "send" /\ "next" \in Mem!SubSteps /\ "off" \in Mem!SubSteps
  BY DEF Mem!Send, Mem!SubSteps
<1>2. CASE /\ memGot' = [memGot EXCEPT
                 ![s] = Append(@, stream[memSub[s].of].events[memSub[s].index])]
           /\ memSub' = [memSub EXCEPT ![s].step = "next"]
  <2>1. PICK r \in MemSub : /\ MemBecomes(s, r) /\ r.step = "next"
                            /\ r.of = memSub[s].of /\ r.index = memSub[s].index
    BY <1>1, <1>2, MemTurned
  <2>2. MemSends(s, r)
    BY <1>1, <1>2, <2>1 DEF MemSends
  <2> QED BY <1>1, <2>1, <2>2 DEF MemPumpFrame, MemPumpForm
<1>3. CASE memSub' = [memSub EXCEPT ![s].step = "off"] /\ UNCHANGED memGot
  <2>0. "off" \in Mem!SubSteps /\ memSub' = [memSub EXCEPT ![s].step = "off"]
    BY <1>1, <1>3
  <2>1. PICK r \in MemSub : /\ MemBecomes(s, r) /\ r.step = "off"
                            /\ r.of = memSub[s].of /\ r.index = memSub[s].index
    BY <2>0, MemTurned
  <2>2. MemEnds(s, r)
    BY <1>1, <1>3, <2>1 DEF MemEnds
  <2> QED BY <1>1, <2>1, <2>2 DEF MemPumpFrame, MemPumpForm
<1> QED BY <1>2, <1>3 DEF Mem!Send

LEMMA MemMarkForm ==
  ASSUME MemTypes, NEW s \in Pair, Mem!Disconnect(s) \/ Mem!BroadcastOnDone(s)
  PROVE  MemMarks
<1>1. UNCHANGED <<memNextSeq, known, stream, memTool, deleted, memGot>>
  BY DEF Mem!Disconnect, Mem!BroadcastOnDone
<1>2. memSub \in [Pair -> MemSub]
  BY DEF MemTypes
<1>3. ASSUME NEW w \in [Pair -> MemSub], NEW q, q \in MemSub,
             memSub' = [w EXCEPT ![s] = q],
             q.of = w[s].of /\ q.index = w[s].index /\ q.step = w[s].step,
             \A u \in Pair : /\ w[u].of = memSub[u].of /\ w[u].index = memSub[u].index
                             /\ \/ w[u].step = memSub[u].step
                                \/ memSub[u].step = "asleep" /\ w[u].step = "next"
      PROVE  MemMarks
  <2>1. memSub' \in [Pair -> MemSub] /\ memSub'[s] = q
        /\ \A u \in Pair : u # s => memSub'[u] = w[u]
    BY <1>3
  <2>2. MemWoken
    <3> SUFFICES ASSUME NEW u \in Pair
                 PROVE  /\ memSub'[u].of = memSub[u].of
                        /\ memSub'[u].index = memSub[u].index
                        /\ \/ memSub'[u].step = memSub[u].step
                           \/ memSub[u].step = "asleep" /\ memSub'[u].step = "next"
      BY DEF MemWoken
    <3>1. /\ memSub'[u].of = w[u].of /\ memSub'[u].index = w[u].index
          /\ memSub'[u].step = w[u].step
      <4>1. CASE u = s
        BY <1>3, <2>1, <4>1
      <4>2. CASE u # s
        BY <2>1, <4>2
      <4> QED BY <4>1, <4>2
    <3> QED BY <1>3, <3>1
  <2> QED BY <1>1, <2>1, <2>2 DEF MemMarks
<1>4. CASE Mem!Disconnect(s)
  <2> DEFINE q == [memSub[s] EXCEPT !.canceled = TRUE]
  <2>1. memSub' = [memSub EXCEPT ![s] = q]
    BY <1>4 DEF Mem!Disconnect
  <2>2. memSub[s] \in MemSub
    BY <1>2
  <2>3. q = MemAt(memSub[s].step, memSub[s].of, memSub[s].index, TRUE, memSub[s].watched)
    BY <2>2, MemSubFields
  <2> HIDE DEF q
  <2>4. /\ q \in MemSub /\ q.of = memSub[s].of /\ q.index = memSub[s].index
        /\ q.step = memSub[s].step
    BY <2>2, <2>3 DEF MemAt, MemSub
  <2> QED BY <1>2, <1>3, <2>1, <2>4
<1>5. CASE Mem!BroadcastOnDone(s)
  <2> DEFINE w == Mem!Woken({memSub[s].of})
             q == [w[s] EXCEPT !.watched = FALSE]
  <2>1. memSub' = [w EXCEPT ![s] = q]
    BY <1>5 DEF Mem!BroadcastOnDone
  <2>2. /\ w \in [Pair -> MemSub]
        /\ \A u \in Pair : /\ w[u].of = memSub[u].of /\ w[u].index = memSub[u].index
                           /\ \/ w[u].step = memSub[u].step
                              \/ memSub[u].step = "asleep" /\ w[u].step = "next"
    BY MemWokenFields
  <2> HIDE DEF w
  <2>3. w[s] \in MemSub
    BY <2>2
  <2>4. q = MemAt(w[s].step, w[s].of, w[s].index, w[s].canceled, FALSE)
    BY <2>3, MemSubFields
  <2> HIDE DEF q
  <2>5. /\ q \in MemSub /\ q.of = w[s].of /\ q.index = w[s].index
        /\ q.step = w[s].step
    BY <2>3, <2>4 DEF MemAt, MemSub
  <2> QED BY <1>3, <2>1, <2>2, <2>5
<1> QED BY <1>4, <1>5

-----------------------------------------------------------------------------
(* The steps keep the invariant.                                            *)

\* The event that a pump hands over is one of the stream that it follows.
LEMMA MemSendFacts ==
  ASSUME MemTypes, NEW s \in Pair, MemClientInv(s), memSub[s].step = "send"
  PROVE  /\ memSub[s].index \in 1 .. Len(stream[memSub[s].of].events)
         /\ stream[memSub[s].of].events[memSub[s].index] \in MemRecord
<1> DEFINE t == memSub[s].of
<1>1. /\ Len(memGot[s]) \in Nat /\ Len(stream[t].events) \in Nat /\ t \in Pair
      /\ stream[t].events \in Seq(MemRecord) /\ memSub[s].index \in Nat
  BY MemFacts
<1>2. CASE t = s
  <2>1. /\ memSub[s].index = Len(memGot[s]) + 1
        /\ memSub[s].index <= Len(stream[t].events)
    BY <1>2 DEF MemClientInv, MemOwnInv
  <2>2. memSub[s].index \in 1 .. Len(stream[t].events)
    BY <1>1, <2>1
  <2> QED BY <1>1, <2>2
<1>3. CASE t # s
  <2>1. PICK a \in 1 .. Len(stream[t].events) : MemReached(s, t, a)
    BY <1>3 DEF MemClientInv, MemOtherInv
  <2>2. memSub[s].index = a + 1 /\ a < Len(stream[t].events)
    BY <2>1 DEF MemReached
  <2>3. memSub[s].index \in 1 .. Len(stream[t].events)
    BY <1>1, <2>2
  <2> QED BY <1>1, <2>3
<1> QED BY <1>2, <1>3

LEMMA MemPumpFacts ==
  ASSUME MemTypes, NEW s \in Pair, MemClientInv(s), NEW r \in MemSub,
         MemPumpFrame(s, r), MemPumpForm(s, r)
  PROVE  /\ MemTypes' /\ UNCHANGED <<memNextSeq, known, stream, memTool, deleted>>
         /\ memSub'[s] = r
         /\ \A u \in Pair : u # s => memSub'[u] = memSub[u] /\ memGot'[u] = memGot[u]
         /\ MemSends(s, r) \/ UNCHANGED memGot
<1>1. /\ memSub' = [memSub EXCEPT ![s] = r]
      /\ UNCHANGED <<memNextSeq, known, stream, memTool, deleted>>
  BY DEF MemPumpFrame, MemBecomes
<1>2. memSub \in [Pair -> MemSub] /\ memGot \in [Pair -> Seq(MemRecord)]
  BY DEF MemTypes
<1>3. /\ memSub' \in [Pair -> MemSub] /\ memSub'[s] = r
      /\ \A u \in Pair : u # s => memSub'[u] = memSub[u]
  BY <1>1, <1>2
<1>4. CASE MemSends(s, r)
  <2> DEFINE e == stream[memSub[s].of].events[memSub[s].index]
  <2>1. e \in MemRecord /\ memGot[s] \in Seq(MemRecord)
    BY <1>4, MemSendFacts, MemFacts DEF MemSends
  <2>2. memGot' = [memGot EXCEPT ![s] = Append(memGot[s], e)]
    BY <1>4 DEF MemSends
  <2> HIDE DEF e
  <2>3. Append(memGot[s], e) \in Seq(MemRecord)
    BY <2>1
  <2>4. /\ memGot' \in [Pair -> Seq(MemRecord)]
        /\ \A u \in Pair : u # s => memGot'[u] = memGot[u]
    BY <1>2, <2>2, <2>3
  <2>5. MemTypes'
    BY <1>1, <1>3, <2>4 DEF MemTypes
  <2> QED BY <1>1, <1>3, <1>4, <2>4, <2>5
<1>5. CASE UNCHANGED memGot
  <2>1. MemTypes'
    BY <1>1, <1>3, <1>5 DEF MemTypes
  <2> QED BY <1>1, <1>3, <1>5, <2>1
<1>6. MemSends(s, r) \/ UNCHANGED memGot
  BY DEF MemPumpForm, MemLooksUp, MemStarts, MemEnds, MemTakesOne, MemDrained, MemRests
<1> QED BY <1>4, <1>5, <1>6

\* What a client has received after an event is handed over.
LEMMA MemSent ==
  ASSUME MemTypes, NEW s \in Pair, NEW r, MemSends(s, r), NEW e \in MemRecord,
         e = stream[memSub[s].of].events[memSub[s].index]
  PROVE  /\ memGot'[s] = Append(memGot[s], e)
         /\ Len(memGot'[s]) = Len(memGot[s]) + 1
         /\ \A i \in 1 .. Len(memGot[s]) : memGot'[s][i] = memGot[s][i]
         /\ memGot'[s][Len(memGot[s]) + 1] = e
         /\ memGot'[s] # <<>>
<1>1. memGot \in [Pair -> Seq(MemRecord)] /\ memGot[s] \in Seq(MemRecord)
  BY DEF MemTypes
<1>2. memGot' = [memGot EXCEPT ![s] = Append(memGot[s], e)]
  BY DEF MemSends
<1>3. memGot'[s] = Append(memGot[s], e)
  BY <1>1, <1>2
<1> DEFINE h == Append(memGot[s], e)
<1>4. /\ Len(h) = Len(memGot[s]) + 1
      /\ \A i \in 1 .. Len(memGot[s]) : h[i] = memGot[s][i]
      /\ h[Len(memGot[s]) + 1] = e
      /\ h # <<>>
  BY <1>1
<1> HIDE DEF h
<1> QED BY <1>3, <1>4 DEF h

LEMMA MemPumpOwn ==
  ASSUME MemTypes, NEW s \in Pair, MemWriterInv(s), MemOwnInv(s), memSub[s].of = s,
         NEW r \in MemSub, r.of = s, MemPumpFrame(s, r), MemPumpForm(s, r)
  PROVE  MemOwnInv(s)'
<1>1. /\ MemTypes' /\ UNCHANGED stream /\ memSub'[s] = r
      /\ MemSends(s, r) \/ UNCHANGED memGot
  <2>1. MemClientInv(s)
    BY DEF MemClientInv
  <2> QED BY <2>1, MemPumpFacts
<1>2. /\ Len(memGot[s]) \in Nat /\ Len(stream[s].events) \in Nat
      /\ memSub[s].index \in Nat /\ memGot[s] \in Seq(MemRecord)
      /\ memGot \in [Pair -> Seq(MemRecord)] /\ memSub[s].step \in Mem!SubSteps
  BY MemFacts DEF MemTypes
<1>3. /\ Len(memGot[s]) <= Len(stream[s].events)
      /\ \A i \in 1 .. Len(memGot[s]) : memGot[s][i] = stream[s].events[i]
      /\ memSub[s].step = "new" => memGot[s] = <<>>
      /\ memSub[s].step = "found" => memGot[s] # <<>>
      /\ memSub[s].step \in {"next", "asleep"} => memSub[s].index = Len(memGot[s])
      /\ memSub[s].step = "send" => /\ memSub[s].index = Len(memGot[s]) + 1
                                    /\ memSub[s].index <= Len(stream[s].events)
      /\ memSub[s].step = "closed" => /\ stream[s].closed
                                      /\ Len(memGot[s]) = Len(stream[s].events)
  BY DEF MemOwnInv
<1>4. CASE MemSends(s, r)
  <2> DEFINE e == stream[s].events[memSub[s].index]
             h == memGot'[s]
  <2>1. /\ memSub[s].index = Len(memGot[s]) + 1 /\ r.step = "next"
        /\ memSub[s].index <= Len(stream[s].events) /\ r.index = memSub[s].index
    BY <1>3, <1>4 DEF MemSends
  <2>2. memSub[s].index \in 1 .. Len(stream[s].events) /\ e \in MemRecord
    <3>1. memSub[s].index \in 1 .. Len(stream[s].events)
      BY <1>2, <2>1
    <3>2. stream[s].events \in Seq(MemRecord)
      BY MemFacts
    <3> QED BY <3>1, <3>2
  <2>3. /\ Len(h) = Len(memGot[s]) + 1
        /\ \A i \in 1 .. Len(memGot[s]) : h[i] = memGot[s][i]
        /\ h[Len(memGot[s]) + 1] = e
    BY <1>4, <2>2, MemSent
  <2>5. \A i \in 1 .. Len(h) : h[i] = stream[s].events[i]
    <3> SUFFICES ASSUME NEW i \in 1 .. Len(h) PROVE h[i] = stream[s].events[i]
      OBVIOUS
    <3>1. CASE i = Len(memGot[s]) + 1
      BY <2>1, <2>3, <3>1
    <3>2. CASE i # Len(memGot[s]) + 1
      <4>1. i \in 1 .. Len(memGot[s])
        BY <1>2, <2>3, <3>2
      <4> QED BY <1>3, <2>3, <4>1
    <3> QED BY <3>1, <3>2
  <2>6. Len(h) <= Len(stream[s].events)
    BY <1>2, <2>1, <2>3
  <2>7. r.index = Len(h)
    BY <2>1, <2>3
  <2> HIDE DEF e
  <2> QED BY <1>1, <2>1, <2>5, <2>6, <2>7 DEF MemOwnInv
<1>5. CASE MemStarts(s, r)
  <2>1. r.index = Len(memGot[s])
    <3>1. CASE memSub[s].step = "new"
      <4>1. Mem!StartIndexAfterSeq(s, 0) = 0 /\ memGot[s] = <<>>
        BY <1>3, <3>1, StartsAtFirst
      <4> QED BY <1>5, <3>1, <4>1 DEF MemStarts
    <3>2. CASE memSub[s].step # "new"
      <4> DEFINE k == Len(memGot[s])
      <4>1. /\ memGot[s] # <<>>
            /\ r.index = Mem!StartIndexAfterSeq(s, memGot[s][k].seq)
        BY <1>5, <3>2 DEF MemStarts
      <4>2. k \in 1 .. Len(stream[s].events) /\ k \in 1 .. Len(memGot[s])
        <5>1. k # 0
          BY <1>2, <4>1
        <5> QED BY <1>2, <1>3, <5>1
      <4>3. memGot[s][k] = stream[s].events[k]
        BY <1>3, <4>2
      <4> HIDE DEF k
      <4>4. Mem!StartIndexAfterSeq(s, stream[s].events[k].seq) = k
        BY <4>2, StartsAfter
      <4> QED BY <4>1, <4>3, <4>4 DEF k
    <3> QED BY <3>1, <3>2
  <2> QED BY <1>1, <1>2, <1>3, <1>5, <2>1 DEF MemStarts, MemOwnInv
<1>6. CASE MemEnds(s, r)
  BY <1>1, <1>2, <1>3, <1>6 DEF MemEnds, MemOwnInv
<1>7. CASE MemTakesOne(s, r)
  BY <1>1, <1>2, <1>3, <1>7 DEF MemTakesOne, MemOwnInv
<1>8. CASE MemDrained(s, r)
  BY <1>1, <1>2, <1>3, <1>8 DEF MemDrained, MemOwnInv
<1>9. CASE MemRests(s, r)
  BY <1>1, <1>2, <1>3, <1>9 DEF MemRests, MemOwnInv
<1>10. CASE \E t \in Pair : MemLooksUp(s, r, t)
  BY <1>1, <1>2, <1>3, <1>10 DEF MemLooksUp, MemOwnInv
<1> QED BY <1>4, <1>5, <1>6, <1>7, <1>8, <1>9, <1>10 DEF MemPumpForm

LEMMA MemPumpOther ==
  ASSUME MemTypes, NEW s \in Pair, NEW t \in Pair, t # s, MemWriterInv(t),
         MemOtherInv(s, t), memSub[s].of = t,
         NEW r \in MemSub, r.of = t, MemPumpFrame(s, r), MemPumpForm(s, r)
  PROVE  MemOtherInv(s, t)'
<1>1. /\ MemTypes' /\ UNCHANGED <<known, stream, deleted>> /\ memSub'[s] = r
      /\ MemSends(s, r) \/ UNCHANGED memGot
  <2>1. MemClientInv(s)
    BY DEF MemClientInv
  <2> QED BY <2>1, MemPumpFacts
<1>2. /\ Len(memGot[s]) \in Nat /\ Len(stream[t].events) \in Nat
      /\ memSub[s].index \in Nat /\ memGot[s] \in Seq(MemRecord)
      /\ memSub[s].step \in Mem!SubSteps /\ stream[t].events \in Seq(MemRecord)
  BY MemFacts
<1>3. /\ deleted /\ s \notin known /\ t \in known
      /\ memSub[s].step # "new" /\ memGot[s] # <<>> /\ stream[s].events # <<>>
      /\ \A i \in 1 .. Len(memGot[s]) :
           \/ \E j \in 1 .. Len(stream[s].events) : memGot[s][i] = stream[s].events[j]
           \/ \E j \in 1 .. Len(stream[t].events) : memGot[s][i] = stream[t].events[j]
      /\ \A i, j \in 1 .. Len(memGot[s]) :
           i < j => /\ memGot[s][i].seq < memGot[s][j].seq
                    /\ memGot[s][j].stream = s => memGot[s][i].stream = s
  BY DEF MemOtherInv
<1>4. PICK a \in 1 .. Len(stream[t].events) : MemReached(s, t, a)
  BY DEF MemOtherInv
<1>5. /\ stream[t].events[a].seq = memGot[s][Len(memGot[s])].seq
      /\ memSub[s].step \in {"next", "asleep"} => memSub[s].index = a
      /\ memSub[s].step = "send" => memSub[s].index = a + 1 /\ a < Len(stream[t].events)
  BY <1>4 DEF MemReached
<1>6. a \in Nat /\ a >= 1 /\ a <= Len(stream[t].events)
  BY <1>2
<1>7. CASE MemSends(s, r)
  <2> DEFINE e == stream[t].events[a + 1]
             h == memGot'[s]
             n == Len(memGot[s])
  <2>1. /\ memSub[s].index = a + 1 /\ a + 1 \in 1 .. Len(stream[t].events)
        /\ r.step = "next" /\ r.index = a + 1
    BY <1>2, <1>5, <1>6, <1>7 DEF MemSends
  <2>2. e \in MemRecord
    BY <1>2, <2>1
  <2>3. /\ Len(h) = n + 1 /\ h[n + 1] = e /\ h # <<>>
        /\ \A i \in 1 .. n : h[i] = memGot[s][i]
    BY <1>7, <2>1, <2>2, MemSent
  <2>4. n \in 1 .. n
    <3>1. n # 0
      BY <1>2, <1>3
    <3> QED BY <1>2, <3>1
  <2>5. e.stream = t /\ stream[t].events[a].seq < e.seq
    <3>1. a \in 1 .. Len(stream[t].events) /\ a < a + 1
      BY <1>6
    <3>2. /\ \A i, j \in 1 .. Len(stream[t].events) :
               i < j => stream[t].events[i].seq < stream[t].events[j].seq
          /\ \A i \in 1 .. Len(stream[t].events) : stream[t].events[i].stream = t
      BY DEF MemWriterInv
    <3> QED BY <2>1, <3>1, <3>2
  <2>6. \A i \in 1 .. n : memGot[s][i].seq < e.seq /\ memGot[s][i].seq \in Nat
    <3> SUFFICES ASSUME NEW i \in 1 .. n
                 PROVE  memGot[s][i].seq < e.seq /\ memGot[s][i].seq \in Nat
      OBVIOUS
    <3>1. memGot[s][i] \in MemRecord /\ memGot[s][n] \in MemRecord
      BY <1>2, <2>4
    <3>2. memGot[s][i].seq \in Nat /\ memGot[s][n].seq \in Nat /\ e.seq \in Nat
      BY <2>2, <3>1 DEF MemRecord
    <3>3. memGot[s][n].seq < e.seq
      BY <1>5, <2>5
    <3>4. CASE i = n
      BY <3>2, <3>3, <3>4
    <3>5. CASE i # n
      <4>1. i < n
        BY <1>2, <3>5
      <4>2. memGot[s][i].seq < memGot[s][n].seq
        BY <1>3, <2>4, <4>1
      <4>3. ASSUME NEW x \in Nat, NEW y \in Nat, NEW z \in Nat, x < y, y < z PROVE x < z
        BY ONLY <4>3
      <4>4. memGot[s][i].seq < e.seq
        BY ONLY <3>2, <3>3, <4>2, <4>3
      <4> QED BY ONLY <3>2, <4>4
    <3> QED BY <3>4, <3>5
  <2> HIDE DEF e, h, n
  <2>7. n \in Nat
    BY <1>2 DEF n
  <2>8. \A i \in 1 .. Len(h) : \/ i \in 1 .. n /\ h[i] = memGot[s][i]
                               \/ i = n + 1 /\ h[i] = e
    BY <2>3, <2>7
  <2>9. \A i \in 1 .. Len(h) :
          \/ \E j \in 1 .. Len(stream[s].events) : h[i] = stream[s].events[j]
          \/ \E j \in 1 .. Len(stream[t].events) : h[i] = stream[t].events[j]
    <3> SUFFICES ASSUME NEW i \in 1 .. Len(h)
                 PROVE  \/ \E j \in 1 .. Len(stream[s].events) : h[i] = stream[s].events[j]
                        \/ \E j \in 1 .. Len(stream[t].events) : h[i] = stream[t].events[j]
      OBVIOUS
    <3>1. CASE i \in 1 .. n /\ h[i] = memGot[s][i]
      BY <1>3, <3>1 DEF n
    <3>2. CASE h[i] = e
      BY <2>1, <3>2 DEF e
    <3> QED BY <2>8, <3>1, <3>2
  <2>10. \A i, j \in 1 .. Len(h) :
           i < j => /\ h[i].seq < h[j].seq
                    /\ h[j].stream = s => h[i].stream = s
    <3> SUFFICES ASSUME NEW i \in 1 .. Len(h), NEW j \in 1 .. Len(h), i < j
                 PROVE  h[i].seq < h[j].seq /\ (h[j].stream = s => h[i].stream = s)
      OBVIOUS
    <3>1. i \in 1 .. n /\ h[i] = memGot[s][i]
      BY <2>3, <2>7, <2>8
    <3>2. CASE j \in 1 .. n /\ h[j] = memGot[s][j]
      BY <1>3, <3>1, <3>2 DEF n
    <3>3. CASE h[j] = e
      BY <2>5, <2>6, <3>1, <3>3
    <3> QED BY <2>8, <3>2, <3>3
  <2>11. MemReached(s, t, a + 1)'
    BY <1>1, <2>1, <2>3 DEF MemReached, e, h, n
  <2> QED BY <1>1, <1>3, <2>1, <2>3, <2>9, <2>10, <2>11 DEF MemOtherInv, h
<1>8. ASSUME UNCHANGED memGot, r.step # "new",
             NEW b \in 1 .. Len(stream[t].events),
             stream[t].events[b].seq = memGot[s][Len(memGot[s])].seq,
             r.step \in {"next", "asleep"} => r.index = b,
             r.step = "send" => r.index = b + 1 /\ b < Len(stream[t].events)
      PROVE  MemOtherInv(s, t)'
  <2>1. MemReached(s, t, b)'
    BY <1>1, <1>8 DEF MemReached
  <2> QED BY <1>1, <1>3, <1>8, <2>1 DEF MemOtherInv
<1>9. CASE MemStarts(s, r)
  <2>1. /\ r.index = Mem!StartIndexAfterSeq(t, memGot[s][Len(memGot[s])].seq)
        /\ r.step = "next" /\ UNCHANGED memGot
    BY <1>3, <1>9 DEF MemStarts
  <2>2. Mem!StartIndexAfterSeq(t, stream[t].events[a].seq) = a
    BY StartsAfter
  <2>3. r.index = a
    BY <1>5, <2>1, <2>2
  <2> QED BY <1>5, <1>8, <2>1, <2>3
<1>10. CASE MemEnds(s, r)
  BY <1>5, <1>8, <1>10 DEF MemEnds
<1>11. CASE MemTakesOne(s, r)
  BY <1>5, <1>6, <1>8, <1>11 DEF MemTakesOne
<1>12. CASE MemDrained(s, r)
  BY <1>5, <1>8, <1>12 DEF MemDrained
<1>13. CASE MemRests(s, r)
  BY <1>5, <1>8, <1>13 DEF MemRests
<1>14. CASE \E v \in Pair : MemLooksUp(s, r, v)
  BY <1>5, <1>8, <1>14 DEF MemLooksUp
<1> QED BY <1>7, <1>9, <1>10, <1>11, <1>12, <1>13, <1>14 DEF MemPumpForm

\* What Holds says of the session's record.
LEMMA MemHoldsIs ==
  ASSUME MemTypes, NEW t \in Pair, NEW seq, Mem!Holds(t, seq)
  PROVE  t \in known /\ \E i \in 1 .. Len(stream[t].events) : stream[t].events[i].seq = seq
<1>1. DOMAIN stream[t].events = 1 .. Len(stream[t].events)
  BY MemFacts
<1> QED BY <1>1 DEF Mem!Holds

\* A resume finds another stream only when the client's own was deleted.
LEMMA MemEnters ==
  ASSUME MemTypes, NEW s \in Pair, NEW t \in Pair, t # s, MemApart(s, t),
         MemWriterInv(s), MemOwnInv(s), memSub[s].of = s,
         NEW r \in MemSub, MemPumpFrame(s, r), MemLooksUp(s, r, t)
  PROVE  MemOtherInv(s, t)'
<1> DEFINE k == Len(memGot[s])
<1>1. /\ UNCHANGED <<known, stream, deleted, memGot>> /\ memSub'[s] = r
      /\ r.step = "found" /\ memGot[s] # <<>> /\ Mem!Holds(t, memGot[s][k].seq)
  BY DEF MemPumpFrame, MemBecomes, MemLooksUp, MemTypes
<1>2. k \in Nat /\ Len(stream[s].events) \in Nat /\ memGot[s] \in Seq(MemRecord)
      /\ stream[s].events \in Seq(MemRecord)
  BY MemFacts
<1>3. k \in 1 .. Len(memGot[s])
  <2>1. k # 0
    BY <1>1, <1>2
  <2> QED BY <1>2, <2>1
<1>4. /\ k <= Len(stream[s].events)
      /\ \A i \in 1 .. k : memGot[s][i] = stream[s].events[i]
  BY DEF MemOwnInv
<1>5. k \in 1 .. Len(stream[s].events) /\ memGot[s][k] = stream[s].events[k]
  BY <1>2, <1>3, <1>4
<1>6. t \in known /\ \E i \in 1 .. Len(stream[t].events) :
                        stream[t].events[i].seq = memGot[s][k].seq
  BY <1>1, MemHoldsIs
<1>7. PICK a \in 1 .. Len(stream[t].events) : stream[t].events[a].seq = memGot[s][k].seq
  BY <1>6
<1>8. s \notin known
  BY <1>5, <1>6, <1>7 DEF MemApart
<1>9. deleted /\ stream[s].events # <<>>
  <2>1. stream[s].events # <<>>
    BY <1>2, <1>5
  <2> QED BY <1>8, <2>1 DEF MemWriterInv
<1>10. \A i \in 1 .. k : i \in 1 .. Len(stream[s].events)
  BY <1>2, <1>4
<1>11. \A i, j \in 1 .. k :
         i < j => /\ memGot[s][i].seq < memGot[s][j].seq
                  /\ memGot[s][j].stream = s => memGot[s][i].stream = s
  BY <1>4, <1>10 DEF MemWriterInv
<1>12. MemReached(s, t, a)'
  BY <1>1, <1>7 DEF MemReached
<1>13. \A i \in 1 .. k : \E j \in 1 .. Len(stream[s].events) :
         memGot[s][i] = stream[s].events[j]
  BY <1>4, <1>10
<1> HIDE DEF k
<1>14. k = Len(memGot[s])
  BY DEF k
<1> QED BY <1>1, <1>6, <1>8, <1>9, <1>11, <1>12, <1>13, <1>14 DEF MemOtherInv

\* And finds that one again.
LEMMA MemFindsAgain ==
  ASSUME MemTypes, NEW s \in Pair, NEW t \in Pair, NEW v \in Pair, MemApart(t, v),
         MemOtherInv(s, t), NEW r, MemLooksUp(s, r, v)
  PROVE  v = t
<1> DEFINE seq == memGot[s][Len(memGot[s])].seq
<1>1. Mem!Holds(v, seq)
  BY DEF MemLooksUp
<1> HIDE DEF seq
<1>2. v \in known /\ \E i \in 1 .. Len(stream[v].events) : stream[v].events[i].seq = seq
  BY <1>1, MemHoldsIs
<1>3. t \in known /\ \E a \in 1 .. Len(stream[t].events) : stream[t].events[a].seq = seq
  BY DEF MemOtherInv, MemReached, seq
<1> QED BY <1>2, <1>3 DEF MemApart

LEMMA MemPumpClient ==
  ASSUME MemTypes, NEW s \in Pair, MemClientInv(s), \A t \in Pair : MemWriterInv(t),
         \A t, v \in Pair : MemApart(t, v),
         NEW r \in MemSub, MemPumpFrame(s, r), MemPumpForm(s, r)
  PROVE  MemClientInv(s)'
<1>1. memSub'[s] = r
  BY MemPumpFacts
<1>2. r.of = memSub[s].of \/ MemStarts(s, r) \/ \E t \in Pair : MemLooksUp(s, r, t)
  BY DEF MemPumpForm, MemSends, MemEnds, MemTakesOne, MemDrained, MemRests
<1>3. CASE memSub[s].of = s
  <2>1. CASE r.of = s
    <3>1. MemOwnInv(s)'
      BY <1>3, <2>1, MemPumpOwn DEF MemClientInv
    <3> QED BY <1>1, <2>1, <3>1 DEF MemClientInv
  <2>2. CASE r.of # s
    <3>1. PICK t \in Pair : MemLooksUp(s, r, t)
      BY <1>2, <1>3, <2>2 DEF MemStarts
    <3>2. r.of = t /\ t # s
      BY <2>2, <3>1 DEF MemLooksUp
    <3>3. MemOtherInv(s, t)'
      BY <1>3, <3>1, <3>2, MemEnters DEF MemClientInv
    <3> QED BY <1>1, <3>2, <3>3 DEF MemClientInv
  <2> QED BY <2>1, <2>2
<1>4. CASE memSub[s].of # s
  <2>1. PICK t \in Pair : t = memSub[s].of
    BY MemFacts
  <2>2. MemOtherInv(s, t) /\ t # s
    BY <1>4, <2>1 DEF MemClientInv
  <2>3. r.of = t
    <3>1. CASE MemStarts(s, r)
      BY <2>1, <2>2, <3>1 DEF MemStarts, MemOtherInv
    <3>2. CASE \E v \in Pair : MemLooksUp(s, r, v)
      <4>1. PICK v \in Pair : MemLooksUp(s, r, v)
        BY <3>2
      <4>2. v = t
        BY <2>2, <4>1, MemFindsAgain
      <4> QED BY <4>1, <4>2 DEF MemLooksUp
    <3> QED BY <1>2, <2>1, <3>1, <3>2
  <2>4. MemOtherInv(s, t)'
    BY <2>1, <2>2, <2>3, MemPumpOther
  <2> QED BY <1>1, <2>2, <2>3, <2>4 DEF MemClientInv
<1> QED BY <1>3, <1>4

LEMMA MemClientSame ==
  ASSUME NEW u, MemClientInv(u), UNCHANGED <<known, stream, deleted>>,
         memSub'[u] = memSub[u], memGot'[u] = memGot[u]
  PROVE  MemClientInv(u)'
  BY DEF MemClientInv, MemOwnInv, MemOtherInv, MemReached

\* What a step that appends nothing and begins no stream keeps.
LEMMA MemRestKeeps ==
  ASSUME MemInv, UNCHANGED <<memNextSeq, known, stream, memTool, deleted>>
  PROVE  /\ MemIdsCount' /\ \A u \in Pair : MemWriterInv(u)'
         /\ \A u, v \in Pair : MemApart(u, v)'
<1>1. MemIdsCount'
  BY DEF MemInv, MemIdsCount, Appended
<1>2. ASSUME NEW u \in Pair PROVE MemWriterInv(u)'
  BY DEF MemInv, MemStreamInv, MemWriterInv
<1>3. ASSUME NEW u \in Pair, NEW v \in Pair PROVE MemApart(u, v)'
  BY DEF MemInv, MemApart
<1> QED BY <1>1, <1>2, <1>3

LEMMA MemPumpKeeps ==
  ASSUME MemInv, NEW s \in Pair, NEW r \in MemSub, MemPumpFrame(s, r), MemPumpForm(s, r)
  PROVE  MemInv'
<1>1. /\ MemTypes /\ \A u \in Pair : MemWriterInv(u) /\ MemClientInv(u)
      /\ \A u, v \in Pair : MemApart(u, v)
  BY DEF MemInv, MemStreamInv
<1>2. /\ MemTypes' /\ UNCHANGED <<memNextSeq, known, stream, memTool, deleted>>
      /\ \A u \in Pair : u # s => memSub'[u] = memSub[u] /\ memGot'[u] = memGot[u]
  BY <1>1, MemPumpFacts
<1>3. /\ MemIdsCount' /\ \A u \in Pair : MemWriterInv(u)'
      /\ \A u, v \in Pair : MemApart(u, v)'
  BY <1>2, MemRestKeeps
<1>4. ASSUME NEW u \in Pair PROVE MemClientInv(u)'
  <2>1. CASE u = s
    BY <1>1, <2>1, MemPumpClient
  <2>2. CASE u # s
    BY <1>1, <1>2, <2>2, MemClientSame
  <2> QED BY <2>1, <2>2
<1> QED BY <1>2, <1>3, <1>4 DEF MemInv, MemStreamInv

LEMMA MemClientsKept ==
  ASSUME MemInv, MemTypes', MemWoken, UNCHANGED memGot, \A v \in Pair : MemGrows(v),
         UNCHANGED <<known, deleted>> \/ ~deleted
  PROVE  \A u \in Pair : MemClientInv(u)'
<1> SUFFICES ASSUME NEW u \in Pair PROVE MemClientInv(u)'
  OBVIOUS
<1>1. MemTypes /\ MemClientInv(u)
  BY DEF MemInv, MemStreamInv
<1>2. memSub[u].of \in Pair
  BY <1>1, MemFacts
<1>3. memSub[u].of # u => deleted' /\ u \notin known' /\ memSub[u].of \in known'
  BY <1>1 DEF MemClientInv, MemOtherInv
<1> QED BY <1>1, <1>2, <1>3, MemClientKept

LEMMA MemMarksKeeps ==
  ASSUME MemInv, MemMarks
  PROVE  MemInv'
<1>1. MemTypes
  BY DEF MemInv
<1>2. MemTypes'
  BY <1>1 DEF MemMarks, MemTypes
<1>3. /\ MemIdsCount' /\ \A u \in Pair : MemWriterInv(u)'
      /\ \A u, v \in Pair : MemApart(u, v)'
  BY MemRestKeeps DEF MemMarks
<1>4. \A v \in Pair : MemGrows(v)
  <2>1. \A v \in Pair : Len(stream[v].events) \in Nat
    BY <1>1, MemFacts
  <2> QED BY <2>1 DEF MemMarks, MemGrows
<1>5. \A u \in Pair : MemClientInv(u)'
  BY <1>2, <1>4, MemClientsKept DEF MemMarks
<1> QED BY <1>2, <1>3, <1>5 DEF MemInv, MemStreamInv

LEMMA MemToolFacts ==
  ASSUME MemTypes, NEW s \in Pair, NEW next \in Mem!ToolSteps, NEW n \in 1 .. PairFinal + 1,
         MemToolGoes(s, next, n)
  PROVE  /\ memTool' \in [Pair -> MemTool]
         /\ memTool'[s].step = next /\ memTool'[s].n = n
         /\ \A u \in Pair : u # s => memTool'[u] = memTool[u]
<1> DEFINE r == [step |-> next, n |-> n]
<1>1. r \in MemTool /\ r.step = next /\ r.n = n
  BY DEF MemTool
<1>2. memTool' = [memTool EXCEPT ![s] = r] /\ memTool \in [Pair -> MemTool]
  BY DEF MemToolGoes, MemTypes
<1> HIDE DEF r
<1> QED BY <1>1, <1>2

LEMMA MemCreateKeeps ==
  ASSUME MemInv, NEW s \in Pair, MemCreates(s)
  PROVE  MemInv'
<1>1. MemTypes /\ MemIdsCount /\ \A u \in Pair : MemWriterInv(u) /\ MemClientInv(u)
  BY DEF MemInv, MemStreamInv
<1>2. /\ MemToolGoes(s, "append", memTool[s].n) /\ memTool[s].step = "create"
      /\ memNextSeq' = IF known = {} THEN 0 ELSE memNextSeq
      /\ known' = known \cup {s}
      /\ UNCHANGED <<stream, memSub, deleted, memGot>>
  BY DEF MemCreates
<1>3. /\ memTool[s].n \in 1 .. PairFinal + 1 /\ memTool[s].n \in Nat
      /\ memTool[s].n >= memTool[s].n /\ "append" \in Mem!ToolSteps
  BY <1>1, MemFacts DEF Mem!ToolSteps
<1>4. /\ memTool' \in [Pair -> MemTool] /\ memTool'[s].step = "append"
      /\ \A u \in Pair : u # s => memTool'[u] = memTool[u]
  BY <1>1, <1>2, <1>3, MemToolFacts
<1>5. memNextSeq \in Nat /\ memNextSeq' \in Nat /\ memNextSeq' <= memNextSeq
  BY <1>1, <1>2 DEF MemTypes
<1>6. MemTypes'
  BY <1>1, <1>2, <1>4, <1>5 DEF MemTypes
<1>7. MemIdsCount'
  <2>1. /\ Cardinality(Appended') \in Nat
        /\ Cardinality(Appended) <= Cardinality(Appended')
    BY <1>1, <1>2, <1>3, AppendedGrows
  <2>2. memNextSeq <= Cardinality(Appended) /\ Cardinality(Appended) \in Nat
    BY <1>1, AppendedCounted DEF MemIdsCount
  <2>3. memNextSeq' <= Cardinality(Appended')
    BY <1>5, <2>1, <2>2
  <2> QED BY <2>3 DEF MemIdsCount
<1>8. ASSUME NEW u \in Pair PROVE MemWriterInv(u)'
  <2>1. CASE u = s
    <3>1. stream[s].events = <<>> /\ ~stream[s].closed
      BY <1>1, <1>2 DEF MemWriterInv
    <3> QED BY <1>2, <1>4, <2>1, <3>1 DEF MemWriterInv
  <2>2. CASE u # s
    <3>1. u \in known' => u \in known /\ memNextSeq' = memNextSeq
      BY <1>2, <2>2
    <3> QED BY <1>1, <1>2, <1>4, <2>2, <3>1 DEF MemWriterInv
  <2> QED BY <2>1, <2>2
<1>9. ASSUME NEW u \in Pair PROVE MemClientInv(u)'
  <2>1. CASE memSub[u].of = u
    BY <1>1, <1>2, <2>1 DEF MemClientInv, MemOwnInv
  <2>2. CASE memSub[u].of # u
    <3>1. MemOtherInv(u, memSub[u].of)
      BY <1>1, <2>2 DEF MemClientInv
    <3>2. u # s
      BY <1>1, <1>2, <3>1 DEF MemOtherInv, MemWriterInv
    <3>3. MemClientInv(u)'
      BY <1>2, <2>2, <3>1, <3>2 DEF MemClientInv, MemOtherInv, MemReached
    <3> QED BY <3>3
  <2> QED BY <2>1, <2>2
<1>10. ASSUME NEW u \in Pair, NEW v \in Pair PROVE MemApart(u, v)'
  <2>1. MemApart(u, v)
    BY DEF MemInv
  <2>2. stream[s].events = <<>> /\ Len(stream[s].events) = 0
    BY <1>1, <1>2 DEF MemWriterInv
  <2>3. 1 .. Len(stream[s].events) = {}
    BY <2>2
  <2>4. CASE u = s \/ v = s
    BY <1>2, <2>3, <2>4 DEF MemApart
  <2>5. CASE u # s /\ v # s
    <3>1. (u \in known' => u \in known) /\ (v \in known' => v \in known)
      BY <1>2, <2>5
    <3> QED BY <1>2, <2>1, <3>1 DEF MemApart
  <2> QED BY <2>4, <2>5
<1> QED BY <1>6, <1>7, <1>8, <1>9, <1>10 DEF MemInv, MemStreamInv

\* What an append does to its stream, that was open.
LEMMA MemAppendFacts ==
  ASSUME MemInv, NEW s \in Pair, NEW next, NEW n, MemAppends(s, next, n)
  PROVE  /\ MemEvent(s) \in MemRecord /\ MemEvent(s).seq = memNextSeq + 1
         /\ MemEvent(s).stream = s
         /\ ~stream[s].closed
         /\ stream' \in [Pair -> MemStream]
         /\ stream'[s].events = Append(stream[s].events, MemEvent(s))
         /\ stream'[s].closed = stream[s].closed
         /\ \A u \in Pair : u # s => stream'[u] = stream[u]
<1>1. MemTypes /\ MemWriterInv(s) /\ stream \in [Pair -> MemStream]
  BY DEF MemInv, MemStreamInv, MemTypes
<1>2. /\ stream[s].events \in Seq(MemRecord) /\ stream[s].closed \in BOOLEAN
      /\ memTool[s].n \in 1 .. PairFinal + 1 /\ memNextSeq \in Nat
  BY <1>1, MemFacts DEF MemTypes
<1>3. /\ MemEvent(s) \in MemRecord /\ MemEvent(s).seq = memNextSeq + 1
      /\ MemEvent(s).stream = s
  BY <1>2 DEF MemEvent, MemRecord
<1>4. ~stream[s].closed
  BY <1>1 DEF MemWriterInv, MemAppends
<1> DEFINE h == Append(stream[s].events, MemEvent(s))
           q == MemHolds(h, stream[s].closed)
<1>5. stream' = [stream EXCEPT ![s] = q]
  BY DEF MemAppends
<1>6. h \in Seq(MemRecord)
  BY <1>2, <1>3
<1> HIDE DEF h
<1>7. q \in MemStream /\ q.events = h /\ q.closed = stream[s].closed
  BY <1>2, <1>6 DEF MemStream, MemHolds
<1> HIDE DEF q
<1>8. /\ stream' \in [Pair -> MemStream] /\ stream'[s] = q
      /\ \A u \in Pair : u # s => stream'[u] = stream[u]
  BY <1>1, <1>5, <1>7
<1>9. stream'[s].events = h /\ stream'[s].closed = stream[s].closed
  BY <1>7, <1>8
<1> QED BY <1>3, <1>4, <1>8, <1>9 DEF h

LEMMA MemAppendKeeps ==
  ASSUME MemInv, NEW s \in Pair, NEW next \in Mem!ToolSteps, NEW n \in 1 .. PairFinal + 1,
         MemAppends(s, next, n)
  PROVE  MemInv' /\ memNextSeq + 1 <= Cardinality(Pair) * (PairFinal + 1)
<1>1. MemTypes /\ MemIdsCount /\ \A u \in Pair : MemWriterInv(u) /\ MemClientInv(u)
  BY DEF MemInv, MemStreamInv
<1>2. /\ s \in known /\ memTool[s].step = "append" /\ MemToolGoes(s, next, n)
      /\ \/ n = memTool[s].n + 1 /\ next = "append"
         \/ n = memTool[s].n /\ next = "close"
      /\ memNextSeq' = memNextSeq + 1
      /\ MemWoken /\ memSub' \in [Pair -> MemSub]
      /\ UNCHANGED <<known, deleted, memGot>>
  BY DEF MemAppends
<1> DEFINE e == MemEvent(s)
           evs == stream[s].events
           h == Append(evs, e)
<1>3. /\ e \in MemRecord /\ e.seq = memNextSeq + 1 /\ ~stream[s].closed /\ e.stream = s
      /\ stream' \in [Pair -> MemStream] /\ stream'[s].events = h
      /\ stream'[s].closed = stream[s].closed
      /\ \A u \in Pair : u # s => stream'[u] = stream[u]
  BY MemAppendFacts
<1>4. /\ memTool' \in [Pair -> MemTool] /\ memTool'[s].step = next
      /\ \A u \in Pair : u # s => memTool'[u] = memTool[u]
  BY <1>1, <1>2, MemToolFacts
<1>5. memNextSeq \in Nat /\ n \in Nat /\ memTool[s].n \in Nat /\ PairFinal \in Nat
  BY <1>1, MemFacts, PairAssumption DEF MemTypes
<1>6. MemTypes'
  BY <1>1, <1>2, <1>3, <1>4, <1>5 DEF MemTypes
<1>7. /\ Cardinality(Appended') \in Nat
      /\ Cardinality(Appended) + 1 <= Cardinality(Appended')
      /\ Cardinality(Appended') <= Cardinality(Pair) * (PairFinal + 1)
  <2>1. n >= memTool[s].n
    BY <1>2, <1>5
  <2>2. Cardinality(Appended) + 1 <= Cardinality(Appended')
    BY <1>1, <1>2, <1>5, AppendedOneMore
  <2>3. /\ Cardinality(Appended') \in Nat
        /\ Cardinality(Appended') <= Cardinality(Pair) * (PairFinal + 1)
    BY <1>1, <1>2, <1>5, <2>1, AppendedGrows
  <2> QED BY <2>2, <2>3
<1>8. memNextSeq <= Cardinality(Appended) /\ Cardinality(Appended) \in Nat
  BY <1>1, AppendedCounted DEF MemIdsCount
<1>0. memNextSeq + 1 <= Cardinality(Appended')
  BY <1>5, <1>7, <1>8
<1>9. MemIdsCount'
  BY <1>2, <1>0 DEF MemIdsCount
<1>b. Cardinality(Pair) \in Nat
  BY PairAssumption, FS_CardinalityType
<1>10. memNextSeq + 1 <= Cardinality(Pair) * (PairFinal + 1)
  <2> DEFINE x == Cardinality(Pair) * (PairFinal + 1)
  <2>1. x \in Nat /\ Cardinality(Appended') <= x
    BY <1>5, <1>7, <1>b
  <2> HIDE DEF x
  <2>2. memNextSeq + 1 <= x
    BY <1>5, <1>7, <1>0, <2>1
  <2> QED BY <2>2 DEF x
<1>11. /\ evs \in Seq(MemRecord) /\ Len(evs) \in Nat /\ Len(h) = Len(evs) + 1
       /\ \A i \in 1 .. Len(evs) : h[i] = evs[i] /\ evs[i].seq \in Nat
       /\ h[Len(evs) + 1] = e
  <2>1. evs \in Seq(MemRecord) /\ Len(evs) \in Nat
    BY <1>1, MemFacts
  <2>2. \A i \in 1 .. Len(evs) : evs[i] \in MemRecord
    BY <2>1
  <2> HIDE DEF evs, e
  <2> QED BY <1>3, <2>1, <2>2 DEF MemRecord
<1>12. MemWriterInv(s)'
  <2>1. /\ \A i \in 1 .. Len(evs) : /\ evs[i].seq >= 1 /\ evs[i].seq <= memNextSeq
                                    /\ evs[i].stream = s
        /\ \A i, j \in 1 .. Len(evs) : i < j => evs[i].seq < evs[j].seq
    BY <1>1, <1>2 DEF MemWriterInv
  <2> HIDE DEF h, e, evs
  <2>2. \A i \in 1 .. Len(h) : \/ i \in 1 .. Len(evs) /\ h[i] = evs[i]
                               \/ i = Len(evs) + 1 /\ h[i] = e
    BY <1>11
  <2>3. \A i \in 1 .. Len(h) : /\ h[i].seq >= 1 /\ h[i].seq <= memNextSeq + 1
                              /\ h[i].stream = s
    <3> SUFFICES ASSUME NEW i \in 1 .. Len(h)
                 PROVE  h[i].seq >= 1 /\ h[i].seq <= memNextSeq + 1 /\ h[i].stream = s
      OBVIOUS
    <3>1. CASE i \in 1 .. Len(evs) /\ h[i] = evs[i]
      BY <1>5, <1>11, <2>1, <3>1
    <3>2. CASE h[i] = e
      BY <1>3, <1>5, <3>2
    <3> QED BY <2>2, <3>1, <3>2
  <2>4. \A i, j \in 1 .. Len(h) : i < j => h[i].seq < h[j].seq
    <3> SUFFICES ASSUME NEW i \in 1 .. Len(h), NEW j \in 1 .. Len(h), i < j
                 PROVE  h[i].seq < h[j].seq
      OBVIOUS
    <3>1. i \in 1 .. Len(evs) /\ h[i] = evs[i]
      BY <1>11, <2>2
    <3>2. CASE j \in 1 .. Len(evs) /\ h[j] = evs[j]
      BY <2>1, <3>1, <3>2
    <3>3. CASE h[j] = e
      BY <1>3, <1>5, <1>11, <2>1, <3>1, <3>3
    <3> QED BY <2>2, <3>2, <3>3
  <2>5. /\ memTool'[s].step # "create" /\ ~stream'[s].closed /\ stream'[s].events = h
        /\ memNextSeq' = memNextSeq + 1 /\ s \in known'
    BY <1>2, <1>3, <1>4
  <2> QED BY <2>3, <2>4, <2>5 DEF MemWriterInv
<1>13. ASSUME NEW u \in Pair PROVE MemWriterInv(u)'
  <2>1. CASE u = s
    BY <1>12, <2>1
  <2>2. CASE u # s
    <3>1. \A i \in 1 .. Len(stream[u].events) :
            stream[u].events[i].seq <= memNextSeq => stream[u].events[i].seq <= memNextSeq + 1
      <4> SUFFICES ASSUME NEW i \in 1 .. Len(stream[u].events)
                   PROVE  stream[u].events[i].seq <= memNextSeq
                            => stream[u].events[i].seq <= memNextSeq + 1
        OBVIOUS
      <4>1. stream[u].events[i] \in MemRecord
        BY <1>1, MemFacts
      <4>2. stream[u].events[i].seq \in Nat
        BY <4>1 DEF MemRecord
      <4>3. ASSUME NEW x \in Nat, NEW y \in Nat, x <= y PROVE x <= y + 1
        BY ONLY <4>3
      <4> QED BY <1>5, <4>2, <4>3
    <3>2. /\ UNCHANGED <<known, deleted>> /\ stream'[u] = stream[u]
          /\ memTool'[u] = memTool[u] /\ memNextSeq' = memNextSeq + 1
      BY <1>2, <1>3, <1>4, <2>2
    <3>3. MemWriterInv(u)
      BY <1>1
    <3>4. \A i \in 1 .. Len(stream'[u].events) :
            u \in known' => stream'[u].events[i].seq <= memNextSeq'
      BY <3>1, <3>2, <3>3 DEF MemWriterInv
    <3> QED BY <3>2, <3>3, <3>4 DEF MemWriterInv
  <2> QED BY <2>1, <2>2
<1>14. \A u \in Pair : MemClientInv(u)'
  <2>1. \A v \in Pair : MemGrows(v)
    <3> SUFFICES ASSUME NEW v \in Pair PROVE MemGrows(v)
      OBVIOUS
    <3>1. Len(stream[v].events) \in Nat
      BY <1>1, MemFacts
    <3>2. CASE v = s
      <4>1. /\ stream'[s].events = h /\ ~stream[s].closed
            /\ \A i \in 1 .. Len(evs) : h[i] = evs[i]
        BY <1>3, <1>11
      <4>2. Len(h) >= Len(evs)
        BY <1>11
      <4> QED BY <3>2, <4>1, <4>2 DEF MemGrows
    <3>3. CASE v # s
      BY <1>3, <3>1, <3>3 DEF MemGrows
    <3> QED BY <3>2, <3>3
  <2> QED BY <1>2, <1>6, <2>1, MemClientsKept
<1>15. ASSUME NEW v \in Pair, v # s, v \in known
       PROVE  \A i \in 1 .. Len(h), j \in 1 .. Len(stream[v].events) :
                h[i].seq # stream[v].events[j].seq
  <2> SUFFICES ASSUME NEW i \in 1 .. Len(h), NEW j \in 1 .. Len(stream[v].events)
               PROVE  h[i].seq # stream[v].events[j].seq
    OBVIOUS
  <2>1. MemApart(s, v) /\ MemWriterInv(v)
    BY <1>1 DEF MemInv
  <2>2. stream[v].events[j].seq <= memNextSeq /\ stream[v].events[j].seq \in Nat
    <3>1. stream[v].events[j] \in MemRecord
      BY <1>1, MemFacts
    <3> QED BY <1>15, <2>1, <3>1 DEF MemWriterInv, MemRecord
  <2> HIDE DEF h, e
  <2>3. CASE i \in 1 .. Len(evs)
    <3>1. h[i] = evs[i]
      BY <1>11, <2>3
    <3> QED BY <1>2, <1>15, <2>1, <2>3, <3>1 DEF MemApart
  <2>4. CASE i \notin 1 .. Len(evs)
    <3>1. i = Len(evs) + 1
      <4>1. Len(evs) \in Nat /\ i \in 1 .. Len(evs) + 1
        BY <1>11
      <4> HIDE DEF evs
      <4> QED BY <2>4, <4>1
    <3>2. h[i].seq = memNextSeq + 1
      BY <1>3, <1>11, <3>1
    <3>3. ASSUME NEW x \in Nat, NEW y \in Nat, x <= y PROVE y + 1 # x
      BY ONLY <3>3
    <3>4. memNextSeq + 1 # stream[v].events[j].seq
      BY <1>5, <2>2, <3>3
    <3> QED BY <3>2, <3>4
  <2> QED BY <2>3, <2>4
<1>16. ASSUME NEW u \in Pair, NEW v \in Pair PROVE MemApart(u, v)'
  <2> HIDE DEF h
  <2>1. CASE u = s /\ v # s
    BY <1>2, <1>3, <1>15, <2>1 DEF MemApart
  <2>2. CASE u # s /\ v = s
    BY <1>2, <1>3, <1>15, <2>2 DEF MemApart
  <2>3. CASE u # s /\ v # s
    <3>1. MemApart(u, v)
      BY DEF MemInv
    <3> QED BY <1>2, <1>3, <2>3, <3>1 DEF MemApart
  <2>4. CASE u = s /\ v = s
    BY <2>4 DEF MemApart
  <2> QED BY <2>1, <2>2, <2>3, <2>4
<1> QED BY <1>6, <1>9, <1>10, <1>13, <1>14, <1>16 DEF MemInv, MemStreamInv

\* A stream that is only closed, or not changed.
MemSame(u) ==
    /\ stream'[u].events = stream[u].events
    /\ stream[u].closed => stream'[u].closed

LEMMA MemSameKeeps ==
  ASSUME MemInv, MemTypes', \A u \in Pair : MemSame(u), MemWoken, UNCHANGED memGot,
         UNCHANGED <<known, deleted>> \/ (~deleted /\ known' = {})
  PROVE  \A u, v \in Pair : MemClientInv(u)' /\ MemApart(u, v)'
<1>1. ASSUME NEW v \in Pair PROVE MemGrows(v)
  <2>1. Len(stream[v].events) \in Nat /\ MemSame(v)
    BY MemFacts DEF MemInv
  <2> QED BY <2>1 DEF MemSame, MemGrows
<1>2. \A u \in Pair : MemClientInv(u)'
  BY <1>1, MemClientsKept
<1>3. ASSUME NEW u \in Pair, NEW v \in Pair PROVE MemApart(u, v)'
  <2>1. MemApart(u, v)
    BY DEF MemInv
  <2>2. stream'[u].events = stream[u].events /\ stream'[v].events = stream[v].events
    BY DEF MemSame
  <2> QED BY <2>1, <2>2 DEF MemApart
<1> QED BY <1>2, <1>3

LEMMA MemQuietStep ==
  ASSUME MemInv, NEW s \in Pair, NEW next \in Mem!ToolSteps, NEW n \in 1 .. PairFinal + 1,
         \/ MemCloses(s) /\ next = "done" /\ n = memTool[s].n
         \/ MemFails(s, next, n)
  PROVE  /\ MemInv' /\ UNCHANGED <<memNextSeq, known, deleted, memGot>>
         /\ MemWoken
         /\ \A u \in Pair : u # s => stream'[u] = stream[u]
         /\ \/ stream'[s] = stream[s]
            \/ /\ stream'[s].events = stream[s].events
               /\ ~stream[s].closed /\ stream'[s].closed
<1>1. MemTypes /\ MemIdsCount /\ \A u \in Pair : MemWriterInv(u) /\ MemClientInv(u)
  BY DEF MemInv, MemStreamInv
<1>2. /\ MemToolGoes(s, next, n) /\ UNCHANGED <<memNextSeq, known, deleted, memGot>>
      /\ MemWoken /\ memSub' \in [Pair -> MemSub]
      /\ memTool[s].step # "create" /\ memTool[s].step # "done" /\ next # "create"
      /\ memTool[s].step = "close" => next = "done"
      /\ s \in known => next = "done"
  BY <1>1 DEF MemCloses, MemFails, MemTypes, MemWoken
<1>3. /\ memTool[s].n \in Nat /\ n \in Nat /\ PairFinal \in Nat
      /\ memTool[s].n \in 1 .. PairFinal + 1
      /\ stream[s] \in MemStream /\ stream \in [Pair -> MemStream]
      /\ stream[s].closed \in BOOLEAN
  BY <1>1, MemFacts, PairAssumption DEF MemTypes
<1>4. n >= memTool[s].n
  BY <1>3 DEF MemFails
<1>5. /\ memTool' \in [Pair -> MemTool] /\ memTool'[s].step = next
      /\ \A u \in Pair : u # s => memTool'[u] = memTool[u]
  BY <1>1, <1>2, MemToolFacts
<1>6. /\ stream' \in [Pair -> MemStream]
      /\ \A u \in Pair : u # s => stream'[u] = stream[u]
      /\ \/ stream'[s] = stream[s]
         \/ /\ stream'[s].events = stream[s].events
            /\ ~stream[s].closed /\ stream'[s].closed
  <2>1. CASE MemCloses(s)
    <3> DEFINE q == MemHolds(stream[s].events, TRUE)
    <3>1. stream' = [stream EXCEPT ![s] = q]
      BY <2>1 DEF MemCloses
    <3>2. q \in MemStream /\ q.events = stream[s].events /\ q.closed
      BY <1>3 DEF MemHolds, MemStream
    <3>3. ~stream[s].closed
      BY <1>1, <2>1 DEF MemCloses, MemWriterInv
    <3> HIDE DEF q
    <3>4. stream' \in [Pair -> MemStream] /\ stream'[s] = q
          /\ \A u \in Pair : u # s => stream'[u] = stream[u]
      BY <1>3, <3>1, <3>2
    <3> QED BY <3>2, <3>3, <3>4
  <2>2. CASE UNCHANGED stream
    BY <1>3, <2>2
  <2> QED BY <2>1, <2>2 DEF MemFails
<1>7. MemTypes'
  BY <1>1, <1>2, <1>5, <1>6 DEF MemTypes
<1>8. MemIdsCount'
  <2>1. memTool[s].step \in {"close", "done"} => next \in {"close", "done"}
    BY <1>2
  <2>2. /\ Cardinality(Appended') \in Nat
        /\ Cardinality(Appended) <= Cardinality(Appended')
    BY <1>1, <1>2, <1>3, <1>4, <2>1, AppendedGrows
  <2>3. memNextSeq <= Cardinality(Appended) /\ Cardinality(Appended) \in Nat
        /\ memNextSeq \in Nat
    BY <1>1, AppendedCounted DEF MemIdsCount, MemTypes
  <2>4. memNextSeq <= Cardinality(Appended')
    BY <2>2, <2>3
  <2> QED BY <1>2, <2>4 DEF MemIdsCount
<1>9. \A u \in Pair : MemSame(u)
  BY <1>3, <1>6 DEF MemSame
<1>10. \A u, v \in Pair : MemClientInv(u)' /\ MemApart(u, v)'
  BY <1>2, <1>7, <1>9, MemSameKeeps
<1>11. ASSUME NEW u \in Pair PROVE MemWriterInv(u)'
  <2>1. CASE u = s
    <3>1. /\ MemWriterInv(s) /\ UNCHANGED <<memNextSeq, known, deleted>>
          /\ stream'[s].events = stream[s].events
      BY <1>1, <1>2, <1>6
    <3>2. /\ memTool[s].step # "create" /\ memTool'[s].step # "create"
          /\ s \in known => memTool'[s].step = "done"
      BY <1>2, <1>5
    <3> QED BY <2>1, <3>1, <3>2 DEF MemWriterInv
  <2>2. CASE u # s
    <3>1. /\ MemWriterInv(u) /\ UNCHANGED <<memNextSeq, known, deleted>>
          /\ stream'[u] = stream[u] /\ memTool'[u] = memTool[u]
      BY <1>1, <1>2, <1>5, <1>6, <2>2
    <3> QED BY ONLY <3>1 DEF MemWriterInv
  <2> QED BY <2>1, <2>2
<1> QED BY <1>2, <1>6, <1>7, <1>8, <1>10, <1>11 DEF MemInv, MemStreamInv

LEMMA MemDeletionStep ==
  ASSUME MemInv, MemDeletes
  PROVE  /\ MemInv' /\ UNCHANGED <<memGot, memTool>> /\ MemWoken
         /\ \A u \in Pair : /\ stream'[u].events = stream[u].events
                            /\ stream'[u].closed = (u \in known \/ stream[u].closed)
<1>1. MemTypes /\ MemIdsCount /\ \A u \in Pair : MemWriterInv(u) /\ MemClientInv(u)
  BY DEF MemInv, MemStreamInv
<1>2. /\ ~deleted /\ deleted' /\ known' = {} /\ MemWoken /\ memSub' \in [Pair -> MemSub]
      /\ UNCHANGED <<memNextSeq, memTool, memGot>>
  BY DEF MemDeletes
<1>3. \A u \in Pair : stream[u] \in MemStream
  BY <1>1 DEF MemTypes
<1>4. \A u \in Pair : /\ MemHolds(stream[u].events, TRUE) \in MemStream
                      /\ MemHolds(stream[u].events, TRUE).events = stream[u].events
                      /\ MemHolds(stream[u].events, TRUE).closed = TRUE
  BY <1>3 DEF MemHolds, MemStream
<1>5. \A u \in Pair : stream[u].closed \in BOOLEAN
  BY <1>3 DEF MemStream
<1>6. stream' = [u \in Pair |-> IF u \in known THEN MemHolds(stream[u].events, TRUE)
                                               ELSE stream[u]]
  BY DEF MemDeletes
<1>7. \A u \in Pair : /\ stream'[u].events = stream[u].events
                      /\ stream'[u].closed = (u \in known \/ stream[u].closed)
  <2> SUFFICES ASSUME NEW u \in Pair
               PROVE  /\ stream'[u].events = stream[u].events
                      /\ stream'[u].closed = (u \in known \/ stream[u].closed)
    OBVIOUS
  <2>1. CASE u \in known
    BY <1>4, <1>6, <2>1
  <2>2. CASE u \notin known
    BY <1>5, <1>6, <2>2
  <2> QED BY <2>1, <2>2
<1>8. stream' \in [Pair -> MemStream]
  BY <1>3, <1>4, <1>6
<1>9. MemTypes'
  <2>1. deleted' \in BOOLEAN
    BY DEF MemDeletes
  <2> QED BY <1>1, <1>2, <1>8, <2>1 DEF MemTypes
<1>10. MemIdsCount'
  BY <1>1, <1>2 DEF MemIdsCount, Appended
<1>11. \A u \in Pair : MemSame(u)
  BY <1>7 DEF MemSame
<1>12. \A u, v \in Pair : MemClientInv(u)' /\ MemApart(u, v)'
  BY <1>2, <1>9, <1>11, MemSameKeeps
<1>13. ASSUME NEW u \in Pair PROVE MemWriterInv(u)'
  <2>1. /\ stream'[u].events = stream[u].events /\ known' = {} /\ memTool'[u] = memTool[u]
        /\ stream'[u].closed => u \in known \/ stream[u].closed
    BY <1>2, <1>7
  <2> QED BY <1>1, <1>2, <2>1 DEF MemWriterInv
<1> QED BY <1>2, <1>7, <1>9, <1>10, <1>12, <1>13 DEF MemInv, MemStreamInv

LEMMA MemForms ==
  ASSUME MemInv, Mem!Next
  PROVE  \/ \E s \in Pair : MemCreates(s)
         \/ \E s \in Pair, next \in Mem!ToolSteps, n \in 1 .. PairFinal + 1 :
              \/ MemAppends(s, next, n) \/ MemFails(s, next, n)
              \/ MemCloses(s) /\ next = "done" /\ n = memTool[s].n
         \/ \E s \in Pair, r \in MemSub : MemPumpFrame(s, r) /\ MemPumpForm(s, r)
         \/ MemDeletes \/ MemMarks
<1>1. MemTypes /\ \A u \in Pair : MemStreamInv(u)
  BY DEF MemInv
<1>2. CASE Mem!DeleteSession
  BY <1>1, <1>2, MemDeletionForm
<1>3. ASSUME NEW s \in Pair, Mem!ToolStep(s)
      PROVE  \/ MemCreates(s)
             \/ \E next \in Mem!ToolSteps, n \in 1 .. PairFinal + 1 :
                  \/ MemAppends(s, next, n) \/ MemFails(s, next, n)
                  \/ MemCloses(s) /\ next = "done" /\ n = memTool[s].n
  <2>1. CASE MemCloses(s)
    <3>1. "done" \in Mem!ToolSteps /\ memTool[s].n \in 1 .. PairFinal + 1
      BY <1>1, MemFacts DEF Mem!ToolSteps
    <3> QED BY <2>1, <3>1
  <2>2. CASE ~MemCloses(s)
    <3>1. \/ MemCreates(s)
          \/ \E next \in Mem!ToolSteps, n \in 1 .. PairFinal + 1 :
               MemAppends(s, next, n) \/ MemFails(s, next, n)
      BY <1>1, <1>3, <2>2, MemWriterForms
    <3> QED BY <3>1
  <2> QED BY <2>1, <2>2
<1>4. ASSUME NEW s \in Pair, Mem!PumpStep(s)
      PROVE  \E r \in MemSub : MemPumpFrame(s, r) /\ MemPumpForm(s, r)
  <2>0. MemClientInv(s)
    BY <1>1 DEF MemStreamInv
  <2>1. CASE Mem!First(s)
    BY <1>1, <2>0, <2>1, MemFirstForm
  <2>2. CASE Mem!StreamForEvent(s)
    BY <1>1, <2>2, MemLookUpForm
  <2>3. CASE Mem!Resume(s)
    <3>1. memGot[s] # <<>>
      BY <2>0, <2>3 DEF Mem!Resume, MemClientInv, MemOwnInv, MemOtherInv
    <3> QED BY <1>1, <2>3, <3>1, MemResumeForm
  <2>4. CASE Mem!TakeNext(s)
    BY <1>1, <2>4, MemTakeForm
  <2>5. CASE Mem!Send(s)
    BY <1>1, <2>5, MemSendForm
  <2> QED BY <1>4, <2>1, <2>2, <2>3, <2>4, <2>5 DEF Mem!PumpStep
<1>5. \/ \E s \in Pair : Mem!ToolStep(s)
      \/ \E s \in Pair : Mem!PumpStep(s)
      \/ \E s \in Pair : Mem!Disconnect(s) \/ Mem!BroadcastOnDone(s)
      \/ Mem!DeleteSession
  BY DEF Mem!Next
<1>6. CASE \E s \in Pair : Mem!ToolStep(s)
  <2>1. PICK s \in Pair : Mem!ToolStep(s)
    BY <1>6
  <2>2. CASE MemCreates(s)
    BY <2>2
  <2>3. CASE \E next \in Mem!ToolSteps, n \in 1 .. PairFinal + 1 :
               \/ MemAppends(s, next, n) \/ MemFails(s, next, n)
               \/ MemCloses(s) /\ next = "done" /\ n = memTool[s].n
    BY <2>3
  <2> QED BY <1>3, <2>1, <2>2, <2>3
<1>7. CASE \E s \in Pair : Mem!PumpStep(s)
  BY <1>4, <1>7
<1>8. CASE \E s \in Pair : Mem!Disconnect(s) \/ Mem!BroadcastOnDone(s)
  BY <1>1, <1>8, MemMarkForm
<1> QED BY <1>2, <1>5, <1>6, <1>7, <1>8

LEMMA MemInvStep ==
  ASSUME MemInv, Mem!Next \/ UNCHANGED memVars
  PROVE  MemInv'
<1>1. CASE UNCHANGED memVars
  <2>1. /\ MemIdsCount' /\ \A u \in Pair : MemWriterInv(u)'
        /\ \A u, v \in Pair : MemApart(u, v)'
    BY <1>1, MemRestKeeps DEF memVars
  <2>2. \A u \in Pair : MemClientInv(u)'
    BY <1>1, MemClientSame DEF memVars, MemInv, MemStreamInv
  <2>3. MemTypes'
    BY <1>1 DEF memVars, MemInv, MemTypes
  <2> QED BY <2>1, <2>2, <2>3 DEF MemInv, MemStreamInv
<1>2. ASSUME NEW s \in Pair, MemCreates(s) PROVE MemInv'
  BY <1>2, MemCreateKeeps
<1>3. ASSUME NEW s \in Pair, NEW next \in Mem!ToolSteps, NEW n \in 1 .. PairFinal + 1,
             MemAppends(s, next, n)
      PROVE  MemInv'
  BY <1>3, MemAppendKeeps
<1>4. ASSUME NEW s \in Pair, NEW next \in Mem!ToolSteps, NEW n \in 1 .. PairFinal + 1,
             \/ MemFails(s, next, n)
             \/ MemCloses(s) /\ next = "done" /\ n = memTool[s].n
      PROVE  MemInv'
  BY <1>4, MemQuietStep
<1>5. ASSUME NEW s \in Pair, NEW r \in MemSub, MemPumpFrame(s, r), MemPumpForm(s, r)
      PROVE  MemInv'
  BY <1>5, MemPumpKeeps
<1>6. CASE MemDeletes
  BY <1>6, MemDeletionStep
<1>7. CASE MemMarks
  BY <1>7, MemMarksKeeps
<1>8. CASE Mem!Next
  BY <1>2, <1>3, <1>4, <1>5, <1>6, <1>7, <1>8, MemForms
<1> QED BY <1>1, <1>8

-----------------------------------------------------------------------------
(* Each stream in memory implements StreamLog.                              *)

\* The state of the log of a stream: it is removed for a client that follows another.
MemState(u) ==
    CASE memSub[u].of # u -> "removed"
      [] memSub[u].of = u /\ stream[u].closed -> "closed"
      [] OTHER -> "open"

LEMMA MemLogSame ==
  ASSUME NEW u, stream'[u].events = stream[u].events, MemState(u)' = MemState(u),
         memGot'[u] = memGot[u],
         (memSub'[u].step = "closed") = (memSub[u].step = "closed")
  PROVE  UNCHANGED MemLog(u)!vars
BY DEF MemLog!vars, MemState

LEMMA MemLogInit == Mem!Init => \A s \in Pair : MemLog(s)!Init
<1> SUFFICES ASSUME Mem!Init, NEW s \in Pair PROVE MemLog(s)!Init
  OBVIOUS
<1>1. /\ stream[s].events = <<>> /\ stream[s].closed = FALSE
      /\ memSub[s].of = s /\ memSub[s].step = "new" /\ memGot[s] = <<>>
  BY DEF Mem!Init
<1>2. MemState(s) = "open"
  BY <1>1 DEF MemState
<1> QED BY <1>1, <1>2 DEF MemLog!Init, MemState

LEMMA MemWokenLog ==
  ASSUME MemWoken, NEW u \in Pair, UNCHANGED memGot, stream'[u] = stream[u]
  PROVE  UNCHANGED MemLog(u)!vars
<1>1. /\ (memSub'[u].step = "closed") = (memSub[u].step = "closed")
      /\ memSub'[u].of = memSub[u].of
  BY DEF MemWoken
<1>2. MemState(u)' = MemState(u)
  BY <1>1 DEF MemState
<1> QED BY <1>1, <1>2, MemLogSame

LEMMA MemWokenClosed ==
  ASSUME MemTypes, MemTypes', MemWoken, NEW u \in Pair, UNCHANGED memGot,
         memSub[u].of = u,
         stream'[u].events = stream[u].events, ~stream[u].closed, stream'[u].closed
  PROVE  MemLog(u)!Next
<1>1. /\ (memSub'[u].step = "closed") = (memSub[u].step = "closed")
      /\ memSub'[u].of = u
  BY DEF MemWoken
<1>2. MemState(u) = "open" /\ MemState(u)' = "closed"
  BY <1>1 DEF MemState
<1>3. MemLog(u)!Close
  BY <1>1, <1>2 DEF MemLog!Close, MemState
<1> QED BY <1>3 DEF MemLog!Next

\* Nothing is appended to a stream that was removed.
LEMMA MemRemovedLog ==
  ASSUME NEW u \in Pair, memSub[u].of # u, memSub'[u].of # u,
         stream'[u].events = stream[u].events
  PROVE  MemLog(u)!Next
<1>1. MemState(u) = "removed" /\ MemState(u)' = "removed"
  BY DEF MemState
<1>2. MemLog(u)!AfterRemoval
  BY <1>1 DEF MemLog!AfterRemoval, MemState
<1> QED BY <1>2 DEF MemLog!Next

LEMMA MemAppendLog ==
  ASSUME MemInv, NEW s \in Pair, NEW next \in Mem!ToolSteps, NEW n \in 1 .. PairFinal + 1,
         MemAppends(s, next, n)
  PROVE  MemLog(s)!Next
<1>1. MemTypes /\ MemClientInv(s)
  BY DEF MemInv, MemStreamInv
<1>2. /\ ~stream[s].closed /\ stream'[s].closed = stream[s].closed
      /\ stream'[s].events = Append(stream[s].events, MemEvent(s))
  BY MemAppendFacts
<1>3. MemWoken /\ UNCHANGED memGot /\ s \in known
  BY DEF MemAppends
<1>4. memSub[s].of = s
  BY <1>1, <1>3 DEF MemClientInv, MemOtherInv
<1>5. /\ (memSub'[s].step = "closed") = (memSub[s].step = "closed")
      /\ memSub'[s].of = s
  BY <1>3, <1>4 DEF MemWoken
<1>6. MemEvent(s) \in Mem!Event
  <2>1. memNextSeq + 1 <= Cardinality(Pair) * (PairFinal + 1)
    BY MemAppendKeeps
  <2>2. Mem!Cardinality(Pair) = Cardinality(Pair)
    BY DEF Mem!Cardinality, Cardinality
  <2>3. memNextSeq \in Nat /\ memTool[s].n \in 1 .. PairFinal + 1
    BY <1>1, MemFacts DEF MemTypes
  <2>4. Cardinality(Pair) \in Nat /\ PairFinal \in Nat
    BY PairAssumption, FS_CardinalityType
  <2>5. Cardinality(Pair) * (PairFinal + 1) \in Nat
    BY <2>4
  <2> DEFINE x == Cardinality(Pair) * (PairFinal + 1)
  <2>6. Mem!Event = [seq : 1 .. x, stream : Pair, n : 1 .. PairFinal + 1]
    BY <2>2 DEF Mem!Event
  <2>7. x \in Nat /\ memNextSeq + 1 <= x
    BY <2>1, <2>5
  <2> HIDE DEF x
  <2>8. memNextSeq + 1 \in 1 .. x
    BY <2>3, <2>7
  <2> QED BY <2>3, <2>6, <2>8 DEF MemEvent
<1>7. MemState(s) = "open" /\ MemState(s)' = "open"
  <2>1. ~stream'[s].closed
    BY <1>2
  <2> QED BY <1>2, <1>4, <1>5, <2>1 DEF MemState
<1>8. MemLog(s)!AppendEvent(MemEvent(s))
  BY <1>2, <1>3, <1>5, <1>7 DEF MemLog!AppendEvent, MemState
<1> QED BY <1>6, <1>8 DEF MemLog!Next

LEMMA MemPumpLog ==
  ASSUME MemInv, NEW s \in Pair, NEW r \in MemSub, MemPumpFrame(s, r), MemPumpForm(s, r)
  PROVE  MemLog(s)!Next \/ UNCHANGED MemLog(s)!vars
<1>1. MemTypes /\ MemClientInv(s)
  BY DEF MemInv, MemStreamInv
<1>2. UNCHANGED <<stream, known>> /\ memSub'[s] = r /\ stream[s].closed \in BOOLEAN
  BY <1>1, MemPumpFacts, MemFacts
<1>3. CASE memSub[s].of # s
  <2>1. MemOtherInv(s, memSub[s].of)
    BY <1>1, <1>3 DEF MemClientInv
  <2>2. r.of # s
    <3>1. CASE r.of = memSub[s].of
      BY <1>3, <3>1
    <3>2. CASE \E t \in Pair : MemLooksUp(s, r, t)
      <4>1. r.of \in known
        BY <1>1, <3>2, MemHoldsIs DEF MemLooksUp
      <4> QED BY <2>1, <4>1 DEF MemOtherInv
    <3>3. r.of = memSub[s].of \/ \E t \in Pair : MemLooksUp(s, r, t)
      BY <2>1 DEF MemPumpForm, MemSends, MemStarts, MemEnds, MemTakesOne, MemDrained,
                  MemRests, MemOtherInv
    <3> QED BY <3>1, <3>2, <3>3
  <2> QED BY <1>2, <1>3, <2>2, MemRemovedLog
<1>4. CASE memSub[s].of = s /\ r.of # s
  <2>1. PICK t \in Pair : MemLooksUp(s, r, t)
    BY <1>4 DEF MemPumpForm, MemSends, MemStarts, MemEnds, MemTakesOne, MemDrained,
                MemRests
  <2>2. /\ UNCHANGED memGot
        /\ (r.step = "closed") = (memSub[s].step = "closed")
    BY <2>1 DEF MemLooksUp
  <2>3. MemState(s)' = "removed"
    BY <1>2, <1>4 DEF MemState
  <2>4. MemLog(s)!Remove
    BY <1>2, <2>2, <2>3 DEF MemLog!Remove, MemState
  <2> QED BY <2>4 DEF MemLog!Next
<1>5. CASE memSub[s].of = s /\ r.of = s
  <2>1. MemOwnInv(s) /\ MemState(s)' = MemState(s)
    BY <1>1, <1>2, <1>5 DEF MemClientInv, MemState
  <2>2. CASE MemSends(s, r)
    <3> DEFINE e == stream[s].events[memSub[s].index]
    <3>1. /\ memSub[s].index = Len(memGot[s]) + 1
          /\ memSub[s].index <= Len(stream[s].events)
      BY <2>1, <2>2 DEF MemSends, MemOwnInv
    <3>2. memGot'[s] = Append(memGot[s], e)
      BY <1>1, <1>5, <2>2 DEF MemSends, MemTypes
    <3>3. Len(memGot[s]) < Len(stream[s].events)
      BY <1>1, <3>1, MemFacts
    <3>4. (memSub'[s].step = "closed") = (memSub[s].step = "closed")
      BY <1>2, <2>2 DEF MemSends
    <3>5. MemLog(s)!Receive
      BY <1>2, <2>1, <3>1, <3>2, <3>3, <3>4 DEF MemLog!Receive, MemState
    <3> QED BY <3>5 DEF MemLog!Next
  <2>3. CASE MemDrained(s, r)
    <3>1. /\ memSub[s].step = "next" /\ ~(memSub[s].index < Len(stream[s].events))
          /\ stream[s].closed /\ r.step = "closed" /\ UNCHANGED memGot
      BY <1>5, <2>3 DEF MemDrained
    <3>2. memGot[s] = stream[s].events
      <4>1. /\ memGot[s] \in Seq(MemRecord) /\ stream[s].events \in Seq(MemRecord)
            /\ Len(memGot[s]) \in Nat /\ Len(stream[s].events) \in Nat
        BY <1>1, MemFacts
      <4>2. /\ Len(memGot[s]) = Len(stream[s].events)
            /\ \A i \in 1 .. Len(memGot[s]) : memGot[s][i] = stream[s].events[i]
        BY <2>1, <3>1, <4>1 DEF MemOwnInv
      <4> QED BY <4>1, <4>2
    <3>3. MemState(s) = "closed"
      BY <1>2, <1>5, <3>1 DEF MemState
    <3>4. MemLog(s)!End
      BY <1>2, <2>1, <3>1, <3>2, <3>3 DEF MemLog!End, MemState
    <3> QED BY <3>4 DEF MemLog!Next
  <2>4. CASE ~MemSends(s, r) /\ ~MemDrained(s, r)
    <3>1. /\ UNCHANGED memGot
          /\ (r.step = "closed") = (memSub[s].step = "closed")
      BY <2>4 DEF MemPumpForm, MemLooksUp, MemStarts, MemEnds, MemTakesOne, MemRests
    <3> QED BY <1>2, <2>1, <3>1, MemLogSame
  <2> QED BY <2>2, <2>3, <2>4
<1> QED BY <1>3, <1>4, <1>5

LEMMA MemLogStep ==
  ASSUME MemInv, Mem!Next \/ UNCHANGED memVars, NEW u \in Pair
  PROVE  MemLog(u)!Next \/ UNCHANGED MemLog(u)!vars
<1>1. MemTypes /\ MemClientInv(u)
  BY DEF MemInv, MemStreamInv
<1>2. CASE UNCHANGED memVars
  BY <1>2 DEF memVars, MemLog!vars
<1>3. ASSUME NEW s \in Pair, MemCreates(s) PROVE UNCHANGED MemLog(u)!vars
  BY <1>3 DEF MemCreates, MemLog!vars
<1>4. ASSUME NEW s \in Pair, NEW next \in Mem!ToolSteps, NEW n \in 1 .. PairFinal + 1,
             MemAppends(s, next, n)
      PROVE  MemLog(u)!Next \/ UNCHANGED MemLog(u)!vars
  <2>1. MemWoken /\ UNCHANGED memGot
    BY <1>4 DEF MemAppends
  <2>2. \A v \in Pair : v # s => stream'[v] = stream[v]
    BY <1>4, MemAppendFacts
  <2>3. CASE u # s
    BY <2>1, <2>2, <2>3, MemWokenLog
  <2>4. CASE u = s
    BY <1>4, <2>4, MemAppendLog
  <2> QED BY <2>3, <2>4
<1>5. ASSUME NEW s \in Pair, NEW next \in Mem!ToolSteps, NEW n \in 1 .. PairFinal + 1,
             \/ MemFails(s, next, n)
             \/ MemCloses(s) /\ next = "done" /\ n = memTool[s].n
      PROVE  MemLog(u)!Next \/ UNCHANGED MemLog(u)!vars
  <2>1. /\ UNCHANGED memGot /\ MemWoken /\ MemInv'
        /\ \A v \in Pair : v # s => stream'[v] = stream[v]
        /\ \/ stream'[s] = stream[s]
           \/ /\ stream'[s].events = stream[s].events
              /\ ~stream[s].closed /\ stream'[s].closed
    BY <1>5, MemQuietStep
  <2>2. CASE stream'[u] = stream[u]
    BY <2>1, <2>2, MemWokenLog
  <2>3. CASE stream'[u] # stream[u]
    <3>1. u = s /\ u \in known
      BY <1>5, <2>1, <2>3 DEF MemFails, MemCloses
    <3>2. memSub[u].of = u
      BY <1>1, <3>1 DEF MemClientInv, MemOtherInv
    <3>3. MemTypes'
      BY <2>1 DEF MemInv
    <3> QED BY <1>1, <2>1, <2>3, <3>1, <3>2, <3>3, MemWokenClosed
  <2> QED BY <2>2, <2>3
<1>6. CASE MemDeletes
  <2>1. /\ UNCHANGED memGot /\ MemWoken /\ stream'[u].events = stream[u].events
        /\ stream'[u].closed = (u \in known \/ stream[u].closed) /\ MemInv'
    BY <1>6, MemDeletionStep
  <2>2. stream[u].closed \in BOOLEAN /\ memSub[u].of = u /\ memSub'[u].of = u
    BY <1>1, <1>6, <2>1, MemFacts DEF MemClientInv, MemOtherInv, MemDeletes, MemWoken
  <2>3. CASE ~stream[u].closed /\ stream'[u].closed
    <3>1. MemTypes'
      BY <2>1 DEF MemInv
    <3> QED BY <1>1, <2>1, <2>2, <2>3, <3>1, MemWokenClosed
  <2>4. CASE stream'[u].closed = stream[u].closed
    <3>1. (memSub'[u].step = "closed") = (memSub[u].step = "closed")
      BY <2>1 DEF MemWoken
    <3>2. MemState(u)' = MemState(u)
      BY <2>2, <2>4 DEF MemState
    <3> QED BY <2>1, <3>1, <3>2, MemLogSame
  <2> QED BY <2>1, <2>2, <2>3, <2>4
<1>7. ASSUME NEW s \in Pair, NEW r \in MemSub, MemPumpFrame(s, r), MemPumpForm(s, r)
      PROVE  MemLog(u)!Next \/ UNCHANGED MemLog(u)!vars
  <2>1. CASE u = s
    BY <1>7, <2>1, MemPumpLog
  <2>2. CASE u # s
    <3>1. /\ UNCHANGED stream /\ memSub'[u] = memSub[u] /\ memGot'[u] = memGot[u]
      <4>1. MemClientInv(s)
        BY DEF MemInv, MemStreamInv
      <4> QED BY <1>1, <1>7, <2>2, <4>1, MemPumpFacts
    <3> QED BY <3>1 DEF MemLog!vars
  <2> QED BY <2>1, <2>2
<1>8. CASE MemMarks
  BY <1>8, MemWokenLog DEF MemMarks
<1>9. CASE Mem!Next
  BY <1>3, <1>4, <1>5, <1>6, <1>7, <1>8, <1>9, MemForms
<1> QED BY <1>2, <1>9

LEMMA MemInvOfStreams == StreamsSpec => [](kind = "MEMORY" => MemInv)
<1>1. StreamsInit => (kind = "MEMORY" => MemInv)
  BY MemInvInit DEF StreamsInit
<1>2. /\ kind = "MEMORY" => MemInv
      /\ [StreamsNext]_<<kind, vars, memVars, busVars, sseVars>>
      => (kind = "MEMORY" => MemInv)'
  <2> SUFFICES ASSUME kind = "MEMORY" => MemInv,
                      [StreamsNext]_<<kind, vars, memVars, busVars, sseVars>>,
                      kind' = "MEMORY"
               PROVE  MemInv'
    OBVIOUS
  <2>1. kind = "MEMORY" /\ (Mem!Next \/ UNCHANGED memVars)
    BY DEF StreamsNext
  <2> QED BY <2>1, MemInvStep
<1> QED BY <1>1, <1>2, PTL DEF StreamsSpec

\* The only stream of a session in DynamoDB, and each of the streams of a session in
\* memory however many there are, are logs as StreamLog describes them: what is
\* appended is received in its order and without a gap, and a stream ends for its
\* client only when it is closed and all of it was received.
THEOREM StreamsAreLogs ==
  ASSUME OneStream PROVE StreamsSpec => StreamsImplementStreamLog
<1> DEFINE all == <<kind, vars, memVars, busVars, sseVars>>
           OneLogs == \A s \in Streams : Stream(s)!Next \/ UNCHANGED Stream(s)!vars
           MemLogs == \A s \in Pair : MemLog(s)!Next \/ UNCHANGED MemLog(s)!vars
<1>1. StreamsInit => /\ kind = "ONE" => \A s \in Streams : Stream(s)!Init
                     /\ kind = "MEMORY" => \A s \in Pair : MemLog(s)!Init
  BY StreamLogInit, MemLogInit DEF StreamsInit
<1>2. (kind = "ONE" => OneInv) /\ [StreamsNext]_all => [kind = "ONE" => OneLogs]_vars
  <2> SUFFICES ASSUME kind = "ONE" => OneInv, [StreamsNext]_all, kind = "ONE"
               PROVE  OneLogs
    OBVIOUS
  <2>1. [Next]_vars
    BY DEF StreamsNext
  <2> QED BY <2>1, StreamLogStep
<1>3. (kind = "MEMORY" => MemInv) /\ [StreamsNext]_all
        => [kind = "MEMORY" => MemLogs]_memVars
  <2> SUFFICES ASSUME kind = "MEMORY" => MemInv, [StreamsNext]_all, kind = "MEMORY"
               PROVE  MemLogs
    OBVIOUS
  <2>1. Mem!Next \/ UNCHANGED memVars
    BY DEF StreamsNext
  <2> QED BY <2>1, MemLogStep
<1> QED BY <1>1, <1>2, <1>3, OneInvOfStreams, MemInvOfStreams, PTL
        DEF StreamsSpec, StreamsImplementStreamLog
\* So what a client of the memory store receives is in order, and of another stream only
\* once its own was deleted.
LEMMA MemInOrder == MemInv => Mem!ReceivedInOrder
<1> SUFFICES ASSUME MemInv, NEW s \in Pair
             PROVE  /\ \A i, j \in DOMAIN memGot[s] :
                         i < j => memGot[s][i].seq < memGot[s][j].seq
                    /\ \A i \in DOMAIN memGot[s] :
                         memGot[s][i] \in Mem!ToSet(stream[s].events)
                                            \cup Mem!ToSet(stream[memSub[s].of].events)
                    /\ \A i, j \in DOMAIN memGot[s] :
                         i < j /\ memGot[s][j] \in Mem!ToSet(stream[s].events)
                           => memGot[s][i] \in Mem!ToSet(stream[s].events)
                    /\ memSub[s].of # s =>
                         deleted /\ s \notin known /\ memSub[s].of \in known
  BY DEF Mem!ReceivedInOrder
<1>1. MemTypes /\ MemWriterInv(s) /\ MemClientInv(s)
  BY DEF MemInv, MemStreamInv
<1>2. /\ memSub[s].of \in Pair /\ \A t \in Pair : DOMAIN stream[t].events = 1 .. Len(stream[t].events)
      /\ DOMAIN memGot[s] = 1 .. Len(memGot[s])
      /\ Len(memGot[s]) \in Nat /\ Len(stream[s].events) \in Nat
  BY <1>1, MemFacts
<1>3. \A t \in Pair : \A i \in 1 .. Len(stream[t].events) :
        stream[t].events[i] \in Mem!ToSet(stream[t].events)
  BY <1>2 DEF Mem!ToSet
<1>4. \A x \in Mem!ToSet(stream[s].events) : x.stream = s
  BY <1>1, <1>2 DEF Mem!ToSet, MemWriterInv
<1>5. CASE memSub[s].of = s
  <2>1. \A i \in 1 .. Len(memGot[s]) : /\ i \in 1 .. Len(stream[s].events)
                                       /\ memGot[s][i] = stream[s].events[i]
    BY <1>1, <1>2, <1>5 DEF MemClientInv, MemOwnInv
  <2>2. \A i, j \in 1 .. Len(memGot[s]) : i < j => memGot[s][i].seq < memGot[s][j].seq
    BY <1>1, <2>1 DEF MemWriterInv
  <2>3. \A i \in 1 .. Len(memGot[s]) : memGot[s][i] \in Mem!ToSet(stream[s].events)
    BY <1>3, <2>1
  <2> QED BY <1>2, <1>5, <2>2, <2>3
<1>6. CASE memSub[s].of # s
  <2>1. PICK t \in Pair : t = memSub[s].of
    BY <1>2
  <2>2. MemOtherInv(s, t) /\ MemWriterInv(t)
    BY <1>1, <1>6, <2>1 DEF MemClientInv, MemInv, MemStreamInv
  <2>3. \A i \in 1 .. Len(memGot[s]) :
          memGot[s][i] \in Mem!ToSet(stream[s].events) \cup Mem!ToSet(stream[t].events)
    BY <1>3, <2>2 DEF MemOtherInv
  <2>4. \A x \in Mem!ToSet(stream[t].events) : x.stream = t
    BY <1>2, <2>2 DEF Mem!ToSet, MemWriterInv
  <2>5. ASSUME NEW i \in 1 .. Len(memGot[s]), NEW j \in 1 .. Len(memGot[s]), i < j,
               memGot[s][j] \in Mem!ToSet(stream[s].events)
        PROVE  memGot[s][i] \in Mem!ToSet(stream[s].events)
    <3>1. memGot[s][i].stream = s
      BY <1>4, <2>2, <2>5 DEF MemOtherInv
    <3> QED BY <1>6, <2>1, <2>3, <2>4, <3>1
  <2>6. /\ \A i, j \in 1 .. Len(memGot[s]) : i < j => memGot[s][i].seq < memGot[s][j].seq
        /\ deleted /\ s \notin known /\ t \in known
    BY <2>2 DEF MemOtherInv
  <2> QED BY <1>2, <2>1, <2>3, <2>5, <2>6
<1> QED BY <1>5, <1>6

-----------------------------------------------------------------------------
(* The response that carries a stream to its client.                         *)

SseTypes ==
    /\ via \in {"subscription", "channel", "listener"}
    /\ total \in Nat /\ endless \in BOOLEAN /\ bad \in Nat /\ sent \in 0 .. total
    /\ forward \in [step : {"receive", "offer", "done"}, event : Nat]
    /\ writer \in [step : {"receive", "write", "failed", "close", "done"}, event : Nat]
    /\ done \in BOOLEAN /\ left \in BOOLEAN
    /\ pipe \in {"open", "end", "error"} /\ saw \in {"data", "end", "error"}
    /\ gotOf \in Seq(Nat)

\* The events between their source and their reader.
Offered == IF forward.step = "offer" THEN 1 ELSE 0
InHand == IF writer.step = "write" THEN 1 ELSE 0
\* The forwarding goroutine may leave with the event that it offers.
Dropped == via = "subscription" /\ forward.step = "done" /\ done

\* While the writer goes on, what the source gave is with the reader or on its way.
OnTheWay ==
    /\ writer.step = "write" => writer.event = Len(gotOf) + 1
    /\ forward.step = "offer" => forward.event = sent
    /\ via # "subscription" => forward.step = "done"
    /\ writer.step \in {"receive", "write"} /\ ~Dropped =>
         sent = Len(gotOf) + InHand + Offered

AllRead == done \/ (~endless /\ Len(gotOf) = total)
AtBad == Len(gotOf) + 1 = bad

\* The goroutines leave for a reason, and the pipe is closed as they left.
ClosedForReason ==
    /\ forward.step = "done" => forward.event = 0
    /\ via = "subscription" /\ forward.step = "done" /\ ~done => ~endless /\ sent = total
    /\ writer.step = "failed" => left \/ AtBad
    /\ writer.step = "close" /\ pipe = "open" => left \/ AllRead
    /\ pipe = "end" => left \/ AllRead
    /\ pipe = "error" => left \/ AtBad
    /\ pipe # "open" => writer.step \in {"close", "done"}

SseInv ==
    /\ SseTypes /\ OnTheWay /\ ClosedForReason
    /\ \A i \in 1 .. Len(gotOf) : gotOf[i] = i
    /\ saw = "end" => AllRead
    /\ saw = "error" => AtBad
    /\ saw # "data" => pipe # "open"

LEMMA SseInvInit == Sse!Init => SseInv
<1> SUFFICES ASSUME Sse!Init PROVE SseInv
  OBVIOUS
<1>1. /\ forward.step \in {"receive", "done"} /\ forward.event = 0
      /\ forward \in [step : {"receive", "offer", "done"}, event : Nat]
      /\ forward.step = "done" <=> via # "subscription"
      /\ writer \in [step : {"receive", "write", "failed", "close", "done"}, event : Nat]
      /\ writer.step = "receive"
  BY DEF Sse!Init, Sse!At, Sse!Done
<1>2. gotOf = <<>> /\ Len(gotOf) = 0 /\ sent = 0 /\ pipe = "open" /\ saw = "data"
  BY DEF Sse!Init
<1>3. SseTypes
  <2>1. /\ total \in 0 .. MaxEvents /\ bad \in 0 .. total
        /\ via \in {"subscription", "channel", "listener"}
        /\ endless \in BOOLEAN /\ done \in BOOLEAN /\ left \in BOOLEAN
    BY DEF Sse!Init
  <2>2. total \in Nat /\ bad \in Nat
    BY <2>1, SseAssumption
  <2>3. 0 \in 0 .. total /\ <<>> \in Seq(Nat)
    BY <2>2
  <2> QED BY <1>1, <1>2, <2>1, <2>2, <2>3 DEF SseTypes
<1>4. OnTheWay
  BY <1>1, <1>2 DEF OnTheWay, Offered, InHand
<1>5. ClosedForReason
  BY <1>1, <1>2 DEF ClosedForReason
<1> QED BY <1>2, <1>3, <1>4, <1>5 DEF SseInv

LEMMA SseInvStep == SseInv /\ [Sse!Next]_sseVars => SseInv'
<1> SUFFICES ASSUME SseInv, [Sse!Next]_sseVars PROVE SseInv'
  OBVIOUS
<1> USE DEF SseInv, SseTypes
<1>1. CASE Sse!ContextEnds
  <2>1. /\ done' = TRUE
        /\ UNCHANGED <<via, total, endless, bad, sent, forward, writer, pipe, left, gotOf, saw>>
    BY <1>1 DEF Sse!ContextEnds, Sse!Source
  <2>2. SseTypes'
    BY <2>1
  <2>3. OnTheWay'
    BY <2>1 DEF OnTheWay, Offered, InHand, Dropped
  <2>4. AllRead' /\ AtBad' = AtBad
    BY <2>1 DEF AllRead, AtBad
  <2>5. ClosedForReason'
    BY <2>1, <2>4 DEF ClosedForReason
  <2> QED BY <2>1, <2>2, <2>3, <2>4, <2>5
<1>2. CASE Sse!ForwardReceive
  BY <1>2 DEF Sse!ForwardReceive, Sse!Source, Sse!At, OnTheWay, ClosedForReason, Offered,
              InHand, Dropped, AllRead, AtBad
<1>3. CASE Sse!ForwardStops
  BY <1>3 DEF Sse!ForwardStops, Sse!Closed, Sse!Source, Sse!At, Sse!Done, OnTheWay,
              ClosedForReason, Offered, InHand, Dropped, AllRead, AtBad
<1>4. CASE Sse!TakeOffer
  BY <1>4 DEF Sse!TakeOffer, Sse!Formatted, Sse!Source, Sse!At, OnTheWay, ClosedForReason,
              Offered, InHand, Dropped, AllRead, AtBad
<1>5. CASE Sse!TakeEvent
  <2>1. /\ writer.step = "receive" /\ via # "subscription" /\ sent < total
        /\ sent' = sent + 1 /\ sent' \in 0 .. total
        /\ UNCHANGED <<via, total, endless, bad, forward, done, pipe, left, gotOf, saw>>
    BY <1>5 DEF Sse!TakeEvent, Sse!Source
  <2>2. /\ forward.step = "done" /\ ~Dropped /\ Offered = 0 /\ InHand = 0
        /\ sent' = Len(gotOf) + 1
    BY <2>1 DEF OnTheWay, Dropped, Offered, InHand
  <2>3. /\ writer' \in [step : {"write", "failed"}, event : Nat]
        /\ writer'.event = sent'
        /\ writer'.step = "failed" => sent' = bad
    BY <1>5, <2>1 DEF Sse!TakeEvent, Sse!Formatted, Sse!At
  <2>4. SseTypes'
    BY <2>1, <2>3
  <2>5. OnTheWay'
    BY <2>1, <2>2, <2>3 DEF OnTheWay, Dropped, Offered, InHand
  <2>6. ClosedForReason'
    BY <2>1, <2>2, <2>3 DEF ClosedForReason, AllRead, AtBad
  <2> QED BY <2>1, <2>2, <2>3, <2>4, <2>5, <2>6 DEF AllRead, AtBad, ClosedForReason
<1>6. CASE Sse!WriterStops
  BY <1>6 DEF Sse!WriterStops, Sse!Closed, Sse!Source, Sse!At, Sse!Done, OnTheWay,
              ClosedForReason, Offered, InHand, Dropped, AllRead, AtBad
<1>7. CASE Sse!Write
  BY <1>7 DEF Sse!Write, Sse!Source, Sse!At, OnTheWay, ClosedForReason, Offered, InHand,
              Dropped, AllRead, AtBad
<1>8. CASE Sse!WriteFails
  BY <1>8 DEF Sse!WriteFails, Sse!Source, Sse!At, OnTheWay, ClosedForReason, Offered, InHand,
              Dropped, AllRead, AtBad
<1>9. CASE Sse!CloseWithError
  BY <1>9 DEF Sse!CloseWithError, Sse!Source, Sse!At, OnTheWay, ClosedForReason, Offered,
              InHand, Dropped, AllRead, AtBad
<1>10. CASE Sse!Close
  BY <1>10 DEF Sse!Close, Sse!Source, Sse!At, Sse!Done, OnTheWay, ClosedForReason, Offered,
               InHand, Dropped, AllRead, AtBad
<1>11. CASE Sse!See
  BY <1>11 DEF Sse!See, Sse!Source, OnTheWay, ClosedForReason, Offered, InHand, Dropped,
               AllRead, AtBad
<1>12. CASE Sse!Leave
  BY <1>12 DEF Sse!Leave, Sse!Source, OnTheWay, ClosedForReason, Offered, InHand, Dropped,
               AllRead, AtBad
<1>13. CASE UNCHANGED sseVars
  <2>1. UNCHANGED <<via, total, endless, bad, sent, forward, writer, done, pipe, left,
                    gotOf, saw>>
    BY <1>13 DEF sseVars
  <2>2. SseTypes'
    BY <2>1
  <2>3. OnTheWay'
    BY <2>1 DEF OnTheWay, Offered, InHand, Dropped
  <2>4. ClosedForReason'
    BY <2>1 DEF ClosedForReason, AllRead, AtBad
  <2> QED BY <2>1, <2>2, <2>3, <2>4 DEF AllRead, AtBad
<1> QED
  BY <1>1, <1>2, <1>3, <1>4, <1>5, <1>6, <1>7, <1>8, <1>9, <1>10, <1>11, <1>12, <1>13
  DEF Sse!Next, Sse!Forward, Sse!Pump

LEMMA SseInvSafe == SseInv => Sse!BodyWhole
<1> SUFFICES ASSUME SseInv PROVE Sse!BodyWhole
  OBVIOUS
<1>1. gotOf = [i \in 1 .. Len(gotOf) |-> i]
  BY DEF SseInv, SseTypes
<1> QED BY <1>1 DEF SseInv, AllRead, AtBad, Sse!BodyWhole

\* The body that a client reads has the events of its source in their order; it ends well
\* only after all of them or with the request, and with an error only at an event that
\* cannot be formatted.
THEOREM BodiesAlwaysWhole == Sse!Spec => []Sse!BodyWhole
<1>1. SseInv /\ [Sse!Next]_Sse!vars => SseInv'
  BY SseInvStep DEF Sse!vars, sseVars
<1> QED BY <1>1, SseInvInit, SseInvSafe, PTL DEF Sse!Spec

LEMMA SseInvOfStreams == StreamsSpec => [](kind = "SSE" => SseInv)
<1>1. StreamsInit => (kind = "SSE" => SseInv)
  BY SseInvInit DEF StreamsInit
<1>2. /\ kind = "SSE" => SseInv
      /\ [StreamsNext]_<<kind, vars, memVars, busVars, sseVars>>
      => (kind = "SSE" => SseInv)'
  <2> SUFFICES ASSUME kind = "SSE" => SseInv,
                      [StreamsNext]_<<kind, vars, memVars, busVars, sseVars>>,
                      kind' = "SSE"
               PROVE  SseInv'
    OBVIOUS
  <2>1. kind = "SSE" /\ [Sse!Next]_sseVars
    BY DEF StreamsNext
  <2> QED BY <2>1, SseInvStep
<1> QED BY <1>1, <1>2, PTL DEF StreamsSpec

-----------------------------------------------------------------------------
(* The event bus.                                                           *)

BusTypes ==
    /\ durable \in BOOLEAN /\ steady \in BOOLEAN /\ clock \in 1 .. MaxClock
    /\ items \subseteq Bus!Item /\ IsFiniteSet(items) /\ lasting \subseteq items
    /\ publishedAt \in [Events -> 0 .. MaxClock]
    /\ publish \in [Events -> [step : {"idle", "create", "handle", "ok", "failed"},
                               failures : Nat, calls : Nat]]
    /\ busDeletion \in Bus!Item \cup {Bus!NoItem}
    /\ query \in [step : {"idle", "page", "done"}, offset : Nat,
                  after : Bus!Item \cup {Bus!NoItem}, got : Seq(Bus!Item)]
    /\ stored \subseteq Events

\* An Event keeps the time of its first Publish, and with it its only item.
Published ==
    /\ \A i \in items : i.at = publishedAt[i.id]
    /\ \A e \in Events : publish[e].step # "idle" \/ e \in stored => publishedAt[e] # 0
    /\ \A e \in Events : publish[e].step \in {"handle", "ok"} => e \in stored

Received == {query.got[m] : m \in 1 .. Len(query.got)}

\* The pages from DynamoDB descend, and what lasts is in them or after the cursor.
DurablePages ==
    durable =>
      /\ \A m, n \in 1 .. Len(query.got) : m < n => Bus!Newer(query.got[m], query.got[n])
      /\ IF query.got = <<>> THEN query.after = Bus!NoItem
                             ELSE query.after = query.got[Len(query.got)]
      /\ \A i \in lasting :
           \/ i \in Received
           \/ query.step = "page" /\ (query.after = Bus!NoItem \/ Bus!Newer(query.after, i))

TimesDiffer(set) == \A i, j \in set : i.at = j.at => i = j

\* The pages from memory are how the only order of the items begins, and at last all of it.
MemoryPages ==
    ~durable /\ steady /\ TimesDiffer(items) =>
      IF query.step = "done"
        THEN /\ items \subseteq Received
             /\ \A m, n \in 1 .. Len(query.got) : query.got[m] = query.got[n] => m = n
        ELSE \A order \in Bus!Sorted(items) :
               query.offset <= Len(order) /\ query.got = SubSeq(order, 1, query.offset)

NotAsked ==
    query.step = "idle" => query.got = <<>> /\ query.offset = 0 /\ query.after = Bus!NoItem

BusInv == BusTypes /\ Published /\ DurablePages /\ MemoryPages /\ NotAsked

\* A sequence of all of a finite set has each of its elements once.
LEMMA WholeSets ==
  ASSUME NEW S, IsFiniteSet(S), NEW o \in Bus!SetToSeqs(S)
  PROVE  /\ o \in Seq(S) /\ DOMAIN o = 1 .. Len(o) /\ Len(o) \in Nat
         /\ \A x \in S : \E j \in 1 .. Len(o) : o[j] = x
         /\ \A i, j \in 1 .. Len(o) : o[i] = o[j] => i = j
<1> DEFINE N == Cardinality(S)
<1>1. N \in Nat
  BY FS_CardinalityType
<1>2. o \in [1 .. N -> S] /\ \A i, j \in 1 .. N : i # j => o[i] # o[j]
  BY DEF Bus!SetToSeqs, Bus!Cardinality, Cardinality
<1>3. o \in Injection(1 .. N, S)
  BY <1>2 DEF Injection, IsInjective
<1>4. IsFiniteSet(1 .. N) /\ Cardinality(1 .. N) = N
  BY <1>1, FS_Interval
<1>5. o \in Surjection(1 .. N, S)
  BY <1>3, <1>4, FS_Injection
<1>6. \A x \in S : \E j \in 1 .. N : o[j] = x
  BY <1>5 DEF Surjection
<1> HIDE DEF N
<1>7. o \in Seq(S) /\ DOMAIN o = 1 .. N /\ Len(o) = N
  BY <1>1, <1>2
<1> QED BY <1>1, <1>2, <1>6, <1>7

\* Items of different times come in one order only: the place of an item is the number of
\* those that are not older.
LEMMA PlaceInOrder ==
  ASSUME NEW S \in SUBSET Bus!Item, IsFiniteSet(S), TimesDiffer(S),
         NEW o \in Bus!Sorted(S), NEW p \in 1 .. Len(o)
  PROVE  p = Cardinality({y \in S : y.at >= o[p].at})
<1> DEFINE U == {y \in S : y.at >= o[p].at}
           f == [j \in 1 .. p |-> o[j]]
<1>1. o \in Bus!SetToSeqs(S)
  BY DEF Bus!Sorted
<1>2. /\ o \in Seq(S) /\ DOMAIN o = 1 .. Len(o) /\ Len(o) \in Nat
      /\ \A x \in S : \E j \in 1 .. Len(o) : o[j] = x
      /\ \A i, j \in 1 .. Len(o) : o[i] = o[j] => i = j
  BY <1>1, WholeSets
<1>3. \A i, j \in 1 .. Len(o) : i < j => o[i].at >= o[j].at
  BY <1>2 DEF Bus!Sorted
<1>4. \A y \in S : y.at \in Int
  BY BusAssumption DEF Bus!Item
<1>5. p \in Nat /\ \A j \in 1 .. p : j \in 1 .. Len(o) /\ o[j] \in S
  BY <1>2
<1>6. ASSUME NEW j \in 1 .. p PROVE o[j] \in U
  <2>1. j = p \/ j < p
    BY <1>5
  <2>2. o[j].at >= o[p].at
    BY <1>3, <1>4, <1>5, <2>1
  <2> QED BY <1>5, <2>2
<1>7. ASSUME NEW y \in U PROVE \E j \in 1 .. p : o[j] = y
  <2>1. PICK q \in 1 .. Len(o) : o[q] = y
    BY <1>2
  <2>2. CASE q <= p
    BY <1>5, <2>1, <2>2
  <2>3. CASE p < q
    <3>1. o[p].at >= y.at /\ y.at >= o[p].at
      BY <1>3, <2>1, <2>3
    <3>2. y \in S /\ o[p] \in S
      BY <1>5
    <3>3. y.at = o[p].at
      BY <1>4, <3>1, <3>2
    <3>4. y = o[p]
      BY <3>2, <3>3 DEF TimesDiffer
    <3> QED BY <1>2, <2>1, <2>3, <3>4
  <2> QED BY <1>2, <1>5, <2>2, <2>3
<1> HIDE DEF U
<1>8. f \in Bijection(1 .. p, U)
  <2>1. f \in [1 .. p -> U]
    BY <1>6
  <2>2. \A i, j \in 1 .. p : f[i] = f[j] => i = j
    BY <1>2, <1>5
  <2>3. \A y \in U : \E j \in 1 .. p : f[j] = y
    BY <1>7
  <2> QED BY <2>1, <2>2, <2>3 DEF Bijection, Injection, Surjection, IsInjective
<1>9. ExistsBijection(1 .. p, U)
  BY <1>8 DEF ExistsBijection
<1> QED BY <1>5, <1>9, FS_CountingElements DEF U

LEMMA OneOrder ==
  ASSUME NEW S \in SUBSET Bus!Item, IsFiniteSet(S), TimesDiffer(S),
         NEW o \in Bus!Sorted(S), NEW w \in Bus!Sorted(S)
  PROVE  o = w
<1>1. o \in Bus!SetToSeqs(S) /\ w \in Bus!SetToSeqs(S)
  BY DEF Bus!Sorted
<1>2. o \in [1 .. Cardinality(S) -> S] /\ w \in [1 .. Cardinality(S) -> S]
  BY <1>1 DEF Bus!SetToSeqs, Bus!Cardinality, Cardinality
<1>3. /\ DOMAIN o = 1 .. Len(o) /\ DOMAIN w = 1 .. Len(w)
      /\ \A x \in S : \E j \in 1 .. Len(w) : w[j] = x
  BY <1>1, WholeSets
<1>4. ASSUME NEW p \in 1 .. Cardinality(S) PROVE o[p] = w[p]
  <2>1. o[p] \in S /\ p \in 1 .. Len(o)
    BY <1>2, <1>3
  <2>2. PICK q \in 1 .. Len(w) : w[q] = o[p]
    BY <1>3, <2>1
  <2> DEFINE NotOlder(t) == Cardinality({y \in S : y.at >= t})
  <2>3. p = NotOlder(o[p].at)
    BY <2>1, PlaceInOrder
  <2>4. q = NotOlder(w[q].at)
    BY PlaceInOrder
  <2> HIDE DEF NotOlder
  <2> QED BY <2>2, <2>3, <2>4
<1>5. o = [p \in 1 .. Cardinality(S) |-> o[p]]
  BY <1>2
<1>6. w = [p \in 1 .. Cardinality(S) |-> w[p]]
  BY <1>2
<1> QED BY <1>4, <1>5, <1>6, Zenon

LEMMA BusInvInit == Bus!Init => BusInv
<1> SUFFICES ASSUME Bus!Init PROVE BusInv
  OBVIOUS
<1>1. /\ items = {} /\ lasting = {} /\ stored = {} /\ clock = 1
      /\ durable \in BOOLEAN /\ steady \in BOOLEAN
      /\ publishedAt = [e \in Events |-> 0]
      /\ publish = [e \in Events |-> [step |-> "idle", failures |-> 0, calls |-> 0]]
      /\ busDeletion = Bus!NoItem
      /\ query = [step |-> "idle", offset |-> 0, after |-> Bus!NoItem, got |-> <<>>]
  BY DEF Bus!Init
<1>2. /\ query.got = <<>> /\ Len(query.got) = 0 /\ query.got \in Seq(Bus!Item)
      /\ query.step = "idle" /\ query.offset = 0 /\ query.after = Bus!NoItem
      /\ query \in [step : {"idle", "page", "done"}, offset : Nat,
                    after : Bus!Item \cup {Bus!NoItem}, got : Seq(Bus!Item)]
  BY <1>1
<1>3. IsFiniteSet(items) /\ clock \in 1 .. MaxClock /\ 0 \in 0 .. MaxClock
  BY <1>1, FS_EmptySet, BusAssumption
<1>4. BusTypes
  BY <1>1, <1>2, <1>3 DEF BusTypes
<1>5. Published
  BY <1>1 DEF Published
<1>6. DurablePages
  BY <1>1, <1>2 DEF DurablePages
<1>7. MemoryPages
  <2>1. ASSUME NEW order \in Bus!Sorted(items)
        PROVE  0 <= Len(order) /\ <<>> = SubSeq(order, 1, 0)
    <3>1. order \in Seq(items) /\ Len(order) \in Nat
      BY <1>3, WholeSets DEF Bus!Sorted
    <3> QED BY <3>1
  <2> QED BY <1>2, <2>1 DEF MemoryPages
<1> QED BY <1>2, <1>4, <1>5, <1>6, <1>7 DEF BusInv, NotAsked

\* What items come and go leaves the pages right.
LEMMA ChangesKeep ==
  ASSUME BusInv, NEW set \in SUBSET Bus!Item, IsFiniteSet(set), Bus!Changes(set),
         UNCHANGED <<durable, query>>
  PROVE  /\ items' = set /\ lasting' \subseteq items' /\ steady' \in BOOLEAN
         /\ DurablePages' /\ MemoryPages' /\ NotAsked'
<1>1. /\ items' = set /\ lasting' = lasting \cap set /\ steady' = (steady /\ set = items)
  BY DEF Bus!Changes
<1>2. DurablePages'
  BY <1>1 DEF BusInv, DurablePages, Received
<1>3. MemoryPages'
  <2>1. CASE steady'
    <3>1. steady /\ UNCHANGED <<items, durable, query>>
      BY <1>1, <2>1
    <3> QED BY <3>1 DEF BusInv, MemoryPages, Received
  <2>2. CASE ~steady'
    BY <2>2 DEF MemoryPages
  <2> QED BY <2>1, <2>2
<1>4. NotAsked'
  BY DEF BusInv, NotAsked
<1> QED BY <1>1, <1>2, <1>3, <1>4

\* So does what leaves the items as they are.
LEMMA SameItemsKeep ==
  ASSUME BusInv, UNCHANGED <<durable, items, lasting, steady, query>>
  PROVE  DurablePages' /\ MemoryPages' /\ NotAsked'
<1>1. DurablePages'
  BY DEF BusInv, DurablePages, Received
<1>2. MemoryPages'
  BY DEF BusInv, MemoryPages, Received
<1>3. NotAsked'
  BY DEF BusInv, NotAsked
<1> QED BY <1>1, <1>2, <1>3

LEMMA TheItemIs ==
  ASSUME BusInv, NEW e \in Events, publishedAt[e] # 0
  PROVE  /\ Bus!TheItem(e) \in Bus!Item
         /\ Bus!TheItem(e).at = publishedAt[e] /\ Bus!TheItem(e).id = e
<1>1. publishedAt[e] \in 1 .. MaxClock
  BY BusAssumption DEF BusInv, BusTypes
<1> QED BY <1>1 DEF Bus!TheItem, Bus!Item

LEMMA PublishKeeps ==
  ASSUME BusInv, NEW e \in Events, Bus!Publish(e)
  PROVE  BusInv'
<1>1. /\ UNCHANGED <<durable, clock, items, busDeletion, query, stored, lasting, steady>>
      /\ publishedAt' = [publishedAt EXCEPT ![e] = IF @ = 0 THEN clock ELSE @]
      /\ publish' = [publish EXCEPT ![e] = [step |-> "create", failures |-> 0,
                                            calls |-> @.calls + 1]]
  BY DEF Bus!Publish
<1>2. BusTypes
  BY DEF BusInv
<1>3. BusTypes'
  BY <1>1, <1>2 DEF BusTypes
<1>4. \A d \in Events : publishedAt[d] # 0 => publishedAt'[d] = publishedAt[d]
  BY <1>1, <1>2 DEF BusTypes
<1>5. publishedAt'[e] # 0
  BY <1>1, <1>2, BusAssumption DEF BusTypes
<1>6. \A i \in items : i.id \in Events /\ i.at # 0 /\ i.at = publishedAt[i.id]
  BY <1>2, BusAssumption DEF BusInv, Published, BusTypes, Bus!Item
<1>7. \A d \in Events : d # e => publish'[d] = publish[d]
  BY <1>1, <1>2 DEF BusTypes
<1>8. publish'[e].step = "create"
  BY <1>1, <1>2 DEF BusTypes
<1>9. Published'
  BY <1>1, <1>4, <1>5, <1>6, <1>7, <1>8 DEF BusInv, Published
<1> QED BY <1>1, <1>3, <1>9, SameItemsKeep DEF BusInv

\* An item is created, or is not, while Publish goes on.
LEMMA CreateKeeps ==
  ASSUME BusInv, NEW e \in Events, publish[e].step = "create", NEW applied \in BOOLEAN,
         Bus!Changes(IF applied THEN items \cup {Bus!TheItem(e)} ELSE items),
         stored' = (IF applied THEN stored \cup {e} ELSE stored),
         NEW c \in [step : {"create", "handle", "ok", "failed"}, failures : Nat, calls : Nat],
         publish' = [publish EXCEPT ![e] = c],
         c.step \in {"handle", "ok"} => applied,
         UNCHANGED <<durable, clock, publishedAt, busDeletion, query>>
  PROVE  BusInv'
<1> DEFINE set == IF applied THEN items \cup {Bus!TheItem(e)} ELSE items
<1>1. BusTypes
  BY DEF BusInv
<1>2. publishedAt[e] # 0
  BY DEF BusInv, Published
<1>3. /\ Bus!TheItem(e) \in Bus!Item
      /\ Bus!TheItem(e).at = publishedAt[e] /\ Bus!TheItem(e).id = e
  BY <1>2, TheItemIs
<1>4. set \in SUBSET Bus!Item /\ IsFiniteSet(set)
  <2>1. IsFiniteSet(items \cup {Bus!TheItem(e)})
    BY <1>1, FS_AddElement DEF BusTypes
  <2> QED BY <1>1, <1>3, <2>1 DEF BusTypes
<1>5. \A i \in set : i \in items \/ i = Bus!TheItem(e)
  OBVIOUS
<1> HIDE DEF set
<1>6. Bus!Changes(set)
  BY DEF set
<1>7. /\ items' = set /\ lasting' \subseteq items' /\ steady' \in BOOLEAN
      /\ DurablePages' /\ MemoryPages' /\ NotAsked'
  BY <1>4, <1>6, ChangesKeep
<1>8. publish' \in [Events -> [step : {"idle", "create", "handle", "ok", "failed"},
                               failures : Nat, calls : Nat]]
  BY <1>1 DEF BusTypes
<1>9. stored' \subseteq Events /\ stored \subseteq stored' /\ (applied => e \in stored')
      /\ \A d \in stored' : d \in stored \/ d = e
  BY <1>1 DEF BusTypes
<1>10. BusTypes'
  BY <1>1, <1>4, <1>7, <1>8, <1>9 DEF BusTypes
<1>11. /\ publish'[e] = c /\ \A d \in Events : d # e => publish'[d] = publish[d]
  BY <1>1 DEF BusTypes
<1>12. Published'
  <2>1. \A i \in items' : i.at = publishedAt'[i.id]
    BY <1>3, <1>5, <1>7 DEF BusInv, Published
  <2>2. \A d \in Events : publish'[d].step # "idle" \/ d \in stored' => publishedAt'[d] # 0
    BY <1>2, <1>9, <1>11 DEF BusInv, Published
  <2>3. \A d \in Events : publish'[d].step \in {"handle", "ok"} => d \in stored'
    BY <1>9, <1>11 DEF BusInv, Published
  <2> QED BY <2>1, <2>2, <2>3 DEF Published
<1> QED BY <1>7, <1>10, <1>12 DEF BusInv

LEMMA CreatedKeeps ==
  ASSUME BusInv, NEW e \in Events, Bus!Created(e)
  PROVE  BusInv'
<1> DEFINE c == [publish[e] EXCEPT !.step = IF durable THEN "ok" ELSE "handle"]
<1>1. publish[e] \in [step : {"idle", "create", "handle", "ok", "failed"},
                      failures : Nat, calls : Nat]
  BY DEF BusInv, BusTypes
<1>2. c \in [step : {"create", "handle", "ok", "failed"}, failures : Nat, calls : Nat]
  BY <1>1
<1>3. publish' = [publish EXCEPT ![e] = c]
  BY DEF Bus!Created, Bus!PublishIs, BusInv, BusTypes
<1>4. /\ publish[e].step = "create"
      /\ Bus!Changes(items \cup {Bus!TheItem(e)}) /\ stored' = stored \cup {e}
      /\ UNCHANGED <<durable, clock, publishedAt, busDeletion, query>>
  BY DEF Bus!Created
<1> HIDE DEF c
<1>5. TRUE \in BOOLEAN
  OBVIOUS
<1> QED BY <1>2, <1>3, <1>4, <1>5, CreateKeeps

LEMMA CreateFailsKeeps ==
  ASSUME BusInv, NEW e \in Events, NEW applied \in BOOLEAN, NEW retryable \in BOOLEAN,
         Bus!CreateFails(e, applied, retryable)
  PROVE  BusInv'
<1> DEFINE c == IF retryable /\ publish[e].failures < RetryAttempts
                THEN [publish[e] EXCEPT !.failures = publish[e].failures + 1]
                ELSE [publish[e] EXCEPT !.step = "failed"]
<1>1. publish[e] \in [step : {"idle", "create", "handle", "ok", "failed"},
                      failures : Nat, calls : Nat]
  BY DEF BusInv, BusTypes
<1>2. /\ publish[e].step = "create"
      /\ Bus!Changes(IF applied THEN items \cup {Bus!TheItem(e)} ELSE items)
      /\ stored' = IF applied THEN stored \cup {e} ELSE stored
      /\ UNCHANGED <<durable, clock, publishedAt, busDeletion, query>>
  BY DEF Bus!CreateFails
<1>3. /\ c \in [step : {"create", "handle", "ok", "failed"}, failures : Nat, calls : Nat]
      /\ c.step \notin {"handle", "ok"}
  BY <1>1, <1>2
<1>4. publish' = [publish EXCEPT ![e] = c]
  BY DEF Bus!CreateFails
<1> HIDE DEF c
<1> QED BY <1>2, <1>3, <1>4, CreateKeeps

LEMMA HandledKeeps ==
  ASSUME BusInv, NEW e \in Events, NEW ok \in BOOLEAN, Bus!Handled(e, ok)
  PROVE  BusInv'
<1>1. /\ publish[e].step = "handle"
      /\ publish' = [publish EXCEPT ![e].step = IF ok THEN "ok" ELSE "failed"]
      /\ UNCHANGED <<durable, clock, items, publishedAt, busDeletion, query, stored, lasting,
                     steady>>
  BY DEF Bus!Handled, Bus!PublishIs
<1>2. BusTypes /\ Published
  BY DEF BusInv
<1>3. /\ publish' \in [Events -> [step : {"idle", "create", "handle", "ok", "failed"},
                                 failures : Nat, calls : Nat]]
      /\ publish'[e].step \in {"ok", "failed"}
      /\ \A d \in Events : d # e => publish'[d] = publish[d]
  BY <1>1, <1>2 DEF BusTypes
<1>4. BusTypes'
  BY <1>1, <1>2, <1>3 DEF BusTypes
<1>5. Published'
  <2>1. e \in stored /\ publishedAt[e] # 0
    BY <1>1, <1>2 DEF Published
  <2>2. \A d \in Events : publish'[d].step # "idle" \/ d \in stored => publishedAt[d] # 0
    BY <1>2, <1>3, <2>1 DEF Published
  <2>3. \A d \in Events : publish'[d].step \in {"handle", "ok"} => d \in stored
    BY <1>2, <1>3, <2>1 DEF Published
  <2> QED BY <1>1, <1>2, <2>2, <2>3 DEF Published
<1> QED BY <1>1, <1>4, <1>5, SameItemsKeep DEF BusInv

LEMMA BusDeletionKeeps ==
  ASSUME BusInv,
         \/ \E e \in Events : Bus!GetEvent(e)
         \/ \E answered \in BOOLEAN : Bus!Delete(answered)
  PROVE  BusInv'
<1>1. CASE \E e \in Events : Bus!GetEvent(e)
  <2>1. PICK e \in Events : Bus!GetEvent(e)
    BY <1>1
  <2>2. /\ e \in stored /\ busDeletion' = Bus!TheItem(e)
        /\ UNCHANGED <<durable, clock, items, publishedAt, publish, query, stored, lasting,
                       steady>>
    BY <2>1 DEF Bus!GetEvent
  <2>3. Bus!TheItem(e) \in Bus!Item
    BY <2>2, TheItemIs DEF BusInv, Published
  <2>4. BusTypes'
    BY <2>2, <2>3 DEF BusInv, BusTypes
  <2>5. Published'
    BY <2>2 DEF BusInv, Published
  <2> QED BY <2>2, <2>4, <2>5, SameItemsKeep DEF BusInv
<1>2. CASE \E answered \in BOOLEAN : Bus!Delete(answered)
  <2>1. PICK answered \in BOOLEAN : Bus!Delete(answered)
    BY <1>2
  <2> DEFINE set == IF answered THEN items \ {busDeletion} ELSE items
  <2>2. /\ Bus!Changes(set) /\ busDeletion' = Bus!NoItem
        /\ UNCHANGED <<durable, clock, publishedAt, publish, query, stored>>
    BY <2>1 DEF Bus!Delete
  <2>3. set \in SUBSET Bus!Item /\ set \subseteq items /\ IsFiniteSet(set)
    <3>1. set \in SUBSET items /\ IsFiniteSet(items)
      BY DEF BusInv, BusTypes
    <3>2. IsFiniteSet(set)
      BY <3>1, FS_Subset
    <3> QED BY <3>1, <3>2 DEF BusInv, BusTypes
  <2> HIDE DEF set
  <2>4. /\ items' = set /\ lasting' \subseteq items' /\ steady' \in BOOLEAN
        /\ DurablePages' /\ MemoryPages' /\ NotAsked'
    BY <2>2, <2>3, ChangesKeep
  <2>5. BusTypes'
    BY <2>2, <2>3, <2>4 DEF BusInv, BusTypes
  <2>6. Published'
    BY <2>2, <2>3, <2>4 DEF BusInv, Published
  <2> QED BY <2>4, <2>5, <2>6 DEF BusInv
<1> QED BY <1>1, <1>2

LEMMA NewerTransitive ==
  ASSUME NEW i \in Bus!Item, NEW j \in Bus!Item, NEW k \in Bus!Item,
         Bus!Newer(i, j), Bus!Newer(j, k)
  PROVE  Bus!Newer(i, k)
<1>1. MaxClock \in Nat /\ Events \subseteq Nat
  BY BusAssumption
<1>2. ASSUME NEW x \in Bus!Item PROVE x.at \in Nat /\ x.id \in Nat
  <2>1. x.at \in 1 .. MaxClock /\ x.id \in Events
    BY DEF Bus!Item
  <2>2. x.id \in Nat
    BY <1>1, <2>1
  <2>3. \A t \in 1 .. MaxClock : t \in Nat
    BY <1>1
  <2> QED BY <2>1, <2>2, <2>3
<1>3. /\ i.at \in Nat /\ j.at \in Nat /\ k.at \in Nat
      /\ i.id \in Nat /\ j.id \in Nat /\ k.id \in Nat
  BY <1>2
<1> QED BY <1>3 DEF Bus!Newer

\* A page after some events.
LEMMA PageAppended ==
  ASSUME NEW S, NEW got_ \in Seq(S), NEW page \in Seq(S)
  PROVE  /\ got_ \o page \in Seq(S)
         /\ Len(got_ \o page) = Len(got_) + Len(page)
         /\ \A m \in 1 .. Len(got_) : (got_ \o page)[m] = got_[m]
         /\ \A m \in 1 .. Len(page) : (got_ \o page)[Len(got_) + m] = page[m]
         /\ \A m \in 1 .. Len(got_ \o page) :
              m \in 1 .. Len(got_) \/ \E k \in 1 .. Len(page) : m = Len(got_) + k
<1>1. Len(got_) \in Nat /\ Len(page) \in Nat
  OBVIOUS
<1>2. got_ \o page \in Seq(S) /\ Len(got_ \o page) = Len(got_) + Len(page)
  OBVIOUS
<1>3. \A m \in 1 .. Len(got_) : (got_ \o page)[m] = got_[m]
  BY <1>1
<1>4. \A m \in 1 .. Len(page) : (got_ \o page)[Len(got_) + m] = page[m]
  BY <1>1
<1>5. ASSUME NEW m \in 1 .. Len(got_ \o page), m \notin 1 .. Len(got_)
      PROVE  \E k \in 1 .. Len(page) : m = Len(got_) + k
  <2>1. m - Len(got_) \in 1 .. Len(page)
    BY <1>1, <1>2, <1>5
  <2>2. m = Len(got_) + (m - Len(got_))
    BY <1>1
  <2> QED BY <2>1, <2>2
<1> QED BY <1>2, <1>3, <1>4, <1>5

LEMMA PageTaken ==
  ASSUME NEW S, NEW o \in Seq(S), NEW from \in Nat, NEW to \in Nat,
         from <= to, to <= Len(o)
  PROVE  /\ SubSeq(o, from + 1, to) \in Seq(S)
         /\ Len(SubSeq(o, from + 1, to)) = to - from
         /\ \A m \in 1 .. (to - from) : SubSeq(o, from + 1, to)[m] = o[from + m]
  OBVIOUS

LEMMA PageAfter ==
  ASSUME NEW S, NEW o \in Seq(S), NEW from \in Nat, NEW to \in Nat, from <= to, to <= Len(o),
         NEW p \in Seq(S), Len(p) = to - from, \A m \in 1 .. (to - from) : p[m] = o[from + m]
  PROVE  SubSeq(o, 1, from) \o p = SubSeq(o, 1, to)
<1> DEFINE g == SubSeq(o, 1, from)
           h == SubSeq(o, 1, to)
<1>1. /\ g \in Seq(S) /\ Len(g) = from /\ \A m \in 1 .. from : g[m] = o[m]
      /\ h \in Seq(S) /\ Len(h) = to /\ \A m \in 1 .. to : h[m] = o[m]
  OBVIOUS
<1> HIDE DEF g, h
<1>2. g \in Seq(S) /\ p \in Seq(S) /\ Len(g) \in Nat /\ Len(p) \in Nat
  BY <1>1
<1>3. g \o p \in Seq(S) /\ Len(g \o p) = Len(g) + Len(p)
  <2>1. g \o p \in Seq(S)
    BY <1>2
  <2>2. Len(g \o p) = Len(g) + Len(p)
    BY <1>2, PageAppended, Zenon
  <2> QED BY <2>1, <2>2
<1>4. \A m \in 1 .. Len(g) : (g \o p)[m] = g[m]
  BY <1>2
<1>5. \A m \in 1 .. Len(p) : (g \o p)[Len(g) + m] = p[m]
  BY <1>2
<1> DEFINE q == g \o p
<1>6. /\ q \in Seq(S) /\ Len(q) = to
      /\ \A m \in 1 .. from : q[m] = g[m]
      /\ \A m \in 1 .. (to - from) : q[from + m] = p[m]
  <2>1. from + (to - from) = to
    OBVIOUS
  <2> QED BY <1>1, <1>3, <1>4, <1>5, <2>1
<1> HIDE DEF q
<1>7. ASSUME NEW m \in 1 .. to PROVE q[m] = h[m]
  <2>1. CASE m \in 1 .. from
    BY <1>1, <1>6, <2>1
  <2>2. CASE m \notin 1 .. from
    <3>1. m - from \in 1 .. (to - from) /\ from + (m - from) = m
      BY <2>2
    <3>2. q[from + (m - from)] = p[m - from] /\ p[m - from] = o[from + (m - from)]
      BY <1>6, <3>1
    <3> QED BY <1>1, <3>1, <3>2
  <2> QED BY <2>1, <2>2
<1>8. q = [m \in 1 .. to |-> q[m]] /\ h = [m \in 1 .. to |-> h[m]]
  BY <1>1, <1>6
<1>9. q = h
  BY <1>7, <1>8, Zenon
<1> QED BY <1>9 DEF g, h, q

LEMMA StartQueryKeeps ==
  ASSUME BusInv, Bus!StartQuery
  PROVE  BusInv'
<1>1. /\ query.step = "idle" /\ query' = [query EXCEPT !.step = "page"]
      /\ lasting' = items /\ steady' = TRUE
      /\ UNCHANGED <<durable, clock, items, publishedAt, publish, busDeletion, stored>>
  BY DEF Bus!StartQuery
<1>2. BusTypes'
  BY <1>1 DEF BusInv, BusTypes
<1>3. Published'
  BY <1>1 DEF BusInv, Published
<1>4. /\ query'.step = "page" /\ query'.got = <<>> /\ query'.offset = 0
      /\ query'.after = Bus!NoItem /\ Len(query'.got) = 0
  BY <1>1 DEF BusInv, BusTypes, NotAsked
<1>5. DurablePages'
  BY <1>4 DEF DurablePages
<1>6. MemoryPages'
  <2>1. ASSUME NEW order \in Bus!Sorted(items)
        PROVE  0 <= Len(order) /\ <<>> = SubSeq(order, 1, 0)
    <3>1. order \in Seq(items) /\ Len(order) \in Nat
      BY WholeSets DEF Bus!Sorted, BusInv, BusTypes
    <3> QED BY <3>1
  <2> QED BY <1>1, <1>4, <2>1 DEF MemoryPages
<1>7. NotAsked'
  BY <1>4 DEF NotAsked
<1> QED BY <1>2, <1>3, <1>5, <1>6, <1>7 DEF BusInv

Descends(g) == \A m, n \in 1 .. Len(g) : m < n => Bus!Newer(g[m], g[n])
AllNewer(g, o) == \A m \in 1 .. Len(g), n \in 1 .. Len(o) : Bus!Newer(g[m], o[n])
\* The first k of o are appended to g.
IsExtended(h, g, o, k) ==
    /\ k <= Len(o) /\ Len(h) = Len(g) + k
    /\ \A m \in 1 .. Len(g) : h[m] = g[m]
    /\ \A m \in 1 .. k : h[Len(g) + m] = o[m]

\* A page that descends after events that do descends with them.
LEMMA PagesDescend ==
  ASSUME NEW g \in Seq(Bus!Item), NEW o \in Seq(Bus!Item), NEW h \in Seq(Bus!Item),
         NEW k \in Nat, IsExtended(h, g, o, k), Descends(g), Descends(o), AllNewer(g, o)
  PROVE  Descends(h)
<1> DEFINE L == Len(g)
           N == Len(o)
<1>0. /\ L \in Nat /\ N \in Nat /\ k <= N /\ Len(h) = L + k
      /\ \A m \in 1 .. L : h[m] = g[m]
      /\ \A m \in 1 .. k : h[L + m] = o[m]
      /\ \A m, n \in 1 .. L : m < n => Bus!Newer(g[m], g[n])
      /\ \A m, n \in 1 .. N : m < n => Bus!Newer(o[m], o[n])
      /\ \A m \in 1 .. L, n \in 1 .. N : Bus!Newer(g[m], o[n])
  BY DEF IsExtended, Descends, AllNewer
<1> HIDE DEF L, N
<1> SUFFICES ASSUME NEW m \in 1 .. (L + k), NEW n \in 1 .. (L + k), m < n
             PROVE  Bus!Newer(h[m], h[n])
  BY <1>0 DEF Descends
<1>1. CASE m \in 1 .. L /\ n \in 1 .. L
  BY <1>0, <1>1
<1>2. CASE m \in 1 .. L /\ n \notin 1 .. L
  <2>1. n - L \in 1 .. k /\ n - L \in 1 .. N /\ L + (n - L) = n
    BY <1>0, <1>2
  <2>2. h[n] = o[n - L] /\ h[m] = g[m]
    BY <1>0, <1>2, <2>1
  <2> QED BY <1>0, <1>2, <2>1, <2>2
<1>3. CASE m \notin 1 .. L
  <2>1. m - L \in 1 .. k /\ m - L \in 1 .. N /\ L + (m - L) = m
    BY <1>0, <1>3
  <2>2. n \notin 1 .. L
    BY <1>0, <1>3
  <2>3. n - L \in 1 .. k /\ n - L \in 1 .. N /\ L + (n - L) = n
    BY <1>0, <2>2
  <2>4. m - L < n - L
    BY <1>0
  <2>5. h[n] = o[n - L] /\ h[m] = o[m - L]
    BY <1>0, <2>1, <2>3
  <2> QED BY <1>0, <2>1, <2>3, <2>4, <2>5
<1> QED BY <1>1, <1>2, <1>3

\* What a page from DynamoDB is: the newest of the events after the cursor.
DynamoRest == {i \in items : query.after = Bus!NoItem \/ Bus!Newer(query.after, i)}

DynamoPageOf(o, k, p) ==
    /\ o \in Seq(DynamoRest) /\ k <= Len(o) /\ (k = 0 => Len(o) = 0)
    /\ k < Len(o) => Len(o) > Limit
    /\ Len(p) = k /\ \A m \in 1 .. k : p[m] = o[m]
    /\ query' = [query EXCEPT
                   !.step = IF Len(o) > Limit THEN "page" ELSE "done",
                   !.after = IF k = 0 THEN query.after ELSE o[k],
                   !.got = query.got \o p]

LEMMA DynamoPageIs ==
  ASSUME BusInv, Bus!DynamoPage
  PROVE  /\ durable /\ query.step = "page"
         /\ UNCHANGED <<durable, clock, items, publishedAt, publish, busDeletion, stored,
                        lasting, steady>>
         /\ DynamoRest \subseteq items /\ items \subseteq Bus!Item /\ IsFiniteSet(DynamoRest)
         /\ \E o \in Bus!ByKey(DynamoRest), k \in Nat, p \in Seq(Bus!Item) :
              DynamoPageOf(o, k, p)
<1>1. /\ durable /\ query.step = "page"
      /\ UNCHANGED <<durable, clock, items, publishedAt, publish, busDeletion, stored, lasting,
                     steady>>
  BY DEF Bus!DynamoPage
<1>2. PICK o \in Bus!ByKey(DynamoRest) :
        query' = [query EXCEPT
                    !.step = IF Len(o) > Limit THEN "page" ELSE "done",
                    !.after = IF SubSeq(o, 1, Bus!Least(Limit, Len(o))) = <<>>
                              THEN query.after
                              ELSE Bus!Last(SubSeq(o, 1, Bus!Least(Limit, Len(o)))),
                    !.got = query.got \o SubSeq(o, 1, Bus!Least(Limit, Len(o)))]
  BY Zenon DEF Bus!DynamoPage, DynamoRest
<1> DEFINE k == Bus!Least(Limit, Len(o))
           p == SubSeq(o, 1, k)
<1>3. DynamoRest \subseteq items /\ items \subseteq Bus!Item /\ IsFiniteSet(DynamoRest)
  <2>1. IsFiniteSet(items) /\ DynamoRest \in SUBSET items
    BY DEF BusInv, BusTypes, DynamoRest
  <2>2. IsFiniteSet(DynamoRest)
    BY <2>1, FS_Subset
  <2> QED BY <2>1, <2>2 DEF BusInv, BusTypes
<1>4. o \in Seq(DynamoRest) /\ Len(o) \in Nat
  BY <1>3, WholeSets DEF Bus!ByKey
<1>5. o \in Seq(Bus!Item)
  BY <1>3, <1>4
<1>6. Limit \in Nat \ {0}
  BY BusAssumption
<1>7. /\ k \in Nat /\ k <= Len(o) /\ (k = 0 => Len(o) = 0)
      /\ k < Len(o) => Len(o) > Limit
  BY <1>4, <1>6 DEF Bus!Least
<1> HIDE DEF k
<1>8. p \in Seq(Bus!Item) /\ Len(p) = k /\ \A m \in 1 .. k : p[m] = o[m]
  BY <1>5, <1>7
<1>9. p = <<>> <=> k = 0
  BY <1>7, <1>8
<1>10. k # 0 => Bus!Last(p) = o[k]
  <2>1. Bus!Last(p) = p[Len(p)]
    BY DEF Bus!Last
  <2> QED BY <1>7, <1>8, <2>1
<1>11. query' = [query EXCEPT
                   !.step = IF Len(o) > Limit THEN "page" ELSE "done",
                   !.after = IF p = <<>> THEN query.after ELSE Bus!Last(p),
                   !.got = query.got \o p]
  BY <1>2, Zenon DEF k
<1> HIDE DEF p
<1>12. (IF p = <<>> THEN query.after ELSE Bus!Last(p)) = (IF k = 0 THEN query.after ELSE o[k])
  BY <1>9, <1>10
<1>13. query' = [query EXCEPT
                   !.step = IF Len(o) > Limit THEN "page" ELSE "done",
                   !.after = IF k = 0 THEN query.after ELSE o[k],
                   !.got = query.got \o p]
  BY <1>11, <1>12, Zenon
<1>14. DynamoPageOf(o, k, p)
  BY <1>4, <1>7, <1>8, <1>13 DEF DynamoPageOf
<1> QED BY <1>1, <1>3, <1>7, <1>8, <1>14

LEMMA DynamoPageKeeps ==
  ASSUME BusInv, Bus!DynamoPage
  PROVE  BusInv'
<1>1. /\ durable /\ query.step = "page"
      /\ UNCHANGED <<durable, clock, items, publishedAt, publish, busDeletion, stored, lasting,
                     steady>>
      /\ DynamoRest \subseteq items /\ items \subseteq Bus!Item /\ IsFiniteSet(DynamoRest)
  BY DynamoPageIs
<1>2. PICK o \in Bus!ByKey(DynamoRest), k \in Nat, p \in Seq(Bus!Item) : DynamoPageOf(o, k, p)
  BY DynamoPageIs
<1>3. /\ o \in Seq(DynamoRest) /\ k <= Len(o) /\ (k = 0 => Len(o) = 0)
      /\ k < Len(o) => Len(o) > Limit
      /\ Len(p) = k /\ \A m \in 1 .. k : p[m] = o[m]
  BY <1>2 DEF DynamoPageOf
<1> DEFINE L == Len(query.got)
           N == Len(o)
<1>4. query \in [step : {"idle", "page", "done"}, offset : Nat,
                 after : Bus!Item \cup {Bus!NoItem}, got : Seq(Bus!Item)]
  BY DEF BusInv, BusTypes
<1>5. /\ query'.got = query.got \o p
      /\ query'.after = IF k = 0 THEN query.after ELSE o[k]
      /\ query'.step = IF N > Limit THEN "page" ELSE "done"
      /\ query'.offset = query.offset
  BY <1>2, <1>4 DEF DynamoPageOf
<1>6. /\ query.got \in Seq(Bus!Item) /\ L \in Nat
      /\ query.after \in Bus!Item \cup {Bus!NoItem}
  BY <1>4
<1>7. /\ DOMAIN o = 1 .. N /\ N \in Nat /\ \A x \in DynamoRest : \E j \in 1 .. N : o[j] = x
      /\ \A i, j \in 1 .. N : i < j => Bus!Newer(o[i], o[j])
  <2>1. o \in Bus!SetToSeqs(DynamoRest) /\ \A i, j \in DOMAIN o : i < j => Bus!Newer(o[i], o[j])
    BY DEF Bus!ByKey
  <2>2. DOMAIN o = 1 .. N /\ N \in Nat /\ \A x \in DynamoRest : \E j \in 1 .. N : o[j] = x
    BY <1>1, <2>1, WholeSets
  <2> QED BY <2>1, <2>2
<1>8. o \in Seq(Bus!Item) /\ \A j \in 1 .. N : o[j] \in DynamoRest /\ o[j] \in Bus!Item
  BY <1>1, <1>3
<1>9. /\ query'.got \in Seq(Bus!Item) /\ Len(query'.got) = L + k
      /\ \A m \in 1 .. L : query'.got[m] = query.got[m]
      /\ \A m \in 1 .. k : query'.got[L + m] = p[m]
  <2>1. /\ query.got \o p \in Seq(Bus!Item) /\ Len(query.got \o p) = L + Len(p)
        /\ \A m \in 1 .. L : (query.got \o p)[m] = query.got[m]
        /\ \A m \in 1 .. Len(p) : (query.got \o p)[L + m] = p[m]
    BY <1>6, PageAppended
  <2> QED BY <1>3, <1>5, <2>1
<1>10. \A m \in 1 .. k : query'.got[L + m] = o[m]
  BY <1>3, <1>9
<1> HIDE DEF L, N
<1>11. k # 0 => k \in 1 .. N
  BY <1>3, <1>7 DEF N
<1>12. BusTypes'
  <2>1. query'.after \in Bus!Item \cup {Bus!NoItem}
    BY <1>5, <1>6, <1>8, <1>11
  <2>2. query' \in [step : {"idle", "page", "done"}, offset : Nat,
                    after : Bus!Item \cup {Bus!NoItem}, got : Seq(Bus!Item)]
    <3>1. query' = [query EXCEPT !.step = IF N > Limit THEN "page" ELSE "done",
                                 !.after = IF k = 0 THEN query.after ELSE o[k],
                                 !.got = query.got \o p]
      BY <1>2 DEF DynamoPageOf, N
    <3>2. (IF k = 0 THEN query.after ELSE o[k]) \in Bus!Item \cup {Bus!NoItem}
      BY <1>5, <2>1
    <3>3. query.got \o p \in Seq(Bus!Item)
      BY <1>5, <1>9
    <3> QED BY <1>4, <3>1, <3>2, <3>3
  <2> QED BY <1>1, <2>2 DEF BusInv, BusTypes
<1>13. Published'
  BY <1>1 DEF BusInv, Published
<1>14. /\ \A m, n \in 1 .. L : m < n => Bus!Newer(query.got[m], query.got[n])
       /\ L = 0 => query.after = Bus!NoItem
       /\ L # 0 => query.after = query.got[L]
       /\ \A i \in lasting : i \in Received \/ i \in DynamoRest
  <2>1. /\ \A m, n \in 1 .. L : m < n => Bus!Newer(query.got[m], query.got[n])
        /\ IF query.got = <<>> THEN query.after = Bus!NoItem
                               ELSE query.after = query.got[L]
        /\ \A i \in lasting : \/ i \in Received
                              \/ query.after = Bus!NoItem \/ Bus!Newer(query.after, i)
    BY <1>1 DEF BusInv, DurablePages, L
  <2>2. query.got = <<>> <=> L = 0
    BY <1>6 DEF L
  <2>3. lasting \subseteq items
    BY DEF BusInv, BusTypes
  <2> QED BY <2>1, <2>2, <2>3 DEF DynamoRest
<1>15. L # 0 => L \in 1 .. L
  BY <1>6
<1>16. \A m \in 1 .. L : query.got[m] \in Bus!Item
  BY <1>6 DEF L
<1>17. \A m \in 1 .. L, j \in 1 .. N : Bus!Newer(query.got[m], o[j])
  <2> SUFFICES ASSUME NEW m \in 1 .. L, NEW j \in 1 .. N
               PROVE  Bus!Newer(query.got[m], o[j])
    OBVIOUS
  <2>1. L # 0
    BY <1>6
  <2>2. query.got[m] \in Bus!Item /\ query.got[L] \in Bus!Item /\ o[j] \in Bus!Item
    BY <1>8, <1>15, <1>16, <2>1
  <2>3. Bus!NoItem \notin Bus!Item
    <3>1. 0 \notin 1 .. MaxClock
      BY BusAssumption
    <3> QED BY <3>1 DEF Bus!Item, Bus!NoItem
  <2>4. Bus!Newer(query.got[L], o[j])
    BY <1>8, <1>14, <2>1, <2>2, <2>3 DEF DynamoRest
  <2>5. m = L \/ m < L
    BY <1>6
  <2>6. CASE m < L
    <3>1. Bus!Newer(query.got[m], query.got[L])
      BY <1>14, <1>15, <2>1, <2>6
    <3> QED BY <2>2, <2>4, <3>1, NewerTransitive
  <2> QED BY <2>4, <2>5, <2>6
<1>18. Descends(query'.got)
  <2>1. IsExtended(query'.got, query.got, o, k)
    BY <1>3, <1>9, <1>10 DEF L, IsExtended
  <2>2. Descends(query.got)
    BY <1>14 DEF L, Descends
  <2>3. Descends(o)
    BY <1>7 DEF N, Descends
  <2>4. AllNewer(query.got, o)
    BY <1>17 DEF L, N, AllNewer
  <2> QED BY <1>6, <1>8, <1>9, <2>1, <2>2, <2>3, <2>4, PagesDescend
<1>19. IF query'.got = <<>> THEN query'.after = Bus!NoItem
                            ELSE query'.after = query'.got[Len(query'.got)]
  <2>1. query'.got = <<>> <=> L + k = 0
    BY <1>9
  <2>2. CASE k = 0
    <3>1. query'.after = query.after /\ L + k = L
      BY <1>5, <1>6, <2>2
    <3> QED BY <1>9, <1>14, <1>15, <2>1, <3>1
  <2>3. CASE k # 0
    <3>1. k \in 1 .. k /\ L + k # 0
      BY <1>6, <2>3
    <3>2. query'.after = o[k] /\ query'.got[L + k] = o[k]
      BY <1>5, <1>10, <2>3, <3>1
    <3> QED BY <1>9, <2>1, <3>1, <3>2
  <2> QED BY <2>2, <2>3
<1>20. ASSUME NEW i \in lasting
       PROVE  \/ \E m \in 1 .. (L + k) : query'.got[m] = i
              \/ query'.step = "page" /\ Bus!Newer(query'.after, i)
  <2>1. CASE i \in Received
    <3>1. PICK m \in 1 .. L : query.got[m] = i
      BY <2>1 DEF Received, L
    <3>2. m \in 1 .. (L + k)
      BY <1>6
    <3> QED BY <1>9, <3>1, <3>2
  <2>2. CASE i \in DynamoRest
    <3>1. PICK j \in 1 .. N : o[j] = i
      BY <1>7, <2>2
    <3>2. CASE j <= k
      <4>1. j \in 1 .. k /\ L + j \in 1 .. (L + k)
        BY <1>6, <3>2
      <4> QED BY <1>10, <3>1, <4>1
    <3>3. CASE k < j
      <4>1. k < N /\ N # 0
        BY <1>7, <3>3
      <4>2. k # 0 /\ k \in 1 .. N /\ N > Limit
        BY <1>3, <1>11, <4>1 DEF N
      <4>3. Bus!Newer(o[k], o[j])
        BY <1>7, <3>3, <4>2
      <4> QED BY <1>5, <3>1, <4>2, <4>3
    <3>4. j <= k \/ k < j
      OBVIOUS
    <3> QED BY <3>2, <3>3, <3>4
  <2> QED BY <1>14, <2>1, <2>2
<1>21. DurablePages'
  <2>1. Received' = {query'.got[m] : m \in 1 .. (L + k)}
    BY <1>9 DEF Received
  <2>2. \A i \in lasting' :
          \/ i \in Received'
          \/ query'.step = "page"
             /\ (query'.after = Bus!NoItem \/ Bus!Newer(query'.after, i))
    BY <1>1, <1>20, <2>1
  <2> QED BY <1>18, <1>19, <2>2 DEF DurablePages, Descends
<1>22. MemoryPages' /\ NotAsked'
  BY <1>1, <1>5 DEF MemoryPages, NotAsked
<1> QED BY <1>12, <1>13, <1>21, <1>22 DEF BusInv

\* What a page from memory is: what an order of the items holds from the offset.
MemoryPageOf(o, from, to, p) ==
    /\ o \in Seq(Bus!Item) /\ from <= to /\ to <= Len(o)
    /\ query.offset <= Len(o) => from = query.offset
    /\ Len(p) = to - from /\ \A m \in 1 .. (to - from) : p[m] = o[from + m]
    /\ query' = [query EXCEPT
                   !.step = IF to < Len(o) THEN "page" ELSE "done",
                   !.offset = IF to < Len(o) THEN to ELSE 0,
                   !.got = query.got \o p]

LEMMA MemoryPageIs ==
  ASSUME BusInv, Bus!MemoryPage
  PROVE  /\ ~durable /\ query.step = "page"
         /\ UNCHANGED <<durable, clock, items, publishedAt, publish, busDeletion, stored,
                        lasting, steady>>
         /\ \E o \in Bus!Sorted(items), from \in Nat, to \in Nat, p \in Seq(Bus!Item) :
              MemoryPageOf(o, from, to, p)
<1>1. /\ ~durable /\ query.step = "page"
      /\ UNCHANGED <<durable, clock, items, publishedAt, publish, busDeletion, stored, lasting,
                     steady>>
  BY DEF Bus!MemoryPage
<1>2. PICK o \in Bus!Sorted(items) :
        query' = [query EXCEPT
                    !.step = IF Bus!Paginate(o, query.offset).next = -1 THEN "done" ELSE "page",
                    !.offset = IF Bus!Paginate(o, query.offset).next = -1 THEN 0
                               ELSE Bus!Paginate(o, query.offset).next,
                    !.got = query.got \o Bus!Paginate(o, query.offset).page]
  BY Zenon DEF Bus!MemoryPage
<1>3. items \subseteq Bus!Item /\ IsFiniteSet(items) /\ query.offset \in Nat
  BY DEF BusInv, BusTypes
<1>4. o \in Seq(items) /\ Len(o) \in Nat
  BY <1>3, WholeSets DEF Bus!Sorted
<1>5. o \in Seq(Bus!Item)
  BY <1>3, <1>4
<1>6. Limit \in Nat \ {0}
  BY BusAssumption
<1> DEFINE from == Bus!Least(query.offset, Len(o))
           to == Bus!Least(from + Limit, Len(o))
           p == SubSeq(o, from + 1, to)
<1>7. from \in Nat /\ from <= Len(o) /\ (query.offset <= Len(o) => from = query.offset)
  BY <1>3, <1>4 DEF Bus!Least
<1>8. Bus!Paginate(o, query.offset) = [page |-> p, next |-> IF to < Len(o) THEN to ELSE -1]
  BY DEF Bus!Paginate
<1> HIDE DEF from
<1>9. to \in Nat /\ from <= to /\ to <= Len(o)
  BY <1>4, <1>6, <1>7 DEF Bus!Least
<1> HIDE DEF to
<1>10. /\ p \in Seq(Bus!Item) /\ Len(p) = to - from
       /\ \A m \in 1 .. (to - from) : p[m] = o[from + m]
  BY <1>5, <1>7, <1>9, PageTaken
<1> HIDE DEF p
<1>11. /\ Bus!Paginate(o, query.offset).page = p
       /\ Bus!Paginate(o, query.offset).next = IF to < Len(o) THEN to ELSE -1
  BY <1>8
<1>12. /\ (IF Bus!Paginate(o, query.offset).next = -1 THEN "done" ELSE "page")
            = (IF to < Len(o) THEN "page" ELSE "done")
       /\ (IF Bus!Paginate(o, query.offset).next = -1 THEN 0
           ELSE Bus!Paginate(o, query.offset).next) = (IF to < Len(o) THEN to ELSE 0)
  <2>1. to # -1
    BY <1>9
  <2> QED BY <1>11, <2>1
<1>13. query' = [query EXCEPT
                   !.step = IF to < Len(o) THEN "page" ELSE "done",
                   !.offset = IF to < Len(o) THEN to ELSE 0,
                   !.got = query.got \o p]
  BY <1>2, <1>11, <1>12, Zenon
<1>14. MemoryPageOf(o, from, to, p)
  BY <1>5, <1>7, <1>9, <1>10, <1>13 DEF MemoryPageOf
<1> QED BY <1>1, <1>7, <1>9, <1>10, <1>14

LEMMA MemoryPageKeeps ==
  ASSUME BusInv, Bus!MemoryPage
  PROVE  BusInv'
<1>1. /\ ~durable /\ query.step = "page"
      /\ UNCHANGED <<durable, clock, items, publishedAt, publish, busDeletion, stored, lasting,
                     steady>>
  BY MemoryPageIs
<1>2. PICK o \in Bus!Sorted(items), from \in Nat, to \in Nat, p \in Seq(Bus!Item) :
        MemoryPageOf(o, from, to, p)
  BY MemoryPageIs
<1>3. /\ o \in Seq(Bus!Item) /\ Len(o) \in Nat /\ from <= to /\ to <= Len(o)
      /\ query.offset <= Len(o) => from = query.offset
      /\ Len(p) = to - from /\ \A m \in 1 .. (to - from) : p[m] = o[from + m]
  BY <1>2 DEF MemoryPageOf
<1>4. /\ query \in [step : {"idle", "page", "done"}, offset : Nat,
                    after : Bus!Item \cup {Bus!NoItem}, got : Seq(Bus!Item)]
      /\ items \subseteq Bus!Item /\ IsFiniteSet(items)
  BY DEF BusInv, BusTypes
<1>5. /\ query'.got = query.got \o p
      /\ query'.step = IF to < Len(o) THEN "page" ELSE "done"
      /\ query'.offset = IF to < Len(o) THEN to ELSE 0
  BY <1>2, <1>4 DEF MemoryPageOf
<1>6. query.got \in Seq(Bus!Item) /\ query.offset \in Nat
  BY <1>4
<1>7. BusTypes'
  <2>1. query' = [query EXCEPT
                    !.step = IF to < Len(o) THEN "page" ELSE "done",
                    !.offset = IF to < Len(o) THEN to ELSE 0,
                    !.got = query.got \o p]
    BY <1>2 DEF MemoryPageOf
  <2>2. query.got \o p \in Seq(Bus!Item)
    BY <1>6
  <2>3. query' \in [step : {"idle", "page", "done"}, offset : Nat,
                    after : Bus!Item \cup {Bus!NoItem}, got : Seq(Bus!Item)]
    BY <1>4, <2>1, <2>2
  <2> QED BY <1>1, <2>3 DEF BusInv, BusTypes
<1>8. Published'
  BY <1>1 DEF BusInv, Published
<1>9. DurablePages' /\ NotAsked'
  BY <1>1, <1>5 DEF DurablePages, NotAsked
<1>10. ASSUME steady, TimesDiffer(items)
       PROVE  query'.got = SubSeq(o, 1, to)
  <2>1. query.offset <= Len(o) /\ query.got = SubSeq(o, 1, query.offset)
    BY <1>1, <1>10 DEF BusInv, MemoryPages
  <2>2. from = query.offset /\ query.got = SubSeq(o, 1, from)
    BY <1>3, <2>1
  <2>3. SubSeq(o, 1, from) \o p = SubSeq(o, 1, to)
    BY <1>3, PageAfter
  <2> QED BY <1>5, <2>2, <2>3
<1>11. /\ \A x \in items : \E j \in 1 .. Len(o) : o[j] = x
       /\ \A i, j \in 1 .. Len(o) : o[i] = o[j] => i = j
  BY <1>4, WholeSets DEF Bus!Sorted
<1>12. MemoryPages'
  <2> SUFFICES ASSUME steady, TimesDiffer(items)
               PROVE  IF query'.step = "done"
                        THEN /\ items \subseteq Received'
                             /\ \A m, n \in 1 .. Len(query'.got) :
                                  query'.got[m] = query'.got[n] => m = n
                        ELSE \A order \in Bus!Sorted(items) :
                               query'.offset <= Len(order)
                               /\ query'.got = SubSeq(order, 1, query'.offset)
    BY <1>1 DEF MemoryPages, TimesDiffer
  <2>1. query'.got = SubSeq(o, 1, to)
    BY <1>10
  <2>2. CASE to < Len(o)
    <3>1. query'.step = "page" /\ query'.offset = to
      BY <1>5, <2>2
    <3>2. \A order \in Bus!Sorted(items) : order = o
      BY <1>4, OneOrder
    <3> QED BY <1>3, <2>1, <3>1, <3>2
  <2>3. CASE ~(to < Len(o))
    <3>1. query'.step = "done" /\ to = Len(o)
      BY <1>3, <1>5, <2>3
    <3>2. query'.got = o
      BY <1>3, <2>1, <3>1
    <3>3. Received' = {query'.got[m] : m \in 1 .. Len(query'.got)}
      BY DEF Received
    <3>4. items \subseteq Received'
      BY <1>11, <3>2, <3>3
    <3> QED BY <1>11, <3>1, <3>2, <3>4
  <2> QED BY <2>2, <2>3
<1> QED BY <1>7, <1>8, <1>9, <1>12 DEF BusInv

LEMMA BusInvStep == BusInv /\ [Bus!Next]_busVars => BusInv'
<1> SUFFICES ASSUME BusInv, [Bus!Next]_busVars PROVE BusInv'
  OBVIOUS
<1>1. CASE \E e \in Events : Bus!Publish(e) \/ Bus!Created(e)
  BY <1>1, PublishKeeps, CreatedKeeps
<1>2. CASE \E e \in Events, applied, retryable \in BOOLEAN :
             Bus!CreateFails(e, applied, retryable)
  BY <1>2, CreateFailsKeeps
<1>3. CASE \E e \in Events, ok \in BOOLEAN : Bus!Handled(e, ok)
  BY <1>3, HandledKeeps
<1>4. CASE \/ \E e \in Events : Bus!GetEvent(e)
           \/ \E answered \in BOOLEAN : Bus!Delete(answered)
  BY <1>4, BusDeletionKeeps
<1>5. CASE Bus!StartQuery \/ Bus!DynamoPage \/ Bus!MemoryPage
  BY <1>5, StartQueryKeeps, DynamoPageKeeps, MemoryPageKeeps
<1>6. CASE Bus!Tick \/ UNCHANGED busVars
  <2>1. /\ clock' \in 1 .. MaxClock
        /\ UNCHANGED <<durable, items, publishedAt, publish, busDeletion, query, stored, lasting,
                       steady>>
    <3>1. clock \in 1 .. MaxClock /\ MaxClock \in Nat
      BY BusAssumption DEF BusInv, BusTypes
    <3> QED BY <1>6, <3>1 DEF Bus!Tick, busVars
  <2>2. BusTypes'
    BY <2>1 DEF BusInv, BusTypes
  <2>3. Published'
    BY <2>1 DEF BusInv, Published
  <2> QED BY <2>1, <2>2, <2>3, SameItemsKeep DEF BusInv
<1> QED BY <1>1, <1>2, <1>3, <1>4, <1>5, <1>6 DEF Bus!Next

LEMMA BusInvSafe == BusInv => Bus!BusSafe
<1> SUFFICES ASSUME BusInv PROVE Bus!BusSafe
  OBVIOUS
<1>1. /\ items \subseteq Bus!Item /\ lasting \subseteq items /\ query.got \in Seq(Bus!Item)
      /\ DOMAIN query.got = 1 .. Len(query.got) /\ Len(query.got) \in Nat
  BY DEF BusInv, BusTypes
<1>2. Bus!PublishedOnce
  <2>1. ASSUME NEW i \in items, NEW j \in items, i.id = j.id PROVE i = j
    <3>1. i.at = j.at
      BY <2>1 DEF BusInv, Published
    <3>2. i \in Bus!Item /\ j \in Bus!Item
      BY <1>1
    <3> QED BY <2>1, <3>1, <3>2 DEF Bus!Item
  <2>2. \A e \in Events : publish[e].step = "ok" => e \in stored
    BY DEF BusInv, Published
  <2> QED BY <2>1, <2>2 DEF Bus!PublishedOnce
<1>3. Bus!ToSet(query.got) = Received
  BY <1>1 DEF Bus!ToSet, Received
<1>4. Bus!PagesComplete
  <2> SUFFICES ASSUME query.step = "done",
                      durable \/ (steady /\ \A i, j \in items : i.at = j.at => i = j)
               PROVE  /\ lasting \subseteq Received
                      /\ \A m, n \in 1 .. Len(query.got) : query.got[m] = query.got[n] => m = n
    BY <1>1, <1>3 DEF Bus!PagesComplete
  <2>1. CASE durable
    <3>1. /\ \A m, n \in 1 .. Len(query.got) : m < n => Bus!Newer(query.got[m], query.got[n])
          /\ \A i \in lasting : i \in Received
      BY <2>1 DEF BusInv, DurablePages
    <3>2. ASSUME NEW i \in Bus!Item PROVE ~Bus!Newer(i, i)
      <4>1. i.at \in 1 .. MaxClock /\ i.id \in Events
        BY DEF Bus!Item
      <4>2. \A t \in 1 .. MaxClock : ~(t > t)
        BY BusAssumption
      <4>3. \A t \in Events : ~(t > t)
        BY BusAssumption
      <4> QED BY <4>1, <4>2, <4>3 DEF Bus!Newer
    <3>3. ASSUME NEW m \in 1 .. Len(query.got), NEW n \in 1 .. Len(query.got),
                 query.got[m] = query.got[n], m # n
          PROVE  FALSE
      <4>1. m < n \/ n < m
        BY <1>1, <3>3
      <4>2. Bus!Newer(query.got[m], query.got[m])
        BY <3>1, <3>3, <4>1
      <4> QED BY <1>1, <3>2, <4>2
    <3> QED BY <3>1, <3>3
  <2>2. CASE ~durable
    BY <1>1, <2>2 DEF BusInv, MemoryPages, TimesDiffer
  <2> QED BY <2>1, <2>2
<1> QED BY <1>2, <1>4 DEF Bus!BusSafe

\* However often an Event is published, it is stored at most once; and the pages of a query
\* hold each event that lasts exactly once (in DynamoDB always, in memory while nothing
\* changes and times differ), for any events, limit and clock.
THEOREM EventsAlwaysOnce == Bus!Spec => []Bus!BusSafe
<1>1. Bus!Init => BusInv
  BY BusInvInit
<1>2. BusInv /\ [Bus!Next]_busVars => BusInv'
  BY BusInvStep
<1>3. BusInv => Bus!BusSafe
  BY BusInvSafe
<1> QED BY <1>1, <1>2, <1>3, PTL DEF Bus!Spec, Bus!vars, busVars

LEMMA BusInvOfStreams == StreamsSpec => [](kind = "BUS" => BusInv)
<1>1. StreamsInit => (kind = "BUS" => BusInv)
  BY BusInvInit DEF StreamsInit
<1>2. /\ kind = "BUS" => BusInv
      /\ [StreamsNext]_<<kind, vars, memVars, busVars, sseVars>>
      => (kind = "BUS" => BusInv)'
  <2> SUFFICES ASSUME kind = "BUS" => BusInv,
                      [StreamsNext]_<<kind, vars, memVars, busVars, sseVars>>,
                      kind' = "BUS"
               PROVE  BusInv'
    OBVIOUS
  <2>1. kind = "BUS" /\ [Bus!Next]_busVars
    BY DEF StreamsNext
  <2> QED BY <2>1, BusInvStep
<1> QED BY <1>1, <1>2, PTL DEF StreamsSpec

-----------------------------------------------------------------------------
(* The DynamoDB store with two streams.                                      *)

TwoProofs == INSTANCE DynamoStreamStore_proofs WITH
    Streams <- Pair, Final <- PairFinal, Spilled <- {}, Oversized <- {}, MaxFaults <- 0,
    Deletable <- FALSE

\* What DynamoStreamStore assumes of its constants holds of this instance.
LEMMA PairConstants ==
  /\ PairFinal \in Nat /\ PairFinal >= 2 /\ BatchSize \in Nat \ {0}
  /\ 0 \in Nat /\ MaxDisconnects \in Nat /\ FALSE \in BOOLEAN
  /\ {} \subseteq Nat
  BY PairAssumption, BatchSizeAssumption, BoundsAssumption

\* The two instances of DynamoStreamStore are the same.
LEMMA SameTwo ==
  /\ Two!Init <=> TwoProofs!Init
  /\ Two!Next <=> TwoProofs!Next
  /\ Two!vars = TwoProofs!vars
  /\ Two!ReceivedInOrder <=> TwoProofs!ReceivedInOrder
<1>1. Two!Init <=> TwoProofs!Init
  BY DEF Two!Init, TwoProofs!Init
<1>2. Two!ReceivedInOrder <=> TwoProofs!ReceivedInOrder
  BY DEF Two!ReceivedInOrder, TwoProofs!ReceivedInOrder, Two!ToSet, TwoProofs!ToSet
<1>3. Two!vars = TwoProofs!vars
  BY DEF Two!vars, TwoProofs!vars
<1>4. ASSUME NEW s \in Pair
      PROVE  Two!ToolStep(s) <=> TwoProofs!ToolStep(s)
  BY DEF
     Two!ToolStep, Two!table, Two!bounds, Two!Numbers, Two!ToolGoes, Two!AfterAppend,
     Two!PutPayload, Two!DropPayload, Two!CreateTouch, Two!CreateMetadata, Two!Found,
     Two!AppendTarget, Two!AppendSequence, Two!AppendSpill, Two!CommitFails,
     Two!CommitEvent, Two!AppendCommit, Two!AppendCleanup, Two!CloseRead,
     Two!ClosePut, TwoProofs!ToolStep, TwoProofs!table, TwoProofs!bounds,
     TwoProofs!Numbers, TwoProofs!ToolGoes, TwoProofs!AfterAppend,
     TwoProofs!PutPayload, TwoProofs!DropPayload, TwoProofs!CreateTouch,
     TwoProofs!CreateMetadata, TwoProofs!Found, TwoProofs!AppendTarget,
     TwoProofs!AppendSequence, TwoProofs!AppendSpill, TwoProofs!CommitFails,
     TwoProofs!CommitEvent, TwoProofs!AppendCommit, TwoProofs!AppendCleanup,
     TwoProofs!CloseRead, TwoProofs!ClosePut
<1>5. ASSUME NEW s \in Pair
      PROVE  /\ Two!ToolFault(s) <=> TwoProofs!ToolFault(s)
             /\ Two!ToolCrash(s) <=> TwoProofs!ToolCrash(s)
  BY DEF
     Two!ToolFault, Two!ToolCrash, Two!table, Two!bounds, Two!Numbers, Two!ToolGoes,
     Two!AfterAppend, Two!PutPayload, Two!DropPayload, Two!CommitFails,
     Two!CommitEvent, Two!MadeWithError, TwoProofs!ToolFault, TwoProofs!ToolCrash,
     TwoProofs!table, TwoProofs!bounds, TwoProofs!Numbers, TwoProofs!ToolGoes,
     TwoProofs!AfterAppend, TwoProofs!PutPayload, TwoProofs!DropPayload,
     TwoProofs!CommitFails, TwoProofs!CommitEvent, TwoProofs!MadeWithError
<1>6. ASSUME NEW s \in Pair
      PROVE  Two!PumpStep(s) <=> TwoProofs!PumpStep(s)
  <2>1. Two!Subscribe(s) <=> TwoProofs!Subscribe(s)
    BY DEF
       Two!Subscribe, Two!StartPump, Two!Found, Two!table, Two!bounds,
       TwoProofs!Subscribe, TwoProofs!StartPump, TwoProofs!Found, TwoProofs!table,
       TwoProofs!bounds
  <2>2. Two!Resume(s) <=> TwoProofs!Resume(s)
    BY DEF
       Two!Resume, Two!StartPump, Two!Batches, Two!EventsAfter, Two!Last, Two!Found,
       Two!table, Two!bounds, TwoProofs!Resume, TwoProofs!StartPump,
       TwoProofs!Batches, TwoProofs!EventsAfter, TwoProofs!Last, TwoProofs!Found,
       TwoProofs!table, TwoProofs!bounds
  <2>3. Two!Load(s) <=> TwoProofs!Load(s)
    <3>1. \A S : Two!Cardinality(S) = TwoProofs!Cardinality(S)
      BY DEF Two!Cardinality, TwoProofs!Cardinality
    <3>2. \A S : Two!Batches(S) = TwoProofs!Batches(S)
      BY <3>1 DEF Two!Batches, TwoProofs!Batches
    <3>3. Two!EventsAfter(sub[s].cursor) = TwoProofs!EventsAfter(sub[s].cursor)
      BY <3>2 DEF Two!EventsAfter, TwoProofs!EventsAfter
    <3> DEFINE Loads(records, full) ==
                 \E cursor \in {sub[s].cursor} \cup {e.seq : e \in records} :
                   /\ \A e \in records : e.seq <= cursor
                   /\ sub' = [sub EXCEPT
                                ![s].step   = "forward",
                                ![s].cursor = cursor,
                                ![s].batch  = {e \in records : e.stream = s},
                                ![s].full   = full]
               Same == UNCHANGED <<session, nextSeq, meta, events, objects, tool, deletion, log,
                                   acked, got, faults, disconnects>>
    <3>4. Two!Load(s) <=> /\ sub[s].step = "load"
                          /\ \E records \in Two!EventsAfter(sub[s].cursor) :
                               Loads(records, Two!Cardinality(records) >= BatchSize)
                          /\ Same
      BY DEF Two!Load, Two!table, Two!bounds
    <3>5. TwoProofs!Load(s) <=> /\ sub[s].step = "load"
                                /\ \E records \in TwoProofs!EventsAfter(sub[s].cursor) :
                                     Loads(records, TwoProofs!Cardinality(records) >= BatchSize)
                                /\ Same
      BY DEF TwoProofs!Load, TwoProofs!table, TwoProofs!bounds
    <3> HIDE DEF Loads, Same
    <3> QED BY <3>1, <3>3, <3>4, <3>5
  <2>4. Two!Rehydrate(s) <=> TwoProofs!Rehydrate(s)
    BY DEF
       Two!Rehydrate, Two!PayloadFound, Two!Leads, Two!table, Two!bounds,
       TwoProofs!Rehydrate, TwoProofs!PayloadFound, TwoProofs!Leads,
       TwoProofs!table, TwoProofs!bounds
  <2>5. Two!Forward(s) <=> TwoProofs!Forward(s)
    BY DEF
       Two!Forward, Two!Leads, Two!table, Two!bounds, TwoProofs!Forward,
       TwoProofs!Leads, TwoProofs!table, TwoProofs!bounds
  <2>6. Two!Forwarded(s) <=> TwoProofs!Forwarded(s)
    BY DEF
       Two!Forwarded, Two!Leads, Two!Found, Two!table, Two!bounds,
       TwoProofs!Forwarded, TwoProofs!Leads, TwoProofs!Found, TwoProofs!table,
       TwoProofs!bounds
  <2>7. Two!CheckClosed(s) <=> TwoProofs!CheckClosed(s)
    BY DEF
       Two!CheckClosed, Two!Found, Two!Leads, Two!Last, Two!table, Two!bounds,
       TwoProofs!CheckClosed, TwoProofs!Found, TwoProofs!Leads, TwoProofs!Last,
       TwoProofs!table, TwoProofs!bounds
  <2> QED BY <2>1, <2>2, <2>3, <2>4, <2>5, <2>6, <2>7 DEF Two!PumpStep, TwoProofs!PumpStep
<1>7. ASSUME NEW s \in Pair
      PROVE  /\ Two!PumpFault(s) <=> TwoProofs!PumpFault(s)
             /\ Two!Disconnect(s) <=> TwoProofs!Disconnect(s)
  BY DEF
     Two!PumpFault, Two!Disconnect, Two!table, Two!bounds, Two!Leads, Two!Following,
     TwoProofs!PumpFault, TwoProofs!Disconnect, TwoProofs!table, TwoProofs!bounds,
     TwoProofs!Leads, TwoProofs!Following
<1>8. /\ Two!MarkDeleted <=> TwoProofs!MarkDeleted
      /\ Two!DeletionStep <=> TwoProofs!DeletionStep
      /\ Two!DeletionFault <=> TwoProofs!DeletionFault
  BY DEF
     Two!MarkDeleted, Two!DeletionStep, Two!DeletionFault, Two!table, Two!bounds,
     Two!ListRecords, Two!DeleteStream, Two!NextToDelete, Two!Leads, Two!DropPayload,
     Two!DeletePayload, Two!DeleteEvent, Two!DeletedAll, TwoProofs!MarkDeleted,
     TwoProofs!DeletionStep, TwoProofs!DeletionFault, TwoProofs!table,
     TwoProofs!bounds, TwoProofs!ListRecords, TwoProofs!DeleteStream,
     TwoProofs!NextToDelete, TwoProofs!Leads, TwoProofs!DropPayload,
     TwoProofs!DeletePayload, TwoProofs!DeleteEvent, TwoProofs!DeletedAll
<1>9. Two!Next <=> TwoProofs!Next
  <2> DEFINE A(s) == \/ Two!ToolStep(s) \/ Two!PumpStep(s) \/ Two!ToolFault(s)
                     \/ Two!ToolCrash(s) \/ Two!PumpFault(s) \/ Two!Disconnect(s)
             B(s) == \/ TwoProofs!ToolStep(s) \/ TwoProofs!PumpStep(s)
                     \/ TwoProofs!ToolFault(s) \/ TwoProofs!ToolCrash(s)
                     \/ TwoProofs!PumpFault(s) \/ TwoProofs!Disconnect(s)
  <2>1. ASSUME NEW s \in Pair PROVE A(s) <=> B(s)
    BY <1>4, <1>5, <1>6, <1>7
  <2>2. Two!Next <=> (\E s \in Pair : A(s)) \/ Two!MarkDeleted \/ Two!DeletionStep
                     \/ Two!DeletionFault
    BY DEF Two!Next
  <2>3. TwoProofs!Next <=> (\E s \in Pair : B(s)) \/ TwoProofs!MarkDeleted
                           \/ TwoProofs!DeletionStep \/ TwoProofs!DeletionFault
    BY DEF TwoProofs!Next
  <2> HIDE DEF A, B
  <2> QED BY <1>8, <2>1, <2>2, <2>3
<1> QED BY <1>1, <1>2, <1>3, <1>9

LEMMA TwoInOrder == StreamsSpec => [](kind = "TWO" => Two!ReceivedInOrder)
<1>1. StreamsInit => (kind = "TWO" => TwoProofs!StoreInv)
  BY SameTwo, PairConstants, TwoProofs!StoreInvInit DEF StreamsInit
<1>2. /\ kind = "TWO" => TwoProofs!StoreInv
      /\ [StreamsNext]_<<kind, vars, memVars, busVars, sseVars>>
      => (kind = "TWO" => TwoProofs!StoreInv)'
  <2> SUFFICES ASSUME kind = "TWO" => TwoProofs!StoreInv,
                      [StreamsNext]_<<kind, vars, memVars, busVars, sseVars>>,
                      kind' = "TWO"
               PROVE  TwoProofs!StoreInv'
    OBVIOUS
  <2>1. kind = "TWO" /\ (Two!Next \/ UNCHANGED vars)
    BY DEF StreamsNext
  <2>2. [TwoProofs!Next]_TwoProofs!vars
    BY <2>1, SameTwo DEF vars, TwoProofs!vars
  <2> QED BY <2>1, <2>2, PairConstants, TwoProofs!StoreInvStep
<1>3. TwoProofs!StoreInv => Two!ReceivedInOrder
  BY SameTwo, PairConstants, TwoProofs!OrderFollows
<1> QED BY <1>1, <1>2, <1>3, PTL DEF StreamsSpec

-----------------------------------------------------------------------------
(* All of them.                                                             *)

LEMMA OneOfTheFive == StreamsSpec => [](kind \in {"TWO", "ONE", "MEMORY", "BUS", "SSE"})
<1>1. StreamsInit => kind \in {"TWO", "ONE", "MEMORY", "BUS", "SSE"}
  BY DEF StreamsInit
<1>2. /\ kind \in {"TWO", "ONE", "MEMORY", "BUS", "SSE"}
      /\ [StreamsNext]_<<kind, vars, memVars, busVars, sseVars>>
      => (kind \in {"TWO", "ONE", "MEMORY", "BUS", "SSE"})'
  BY DEF StreamsNext
<1> QED BY <1>1, <1>2, PTL DEF StreamsSpec

\* Beside the one stream: two streams of a session, the memory store, the event bus and the
\* response that carries a stream are safe, for any streams, events, limits and bounds.
THEOREM OthersAlwaysSafe == StreamsSpec => []OthersSafe
<1>1. /\ kind \in {"TWO", "ONE", "MEMORY", "BUS", "SSE"}
      /\ kind = "TWO" => Two!ReceivedInOrder
      /\ kind = "MEMORY" => MemInv
      /\ kind = "BUS" => BusInv
      /\ kind = "SSE" => SseInv
      => OthersSafe
  <2> SUFFICES ASSUME kind \in {"TWO", "ONE", "MEMORY", "BUS", "SSE"},
                      kind = "TWO" => Two!ReceivedInOrder,
                      kind = "MEMORY" => Mem!ReceivedInOrder,
                      kind = "BUS" => Bus!BusSafe,
                      kind = "SSE" => Sse!BodyWhole
               PROVE  OthersSafe
    BY MemInOrder, BusInvSafe, SseInvSafe
  <2> QED BY Zenon DEF OthersSafe
<1> QED BY <1>1, OneOfTheFive, TwoInOrder, MemInvOfStreams, BusInvOfStreams, SseInvOfStreams, PTL

=============================================================================

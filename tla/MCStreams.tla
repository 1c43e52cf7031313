------------------------------ MODULE MCStreams ------------------------------
(***************************************************************************)
(* Small instances of what stores events for those who follow them.  A       *)
(* behaviour is one of one of them: the DynamoDB stream store as the         *)
(* configuration gives it, with one stream, faults and a deletion (ONE), or  *)
(* with two streams (TWO), the memory stream store with two streams and a    *)
(* deletion (MEMORY), the event bus (BUS), or the response that carries a    *)
(* stream to its client (SSE).                                               *)
(***************************************************************************)
EXTENDS DynamoStreamStore

CONSTANTS Pair,       \* the streams of TWO and of MEMORY
          PairFinal,  \* the number of the final response's event in them
          Events, RetryAttempts, Limit, MaxClock, MaxCalls,  \* of BUS
          MaxEvents                                          \* of SSE

ASSUME PairAssumption == IsFiniteSet(Pair) /\ PairFinal \in Nat /\ PairFinal >= 2
ASSUME BusAssumption == Events \subseteq Nat /\ {Limit, MaxClock} \subseteq Nat \ {0}
ASSUME SseAssumption == MaxEvents \in Nat

VARIABLES kind, memNextSeq, known, stream, memTool, memSub, deleted, memGot,
          memDisconnects,
          durable, clock, items, publishedAt, publish, busDeletion, query, stored,
          lasting, steady,
          via, total, endless, bad, sent, forward, writer, done, pipe, left, gotOf, saw

memVars == <<memNextSeq, known, stream, memTool, memSub, deleted, memGot,
             memDisconnects>>
busVars == <<durable, clock, items, publishedAt, publish, busDeletion, query, stored,
             lasting, steady>>
sseVars == <<via, total, endless, bad, sent, forward, writer, done, pipe, left, gotOf, saw>>

Two == INSTANCE DynamoStreamStore WITH
    Streams <- Pair, Final <- PairFinal, Spilled <- {}, Oversized <- {}, MaxFaults <- 0,
    Deletable <- FALSE
Mem == INSTANCE MemoryStreamStore WITH
    Streams <- Pair, Final <- PairFinal, nextSeq <- memNextSeq, tool <- memTool,
    sub <- memSub, got <- memGot, disconnects <- memDisconnects
Bus == INSTANCE EventBus WITH deletion <- busDeletion
Sse == INSTANCE SseStream WITH ended <- done, got <- gotOf

StreamsInit ==
    /\ kind \in {"TWO", "ONE", "MEMORY", "BUS", "SSE"}
    /\ IF kind = "TWO" THEN Two!Init ELSE Init
    /\ Mem!Init
    /\ Bus!Init /\ (kind # "BUS" => durable)
    /\ \/ kind = "SSE" /\ Sse!Init
       \/ /\ kind # "SSE"
          /\ via = 0 /\ total = 0 /\ endless = 0 /\ bad = 0 /\ sent = 0 /\ forward = 0
          /\ writer = 0 /\ done = 0 /\ pipe = 0 /\ left = 0 /\ gotOf = 0 /\ saw = 0
StreamsNext ==
    /\ \/ kind = "ONE"    /\ Next     /\ UNCHANGED <<memVars, busVars, sseVars>>
       \/ kind = "TWO"    /\ Two!Next /\ UNCHANGED <<memVars, busVars, sseVars>>
       \/ kind = "MEMORY" /\ Mem!Next /\ UNCHANGED <<vars, busVars, sseVars>>
       \/ kind = "BUS"    /\ Bus!Next /\ UNCHANGED <<vars, memVars, sseVars>>
       \/ kind = "SSE"    /\ Sse!Next /\ UNCHANGED <<vars, memVars, busVars>>
    /\ UNCHANGED kind
StreamsSpec == StreamsInit /\ [][StreamsNext]_<<kind, vars, memVars, busVars, sseVars>>

-----------------------------------------------------------------------------
\* The items, the tools and the subscriptions are well formed.
StreamsTypeOK ==
    CASE kind = "ONE"    -> TypeOK
      [] kind = "TWO"    -> Two!TypeOK
      [] kind = "MEMORY" -> Mem!TypeOK
      [] kind = "BUS"    -> Bus!TypeOK
      [] kind = "SSE"    -> Sse!TypeOK

\* What the client of a tool call receives from DynamoDB is of its stream, in
\* order and only once, however often it reconnects.  While its session lives, it
\* misses nothing of the only stream, and nothing of it is left out at its end
\* (see stream_final_dropped for two).
ClientsReceive ==
    kind = "ONE" => ReceivedInOrder /\ ReceivedWithoutGap /\ ClosedAfterAll

\* After DeleteSession no event is left and none is created, in DynamoDB, and the
\* payloads in S3 are those of the events there are.
EventsStayGone == kind = "ONE" => EventsStayDeleted /\ PayloadsFollowEvents

\* Two streams of one session do not mix in DynamoDB.  In the memory store ids rise, and
\* a client leaves its own stream only by a resume after a deletion.  An event is
\* published once, whichever answers are lost, and the pages of a query hold each event
\* that lasts (EventBus).  The response that carries a stream ends well only after all
\* of it (SseStream).
OthersSafe ==
    CASE kind = "ONE"    -> TRUE
      [] kind = "TWO"    -> Two!ReceivedInOrder
      [] kind = "MEMORY" -> Mem!ReceivedInOrder
      [] kind = "BUS"    -> Bus!BusSafe
      [] kind = "SSE"    -> Sse!BodyWhole

\* A stream of either store is a log as StreamLog describes it.  The memory
\* store promises more than DynamoDB's: a deletion closes the stream, and it is
\* removed only for a client that has resumed another one since.
MemLog(s) ==
    INSTANCE StreamLog WITH
        Events <- Mem!Event,
        log    <- stream[s].events,
        state  <- CASE memSub[s].of # s -> "removed"
                    [] memSub[s].of = s /\ stream[s].closed -> "closed"
                    [] OTHER -> "open",
        seen   <- memGot[s],
        ended  <- memSub[s].step = "closed"
StreamsImplementStreamLog ==
    /\ kind = "ONE" => \A s \in Streams : Stream(s)!Init
    /\ [][ kind = "ONE"
             => \A s \in Streams : Stream(s)!Next \/ UNCHANGED Stream(s)!vars ]_vars
    /\ kind = "MEMORY" => \A s \in Pair : MemLog(s)!Init
    /\ [][ kind = "MEMORY"
             => \A s \in Pair : MemLog(s)!Next \/ UNCHANGED MemLog(s)!vars ]_memVars
=============================================================================

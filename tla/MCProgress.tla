------------------------------ MODULE MCProgress ------------------------------
(***************************************************************************)
(* What must happen in the end, on small instances: a behaviour is one of   *)
(* the DynamoDB stream store (DYNAMO), of the memory stream store (MEMORY),  *)
(* of a MicroVM controller (MICROVM), of a rate limiter (LIMITER), of a task  *)
(* (TASK) or of a streamed response (SSE), each under its own fairness.      *)
(***************************************************************************)
EXTENDS MicroVM

CONSTANTS a, s1, v1, c1, c2

VARIABLES kind,
          session, nextSeq, meta, events, objects, tool, sub, deletion, log, acked, got,
          faults, disconnects,
          memNextSeq, known, stream, memTool, memSub, deleted, memGot,
          memDisconnects,
          strategy, clock, count, limCall, admitted, limTold, reaped,
          item, past, taskTool, tracked, stopped, cancel, wait, removed,
          via, total, endless, bad, sent, forward, writer, ended, pipe, left, sseGot, saw

dynamoVars == <<session, nextSeq, meta, events, objects, tool, sub, deletion, log,
                acked, got, faults, disconnects>>
memVars == <<memNextSeq, known, stream, memTool, memSub, deleted, memGot,
             memDisconnects>>
limVars == <<strategy, clock, count, limCall, admitted, limTold, reaped>>
taskVars == <<item, past, taskTool, tracked, stopped, cancel, wait, removed>>
sseVars == <<via, total, endless, bad, sent, forward, writer, ended, pipe, left, sseGot, saw>>
allVars == <<kind, vars, dynamoVars, memVars, limVars, taskVars, sseVars>>

Dynamo == INSTANCE DynamoStreamStore WITH
    Streams <- {a}, Final <- 3, Spilled <- {2}, Oversized <- {3}, BatchSize <- 1,
    MaxFaults <- 0, MaxDisconnects <- 1, Deletable <- TRUE
Mem == INSTANCE MemoryStreamStore WITH
    Streams <- {a}, Final <- 3, MaxDisconnects <- 1, Deletable <- TRUE,
    nextSeq <- memNextSeq, tool <- memTool, sub <- memSub, got <- memGot,
    disconnects <- memDisconnects
\* A window of one request that lasts two seconds: the second is denied.
Lim == INSTANCE RateLimiter WITH
    Callers <- {c1, c2},
    Strategies <- {[kind |-> "fixed", parts |-> 1, checked |-> FALSE,
                    windows |-> {[size |-> 2, max |-> 1]}]},
    Grace <- 0, CallTime <- 0, MaxClock <- 2, MaxRecorded <- 0,
    call <- limCall, told <- limTold
\* One task that one request cancels.
Task == INSTANCE McpTasks WITH
    Tasks <- {a}, Cancels <- {c1}, Waits <- {}, tool <- taskTool
Sse == INSTANCE SseStream WITH MaxEvents <- 2, got <- sseGot

ProgressInit ==
    /\ kind \in {"DYNAMO", "MEMORY", "MICROVM", "LIMITER", "TASK", "SSE"}
    /\ Sse!Init /\ (kind # "SSE" => via = "channel" /\ total = 0 /\ endless)
    /\ Init /\ Dynamo!Init /\ Mem!Init /\ Lim!Init /\ Task!Init
    /\ kind # "MICROVM" => provider
\* One client commands, the other gets the session's state again and again and is
\* answered, unless its command fails.
PollerGets == call[Poller].command = "get"
PollerAnswered == \A s \in Sessions : Put(Poller, s, FALSE) => Put(Poller, s, TRUE)
ProgressNext ==
    /\ \/ kind = "MICROVM" /\ Next /\ PollerGets' /\ PollerAnswered
          /\ UNCHANGED <<dynamoVars, memVars, limVars, taskVars, sseVars>>
       \/ /\ kind = "DYNAMO" /\ Dynamo!Next
          /\ UNCHANGED <<vars, memVars, limVars, taskVars, sseVars>>
       \/ /\ kind = "MEMORY" /\ Mem!Next
          /\ UNCHANGED <<vars, dynamoVars, limVars, taskVars, sseVars>>
       \/ /\ kind = "LIMITER" /\ Lim!Next
          /\ UNCHANGED <<vars, dynamoVars, memVars, taskVars, sseVars>>
       \/ /\ kind = "TASK" /\ Task!Next
          /\ UNCHANGED <<vars, dynamoVars, memVars, limVars, sseVars>>
       \/ /\ kind = "SSE" /\ Sse!Next
          /\ UNCHANGED <<vars, dynamoVars, memVars, limVars, taskVars>>
    /\ UNCHANGED kind

\* A tool goes on, a subscription polls or is woken, DeleteSession goes on: each
\* is a goroutine that only storage that answers stands in the way of.
StreamsFairness ==
    /\ WF_dynamoVars(kind = "DYNAMO" /\ Dynamo!ToolStep(a))
    /\ WF_dynamoVars(kind = "DYNAMO" /\ Dynamo!PumpStep(a))
    /\ WF_dynamoVars(kind = "DYNAMO" /\ Dynamo!DeletionStep)
    /\ WF_memVars(kind = "MEMORY" /\ Mem!ToolStep(a))
    /\ WF_memVars(kind = "MEMORY" /\ Mem!PumpStep(a))
    /\ WF_memVars(kind = "MEMORY" /\ Mem!BroadcastOnDone(a))

\* The provider brings a change to its end, a command ends, and the poller is
\* answered again and again.
MicroVMFairness ==
    /\ \A v \in VMs : WF_vars(kind = "MICROVM" /\ Settle(v))
    /\ \A c \in Callers : WF_vars(kind = "MICROVM" /\ (Step(c) \/ Fail(c)))
    /\ \A s \in Sessions :
          /\ SF_vars(kind = "MICROVM" /\ Get(Poller, "get", s))
          /\ SF_vars(kind = "MICROVM" /\ call[Poller].targets = {s} /\ Observe(Poller, {s}))
          /\ SF_vars(kind = "MICROVM" /\ call[Poller].targets = {s} /\ Put(Poller, s, TRUE))

\* A call goes on, and a replica that is read again and again catches up.
LimiterFairness ==
    \A c \in {c1, c2} :
        /\ WF_limVars(kind = "LIMITER" /\ Lim!Step(c))
        /\ SF_limVars(kind = "LIMITER" /\ Lim!LoadEntry(c, TRUE))

\* A goroutine of the task goes on, and its tool ends.
TaskFairness == WF_taskVars(kind = "TASK" /\ Task!RunTool(a))

\* The goroutines of a response go on, and the client reads on.
SseFairness ==
    /\ WF_sseVars(kind = "SSE" /\ Sse!ForwardStops)
    /\ WF_sseVars(kind = "SSE" /\ Sse!Forward)
    /\ WF_sseVars(kind = "SSE" /\ Sse!Pump)
    /\ WF_sseVars(kind = "SSE" /\ Sse!See)

ProgressSpec ==
    /\ ProgressInit /\ [][ProgressNext]_allVars
    /\ StreamsFairness /\ MicroVMFairness /\ LimiterFairness /\ TaskFairness
    /\ SseFairness

-----------------------------------------------------------------------------
\* A client that waits for a tool's result gets to the end of its stream, in
\* either store: no write of the tool and no wake-up is lost on the way.  The
\* response that carries the stream ends too, and so do its goroutines.
ToolSubscriptionsEnd ==
    Dynamo!SubscriptionsEnd /\ Mem!SubscriptionsEnd /\ Sse!GoroutinesEnd

\* DeleteSession ends although tools keep writing to the session.
SessionDeletionEnds == Dynamo!DeletionEnds

\* A caller of CheckAndIncrement gets an answer, although its call is made again
\* whenever it loses the race to create the item; the two callers are alike.
CallsEnd == Lim!CallEnds(c1)

\* A task whose tool runs comes to an outcome, is removed, or its instance or its
\* store has failed it.
TaskSettles == Task!TaskSettles
=============================================================================

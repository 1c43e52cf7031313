-------------------------- MODULE DynamoStreamStore --------------------------
(***************************************************************************)
(* The streams of one MCP session in DynamoDB (runtime/mcp/                 *)
(* stream_store_dynamo.go) as the server uses them (runtime/mcp/server.go): *)
(* each streaming tools/call creates a stream, appends a priming event,     *)
(* progress events and the final response, and closes it; the client of the *)
(* call follows the stream and resumes it with Last-Event-ID; DELETE /mcp   *)
(* removes all of the session's streams while tools are still running.      *)
(*                                                                         *)
(* Each access to DynamoDB is a step of its own.  Two reads with no write   *)
(* of the same process in between are one step where the first can only     *)
(* turn into the same outcome earlier.  A large payload is an object of S3, *)
(* put before the event's item refers to it.  The TTL does not pass.        *)
(***************************************************************************)
EXTENDS Integers, FiniteSets, SequencesExt

CONSTANTS Streams,         \* one per streaming tools/call of the session
          Final,            \* the number of the final response's event
          Spilled,         \* the events with payloads that are spilled to S3
          Oversized,       \* the events with payloads that no store takes
          BatchSize,       \* queryBatchSize()
          MaxFaults,       \* bound on storage errors and crashes, for TLC
          MaxDisconnects,  \* bound on each client's reconnects, for TLC
          Deletable        \* whether the client may delete the session

ASSUME FinalAssumption == Final \in Nat /\ Final >= 2
ASSUME BatchSizeAssumption == BatchSize \in Nat \ {0}
ASSUME BoundsAssumption ==
    MaxFaults \in Nat /\ MaxDisconnects \in Nat /\ Deletable \in BOOLEAN

ASSUME PayloadAssumption == Spilled \subseteq Nat /\ Oversized \subseteq Nat

VARIABLES session,  \* the !session item: its Deleted flag, or "none"
          nextSeq,  \* NextSeq of the !session item
          meta,     \* each stream's !stream# item: "none", "open" or "closed"
          events,   \* the event items
          objects,  \* the spilled payloads, named after their events' ids
          tool,     \* each stream's writer, runStreamingTool
          sub,      \* each stream's subscription, pumpSubscription
          deletion, \* the DeleteSession call
          log,      \* history: the events committed to each stream
          acked,    \* history: the spilled events whose append was answered
          got,      \* history: the events each stream's client received
          faults,
          disconnects

table == <<session, nextSeq, meta, events, objects>>
bounds == <<faults, disconnects>>
vars == <<session, nextSeq, meta, events, objects, tool, sub, deletion, log, acked,
          got, faults, disconnects>>

\* Event number 1 primes the stream, Final is the response, and Final + 1 the
\* delivery error appended when the response could not be.
Numbers == 1 .. Final + 1
Seqs == 1 .. Cardinality(Streams) * (Final + 1)
Event == [seq : Seqs, stream : Streams, n : Numbers]

ToolSteps == {"touch", "create", "target", "sequence", "spill", "commit", "cleanup",
              "close", "put", "done"}
SubSteps == {"new", "load", "forward", "send", "status", "closed", "gone", "off"}

TypeOK ==
    /\ session \in {"none", "active", "deleted"}
    /\ nextSeq \in 0 .. Cardinality(Seqs)
    /\ meta \in [Streams -> {"none", "open", "closed"}]
    /\ events \subseteq Event
    /\ objects \subseteq Seqs
    /\ tool \in [Streams -> [step : ToolSteps, n : Numbers, seq : Seqs \cup {0},
                             read : {"none", "open", "closed"}]]
    /\ sub \in [Streams -> [step : SubSteps, cursor : Seqs \cup {0},
                            batch : SUBSET Event, full : BOOLEAN, drain : BOOLEAN]]
    /\ deletion \in [step : {"none", "list", "delete", "quiet", "done", "failed"},
                     streams : SUBSET Streams, events : SUBSET Event,
                     passes : 0 .. 2]
    /\ log \in [Streams -> Seq(Event)]
    /\ acked \in [Streams -> SUBSET Numbers]
    /\ got \in [Streams -> Seq(Event)]
    /\ faults \in 0 .. MaxFaults
    /\ disconnects \in [Streams -> 0 .. MaxDisconnects]

Init ==
    /\ session = "none"
    /\ nextSeq = 0
    /\ meta = [s \in Streams |-> "none"]
    /\ events = {}
    /\ objects = {}
    /\ tool = [s \in Streams |->
                 [step |-> "touch", n |-> 1, seq |-> 0, read |-> "none"]]
    /\ sub = [s \in Streams |->
                [step |-> "new", cursor |-> 0, batch |-> {},
                 full |-> FALSE, drain |-> FALSE]]
    /\ deletion = [step |-> "none", streams |-> {}, events |-> {}, passes |-> 0]
    /\ log = [s \in Streams |-> <<>>]
    /\ acked = [s \in Streams |-> {}]
    /\ got = [s \in Streams |-> <<>>]
    /\ faults = 0
    /\ disconnects = [s \in Streams |-> 0]

-----------------------------------------------------------------------------
(* The writer of a stream.                                                  *)

\* The spill store: objects of S3 named after their events.
PutPayload(seq) == objects' = objects \cup {seq}
DropPayload(seq) == objects' = objects \ {seq}
PayloadFound(e) == e.n \in Spilled => e.seq \in objects

ToolGoes(s, step) == tool' = [tool EXCEPT ![s].step = step]

\* Where the writer goes after an append: a stream that cannot be primed is
\* closed at once, a lost progress event is skipped, and a response that could
\* not be appended is replaced by a delivery error, once.
AfterAppend(s, ok) ==
    LET n == tool[s].n
        closing == IF n = 1 THEN ~ok ELSE n = Final + 1 \/ (n = Final /\ ok)
    IN  tool' = [tool EXCEPT ![s].step = IF closing THEN "close" ELSE "target",
                             ![s].n    = IF closing THEN n ELSE n + 1]

\* touchSessionState: conditional on a session that is not deleted.
CreateTouch(s) ==
    /\ tool[s].step = "touch"
    /\ \/ /\ session = "deleted"
          /\ ToolGoes(s, "done")
          /\ UNCHANGED session
       \/ /\ session # "deleted"
          /\ session' = "active"
          /\ ToolGoes(s, "create")
    /\ UNCHANGED <<nextSeq, meta, events, objects, sub, deletion, log, acked, got, bounds>>

\* The stream's metadata item, written whatever happened to the session since.
CreateMetadata(s) ==
    /\ tool[s].step = "create"
    /\ meta' = [meta EXCEPT ![s] = "open"]
    /\ ToolGoes(s, "target")
    /\ UNCHANGED <<session, nextSeq, events, objects, sub, deletion, log, acked, got, bounds>>

Found(s) == session # "deleted" /\ meta[s] # "none"

\* appendTarget: Append keeps the metadata as it reads it here.  A payload that
\* is too large fails before it has an id.
AppendTarget(s) ==
    /\ tool[s].step = "target"
    /\ \/ /\ Found(s) /\ tool[s].n \notin Oversized
          /\ tool' = [tool EXCEPT ![s].step = "sequence", ![s].read = meta[s]]
       \/ /\ ~Found(s) \/ tool[s].n \in Oversized
          /\ AfterAppend(s, FALSE)
    /\ UNCHANGED <<table, sub, deletion, log, acked, got, bounds>>

\* Mutant: the counter is added to twice.
AppendSequenceTwice(s) ==
    /\ tool[s].step = "sequence"
    /\ \/ /\ session = "deleted"
          /\ AfterAppend(s, FALSE)
          /\ UNCHANGED <<session, nextSeq>>
       \/ /\ session # "deleted"
          /\ session' = "active"
          /\ nextSeq' = nextSeq + 2
          /\ tool' = [tool EXCEPT ![s].step = IF tool[s].n \in Spilled THEN "spill"
                                             ELSE "commit",
                                 ![s].seq  = nextSeq + 2]
    /\ UNCHANGED <<meta, events, objects, sub, deletion, log, acked, got, bounds>>

\* nextSessionEventID: an atomic add, conditional like touchSessionState.
AppendSequence(s) ==
    /\ tool[s].step = "sequence"
    /\ \/ /\ session = "deleted"
          /\ AfterAppend(s, FALSE)
          /\ UNCHANGED <<session, nextSeq>>
       \/ /\ session # "deleted"
          /\ session' = "active"
          /\ nextSeq' = nextSeq + 1
          /\ tool' = [tool EXCEPT ![s].step = IF tool[s].n \in Spilled THEN "spill"
                                             ELSE "commit",
                                 ![s].seq  = nextSeq + 1]
    /\ UNCHANGED <<meta, events, objects, sub, deletion, log, acked, got, bounds>>

\* requireAppendSessionActive reads the session, and spillStreamData puts the
\* payload, which a deletion may then have overtaken.
AppendSpill(s) ==
    /\ tool[s].step = "spill"
    /\ \/ /\ PutPayload(tool[s].seq)
          /\ ToolGoes(s, "commit")
       \/ /\ session = "deleted"
          /\ AfterAppend(s, FALSE)
          /\ UNCHANGED objects
    /\ UNCHANGED <<session, nextSeq, meta, events, sub, deletion, log, acked, got, bounds>>

\* Mutant: a payload whose event was not created stays.
CommitFailsPlain(s) == AfterAppend(s, FALSE)

\* When the transaction fails the payload is deleted again.
CommitFails(s) ==
    IF tool[s].n \in Spilled THEN ToolGoes(s, "cleanup") ELSE AfterAppend(s, FALSE)

\* Mutant: the event is created without the check of the session.
CommitEventUnchecked(s) ==
    LET e == [seq |-> tool[s].seq, stream |-> s, n |-> tool[s].n]
    IN  /\ meta' = [meta EXCEPT ![s] = tool[s].read]
        /\ events' = events \cup {e}
        /\ log' = [log EXCEPT ![s] = Append(@, e)]

\* createActiveSessionStreamEvent: the transaction checks the session, puts the
\* metadata back as it was read and creates the event.
CommitEvent(s) ==
    LET e == [seq |-> tool[s].seq, stream |-> s, n |-> tool[s].n]
    IN  /\ session = "active"
        /\ meta' = [meta EXCEPT ![s] = tool[s].read]
        /\ events' = events \cup {e}
        /\ log' = [log EXCEPT ![s] = Append(@, e)]

AppendCommit(s) ==
    /\ tool[s].step = "commit"
    /\ \/ /\ CommitEvent(s)
          /\ AfterAppend(s, TRUE)
          /\ acked' = [acked EXCEPT ![s] = @ \cup ({tool[s].n} \cap Spilled)]
       \/ /\ session # "active"
          /\ CommitFails(s)
          /\ UNCHANGED <<meta, events, log, acked>>
    /\ UNCHANGED <<session, nextSeq, objects, sub, deletion, got, bounds>>

\* cleanupSpilledStreamEvent
AppendCleanup(s) ==
    /\ tool[s].step = "cleanup"
    /\ DropPayload(tool[s].seq)
    /\ AfterAppend(s, FALSE)
    /\ UNCHANGED <<session, nextSeq, meta, events, sub, deletion, log, acked, got, bounds>>

\* Close reads the metadata and the session ...
CloseRead(s) ==
    /\ tool[s].step = "close"
    /\ ToolGoes(s, IF Found(s) THEN "put" ELSE "done")
    /\ UNCHANGED <<table, sub, deletion, log, acked, got, bounds>>

\* Mutant: the metadata goes back as it was read.
ClosePutAsRead(s) ==
    /\ tool[s].step = "put"
    /\ meta' = [meta EXCEPT ![s] = "open"]
    /\ ToolGoes(s, "done")
    /\ UNCHANGED <<session, nextSeq, events, objects, sub, deletion, log, acked, got, bounds>>

\* ... and then writes the metadata, unconditionally.
ClosePut(s) ==
    /\ tool[s].step = "put"
    /\ meta' = [meta EXCEPT ![s] = "closed"]
    /\ ToolGoes(s, "done")
    /\ UNCHANGED <<session, nextSeq, events, objects, sub, deletion, log, acked, got, bounds>>

\* A write of the writer is made although its caller sees an error.
MadeWithError(s) ==
    \/ /\ tool[s].step \in {"touch", "sequence"}
       /\ session # "deleted"
       /\ session' = "active"
       /\ nextSeq' = IF tool[s].step = "sequence" THEN nextSeq + 1 ELSE nextSeq
       /\ UNCHANGED <<meta, events, objects, log>>
    \/ /\ tool[s].step \in {"create", "put"}
       /\ meta' = [meta EXCEPT ![s] = IF tool[s].step = "put" THEN "closed" ELSE "open"]
       /\ UNCHANGED <<session, nextSeq, events, objects, log>>
    \/ /\ tool[s].step = "commit"
       /\ CommitEvent(s)
       /\ UNCHANGED <<session, nextSeq, objects>>
    \/ /\ tool[s].step \in {"spill", "cleanup"}
       /\ IF tool[s].step = "spill" THEN PutPayload(tool[s].seq) ELSE DropPayload(tool[s].seq)
       /\ UNCHANGED <<session, nextSeq, meta, events, log>>

\* A storage access of the writer fails.
ToolFault(s) ==
    /\ tool[s].step # "done"
    /\ faults < MaxFaults
    /\ faults' = faults + 1
    /\ CASE tool[s].step \in {"target", "sequence", "spill", "cleanup"} -> AfterAppend(s, FALSE)
         [] tool[s].step = "commit" -> CommitFails(s)
         [] OTHER -> ToolGoes(s, "done")
    /\ UNCHANGED <<table, log>> \/ MadeWithError(s)
    /\ UNCHANGED <<sub, deletion, acked, got, disconnects>>

\* The process running the tool dies: nothing closes the stream.
ToolCrash(s) ==
    /\ tool[s].step # "done"
    /\ faults < MaxFaults
    /\ faults' = faults + 1
    /\ ToolGoes(s, "done")
    /\ UNCHANGED <<table, sub, deletion, log, acked, got, disconnects>>

-----------------------------------------------------------------------------
(* The subscription of a stream's client.                                   *)

Following(s) == sub[s].step \in {"load", "forward", "send", "status"}

StartPump(s, after) ==
    sub' = [sub EXCEPT ![s] = [step |-> "load", cursor |-> after, batch |-> {},
                               full |-> FALSE, drain |-> FALSE]]

\* handleToolsCallStream subscribes from the start once the stream is primed.
Subscribe(s) ==
    /\ sub[s].step = "new"
    /\ tool[s].n > 1
    /\ IF Found(s) THEN StartPump(s, 0)
                   ELSE sub' = [sub EXCEPT ![s].step = "gone"]
    /\ UNCHANGED <<table, tool, deletion, log, acked, got, bounds>>

\* The client's connection breaks, or its request ends.
Disconnect(s) ==
    /\ Following(s)
    /\ disconnects[s] < MaxDisconnects
    /\ disconnects' = [disconnects EXCEPT ![s] = @ + 1]
    /\ sub' = [sub EXCEPT ![s].step = "off", ![s].batch = {}]
    /\ UNCHANGED <<table, tool, deletion, log, acked, got, faults>>

\* handleGET: StreamForEvent and Subscribe with the last event id the client
\* has; both look the event up and fail when it or the session is gone.
Resume(s) ==
    /\ sub[s].step = "off"
    /\ got[s] # <<>>
    /\ IF Found(s) /\ \E e \in events : e.seq = Last(got[s]).seq /\ e.stream = s
         THEN StartPump(s, Last(got[s]).seq)
         ELSE sub' = [sub EXCEPT ![s].step = "gone"]
    /\ UNCHANGED <<table, tool, deletion, log, acked, got, bounds>>

\* The first BatchSize of the events by their ids, all of them if they are fewer:
\* there is one such batch.
Batches(later) ==
    {batch \in SUBSET later :
        /\ \A e \in batch, d \in later \ batch : e.seq < d.seq
        /\ \/ Cardinality(batch) = BatchSize
           \/ batch = later /\ Cardinality(batch) < BatchSize}

\* Mutant: reads from the cursor on, the event at it included.
EventsFrom(cursor) == Batches({e \in events : e.seq >= cursor})

\* A consistent read of the session's events after the cursor, of all streams.
EventsAfter(cursor) == Batches({e \in events : e.seq > cursor})

\* Mutant: every event of the session is forwarded.
LoadAllStreams(s) ==
    /\ sub[s].step = "load"
    /\ \E records \in EventsAfter(sub[s].cursor) :
         \E cursor \in {sub[s].cursor} \cup {e.seq : e \in records} :
           /\ \A e \in records : e.seq <= cursor
           /\ sub' = [sub EXCEPT
                        ![s].step   = "forward",
                        ![s].cursor = cursor,
                        ![s].batch  = records,
                        ![s].full   = Cardinality(records) >= BatchSize]
    /\ UNCHANGED <<table, tool, deletion, log, acked, got, bounds>>

\* The cursor moves past every event of the batch, the client's stream's are
\* forwarded.
Load(s) ==
    /\ sub[s].step = "load"
    /\ \E records \in EventsAfter(sub[s].cursor) :
         \E cursor \in {sub[s].cursor} \cup {e.seq : e \in records} :
           /\ \A e \in records : e.seq <= cursor
           /\ sub' = [sub EXCEPT
                        ![s].step   = "forward",
                        ![s].cursor = cursor,
                        ![s].batch  = {e \in records : e.stream = s},
                        ![s].full   = Cardinality(records) >= BatchSize]
    /\ UNCHANGED <<table, tool, deletion, log, acked, got, bounds>>

\* An event that comes before the others, by its id.
Leads(e, others) == e \in others /\ \A d \in others : e.seq <= d.seq

\* streamRecordData: a payload that was spilled is read back; when it is gone the
\* subscription ends, without a word to its client.
Rehydrate(s) ==
    /\ sub[s].step = "forward"
    /\ \E e \in sub[s].batch :
         /\ Leads(e, sub[s].batch)
         /\ sub' = IF PayloadFound(e) THEN [sub EXCEPT ![s].step = "send"]
                   ELSE [sub EXCEPT ![s].step = "off", ![s].batch = {}]
    /\ UNCHANGED <<table, tool, deletion, log, acked, got, bounds>>

\* forwardDynamoSubscriptionEvents: each event waits for the client to take it.
Forward(s) ==
    /\ sub[s].step = "send"
    /\ \E e \in sub[s].batch :
         /\ Leads(e, sub[s].batch)
         /\ got' = [got EXCEPT ![s] = Append(@, e)]
         /\ sub' = [sub EXCEPT ![s].step = "forward", ![s].batch = @ \ {e}]
    /\ UNCHANGED <<table, tool, deletion, log, acked, bounds>>

\* A full batch is followed by another one; otherwise the stream may be over.
Forwarded(s) ==
    /\ sub[s].step = "forward"
    /\ sub[s].batch = {}
    /\ sub' = [sub EXCEPT ![s].step = IF sub[s].full THEN "load" ELSE "status"]
    /\ UNCHANGED <<table, tool, deletion, log, acked, got, bounds>>

\* Mutant: no drain pass.
CheckClosedNoDrain(s) ==
    /\ sub[s].step = "status"
    /\ sub' = [sub EXCEPT
                 ![s].step = IF ~Found(s) THEN "gone"
                             ELSE IF meta[s] = "closed" THEN "closed"
                             ELSE "load"]
    /\ UNCHANGED <<table, tool, deletion, log, acked, got, bounds>>

\* isStreamClosed: the first time the stream is seen closed, the events are read
\* once more; an open stream is polled again.
CheckClosed(s) ==
    /\ sub[s].step = "status"
    /\ sub' = [sub EXCEPT
                 ![s].step  = IF ~Found(s) THEN "gone"
                              ELSE IF sub[s].drain THEN "closed"
                              ELSE "load",
                 ![s].drain = Found(s) /\ (@ \/ meta[s] = "closed")]
    /\ UNCHANGED <<table, tool, deletion, log, acked, got, bounds>>

PumpFault(s) ==
    /\ \/ sub[s].step \in {"load", "status"}
       \/ /\ sub[s].step = "forward"
          /\ \E e \in sub[s].batch : Leads(e, sub[s].batch) /\ e.n \in Spilled
    /\ faults < MaxFaults
    /\ faults' = faults + 1
    /\ sub' = [sub EXCEPT ![s].step = "off", ![s].batch = {}]
    /\ UNCHANGED <<table, tool, deletion, log, acked, got, disconnects>>

-----------------------------------------------------------------------------
(* DeleteSession.                                                           *)

\* markSessionDeleted
MarkDeleted ==
    /\ Deletable
    /\ deletion.step = "none"
    /\ session' = "deleted"
    /\ deletion' = [deletion EXCEPT !.step = "list"]
    /\ UNCHANGED <<nextSeq, meta, events, objects, tool, sub, log, acked, got, bounds>>

\* Mutant: every pass counts as the first.
ListRecordsForever ==
    /\ deletion.step \in {"list", "quiet"}
    /\ LET streams == {s \in Streams : meta[s] # "none"}
       IN  deletion' =
             IF streams = {} /\ events = {}
               THEN [deletion EXCEPT !.step = "quiet", !.passes = 1]
               ELSE [step |-> "delete", streams |-> streams, events |-> events,
                     passes |-> 0]
    /\ UNCHANGED <<table, tool, sub, log, acked, got, bounds>>

\* listSessionRecords: a consistent read of everything but the session item.
\* Two passes in a row that find nothing end the deletion.
ListRecords ==
    /\ deletion.step \in {"list", "quiet"}
    /\ LET streams == {s \in Streams : meta[s] # "none"}
           passes  == deletion.passes + 1
       IN  deletion' =
             IF streams = {} /\ events = {}
               THEN [deletion EXCEPT !.step   = IF passes = 2 THEN "done" ELSE "quiet",
                                     !.passes = passes]
               ELSE [step |-> "delete", streams |-> streams, events |-> events,
                     passes |-> 0]
    /\ UNCHANGED <<table, tool, sub, log, acked, got, bounds>>

\* deleteRecord, one by one, in the order of the keys: "!stream#" sorts first.
DeleteStream(s) ==
    /\ deletion.step = "delete"
    /\ s \in deletion.streams
    /\ meta' = [meta EXCEPT ![s] = "none"]
    /\ deletion' = [deletion EXCEPT !.streams = @ \ {s}]
    /\ UNCHANGED <<session, nextSeq, events, objects, tool, sub, log, acked, got, bounds>>

\* An event's payload goes before the item that refers to it.
NextToDelete(e) ==
    /\ deletion.step = "delete"
    /\ deletion.streams = {}
    /\ Leads(e, deletion.events)

DeletePayload ==
    /\ \E e \in deletion.events :
         /\ NextToDelete(e)
         /\ e.n \in Spilled /\ e.seq \in objects
         /\ DropPayload(e.seq)
    /\ UNCHANGED <<session, nextSeq, meta, events, tool, sub, deletion, log, acked, got, bounds>>

DeleteEvent ==
    /\ \E e \in deletion.events :
         /\ NextToDelete(e)
         /\ e.n \in Spilled => e.seq \notin objects
         /\ events' = events \ {e}
         /\ deletion' = [deletion EXCEPT !.events = @ \ {e}]
    /\ UNCHANGED <<session, nextSeq, meta, objects, tool, sub, log, acked, got, bounds>>

\* A storage access of DeleteSession fails: it gives up, and the client is told
\* that the session is deleted all the same.
DeletionFault ==
    /\ deletion.step \in {"list", "delete", "quiet"}
    /\ faults < MaxFaults
    /\ faults' = faults + 1
    /\ deletion' = [deletion EXCEPT !.step = "failed"]
    /\ UNCHANGED <<table, tool, sub, log, acked, got, disconnects>>

DeletedAll ==
    /\ deletion.step = "delete"
    /\ deletion.streams = {}
    /\ deletion.events = {}
    /\ deletion' = [deletion EXCEPT !.step = "list"]
    /\ UNCHANGED <<table, tool, sub, log, acked, got, bounds>>

-----------------------------------------------------------------------------

ToolStep(s) ==
    \/ CreateTouch(s) \/ CreateMetadata(s)
    \/ AppendTarget(s) \/ AppendSequence(s) \/ AppendSpill(s) \/ AppendCommit(s)
    \/ AppendCleanup(s)
    \/ CloseRead(s) \/ ClosePut(s)

PumpStep(s) ==
    \/ Subscribe(s) \/ Resume(s) \/ Load(s) \/ Rehydrate(s) \/ Forward(s) \/ Forwarded(s)
    \/ CheckClosed(s)

DeletionStep ==
    \/ ListRecords \/ DeletePayload \/ DeleteEvent \/ DeletedAll
    \/ \E s \in Streams : DeleteStream(s)

Next ==
    \/ \E s \in Streams :
         \/ ToolStep(s) \/ PumpStep(s)
         \/ ToolFault(s) \/ ToolCrash(s) \/ PumpFault(s) \/ Disconnect(s)
    \/ MarkDeleted
    \/ DeletionStep \/ DeletionFault

Spec == Init /\ [][Next]_vars


-----------------------------------------------------------------------------
(* Properties.                                                              *)

\* A client receives only events of its own stream, each at most once and in
\* the order of their ids, across reconnects: resuming from Last-Event-ID
\* neither repeats nor mixes streams.
ReceivedInOrder ==
    \A s \in Streams :
        /\ \A i \in DOMAIN got[s] : got[s][i] \in ToSet(log[s])
        /\ \A i, j \in DOMAIN got[s] : i < j => got[s][i].seq < got[s][j].seq

\* What a client received has no gap: it is a prefix of the stream's events as
\* they were committed.  (DeleteSession removes events under a subscription.)
ReceivedWithoutGap ==
    session # "deleted" => \A s \in Streams : IsPrefix(got[s], log[s])

\* A subscription that ends because the stream is closed has delivered all of
\* the stream's events: the drain pass exists "so we do not drop the final
\* result event".
ClosedAfterAll ==
    \A s \in Streams :
        sub[s].step = "closed" /\ session # "deleted"
          => log[s] # <<>> /\ got[s] # <<>> /\ Last(got[s]) = Last(log[s])

\* Once DeleteSession has returned no event of the session exists, nor is one
\* created by a tool that is still running.
EventsStayDeleted == deletion.step = "done" => events = {}

\* The payload of an event whose append was answered can be read as long as its
\* session lives, and unless something failed in between, the payloads are those
\* of the events: none is left over, none is missing.
SpilledEvents == {e \in events : e.n \in Spilled}
Appending == {s \in Streams : tool[s].step \in {"commit", "cleanup"} /\ tool[s].n \in Spilled}
PayloadsFollowEvents ==
    /\ session # "deleted" =>
         \A e \in SpilledEvents : e.n \in acked[e.stream] => e.seq \in objects
    /\ faults = 0 /\ deletion.step # "delete"
         => objects = {e.seq : e \in SpilledEvents} \cup {tool[s].seq : s \in Appending}

\* "DeleteSession removes all stream state for a session."
AllStreamStateDeleted ==
    deletion.step = "done" => events = {} /\ \A s \in Streams : meta[s] = "none"

\* A subscription ends when its tool is done, and a deletion ends although
\* tools keep writing.
SubscriptionsEnd ==
    \A s \in Streams : Following(s) ~> sub[s].step \in {"closed", "gone", "off"}
DeletionEnds == deletion.step = "list" ~> deletion.step = "done"

\* Each stream is a log as StreamLog describes it.
Stream(s) ==
    INSTANCE StreamLog WITH
        Events <- Event,
        log    <- log[s],
        state  <- IF session = "deleted" THEN "removed"
                  ELSE IF meta[s] = "closed" THEN "closed" ELSE "open",
        seen   <- got[s],
        ended  <- sub[s].step = "closed"
ImplementsStreamLog ==
    /\ \A s \in Streams : Stream(s)!Init
    /\ [][ \A s \in Streams : Stream(s)!Next \/ UNCHANGED Stream(s)!vars ]_vars
=============================================================================

# AppTheory in TLA+

TLA+ models, TLC configurations and TLAPS proofs for the Go code of AppTheory, a
framework for serverless HTTP and MCP applications on AWS Lambda and DynamoDB.
`PROJECT.json` lists the runs, maps each definition to the lines it models, and lists the
hazards and the theorems.

Most of what is hard to get right is kept in records of DynamoDB tables, and of other
stores, that many short-lived processes read and write at once: each access is a remote
call that can fail, whose answer can be lost, and after which the process can be frozen or
gone. The rest is in goroutines that outlive the request, or the call, that started them.

## The system and its parts

| Part | State | Operations | Hard because | Correct when | Status |
|---|---|---|---|---|---|
| Job lease `pkg/jobs/ledger.go` | LOCK item of a job: owner, expiry, TTL | AcquireLease, RefreshLease, ReleaseLease | clocks differ, answers are lost, calls land late, DynamoDB deletes by TTL | one holder at a time; a lost lease lapses | modelled, proved |
| Job semaphore `pkg/jobs/ledger.go` | SLOT items of a (scope, subject) | AcquireSemaphoreSlot, RefreshSemaphoreSlot, ReleaseSemaphoreSlot, InspectSemaphore | an acquire scans the slots with one old clock reading | at most Limit holders; a leaked slot lapses | modelled, proved |
| Job status, records | META and REC items | CreateJob, TransitionJobStatus, UpsertRecordStatus | optimistic versions; the item can be deleted and created again | no transition is lost | status modelled, proved |
| Idempotency `pkg/jobs/ledger.go` | REQ item of a key | CreateIdempotencyRecord, CompleteIdempotencyRecord | retries, crashes between create, effect and completion | the effect is applied once while the record lives | modelled, proved |
| Stream store `runtime/mcp/stream_store_dynamo.go`, `..._spill.go` | `!session` item, `!stream#` items, event items; S3 objects of large payloads | Create, Append, Close, Subscribe, StreamForEvent, DeleteSession | ids are allocated before their events are committed; a payload and its record are two writes; polling readers; deletion under writers | a client receives a gapless prefix, all of it before the end; payloads follow their events | modelled without TTL, proved |
| Memory stream store `stream_store.go` | a record per session: its streams, a counter, the stream of each event id; a condition variable each; one mutex | the same interface | wake-ups; a record that is made again after its deletion counts from one | implements the same abstract log, as long as a client does not resume into another stream | modelled, proved |
| MCP tasks `runtime/mcp/task*.go` | task items; contexts per instance | tools/call with a task, tasks/cancel, tasks/result, tasks/list | stale reads, cancellation against completion, frozen instances, offsets into a list that changes | a task ends once and everybody is told the same; pages miss nothing that lasts | modelled; records proved |
| MCP sessions `server.go`, `session*.go` | sessions with a sliding expiry | initialize, POST, GET, DELETE | unconditional read-modify-write of the session | a session in use lasts, a deleted one stays deleted | modelled, proved |
| MCP dispatch `server.go`, `version_detect.go`, `routing_validation_2026.go`, `cacheable_result.go` | the version of a session | every method, alone and in batches | the stateless version is named by message, the others by session; results take the form of a version | a message is served and answered as negotiated | modelled without hooks and headers of HTTP |
| MCP tool lifecycle `lifecycle.go` | none | bind, call, hooks, recover | timeouts, panics and three kinds of caller that sort errors anew | telemetry, client and task agree on the outcome | modelled |
| MCP cancellation `cancel.go` | a map of cancel functions per process | notifications/cancelled | request ids used again | a running request can be cancelled | modelled, proved |
| Rate limiter `pkg/limited` | a counter per window | CheckAndIncrement, CheckLimit, RecordRequest, GetUsage | create races, stale reads, several windows | no window admits more than its limit | modelled without GetUsage, proved |
| MicroVM controller, registry, provider `runtime/microvm` | session records with a generation; the provider's MicroVMs | run, create, get, list, suspend, resume, terminate, start, stop, token | unconditional put after provider calls; reconstruction; stale reads | the record follows the MicroVM | modelled without ownership checks, its safety proved |
| MicroVM lifecycle `lifecycle.go` | a contract; the state of an event | hooks | handlers that fail or panic | only states of the contract are reached | modelled |
| Event bus `pkg/services` | event items, in-process handlers | Publish, Query, GetEvent, DeleteEvent | retries after lost answers; pages under change | published once, pages complete | modelled without tags and TTL |
| Log notifier `pkg/observability/zap` | bounded channel, wait group | log, Flush, Close | close against enqueue and flush | Flush and Close wait for what was queued | modelled, proved |
| HTTP core `serve.go`, `middleware.go`, timeout and rate limit middlewares, WebSocket requests | a goroutine and a channel per timeout | serve | the abandoned handler runs on; panics on each level | gates before handlers; one true answer | modelled without headers |
| Request binding `bind_handler.go`, `validate.go` | what was sent, by field name | BindRequest | several sources, strict and lenient JSON, presence kept apart from values | a handler sees what was sent, or the request is refused with reason | modelled with two of its rules |
| Router `router.go` | the routes in order of registration | add, match | pairwise comparison with tie-breaks | the most literal route serves | modelled |
| Streamed responses `response_limits.go` | one counter for two goroutines | copy | a shared limit | within the limit; whole if it ends well | modelled |
| Server-sent events `sse.go`, `server.go` (streamToSSE, the listener of a GET) | a pipe and up to two goroutines | write, forward, close | a reader that leaves, a context that ends, an event that cannot be formatted | no goroutine is left; a cut body does not look whole | modelled without the format |
| Event sources `aws_*.go` | none | dispatch, partial batch responses | one record failing of several; redelivery | nothing lost; no success replayed where it can be avoided | modelled |
| Embedder `pkg/vectorstore/embedder.go` | channels, a shared context | EmbedBatch | workers that leave at their first error while the caller hands out texts | all vectors or the first error, no worker left | modelled, proved |
| MCP registries, OpenAPI, OAuth, sanitization, object store, S3 Vectors, Kinesis producer, CDK, tools | | | | | not modelled |

How they interact. Workers and handlers call the job ledger, the limiter and the event bus
directly; these parts share no item, and inside the job ledger no operation touches two
kinds of items. The MCP server calls the session store on each request, then the stream
store or the task store; tools run in goroutines that outlive the request and write to
these stores while other requests, on other instances, read, resume, cancel or delete. The
session, stream and task modules therefore contain the server's side of their protocols.
The HTTP core calls the limiter through its middleware and ends in a handler. The MicroVM
controller keeps in its registry what the provider told it, and lifecycle hooks run inside
a MicroVM.

What is assumed of DynamoDB, which is not in the repository: a conditional write, and a
transaction, is atomic and evaluates its condition on the current item; a read is
consistent where the code asks for it and otherwise returns the item as it is or as it
was; an item is deleted some time after its TTL and not before.

## The modules

| Module | What it is |
|---|---|
| `LeaseRecord` | The lease attributes of an item and the conditions and effects of the conditional writes on it |
| `JobLease` | Workers, calls and answers around one LOCK item; `MCJobLease` is its small instance, `JobLease_proofs` its theorems |
| `LeaseLock` | The abstract lock: a holder, who may lapse. `JobLease` implements it |
| `JobSemaphore` | The scan of the slots on the same lease records; implements `Semaphore`, at most Limit holders. `JobLedger_proofs` has its theorems |
| `JobStatus` | CreateJob and TransitionJobStatus with expected versions. `JobLedger_proofs` has its theorems |
| `JobRequest` | Callers that create the idempotency record, apply their effect and complete it, as `examples/cdk/import-pipeline/handlers/ingest/main.go` does. `JobLedger_proofs` has its theorems |
| `MCJobLedger` | One instance with semaphore, job and request |
| `DynamoStreamStore` | The session's stream items and spilled payloads; the writer of each streaming tool call, its client's subscription, and DeleteSession, one step per access to DynamoDB or S3. `DynamoStreamStore_proofs` has its theorems |
| `MemoryStreamStore` | The same operations under a mutex: subscriptions that sleep on the stream's condition variable, the goroutine that broadcasts when a client has left, and the two calls of a GET that resumes: StreamForEvent in the record there is, then Subscribe to the stream it names. `Streams_proofs` has its theorem |
| `StreamLog` | The abstract stream: a log, its readers, closing and removal. The streams of both stores implement it (`MCStreams`) |
| `McpTasks` | Task tool, tasks/cancel, tasks/result on DynamoTaskStore; implements `TaskBoard`. `Mcp_proofs` has its theorems |
| `TaskBoard` | What the memory task store does under its mutex: working, then one terminal status |
| `McpSessions` | The messages of one session, what each reads and writes of its record in either store, and the running requests by process and id. `McpSessions_proofs` has its theorems |
| `McpProtocol` | Single messages and batches of any version, with and without a session: which version serves each, which methods it has, and the form of the answer |
| `ToolCalls` | One call of a wrapped tool: binding, handler, timeout, panic, hooks, and what the client of a buffered, streamed or task call is told |
| `TaskPages` | tasks/list page by page on either store while tasks are created, expire and are deleted |
| `SseStream` | The goroutine that writes events to a pipe, the one that forwards a subscription to it, the listener of a session, and the reader |
| `RateLimiter` | CheckAndIncrement, CheckLimit and RecordRequest for one key under the fixed, the sliding and the multi-window strategy: conditional increment, read, create, and the multi-window transaction or the calls made without one. `Services_proofs` has its theorems |
| `MicroVM` | Commands of several callers on session records and the provider's MicroVMs; a command is a read, an operation, an observation and a put. Get and List are not consistent reads: they return a record as it is or as it was (`versions`). `Services_proofs` has its theorems |
| `MicroVMLifecycle` | Contracts, their validation, and hooks that handlers answer, fail or never finish. `Serving_proofs` has its theorem |
| `EventBus` | Publish with its retries, deletion, and a query's pages, in DynamoDB and in memory. `Streams_proofs` has its theorem |
| `LogNotifier` | Error, the notifier's goroutine, Flush and Close around a channel and a WaitGroup. `Services_proofs` has its theorem |
| `EventBatches` | The deliveries of a source, the handler of each record, the answer, and what the source makes of it. `Serving_proofs` has its theorem |
| `HttpServe` | One request through gates and chain; the serving goroutine and that of a timeout. `Serving_proofs` has its theorem |
| `Router` | Registration of routes and `Match`, checked for every path against "most literal" |
| `RequestBinding` | A model's fields filled from body, path, query and headers, and the rules `required` and `enum` |
| `ResponseLimits` | Two goroutines that copy parts of a response under one limit. `Serving_proofs` has its theorem |
| `EmbedBatch` | The caller that hands out texts, its workers, the channel of one error and the context they share. `Services_proofs` has its theorem |
| `MCJobLease`, `MCJobLedger`, `MCStreams`, `MCMcp`, `MCRateLimiter`, `MCServices`, `MCProgress`, `MCDynamoStreamStore` | Instances for TLC |

Where components share no state, their interleaving shows nothing that each alone does
not, and multiplies the states. The instances of `MCJobLedger`, `MCStreams`, `MCMcp`,
`MCServices` and `MCProgress` therefore choose one component at the start (`kind`) and run
that one only; a property of the instance is that of the chosen component, and holds
trivially in the others.

State and steps. In each model an operation of the code is a process with a `step`: it
reads its clock when it starts, every remote call is one action on the shared item, and
the answer is another action, so that anything may happen between any two of them. The
code's early returns are the disjuncts of an action. A failing call is an action too: it
may happen before or after the effect on the table, and the caller then knows neither. A
crash forgets the process's state and leaves the item. Variables marked "history" record
what the properties speak of and no action's guard depends on them, except where a bound
for TLC is named. Definitions whose comment starts with "Mutant:" are wrong versions of the one
that follows them; each property has one that breaks it.

Abstractions. Time is in whole seconds, as the stored expiries are. Names, payloads and
error texts are left out; an event is its stream and number. A tool call emits one
priming event, then progress, a result, and possibly a delivery error. `None` and
`NoJob` stand for an item that does not exist.

## The runs

| Run | Shows |
|---|---|
| `lease` | Two workers with clocks one second apart, first without and then with a call that lands after its caller has given it up: at most one holds the lease (`MutualExclusion`), expiry does not pile up, a successful release leaves no lock, a stored lease is never taken before its expiry (`FailsClosed`, `LateFailsClosed`), and the whole implements `LeaseLock` |
| `lease_ttl_dropped` | Violation, see the findings |
| `ledger` | Three workers on two slots; transitions of a job that is deleted and created again; three callers of one idempotency key (`RequestsSafe`: the effect once, completion true and by its creator) |
| `streams` | One DynamoDB stream with two storage faults, a payload in S3, one reconnect and a deletion: no gap, nothing missed before the end (`ClientsReceive`), deleted events do not come back and their payloads go (`EventsStayGone`). It and two streams of the memory store with a deletion implement `StreamLog` (`StreamsImplementStreamLog`); to its log, a memory stream is removed once its client has resumed another one. Two streams of DynamoDB that share the ids of their session do not mix; in memory, received ids rise across resumes, and a client leaves its own stream only by a resume after a deletion, and for a stream of the session begun anew; the event bus publishes once and its pages are complete; a response of server-sent events ends well only after all of its source (`OthersSafe`) |
| `stream_final_dropped`, `stream_state_left` | Violations, see the findings |
| `mcp` | One task, two cancels, two waits: a task ends once and all answers agree; two messages of a session in two processes: a session in use lasts for what its messages were promised, running requests stay cancellable (`RecordsSafe`). A call of a tool: its telemetry and its client, of whichever kind, are told one outcome; a list of three tasks: its pages miss and repeat nothing that stays; messages and batches of every version are served and answered as negotiated (`AnswersTrue`). A deleted session is revived only by a message that overlaps its deletion (`DeletedStaysGone`) |
| `limiter_denied`, `sliding_exceeded` | Violations, see the findings |
| `services` | MicroVM commands that overlap, or read old records (`EndIsTrue`), and commands that do neither (`SerialCommandsKept`); the notifier (`NotifierSafe`); lifecycle hooks and batches of five kinds of source (`HandlersSafe`); requests through every chain of the framework's middlewares and responses under their limit (`ResponsesTrue`); routes, and requests bound to models of one and two fields (`RequestsUnderstood`); texts embedded by two workers (`BatchEmbedded`); the limiter with a window of two requests, a limit of zero, nested windows of one and two with and without transactions, and sliding ones: the limit holds, nested windows agree (`WindowsHold`), and who is denied was denied for requests that were counted (`DeniedOnlyWhenUsed`) |
| `batch_replayed` | Violation, see the findings |
| `progress` | A subscription in either store ends once its tool is done, the goroutines of a streamed response end with its request, DeleteSession ends, a MicroVM's record converges to its state, a limiter's caller gets an answer, a task settles or is lost with its instance |

Bounds. Constants that only bound TLC's search are `MaxClock`, `MaxLate`, `MaxFaults`,
`MaxDisconnects`, `MaxVersion`, `MaxLives`, `MaxBatch`, `Staleness`, `MaxCommands`,
`MaxGeneration`, `MaxCalls`, `MaxInvocations`, `MaxRoutes`, `MaxLength`, `MaxChunks`,
`MaxRecorded`, `MaxSessions` and `MaxEvents`; `Headers`, `Metas` and `Methods` choose one of
each kind that the code tells apart.
* Lease: two workers, as the properties speak of pairs. The clock runs twice through a
  lease, so a lease is taken, expires and is taken over with calls of either worker still
  in flight. The theorems hold without these bounds.
* Semaphore: three workers for two slots, the least that lets a full semaphore refuse and
  an acquire pass a slot that is then freed. A lease of one second expires twice. The
  clocks of this run agree; skew is explored by `lease` on one item, and the theorems
  about the slots hold for any skew.
* Job: three versions in two lives: a transition on each side of a deletion. Request:
  three callers: a creator, a retry, and a creator after a deletion.
* Streams: batches of two (one in `progress`) for up to eight events, so that batches
  are full, partly full and empty; the response is the second or third event. Two faults
  hit both the response and its replacement. Two streams (`Pair`) are what interleaved ids take.
  `Spilled` and `Oversized` name the events whose payload goes to an object, or is too
  large for one: the response in the runs with faults, a progress event and the response
  in `progress`.
* Tasks do not interact: one task. Two cancels and two waits make every pair that can
  disagree. A list is of three tasks in pages of two, the least for a second page and a
  shift; two times of creation let a later task come first.
* Tool calls share nothing: one, with every mode, hook, error and end of its contexts.
* Protocol: one message at a time with up to two requests in a batch, each of a method of
  one class; two sessions, because a batch may initialize twice.
* Server-sent events: two or three events, one of which may not be formatted; sources that
  end and that stay open.
* Sessions: two messages at once are what it takes for one to undo the other; over three
  seconds a session of two seconds expires between them. Batches of two let a request
  follow another of the same message.
* Limiter: two callers; the clock passes two windows of two seconds and the deletion of
  the first. `MaxRecorded` bounds what RecordRequest adds to a window that is full.
* Embedder: three texts for two workers: one in each hand and one to offer.
* MicroVMs: two clients with two sessions on one MicroVM, or one session on two. In
  `services` three commands, gets and lists among them, and three generations: a run, a
  command that makes a second version of its record, and one that may read the first. In
  `progress` two commands besides those of a client that only gets the state (`PollerGets`)
  and may read old records too.
* Notifier: a queue of one and three errors: one in hand, one queued, one dropped.
* Batches: three records in three invocations: a failure in the middle, its redelivery,
  and the redelivery of that. Routes: three routes of up to two segments, the least for
  the third to come between two that tie. Events: two, with pages of one.
* Binding: a field of every mix of sources, with a second that shares its name; bodies of up
  to two members, in which a key may come once more in another case.
* Streamed responses: two chunks of one or two bytes from either source against a limit of
  three, so that each of body, reader and stream is the one that does not fit.

Deadlock is checked for the lease, whose clients go on for ever.
Elsewhere behaviours end by design: tools finish, callers return, clients leave.

Fairness (all of it in `MCProgress`). Goroutines whose storage answers go on
(a polling loop with a ticker, or a woken sleeper), the client reads on, and
DeleteSession's loop goes on: weak fairness of each. Storage faults are excluded there, as
after a fault the code gives up. The provider brings a change of a MicroVM to its end and a
command ends: weak fairness; a client that polls is, again and again, answered: strong
fairness of each step of its get, which other clients may fail or overtake in between, and
which may be of an old record: what it puts is what it has observed since.
`TaskSettles` assumes weak fairness of the tool's goroutine; freezing is an action and one
of the outcomes. `CallsEnd` assumes that a call goes on and, strongly, that a replica read
over and over again returns the item at some time: a lagging replica could otherwise send
the limiter round its retry for ever. `GoroutinesEnd`, of a streamed response, assumes weak
fairness of its goroutines and a client that reads on or leaves; that the request's context
ends is not assumed.

## What is proved

`JobLease_proofs` proves for any set of workers, any lease duration, skew, TTLs and number
of late calls, with no bound on the clock's range other than that `MaxClock` stops it:

* `TypeCorrect`: `Spec => []TypeOK`.
* `LeaseExclusion`: `MutualExclusion`, if calls given up do not land later (`MaxLate = 0`)
  and TTLs are used by all calls and are no shorter than the lease, or by none
  (`TTLCoversLease`). Both conditions are needed: the run `lease_ttl_dropped` breaks the
  second, and a late release frees a lock its worker has acquired anew.
* `LeaseImplementsLock`: under the same conditions every step is a step of `LeaseLock` or
  leaves it unchanged.
* `LeaseAlwaysBounded`, `LockFailsClosed`: with late calls and any TTLs.
* `ReleaseAlwaysFrees`: without late calls.

The argument. Mutual exclusion is not inductive: a worker that is about to learn that its
acquire was granted does not hold the lease yet, and the item does not say whose hold has
expired. `LeaseInv` adds that a holder, or one whose grant is on its way, is recorded in
the item with at least its expiry (`HolderRecorded`), as long as true time and skew have
not passed that expiry; that the TTL is never before the expiry (`TTLAfterExpiry`); and
that a worker's clock readings are not ahead of its clock (`CallsInOrder`). Two holders
would both be the item's owner. A takeover needs `LeaseExpiresAt < now`, and `now` is at
most true time and skew, so the previous owner no longer holds. `BoundInv` and
`ReleaseInv` are the smaller invariants of the other theorems. The assumptions are the named ones of the constants: the skew of
each clock is between 0 and `MaxSkew`, durations are positive, `None` is not a worker.

`JobLedger_proofs` proves for any workers, number of slots, lease duration, skew and
TTLs that satisfy `TTLCoversLease`, with calls that request any of a set of limits of
which `Limit` is the greatest: `SlotsExclude`, `SlotsLapse`, `InspectionCoversHolders` (the
properties `SlotExclusion`, `LeakedSlotsLapse` and `OccupancyCoversHolders`) and
`SlotsImplementSemaphore`, that the whole implements `Semaphore`. Its invariant `SlotInv`
is `LeaseInv` slot by slot, with one difference: an acquire reads its clock once and
applies that reading to every slot it scans, so that the reading may be old, which
`InOrder` bounds and the takeover needs only in one direction. A worker that holds a slot
is recorded in it, so each holder has a slot of its own; that is an injection of the
holders into the slots, hence at most `Limit` of them.

`JobLedger_proofs` proves `VersionsNameStates` (`VersionNamesState`) and
`TransitionsNotLost` (`NoLostUpdate`) for any workers and statuses. `StatusInv` adds that
the item is the newest state of the last life of the job (`ItemNewest`), that no state is
of a life yet to come, and that what a caller expects is a state it has seen. A
transition whose version matches then replaces the state its caller has read, as no
other state of that life has the version.

`JobLedger_proofs` also proves `RequestsAlwaysSafe` (`RequestsSafe`) for any callers of one
idempotency key. The property says nothing of who may still write; `RequestInv` adds that
the record that exists is of the life that goes on and was made by a caller of that life
(`ItemCurrent`, `OldIsOver`), that a life has one creator (`OneCreator`), and that an
effect is its creator's, came before the completion, and completion before the telling
(`EffectByCreator`, `CompletedAfterEffect`, `ToldAfterEffect`). That there are no more
lives than callers, part of the type, is the injection of finished lives into their
creators. The module also carries the theorems about the job over to the whole ledger
(`VersionsAlwaysNameStates`, `NoTransitionLost`) and types it (`LedgerTyped`).

`McpSessions_proofs` proves `SessionAlwaysSafe` and `SessionStaysDeleted`
(`DeletedStaysGone`) for any processes, request ids, TTL, staleness of reads, length of a
call and batches, for either store. Its hypothesis `SessionConstants` says only that these
are natural numbers, that there is a process and an id, and that `None` is neither a
message nor a time. That a session lasts as promised is not inductive, as a message writes
an expiry that it computed from an older clock. `LastsInv` bounds how old: what a message
writes was computed within the length of one call (`CallsInTime`), and what was promised
last has not yet passed (`LastLasts`), so that the overwritten expiry is never before the
promise. `RequestsInv` adds that an entry of the tracker is of a request that runs, in its
process and under its id (`EntriesRun`). `DeletionInv` bounds how old a record may be when
it is read (`ReadsInTime`) and with it when a message has read the session that it is about
to write again (`FoundInTime`).

`Mcp_proofs` proves for any tasks, cancels and waits that the records refine `TaskBoard`
(`RecordsImplementTaskBoard`, property `ImplementsTaskBoard`), and `RecordsAlwaysSafe`
(`RecordsSafe`) and `DeletionIsFinal` (`DeletedStaysGone`) of the whole server. `TaskInv`
relates each record to what it has been (`past`): it has had at most one outcome, which is
what it still is unless it was removed (`OneOutcome`, `UpToNow`); a tool or a cancel that
is about to write has seen it working (`NotBefore`, `CancelsRead`), and what a wait was
answered, or a cancel is about to stop the tool for, is that outcome (`AnswersRead`,
`CancelsRead`). So all who are told of an outcome are told of the same one.

The module also proves `AnswersAlwaysTrue` (`AnswersTrue`), of the server in `MCMcp`, from
three invariants.
* `CallsAlwaysToldTrue`: `CallInv` says that a call of a tool ends as its finish hook is told,
  whichever branch it took (`EndsAlike`, `HookTold`).
* `PagesAlwaysComplete`: `PagesInv` says of each task whose place no change before it has
  shifted that the pages hold it at most once (`GivenOnce`) and, if it lasts, exactly when
  the cursor has passed its place (`GivenBefore`, `GivenAll`), and that the pages are in
  order while nothing changes (`GivenInOrder`). `ChangesKnown` adds that a stale replica
  differs from the table only in tasks that are known to have changed.
* `ProtocolAlwaysSafe`: `ProtocolInv` says that a session in use is of the version told at its
  creation (`ToldFits`), and that the requests of a batch done so far are answered in their
  order, in a session of the version of batches (`BatchFits`), for any number of sessions and any
  methods, headers, versions and metadata. `HandlerAnswer` gives the answers of each handler
  (`AnswerFits`).

The hypotheses are the assumptions of `MCMcp`: `SessionsAssumption` (the bound on sessions is
a natural number), `NoneAssumption` and `PagesAssumption`.

`DynamoStreamStore_proofs` proves for any streams of a session, events whose payload is spilled
or too large, batch size, faults and disconnects: `ReceivedAlwaysInOrder` (`ReceivedInOrder`) and
`DeletedAlwaysGone`, which `EventsAlwaysGone` (`EventsStayGone`) of `Streams_proofs` carries
over to the instance that is run. `StoreInv` adds where each writer is in its append
(`WritersFit`), that no two appends have one id and that ids were given out by the session's counter (`SeqsDiffer`,
`EventIds`), that a deletion knows of every event there still is, as no commit passes the
condition on the session's item any more (`DeletionKnown`), that an object belongs to an event
or to the append that is about to commit it (`PayloadsKept`, `PayloadsGo`), and that a
subscription's cursor is not behind what was received, nor ahead of its batch
(`ClientsInOrder`).

That a client misses nothing is proved for a session of one stream (`OneStream`):
`ClientsAlwaysReceive` (`ClientsReceive`) and `OneStreamImplementsLog`. The hypothesis is
needed, as the run `stream_final_dropped` shows of two. With one stream the ids of the events
are their positions in the log (`LogInOrder`, `IdsCount`), so that the cursor never passes an
event that is yet to be committed (`NoGap`), and a pass that finds nothing after the stream was
seen closed has seen all (`AtEnd`).

`Streams_proofs` has the theorems about the instances of `MCStreams`: those just named,
`StreamsAreLogs` and `OthersAlwaysSafe`.

`StreamsAreLogs` is `StreamsImplementStreamLog`: besides the
only stream of DynamoDB, every stream in memory implements `StreamLog`, for any finite set of
streams `Pair` and any number `PairFinal` of events from two on. Here ids are given out and
events appended under one mutex, so that what was received is a prefix of the events and the
subscription's index is its length (`MemOwnInv`), and `startIndexAfterSeq` finds that
length again, as the ids of a stream ascend (`MemWriterInv`) and those of the streams of one
record differ (`MemApart`). That ids stay within the type of the events is the count of the
appends that are over (`MemIdsCount`).

A client that resumes once its session was deleted may find the id that it presents in the
record begun anew, and follows the stream of that event from then on: this is a step of the
model, and the theorem does not hide it. `MemOtherInv` says of such a client that its session was
deleted, its own stream is not of the record, and that what it received is of its own stream
first and then of the other, with rising ids (`MemReached`). For its own stream's `StreamLog`
that is the removal, after which `StreamLog` promises nothing of what is received; what the
client receives of the other stream is covered by `ReceivedInOrder` alone.

`OthersAlwaysSafe` (`OthersSafe`) has four parts.
* Two streams of a session in DynamoDB: `ReceivedAlwaysInOrder` of the instance with `Pair`.
  In memory it follows from the invariant of `StreamsAreLogs`, clients that have resumed another
  stream included.
* The response that carries a stream: `BodiesAlwaysWhole`, for any `MaxEvents` (a natural
  number, `SseAssumption`). `SseInv` says that while the writer goes on, what the source gave
  is read, in the writer's hand or with the forwarding goroutine, which drops at most one event,
  at the request's end (`OnTheWay`), and that the pipe is only closed for a reason: all was read,
  the request is over, the reader has left, or the event in turn cannot be formatted
  (`ClosedForReason`).
* The event bus: `EventsAlwaysOnce`, for any `Events` that are natural numbers, any `Limit` and
  `MaxClock` from one on (`BusAssumption`), and any retries. `BusInv` says that an Event keeps
  the time of its first Publish, so that a create that is tried again hits the same key
  (`Published`); that the pages from DynamoDB descend to the cursor, and what lasts is in them
  or after it (`DurablePages`); and that the pages from memory are how the sorted list begins
  (`MemoryPages`), which is one list as long as times differ (`OneOrder`): an item's place in it
  is the number of items that are not older (`PlaceInOrder`).

`Services_proofs` proves five properties of the run `services`, each for the component alone
or for the instance that is run, or both, with any values of the component's constants:

* `EndAlwaysTrue` (`EndIsTrue`) and `SerialCommandsAlwaysKept` (`SerialCommandsKept`) of the
  MicroVM controller. That a record's word of an end is true is not inductive, as a command
  carries copies of records that it read earlier and writes them back late. `VMInv` says of
  all that a command holds what the property says of a record (`RecordsTrue`), which is
  enough because a MicroVM that has ended stays ended; and of all that a record has been,
  which a command may read (`versions`). For commands that do not overlap and read the record
  that there is, `SerialInv` says of the one that works that the record it goes on from has no
  less than what was answered before. A command that has read an older record makes its
  session one of the `disturbed`, for which the property promises nothing until the next run.
  The bound `Few` of the run plays no part in it.
* `NotifierAlwaysSafe` (`NotifierSafe`). `LogInv` says what the WaitGroup counts: the errors
  that are queued, that the goroutine holds, or that a caller is about to queue; so Flush,
  which wakes at zero, wakes after what was queued before it. The only hypothesis is that
  `None` is not an error.
* `BatchAlwaysEmbedded` (`BatchEmbedded`). `EmbedInv` says where each text is that was handed
  out: it has its vector, or is in a worker's hand, or its worker failed, and whoever failed
  first has put its error in the channel before it canceled the others.
* `WindowsAlwaysHold` (`WindowsHold`) and `DenialsExplained` (`DeniedOnlyWhenUsed`) of the
  limiter, for a finite set of callers and all strategies. What is admitted is what callers
  were told, and a caller is told later than it was counted. `LimiterInv` therefore counts
  the debts: in each window, what was admitted and the requests that were counted and not
  told yet are together no more than the item's count (`OwedCounted`), no more was admitted than
  the limit (`WithinLimit`), an item that DynamoDB has deleted is too old for any call that still
  goes on (`ReapedOld`, as a call takes no longer than `CallTime` and an item outlives its
  window by `Grace`, which is no less), a full window stays full while a call that found it
  full goes on (`FullStays`), and with transactions nested windows count the same requests (`Agree`).

What nested windows count is a sum over the windows in them, so the last of these needs sums
over finite sets, which the library defines by recursion. The section on sums shows that the
function exists, and what the proofs need of it: a term can be taken out of a sum in any
order, and so on. Each is by a set of least size among those for which it fails
(`LeastSet`), which needs only that the strict subsets of finite sets are well founded.

`Serving_proofs` proves what the handlers of an application are promised, of six components
with any values of their constants:

* `BatchesAlwaysSafe` and `LifecycleAlwaysSound`, and of the instance that is run
  `HandlersAlwaysSafe` (`HandlersSafe`). That nothing is lost is not inductive, as it speaks of
  a record when its source lets it go, at the end of an invocation. `BatchInv` adds what has
  become of the records until then: each that was delivered has been handled, has failed, or
  is still to be looked at (`LookedAt`), and SQS no longer holds what an invocation has
  answered for (`AnsweredGone`). `HookInv` says of the states that hooks start from which
  hook has run last (`LastHook`), so that a handler that starts there comes in its order.
  The assumption is that records are numbered in their order (`BatchConstants`).
* `RequestsAlwaysServed`: `HttpInv` says where the serving goroutine and the one of a timeout
  are, and with what each was left (`Places`): whoever walks the chain has passed the gates up
  to there, the channel holds at most one result, of the handler that ran, and the goroutine
  of a timeout runs on only while the other waits for it or has given it up.
* `ResponsesAlwaysWhole`: `LimitInv` says that what is out and what either goroutine is about
  to write have been counted (`GoesOutCounted`), so that no more than `MaxResponseBytes` is
  out, and that a source's bytes are out or on their way unless an error follows
  (`NothingLeftOut`). `LimitConstants` says that limit and sizes are natural numbers. With the
  former it makes `ResponsesAlwaysTrue` (`ResponsesTrue`).
* `RoutesAlwaysLiteral`, for any words, parameters and methods; the bounds on routes and on the
  length of a path are natural numbers (`RouteConstants`). `RoutesInv` says of the routes only
  what they are; that `Match` finds the best of them is about its one pass over the list.
  `PassExists` and `MatchIs` follow that pass, by the least number of routes after which it
  would have kept another route than a best one: more specific is an order (`MoreSpecificIs`),
  and a route that is as good as the one kept does not replace it.
* `RequestsAlwaysBound`: a binding is one function of the model and the request, so `BindInv` has
  the types besides the property, and the lemmas say what that function does: the last
  member of the body that sets a field counts (`BodyBoundIs`), the first source that was sent
  overrides it (`FieldBound`), and a field of which the rule `required` fails, or the rule `enum`
  panics, was not sent (`RequiredUnsent`, `PanicUnsent`). The assumption `BindConstants` is that
  the models have fields and that the body has each key once; a key that is sent twice is
  not modelled. With the former it makes `RequestsAlwaysUnderstood` (`RequestsUnderstood`).
* `ServicesAlwaysTyped` (`ServicesTypeOK`), for which the module extends `Services_proofs`. The
  types that an invariant needs are part of it; `TypesInv` adds what the invariants leave
  open: the records that are still to be looked at were handled in earlier invocations only
  (`Invoked`), the notifier's queue stays within its buffer and its failures within the retries
  (`Queued`), and so on. `ServicesConstants` has the assumptions of the components, that the
  bounds they do not need are natural numbers, and that the inputs of a binding are those
  that `RequestBinding` describes (`BindInputs`).

TLC checked each invariant before it was proved. The theorems rest on nothing but the
assumptions named.

What only TLC checks:

* Liveness, under the fairness of `MCProgress`: the prover has no rules for it.
* `StreamsTypeOK` and `McpTypeOK`. The types that a component's invariant needs are part of it
  above.

## Findings

* A lease extended without a TTL keeps the TTL of an older call: DynamoDB deletes a lock in
  use and another acquire is granted, where `docs/features/jobs-ledger.md` says that an
  acquire fails closed (`lease_ttl_dropped`).
* Ids are allocated before events are committed. With two tool calls in one session a
  subscription can read an event with a greater id first, and then never returns to the
  smaller one: it can end without the final result that the drain pass is there for
  (`stream_final_dropped`).
* Create and Close write a stream's metadata unconditionally after checking the session: a
  concurrent DeleteSession leaves it behind (`stream_state_left`).
* In the first requests of a window, an item created between another caller's failed
  increment and its read makes the limiter deny that caller although there is room
  (`limiter_denied`). With several windows, or after a retry, it does not happen:
  `DeniedOnlyWhenUsed` says what holds instead.
* CheckAndIncrement counts the first window only, which under the sliding strategy is one
  sub-window: each sub-window admits the whole limit (`sliding_exceeded`). CheckLimit adds
  the sub-windows up, so it is the other way to ask (`WindowsHold` says what each admits).
* A batch of a stream goes on after a record that failed and reports the failed ones only;
  Lambda delivers again from the first of them on, so records handled after it are handled
  again, where `docs/cdk/kinesis-cloudwatch-logs.md` says that successful records are not
  replayed (`batch_replayed`). For SQS it holds (`HandlersSafe`).

Met on the way, without a run of their own: the notifier's WaitGroup is counted up while a
Flush may be waking from it, on which `sync.WaitGroup` panics (`LogNotifier` includes the
step); `withDerivedTimeoutContext` shares the context's map of values with the abandoned
handler; an observability hook that panics is not recovered by `servePortable`; for a
stream of DynamoDB or Kinesis `docs/features/event-workloads.md` speaks of `eventID` as the
identifier of a failed record, the code answers with its sequence number.

In the MCP server: `runStreamingTool` and tasks store results as the handler gave them, so
that a client with a session gets the markers `complete` and `input_required` of the
stateless version, which `docs/integrations/mcp.md:240` keeps out; `tools/call` with `task`
creates a task in sessions of versions whose `tasks/*` methods are refused; notifications
in a batch, `initialized` and `cancelled` among them, are ignored; two `initialize`
requests in one batch create a session that nobody is told of; a payload is deleted when
the answer of its record's commit is lost, although the record may stay
(`docs/integrations/mcp.md:799` promises its replay); the offsets of tasks/list skip or
repeat tasks when earlier ones come or go between pages; the counter of event ids is in an
item whose TTL only streaming calls renew, so that in a session that lives longer ids start
anew, where they meet events that DynamoDB has not deleted yet, and ids that clients hold.

In the memory stream store: `handleGET` (`server.go:470`) looks the stream of `Last-Event-ID`
up in the session's record as it is then. A streaming call that overlaps DeleteSession makes
a new record (`stream_store.go:103`), whose ids start from one, so that an id from before the
deletion may be one of another stream's event, and the client is subscribed to that stream,
where `docs/integrations/mcp.md:144` and `647` say that replay is of the same stream and that a
resume fails closed. `MemoryStreamStore` has the step (`StreamForEvent`, `Resume`),
`ReceivedInOrder` states what holds all the same, and TLC finds the case in a few steps when it
is asked whether clients receive events of their own stream only.

In the MicroVM registry: `Get` and `List` (`registry.go:421`, `471`) do not ask for a consistent
read, and the put is unconditional. A command that has read the record as it was therefore
undoes what the last command was answered, also when no two commands overlap: after a run and
a token, a get that reads the record of the run puts it back with the token's generation and
without the token. No document promises otherwise; `SerialCommandsKept` is about commands that
read the record that there is.

In the lifecycle of tools: a handler that returns neither result nor error is a success for
the telemetry and an internal error for the client of a buffered call; the finish hook of
a tool with a timeout gets a context that is already canceled, since `defer cancel()` runs
first; a timeout is noticed when the handler returns, not before.

In streamed responses: when the client has left, the goroutine of `streamToSSE` notices
only at the end of the context; a body that the context's end has cut looks like one that
ended well.

In the binding of requests: an optional pointer field with an `enum` rule that was not sent
makes `validateEnumRule` call `Interface` on an invalid reflect.Value, which panics; fields
of the same name share their presence, so that a required one passes unset when another
was sent; lenient JSON sets fields that are tagged for other sources and takes keys in any
case, while presence goes by the exact key, so that a null under another spelling undoes a
required pointer.

In the limiter: GetUsage reads keys without the suffix of several windows and reports zero
for them; `IdentifierLimits` of the multi-window strategy change the reported limit only;
items of sub-windows are deleted by their TTL before a window longer than `TTLHours` ends.

## Plan

What can be modelled faithfully is modelled, and each safety property that a run is expected
to pass is proved. What is left is to prove the two type invariants above, of the
components whose invariants do not have all of the types yet.

## Not modelled, and why

* OpenAPI, sanitization, naming, the numeric, length and pattern rules of validation, and
  CORS headers are functions of one input, mostly of strings. OAuth's stores are maps of which each call makes one access
  under a mutex; the rest of it parses and builds documents.
* The object store, S3 Vectors and Kinesis clients, and the management API of WebSocket
  connections, translate one call into one AWS call. The format of server-sent events and
  of logs, `ProfileLogger` among them, is a format.
* The MicroVM controller's checks of tenant and namespace, its Invoke, and the validation
  of requests are guards on one request and reads. The limiter's GetUsage reads two
  counters. The net/http middleware of the limiter is one call and headers.
* The MCP server's hooks for resource subscriptions and logging call the application; its
  checks of origins and media types are guards on one request.
* The TTL of the stream store's records. Replay is bounded by it on purpose, so the
  properties of `DynamoStreamStore` are those of sessions that stream at least once in it.
* UpsertRecordStatus is one unconditional write of a record nothing else reads. Queries by
  tag, metrics and the TTL of events are left out of the event bus.
* The TypeScript and Python runtimes are peers of the Go code with the same contract. CDK
  constructs, scaffolding, contract test runners and test kits, which are most of the
  repository's lines, are not part of the running system.

* A chunk of a streamed response that has both an error and bytes, a limiter that returns
  neither a decision nor an error, and records of a batch with an empty id.

Values lost to abstraction: event payloads, error texts, most cursors, and the time that
passes within DynamoDB.

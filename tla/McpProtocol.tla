---------------------------- MODULE McpProtocol ----------------------------
(***************************************************************************)
(* What the MCP server (runtime/mcp/server.go) makes of a message: which    *)
(* version of the protocol serves it, in which session, and what form the   *)
(* answer takes.                                                            *)
(*                                                                         *)
(* Three versions have sessions, which initialize creates.  The fourth,     *)
(* Stateless, is named by each message, in a header and in the metadata of   *)
(* the request.  A tool may answer at once, on a stream after the message   *)
(* has been served, or as a task whose result is asked for.                 *)
(*                                                                         *)
(* One message is served, and one such tool runs, at a time: McpSessions has *)
(* messages that overlap, McpTasks and the stream stores what a tool does.   *)
(***************************************************************************)
EXTENDS Naturals, Sequences

CONSTANTS MaxSessions,   \* bound: sessions that initialize creates
          Headers,       \* versions that headers and initialize name
          Metas,         \* versions that the metadata of requests names
          Methods

VARIABLES config,
          sessions,      \* the version each session was created with
          work,          \* the newest tool that outlives its message
          batch,         \* the batch that is being served
          reply,         \* the reply that the client has not read
          told           \* history: the version initialize told, for each session

vars == <<config, sessions, work, batch, reply, told>>

Stateless == "2026-07-28"   Latest == "2025-11-25"
Prior == "2025-06-18"       Legacy == "2025-03-26"
Absent == "absent"

\* supportedProtocolVersions, isAdvertisedProtocolVersion
Advertised == {Stateless, Latest, Prior, Legacy}
\* isSupportedProtocolVersion
Supported == {Latest, Prior, Legacy}

Config == [tools : BOOLEAN, tasks : BOOLEAN, info : BOOLEAN, streaming : BOOLEAN,
           support : {"forbidden", "optional", "required"}]
\* A tool that streams, one that may and one that must run as a task, and a server
\* without tools and tasks.
Configs ==
    {c \in Config :
        IF c.tools THEN c.tasks /\ c.streaming = (c.support = "forbidden") /\ c.info = c.streaming
        ELSE ~c.tasks /\ ~c.info /\ ~c.streaming /\ c.support = "optional"}

\* What a tool ends with: a result as it is, marked complete, that asks for input,
\* or that contradicts itself; or an error.
Outcomes == {"plain", "complete", "asks", "bad", "error"}
\* What a tool may end with that q calls; nothing else has an outcome.
OutcomesOf(q) == IF q.method = "tools/call" THEN Outcomes ELSE {"plain"}
Ids == 1 .. MaxSessions

\* A request or, without an id, a notification.  What it asks for: a version, a
\* task, or the continuation of an earlier call.  capable: which of the client's
\* capabilities its metadata names.
Request == [method : Methods \cup {"malformed"}, id : BOOLEAN, meta : Metas,
            version : Headers, task : BOOLEAN, retry : BOOLEAN,
            capable : {"missing", "none", "all"}]
\* conflict: the version header occurs again, with another value.  routed: the
\* routing headers name the method and the tool.
Envelope == [verb : {"POST", "GET", "DELETE"}, form : {"single", "batch", "response"},
             header : Headers, conflict : BOOLEAN, routed : BOOLEAN,
             session : 0 .. MaxSessions]

\* What one request is answered.  served: the version it was dispatched under, and
\* in which session; negotiated: that of an initialize.  marker, info and hint are
\* the resultType, the server's identity and the cache fields of a result.
Answer == [request : Request, served : Supported \cup {Stateless, Absent},
           session : 0 .. MaxSessions, negotiated : Supported \cup {Absent},
           code : {Absent, "NotFound", "Params", "Invalid", "Internal", "Tool", "Parse"},
           marker : Outcomes \cup {Absent}, info : BOOLEAN,
           hint : {Absent, "configured", "stale"}]
NoReply == [answers |-> <<>>]
NoWork == [via |-> "none", session |-> 0, state |-> Absent]
NoBatch == [left |-> <<>>, session |-> 0]
Known(s) == s # 0 /\ sessions[s] \in Supported

-----------------------------------------------------------------------------
(* Versions.                                                                *)

\* sessionProtocolVersion
SessionVersion(s) == IF s # 0 THEN sessions[s] ELSE Legacy

\* requestProtocolVersion accepts the header: none, or the session's version.
HeaderFits(header, s) ==
    \/ header = Absent
    \/ header \in Supported /\ (s # 0 => header = sessions[s])
\* The version it returns for a batch.
BatchVersion(header, s) == IF header = Absent THEN SessionVersion(s) ELSE header

\* negotiateInitializeProtocolVersionDefault
Negotiate(requested, default) == IF requested \in Supported THEN requested ELSE default

\* Mutant: a request that names the stateless version in its metadata only is one
\* of a session.
ClaimHeaderOnly(e, q) == e.header = Stateless

\* validatePOSTRequestVersions: does the request claim the stateless version?
Claim(e, q) == Stateless \in {e.header, q.meta}

\* The rest of validatePOSTRequestProtocol: the error that refuses a request.
VersionError(e, q) ==
    LET unsupported(v) == v # Absent /\ v \notin Advertised IN
    CASE e.conflict -> "HeaderMismatch"
      [] unsupported(e.header) ->
            IF q.meta = Absent /\ (e.session # 0 \/ q.method = "initialize") THEN Absent
            ELSE "UnsupportedVersion"
      [] ~unsupported(e.header) /\ unsupported(q.meta) -> "UnsupportedVersion"
      [] Claim(e, q) /\ e.header # q.meta /\ q.meta # Absent -> "HeaderMismatch"
      [] Claim(e, q) /\ (q.meta = Absent \/ q.capable = "missing") -> "Params"
      [] Claim(e, q) /\ ~e.routed -> "HeaderMismatch"
      [] OTHER -> Absent

TaskMethods == {"tasks/get", "tasks/result", "tasks/list", "tasks/cancel"}
StatelessMethods ==
    {"server/discover", "tools/list", "tools/call", "resources/list", "resources/read",
     "resources/templates/list", "completion/complete", "prompts/list", "prompts/get"}
Notifications == {"notifications/initialized", "notifications/cancelled"}
SessionMethods == StatelessMethods \cup Notifications \cup
    {"initialize", "ping", "resources/subscribe", "resources/unsubscribe", "logging/setLevel"}

\* methodAllowedForProtocol, statelessRequestRequiresSession
Allowed(v, q) ==
    IF v = Stateless
    THEN q.method \in StatelessMethods /\ ~(q.method = "tools/call" /\ q.task)
    ELSE q.method \in SessionMethods \/ (q.method \in TaskMethods /\ v = Latest)

-----------------------------------------------------------------------------
(* Answers.                                                                 *)

Nothing(q) == [request |-> q, served |-> Absent, session |-> 0, negotiated |-> Absent,
               code |-> Absent, marker |-> Absent, info |-> FALSE, hint |-> Absent]
Error(q, code) == [Nothing(q) EXCEPT !.code = code]

\* What a handler answers with a tool's outcome.
ToolAnswer(q, out) ==
    IF out = "error" THEN Error(q, "Tool")
    ELSE [Nothing(q) EXCEPT !.marker = IF out = "plain" THEN Absent ELSE out]

\* handleTaskToolsCall, up to the creation of the task.
CreatesTask(q, s) ==
    q.method = "tools/call" /\ q.task /\ config.tools /\ config.tasks
        /\ s # 0 /\ config.support # "forbidden"

\* handleToolsCall, for a tool that ends with out.
ToolsCall(q, s, out) ==
    CASE q.task -> IF CreatesTask(q, s) THEN Nothing(q) ELSE
                   Error(q, IF config.tasks /\ s = 0 THEN "Params" ELSE "NotFound")
      [] ~q.task /\ config.support = "required" -> Error(q, "NotFound")
      [] OTHER -> ToolAnswer(q, out)

\* handleTasksResult.  The wait for a tool that runs may end before the tool does.
TasksResult(q, s) ==
    IF work.via = "task" /\ work.session = s /\ work.state # "running"
    THEN ToolAnswer(q, work.state)
    ELSE Error(q, "Params")

\* prepareToolResult, prepareInputRequiredResult
Prepared(a, v) ==
    CASE a.marker \in {Absent, "complete"} -> [a EXCEPT !.marker = Absent]
      [] a.marker = "asks" ->
            IF v = Stateless THEN a ELSE Error(a.request, "Invalid")
      [] OTHER -> Error(a.request, "Internal")

\* cacheHintForRequest
Cacheable == {"server/discover", "tools/list", "prompts/list", "resources/list",
              "resources/templates/list", "resources/read"}

\* Mutant: the results of a retry are cached like others.
HintAlways(q) == IF q.method \in Cacheable THEN "configured" ELSE Absent

\* cacheHintForRequest, requestIsMultiRoundTripRetry
Hint(q) == CASE q.method \notin Cacheable -> Absent
             [] q.method \in Cacheable /\ q.retry -> "stale"
             [] OTHER -> "configured"

\* finalizeResponseForProtocol: responseForProtocol, applyCacheHint
Finalize(a, v) ==
    LET p == IF a.request.method = "tools/call" THEN Prepared(a, v) ELSE a IN
    IF p.code # Absent \/ v # Stateless THEN p
    ELSE [p EXCEPT !.marker = IF @ = Absent THEN "complete" ELSE @,
                   !.info = config.info, !.hint = Hint(a.request)]

\* handleDiscover: the server's identity is in the result of the other versions.
Discover(q, v) == [Nothing(q) EXCEPT !.info = v # Stateless]

\* methodAllowedForProtocol, tasksEnabled, methodCapabilityEnabled
Found(v, q) ==
    /\ Allowed(v, q) /\ q.method \notin Notifications
    /\ q.method \in TaskMethods => config.tasks
    /\ q.method \in {"tools/list", "tools/call"} => config.tools

\* What the handler of a method answers; the other methods and their errors do not
\* tell versions apart.
Handled(v, q, s, out) ==
    CASE ~Found(v, q) -> Error(q, "NotFound")
      [] Found(v, q) /\ q.method = "tools/call" -> ToolsCall(q, s, out)
      [] Found(v, q) /\ q.method = "tasks/result" -> TasksResult(q, s)
      [] Found(v, q) /\ q.method = "server/discover" -> Discover(q, v)
      [] OTHER -> Nothing(q)

\* dispatchForProtocol, for a request of session s; 0 is none.
Dispatch(q, v, s, out) ==
    [Finalize(Handled(v, q, s, out), v) EXCEPT !.served = v, !.session = s]

-----------------------------------------------------------------------------
(* Messages and replies.                                                    *)

\* The requests that a client may send: each asks for what its method takes.
Requests ==
    {q \in Request :
        /\ q.version # Absent => q.method = "initialize"
        /\ q.task => q.method = "tools/call"
        /\ q.retry => q.method \in {"tools/call", "resources/read"} /\ q.meta = Stateless
        /\ q.capable # "missing" => q.meta = Stateless
        /\ q.method = "malformed" => q.id /\ q.meta = Absent}
Envelopes ==
    {e \in Envelope : /\ ~e.routed => e.header = Stateless /\ ~e.conflict
                      /\ e.conflict => e.header # Absent
                      /\ ~e.routed \/ e.conflict => e.form = "single" /\ e.verb = "POST"
                      /\ e.verb # "POST" => e.form = "single"}

\* Batches of two, of initialize and of requests in its session, or in another.
InBatch(methods) ==
    {q \in Requests : /\ q.method \in methods /\ q.version = Absent /\ ~q.retry
                      /\ q.capable = "missing"}
Batches ==
    {<<q, r>> : q \in {p \in InBatch({"initialize", "tools/call"}) : p.meta = Absent},
                r \in {p \in InBatch({"initialize", "tools/call", "tasks/result", "malformed"}) :
                          p.id /\ p.meta \in IF p.method = "initialize" THEN {Absent, Stateless}
                                            ELSE {Absent}}}

Idle == batch = NoBatch /\ reply = NoReply
\* A client names sessions it was told of, or that there are not.
Names(e) == Known(e.session) => told[e.session] # Absent

\* The reply is a status and answers nothing.
NoAnswer == UNCHANGED vars

\* The reply to an envelope with these requests; the session that it names is
\* new.  before: what the server kept when the message came.
Respond(e, requests, answers, session, before) ==
    /\ reply' = [envelope |-> e, requests |-> requests, answers |-> answers,
                 session |-> session, changed |-> before # <<sessions', work'>>]
    /\ told' = [s \in Ids |->
                  LET initialized == {i \in DOMAIN answers : /\ answers[i].session = s
                                                             /\ answers[i].negotiated # Absent}
                  IN  IF initialized = {} THEN told[s]
                      ELSE answers[CHOOSE i \in initialized : TRUE].negotiated]
\* The answer to a request that creates no session.
Answers(e, q, a) == UNCHANGED <<config, sessions, batch>>
                        /\ Respond(e, <<q>>, <<a>>, 0, <<sessions, work>>)

\* The sessions that there may still be; what would create more does not happen.
Unused == {s \in Ids : sessions[s] = "unused"}
NewId == CHOOSE s \in Unused : TRUE

\* createSession, handleInitialize
Create(version) == sessions' = [sessions EXCEPT ![NewId] = version]
InitializeAnswer(q, version) ==
    [Nothing(q) EXCEPT !.session = NewId, !.negotiated = version]

\* requireSession, requireProtocolVersion
SessionFits(e) == Known(e.session) /\ HeaderFits(e.header, e.session)

\* A tool starts that outlives its message; bound: one at a time.
Start(via, s) == /\ work.state # "running"
                 /\ work' = [via |-> via, session |-> s, state |-> "running"]

-----------------------------------------------------------------------------
(* POST of one message: handlePOST, handlePOSTRequest, handlePOSTResponse.  *)

\* ParseRequest, validatePOSTRequestProtocol
Passes(e, q) == q.method # "malformed" /\ VersionError(e, q) = Absent

PostRefused(e, q) ==
    IF q.method = "malformed" THEN UNCHANGED work /\ Answers(e, q, Error(q, "Parse"))
    ELSE NoAnswer

\* handleStatelessPOSTRequest, missingRequiredClientCapabilities
PostStateless(e, q, out) ==
    LET a == Dispatch(q, Stateless, 0, out) IN
    /\ Claim(e, q)
    /\ IF q.id /\ (a.marker = "asks" => q.capable = "all")
       THEN UNCHANGED work /\ Answers(e, q, a)
       ELSE NoAnswer

PostDiscover(e, q) ==
    /\ ~Claim(e, q) /\ q.method = "server/discover"
    /\ IF q.id THEN UNCHANGED work /\ Answers(e, q, Dispatch(q, Latest, 0, "plain"))
       ELSE NoAnswer

\* handleInitializeHTTP.  stored: the session store took the session.
PostInitialize(e, q, stored) ==
    LET version == Negotiate(q.version, Latest) IN
    /\ ~Claim(e, q) /\ q.method = "initialize" /\ Unused # {}
    /\ UNCHANGED work
    /\ IF stored
       THEN /\ Create(version) /\ UNCHANGED <<config, batch>>
            /\ Respond(e, <<q>>, <<InitializeAnswer(q, version)>>, NewId, <<sessions, work>>)
       ELSE Answers(e, q, Error(q, "Internal"))

InSession(e, q) ==
    ~Claim(e, q) /\ q.method \notin {"server/discover", "initialize"}

\* What a notification does is in McpSessions.
PostUnanswered(e, q) == InSession(e, q) /\ (SessionFits(e) => ~q.id) /\ NoAnswer

\* shouldStreamToolsCall
Streams(q) == q.method = "tools/call" /\ ~q.task /\ config.tools /\ config.streaming
                  /\ config.support # "required"

\* Mutant: a session's request is served under the version of its header.
CallVersionHeader(e) == BatchVersion(e.header, 0)

\* The version under which handleRequestHTTP serves a request.
CallVersion(e) == SessionVersion(e.session)

\* handleRequestHTTP
PostCall(e, q, out) ==
    /\ InSession(e, q) /\ SessionFits(e) /\ q.id /\ ~Streams(q)
    /\ IF CreatesTask(q, e.session) THEN Start("task", e.session) ELSE UNCHANGED work
    /\ Answers(e, q, Dispatch(q, CallVersion(e), e.session, out))

\* handleToolsCallStream
PostStream(e, q) ==
    /\ InSession(e, q) /\ SessionFits(e) /\ q.id /\ Streams(q)
    /\ Start("stream", e.session)
    /\ UNCHANGED <<config, sessions, batch, reply, told>>

\* handlePOSTResponse: accepted or refused, it changes nothing.
PostResponse == NoAnswer

-----------------------------------------------------------------------------
(* POST of a batch: handleBatch and runBatchRequests.                       *)

\* Mutant: only the header can name the stateless version.
BatchStatelessHeader(e, requests) == e.header = Stateless

\* DetectProtocolVersion, batchNamesStatelessProtocol
BatchStateless(e, requests) ==
    e.header = Stateless \/ \E i \in DOMAIN requests : requests[i].meta = Stateless

\* A batch is served if it is of the version that has batches, all of it can be
\* parsed, and its session, if it names one, is of that version.
BatchPasses(e, requests) ==
    /\ ~BatchStateless(e, requests) /\ e.header \in {Absent, Legacy}
    /\ \A i \in DOMAIN requests : requests[i].method # "malformed"
    /\ e.session # 0 => SessionFits(e)
    /\ BatchVersion(e.header, e.session) = Legacy

PostBatch(e, requests) ==
    IF BatchPasses(e, requests)
    THEN /\ batch' = [envelope |-> e, requests |-> requests, left |-> requests,
                      session |-> e.session, created |-> 0, answers |-> <<>>,
                      before |-> <<sessions, work>>]
         /\ UNCHANGED <<config, sessions, work, reply, told>>
    ELSE NoAnswer

\* Mutant: notifications are answered too.
BatchGoesAll(session, created, a) ==
    batch' = [batch EXCEPT !.left = Tail(@), !.session = session, !.created = created,
                           !.answers = Append(@, a)]

\* The next request of the batch is done; one with an id is answered.
BatchGoes(session, created, a) ==
    batch' = [batch EXCEPT !.left = Tail(@), !.session = session, !.created = created,
                           !.answers = IF Head(batch.left).id THEN Append(@, a) ELSE @]

\* handleInitializeBatch
BatchInitialize(stored) ==
    LET q == Head(batch.left)
        version == Negotiate(q.version, Legacy)
    IN  /\ batch.left # <<>> /\ q.method = "initialize" /\ Unused # {}
        /\ UNCHANGED <<config, work, reply, told>>
        /\ IF version = Legacy /\ stored
           THEN Create(version) /\ BatchGoes(NewId, NewId, InitializeAnswer(q, version))
           ELSE /\ UNCHANGED sessions
                /\ BatchGoes(batch.session, batch.created,
                             Error(q, IF version = Legacy THEN "Internal" ELSE "Params"))

BatchCall(out) ==
    LET q == Head(batch.left)
        s == batch.session
    IN  /\ batch.left # <<>> /\ q.method # "initialize"
        /\ IF q.id /\ CreatesTask(q, s) THEN Start("task", s) ELSE UNCHANGED work
        /\ BatchGoes(s, batch.created, IF s = 0 THEN Error(q, "Invalid")
                                       ELSE Dispatch(q, SessionVersion(s), s, out))
        /\ UNCHANGED <<config, sessions, reply, told>>

BatchDone ==
    /\ batch # NoBatch /\ batch.left = <<>>
    /\ UNCHANGED <<config, sessions, work>>
    /\ batch' = NoBatch
    /\ Respond(batch.envelope, batch.requests, batch.answers,
               IF batch.answers = <<>> THEN 0 ELSE batch.created, batch.before)

-----------------------------------------------------------------------------
(* GET, DELETE and the tools that run on.                                   *)

\* handleGET without Last-Event-ID; the subscriptions are in the stream stores.
Get == NoAnswer

\* Mutant: a session is deleted whatever version the message names.
DeletesAnyVersion(e) == Known(e.session)

\* handleDELETE, up to the deletion.
Deletes(e) == e.header # Stateless /\ SessionFits(e)

\* handleDELETE.  What a tool of the session yields is not kept any more.
Delete(e) ==
    IF Deletes(e)
    THEN /\ sessions' = [sessions EXCEPT ![e.session] = "deleted"]
         /\ work' = IF work.session = e.session THEN NoWork ELSE work
         /\ UNCHANGED <<config, batch>>
         /\ Respond(e, <<>>, <<>>, 0, <<sessions, work>>)
    ELSE NoAnswer

\* runStreamingTool: the answer goes to the stream as it is.
StreamEnds(out) ==
    LET q == [method |-> "tools/call", id |-> TRUE, meta |-> Absent, version |-> Absent,
              task |-> FALSE, retry |-> FALSE, capable |-> "missing"]
    IN  /\ Idle /\ work.via = "stream"
        /\ work' = NoWork
        /\ reply' = [envelope |-> [verb |-> "stream"], requests |-> <<q>>, session |-> 0,
                     changed |-> TRUE,
                     answers |-> <<[ToolAnswer(q, out) EXCEPT !.session = work.session]>>]
        /\ UNCHANGED <<config, sessions, batch, told>>

\* runTaskTool: the task keeps the result as it is.
TaskEnds(out) ==
    /\ Idle /\ work.via = "task" /\ work.state = "running"
    /\ work' = [work EXCEPT !.state = out]
    /\ UNCHANGED <<config, sessions, batch, reply, told>>

\* The client reads the reply.
Take == reply # NoReply /\ reply' = NoReply /\ UNCHANGED <<config, sessions, work, batch, told>>

Init ==
    /\ config \in Configs
    /\ sessions = [s \in Ids |-> "unused"]
    /\ work = NoWork /\ batch = NoBatch /\ reply = NoReply
    /\ told = [s \in Ids |-> Absent]

\* handlePOSTRequest
PostRequest(e) ==
    \E q \in Requests :
        IF Passes(e, q)
        THEN \/ PostDiscover(e, q) \/ PostUnanswered(e, q) \/ PostStream(e, q)
             \/ \E out \in OutcomesOf(q) : PostStateless(e, q, out) \/ PostCall(e, q, out)
             \/ \E stored \in BOOLEAN : PostInitialize(e, q, stored)
        ELSE PostRefused(e, q)

\* Handler
Serve(e) ==
    \/ e.verb = "POST" /\ e.form = "single" /\ PostRequest(e)
    \/ e.verb = "POST" /\ e.form = "batch" /\ \E requests \in Batches : PostBatch(e, requests)
    \/ e.verb = "POST" /\ e.form = "response" /\ PostResponse
    \/ e.verb = "GET" /\ Get
    \/ e.verb = "DELETE" /\ Delete(e)

Next ==
    \/ Idle /\ \E e \in Envelopes : Names(e) /\ Serve(e)
    \/ \E stored \in BOOLEAN : BatchInitialize(stored)
    \/ \E out \in Outcomes : BatchCall(out) \/ StreamEnds(out) \/ TaskEnds(out)
    \/ BatchDone \/ Take

Spec == Init /\ [][Next]_vars

-----------------------------------------------------------------------------
(* Properties.                                                              *)

TypeOK ==
    /\ config \in Config
    /\ sessions \in [Ids -> Supported \cup {"unused", "deleted"}]
    /\ work.via \in {"none", "stream", "task"} /\ work.session \in 0 .. MaxSessions
    /\ work.state \in Outcomes \cup {"running", Absent}
    /\ told \in [Ids -> Supported \cup {Absent}]
    /\ \A i \in DOMAIN reply.answers : reply.answers[i] \in Answer

Replied == reply # NoReply /\ reply.envelope.verb # "stream"
Answered == {reply.answers[i] : i \in DOMAIN reply.answers}

\* A message that names the stateless version, be it a batch in one of its
\* requests, changes nothing the server keeps and is served in no session.
StatelessKeepsNothing ==
    (Replied /\ (\/ reply.envelope.header = Stateless
                 \/ \E i \in DOMAIN reply.requests : reply.requests[i].meta = Stateless))
        => /\ ~reply.changed /\ reply.session = 0
           /\ \A a \in Answered : a.session = 0 /\ a.served \in {Stateless, Absent}

\* A session's requests are served under the version that its initialize told, and
\* only if the header does not name another; a batch has a session of the version
\* that has batches.
ServedAsNegotiated ==
    Replied => \A a \in Answered :
        (a.session # 0 /\ a.served # Absent /\ told[a.session] # Absent)
            => /\ a.served = told[a.session]
               /\ reply.envelope.header \in {Absent, told[a.session]}
               /\ reply.envelope.form = "batch" => a.served = Legacy

\* A session is deleted only by a message that fits its version.
DeletedAsNegotiated ==
    (Replied /\ reply.envelope.verb = "DELETE" /\ reply.changed)
        => reply.envelope.header \in {Absent, told[reply.envelope.session]}

\* A result that is answered at once has the form of the client's version: the
\* stateless one is told whether it is complete, asks for input only of a client
\* that can give it, and carries cache fields where they can be used, for what a
\* retry is answered those of a result that is stale; the others have none of it.
AnswersFit ==
    Replied => \A a \in Answered :
        (a.code = Absent /\ a.served # Absent) =>
            IF a.served = Stateless
            THEN /\ a.marker \in {"complete", "asks"} /\ a.info = config.info
                 /\ a.marker = "asks" => a.request.capable = "all"
                 /\ a.hint # Absent <=> a.marker = "complete" /\ a.request.method \in Cacheable
                 /\ a.hint = "configured" => ~a.request.retry
            ELSE /\ a.hint = Absent /\ (a.info => a.request.method = "server/discover")
                 /\ a.marker # Absent => a.request.method = "tasks/result"

\* The answers are those to the requests that are due, each once and in their order.
AnsweredInOrder(requests, due, answers) ==
    \E f \in [DOMAIN answers -> due] :
        /\ \A i, j \in DOMAIN answers : i < j => f[i] < f[j]
        /\ \A k \in due : \E i \in DOMAIN answers : f[i] = k
        /\ \A i \in DOMAIN answers : answers[i].request = requests[f[i]]

\* Of a message that is served, each request is answered once, in order, and no
\* notification but initialize is.
EachAnswered ==
    (Replied /\ reply.answers # <<>>) =>
        AnsweredInOrder(reply.requests,
                        {i \in DOMAIN reply.requests :
                            \/ reply.requests[i].id
                            \/ /\ reply.envelope.form = "single"
                               /\ reply.requests[i].method = "initialize"},
                        reply.answers)

ProtocolSafe == /\ StatelessKeepsNothing /\ ServedAsNegotiated /\ DeletedAsNegotiated
                /\ AnswersFit /\ EachAnswered
=============================================================================

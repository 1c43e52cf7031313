------------------------------ MODULE MCServices ------------------------------
(***************************************************************************)
(* Small instances of what serves requests and events in one process, and of *)
(* the services around it.  They share no state: a behaviour is one of one   *)
(* of them, and the variables of the others are not used.                    *)
(***************************************************************************)
EXTENDS MCRateLimiter, TLC

CONSTANTS None, s1, s2, v1, v2, e1, e2, e3, f1,
          Sessions, VMs, MaxCommands, MaxGeneration,    \* of MicroVM
          Entries, Flushes, BufferSize, MaxRetries,     \* of LogNotifier
          Texts,                                        \* of EmbedBatch, whose workers
                                                        \* are the Callers
          Records, MaxInvocations,                      \* of EventBatches
          MaxResponseBytes, Sizes, MaxChunks,           \* of ResponseLimits
          Words, Params, Methods, MaxLength, MaxRoutes, \* of Router
          Models, BindConfigs, Requests                 \* of RequestBinding

VARIABLES kind,
          provider, vm, registry, versions, command, commands, answers, disturbed,
          contract, handlers, state, reached, result,
          error, flush, waiter, closing, closed, queue, pendings, worker, attempted, due,
          panicked,
          source, routed, pending, batch, delivered, failures, step, handled, answered,
          repeated, invocations,
          conf, main, work, channel, expired, passed, handler, answer, record,
          routes,
          emitted, tripped, body, chunks, fails, pump, given, got, saw,
          next, feeder, held, embedder, errCh, ended, gaveUp, vectors, returned,
          model, config, request, bound

vmVars == <<provider, vm, registry, versions, command, commands, answers, disturbed>>
lifecycleVars == <<contract, handlers, state, reached, result>>
logVars == <<error, flush, waiter, closing, closed, queue, pendings, worker, attempted, due,
             panicked>>
batchVars == <<source, routed, pending, batch, delivered, failures, step, handled,
               answered, repeated, invocations>>
httpVars == <<conf, main, work, channel, expired, passed, handler, answer, record>>
limitVars == <<emitted, tripped, body, chunks, fails, pump, given, got, saw>>
embedVars == <<next, feeder, held, embedder, errCh, ended, gaveUp, vectors, returned>>
bindVars == <<model, config, request, bound>>
allVars == <<kind, vars, vmVars, lifecycleVars, logVars, batchVars, httpVars, routes,
             limitVars, embedVars, bindVars>>

\* Two clients command two sessions with one MicroVM, or one with two.
VM == INSTANCE MicroVM WITH Poller <- None, call <- command, told <- answers
Few ==
    LET used == {s \in Sessions : VM!Exists(registry[s])
                                    \/ \E c \in Callers : s \in command[c].targets}
        ran == {v \in VMs : vm[v] # "none"}
    IN  Cardinality(used) + Cardinality(ran) <= 3
Same == Permutations(Callers) \cup Permutations(Sessions) \cup Permutations(VMs)

Lifecycle == INSTANCE MicroVMLifecycle WITH passed <- reached
\* Three errors, one flush and a close.
Log == INSTANCE LogNotifier WITH count <- pendings
Batches == INSTANCE EventBatches
Http == INSTANCE HttpServe
Routes == INSTANCE Router
Limits == INSTANCE ResponseLimits
Embedding == INSTANCE EmbedBatch WITH
    Workers <- Callers, N <- Texts,
    caller <- feeder, worker <- embedder, results <- vectors, answer <- returned

Binding == INSTANCE RequestBinding WITH Configs <- BindConfigs, answer <- bound

\* A field of several sources, alone or with one of the query that shares its name.
Field1(tags, pointer, rules) ==
    [key |-> "a", tagged |-> TRUE, tags |-> tags, pointer |-> pointer, rules |-> rules]
Field2(rules) ==
    [key |-> "F", tagged |-> FALSE, tags |-> {"query"}, pointer |-> FALSE, rules |-> rules]
Fields1 ==
    {Field1(tags, p, rules) :
        tags \in {{}, {"path", "query"}, {"query", "header"}}, p \in BOOLEAN,
        rules \in SUBSET {"required", "enum"}}
Fields2 == {Field2({}), Field2({"required"})}
SmallModels == {{f} : f \in Fields1} \cup {{f, g} : f \in Fields1, g \in Fields2}
SmallConfigs ==
    [body : {TRUE}, strict : BOOLEAN, sources : {{"query"}, {"path", "query", "header"}}]
        \cup [body : {FALSE}, strict : {FALSE}, sources : {{"path", "query", "header"}}]
Member(key, value) == [key |-> key, value |-> value]
Bodies ==
    {<<>>} \cup {<<Member("a", v)>> : v \in {"null", "zero", "good", "bad"}}
        \cup {<<Member(k, v)>> : k \in {"A", "F"}, v \in {"null", "good"}}
        \cup {<<Member("a", v), Member(k, w)>> : k \in {"A", "F"}, v, w \in {"null", "good"}}
SmallRequests ==
    [sent : {"object"}, body : Bodies, path : {"absent", "good"},
     query : {"absent", "good", "bad"}, header : {"absent", "zero"}]
        \cup [sent : {"empty", "malformed"}, body : {<<>>}, path : {"good"}, query : {"good"},
              header : {"good"}]

ServicesInit ==
    /\ kind \in {"LIMITER", "MICROVM", "LIFECYCLE", "LOG", "EVENTS", "HTTP", "ROUTES", "LIMITS",
                "EMBED", "BIND"}
    /\ Init /\ (kind # "LIMITER" => strategy = OneWindow)
    /\ VM!Init /\ (kind # "MICROVM" => provider)
    /\ Log!Init
    /\ Routes!Init
    /\ Embedding!Init
    /\ \/ kind = "LIFECYCLE" /\ Lifecycle!Init
       \/ /\ kind # "LIFECYCLE"
          /\ contract = 0 /\ handlers = 0 /\ state = 0 /\ reached = 0 /\ result = 0
    /\ Batches!Init /\ (kind # "EVENTS" => source = "sqs" /\ routed)
    /\ \/ kind = "HTTP" /\ Http!Init
       \/ /\ kind # "HTTP"
          /\ conf = 0 /\ main = 0 /\ work = 0 /\ channel = 0 /\ expired = 0
          /\ passed = 0 /\ handler = 0 /\ answer = 0 /\ record = 0
    /\ \/ kind = "LIMITS" /\ Limits!Init
       \/ /\ kind # "LIMITS"
          /\ emitted = 0 /\ tripped = 0 /\ body = 0 /\ chunks = 0 /\ fails = 0
          /\ pump = 0 /\ given = 0 /\ got = 0 /\ saw = 0
    /\ \/ kind = "BIND" /\ Binding!Init
       \/ kind # "BIND" /\ model = 0 /\ config = 0 /\ request = 0 /\ bound = 0

ServicesNext ==
    /\ \/ /\ kind = "LIMITER" /\ Next
          /\ UNCHANGED <<vmVars, lifecycleVars, logVars, batchVars, httpVars, routes, limitVars,
                         embedVars, bindVars>>
       \/ /\ kind = "MICROVM" /\ VM!Next /\ Few'
          /\ UNCHANGED <<vars, lifecycleVars, logVars, batchVars, httpVars, routes, limitVars,
                         embedVars, bindVars>>
       \/ /\ kind = "LIFECYCLE" /\ Lifecycle!Next
          /\ UNCHANGED <<vars, vmVars, logVars, batchVars, httpVars, routes, limitVars,
                         embedVars, bindVars>>
       \/ /\ kind = "LOG" /\ Log!Next
          /\ UNCHANGED <<vars, vmVars, lifecycleVars, batchVars, httpVars, routes, limitVars,
                         embedVars, bindVars>>
       \/ /\ kind = "EVENTS" /\ Batches!Next
          /\ UNCHANGED <<vars, vmVars, lifecycleVars, logVars, httpVars, routes, limitVars,
                         embedVars, bindVars>>
       \/ /\ kind = "HTTP" /\ Http!Next
          /\ UNCHANGED <<vars, vmVars, lifecycleVars, logVars, batchVars, routes, limitVars,
                         embedVars, bindVars>>
       \/ /\ kind = "ROUTES" /\ Routes!Next
          /\ UNCHANGED <<vars, vmVars, lifecycleVars, logVars, batchVars, httpVars, limitVars,
                         embedVars, bindVars>>
       \/ /\ kind = "LIMITS" /\ Limits!Next
          /\ UNCHANGED <<vars, vmVars, lifecycleVars, logVars, batchVars, httpVars, routes,
                         embedVars, bindVars>>
       \/ /\ kind = "EMBED" /\ Embedding!Next
          /\ UNCHANGED <<vars, vmVars, lifecycleVars, logVars, batchVars, httpVars, routes,
                         limitVars, bindVars>>
       \/ /\ kind = "BIND" /\ Binding!Next
          /\ UNCHANGED <<vars, vmVars, lifecycleVars, logVars, batchVars, httpVars, routes,
                         limitVars, embedVars>>
    /\ UNCHANGED kind
ServicesSpec == ServicesInit /\ [][ServicesNext]_allVars

-----------------------------------------------------------------------------
(* The properties of the modules.                                           *)

\* The state of the one that runs is well formed.
ServicesTypeOK ==
    CASE kind = "LIMITER"   -> TypeOK
      [] kind = "MICROVM"   -> VM!TypeOK
      [] kind = "LIFECYCLE" -> Lifecycle!TypeOK
      [] kind = "LOG"       -> Log!TypeOK
      [] kind = "EVENTS"    -> Batches!TypeOK
      [] kind = "HTTP"      -> Http!TypeOK
      [] kind = "ROUTES"    -> Routes!TypeOK
      [] kind = "LIMITS"    -> Limits!TypeOK
      [] kind = "EMBED"     -> Embedding!TypeOK
      [] kind = "BIND"      -> Binding!TypeOK

\* A record that says a MicroVM has ended, or is to end, is right, however
\* commands overlap (controller.go).
EndIsTrue == VM!EndIsTrue

\* Commands one after the other lose nothing, whichever of their calls fail.
SerialCommandsKept == VM!SerialCommandsKept

\* Flush returns after what was queued before it was tried, and Close after all
\* of the queue (LogNotifier).
NotifierSafe == Log!NotifierSafe

\* A lifecycle hook moves a session only along a contract that was accepted,
\* whatever its handlers do (MicroVMLifecycle).  A record of an event source is
\* lost only where the source gives up, and one that was handled is not delivered
\* again where the answer can say so (EventBatches).
HandlersSafe ==
    /\ kind = "LIFECYCLE" => Lifecycle!LifecycleSound
    /\ Batches!BatchesSafe

\* Whatever times out or fails, the handler runs behind its gates, and the client
\* is told what was recorded (HttpServe); a streamed response stays within its
\* limit and its end is told only when it is whole (ResponseLimits).
ResponsesTrue ==
    /\ kind = "HTTP"   => Http!RequestServed
    /\ kind = "LIMITS" => Limits!ResponseWhole

\* The most specific route wins, in whatever order routes are added (Router); a
\* handler's model is what the request says, or it is refused (RequestBinding).
RequestsUnderstood ==
    /\ Routes!LiteralWins
    /\ kind = "BIND" => Binding!RequestBound

\* A batch of texts is embedded as a whole or its failure is told, and no worker
\* of it is left (EmbedBatch).
BatchEmbedded == Embedding!BatchEmbedded
=============================================================================

---------------------------- MODULE McpSessions ----------------------------
(***************************************************************************)
(* One session of the MCP server (runtime/mcp/server.go), its record in a   *)
(* MemorySessionStore (session.go) or a DynamoSessionStore                  *)
(* (session_dynamo.go), and the requests of the session that run and can be *)
(* cancelled (cancel.go).                                                   *)
(*                                                                         *)
(* A message of the session reads the record and writes it back with an     *)
(* expiry counted from the message's arrival; only then it is served.       *)
(* DELETE reads the record and removes it.  None of the writes has a        *)
(* condition.  The tracker of running requests is the process's own.        *)
(***************************************************************************)
EXTENDS Naturals

CONSTANTS None,
          Messages,    \* HTTP messages that are being served
          Processes, Keys,
          TTL,         \* sessionTTL, more than CallTime
          CallTime,    \* a message's calls of the store end within this time
          Staleness,   \* bound: how long a read may return an older record
          MaxBatch,    \* bound: requests of a batch
          MaxClock     \* bound: the last time

VARIABLES clock, durable,   \* whether the store is the DynamoDB one
          store,      \* the time at which the stored session expires
          past,       \* what the record was, and how long it may be read
          created,    \* whether a client asked for the session and was told its id
          message, tracker, cancelled,
          shadowed,   \* history: running requests whose id another one took
          last,       \* history: when the last message that was served arrived,
                      \* unless the session was deleted or may be gone since
          deleted     \* history: when DELETE removed the session, until it is
                      \* written again

vars == <<clock, durable, store, past, created, message, tracker, cancelled,
          shadowed, last, deleted>>

Times == 0 .. MaxClock
Record == 0 .. MaxClock + TTL \cup {None}
StoreSteps == {"create", "read", "check", "evict", "refresh", "mark", "erase"}
Message == [kind : {"initialize", "call", "initialized", "cancel", "delete"},
            step : StoreSteps \cup {"idle", "next", "run", "lookup"},
            now : Times, copy : Record, left : 0 .. MaxBatch,
            key : Keys, process : Processes]

Running(m) == message[m].step = "run"

TypeOK ==
    /\ clock \in Times /\ durable \in BOOLEAN
    /\ store \in Record
    /\ past \subseteq [record : Record, until : 0 .. MaxClock + Staleness]
    /\ created \in {"no", "asked", "told"}
    /\ message \in [Messages -> Message]
    /\ tracker \in [Processes -> [Keys -> Messages \cup {None}]]
    /\ cancelled \subseteq {m \in Messages : Running(m)}
    /\ shadowed \subseteq {m \in Messages : Running(m)}
    /\ {last, deleted} \subseteq Times \cup {None}

Idle == [kind |-> "call", step |-> "idle", now |-> 0, copy |-> None, left |-> 0,
         key |-> CHOOSE k \in Keys : TRUE, process |-> CHOOSE p \in Processes : TRUE]

Init ==
    /\ clock = 0 /\ durable \in BOOLEAN
    /\ store = None /\ past = {}
    /\ created = "no"
    /\ message = [m \in Messages |-> Idle]
    /\ tracker = [p \in Processes |-> [k \in Keys |-> None]]
    /\ cancelled = {} /\ shadowed = {}
    /\ last = None /\ deleted = None

-----------------------------------------------------------------------------
(* The store.                                                               *)

Write(record) ==
    /\ store' = record
    /\ past' = IF durable THEN past \cup {[record |-> store, until |-> clock + Staleness]}
               ELSE past
    /\ deleted' = IF record = None THEN deleted ELSE None

\* sessionExpiredAt
Expired(record) == record <= clock

\* A session that was refreshed by a message of this time lasts until then.
Promised(time) == time + TTL - CallTime

MovesTo(m, step) == message' = [message EXCEPT ![m].step = step]
Ends(m) == message' = [message EXCEPT ![m] = Idle]
requestVars == <<tracker, cancelled, shadowed>>

-----------------------------------------------------------------------------
(* The session: createSession, getSession and handleDELETE.                 *)

\* A message arrives.  A memory store and its tracker are in one process; with
\* the other store it matters where requests run and are cancelled.
Arrive(m, kind, left, p) ==
    /\ message[m].step = "idle"
    /\ created = IF kind = "initialize" THEN "no" ELSE "told"
    /\ left > 0 => kind \in {"initialize", "call"}
    /\ kind = "call" => left > 0
    /\ ~durable \/ kind \notin {"call", "cancel"} => p = Idle.process
    /\ created' = IF kind = "initialize" THEN "asked" ELSE created
    /\ message' = [message EXCEPT ![m] =
                     [Idle EXCEPT !.kind = kind, !.left = left, !.process = p, !.now = clock,
                                  !.step = IF kind = "initialize" THEN "create" ELSE "read"]]
    /\ UNCHANGED <<clock, durable, store, past, requestVars, last, deleted>>

\* What follows when the session is created or refreshed.
Served(m) ==
    LET kind == message[m].kind IN
    IF message[m].left > 0
    THEN message' = [message EXCEPT ![m].step = "next", ![m].now = 0, ![m].kind = "call"]
    ELSE CASE kind = "initialized" -> MovesTo(m, "mark")
           [] kind = "cancel" -> message' = [message EXCEPT ![m].step = "lookup", ![m].now = 0]
           [] OTHER -> Ends(m)

\* createSession, or the refresh of getSession.  The answer of the write may get
\* lost; requireProtocolVersion may refuse what follows the refresh.
Refresh(m, told) ==
    /\ message[m].step \in {"create", "refresh"}
    /\ Write(message[m].now + TTL)
    /\ \/ told /\ Served(m)
       \/ Ends(m)
    /\ last' = IF told /\ (last = None \/ last < message[m].now) /\ clock < Promised(message[m].now)
               THEN message[m].now ELSE last
    /\ created' = IF told THEN "told" ELSE created
    /\ UNCHANGED <<clock, durable, requestVars>>

\* SessionStore.Get, the read.
Get(m) ==
    \E record \in {store} \cup {p.record : p \in past} :
        /\ message[m].step = "read"
        /\ IF record = None THEN Ends(m)
           ELSE message' = [message EXCEPT ![m].step = "check", ![m].copy = record]
        /\ UNCHANGED <<clock, durable, store, past, created, requestVars, last, deleted>>

\* SessionStore.Get, the record's expiry against a clock read after it.
Check(m) ==
    /\ message[m].step = "check"
    /\ IF Expired(message[m].copy)
       THEN IF durable THEN Ends(m) ELSE MovesTo(m, "evict")
       ELSE \/ message' = [message EXCEPT ![m].copy = None,
                              ![m].step = IF message[m].kind = "delete" THEN "erase" ELSE "refresh"]
            \/ message[m].kind = "delete" /\ Ends(m)       \* requireProtocolVersion
    /\ UNCHANGED <<clock, durable, store, past, created, requestVars, last, deleted>>

\* MemorySessionStore.Get removes what it found expired, under another lock.
Evict(m) ==
    /\ message[m].step = "evict"
    /\ Write(None)
    /\ Ends(m)
    /\ UNCHANGED <<clock, durable, created, requestVars, last>>

\* handleNotification writes the session that getSession gave it once more.
Mark(m) ==
    /\ message[m].step = "mark"
    /\ Write(message[m].now + TTL)
    /\ Ends(m)
    /\ UNCHANGED <<clock, durable, created, requestVars, last>>

\* handleDELETE; the streams and tasks that it deletes next are others' state.
Erase(m) ==
    /\ message[m].step = "erase"
    /\ store' = None
    /\ past' = IF durable THEN past \cup {[record |-> store, until |-> clock + Staleness]}
               ELSE past
    /\ deleted' = clock /\ last' = None
    /\ Ends(m)
    /\ UNCHANGED <<clock, durable, created, requestVars>>

\* A call of the store fails.
Fail(m) ==
    /\ message[m].step \in StoreSteps
    /\ Ends(m)
    /\ UNCHANGED <<clock, durable, store, past, created, requestVars, last, deleted>>

-----------------------------------------------------------------------------
(* The requests: handleRequestHTTP, runBatchRequests and the tracker.       *)

\* cancellationTracker.track
Track(m, k) ==
    LET p == message[m].process IN
    /\ message[m].step = "next"
    /\ tracker' = [tracker EXCEPT ![p][k] = m]
    /\ shadowed' = shadowed \cup {n \in Messages : /\ Running(n)
                                                   /\ message[n].key = k /\ message[n].process = p}
    /\ message' = [message EXCEPT ![m].step = "run", ![m].key = k, ![m].left = @ - 1]
    /\ UNCHANGED <<clock, durable, store, past, created, cancelled, last, deleted>>

Over(m) == IF message[m].left > 0
           THEN message' = [message EXCEPT ![m].step = "next", ![m].key = Idle.key]
           ELSE Ends(m)

\* Mutant: the entry is deleted, whosever it is.
FinishAnyone(m) ==
    /\ Running(m)
    /\ tracker' = [tracker EXCEPT ![message[m].process][message[m].key] = None]
    /\ cancelled' = cancelled \ {m} /\ shadowed' = shadowed \ {m}
    /\ Over(m)
    /\ UNCHANGED <<clock, durable, store, past, created, last, deleted>>

\* Mutant: the session is refreshed again when the request is over.
FinishRefreshes(m) ==
    /\ Running(m)
    /\ tracker' = [tracker EXCEPT ![message[m].process][message[m].key] = IF @ = m THEN None ELSE @]
    /\ cancelled' = cancelled \ {m} /\ shadowed' = shadowed \ {m}
    /\ Over(m)
    /\ Write(clock + TTL)
    /\ UNCHANGED <<clock, durable, created, last>>

\* The request is over, and the function that track returned is called.
Finish(m) ==
    /\ Running(m)
    /\ tracker' = [tracker EXCEPT ![message[m].process][message[m].key] = IF @ = m THEN None ELSE @]
    /\ cancelled' = cancelled \ {m} /\ shadowed' = shadowed \ {m}
    /\ Over(m)
    /\ UNCHANGED <<clock, durable, store, past, created, last, deleted>>

\* cancellationTracker.cancel: of the request with this id, if it runs here.
Cancel(m, k) ==
    /\ message[m].step = "lookup"
    /\ cancelled' = cancelled \cup ({tracker[message[m].process][k]} \ {None})
    /\ Ends(m)
    /\ UNCHANGED <<clock, durable, store, past, created, tracker, shadowed, last, deleted>>

\* A process ends, with what runs in it.
Crash(p) ==
    LET gone == {m \in Messages : message[m].process = p} IN
    /\ durable
    /\ message' = [m \in Messages |-> IF m \in gone THEN Idle ELSE message[m]]
    /\ tracker' = [tracker EXCEPT ![p] = [k \in Keys |-> None]]
    /\ cancelled' = cancelled \ gone /\ shadowed' = shadowed \ gone
    /\ UNCHANGED <<clock, durable, store, past, created, last, deleted>>

-----------------------------------------------------------------------------
\* DynamoDB deletes expired records.
Reap ==
    /\ durable /\ store # None /\ Expired(store)
    /\ Write(None)
    /\ UNCHANGED <<clock, durable, created, message, requestVars, last>>

Tick ==
    /\ clock < MaxClock
    /\ \A m \in Messages : message[m].step \in StoreSteps => clock < message[m].now + CallTime
    /\ clock' = clock + 1
    /\ past' = {p \in past : p.until > clock}
    /\ last' = IF last # None /\ clock' < Promised(last) THEN last ELSE None
    /\ UNCHANGED <<durable, store, created, message, requestVars, deleted>>

Next ==
    \/ \E m \in Messages :
         \/ \E kind \in {"initialize", "call", "initialized", "cancel", "delete"},
               left \in 0 .. MaxBatch, p \in Processes : Arrive(m, kind, left, p)
         \/ \E told \in BOOLEAN : Refresh(m, told)
         \/ Get(m) \/ Check(m) \/ Evict(m) \/ Mark(m) \/ Erase(m) \/ Fail(m)
         \/ \E k \in Keys : Track(m, k) \/ Cancel(m, k)
         \/ Finish(m)
    \/ \E p \in Processes : Crash(p)
    \/ Reap
    \/ Tick

Spec == Init /\ [][Next]_vars

-----------------------------------------------------------------------------
(* Properties.                                                              *)

\* The DynamoDB store keeps a session that nobody deletes for its TTL after the
\* last message that was served, up to the time that older messages take to
\* write their expiry over it (sliding expiry).
SessionLasts ==
    durable /\ last # None => store # None /\ store >= Promised(last)

\* A request that runs can be cancelled in its process, whatever requests with
\* its id ended before: the tracker's entry is its own.
CancelReaches ==
    \A m \in Messages :
        Running(m) /\ m \notin shadowed => tracker[message[m].process][message[m].key] = m

SessionSafe == SessionLasts /\ CancelReaches

\* A deleted session comes back, if at all, by a message that was served while
\* DELETE removed it or that read an old record: nothing revives it later.
DeletedStaysGone ==
    [][deleted # None /\ store' # None => clock <= deleted + Staleness + CallTime]_vars
=============================================================================

------------------------------- MODULE MCMcp -------------------------------
(***************************************************************************)
(* Small instances of the MCP server: the tasks and their lists, the         *)
(* sessions, the versions of the protocol that messages are served under,    *)
(* and the calls of a tool.                                                 *)
(* They share no state that the others' steps depend on: a behaviour is one  *)
(* of one of them, and the variables of the others are not used.            *)
(***************************************************************************)
EXTENDS McpTasks, FiniteSets

CONSTANTS None, t1, c1, c2, r1, r2, p1, p2, k1,
          Messages, Processes, Keys, TTL, CallTime, Staleness, MaxBatch, MaxClock,
          MaxSessions, Headers, Metas, Methods,
          PageTasks, PageTimes, PageLimit

VARIABLES kind,
          clock, durable, store, record, created, message, tracker, cancelled,
          shadowed, last, deleted,
          config, sessions, work, batch, reply, told,
          call, step, server, inner, result, err, outcome, code, marked, finishes, answer, late,
          rows, oldRows, rowStore, cursor, listed, lasting, changed

sessionVars == <<clock, durable, store, record, created, message, tracker, cancelled,
                 shadowed, last, deleted>>
protocolVars == <<config, sessions, work, batch, reply, told>>
callVars == <<call, step, server, inner, result, err, outcome, code, marked, finishes, answer,
              late>>
pageVars == <<rows, oldRows, rowStore, cursor, listed, lasting, changed>>
Session == INSTANCE McpSessions WITH past <- record
Protocol == INSTANCE McpProtocol
Call == INSTANCE ToolCalls
ASSUME NoneAssumption == None \notin Call!HandlerErrors \cup {"invalid", "internal", "notFound"}
Pages == INSTANCE TaskPages WITH
    Tasks <- PageTasks, Times <- PageTimes, Limit <- PageLimit,
    tasks <- rows, past <- oldRows, store <- rowStore
ASSUME SessionsAssumption == MaxSessions \in Nat
ASSUME PagesAssumption == /\ IsFiniteSet(PageTasks)
                          /\ PageTasks \cup PageTimes \cup {PageLimit} \subseteq Nat

McpInit ==
    /\ kind \in {"TASKS", "SESSION", "PROTOCOL", "CALL", "PAGES"}
    /\ Init
    /\ Session!Init /\ (kind # "SESSION" => durable)
    /\ \/ kind = "PROTOCOL" /\ Protocol!Init
       \/ /\ kind # "PROTOCOL"
          /\ config = 0 /\ sessions = 0 /\ work = 0 /\ batch = 0 /\ reply = 0 /\ told = 0
    /\ \/ kind = "CALL" /\ Call!Init
       \/ /\ kind # "CALL"
          /\ call = 0 /\ step = 0 /\ server = 0 /\ inner = 0 /\ result = 0 /\ err = 0
          /\ outcome = 0 /\ code = 0 /\ marked = 0 /\ finishes = 0 /\ answer = 0 /\ late = 0
    /\ Pages!Init /\ (kind # "PAGES" => rowStore = "memory")
McpNext ==
    /\ \/ kind = "TASKS" /\ Next /\ UNCHANGED <<sessionVars, protocolVars, callVars, pageVars>>
       \/ kind = "SESSION" /\ Session!Next /\ UNCHANGED <<vars, protocolVars, callVars, pageVars>>
       \/ /\ kind = "PROTOCOL" /\ Protocol!Next
          /\ UNCHANGED <<vars, sessionVars, callVars, pageVars>>
       \/ kind = "CALL" /\ Call!Next /\ UNCHANGED <<vars, sessionVars, protocolVars, pageVars>>
       \/ kind = "PAGES" /\ Pages!Next /\ UNCHANGED <<vars, sessionVars, protocolVars, callVars>>
    /\ UNCHANGED kind
McpSpec == McpInit /\ [][McpNext]_<<kind, vars, sessionVars, protocolVars, callVars, pageVars>>

-----------------------------------------------------------------------------
(* The properties of McpTasks and, named here, those of the others.         *)

\* The tasks, the session and the requests are well formed.
McpTypeOK ==
    /\ TypeOK /\ Session!TypeOK
    /\ kind = "PROTOCOL" => Protocol!TypeOK
    /\ kind = "CALL" => Call!TypeOK
    /\ kind = "PAGES" => Pages!TypeOK

\* A tool is stopped only when its task is recorded as canceled, and everyone who
\* asks for a task's result is told the same.  A session in use lasts, and its
\* running requests can be cancelled.
RecordsSafe == StoppedIsCanceled /\ ResultsAgree /\ Session!SessionSafe

\* Messages are served as the session negotiated, or apart from it as the
\* stateless version says, and are answered in its form (McpProtocol).  A call of
\* a tool, as a task or not, is told as the tool's telemetry reports it
\* (ToolCalls).  The pages of a list of tasks hold each that lasts (TaskPages).
AnswersTrue ==
    /\ kind = "PROTOCOL" => Protocol!ProtocolSafe
    /\ kind = "CALL" => Call!ToolToldTrue
    /\ kind = "PAGES" => Pages!PagesComplete

\* A deleted session is revived only by messages that overlap its deletion.
DeletedStaysGone == Session!DeletedStaysGone
=============================================================================

-------------------------- MODULE MemoryStreamStore --------------------------
(***************************************************************************)
(* The streams of one MCP session in memory (runtime/mcp/stream_store.go),  *)
(* used by the server as DynamoStreamStore's are.  A step is what happens    *)
(* under the store's mutex; a subscription sleeps on its stream's condition  *)
(* variable between two steps, and hands each event over to a client that    *)
(* may have gone.  The session's record is created by the first stream and   *)
(* again by a call that overlaps the session's deletion: the new record       *)
(* counts its events from one again, and a client that resumes looks the id   *)
(* of its last event up among them.                                          *)
(***************************************************************************)
EXTENDS Integers, FiniteSets, SequencesExt

CONSTANTS Streams, Final, MaxDisconnects, Deletable

VARIABLES nextSeq,  \* the session record's counter, 0 in a new record
          known,    \* the streams of the session's record
          stream,   \* each stream: its events, and whether it is closed
          tool,     \* each stream's writer, runStreamingTool
          sub,      \* each client's subscription, pumpSubscription, and the stream
                    \* that it is of: the client's own, if it did not resume another
          deleted,  \* whether DeleteSession was called
          got,      \* history: the events each stream's client received
          disconnects

vars == <<nextSeq, known, stream, tool, sub, deleted, got, disconnects>>

Event == [seq : 1 .. Cardinality(Streams) * (Final + 1), stream : Streams,
          n : 1 .. Final + 1]
ToolSteps == {"create", "append", "close", "done"}
SubSteps == {"new", "next", "asleep", "send", "closed", "gone", "off", "found"}

TypeOK ==
    /\ nextSeq \in Nat
    /\ known \subseteq Streams
    /\ stream \in [Streams -> [events : Seq(Event), closed : BOOLEAN]]
    /\ tool \in [Streams -> [step : ToolSteps, n : 1 .. Final + 1]]
    /\ sub \in [Streams -> [step : SubSteps, of : Streams, index : Nat,
                            canceled : BOOLEAN, watched : BOOLEAN]]
    /\ deleted \in BOOLEAN
    /\ got \in [Streams -> Seq(Event)]
    /\ disconnects \in [Streams -> 0 .. MaxDisconnects]

Init ==
    /\ nextSeq = 0
    /\ known = {}
    /\ stream = [s \in Streams |-> [events |-> <<>>, closed |-> FALSE]]
    /\ tool = [s \in Streams |-> [step |-> "create", n |-> 1]]
    /\ sub = [s \in Streams |-> [step |-> "new", of |-> s, index |-> 0,
                                 canceled |-> FALSE, watched |-> FALSE]]
    /\ deleted = FALSE
    /\ got = [s \in Streams |-> <<>>]
    /\ disconnects = [s \in Streams |-> 0]

-----------------------------------------------------------------------------
(* The writer of a stream.                                                  *)

\* cond.Broadcast: the subscriptions asleep on the streams go on.
Woken(streams) ==
    [s \in Streams |->
       IF sub[s].of \in streams /\ sub[s].step = "asleep"
         THEN [sub[s] EXCEPT !.step = "next"] ELSE sub[s]]
Broadcast(streams) == sub' = Woken(streams)

Create(s) ==
    /\ tool[s].step = "create"
    /\ nextSeq' = IF known = {} THEN 0 ELSE nextSeq
    /\ known' = known \cup {s}
    /\ tool' = [tool EXCEPT ![s].step = "append"]
    /\ UNCHANGED <<stream, sub, deleted, got, disconnects>>

\* Where the writer goes after an append: as in DynamoStreamStore.
AfterAppend(s, ok) ==
    LET n == tool[s].n
        closing == IF n = 1 THEN ~ok ELSE n = Final + 1 \/ (n = Final /\ ok)
    IN  tool' = [tool EXCEPT ![s].step = IF closing THEN "close" ELSE "append",
                             ![s].n    = IF closing THEN n ELSE n + 1]

AppendEvent(s) ==
    /\ tool[s].step = "append"
    /\ IF s \in known
         THEN /\ nextSeq' = nextSeq + 1
              /\ stream' = [stream EXCEPT
                    ![s].events = Append(@, [seq |-> nextSeq + 1, stream |-> s,
                                             n |-> tool[s].n])]
              /\ Broadcast({s})
         ELSE UNCHANGED <<nextSeq, stream, sub>>
    /\ AfterAppend(s, s \in known)
    /\ UNCHANGED <<known, deleted, got, disconnects>>

\* Mutant: nobody is told that the stream is closed.
CloseQuietly(s) ==
    /\ tool[s].step = "close"
    /\ IF s \in known
         THEN stream' = [stream EXCEPT ![s].closed = TRUE]
         ELSE UNCHANGED stream
    /\ tool' = [tool EXCEPT ![s].step = "done"]
    /\ UNCHANGED <<nextSeq, known, sub, deleted, got, disconnects>>

Close(s) ==
    /\ tool[s].step = "close"
    /\ IF s \in known
         THEN stream' = [stream EXCEPT ![s].closed = TRUE] /\ Broadcast({s})
         ELSE UNCHANGED <<stream, sub>>
    /\ tool' = [tool EXCEPT ![s].step = "done"]
    /\ UNCHANGED <<nextSeq, known, deleted, got, disconnects>>

\* DeleteSession closes what it forgets.
DeleteSession ==
    /\ Deletable /\ ~deleted
    /\ deleted' = TRUE
    /\ stream' = [s \in Streams |->
                    IF s \in known THEN [stream[s] EXCEPT !.closed = TRUE] ELSE stream[s]]
    /\ Broadcast(known)
    /\ known' = {}
    /\ UNCHANGED <<nextSeq, tool, got, disconnects>>

-----------------------------------------------------------------------------
(* The subscription of a stream's client.                                   *)

Following(s) == sub[s].step \in {"next", "asleep", "send"}

\* startIndexAfterSeq: how many of the stream's events are not after the given one.
StartIndexAfterSeq(t, seq) ==
    Cardinality({i \in DOMAIN stream[t].events : stream[t].events[i].seq <= seq})

\* seqToStream of the session's record: the event is one of the stream's.
Holds(t, seq) == t \in known /\ \E i \in DOMAIN stream[t].events : stream[t].events[i].seq = seq

\* Subscribe: the pump's goroutine starts, and another that waits for the request
\* to end (watched).
Subscribe(s, t, seq) ==
    sub' = [sub EXCEPT ![s] = [step |-> "next", of |-> t, index |-> StartIndexAfterSeq(t, seq),
                               canceled |-> FALSE, watched |-> TRUE]]

\* handleToolsCallStream subscribes from the start once the stream is primed.
First(s) ==
    /\ sub[s].step = "new"
    /\ tool[s].n > 1
    /\ IF s \in known THEN Subscribe(s, s, 0)
                      ELSE sub' = [sub EXCEPT ![s].step = "gone"]
    /\ UNCHANGED <<nextSeq, known, stream, tool, deleted, got, disconnects>>

\* handleGET looks the last event up in the session's record, which may be another
\* than the one it was of.
StreamForEvent(s) ==
    /\ sub[s].step = "off" /\ ~sub[s].watched
    /\ got[s] # <<>>
    /\ \/ \E t \in Streams :
             /\ Holds(t, Last(got[s]).seq)
             /\ sub' = [sub EXCEPT ![s].step = "found", ![s].of = t]
       \/ /\ \A t \in Streams : ~Holds(t, Last(got[s]).seq)
          /\ sub' = [sub EXCEPT ![s].step = "gone"]
    /\ UNCHANGED <<nextSeq, known, stream, tool, deleted, got, disconnects>>

\* Then it subscribes to the stream found, if the event is still one of its.
Resume(s) ==
    /\ sub[s].step = "found"
    /\ LET t == sub[s].of
           seq == Last(got[s]).seq
       IN  IF Holds(t, seq) THEN Subscribe(s, t, seq)
                            ELSE sub' = [sub EXCEPT ![s].step = "gone"]
    /\ UNCHANGED <<nextSeq, known, stream, tool, deleted, got, disconnects>>

\* Mutant: a closed stream ends before the rest of its events.
TakeNextClosedFirst(s) ==
    /\ sub[s].step = "next"
    /\ LET followed == stream[sub[s].of]
           more == sub[s].index < Len(followed.events)
       IN  sub' = [sub EXCEPT
                     ![s].step  = CASE sub[s].canceled -> "off"
                                    [] ~sub[s].canceled /\ followed.closed -> "closed"
                                    [] ~sub[s].canceled /\ ~followed.closed /\ more -> "send"
                                    [] OTHER -> "asleep",
                     ![s].index = IF more THEN @ + 1 ELSE @]
    /\ UNCHANGED <<nextSeq, known, stream, tool, deleted, got, disconnects>>

\* waitNextSubscriptionEvent: the next event is taken, or the pump ends, or it
\* sleeps until there is news.
TakeNext(s) ==
    /\ sub[s].step = "next"
    /\ LET followed == stream[sub[s].of]
           more == sub[s].index < Len(followed.events)
       IN  sub' = [sub EXCEPT
                     ![s].step  = CASE sub[s].canceled  -> "off"
                                    [] ~sub[s].canceled /\ more -> "send"
                                    [] ~sub[s].canceled /\ ~more /\ followed.closed -> "closed"
                                    [] OTHER -> "asleep",
                     ![s].index = IF ~sub[s].canceled /\ more THEN @ + 1 ELSE @]
    /\ UNCHANGED <<nextSeq, known, stream, tool, deleted, got, disconnects>>

\* The pump hands the event over, or finds the request ended: both may be ready.
Send(s) ==
    /\ sub[s].step = "send"
    /\ \/ /\ got' = [got EXCEPT ![s] = Append(@, stream[sub[s].of].events[sub[s].index])]
          /\ sub' = [sub EXCEPT ![s].step = "next"]
       \/ /\ sub[s].canceled
          /\ sub' = [sub EXCEPT ![s].step = "off"]
          /\ UNCHANGED got
    /\ UNCHANGED <<nextSeq, known, stream, tool, deleted, disconnects>>

\* The client's connection breaks, or its request ends.
Disconnect(s) ==
    /\ Following(s) /\ ~sub[s].canceled
    /\ disconnects[s] < MaxDisconnects
    /\ disconnects' = [disconnects EXCEPT ![s] = @ + 1]
    /\ sub' = [sub EXCEPT ![s].canceled = TRUE]
    /\ UNCHANGED <<nextSeq, known, stream, tool, deleted, got>>

\* broadcastOnDone wakes the subscription of a request that ended, and the others
\* of its stream.
BroadcastOnDone(s) ==
    /\ sub[s].canceled /\ sub[s].watched
    /\ sub' = [Woken({sub[s].of}) EXCEPT ![s].watched = FALSE]
    /\ UNCHANGED <<nextSeq, known, stream, tool, deleted, got, disconnects>>

-----------------------------------------------------------------------------

ToolStep(s) == Create(s) \/ AppendEvent(s) \/ Close(s)
PumpStep(s) == First(s) \/ StreamForEvent(s) \/ Resume(s) \/ TakeNext(s) \/ Send(s)

Next ==
    \/ \E s \in Streams :
         ToolStep(s) \/ PumpStep(s) \/ Disconnect(s) \/ BroadcastOnDone(s)
    \/ DeleteSession

Spec == Init /\ [][Next]_vars

-----------------------------------------------------------------------------
(* Properties.                                                              *)

\* A client receives events in the order of their ids and each once, across
\* reconnects.  They are of its own stream, unless it resumed once DeleteSession had
\* removed that stream and a call had begun the session anew: the id it presents may
\* then be one of another stream's, and that stream's events are what it receives from
\* there on.  (docs/integrations/mcp.md:647 says that a resume fails closed.)
ReceivedInOrder ==
    \A s \in Streams :
        /\ \A i, j \in DOMAIN got[s] : i < j => got[s][i].seq < got[s][j].seq
        /\ \A i \in DOMAIN got[s] :
              got[s][i] \in ToSet(stream[s].events) \cup ToSet(stream[sub[s].of].events)
        /\ \A i, j \in DOMAIN got[s] :
              i < j /\ got[s][j] \in ToSet(stream[s].events)
                => got[s][i] \in ToSet(stream[s].events)
        /\ sub[s].of # s => deleted /\ s \notin known /\ sub[s].of \in known

\* Every subscription ends: its tool is done and closes the stream, or its
\* session is deleted, and no wake-up of the condition variable is lost.
SubscriptionsEnd ==
    \A s \in Streams : Following(s) ~> sub[s].step \in {"closed", "gone", "off"}
=============================================================================

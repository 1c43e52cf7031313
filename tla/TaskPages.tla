----------------------------- MODULE TaskPages -----------------------------
(***************************************************************************)
(* tasks/list (runtime/mcp/task.go) on the memory and the DynamoDB task      *)
(* store: a client asks for page after page.  The cursor is an offset into   *)
(* the tasks of the session, ordered by the time of their creation, which    *)
(* change meanwhile.                                                        *)
(*                                                                         *)
(* A task is its number, which also orders its id among others.              *)
(***************************************************************************)
EXTENDS Naturals, SequencesExt

CONSTANTS Tasks,   \* a set of numbers
          Times,   \* of creation
          Limit    \* of a page

VARIABLES store,     \* which of the two
          tasks,     \* each task: its status and its creation
          past,      \* the tasks as a replica of DynamoDB may show them
          cursor,    \* what the client asks for next
          listed,    \* what it was given
          lasting,   \* history: the tasks that are there from its first page on
          changed    \* history: the tasks that came or went since

vars == <<store, tasks, past, cursor, listed, lasting, changed>>

Start == [step |-> "start", offset |-> 0]
Paging(n) == [step |-> "paging", offset |-> n]
End == [step |-> "end", offset |-> 0]
Record(status, created) == [status |-> status, created |-> created]

TypeOK ==
    /\ store \in {"memory", "dynamo"}
    /\ \A t \in Tasks :
          \A r \in {tasks[t], past[t]} :
             /\ r.status \in {"absent", "live", "expired", "removed"}
             /\ r.created \in Times \cup {0}
    /\ cursor.step \in {"start", "paging", "end"} /\ cursor.offset \in Nat
    /\ \A i \in DOMAIN listed : listed[i] \in Tasks
    /\ lasting \cup changed \subseteq Tasks

Init ==
    /\ store \in {"memory", "dynamo"}
    /\ tasks = [t \in Tasks |-> Record("absent", 0)] /\ past = tasks
    /\ cursor = Start
    /\ listed = <<>> /\ lasting = {} /\ changed = {}

Live(seen) == {t \in Tasks : seen[t].status = "live"}
Stored(seen) == {t \in Tasks : seen[t].status \in {"live", "expired"}}
Before(t, u) == \/ tasks[t].created < tasks[u].created
                \/ tasks[t].created = tasks[u].created /\ t < u

-----------------------------------------------------------------------------
(* What happens to the session's tasks.                                     *)

Write(new, ts) ==
    /\ tasks' = new
    /\ past' = IF store = "memory" THEN new ELSE tasks
    /\ changed' = IF cursor = Start THEN changed ELSE changed \cup ts
    /\ UNCHANGED <<store, cursor, listed>>

\* The instances that create tasks have clocks of their own.
Create(t, now) ==
    /\ tasks[t].status = "absent"
    /\ Write([tasks EXCEPT ![t] = Record("live", now)], {t})
    /\ UNCHANGED lasting

\* DynamoDB deletes a task that has expired.
DeleteByTTL(t) ==
    /\ tasks[t].status = "expired"
    /\ Write([tasks EXCEPT ![t].status = "removed"], {t})
    /\ UNCHANGED lasting

DeleteSession ==
    /\ Stored(tasks) # {}
    /\ Write([t \in Tasks |-> IF t \in Stored(tasks) THEN Record("removed", tasks[t].created)
                              ELSE tasks[t]], Stored(tasks))
    /\ lasting' = {}

\* A task's time ends, which the memory store does not heed.
Expire(t) ==
    /\ store = "dynamo" /\ tasks[t].status = "live"
    /\ tasks' = [tasks EXCEPT ![t].status = "expired"]
    /\ past' = [past EXCEPT ![t].status = IF @ = "live" THEN "expired" ELSE @]
    /\ lasting' = lasting \ {t}
    /\ UNCHANGED <<store, cursor, listed, changed>>

\* The replicas of DynamoDB agree.
CatchUp ==
    /\ past' = tasks
    /\ UNCHANGED <<store, tasks, cursor, listed, lasting, changed>>

-----------------------------------------------------------------------------
(* List                                                                     *)

\* The place of a task among those that are stored, and the tasks of a set in
\* their order.
Position(seen, t) == Cardinality({u \in Stored(seen) : Before(u, t)})
Ordered(set) == {s \in SetToSeqs(set) : \A i, j \in DOMAIN s : i < j => Before(s[i], s[j])}

Page(seen) ==
    {t \in Stored(seen) : /\ cursor.offset <= Position(seen, t)
                          /\ Position(seen, t) < cursor.offset + Limit}

\* Mutant: the tasks that have expired are not counted.
HasMoreLive(seen) == Cardinality(Live(seen)) > cursor.offset + Limit

\* The query asks for one more than the page holds.
HasMore(seen) == Cardinality(Stored(seen)) > cursor.offset + Limit

\* Mutant: the cursor moves on by what the page shows.
NextCursorShown(seen) ==
    IF HasMore(seen) THEN Paging(cursor.offset + Cardinality(Page(seen) \cap Live(seen)))
    ELSE End

NextCursor(seen) == IF HasMore(seen) THEN Paging(cursor.offset + Limit) ELSE End

\* Expired tasks are left out of a page, which may be empty then and yet have a
\* cursor to the next.
List(seen) ==
    /\ cursor # End
    /\ \E shown \in Ordered(Page(seen) \cap Live(seen)) : listed' = listed \o shown
    /\ IF cursor = Start
         THEN /\ lasting' = Live(tasks) \cap Live(past)
              /\ changed' = {t \in Tasks : (t \in Stored(tasks)) # (t \in Stored(past))}
         ELSE UNCHANGED <<lasting, changed>>
    /\ cursor' = NextCursor(seen)
    /\ UNCHANGED <<store, tasks, past>>

Next ==
    \/ \E t \in Tasks : \E now \in Times : Create(t, now)
    \/ \E t \in Tasks : Expire(t) \/ DeleteByTTL(t)
    \/ DeleteSession \/ CatchUp
    \/ List(tasks) \/ List(past)

Spec == Init /\ [][Next]_vars

-----------------------------------------------------------------------------
Listed(t) == {i \in DOMAIN listed : listed[i] = t}
Shifted(t) == \E u \in changed : Before(u, t)

\* A client that follows the cursors to their end sees each task that is there
\* all the time, and none twice, unless a task that goes before it came or went
\* in between; and it sees them in their order if none did.
PagesComplete ==
    /\ cursor = End => \A t \in lasting : Listed(t) # {} \/ Shifted(t)
    /\ \A t \in Tasks : Cardinality(Listed(t)) > 1 => Shifted(t)
    /\ changed = {} => \A i, j \in DOMAIN listed : i < j => Before(listed[i], listed[j])
=============================================================================

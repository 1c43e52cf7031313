------------------------------ MODULE EventBus ------------------------------
(***************************************************************************)
(* The event bus (pkg/services): events of one tenant and type, published,   *)
(* deleted and queried page by page, in DynamoDB (eventbus_dynamodb.go) or   *)
(* in memory (eventbus_memory.go).                                          *)
(*                                                                         *)
(* An item's key is the time of its publication and its id; the first        *)
(* Publish of an Event sets both, and they stay with the Event when Publish  *)
(* is tried, or called, again.  A query returns the newest events first.     *)
(* Its pages go on after the last key in DynamoDB, and at an offset into a   *)
(* newly sorted list in memory.                                             *)
(***************************************************************************)
EXTENDS Integers, FiniteSets, SequencesExt

CONSTANTS Events,          \* their ids: natural numbers, in order
          RetryAttempts,
          Limit,           \* of a page, at least 1
          MaxClock,        \* bound: the last time of publication
          MaxCalls         \* bound: calls of Publish for one Event

VARIABLES durable,     \* whether the bus is the DynamoDB one
          clock,
          items,       \* the events that are stored
          publishedAt, \* each Event's PublishedAt, 0 when it is not set
          publish,     \* the call of Publish with each Event
          deletion,    \* a call of DeleteEvent
          query,       \* a client that asks for page after page
          stored,      \* history: the events that were ever stored
          lasting,     \* history: items stored since the first page was asked for
          steady       \* history: whether no item has changed since then

vars == <<durable, clock, items, publishedAt, publish, deletion, query, stored, lasting, steady>>

Item == [at : 1 .. MaxClock, id : Events]
NoItem == [at |-> 0, id |-> 0]
Query == [step : {"idle", "page", "done"},
          offset : 0 .. Cardinality(Events),  \* in memory
          after : Item \cup {NoItem},         \* the last key, in DynamoDB
          got : Seq(Item)]

TypeOK ==
    /\ durable \in BOOLEAN /\ steady \in BOOLEAN
    /\ clock \in 1 .. MaxClock
    /\ items \subseteq Item /\ lasting \subseteq Item
    /\ publishedAt \in [Events -> 0 .. MaxClock]
    /\ publish \in [Events -> [step : {"idle", "create", "handle", "ok", "failed"},
                               failures : 0 .. RetryAttempts, calls : 0 .. MaxCalls]]
    /\ deletion \in Item \cup {NoItem}
    /\ query \in Query
    /\ stored \subseteq Events

Init ==
    /\ durable \in BOOLEAN
    /\ clock = 1
    /\ items = {} /\ stored = {} /\ lasting = {} /\ steady = TRUE
    /\ publishedAt = [e \in Events |-> 0]
    /\ publish = [e \in Events |-> [step |-> "idle", failures |-> 0, calls |-> 0]]
    /\ deletion = NoItem
    /\ query = [step |-> "idle", offset |-> 0, after |-> NoItem, got |-> <<>>]

-----------------------------------------------------------------------------
TheItem(e) == [at |-> publishedAt[e], id |-> e]

Changes(set) ==
    /\ items' = set
    /\ lasting' = lasting \cap set
    /\ steady' = (steady /\ set = items)

PublishIs(e, step) == publish' = [publish EXCEPT ![e].step = step]

\* validateEventForPublish and prepareEventForPublish.  The caller may publish
\* an Event again, after an error or not.
Publish(e) ==
    /\ publish[e].step \in {"idle", "ok", "failed"} /\ publish[e].calls < MaxCalls
    /\ publish' = [publish EXCEPT ![e] = [step |-> "create", failures |-> 0, calls |-> @.calls + 1]]
    /\ publishedAt' = [publishedAt EXCEPT ![e] = IF @ = 0 THEN clock ELSE @]
    /\ UNCHANGED <<durable, clock, items, deletion, query, stored, lasting, steady>>

\* The create is answered: an item that is there already is taken for its own.
Created(e) ==
    /\ publish[e].step = "create"
    /\ Changes(items \cup {TheItem(e)})
    /\ stored' = stored \cup {e}
    /\ PublishIs(e, IF durable THEN "ok" ELSE "handle")
    /\ UNCHANGED <<durable, clock, publishedAt, deletion, query>>

\* Mutant: each attempt is prepared anew.
CreateFailsAnew(e, applied, retryable) ==
    /\ publish[e].step = "create" /\ durable
    /\ Changes(IF applied THEN items \cup {TheItem(e)} ELSE items)
    /\ stored' = IF applied THEN stored \cup {e} ELSE stored
    /\ publish' = [publish EXCEPT ![e] =
                     IF retryable /\ publish[e].failures < RetryAttempts
                     THEN [publish[e] EXCEPT !.failures = publish[e].failures + 1]
                     ELSE [publish[e] EXCEPT !.step = "failed"]]
    /\ publishedAt' = [publishedAt EXCEPT ![e] = clock]
    /\ UNCHANGED <<durable, clock, deletion, query>>

\* createWithRetry: an error, with the item created or not, is tried again if
\* it is one of DynamoDB's passing ones.
CreateFails(e, applied, retryable) ==
    /\ publish[e].step = "create" /\ durable
    /\ Changes(IF applied THEN items \cup {TheItem(e)} ELSE items)
    /\ stored' = IF applied THEN stored \cup {e} ELSE stored
    /\ publish' = [publish EXCEPT ![e] =
                     IF retryable /\ publish[e].failures < RetryAttempts
                     THEN [publish[e] EXCEPT !.failures = publish[e].failures + 1]
                     ELSE [publish[e] EXCEPT !.step = "failed"]]
    /\ UNCHANGED <<durable, clock, publishedAt, deletion, query>>

\* MemoryEventBus.Publish calls the handlers after it stored the event; the
\* first error is Publish's.
Handled(e, ok) ==
    /\ publish[e].step = "handle"
    /\ PublishIs(e, IF ok THEN "ok" ELSE "failed")
    /\ UNCHANGED <<durable, clock, items, publishedAt, deletion, query, stored, lasting, steady>>

\* DeleteEvent finds the event's key by its id, in an index that may be behind.
GetEvent(e) ==
    /\ deletion = NoItem
    /\ e \in stored
    /\ deletion' = TheItem(e)
    /\ UNCHANGED <<durable, clock, items, publishedAt, publish, query, stored, lasting, steady>>
Delete(answered) ==
    /\ deletion # NoItem
    /\ Changes(IF answered THEN items \ {deletion} ELSE items)
    /\ deletion' = NoItem
    /\ UNCHANGED <<durable, clock, publishedAt, publish, query, stored>>

-----------------------------------------------------------------------------
(* Queries.                                                                 *)

\* eventSortKey
Newer(i, j) == i.at > j.at \/ (i.at = j.at /\ i.id > j.id)

\* The orders in which a page may come: sortEventsByPublishedAtDesc leaves
\* events of one time in any order, and gets them from a map.
Sorted(set) == {s \in SetToSeqs(set) : \A i, j \in DOMAIN s : i < j => s[i].at >= s[j].at}
\* The one in which DynamoDB keeps them.
ByKey(set) == {s \in SetToSeqs(set) : \A i, j \in DOMAIN s : i < j => Newer(s[i], s[j])}

Least(i, j) == IF i < j THEN i ELSE j

StartQuery ==
    /\ query.step = "idle"
    /\ query' = [query EXCEPT !.step = "page"]
    /\ lasting' = items /\ steady' = TRUE
    /\ UNCHANGED <<durable, clock, items, publishedAt, publish, deletion, stored>>

\* A query on the partition goes on after the cursor's key.
DynamoPage ==
    \E order \in ByKey({i \in items : query.after = NoItem \/ Newer(query.after, i)}) :
        LET page == SubSeq(order, 1, Least(Limit, Len(order))) IN
        /\ durable /\ query.step = "page"
        /\ query' = [query EXCEPT !.step = IF Len(order) > Limit THEN "page" ELSE "done",
                                  !.after = IF page = <<>> THEN query.after ELSE Last(page),
                                  !.got = query.got \o page]
        /\ UNCHANGED <<durable, clock, items, publishedAt, publish, deletion, stored, lasting, steady>>

\* Mutant: the next page begins one further.
PaginateOff(order, offset) ==
    LET from == Least(offset, Len(order))
        to == Least(from + Limit, Len(order))
    IN  [page |-> SubSeq(order, from + 1, to), next |-> IF to < Len(order) THEN to + 1 ELSE -1]

\* paginateEvents
Paginate(order, offset) ==
    LET from == Least(offset, Len(order))
        to == Least(from + Limit, Len(order))
    IN  [page |-> SubSeq(order, from + 1, to), next |-> IF to < Len(order) THEN to ELSE -1]

MemoryPage ==
    \E order \in Sorted(items) :
        LET page == Paginate(order, query.offset) IN
        /\ ~durable /\ query.step = "page"
        /\ query' = [query EXCEPT !.step = IF page.next = -1 THEN "done" ELSE "page",
                                  !.offset = IF page.next = -1 THEN 0 ELSE page.next,
                                  !.got = query.got \o page.page]
        /\ UNCHANGED <<durable, clock, items, publishedAt, publish, deletion, stored, lasting, steady>>

Tick ==
    /\ clock < MaxClock
    /\ clock' = clock + 1
    /\ UNCHANGED <<durable, items, publishedAt, publish, deletion, query, stored, lasting, steady>>

Next ==
    \/ \E e \in Events :
         \/ Publish(e) \/ Created(e) \/ GetEvent(e)
         \/ \E applied, retryable \in BOOLEAN : CreateFails(e, applied, retryable)
         \/ \E ok \in BOOLEAN : Handled(e, ok)
    \/ \E answered \in BOOLEAN : Delete(answered)
    \/ StartQuery \/ DynamoPage \/ MemoryPage
    \/ Tick

Spec == Init /\ [][Next]_vars

-----------------------------------------------------------------------------
(* Properties.                                                              *)

\* However often Publish is tried or called with an Event, it is stored at most
\* once; and a Publish that succeeds has stored it.
PublishedOnce ==
    /\ \A i, j \in items : i.id = j.id => i = j
    /\ \A e \in Events : publish[e].step = "ok" => e \in stored

\* The pages of a query together hold each event that was stored all the while
\* exactly once, whatever is published or deleted meanwhile.  In memory this
\* needs events that do not change and have different times.
PagesComplete ==
    query.step = "done" /\ (durable \/ (steady /\ \A i, j \in items : i.at = j.at => i = j)) =>
        /\ lasting \subseteq ToSet(query.got)
        /\ \A m, n \in DOMAIN query.got : query.got[m] = query.got[n] => m = n

BusSafe == PublishedOnce /\ PagesComplete
=============================================================================

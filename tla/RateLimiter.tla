---------------------------- MODULE RateLimiter ----------------------------
(***************************************************************************)
(* DynamoRateLimiter (pkg/limited/limiter.go) for one key of identifier,    *)
(* resource and operation, called from several processes.                   *)
(*                                                                         *)
(* A strategy divides time into windows (strategies.go); each window has an *)
(* item that counts its requests.  CheckAndIncrement of a fixed or sliding  *)
(* strategy increments one item on condition that it exists and is below    *)
(* the limit; when that fails, it reads the item to tell a full window from *)
(* one that has no item yet, and in the latter case creates the item.       *)
(* MultiWindowStrategy increments all its windows in one transaction.       *)
(* Without transactions, and for callers that use RateLimiter alone,        *)
(* CheckLimit reads the windows and RecordRequest counts in them, one by    *)
(* one.  Reads may be stale.                                                *)
(***************************************************************************)
EXTENDS Naturals, FiniteSets, FiniteSetsExt

CONSTANTS Callers,
          Strategies,   \* kinds, with their windows' sizes and limits
          Grace,        \* TTLHours: how long an item outlives its window
          CallTime,     \* a bound on how long a call takes
          MaxClock,     \* bound: the clock stops there
          MaxRecorded   \* bound: how many requests RecordRequest counts

\* WindowConfig, and the windows of a strategy.
WindowConfig == [size : Nat \ {0}, max : Nat]
Kinds == {"fixed", "sliding", "multi"}
StrategyAssumption ==
    \A s \in Strategies :
        /\ s.kind \in Kinds
        /\ s.windows \subseteq WindowConfig /\ s.windows # {}
        /\ s.kind # "multi" => \E g \in s.windows : s.windows = {g}
        /\ s.parts \in Nat \ {0}         \* a sliding window's sub-windows
        /\ s.kind # "sliding" => s.parts = 1
        /\ s.checked \in BOOLEAN          \* whether it checks and then records
ASSUME StrategyAssumption

\* A Lambda invocation ends, within minutes, before the hours of TTLHours.
ASSUME CallTimeAssumption == CallTime \in Nat /\ Grace \in Nat /\ CallTime <= Grace

VARIABLES strategy,  \* the limiter's strategy
          clock,
          count,     \* the items: how many requests were counted, 0 without item
          call,      \* the callers' calls
          admitted,  \* history: how many requests were told that they may go on
          told,      \* history: the counts they were told
          reaped     \* history: the items that DynamoDB deleted

vars == <<strategy, clock, count, call, admitted, told, reaped>>

Configs == UNION {s.windows : s \in Strategies}
Times == 0 .. MaxClock
\* An item is named after its window; the windows of a MultiWindowStrategy that
\* start together have their sizes in their keys.
Windows == {w \in {[config |-> g, start |-> t] : g \in Configs, t \in Times} :
              w.start % w.config.size = 0}

WindowAt(g, now) == [config |-> g, start |-> now - (now % g.size)]
\* CalculateWindows; nothing is counted before time 0.
WindowsAt(now) ==
    {w \in {WindowAt(g, now - i * g.size) : g \in strategy.windows, i \in 0 .. strategy.parts - 1} :
        w.start >= 0}
\* The windows that a request is counted in: all of MultiWindowStrategy's, the
\* newest of another's.
Target(now) == {w \in WindowsAt(now) : w.start + w.config.size > now}
WindowEnd(w) == w.start + w.config.size

Final == {"idle", "denied"}
Steps == Final \cup {"increment", "load", "create", "count", "full", "check", "record"}
Call == [step : Steps, now : Times, left : SUBSET Windows]

TypeOK ==
    /\ strategy \in Strategies
    /\ clock \in Times
    /\ count \in [Windows -> Nat]
    /\ ~strategy.checked => \A w \in Windows : count[w] <= w.config.max
    /\ call \in [Callers -> Call]
    /\ admitted \in [Windows -> Nat]
    /\ told \in [Windows -> SUBSET Nat]
    /\ reaped \subseteq Windows

Init ==
    /\ strategy \in Strategies
    /\ clock = 0
    /\ count = [w \in Windows |-> 0]
    /\ call = [c \in Callers |-> [step |-> "idle", now |-> 0, left |-> {}]]
    /\ admitted = [w \in Windows |-> 0]
    /\ told = [w \in Windows |-> {}]
    /\ reaped = {}

-----------------------------------------------------------------------------
InFlight(c) == call[c].step \notin Final
Goes(c, step) == call' = [call EXCEPT ![c].step = step]
Begins(c, step, left) == call' = [call EXCEPT ![c] = [step |-> step, now |-> clock, left |-> left]]
Ends(c, step) == call' = [call EXCEPT ![c] = [step |-> step, now |-> 0, left |-> {}]]

TheWindow(c) == CHOOSE w \in Target(call[c].now) : TRUE
\* Mutant: a request too many.
HasRoomAtLimit(w) == count[w] <= w.config.max

HasRoom(w) == count[w] < w.config.max

Counted(ws) == count' = [w \in Windows |-> IF w \in ws THEN count[w] + 1 ELSE count[w]]
Told(ws) ==
    /\ admitted' = [w \in Windows |-> IF w \in ws THEN admitted[w] + 1 ELSE admitted[w]]
    /\ told' = [w \in Windows |-> IF w \in ws THEN told[w] \cup {count'[w]} ELSE told[w]]

\* The windows are those of the time the call begins.
Start(c) ==
    /\ call[c].step \in Final
    /\ strategy.checked => MapThenSumSet(LAMBDA w : count[w], Windows) < MaxRecorded
    /\ Begins(c, IF strategy.checked THEN "check" ELSE "increment", {})
    /\ UNCHANGED <<strategy, clock, count, admitted, told, reaped>>

\* A request that has been counted is told so, unless the answer is lost.
Admit(c, ws) ==
    /\ Counted(ws)
    /\ Ends(c, "idle")
    /\ Told(ws) \/ UNCHANGED <<admitted, told>>

Increment(c) ==
    /\ call[c].step = "increment" /\ strategy.kind # "multi"
    /\ LET w == TheWindow(c) IN
         \/ count[w] > 0 /\ HasRoom(w) /\ Admit(c, {w})
         \/ /\ ~(count[w] > 0 /\ HasRoom(w))
            /\ Goes(c, "load")
            /\ UNCHANGED <<count, admitted, told>>
    /\ UNCHANGED <<strategy, clock, reaped>>

\* Mutant: an item that is there is tried again.
LoadEntryRetries(c, found) ==
    /\ call[c].step = "load"
    /\ found => count[TheWindow(c)] > 0
    /\ Goes(c, IF found THEN "increment" ELSE "create")
    /\ UNCHANGED <<strategy, clock, count, admitted, told, reaped>>

\* handleSingleWindowConditionFailed reads the item, as it is or as it was.
LoadEntry(c, found) ==
    /\ call[c].step = "load"
    /\ found => count[TheWindow(c)] > 0
    /\ IF found \/ TheWindow(c).config.max = 0 THEN Ends(c, "denied") ELSE Goes(c, "create")
    /\ UNCHANGED <<strategy, clock, count, admitted, told, reaped>>

\* Mutant: the item is put whether or not there is one.
CreateEntryAnyway(c) ==
    /\ call[c].step = "create"
    /\ count' = [count EXCEPT ![TheWindow(c)] = 1]
    /\ Ends(c, "idle") /\ Told({TheWindow(c)})
    /\ UNCHANGED <<strategy, clock, reaped>>

\* When the item exists by now the whole call is made again.
CreateEntry(c) ==
    /\ call[c].step = "create"
    /\ \/ count[TheWindow(c)] = 0 /\ Admit(c, {TheWindow(c)})
       \/ /\ count[TheWindow(c)] > 0
          /\ Begins(c, "increment", {})
          /\ UNCHANGED <<count, admitted, told>>
    /\ UNCHANGED <<strategy, clock, reaped>>

-----------------------------------------------------------------------------
(* MultiWindowStrategy.                                                     *)

\* Mutant: the windows are updated one by one, and those with room count.
TransactEach(c) ==
    /\ call[c].step = "increment" /\ strategy.kind = "multi"
    /\ LET ws == WindowsAt(call[c].now) IN
         /\ Counted({w \in ws : HasRoom(w)})
         /\ Goes(c, IF \A w \in ws : HasRoom(w) THEN "count" ELSE "full")
    /\ UNCHANGED <<strategy, clock, admitted, told, reaped>>

\* Mutant: a transaction that conflicts with another counts as a full window.
TransactConflict(c) ==
    /\ call[c].step = "increment" /\ strategy.kind = "multi"
    /\ LET ws == WindowsAt(call[c].now) IN
         IF \E w \in ws : ~HasRoom(w)
           THEN Goes(c, "full") /\ UNCHANGED count
           ELSE \/ Goes(c, "count") /\ Counted(ws)
                \/ Goes(c, "full") /\ UNCHANGED count
    /\ UNCHANGED <<strategy, clock, admitted, told, reaped>>

\* transactIncrementMultiWindow counts the request in every window or in none.
Transact(c) ==
    /\ call[c].step = "increment" /\ strategy.kind = "multi"
    /\ LET ws == WindowsAt(call[c].now) IN
         IF \A w \in ws : HasRoom(w)
           THEN Counted(ws) /\ (Goes(c, "count") \/ Ends(c, "idle"))   \* no answer
           ELSE Goes(c, "full") /\ UNCHANGED count
    /\ UNCHANGED <<strategy, clock, admitted, told, reaped>>

\* loadPrimaryWindowCount only reads what the answer reports.
CountAfter(c) ==
    /\ call[c].step = "count"
    /\ Ends(c, "idle")
    /\ admitted' = [w \in Windows |->
                      IF w \in WindowsAt(call[c].now) THEN admitted[w] + 1 ELSE admitted[w]]
    /\ UNCHANGED <<strategy, clock, count, told, reaped>>

\* handleMultiWindowIncrementError reports what CheckLimit finds, and denies.
CheckAfter(c) ==
    /\ call[c].step = "full"
    /\ Ends(c, "denied")
    /\ UNCHANGED <<strategy, clock, count, admitted, told, reaped>>

-----------------------------------------------------------------------------
(* CheckLimit and RecordRequest.                                            *)

\* Mutant: the counts of several windows are added up as well.
ShouldAllowTotal(seen) ==
    \A g \in strategy.windows : MapThenSumSet(LAMBDA w : seen[w], DOMAIN seen) < g.max

\* A fixed or a sliding strategy adds the counts of its windows up.
ShouldAllow(seen) ==
    IF strategy.kind = "multi"
      THEN \A w \in DOMAIN seen : seen[w] < w.config.max
      ELSE \A g \in strategy.windows :
              MapThenSumSet(LAMBDA w : seen[w], DOMAIN seen) < g.max

\* The counts that CheckLimit can read: as they are or as they were.
Readable(ws) == {seen \in [ws -> UNION {0 .. count[w] : w \in ws}] :
                   \A w \in ws : seen[w] <= count[w]}

\* A request that is allowed is recorded, in the windows of that later time.
CheckLimit(c) ==
    /\ call[c].step = "check"
    /\ \E seen \in Readable(WindowsAt(call[c].now)) :
         IF ShouldAllow(seen) THEN Begins(c, "record", Target(clock)) ELSE Ends(c, "denied")
    /\ UNCHANGED <<strategy, clock, count, admitted, told, reaped>>

\* Mutant: the first window stands for all.
RecordRequestFirst(c) ==
    /\ call[c].step = "record"
    /\ \E w \in call[c].left : Counted({w})
    /\ Ends(c, "idle")
    /\ admitted' = [w \in Windows |->
                      IF w \in Target(call[c].now) THEN admitted[w] + 1 ELSE admitted[w]]
    /\ UNCHANGED <<strategy, clock, told, reaped>>

\* Each window is counted by an update of its own, which creates its item.
RecordRequest(c) ==
    /\ call[c].step = "record"
    /\ \E w \in call[c].left :
         /\ Counted({w})
         /\ IF call[c].left = {w}
              THEN /\ Ends(c, "idle")
                   /\ admitted' = [v \in Windows |->
                        IF v \in Target(call[c].now) THEN admitted[v] + 1 ELSE admitted[v]]
              ELSE /\ call' = [call EXCEPT ![c].left = @ \ {w}]
                   /\ UNCHANGED admitted
    /\ UNCHANGED <<strategy, clock, told, reaped>>

-----------------------------------------------------------------------------
\* A call of DynamoDB fails: FailOpen lets the request go on, uncounted;
\* otherwise the error is the middleware's to judge.
Fail(c) ==
    /\ InFlight(c)
    /\ Ends(c, "idle")
    /\ UNCHANGED <<strategy, clock, count, admitted, told, reaped>>

Tick ==
    /\ clock < MaxClock
    /\ \A c \in Callers : InFlight(c) => clock < call[c].now + CallTime
    /\ clock' = clock + 1
    /\ UNCHANGED <<strategy, count, call, admitted, told, reaped>>

\* Mutant: the time to live runs from the window's start.
TTLFromStart(w) == w.start + Grace

TTL(w) == WindowEnd(w) + Grace

Reap(w) ==
    /\ count[w] > 0
    /\ clock > TTL(w)
    /\ count' = [count EXCEPT ![w] = 0]
    /\ reaped' = reaped \cup {w}
    /\ UNCHANGED <<strategy, clock, call, admitted, told>>

Step(c) ==
    \/ Increment(c) \/ (\E found \in BOOLEAN : LoadEntry(c, found)) \/ CreateEntry(c)
    \/ Transact(c) \/ CountAfter(c) \/ CheckAfter(c)
    \/ CheckLimit(c) \/ RecordRequest(c)

Next ==
    \/ \E c \in Callers : Start(c) \/ Step(c) \/ Fail(c)
    \/ Tick
    \/ \E w \in Windows : Reap(w)

\* A call goes on, and a replica that is read again and again catches up.
Fairness ==
    \A c \in Callers :
        /\ WF_vars(Step(c))
        /\ SF_vars(LoadEntry(c, TRUE))

Spec == Init /\ [][Next]_vars /\ Fairness

-----------------------------------------------------------------------------
(* Properties.                                                              *)

\* No more requests are told to go on in a window than its limit, deletions by
\* the item's TTL included, if check and increment are one.
WithinLimit == ~strategy.checked => \A w \in Windows : admitted[w] <= w.config.max

\* With one window each admitted request is told a count of its own.
NumberedOnce ==
    strategy.kind # "multi" /\ ~strategy.checked
      => \A w \in Windows : Cardinality(told[w]) = admitted[w]

\* What was admitted is counted in every window of its time, however the windows
\* are counted.
AdmittedIsCounted == \A w \in Windows \ reaped : admitted[w] <= count[w]

\* The windows of a MultiWindowStrategy agree: what a window has counted is what
\* the windows it is made of have counted.
WindowsAgree ==
    strategy.kind = "multi" /\ ~strategy.checked =>
        \A g \in strategy.windows, w \in {w \in Windows : w.config \in strategy.windows} :
            LET parts == {v \in Windows : v.config = g /\ WindowAt(w.config, v.start) = w}
            IN  w.config.size % g.size = 0 /\ ({w} \cup parts) \cap reaped = {}
                  => count[w] = MapThenSumSet(LAMBDA v : count[v], parts)

WindowsHold == WithinLimit /\ NumberedOnce /\ AdmittedIsCounted /\ WindowsAgree

\* A request is denied only if one of its windows is full, as it is for an
\* atomic check and increment.
Denies(c) == call[c].step # "denied" /\ call'[c].step = "denied"
Full(c) ==
    \E g \in strategy.windows :
        MapThenSumSet(LAMBDA w : count[w], {w \in WindowsAt(call[c].now) : w.config = g}) >= g.max
DeniedOnlyWhenFull == [][\A c \in Callers : Denies(c) => Full(c)]_vars

\* That holds of CheckLimit, however old what it reads, and of MultiWindowStrategy,
\* whose transaction fails only then; an increment of one window that denies has
\* seen another request in its window.
DeniedOnlyWhenUsed ==
    [][\A c \in Callers : Denies(c) =>
         \/ Full(c)
         \/ call[c].step = "load" /\ count[TheWindow(c)] > 0]_vars

\* "SlidingWindowStrategy implements sliding-window rate limiting": the requests
\* admitted in any stretch of its sub-windows are within its limit.
SlidingWindowHolds ==
    strategy.kind = "sliding" /\ ~strategy.checked =>
        \A now \in Times, g \in strategy.windows :
            MapThenSumSet(LAMBDA w : admitted[w], WindowsAt(now)) <= g.max

\* A call comes to an end, although it is made again whenever it loses the race
\* to create the item.
CallEnds(c) == InFlight(c) ~> ~InFlight(c)
=============================================================================

---------------------------- MODULE LogNotifier ----------------------------
(***************************************************************************)
(* The structured logger's error notifier (pkg/observability/zap/logger.go). *)
(*                                                                         *)
(* Error writes a line and puts a copy of the entry into a bounded channel;  *)
(* a goroutine takes the entries out and hands each to the notifier, which   *)
(* may fail and is tried again.  A WaitGroup counts the entries that were    *)
(* put in and are not done with.  Flush waits for it in a goroutine of its   *)
(* own, until its context ends; Close closes the channel and waits too.      *)
(*                                                                         *)
(* sync.WaitGroup panics when it is counted up while a goroutine that        *)
(* waited for it has been woken but does not run yet.                       *)
(***************************************************************************)
EXTENDS Naturals, Sequences

CONSTANTS None,
          Entries,      \* one per call of Error
          Flushes,      \* one per call of Flush
          BufferSize, MaxRetries

VARIABLES error,     \* the calls of Error
          flush,     \* the calls of Flush
          waiter,    \* the goroutine of each Flush that waits
          closing,   \* the call of Close
          closed,    \* the core's flag; the channel is closed with it
          queue,     \* notifyCh
          count,     \* notifyWg
          worker,    \* runNotifier: the entry in hand and its failures
          attempted, \* history: entries that the notifier was done with
          due,       \* history: entries queued when the Flush began
          panicked   \* the process is gone

vars == <<error, flush, waiter, closing, closed, queue, count, worker, attempted,
          due, panicked>>

Worker == [entry : Entries \cup {None}, failures : 0 .. MaxRetries]

TypeOK ==
    /\ error \in [Entries -> {"idle", "written", "counted", "queued", "dropped", "ignored"}]
    /\ flush \in [Flushes -> {"idle", "started", "waiting", "done", "canceled", "none"}]
    /\ waiter \in [Flushes -> {"none", "begun", "registered", "woken"}]
    /\ closing \in {"idle", "waiting", "registered", "done"}
    /\ closed \in BOOLEAN /\ panicked \in BOOLEAN
    /\ queue \in Seq(Entries) /\ Len(queue) <= BufferSize
    /\ count \in Nat
    /\ worker \in Worker
    /\ attempted \subseteq Entries
    /\ due \in [Flushes -> SUBSET Entries]

Init ==
    /\ error = [e \in Entries |-> "idle"]
    /\ flush = [f \in Flushes |-> "idle"]
    /\ waiter = [f \in Flushes |-> "none"]
    /\ closing = "idle" /\ closed = FALSE /\ panicked = FALSE
    /\ queue = <<>> /\ count = 0
    /\ worker = [entry |-> None, failures |-> 0]
    /\ attempted = {}
    /\ due = [f \in Flushes |-> {}]

-----------------------------------------------------------------------------
(* Error.                                                                   *)

\* logEntry: nothing is logged once the logger is closed.
Log(e) ==
    /\ error[e] = "idle"
    /\ error' = [error EXCEPT ![e] = IF closed THEN "ignored" ELSE "written"]
    /\ UNCHANGED <<flush, waiter, closing, closed, queue, count, worker, attempted, due, panicked>>

\* notifyMu is held from Count to Send, and while Close closes the channel.
Unlocked == \A e \in Entries : error[e] # "counted"

Count(e) ==
    /\ error[e] = "written" /\ Unlocked
    /\ IF closed THEN /\ error' = [error EXCEPT ![e] = "dropped"]
                      /\ UNCHANGED count
       ELSE /\ error' = [error EXCEPT ![e] = "counted"]
            /\ count' = count + 1
    /\ UNCHANGED <<flush, waiter, closing, closed, queue, worker, attempted, due, panicked>>

\* The count goes down by one; at zero everybody who waits is woken.
CountsDown ==
    /\ count' = count - 1
    /\ waiter' = IF count = 1
                 THEN [f \in Flushes |-> IF waiter[f] = "registered" THEN "woken" ELSE waiter[f]]
                 ELSE waiter
    /\ closing' = IF count = 1 /\ closing = "registered" THEN "done" ELSE closing

\* A channel that is full drops the entry.
Send(e) ==
    /\ error[e] = "counted"
    /\ IF Len(queue) < BufferSize
       THEN /\ queue' = Append(queue, e)
            /\ error' = [error EXCEPT ![e] = "queued"]
            /\ UNCHANGED <<count, waiter, closing>>
       ELSE /\ CountsDown
            /\ error' = [error EXCEPT ![e] = "dropped"]
            /\ UNCHANGED queue
    /\ UNCHANGED <<flush, closed, worker, attempted, due, panicked>>

-----------------------------------------------------------------------------
(* runNotifier.                                                             *)

\* Mutant: the entry is counted as done when it is taken.
TakeDone ==
    /\ worker.entry = None /\ queue # <<>>
    /\ worker' = [entry |-> Head(queue), failures |-> 0]
    /\ queue' = Tail(queue)
    /\ CountsDown
    /\ UNCHANGED <<error, flush, closed, attempted, due, panicked>>

Take ==
    /\ worker.entry = None /\ queue # <<>>
    /\ worker' = [entry |-> Head(queue), failures |-> 0]
    /\ queue' = Tail(queue)
    /\ UNCHANGED <<error, flush, waiter, closing, closed, count, attempted, due, panicked>>

\* notifyWithRetries: an attempt that fails is repeated, a last one given up.
Retry ==
    /\ worker.entry # None /\ worker.failures + 1 < MaxRetries
    /\ worker' = [worker EXCEPT !.failures = @ + 1]
    /\ UNCHANGED <<error, flush, waiter, closing, closed, queue, count, attempted, due, panicked>>

\* The notifier took the entry or failed for the last time.
Notified ==
    /\ worker.entry # None
    /\ attempted' = attempted \cup {worker.entry}
    /\ worker' = [entry |-> None, failures |-> 0]
    /\ IF count > 0 THEN CountsDown ELSE UNCHANGED <<count, waiter, closing>>
    /\ UNCHANGED <<error, flush, closed, queue, due, panicked>>

-----------------------------------------------------------------------------
(* Flush and Close.                                                         *)

Flush(f) ==
    /\ flush[f] = "idle"
    /\ flush' = [flush EXCEPT ![f] = "started"]
    /\ due' = [due EXCEPT ![f] = {e \in Entries : error[e] = "queued"}]
    /\ UNCHANGED <<error, waiter, closing, closed, queue, count, worker, attempted, panicked>>

\* waitNotifier reads notifyCh without the mutex; Close has set it to nil.
WaitNotifier(f) ==
    /\ flush[f] = "started"
    /\ IF closed THEN /\ flush' = [flush EXCEPT ![f] = "none"]
                      /\ UNCHANGED waiter
       ELSE /\ flush' = [flush EXCEPT ![f] = "waiting"]
            /\ waiter' = [waiter EXCEPT ![f] = "begun"]
    /\ UNCHANGED <<error, closing, closed, queue, count, worker, attempted, due, panicked>>

\* The goroutine has waited, and Flush returns unless it has before.
Waited(f) ==
    /\ waiter' = [waiter EXCEPT ![f] = "none"]
    /\ flush' = [flush EXCEPT ![f] = IF @ = "waiting" THEN "done" ELSE @]

Wait(f) ==
    /\ waiter[f] = "begun"
    /\ IF count = 0 THEN Waited(f)
       ELSE waiter' = [waiter EXCEPT ![f] = "registered"] /\ UNCHANGED flush
    /\ UNCHANGED <<error, closing, closed, queue, count, worker, attempted, due, panicked>>

Wake(f) ==
    /\ waiter[f] = "woken"
    /\ IF count = 0 THEN Waited(f) /\ UNCHANGED panicked
       ELSE panicked' = TRUE /\ UNCHANGED <<waiter, flush>>
    /\ UNCHANGED <<error, closing, closed, queue, count, worker, attempted, due>>

\* Flush's context ends; the goroutine waits on.
FlushCanceled(f) ==
    /\ flush[f] = "waiting"
    /\ flush' = [flush EXCEPT ![f] = "canceled"]
    /\ UNCHANGED <<error, waiter, closing, closed, queue, count, worker, attempted, due, panicked>>

Close ==
    /\ closing = "idle" /\ Unlocked
    /\ closed' = TRUE
    /\ closing' = "waiting"
    /\ UNCHANGED <<error, flush, waiter, queue, count, worker, attempted, due, panicked>>

CloseWaits ==
    /\ closing = "waiting"
    /\ closing' = IF count = 0 THEN "done" ELSE "registered"
    /\ UNCHANGED <<error, flush, waiter, closed, queue, count, worker, attempted, due, panicked>>

WorkerStep == Take \/ Retry \/ Notified
Next ==
    /\ ~panicked
    /\ \/ \E e \in Entries : Log(e) \/ Count(e) \/ Send(e)
       \/ WorkerStep
       \/ \E f \in Flushes : Flush(f) \/ WaitNotifier(f) \/ Wait(f) \/ Wake(f) \/ FlushCanceled(f)
       \/ Close \/ CloseWaits

Spec == Init /\ [][Next]_vars

-----------------------------------------------------------------------------
(* Properties.                                                              *)

\* When Flush has waited for the notifications, those that were queued when it
\* began have been handed to the notifier.  (A Flush that overlaps Close waits
\* for nothing.)
FlushCovers == \A f \in Flushes : flush[f] = "done" => due[f] \subseteq attempted

\* When Close has returned, every entry that was queued has been handed to the
\* notifier, and none is queued any more.
CloseDrains ==
    closing = "done" =>
        /\ {e \in Entries : error[e] = "queued"} \subseteq attempted
        /\ \A e \in Entries : error[e] # "counted"

NotifierSafe == FlushCovers /\ CloseDrains
=============================================================================

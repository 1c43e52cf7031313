---------------------------- MODULE EventBatches ----------------------------
(***************************************************************************)
(* Records that Lambda delivers to an app's event handlers (runtime/         *)
(* aws_batch.go, aws_sqs.go, aws_kinesis.go, aws_dynamodb.go, aws_sns.go,     *)
(* aws_eventbridge.go).  The source keeps what was not acknowledged and       *)
(* delivers it again; this part is AWS's:                                    *)
(*   - SQS deletes the messages of a batch that the answer does not name and  *)
(*     delivers the others, in any composition;                              *)
(*   - a Kinesis or DynamoDB stream delivers in order, moves its checkpoint   *)
(*     to the first record the answer names, and delivers all from there on;  *)
(*   - SNS and EventBridge deliver the event again when the invocation        *)
(*     returned an error;                                                    *)
(*   - an invocation that dies acknowledges nothing.                         *)
(* No retry policy or retention ends the redelivery.                        *)
(***************************************************************************)
EXTENDS Naturals, FiniteSets

CONSTANTS Records,        \* numbered in the order of the source
          MaxInvocations  \* bound on the number of invocations, for TLC

Batches == {"sqs", "kinesis", "dynamodb"}
Streams == {"kinesis", "dynamodb"}
Sources == Batches \cup {"sns", "eventbridge"}

VARIABLES source,    \* what delivers the records
          routed,    \* whether a handler is registered for it
          pending,   \* the records the source still holds
          batch,     \* the records of the running invocation not looked at yet
          delivered, \* all of its records; empty when none runs
          failures,  \* the failed ones
          step,      \* "idle", "running", "error": the invocation returns an error
          handled,   \* history: how often each record was handled with success
          answered,  \* history: the records handled with success in an invocation
                     \* that was not cut short
          repeated,  \* history: those of them that were delivered again
          invocations

vars == <<source, routed, pending, batch, delivered, failures, step, handled,
          answered, repeated, invocations>>

TypeOK ==
    /\ source \in Sources /\ routed \in BOOLEAN
    /\ pending \subseteq Records /\ delivered \subseteq Records
    /\ failures \subseteq delivered
    /\ batch \subseteq delivered
    /\ step \in {"idle", "running", "error"}
    /\ handled \in [Records -> 0 .. MaxInvocations]
    /\ answered \subseteq Records /\ repeated \subseteq Records
    /\ invocations \in 0 .. MaxInvocations

Init ==
    /\ source \in Sources /\ routed \in BOOLEAN
    /\ pending = Records
    /\ batch = {} /\ delivered = {} /\ failures = {}
    /\ step = "idle"
    /\ handled = [r \in Records |-> 0]
    /\ answered = {} /\ repeated = {}
    /\ invocations = 0

\* What the source may deliver next.
Deliverable(records) ==
    /\ records # {} /\ records \subseteq pending
    /\ source \in Streams =>
         \E last \in pending : records = {r \in pending : r <= last}
    /\ source = "eventbridge" => Cardinality(records) = 1

\* HandleLambda: the entry point of the event's source, and its handler, found by
\* the first record that says where it comes from.  Without one SNS's entry point
\* returns an error and EventBridge's is done.
Invoke(records) ==
    /\ step = "idle"
    /\ invocations < MaxInvocations
    /\ Deliverable(records)
    /\ delivered' = records
    /\ failures' = IF ~routed /\ source \in Batches THEN records ELSE {}
    /\ batch' = IF routed THEN records ELSE {}
    /\ step' = IF ~routed /\ source = "sns" THEN "error" ELSE "running"
    /\ repeated' = repeated \cup (records \cap answered)
    /\ invocations' = invocations + 1
    /\ UNCHANGED <<source, routed, pending, handled, answered>>

\* The record whose turn it is: a batch is gone through in the order of the source.
IsNext(r) == r \in batch /\ \A other \in batch : r <= other

\* The handler of the next record, its event middlewares included, succeeds.
Handle(r) ==
    /\ step = "running"
    /\ IsNext(r)
    /\ handled' = [handled EXCEPT ![r] = @ + 1]
    /\ batch' = batch \ {r}
    /\ UNCHANGED <<source, routed, pending, delivered, failures, step, answered,
                   repeated, invocations>>

\* Mutant: a failure ends the batch, and the answer names only what failed.
HandlerFailsBreak(r) ==
    /\ step = "running"
    /\ IsNext(r)
    /\ batch' = {}
    /\ IF source \in Batches
         THEN failures' = failures \cup {r} /\ UNCHANGED step
         ELSE step' = "error" /\ UNCHANGED failures
    /\ UNCHANGED <<source, routed, pending, delivered, handled, answered, repeated,
                   invocations>>

\* Mutant: SNS's entry point goes on with the next record.
HandlerFailsGoOn(r) ==
    /\ step = "running"
    /\ IsNext(r)
    /\ batch' = batch \ {r}
    /\ IF source \in Batches
         THEN failures' = failures \cup {r} ELSE UNCHANGED failures
    /\ UNCHANGED <<source, routed, pending, delivered, step, handled, answered, repeated,
                   invocations>>

\* It returns an error, or panics where that is recovered: a batch goes on with the
\* next record, the other sources' entry points return the error at once.
HandlerFails(r) ==
    /\ step = "running"
    /\ IsNext(r)
    /\ IF source \in Batches
         THEN /\ failures' = failures \cup {r}
              /\ batch' = batch \ {r}
              /\ UNCHANGED step
         ELSE /\ step' = "error"
              /\ batch' = {}
              /\ UNCHANGED failures
    /\ UNCHANGED <<source, routed, pending, delivered, handled, answered, repeated,
                   invocations>>

Ended == delivered' = {} /\ failures' = {} /\ batch' = {} /\ step' = "idle"

\* What an answer that names the failures makes the source forget.
Acknowledged ==
    IF source \in Streams
      THEN {r \in delivered : \A failed \in failures : r < failed}
      ELSE delivered \ failures

\* The answer names the failures.
Answer ==
    /\ step = "running"
    /\ batch = {}
    /\ pending' = pending \ Acknowledged
    /\ answered' = answered \cup {r \in delivered \ failures : handled[r] > 0}
    /\ Ended
    /\ UNCHANGED <<source, routed, handled, repeated, invocations>>

\* The invocation returns an error, or dies: a panic of an SQS, Kinesis or SNS
\* handler, which nothing recovers, or Lambda's own timeout.
Die ==
    /\ step # "idle"
    /\ Ended
    /\ UNCHANGED <<source, routed, pending, handled, answered, repeated, invocations>>

Next ==
    \/ \E records \in SUBSET Records : Invoke(records)
    \/ \E r \in Records : Handle(r) \/ HandlerFails(r)
    \/ Answer \/ Die

Spec == Init /\ [][Next]_vars

-----------------------------------------------------------------------------
(* Properties.                                                              *)

\* A record that its source no longer holds was handled with success: what failed,
\* was cut short, or found no handler is delivered again.  Only an event that no
\* EventBridge route matches is dropped.
NothingLost ==
    \A r \in Records \ pending :
        handled[r] > 0 \/ (source = "eventbridge" /\ ~routed)

\* A message of SQS that was handled in an invocation that answered is not handled
\* again because another of its batch failed.
HandledNotRepeated == source = "sqs" => repeated = {}

BatchesSafe == NothingLost /\ HandledNotRepeated

\* "the runtime can fail individual records without replaying successful records"
NoSuccessReplayed == repeated = {}
=============================================================================

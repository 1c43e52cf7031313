----------------------------- MODULE EmbedBatch -----------------------------
(***************************************************************************)
(* TitanEmbedder.EmbedBatch (pkg/vectorstore/embedder.go): workers embed the *)
(* texts that the caller hands them over a channel; the first one to fail     *)
(* leaves its error in a channel of one and cancels the context of all.       *)
(***************************************************************************)
EXTENDS Naturals

CONSTANTS Workers,   \* as many as the concurrency
          N          \* the number of texts, at least one

VARIABLES next,      \* the text to be handed out next
          caller,    \* what the caller does
          held,      \* the error it has taken from the channel
          worker,    \* the step of each worker, with its text and its error
          errCh,     \* the channel of errors
          ended,     \* whether the context has ended
          gaveUp,    \* whether the caller's own context has
          results,   \* the texts whose vectors are there
          answer     \* what EmbedBatch returns

vars == <<next, caller, held, worker, errCh, ended, gaveUp, results, answer>>

\* An embedding fails by itself, or because the context has ended.
Errors == {"failed", "canceled"}
WorkerSteps == {"range", "embed", "report", "cancel", "done"}
At(step, text, error) == [step |-> step, text |-> text, error |-> error]
Done == At("done", 0, "none")

TypeOK ==
    /\ next \in 1 .. N + 1
    /\ caller \in {"feed", "wait", "returned"}
    /\ {held, errCh} \subseteq Errors \cup {"none"}
    /\ \A w \in Workers : /\ worker[w].step \in WorkerSteps
                          /\ worker[w].text \in 0 .. N
                          /\ worker[w].error \in Errors \cup {"none"}
    /\ ended \in BOOLEAN /\ gaveUp \in BOOLEAN
    /\ results \subseteq 1 .. N
    /\ answer \in Errors \cup {"none", "results"}

Init ==
    /\ next = 1 /\ caller = "feed" /\ held = "none"
    /\ worker = [w \in Workers |-> At("range", 0, "none")]
    /\ errCh = "none" /\ ended = FALSE /\ gaveUp = FALSE
    /\ results = {} /\ answer = "none"

-----------------------------------------------------------------------------
\* The select of the loop: a worker takes the text.  After the last one the
\* channel of texts is closed.
Feed(w) ==
    /\ caller = "feed" /\ worker[w].step = "range"
    /\ worker' = [worker EXCEPT ![w] = At("embed", next, "none")]
    /\ next' = next + 1
    /\ caller' = IF next = N THEN "wait" ELSE "feed"
    /\ UNCHANGED <<held, errCh, ended, gaveUp, results, answer>>

\* The select of the loop: an error.
TakeError ==
    /\ caller = "feed" /\ errCh # "none"
    /\ held' = errCh /\ errCh' = "none" /\ caller' = "wait"
    /\ UNCHANGED <<next, worker, ended, gaveUp, results, answer>>

\* The select of the loop: the context's end.
StopFeeding ==
    /\ caller = "feed" /\ ended
    /\ caller' = "wait"
    /\ UNCHANGED <<next, held, worker, errCh, ended, gaveUp, results, answer>>

\* All the workers have come to their end, an error that waits in the channel
\* goes before anything else.
Return ==
    /\ caller = "wait" /\ \A w \in Workers : worker[w] = Done
    /\ answer' = CASE held # "none" -> held
                   [] held = "none" /\ errCh # "none" -> errCh
                   [] held = "none" /\ errCh = "none" /\ next <= N -> "canceled"
                   [] OTHER -> "results"
    /\ caller' = "returned"
    /\ UNCHANGED <<next, held, worker, errCh, ended, gaveUp, results>>

-----------------------------------------------------------------------------
Embed(w) ==
    /\ worker[w].step = "embed"
    /\ results' = results \cup {worker[w].text}
    /\ worker' = [worker EXCEPT ![w] = At("range", 0, "none")]
    /\ UNCHANGED <<next, caller, held, errCh, ended, gaveUp, answer>>

EmbedFails(w, error) ==
    /\ worker[w].step = "embed"
    /\ error = "canceled" => ended
    /\ worker' = [worker EXCEPT ![w] = At("report", @.text, error)]
    /\ UNCHANGED <<next, caller, held, errCh, ended, gaveUp, results, answer>>

\* Mutant: a channel without a buffer, in which only a caller who looks finds
\* the error.
ReportUnbuffered(w) ==
    /\ worker[w].step = "report"
    /\ \/ /\ caller = "feed" /\ errCh = "none"
          /\ errCh' = worker[w].error /\ worker' = [worker EXCEPT ![w].step = "cancel"]
       \/ /\ caller # "feed" \/ errCh # "none"
          /\ worker' = [worker EXCEPT ![w] = Done] /\ UNCHANGED errCh
    /\ UNCHANGED <<next, caller, held, ended, gaveUp, results, answer>>

\* Mutant: the context is cancelled before the error is reported.
ReportAfterCancel(w) ==
    /\ worker[w].step = "report"
    /\ IF ~ended THEN ended' = TRUE /\ UNCHANGED <<worker, errCh>>
       ELSE /\ errCh' = IF errCh = "none" THEN worker[w].error ELSE errCh
            /\ worker' = [worker EXCEPT ![w] = Done]
            /\ UNCHANGED ended
    /\ UNCHANGED <<next, caller, held, gaveUp, results, answer>>

\* The first error stays in the channel, the others are dropped.
Report(w) ==
    /\ worker[w].step = "report"
    /\ IF errCh = "none"
         THEN errCh' = worker[w].error /\ worker' = [worker EXCEPT ![w].step = "cancel"]
         ELSE worker' = [worker EXCEPT ![w] = Done] /\ UNCHANGED errCh
    /\ UNCHANGED <<next, caller, held, ended, gaveUp, results, answer>>

Cancel(w) ==
    /\ worker[w].step = "cancel"
    /\ ended' = TRUE
    /\ worker' = [worker EXCEPT ![w] = Done]
    /\ UNCHANGED <<next, caller, held, errCh, gaveUp, results, answer>>

\* The channel of texts is closed.
RangeEnds(w) ==
    /\ worker[w].step = "range" /\ caller # "feed"
    /\ worker' = [worker EXCEPT ![w] = Done]
    /\ UNCHANGED <<next, caller, held, errCh, ended, gaveUp, results, answer>>

\* The caller's own context ends.
GiveUp ==
    /\ ~gaveUp
    /\ gaveUp' = TRUE /\ ended' = TRUE
    /\ UNCHANGED <<next, caller, held, worker, errCh, results, answer>>

Next ==
    \/ TakeError \/ StopFeeding \/ Return \/ GiveUp
    \/ \E w \in Workers :
         \/ Feed(w) \/ Embed(w) \/ Report(w) \/ Cancel(w) \/ RangeEnds(w)
         \/ \E error \in Errors : EmbedFails(w, error)

Spec == Init /\ [][Next]_vars

-----------------------------------------------------------------------------
\* EmbedBatch returns vectors only if it has one for each text, and no worker
\* is left to write another; it names the cause of a failure, not the
\* cancellation that followed from it; and its caller is never left offering a
\* text to workers that have all gone.
BatchEmbedded ==
    /\ answer = "results" => results = 1 .. N
    /\ answer = "canceled" => gaveUp
    /\ caller = "returned" => \A w \in Workers : worker[w] = Done
    /\ (caller = "feed" /\ \A w \in Workers : worker[w] = Done) => errCh # "none" \/ ended
=============================================================================

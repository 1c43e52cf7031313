--------------------------- MODULE Services_proofs ---------------------------
(***************************************************************************)
(* Proofs about the services of MCServices: EmbedBatch for any workers and   *)
(* texts, LogNotifier for any entries, calls of Flush, buffer and retries,   *)
(* MicroVM for any callers, sessions, MicroVMs and bounds, RateLimiter for   *)
(* any callers and strategies.                                              *)
(***************************************************************************)
EXTENDS MCServices, Sequences, FiniteSetTheorems, TLAPS

-----------------------------------------------------------------------------
(* The workers of a batch of texts.                                         *)

EmbedConstants == Callers # {} /\ Texts \in Nat \ {0}

EmbedWorker ==
    [step : Embedding!WorkerSteps, text : 0 .. Texts, error : Embedding!Errors \cup {"none"}]
EmbedTypes ==
    /\ next \in 1 .. Texts + 1
    /\ feeder \in {"feed", "wait", "returned"}
    /\ held \in Embedding!Errors \cup {"none"} /\ errCh \in Embedding!Errors \cup {"none"}
    /\ embedder \in [Callers -> EmbedWorker]
    /\ ended \in BOOLEAN /\ gaveUp \in BOOLEAN
    /\ vectors \subseteq 1 .. Texts
    /\ returned \in Embedding!Errors \cup {"none", "results"}

\* An error was told, to the caller or to the channel: it is told for good.
Failed == held # "none" \/ errCh # "none"

\* The caller has an error only when it feeds no more; it feeds while texts are left,
\* and ends before only for an error or the end of its own context.
FeedsOn ==
    /\ feeder = "feed" => held = "none" /\ next <= Texts
    /\ feeder # "feed" /\ next <= Texts => Failed \/ gaveUp
EndedFor == ended => Failed \/ gaveUp
\* Who is cancelled is so for the error of another or the end of the caller's context.
CanceledFor ==
    /\ held = "canceled" => gaveUp
    /\ errCh = "canceled" => gaveUp \/ held # "none"
    /\ \A w \in Callers :
         /\ embedder[w].step = "report" => embedder[w].error \in Embedding!Errors
         /\ embedder[w].step = "report" /\ embedder[w].error = "canceled" => gaveUp \/ Failed
         /\ embedder[w].step = "cancel" => Failed
\* A text that was handed out has its vector, is being embedded, or has failed.
Kept(t) ==
    \/ t \in vectors \/ Failed
    \/ \E w \in Callers : embedder[w].step \in {"embed", "report"} /\ embedder[w].text = t
HandedOut ==
    /\ \A t \in 1 .. next - 1 : Kept(t)
    /\ \A w \in Callers : embedder[w].step = "embed" => embedder[w].text >= 1
\* A worker goes early only after an error, which the caller is still to see.
GoneFor ==
    \A w \in Callers :
        feeder = "feed" /\ embedder[w] = Embedding!Done => errCh # "none" \/ ended
EmbedInv ==
    /\ EmbedTypes
    /\ FeedsOn
    /\ EndedFor
    /\ CanceledFor
    /\ HandedOut
    /\ GoneFor
    /\ Embedding!BatchEmbedded

LEMMA WorkerType ==
  ASSUME NEW at \in Embedding!WorkerSteps, NEW t \in 0 .. Texts,
         NEW e \in Embedding!Errors \cup {"none"}
  PROVE  /\ Embedding!At(at, t, e) \in EmbedWorker
         /\ Embedding!At(at, t, e).step = at
         /\ Embedding!At(at, t, e).text = t
         /\ Embedding!At(at, t, e).error = e
  BY DEF Embedding!At, EmbedWorker

LEMMA DoneType ==
  ASSUME EmbedConstants
  PROVE  /\ Embedding!Done \in EmbedWorker
         /\ Embedding!Done.step = "done"
         /\ Embedding!At("range", 0, "none") \in EmbedWorker
         /\ Embedding!At("range", 0, "none").step = "range"
<1>1. 0 \in 0 .. Texts
  BY DEF EmbedConstants
<1>2. "done" \in Embedding!WorkerSteps /\ "range" \in Embedding!WorkerSteps
  BY DEF Embedding!WorkerSteps
<1> QED BY <1>1, <1>2, WorkerType DEF Embedding!Done

LEMMA EmbedInit ==
  ASSUME EmbedConstants, Embedding!Init
  PROVE  EmbedInv
<1> USE DoneType DEF EmbedConstants, Embedding!Init
<1>1. EmbedTypes
  <2>1. ended \in BOOLEAN /\ gaveUp \in BOOLEAN
    OBVIOUS
  <2>2. embedder \in [Callers -> EmbedWorker]
    OBVIOUS
  <2>3. next \in 1 .. Texts + 1 /\ vectors \subseteq 1 .. Texts
    OBVIOUS
  <2> QED BY <2>1, <2>2, <2>3 DEF EmbedTypes
<1>2. FeedsOn /\ EndedFor /\ CanceledFor
  BY DEF FeedsOn, EndedFor, CanceledFor, Failed
<1>3. HandedOut
  BY DEF HandedOut
<1>4. GoneFor /\ Embedding!BatchEmbedded
  BY DEF GoneFor, Embedding!BatchEmbedded
<1> QED BY <1>1, <1>2, <1>3, <1>4 DEF EmbedInv

\* One worker goes on as r.
Becomes(w, r) == embedder' = [embedder EXCEPT ![w] = r]

LEMMA WorkerBecomes ==
  ASSUME EmbedTypes, NEW w \in Callers, NEW r \in EmbedWorker, Becomes(w, r)
  PROVE  /\ embedder' \in [Callers -> EmbedWorker]
         /\ embedder'[w] = r
         /\ \A u \in Callers \ {w} : embedder'[u] = embedder[u]
  BY DEF EmbedTypes, Becomes

LEMMA WorkerFields ==
  ASSUME EmbedTypes, NEW w \in Callers
  PROVE  /\ embedder[w] \in EmbedWorker
         /\ embedder[w].step \in Embedding!WorkerSteps
         /\ embedder[w].text \in 0 .. Texts
         /\ embedder[w].error \in Embedding!Errors \cup {"none"}
  BY DEF EmbedTypes, EmbedWorker

LEMMA TakeErrorKeeps ==
  ASSUME EmbedConstants, EmbedInv, Embedding!TakeError
  PROVE  EmbedInv'
<1> USE DEF EmbedInv, Embedding!TakeError
<1>1. EmbedTypes'
  BY DEF EmbedTypes
<1>2. (FeedsOn /\ EndedFor)'
  BY DEF FeedsOn, EndedFor, Failed
<1>3. CanceledFor'
  BY DEF CanceledFor, FeedsOn, EndedFor, Failed
<1>4. HandedOut'
  BY DEF HandedOut, Kept, Failed
<1>5. GoneFor'
  BY DEF GoneFor
<1>6. Embedding!BatchEmbedded'
  BY DEF Embedding!BatchEmbedded
<1> QED BY <1>1, <1>2, <1>3, <1>4, <1>5, <1>6 DEF EmbedInv

LEMMA StopFeedingKeeps ==
  ASSUME EmbedConstants, EmbedInv, Embedding!StopFeeding
  PROVE  EmbedInv'
<1> USE DEF EmbedInv, Embedding!StopFeeding
<1>1. EmbedTypes'
  BY DEF EmbedTypes
<1>2. (FeedsOn /\ EndedFor)'
  BY DEF FeedsOn, EndedFor, Failed
<1>3. CanceledFor'
  BY DEF CanceledFor, EndedFor, Failed
<1>4. HandedOut'
  BY DEF HandedOut, Kept, Failed
<1>5. GoneFor'
  BY DEF GoneFor
<1>6. Embedding!BatchEmbedded'
  BY DEF Embedding!BatchEmbedded
<1> QED BY <1>1, <1>2, <1>3, <1>4, <1>5, <1>6 DEF EmbedInv

LEMMA ReturnKeeps ==
  ASSUME EmbedConstants, EmbedInv, Embedding!Return
  PROVE  EmbedInv'
<1> USE DEF EmbedInv, Embedding!Return
<1>1. ASSUME Failed PROVE EmbedTypes' /\ Embedding!BatchEmbedded'
  <2>1. returned' \in Embedding!Errors /\ (returned' = "canceled" => gaveUp)
    BY <1>1 DEF Failed, EmbedTypes, CanceledFor, Embedding!Errors
  <2>2. EmbedTypes'
    BY <2>1 DEF EmbedTypes
  <2>3. Embedding!BatchEmbedded'
    BY <2>1 DEF Embedding!BatchEmbedded, Embedding!Errors
  <2> QED BY <2>2, <2>3
<1>2. ASSUME ~Failed, next <= Texts
      PROVE EmbedTypes' /\ Embedding!BatchEmbedded'
  <2>1. returned' = "canceled" /\ gaveUp
    BY <1>2 DEF Failed, FeedsOn
  <2>2. EmbedTypes'
    BY <2>1 DEF EmbedTypes, Embedding!Errors
  <2>3. Embedding!BatchEmbedded'
    BY <2>1 DEF Embedding!BatchEmbedded
  <2> QED BY <2>2, <2>3
<1>3. ASSUME ~Failed, ~(next <= Texts)
      PROVE EmbedTypes' /\ Embedding!BatchEmbedded'
  <2>1. returned' = "results"
    BY <1>3 DEF Failed
  <2>2. EmbedTypes'
    BY <2>1 DEF EmbedTypes
  <2>3. next = Texts + 1
    BY <1>3 DEF EmbedTypes, EmbedConstants
  <2>4. \A t \in 1 .. Texts : t \in vectors
    BY <1>3, <2>3, DoneType DEF HandedOut, Kept, EmbedConstants
  <2>5. Embedding!BatchEmbedded'
    BY <2>1, <2>4 DEF Embedding!BatchEmbedded, EmbedTypes
  <2> QED BY <2>2, <2>5
<1>4. EmbedTypes' /\ Embedding!BatchEmbedded'
  BY <1>1, <1>2, <1>3
<1>5. (FeedsOn /\ EndedFor /\ CanceledFor)'
  BY DEF FeedsOn, EndedFor, CanceledFor, Failed
<1>6. HandedOut' /\ GoneFor'
  BY DEF HandedOut, Kept, Failed, GoneFor
<1> QED BY <1>4, <1>5, <1>6 DEF EmbedInv

LEMMA GiveUpKeeps ==
  ASSUME EmbedConstants, EmbedInv, Embedding!GiveUp
  PROVE  EmbedInv'
<1> USE DEF EmbedInv, Embedding!GiveUp
<1>1. EmbedTypes'
  BY DEF EmbedTypes
<1>2. (FeedsOn /\ EndedFor)'
  BY DEF FeedsOn, EndedFor, Failed
<1>3. CanceledFor'
  BY DEF CanceledFor, EndedFor, Failed
<1>4. HandedOut'
  BY DEF HandedOut, Kept, Failed
<1>5. GoneFor'
  BY DEF GoneFor
<1>6. Embedding!BatchEmbedded'
  BY DEF Embedding!BatchEmbedded
<1> QED BY <1>1, <1>2, <1>3, <1>4, <1>5, <1>6 DEF EmbedInv

LEMMA EmbedKeeps ==
  ASSUME EmbedConstants, EmbedInv, NEW w \in Callers, Embedding!Embed(w)
  PROVE  EmbedInv'
<1> USE DEF EmbedInv, Embedding!Embed
<1>1. /\ Embedding!At("range", 0, "none") \in EmbedWorker
      /\ Becomes(w, Embedding!At("range", 0, "none"))
  BY DoneType, WorkerType, WorkerFields
     DEF Becomes, Embedding!WorkerSteps, Embedding!Errors, EmbedTypes
<1>2. /\ embedder' \in [Callers -> EmbedWorker]
      /\ embedder'[w] = Embedding!At("range", 0, "none")
     /\ \A u \in Callers \ {w} : embedder'[u] = embedder[u]
  BY <1>1, WorkerBecomes
<1>3. EmbedTypes'
  <2>1. embedder[w].text \in 1 .. Texts
    BY WorkerFields DEF HandedOut, EmbedConstants
  <2>2. vectors' \subseteq 1 .. Texts
    BY <2>1 DEF EmbedTypes
  <2> QED BY <1>2, <2>2 DEF EmbedTypes
<1>4. (FeedsOn /\ EndedFor)'
  BY <1>1, <1>2, DoneType DEF FeedsOn, EndedFor, Failed
<1>5. CanceledFor'
  BY <1>1, <1>2, DoneType DEF CanceledFor, EndedFor, Failed
<1>6. HandedOut'
  BY <1>1, <1>2, DoneType DEF HandedOut, Kept, Failed
<1>7. GoneFor'
  BY <1>1, <1>2, DoneType DEF GoneFor
<1>8. Embedding!BatchEmbedded'
  BY <1>1, <1>2, <1>3, DoneType DEF Embedding!BatchEmbedded, EmbedTypes
<1> QED BY <1>3, <1>4, <1>5, <1>6, <1>7, <1>8 DEF EmbedInv

LEMMA RangeEndsKeeps ==
  ASSUME EmbedConstants, EmbedInv, NEW w \in Callers, Embedding!RangeEnds(w)
  PROVE  EmbedInv'
<1> USE DEF EmbedInv, Embedding!RangeEnds
<1>1. Embedding!Done \in EmbedWorker /\ Becomes(w, Embedding!Done)
  BY DoneType, WorkerType, WorkerFields
     DEF Becomes, Embedding!WorkerSteps, Embedding!Errors, EmbedTypes
<1>2. /\ embedder' \in [Callers -> EmbedWorker] /\ embedder'[w] = Embedding!Done
     /\ \A u \in Callers \ {w} : embedder'[u] = embedder[u]
  BY <1>1, WorkerBecomes
<1>3. EmbedTypes'
  BY <1>1, <1>2, DoneType DEF EmbedTypes
<1>4. (FeedsOn /\ EndedFor)'
  BY <1>1, <1>2, DoneType DEF FeedsOn, EndedFor, Failed
<1>5. CanceledFor'
  BY <1>1, <1>2, DoneType DEF CanceledFor, EndedFor, Failed
<1>6. HandedOut'
  BY <1>1, <1>2, DoneType DEF HandedOut, Kept, Failed
<1>7. GoneFor'
  BY <1>1, <1>2, DoneType DEF GoneFor
<1>8. Embedding!BatchEmbedded'
  BY <1>1, <1>2, DoneType DEF Embedding!BatchEmbedded
<1> QED BY <1>3, <1>4, <1>5, <1>6, <1>7, <1>8 DEF EmbedInv

LEMMA CancelKeeps ==
  ASSUME EmbedConstants, EmbedInv, NEW w \in Callers, Embedding!Cancel(w)
  PROVE  EmbedInv'
<1> USE DEF EmbedInv, Embedding!Cancel
<1>1. Embedding!Done \in EmbedWorker /\ Becomes(w, Embedding!Done)
  BY DoneType, WorkerType, WorkerFields
     DEF Becomes, Embedding!WorkerSteps, Embedding!Errors, EmbedTypes
<1>2. /\ embedder' \in [Callers -> EmbedWorker] /\ embedder'[w] = Embedding!Done
     /\ \A u \in Callers \ {w} : embedder'[u] = embedder[u]
  BY <1>1, WorkerBecomes
<1>3. EmbedTypes'
  BY <1>1, <1>2, DoneType DEF EmbedTypes
<1>4. (FeedsOn /\ EndedFor)'
  BY <1>1, <1>2, DoneType DEF FeedsOn, EndedFor, CanceledFor, Failed
<1>5. CanceledFor'
  BY <1>1, <1>2, DoneType DEF CanceledFor, EndedFor, Failed
<1>6. HandedOut'
  BY <1>1, <1>2, DoneType DEF HandedOut, Kept, Failed
<1>7. GoneFor'
  BY <1>1, <1>2, DoneType DEF GoneFor
<1>8. Embedding!BatchEmbedded'
  BY <1>1, <1>2, DoneType DEF Embedding!BatchEmbedded
<1> QED BY <1>3, <1>4, <1>5, <1>6, <1>7, <1>8 DEF EmbedInv

LEMMA FeedKeeps ==
  ASSUME EmbedConstants, EmbedInv, NEW w \in Callers, Embedding!Feed(w)
  PROVE  EmbedInv'
<1> DEFINE r == Embedding!At("embed", next, "none")
<1> USE DEF EmbedInv, Embedding!Feed
<1>1. next \in 1 .. Texts /\ next' = next + 1
  BY DEF FeedsOn, EmbedTypes, EmbedConstants
<1>2. r \in EmbedWorker /\ r.step = "embed" /\ r.text = next
  <2>1. next \in 0 .. Texts
    BY <1>1 DEF EmbedConstants
  <2> QED BY <2>1, WorkerType DEF Embedding!WorkerSteps
<1>3. Becomes(w, r)
  BY DEF Becomes
<1> HIDE DEF r
<1>4. /\ embedder' \in [Callers -> EmbedWorker] /\ embedder'[w] = r
      /\ \A u \in Callers \ {w} : embedder'[u] = embedder[u]
  BY <1>2, <1>3, WorkerBecomes
<1>5. EmbedTypes'
  BY <1>1, <1>4 DEF EmbedTypes, EmbedConstants
<1>6. (FeedsOn /\ EndedFor)'
  BY <1>1 DEF FeedsOn, EndedFor, Failed, EmbedConstants
<1>7. CanceledFor'
  BY <1>2, <1>4 DEF CanceledFor, Failed
<1>8. HandedOut'
  <2>1. ASSUME NEW t \in 1 .. next' - 1 PROVE Kept(t)'
    BY <1>1, <1>2, <1>4, <2>1 DEF HandedOut, Kept, Failed
  <2>2. ASSUME NEW u \in Callers, embedder'[u].step = "embed" PROVE embedder'[u].text >= 1
    BY <1>1, <1>2, <1>4, <2>2 DEF HandedOut
  <2> QED BY <2>1, <2>2 DEF HandedOut
<1>9. GoneFor' /\ Embedding!BatchEmbedded'
  BY <1>2, <1>4, DoneType DEF GoneFor, Embedding!BatchEmbedded
<1> QED BY <1>5, <1>6, <1>7, <1>8, <1>9 DEF EmbedInv

LEMMA EmbedFailsKeeps ==
  ASSUME EmbedConstants, EmbedInv, NEW w \in Callers, NEW cause \in Embedding!Errors,
         Embedding!EmbedFails(w, cause)
  PROVE  EmbedInv'
<1> DEFINE r == Embedding!At("report", embedder[w].text, cause)
<1> USE DEF EmbedInv, Embedding!EmbedFails
<1>1. r \in EmbedWorker /\ r.step = "report" /\ r.text = embedder[w].text /\ r.error = cause
  BY WorkerType, WorkerFields DEF Embedding!WorkerSteps
<1>2. Becomes(w, r)
  BY DEF Becomes
<1> HIDE DEF r
<1>3. /\ embedder' \in [Callers -> EmbedWorker] /\ embedder'[w] = r
      /\ \A u \in Callers \ {w} : embedder'[u] = embedder[u]
  BY <1>1, <1>2, WorkerBecomes
<1>4. EmbedTypes' /\ (FeedsOn /\ EndedFor)'
  BY <1>3 DEF EmbedTypes, FeedsOn, EndedFor, Failed
<1>5. CanceledFor'
  BY <1>1, <1>3 DEF CanceledFor, EndedFor, Failed
<1>6. HandedOut'
  BY <1>1, <1>3 DEF HandedOut, Kept, Failed
<1>7. GoneFor' /\ Embedding!BatchEmbedded'
  BY <1>1, <1>3, DoneType DEF GoneFor, Embedding!BatchEmbedded
<1> QED BY <1>4, <1>5, <1>6, <1>7 DEF EmbedInv

LEMMA ReportKeeps ==
  ASSUME EmbedConstants, EmbedInv, NEW w \in Callers, Embedding!Report(w)
  PROVE  EmbedInv'
<1> USE DEF EmbedInv
<1>1. /\ embedder[w].step = "report" /\ embedder[w].error \in Embedding!Errors
      /\ UNCHANGED <<next, feeder, held, ended, gaveUp, vectors, returned>>
  BY DEF CanceledFor, Embedding!Report
<1>2. PICK r \in EmbedWorker :
        /\ Becomes(w, r)
        /\ errCh = "none" => errCh' = embedder[w].error /\ r.step = "cancel"
        /\ errCh # "none" => errCh' = errCh /\ r = Embedding!Done
  <2>1. CASE errCh = "none"
    <3>1. [embedder[w] EXCEPT !.step = "cancel"] \in EmbedWorker
      BY WorkerFields DEF EmbedWorker, Embedding!WorkerSteps
    <3>2. [embedder[w] EXCEPT !.step = "cancel"].step = "cancel"
      BY WorkerFields DEF EmbedWorker
    <3> QED BY <2>1, <3>1, <3>2 DEF Embedding!Report, Becomes
  <2>2. CASE errCh # "none"
    BY <2>2, DoneType DEF Embedding!Report, Becomes
  <2> QED BY <2>1, <2>2
<1>3. /\ embedder' \in [Callers -> EmbedWorker] /\ embedder'[w] = r
      /\ \A u \in Callers \ {w} : embedder'[u] = embedder[u]
  BY <1>2, WorkerBecomes
<1>4. errCh' # "none" /\ errCh' \in Embedding!Errors /\ Failed'
  BY <1>1, <1>2 DEF EmbedTypes, Embedding!Errors, Failed
<1>5. EmbedTypes' /\ (FeedsOn /\ EndedFor)'
  BY <1>1, <1>3, <1>4 DEF EmbedTypes, FeedsOn, EndedFor, Failed
<1>6. errCh' = "canceled" => gaveUp' \/ held' # "none"
  BY <1>1, <1>2 DEF CanceledFor, Failed
<1>7. CanceledFor'
  BY <1>1, <1>2, <1>3, <1>4, <1>6, DoneType DEF CanceledFor
<1>8. HandedOut'
  BY <1>1, <1>2, <1>3, <1>4, DoneType DEF HandedOut, Kept
<1>9. GoneFor' /\ Embedding!BatchEmbedded'
  BY <1>1, <1>2, <1>3, <1>4, DoneType DEF GoneFor, Embedding!BatchEmbedded
<1> QED BY <1>5, <1>7, <1>8, <1>9 DEF EmbedInv

LEMMA EmbedStep ==
  ASSUME EmbedConstants, EmbedInv, Embedding!Next \/ UNCHANGED embedVars
  PROVE  EmbedInv'
<1>1. CASE UNCHANGED embedVars
  BY <1>1 DEF embedVars, EmbedInv, EmbedTypes, FeedsOn, EndedFor, CanceledFor, HandedOut, Kept,
              GoneFor, Failed, Embedding!BatchEmbedded
<1> QED BY <1>1, TakeErrorKeeps, StopFeedingKeeps, ReturnKeeps, GiveUpKeeps, FeedKeeps,
           EmbedKeeps, EmbedFailsKeeps, ReportKeeps, CancelKeeps, RangeEndsKeeps
        DEF Embedding!Next

\* A batch of texts is embedded as a whole or its failure is told, and no worker of it
\* is left, for any number of workers and texts.
THEOREM BatchAlwaysEmbedded ==
  ASSUME EmbedConstants PROVE ServicesSpec => []BatchEmbedded
<1>1. ServicesInit => EmbedInv
  BY EmbedInit DEF ServicesInit
<1>2. EmbedInv /\ [ServicesNext]_allVars => EmbedInv'
  BY EmbedStep DEF ServicesNext, allVars
<1>3. EmbedInv => BatchEmbedded
  BY DEF EmbedInv, BatchEmbedded
<1> QED BY <1>1, <1>2, <1>3, PTL DEF ServicesSpec

-----------------------------------------------------------------------------
(* The log notifier.                                                        *)

ErrorSteps == {"idle", "written", "counted", "queued", "dropped", "ignored"}
FlushSteps == {"idle", "started", "waiting", "done", "canceled", "none"}
WaiterSteps == {"none", "begun", "registered", "woken"}
ClosingSteps == {"idle", "waiting", "registered", "done"}

LogTypes ==
    /\ error \in [Entries -> ErrorSteps]
    /\ flush \in [Flushes -> FlushSteps]
    /\ waiter \in [Flushes -> WaiterSteps]
    /\ closing \in ClosingSteps
    /\ closed \in BOOLEAN
    /\ queue \in Seq(Entries)
    /\ pendings \in Nat
    /\ worker \in [entry : Entries \cup {None}, failures : Nat]
    /\ attempted \subseteq Entries
    /\ due \in [Flushes -> SUBSET Entries]

\* The entries that the WaitGroup counts: from Count until the notifier is done.
Pending ==
    {e \in Entries : error[e] = "counted" \/ (error[e] = "queued" /\ e \notin attempted)}
CountIs == IsFiniteSet(Pending) /\ pendings = Cardinality(Pending)

\* An entry is in the channel or in hand, once, until the notifier is done with it.
Waits(e) == error[e] = "queued" /\ e \notin attempted
QueueWaits ==
    /\ \A i \in 1 .. Len(queue) : Waits(queue[i]) /\ queue[i] # worker.entry
    /\ \A i, j \in 1 .. Len(queue) : queue[i] = queue[j] => i = j
HandWaits == worker.entry # None => Waits(worker.entry)
AttemptedQueued == \A e \in attempted : error[e] = "queued"
DueQueued == \A f \in Flushes : \A e \in due[f] : error[e] = "queued"

\* Nothing is counted any more once the logger is closed.
ClosedCounts ==
    /\ closing # "idle" => closed
    /\ closed => \A e \in Entries : error[e] # "counted"
\* Who has waited saw the count at zero.
FlushedAll == \A f \in Flushes : flush[f] = "done" => due[f] \subseteq attempted
ClosedAll == closing = "done" => Pending = {}

LogInv ==
    /\ LogTypes
    /\ CountIs
    /\ QueueWaits
    /\ HandWaits
    /\ AttemptedQueued
    /\ DueQueued
    /\ ClosedCounts
    /\ FlushedAll
    /\ ClosedAll

LEMMA LogInitInv ==
  ASSUME Log!Init PROVE LogInv
<1> USE DEF Log!Init
<1>1. LogTypes
  <2>1. error \in [Entries -> ErrorSteps] /\ flush \in [Flushes -> FlushSteps]
    BY DEF ErrorSteps, FlushSteps
  <2>2. waiter \in [Flushes -> WaiterSteps] /\ due \in [Flushes -> SUBSET Entries]
    BY DEF WaiterSteps
  <2>3. queue \in Seq(Entries) /\ pendings \in Nat
    OBVIOUS
  <2>4. closed \in BOOLEAN
    OBVIOUS
  <2>5. worker \in [entry : Entries \cup {None}, failures : Nat] /\ attempted \subseteq Entries
    OBVIOUS
  <2> QED BY <2>1, <2>2, <2>3, <2>4, <2>5 DEF LogTypes, ClosingSteps
<1>2. Pending = {}
  BY DEF Pending
<1>3. CountIs
  BY <1>2, FS_EmptySet DEF CountIs
<1>4. QueueWaits /\ HandWaits
  BY DEF QueueWaits, HandWaits
<1>5. AttemptedQueued /\ DueQueued /\ ClosedCounts /\ FlushedAll /\ ClosedAll
  BY <1>2 DEF AttemptedQueued, DueQueued, ClosedCounts, FlushedAll, ClosedAll
<1> QED BY <1>1, <1>3, <1>4, <1>5 DEF LogInv

\* What counts as before keeps what the count says.
LEMMA CountKept ==
  ASSUME CountIs, Pending' = Pending, pendings' = pendings
  PROVE  CountIs'
  BY DEF CountIs

LEMMA CountZero ==
  ASSUME CountIs, pendings = 0
  PROVE  Pending = {}
  BY FS_EmptySet DEF CountIs

\* An entry that is done with is counted down; at zero no other is left.
LEMMA CountsDownEffect ==
  ASSUME LogTypes, CountIs, NEW e \in Pending, Pending' = Pending \ {e}, Log!CountsDown
  PROVE  /\ CountIs' /\ pendings' \in Nat
         /\ waiter' \in [Flushes -> WaiterSteps] /\ closing' \in ClosingSteps
         /\ closing' # "idle" => closing # "idle"
         /\ closing' = "done" => closing = "done" \/ Pending' = {}
<1>1. /\ IsFiniteSet(Pending') /\ Cardinality(Pending') = Cardinality(Pending) - 1
  BY FS_RemoveElement DEF CountIs
<1>2. pendings' = Cardinality(Pending') /\ pendings' \in Nat
  BY <1>1, FS_CardinalityType DEF CountIs, Log!CountsDown
<1>3. pendings = 1 => Pending' = {}
  BY <1>1, <1>2, FS_EmptySet DEF CountIs
<1>4. waiter' \in [Flushes -> WaiterSteps]
  BY DEF LogTypes, WaiterSteps, Log!CountsDown
<1>5. closing' \in ClosingSteps
  BY DEF LogTypes, ClosingSteps, Log!CountsDown
<1> QED BY <1>1, <1>2, <1>3, <1>4, <1>5 DEF CountIs, Log!CountsDown

\* An entry's call of Error goes on.
ErrorGoes(e, at) == error' = [error EXCEPT ![e] = at]
LEMMA ErrorStep ==
  ASSUME LogTypes, NEW e \in Entries, NEW at \in ErrorSteps, ErrorGoes(e, at)
  PROVE  /\ error' \in [Entries -> ErrorSteps]
         /\ error'[e] = at
         /\ \A d \in Entries \ {e} : error'[d] = error[d]
  BY DEF LogTypes, ErrorGoes

LEMMA LogKeeps ==
  ASSUME LogInv, NEW e \in Entries, Log!Log(e)
  PROVE  LogInv'
<1> USE DEF LogInv, Log!Log
<1>1. PICK at \in {"ignored", "written"} : ErrorGoes(e, at)
  BY DEF ErrorGoes
<1>2. /\ error' \in [Entries -> ErrorSteps] /\ error'[e] = at
      /\ \A d \in Entries \ {e} : error'[d] = error[d]
  BY <1>1, ErrorStep DEF ErrorSteps
<1>3. Pending' = Pending
  BY <1>2 DEF Pending
<1>4. LogTypes'
  BY <1>1, <1>2, <1>3 DEF LogTypes, ErrorSteps, FlushSteps, WaiterSteps, ClosingSteps
<1>5. CountIs'
  BY <1>1, <1>2, <1>3 DEF CountIs
<1>6. (QueueWaits /\ HandWaits)'
  BY <1>1, <1>2, <1>3 DEF QueueWaits, HandWaits, Waits
<1>7. (AttemptedQueued /\ DueQueued)'
  BY <1>1, <1>2, <1>3 DEF AttemptedQueued, DueQueued
<1>8. ClosedCounts'
  BY <1>1, <1>2, <1>3 DEF ClosedCounts
<1>9. FlushedAll'
  BY <1>1, <1>2, <1>3 DEF FlushedAll
<1>10. ClosedAll'
  BY <1>1, <1>2, <1>3 DEF ClosedAll
<1> QED BY <1>4, <1>5, <1>6, <1>7, <1>8, <1>9, <1>10

LEMMA TakeKeeps ==
  ASSUME LogInv, Log!Take
  PROVE  LogInv'
<1> USE DEF LogInv, Log!Take
<1>1. /\ Head(queue) \in Entries /\ Head(queue) = queue[1] /\ Len(queue) >= 1
      /\ Tail(queue) \in Seq(Entries) /\ Len(Tail(queue)) = Len(queue) - 1
      /\ \A i \in 1 .. Len(queue) - 1 : Tail(queue)[i] = queue[i + 1]
  BY DEF LogTypes
<1>2. worker' \in [entry : Entries \cup {None}, failures : Nat] /\ worker'.entry = queue[1]
  BY <1>1
<1>3. Pending' = Pending
  BY DEF Pending
<1>4. LogTypes'
  BY <1>1, <1>2, <1>3 DEF LogTypes, ErrorSteps, FlushSteps, WaiterSteps, ClosingSteps
<1>5. CountIs'
  BY <1>1, <1>2, <1>3 DEF CountIs
<1>6. (QueueWaits /\ HandWaits)'
  BY <1>1, <1>2, <1>3 DEF QueueWaits, HandWaits, Waits
<1>7. (AttemptedQueued /\ DueQueued)'
  BY <1>1, <1>2, <1>3 DEF AttemptedQueued, DueQueued
<1>8. ClosedCounts'
  BY <1>1, <1>2, <1>3 DEF ClosedCounts
<1>9. FlushedAll'
  BY <1>1, <1>2, <1>3 DEF FlushedAll
<1>10. ClosedAll'
  BY <1>1, <1>2, <1>3 DEF ClosedAll
<1> QED BY <1>4, <1>5, <1>6, <1>7, <1>8, <1>9, <1>10

LEMMA RetryKeeps ==
  ASSUME LogInv, Log!Retry
  PROVE  LogInv'
<1> USE DEF LogInv, Log!Retry
<1>1. worker' \in [entry : Entries \cup {None}, failures : Nat] /\ worker'.entry = worker.entry
  BY DEF LogTypes
<1>2. Pending' = Pending
  BY DEF Pending
<1>3. LogTypes'
  BY <1>1, <1>2 DEF LogTypes, ErrorSteps, FlushSteps, WaiterSteps, ClosingSteps
<1>4. CountIs'
  BY <1>1, <1>2 DEF CountIs
<1>5. (QueueWaits /\ HandWaits)'
  BY <1>1, <1>2 DEF QueueWaits, HandWaits, Waits
<1>6. (AttemptedQueued /\ DueQueued)'
  BY <1>1, <1>2 DEF AttemptedQueued, DueQueued
<1>7. ClosedCounts'
  BY <1>1, <1>2 DEF ClosedCounts
<1>8. FlushedAll'
  BY <1>1, <1>2 DEF FlushedAll
<1>9. ClosedAll'
  BY <1>1, <1>2 DEF ClosedAll
<1> QED BY <1>3, <1>4, <1>5, <1>6, <1>7, <1>8, <1>9

LEMMA FlushKeeps ==
  ASSUME LogInv, NEW f \in Flushes, Log!Flush(f)
  PROVE  LogInv'
<1> USE DEF LogInv, Log!Flush
<1>1. Pending' = Pending
  BY DEF Pending
<1>2. LogTypes'
  BY <1>1 DEF LogTypes, ErrorSteps, FlushSteps, WaiterSteps, ClosingSteps
<1>3. CountIs'
  BY <1>1 DEF CountIs
<1>4. (QueueWaits /\ HandWaits)'
  BY <1>1 DEF QueueWaits, HandWaits, Waits
<1>5. (AttemptedQueued /\ DueQueued)'
  BY <1>1 DEF AttemptedQueued, DueQueued
<1>6. ClosedCounts'
  BY <1>1 DEF ClosedCounts
<1>7. FlushedAll'
  BY <1>1 DEF FlushedAll
<1>8. ClosedAll'
  BY <1>1 DEF ClosedAll
<1> QED BY <1>2, <1>3, <1>4, <1>5, <1>6, <1>7, <1>8

LEMMA WaitNotifierKeeps ==
  ASSUME LogInv, NEW f \in Flushes, Log!WaitNotifier(f)
  PROVE  LogInv'
<1> USE DEF LogInv, Log!WaitNotifier
<1>1. Pending' = Pending
  BY DEF Pending
<1>2. LogTypes'
  BY <1>1 DEF LogTypes, ErrorSteps, FlushSteps, WaiterSteps, ClosingSteps
<1>3. CountIs'
  BY <1>1 DEF CountIs
<1>4. (QueueWaits /\ HandWaits)'
  BY <1>1 DEF QueueWaits, HandWaits, Waits
<1>5. (AttemptedQueued /\ DueQueued)'
  BY <1>1 DEF AttemptedQueued, DueQueued
<1>6. ClosedCounts'
  BY <1>1 DEF ClosedCounts
<1>7. FlushedAll'
  BY DEF FlushedAll, LogTypes, FlushSteps
<1>8. ClosedAll'
  BY <1>1 DEF ClosedAll
<1> QED BY <1>2, <1>3, <1>4, <1>5, <1>6, <1>7, <1>8

LEMMA FlushCanceledKeeps ==
  ASSUME LogInv, NEW f \in Flushes, Log!FlushCanceled(f)
  PROVE  LogInv'
<1> USE DEF LogInv, Log!FlushCanceled
<1>1. Pending' = Pending
  BY DEF Pending
<1>2. LogTypes'
  BY <1>1 DEF LogTypes, ErrorSteps, FlushSteps, WaiterSteps, ClosingSteps
<1>3. CountIs'
  BY <1>1 DEF CountIs
<1>4. (QueueWaits /\ HandWaits)'
  BY <1>1 DEF QueueWaits, HandWaits, Waits
<1>5. (AttemptedQueued /\ DueQueued)'
  BY <1>1 DEF AttemptedQueued, DueQueued
<1>6. ClosedCounts'
  BY <1>1 DEF ClosedCounts
<1>7. FlushedAll'
  BY <1>1 DEF FlushedAll
<1>8. ClosedAll'
  BY <1>1 DEF ClosedAll
<1> QED BY <1>2, <1>3, <1>4, <1>5, <1>6, <1>7, <1>8

LEMMA WaitKeeps ==
  ASSUME LogInv, NEW f \in Flushes, Log!Wait(f)
  PROVE  LogInv'
<1> USE DEF LogInv, Log!Wait
<1>1. Pending' = Pending
  BY DEF Pending
<1>2. pendings = 0 => Pending = {}
  BY CountZero
<1>3. LogTypes'
  <2>1. CASE pendings = 0
    BY <2>1 DEF LogTypes, FlushSteps, WaiterSteps, Log!Waited
  <2>2. CASE pendings # 0
    BY <2>2 DEF LogTypes, FlushSteps, WaiterSteps
  <2> QED BY <2>1, <2>2
<1>4. CountIs'
  BY <1>1, <1>2 DEF CountIs
<1>5. (QueueWaits /\ HandWaits)'
  BY <1>1, <1>2 DEF QueueWaits, HandWaits, Waits
<1>6. (AttemptedQueued /\ DueQueued)'
  BY <1>1, <1>2 DEF AttemptedQueued, DueQueued
<1>7. ClosedCounts'
  BY <1>1, <1>2 DEF ClosedCounts
<1>8. FlushedAll'
  <2>1. CASE pendings = 0
    <3>1. due[f] \subseteq attempted
      BY <1>2, <2>1 DEF DueQueued, Pending, LogTypes
    <3> QED BY <2>1, <3>1 DEF FlushedAll, LogTypes, Log!Waited
  <2>2. CASE pendings # 0
    BY <2>2 DEF FlushedAll
  <2> QED BY <2>1, <2>2
<1>9. ClosedAll'
  BY <1>1, <1>2 DEF ClosedAll
<1> QED BY <1>3, <1>4, <1>5, <1>6, <1>7, <1>8, <1>9

LEMMA WakeKeeps ==
  ASSUME LogInv, NEW f \in Flushes, Log!Wake(f)
  PROVE  LogInv'
<1> USE DEF LogInv, Log!Wake
<1>1. Pending' = Pending
  BY DEF Pending
<1>2. pendings = 0 => Pending = {}
  BY CountZero
<1>3. LogTypes'
  <2>1. CASE pendings = 0
    BY <2>1 DEF LogTypes, FlushSteps, WaiterSteps, Log!Waited
  <2>2. CASE pendings # 0
    BY <2>2 DEF LogTypes, FlushSteps, WaiterSteps
  <2> QED BY <2>1, <2>2
<1>4. CountIs'
  BY <1>1, <1>2 DEF CountIs
<1>5. (QueueWaits /\ HandWaits)'
  BY <1>1, <1>2 DEF QueueWaits, HandWaits, Waits
<1>6. (AttemptedQueued /\ DueQueued)'
  BY <1>1, <1>2 DEF AttemptedQueued, DueQueued
<1>7. ClosedCounts'
  BY <1>1, <1>2 DEF ClosedCounts
<1>8. FlushedAll'
  <2>1. CASE pendings = 0
    <3>1. due[f] \subseteq attempted
      BY <1>2, <2>1 DEF DueQueued, Pending, LogTypes
    <3> QED BY <2>1, <3>1 DEF FlushedAll, LogTypes, Log!Waited
  <2>2. CASE pendings # 0
    BY <2>2 DEF FlushedAll
  <2> QED BY <2>1, <2>2
<1>9. ClosedAll'
  BY <1>1, <1>2 DEF ClosedAll
<1> QED BY <1>3, <1>4, <1>5, <1>6, <1>7, <1>8, <1>9

LEMMA CloseKeeps ==
  ASSUME LogInv, Log!Close
  PROVE  LogInv'
<1> USE DEF LogInv, Log!Close
<1>1. Pending' = Pending
  BY DEF Pending
<1>2. LogTypes'
  BY <1>1 DEF LogTypes, ErrorSteps, FlushSteps, WaiterSteps, ClosingSteps
<1>3. CountIs'
  BY <1>1 DEF CountIs
<1>4. (QueueWaits /\ HandWaits)'
  BY <1>1 DEF QueueWaits, HandWaits, Waits
<1>5. (AttemptedQueued /\ DueQueued)'
  BY <1>1 DEF AttemptedQueued, DueQueued
<1>6. ClosedCounts'
  BY DEF ClosedCounts, Log!Unlocked
<1>7. FlushedAll'
  BY <1>1 DEF FlushedAll
<1>8. ClosedAll'
  BY <1>1 DEF ClosedAll
<1> QED BY <1>2, <1>3, <1>4, <1>5, <1>6, <1>7, <1>8

LEMMA CloseWaitsKeeps ==
  ASSUME LogInv, Log!CloseWaits
  PROVE  LogInv'
<1> USE DEF LogInv, Log!CloseWaits
<1>1. Pending' = Pending
  BY DEF Pending
<1>2. pendings = 0 => Pending = {}
  BY CountZero
<1>3. LogTypes'
  BY <1>1, <1>2 DEF LogTypes, ErrorSteps, FlushSteps, WaiterSteps, ClosingSteps
<1>4. CountIs'
  BY <1>1, <1>2 DEF CountIs
<1>5. (QueueWaits /\ HandWaits)'
  BY <1>1, <1>2 DEF QueueWaits, HandWaits, Waits
<1>6. (AttemptedQueued /\ DueQueued)'
  BY <1>1, <1>2 DEF AttemptedQueued, DueQueued
<1>7. ClosedCounts'
  BY <1>1, <1>2 DEF ClosedCounts
<1>8. FlushedAll'
  BY <1>1, <1>2 DEF FlushedAll
<1>9. ClosedAll'
  BY <1>1, <1>2 DEF ClosedAll
<1> QED BY <1>3, <1>4, <1>5, <1>6, <1>7, <1>8, <1>9

\* Mutex held from Count to Send: the entry is counted, whatever becomes of it.
LEMMA CountKeeps ==
  ASSUME LogInv, NEW e \in Entries, Log!Count(e)
  PROVE  LogInv'
<1> USE DEF LogInv, Log!Count
<1>1. error[e] = "written"
  OBVIOUS
<1>2. PICK at \in {"dropped", "counted"} :
        ErrorGoes(e, at) /\ (at = "counted" <=> ~closed)
  BY DEF ErrorGoes
<1>3. /\ error' \in [Entries -> ErrorSteps] /\ error'[e] = at
      /\ \A d \in Entries \ {e} : error'[d] = error[d]
  BY <1>2, ErrorStep DEF ErrorSteps
<1>4. pendings' \in Nat /\ CountIs'
  <2>1. CASE closed
    <3>1. pendings' = pendings /\ at = "dropped"
      BY <1>2, <2>1
    <3>2. Pending' = Pending
      BY <1>1, <1>3, <3>1 DEF Pending
    <3> QED BY <3>1, <3>2 DEF CountIs, LogTypes
  <2>2. CASE ~closed
    <3>1. pendings' = pendings + 1 /\ at = "counted"
      BY <1>2, <2>2
    <3>2. Pending' = Pending \cup {e} /\ e \notin Pending
      BY <1>1, <1>3, <3>1 DEF Pending
    <3>3. IsFiniteSet(Pending') /\ Cardinality(Pending') = Cardinality(Pending) + 1
      BY <3>2, FS_AddElement DEF CountIs
    <3> QED BY <3>1, <3>3 DEF CountIs, LogTypes
  <2> QED BY <2>1, <2>2
<1>5. LogTypes'
  BY <1>3, <1>4 DEF LogTypes
<1>6. (QueueWaits /\ HandWaits)'
  <2>1. \A d \in Entries : Waits(d) => Waits(d)'
    BY <1>1, <1>3 DEF Waits
  <2> QED BY <2>1 DEF QueueWaits, HandWaits, LogTypes
<1>7. (AttemptedQueued /\ DueQueued)'
  BY <1>1, <1>3 DEF AttemptedQueued, DueQueued, LogTypes
<1>8. (ClosedCounts /\ FlushedAll)'
  BY <1>2, <1>3 DEF ClosedCounts, FlushedAll
<1>9. ClosedAll'
  <2> SUFFICES ASSUME closing = "done" PROVE Pending' = {}
    BY DEF ClosedAll
  <2>1. closed /\ Pending = {}
    BY DEF ClosedCounts, ClosedAll
  <2> QED BY <1>2, <1>3, <2>1 DEF Pending
<1> QED BY <1>4, <1>5, <1>6, <1>7, <1>8, <1>9

LEMMA SendKeeps ==
  ASSUME None \notin Entries, LogInv, NEW e \in Entries, Log!Send(e)
  PROVE  LogInv'
<1> USE DEF LogInv
<1>1. /\ error[e] = "counted" /\ e \notin attempted /\ e \in Pending
      /\ UNCHANGED <<flush, closed, worker, attempted, due>>
  BY DEF Log!Send, AttemptedQueued, Pending
<1>2. closing # "done" /\ ~closed /\ closing = "idle"
  BY <1>1 DEF ClosedCounts
<1>3. CASE Len(queue) < BufferSize
  <2>1. /\ queue' = Append(queue, e) /\ ErrorGoes(e, "queued")
        /\ UNCHANGED <<pendings, waiter, closing>>
    BY <1>3 DEF Log!Send, ErrorGoes
  <2>2. /\ error' \in [Entries -> ErrorSteps] /\ error'[e] = "queued"
        /\ \A d \in Entries \ {e} : error'[d] = error[d]
    BY <2>1, ErrorStep DEF ErrorSteps
  <2>3. /\ queue' \in Seq(Entries) /\ Len(queue') = Len(queue) + 1
        /\ queue'[Len(queue) + 1] = e
        /\ \A i \in 1 .. Len(queue) : queue'[i] = queue[i] /\ queue[i] \in Entries
    BY <2>1 DEF LogTypes
  <2>4. Pending' = Pending
    BY <1>1, <2>2 DEF Pending
  <2>5. LogTypes' /\ CountIs'
    BY <1>1, <2>1, <2>2, <2>3, <2>4 DEF LogTypes, CountIs
  <2>6. (QueueWaits /\ HandWaits)'
    <3>1. \A d \in Entries : Waits(d) => Waits(d)' /\ d # e
      BY <1>1, <2>2 DEF Waits
    <3>2. Waits(e)'
      BY <1>1, <2>2 DEF Waits
    <3>3. worker.entry # e
      BY <1>1 DEF HandWaits, Waits
    <3>4. HandWaits'
      BY <1>1, <3>1 DEF HandWaits, LogTypes
    <3>5. \A i \in 1 .. Len(queue') : i = Len(queue) + 1 \/ i \in 1 .. Len(queue)
      BY <2>3 DEF LogTypes
    <3>6. \A i \in 1 .. Len(queue) : queue[i] # e
      BY <2>3, <3>1 DEF QueueWaits
    <3>7. \A i \in 1 .. Len(queue') :
            /\ error'[queue'[i]] = "queued" /\ queue'[i] \notin attempted'
            /\ queue'[i] # worker'.entry
      BY <1>1, <2>3, <3>1, <3>2, <3>3, <3>5 DEF QueueWaits, Waits
    <3>8. \A i, j \in 1 .. Len(queue') : queue'[i] = queue'[j] => i = j
      BY <2>3, <3>5, <3>6 DEF QueueWaits
    <3> QED BY <3>4, <3>7, <3>8 DEF QueueWaits, Waits
  <2>7. (AttemptedQueued /\ DueQueued)'
    BY <1>1, <2>2 DEF AttemptedQueued, DueQueued, LogTypes
  <2>8. (ClosedCounts /\ FlushedAll /\ ClosedAll)'
    BY <1>1, <1>2, <2>1 DEF ClosedCounts, FlushedAll, ClosedAll
  <2> QED BY <2>5, <2>6, <2>7, <2>8
<1>4. CASE ~(Len(queue) < BufferSize)
  <2>1. UNCHANGED queue /\ ErrorGoes(e, "dropped") /\ Log!CountsDown
    BY <1>4 DEF Log!Send, ErrorGoes
  <2>2. /\ error' \in [Entries -> ErrorSteps] /\ error'[e] = "dropped"
        /\ \A d \in Entries \ {e} : error'[d] = error[d]
    BY <2>1, ErrorStep DEF ErrorSteps
  <2>3. Pending' = Pending \ {e}
    BY <1>1, <2>2 DEF Pending
  <2>4. /\ CountIs' /\ pendings' \in Nat
        /\ waiter' \in [Flushes -> WaiterSteps] /\ closing' \in ClosingSteps
        /\ closing' = "idle"
    BY <1>1, <1>2, <2>1, <2>3, CountsDownEffect
  <2>5. LogTypes'
    BY <1>1, <2>1, <2>2, <2>4 DEF LogTypes
  <2>6. (QueueWaits /\ HandWaits)'
    <3>1. \A d \in Entries : Waits(d) => Waits(d)'
      BY <1>1, <2>2 DEF Waits
    <3> QED BY <1>1, <2>1, <3>1 DEF QueueWaits, HandWaits, LogTypes
  <2>7. (AttemptedQueued /\ DueQueued)'
    BY <1>1, <2>2 DEF AttemptedQueued, DueQueued, LogTypes
  <2>8. (ClosedCounts /\ FlushedAll /\ ClosedAll)'
    BY <1>1, <1>2, <2>4 DEF ClosedCounts, FlushedAll, ClosedAll
  <2> QED BY <2>4, <2>5, <2>6, <2>7, <2>8
<1> QED BY <1>3, <1>4

LEMMA NotifiedKeeps ==
  ASSUME LogInv, None \notin Entries, Log!Notified
  PROVE  LogInv'
<1> USE DEF LogInv
<1> DEFINE e == worker.entry
<1>1. /\ e \in Entries /\ Waits(e) /\ e \in Pending
      /\ attempted' = attempted \cup {e}
      /\ worker' = [entry |-> None, failures |-> 0]
      /\ UNCHANGED <<error, flush, closed, queue, due>>
  BY DEF Log!Notified, HandWaits, Waits, Pending, LogTypes
<1>2. pendings > 0
  BY <1>1, FS_EmptySet, FS_CardinalityType DEF CountIs, LogTypes
<1>3. Log!CountsDown
  BY <1>2 DEF Log!Notified
<1> HIDE DEF e
<1>4. Pending' = Pending \ {e}
  BY <1>1 DEF Pending, Waits
<1>5. /\ CountIs' /\ pendings' \in Nat
      /\ waiter' \in [Flushes -> WaiterSteps] /\ closing' \in ClosingSteps
      /\ closing' # "idle" => closing # "idle"
      /\ closing' = "done" => closing = "done" \/ Pending' = {}
  BY <1>1, <1>3, <1>4, CountsDownEffect
<1>6. LogTypes'
  BY <1>1, <1>5 DEF LogTypes
<1>7. (QueueWaits /\ HandWaits)'
  <2>1. \A d \in Entries : Waits(d) /\ d # e => Waits(d)'
    BY <1>1 DEF Waits
  <2>2. \A i \in 1 .. Len(queue) : queue[i] \in Entries /\ queue[i] # e /\ queue[i] # None
    BY <1>1 DEF QueueWaits, LogTypes, e
  <2> QED BY <1>1, <2>1, <2>2 DEF QueueWaits, HandWaits
<1>8. (AttemptedQueued /\ DueQueued /\ ClosedCounts)'
  BY <1>1, <1>5 DEF AttemptedQueued, DueQueued, ClosedCounts, Waits
<1>9. (FlushedAll /\ ClosedAll)'
  BY <1>1, <1>4, <1>5 DEF FlushedAll, ClosedAll
<1> QED BY <1>5, <1>6, <1>7, <1>8, <1>9

LEMMA LogStep ==
  ASSUME None \notin Entries, LogInv, Log!Next \/ UNCHANGED logVars
  PROVE  LogInv'
<1>1. CASE UNCHANGED logVars
  BY <1>1 DEF logVars, LogInv, LogTypes, CountIs, Pending, QueueWaits, HandWaits, Waits,
              AttemptedQueued, DueQueued, ClosedCounts, FlushedAll, ClosedAll
<1> QED BY <1>1, LogKeeps, CountKeeps, SendKeeps, TakeKeeps, RetryKeeps, NotifiedKeeps,
           FlushKeeps, WaitNotifierKeeps, WaitKeeps, WakeKeeps, FlushCanceledKeeps,
           CloseKeeps, CloseWaitsKeeps
        DEF Log!Next, Log!WorkerStep

\* Flush returns after what was queued before it was tried, and Close after all of the
\* queue, for any errors, calls of Flush, size of the buffer and number of retries.
THEOREM NotifierAlwaysSafe ==
  ASSUME None \notin Entries PROVE ServicesSpec => []NotifierSafe
<1>1. ServicesInit => LogInv
  BY LogInitInv DEF ServicesInit
<1>2. LogInv /\ [ServicesNext]_allVars => LogInv'
  BY LogStep DEF ServicesNext, allVars
<1>3. LogInv => NotifierSafe
  BY DEF LogInv, ClosedAll, FlushedAll, Pending, NotifierSafe, Log!NotifierSafe,
         Log!FlushCovers, Log!CloseDrains
<1> QED BY <1>1, <1>2, <1>3, PTL DEF ServicesSpec

-----------------------------------------------------------------------------
(* MicroVMs.                                                                *)

VMConstants ==
    None \notin VMs /\ MaxCommands \in Nat /\ MaxGeneration \in Nat \ {0}

VMTypes ==
    /\ provider \in BOOLEAN
    /\ vm \in [VMs -> VM!ProviderStates \cup {"none"}]
    /\ registry \in [Sessions -> VM!SessionRecord]
    /\ versions \in [Sessions -> SUBSET VM!SessionRecord]
    /\ \A s \in Sessions : registry[s] \in versions[s]
    /\ answers \in [Sessions -> VM!SessionRecord]
    /\ command \in [Callers -> VM!Call]
    /\ disturbed \subseteq Sessions

Reading(k) == k.step \in {"operate", "observe", "issue", "put"}
\* Without a provider a command has one step.
Offline == \A c \in Callers : provider \/ command[c].step \in {"idle", "put"}

\* V is a value of vm, Q one of answers: Good(vm, r)' is Good of the next values.
EndedIn(V, v) == V[v] \in {"terminating", "terminated", "failed"}
TerminalIn(V, v) == V[v] \in {"terminated", "failed"}
Named(V, r) == r.vm \in VMs /\ V[r.vm] # "none"
\* A record that says or wants the end of a MicroVM is right.
RecordTrue(V, r) ==
    /\ VM!IsTerminalState(r.state) => r.vm \in VMs /\ TerminalIn(V, r.vm)
    /\ r.desired = "terminated" => r.vm \in VMs /\ EndedIn(V, r.vm)
Good(V, r) == RecordTrue(V, r) /\ (VM!Exists(r) => Named(V, r))

\* What a command holds is right too: the records it read, the MicroVM that it has
\* asked to terminate, and the states that it has seen.
HooksTrue(Q, k) ==
    k.step = "hook" => k.command \notin VM!Orders /\ \A s \in k.targets : VM!Exists(Q[s])
CopiesTrue(V, k) ==
    Reading(k) => \A s \in k.targets : Named(V, k.copies[s]) /\ RecordTrue(V, k.copies[s])
TerminatesTrue(V, k) ==
    k.step \in {"observe", "put"} /\ k.command = "terminate" =>
        \A s \in k.targets : EndedIn(V, k.copies[s].vm)
SeenTrue(V, k) ==
    k.step = "put" =>
        \A s \in k.targets : VM!IsTerminalState(k.seen[s]) => TerminalIn(V, k.copies[s].vm)
CommandTrue(V, Q, k) ==
    /\ HooksTrue(Q, k)
    /\ k.step \in {"operate", "issue"} => \A s, t \in k.targets : s = t
    /\ k.step = "issue" => k.command = "token"
    /\ CopiesTrue(V, k) /\ TerminatesTrue(V, k) /\ SeenTrue(V, k)
\* A command may read what a record was: every version of a record is right.
RecordsTrue ==
    provider => /\ \A s \in Sessions : Good(vm, answers[s])
                /\ \A s \in Sessions : \A r \in versions[s] : Good(vm, r)
                /\ \A c \in Callers : CommandTrue(vm, answers, command[c])

\* On a session that is not disturbed one command works at most, and it goes on from
\* no less than what was answered.
AtLeast(r, q) ==
    VM!Exists(q) => r.vm = q.vm /\ r.tokens >= q.tokens /\ r.generation >= q.generation
OneWorks(K, s) == \A c, d \in Callers : s \in K[c].targets /\ s \in K[d].targets => c = d
ReadsAtLeast(s, k, q) ==
    s \in k.targets /\ Reading(k) /\ ~VM!Begins(k.command) => AtLeast(k.copies[s], q)
Serial(s, K, r, q) ==
    OneWorks(K, s) /\ (\A c \in Callers : ReadsAtLeast(s, K[c], q)) /\ AtLeast(r, q)
SerialInv == \A s \in Sessions \ disturbed : Serial(s, command, registry[s], answers[s])

VMInv == VMTypes /\ Offline /\ RecordsTrue /\ SerialInv

-----------------------------------------------------------------------------
LEMMA ProviderStatesAre ==
  /\ VM!ProviderStates = {"pending", "running", "suspending", "suspended", "resuming",
                           "terminating", "terminated", "failed"}
  /\ \A p \in VM!ProviderStates :
        /\ VM!MapProviderState[p] \in VM!States
        /\ VM!IsTerminalState(VM!MapProviderState[p]) => p \in {"terminated", "failed"}
        /\ VM!MapProviderState[p] = "terminated" => p = "terminated"
<1>1. VM!ProviderStates = {"pending", "running", "suspending", "suspended", "resuming",
                           "terminating", "terminated", "failed"}
  BY DEF VM!ProviderStates, VM!MapProviderState
<1>2. ASSUME NEW p \in VM!ProviderStates
      PROVE  /\ VM!MapProviderState[p] \in VM!States
             /\ VM!IsTerminalState(VM!MapProviderState[p]) => p \in {"terminated", "failed"}
             /\ VM!MapProviderState[p] = "terminated" => p = "terminated"
  <2>1. VM!MapProviderState[p] \in VM!States
    BY DEF VM!States
  <2>2. VM!MapProviderState[p] =
          CASE p = "pending" -> "validating"
            [] p = "running" -> "running"
            [] p = "suspending" -> "suspending"
            [] p = "suspended" -> "suspended"
            [] p = "resuming" -> "resuming"
            [] p = "terminating" -> "terminating"
            [] p = "terminated" -> "terminated"
            [] p = "failed" -> "failed"
    BY <1>1 DEF VM!MapProviderState
  <2> QED BY <1>1, <2>1, <2>2 DEF VM!IsTerminalState
<1> QED BY <1>1, <1>2

LEMMA StatesAre ==
  {"requested", "running", "ready", "starting", "started", "stopping", "stopped", "suspended",
   "terminated"} \subseteq VM!States
<1>1. /\ VM!MapProviderState["running"] = "running"
      /\ VM!MapProviderState["suspended"] = "suspended"
      /\ VM!MapProviderState["terminated"] = "terminated"
  BY DEF VM!MapProviderState
<1> QED BY <1>1, ProviderStatesAre DEF VM!States

LEMMA NoRecordIs ==
  ASSUME VMConstants
  PROVE  /\ VM!NoRecord \in VM!SessionRecord
         /\ VM!NoRecord.state = "requested" /\ VM!NoRecord.desired = "requested"
         /\ VM!NoRecord.generation = 0 /\ VM!NoRecord.vm = None
         /\ ~VM!Exists(VM!NoRecord)
<1>1. "requested" \in VM!States
  BY StatesAre
<1> QED BY <1>1 DEF VM!NoRecord, VM!SessionRecord, VM!Exists, VMConstants

LEMMA IdleIs ==
  ASSUME VMConstants
  PROVE  /\ VM!Idle \in VM!Call
         /\ VM!Idle.step = "idle" /\ VM!Idle.targets = {} /\ VM!Idle.command = "get"
<1>1. "requested" \in VM!States
  BY StatesAre
<1>2. [s \in Sessions |-> VM!NoRecord] \in [Sessions -> VM!SessionRecord]
  BY NoRecordIs
<1>3. [s \in Sessions |-> "requested"] \in [Sessions -> VM!States]
  BY <1>1
<1> QED BY <1>2, <1>3 DEF VM!Idle, VM!Call, VM!Commands

CallSteps == {"idle", "hook", "operate", "observe", "issue", "put"}

LEMMA CallFields ==
  ASSUME NEW k \in VM!Call
  PROVE  /\ k.command \in VM!Commands /\ k.step \in CallSteps
         /\ k.targets \subseteq Sessions
         /\ k.copies \in [Sessions -> VM!SessionRecord]
         /\ k.seen \in [Sessions -> VM!States]
  BY DEF VM!Call, CallSteps

LEMMA RecordFields ==
  ASSUME VMConstants, NEW r \in VM!SessionRecord
  PROVE  /\ r.vm \in VMs \cup {None} /\ r.state \in VM!States /\ r.desired \in VM!States
         /\ r.generation \in Nat /\ r.generation <= MaxGeneration
         /\ r.tokens \in Nat /\ r.tokens <= MaxCommands
  BY DEF VM!SessionRecord, VMConstants

\* A command, field by field.
CallOf(x, y, T, A, B) ==
    [command |-> x, step |-> y, targets |-> T, copies |-> A, seen |-> B]
WithCommand(k, z) == [k EXCEPT !.command = z]
WithStep(k, z) == [k EXCEPT !.step = z]
WithTargets(k, z) == [k EXCEPT !.targets = z]
WithCopy(k, s, z) == [k EXCEPT !.copies[s] = z]
WithSeen(k, s, z) == [k EXCEPT !.seen[s] = z]

LEMMA CommandExcept ==
  ASSUME NEW x, NEW y, NEW T, NEW A, NEW B, NEW z
  PROVE  WithCommand(CallOf(x, y, T, A, B), z) = CallOf(z, y, T, A, B)
BY DEF CallOf, WithCommand

LEMMA StepExcept ==
  ASSUME NEW x, NEW y, NEW T, NEW A, NEW B, NEW z
  PROVE  WithStep(CallOf(x, y, T, A, B), z) = CallOf(x, z, T, A, B)
BY DEF CallOf, WithStep

LEMMA CopyExcept ==
  ASSUME NEW x, NEW y, NEW T, NEW A, NEW B, NEW z, NEW s
  PROVE  WithCopy(CallOf(x, y, T, A, B), s, z) = CallOf(x, y, T, [A EXCEPT ![s] = z], B)
<1> DEFINE C == [A EXCEPT ![s] = z]
<1>1. ASSUME NEW k, k.copies = A PROVE WithCopy(k, s, z) = [k EXCEPT !.copies = C]
  BY <1>1 DEF WithCopy
<1>2. CallOf(x, y, T, A, B).copies = A
  BY DEF CallOf
<1> HIDE DEF C
<1>3. [CallOf(x, y, T, A, B) EXCEPT !.copies = C] = CallOf(x, y, T, C, B)
  BY DEF CallOf
<1>4. WithCopy(CallOf(x, y, T, A, B), s, z) = CallOf(x, y, T, C, B)
  BY <1>1, <1>2, <1>3
<1> QED BY <1>4 DEF C

LEMMA SeenExcept ==
  ASSUME NEW x, NEW y, NEW T, NEW A, NEW B, NEW z, NEW s
  PROVE  WithSeen(CallOf(x, y, T, A, B), s, z) = CallOf(x, y, T, A, [B EXCEPT ![s] = z])
<1> DEFINE D == [B EXCEPT ![s] = z]
<1>1. ASSUME NEW k, k.seen = B PROVE WithSeen(k, s, z) = [k EXCEPT !.seen = D]
  BY <1>1 DEF WithSeen
<1>2. CallOf(x, y, T, A, B).seen = B
  BY DEF CallOf
<1> HIDE DEF D
<1>3. [CallOf(x, y, T, A, B) EXCEPT !.seen = D] = CallOf(x, y, T, A, D)
  BY DEF CallOf
<1>4. WithSeen(CallOf(x, y, T, A, B), s, z) = CallOf(x, y, T, A, D)
  BY <1>1, <1>2, <1>3
<1> QED BY <1>4 DEF D

\* The command as it begins on sessions T, with copies A, and with one session.
BeginsOn(x, at, T) ==
    [VM!Idle EXCEPT !.command = x, !.step = at, !.targets = T]
BeginsWith(x, at, T, A) ==
    [VM!Idle EXCEPT !.command = x, !.step = at, !.targets = T, !.copies = A]
BeginsAs(x, at, T, s, copy, mode) ==
    [VM!Idle EXCEPT !.command = x, !.step = at, !.targets = T,
                    !.copies[s] = copy, !.seen[s] = mode]

LEMMA BeginsStaged ==
  ASSUME NEW x, NEW at, NEW T
  PROVE  BeginsOn(x, at, T) = WithTargets(WithStep(WithCommand(VM!Idle, x), at), T)
BY DEF BeginsOn, WithCommand, WithStep, WithTargets

LEMMA BeginsThenReads ==
  ASSUME NEW x, NEW at, NEW T, NEW A
  PROVE  BeginsWith(x, at, T, A) = [BeginsOn(x, at, T) EXCEPT !.copies = A]
BY DEF BeginsOn, BeginsWith

LEMMA BeginsThenSees ==
  ASSUME NEW x, NEW at, NEW T, NEW s, NEW copy, NEW mode
  PROVE  BeginsAs(x, at, T, s, copy, mode)
           = WithSeen(WithCopy(BeginsOn(x, at, T), s, copy), s, mode)
BY DEF BeginsOn, BeginsAs, WithCopy, WithSeen

LEMMA BeginsOnIs ==
  ASSUME NEW x, NEW at, NEW T
  PROVE  BeginsOn(x, at, T) = CallOf(x, at, T, VM!Idle.copies, VM!Idle.seen)
<1> DEFINE A == VM!Idle.copies
           B == VM!Idle.seen
<1>1. VM!Idle = CallOf("get", "idle", {}, A, B)
  BY DEF VM!Idle, CallOf
<1> HIDE DEF A, B
<1>2. WithCommand(CallOf("get", "idle", {}, A, B), x) = CallOf(x, "idle", {}, A, B)
  BY CommandExcept
<1>3. WithStep(CallOf(x, "idle", {}, A, B), at) = CallOf(x, at, {}, A, B)
  BY StepExcept
<1>4. WithTargets(CallOf(x, at, {}, A, B), T) = CallOf(x, at, T, A, B)
  BY DEF CallOf, WithTargets
<1>5. BeginsOn(x, at, T) = CallOf(x, at, T, A, B)
  BY <1>1, <1>2, <1>3, <1>4, BeginsStaged
<1> QED BY <1>5 DEF A, B

LEMMA CallOfFields ==
  ASSUME NEW x, NEW y, NEW T, NEW A, NEW B
  PROVE  LET k == CallOf(x, y, T, A, B) IN
           k.command = x /\ k.step = y /\ k.targets = T /\ k.copies = A /\ k.seen = B
BY DEF CallOf

LEMMA CallOfIs ==
  ASSUME NEW x \in VM!Commands, NEW y \in CallSteps, NEW T \in SUBSET Sessions,
         NEW A \in [Sessions -> VM!SessionRecord], NEW B \in [Sessions -> VM!States]
  PROVE  CallOf(x, y, T, A, B) \in VM!Call
BY DEF VM!Call, CallSteps, CallOf

\* A command that begins with nothing read.
LEMMA IdleBegins ==
  ASSUME VMConstants, NEW x \in VM!Commands, NEW at \in CallSteps, NEW T \in SUBSET Sessions
  PROVE  LET k == BeginsOn(x, at, T) IN
           /\ k \in VM!Call
           /\ k.command = x /\ k.step = at /\ k.targets = T /\ k.copies = VM!Idle.copies
BY BeginsOnIs, CallOfIs, CallOfFields, IdleIs, CallFields

\* A command that begins with records read.
LEMMA IdleReads ==
  ASSUME VMConstants, NEW x \in VM!Commands, NEW at \in CallSteps, NEW T \in SUBSET Sessions,
         NEW A \in [Sessions -> VM!SessionRecord]
  PROVE  LET k == BeginsWith(x, at, T, A) IN
           /\ k \in VM!Call
           /\ k.command = x /\ k.step = at /\ k.targets = T /\ k.copies = A
<1> DEFINE B == VM!Idle.seen
           C == VM!Idle.copies
<1>1. B \in [Sessions -> VM!States]
  BY IdleIs, CallFields
<1>2. BeginsWith(x, at, T, A) = [CallOf(x, at, T, C, B) EXCEPT !.copies = A]
  BY BeginsThenReads, BeginsOnIs
<1> HIDE DEF B, C
<1>3. [CallOf(x, at, T, C, B) EXCEPT !.copies = A] = CallOf(x, at, T, A, B)
  BY DEF CallOf
<1> QED BY <1>1, <1>2, <1>3, CallOfIs, CallOfFields

\* A command that begins with one session, or goes on from its record.
LEMMA IdleBecomes ==
  ASSUME VMConstants, NEW x \in VM!Commands, NEW at \in CallSteps, NEW T \in SUBSET Sessions,
         NEW s \in Sessions, NEW copy \in VM!SessionRecord, NEW mode \in VM!States
  PROVE  LET k == BeginsAs(x, at, T, s, copy, mode) IN
           /\ k \in VM!Call
           /\ k.command = x /\ k.step = at /\ k.targets = T
           /\ k.copies[s] = copy /\ k.seen[s] = mode
<1> DEFINE A == VM!Idle.copies
           B == VM!Idle.seen
           C == [A EXCEPT ![s] = copy]
           S == [B EXCEPT ![s] = mode]
<1>1. C \in [Sessions -> VM!SessionRecord] /\ C[s] = copy
  BY IdleIs, CallFields
<1>2. S \in [Sessions -> VM!States] /\ S[s] = mode
  BY IdleIs, CallFields
<1>3. BeginsAs(x, at, T, s, copy, mode)
        = WithSeen(WithCopy(CallOf(x, at, T, A, B), s, copy), s, mode)
  BY BeginsThenSees, BeginsOnIs
<1> HIDE DEF A, B
<1>4. WithCopy(CallOf(x, at, T, A, B), s, copy) = CallOf(x, at, T, C, B)
  BY CopyExcept
<1> HIDE DEF C
<1>5. WithSeen(CallOf(x, at, T, C, B), s, mode) = CallOf(x, at, T, C, S)
  BY SeenExcept
<1> HIDE DEF S
<1>6. BeginsAs(x, at, T, s, copy, mode) = CallOf(x, at, T, C, S)
  BY <1>3, <1>4, <1>5
<1>7. CallOf(x, at, T, C, S) \in VM!Call
  BY <1>1, <1>2, CallOfIs
<1>8. LET k == CallOf(x, at, T, C, S) IN
        k.command = x /\ k.step = at /\ k.targets = T /\ k.copies = C /\ k.seen = S
  BY CallOfFields
<1> QED BY <1>1, <1>2, <1>6, <1>7, <1>8

CallerGoes(c, k) == command' = [command EXCEPT ![c] = k]

LEMMA CallerStep ==
  ASSUME VMTypes, NEW c \in Callers, NEW k \in VM!Call, CallerGoes(c, k)
  PROVE  /\ command' \in [Callers -> VM!Call]
         /\ command'[c] = k
         /\ \A d \in Callers \ {c} : command'[d] = command[d]
  BY DEF VMTypes, CallerGoes
-----------------------------------------------------------------------------
\* A MicroVM that was run stays, and one that has ended stays ended.
GoesOn(V, W) ==
    \A v \in VMs : /\ V[v] # "none" => W[v] # "none"
                   /\ EndedIn(V, v) => EndedIn(W, v)
                   /\ TerminalIn(V, v) => TerminalIn(W, v)
\* The answers tell no less.
AnswersStay(Q, R) == \A s \in Sessions : VM!Exists(Q[s]) => VM!Exists(R[s])

LEMMA GoodStays ==
  ASSUME NEW V, NEW W, GoesOn(V, W), NEW r
  PROVE  /\ Named(V, r) => Named(W, r)
         /\ RecordTrue(V, r) => RecordTrue(W, r)
         /\ Good(V, r) => Good(W, r)
BY DEF GoesOn, Named, RecordTrue, Good

LEMMA CommandStays ==
  ASSUME NEW V, NEW W, GoesOn(V, W), NEW Q, NEW R, AnswersStay(Q, R),
         NEW k \in VM!Call, CommandTrue(V, Q, k)
  PROVE  CommandTrue(W, R, k)
<1>1. k.targets \subseteq Sessions
  BY CallFields
<1>2. HooksTrue(R, k)
  BY <1>1 DEF CommandTrue, HooksTrue, AnswersStay
<1>3. CopiesTrue(W, k)
  BY GoodStays DEF CommandTrue, CopiesTrue
<1>4. ASSUME k.step \in {"observe", "put"}, NEW s \in k.targets
      PROVE  k.copies[s].vm \in VMs
  BY <1>4 DEF CommandTrue, CopiesTrue, Reading, Named
<1>5. TerminatesTrue(W, k)
  BY <1>4 DEF CommandTrue, TerminatesTrue, GoesOn
<1>6. SeenTrue(W, k)
  BY <1>4 DEF CommandTrue, SeenTrue, GoesOn
<1> QED BY <1>2, <1>3, <1>5, <1>6 DEF CommandTrue

LEMMA NoRecordGood ==
  ASSUME VMConstants, NEW V PROVE Good(V, VM!NoRecord)
BY NoRecordIs DEF Good, RecordTrue, VM!IsTerminalState

\* What a step has to show of the records, and of a session's command.
LEMMA RecordsStay ==
  ASSUME VMTypes, RecordsTrue, provider' = provider,
         GoesOn(vm, vm'), AnswersStay(answers, answers'),
         \A s \in Sessions :
             /\ \A r \in versions'[s] :
                    r \in versions[s] \/ (provider => Good(vm', r))
             /\ answers'[s] = answers[s] \/ (provider => Good(vm', answers'[s])),
         \A c \in Callers :
             command'[c] = command[c] \/ (provider => CommandTrue(vm', answers', command'[c]))
  PROVE  RecordsTrue'
<1> SUFFICES ASSUME provider PROVE RecordsTrue'
  BY DEF RecordsTrue
<1>1. ASSUME NEW s \in Sessions PROVE Good(vm', answers'[s])
  BY GoodStays DEF RecordsTrue
<1>3. ASSUME NEW s \in Sessions, NEW r \in versions'[s] PROVE Good(vm', r)
  <2>1. CASE r \in versions[s]
    <3>1. Good(vm, r)
      BY <2>1 DEF RecordsTrue
    <3> QED BY <3>1, GoodStays
  <2>2. CASE r \notin versions[s]
    BY <2>2
  <2> QED BY <2>1, <2>2
<1>2. ASSUME NEW c \in Callers PROVE CommandTrue(vm', answers', command'[c])
  <2>1. CommandTrue(vm, answers, command[c]) /\ command[c] \in VM!Call
    BY DEF RecordsTrue, VMTypes
  <2> QED BY <2>1, CommandStays
<1> QED BY <1>1, <1>2, <1>3 DEF RecordsTrue

\* A record becomes another, and is one version more.
LEMMA StoreIs ==
  ASSUME VMTypes, NEW s \in Sessions, NEW r \in VM!SessionRecord, VM!Store(s, r)
  PROVE  /\ registry' \in [Sessions -> VM!SessionRecord] /\ registry'[s] = r
         /\ \A t \in Sessions \ {s} : registry'[t] = registry[t]
         /\ versions' \in [Sessions -> SUBSET VM!SessionRecord]
         /\ versions'[s] = versions[s] \cup {r}
         /\ \A t \in Sessions \ {s} : versions'[t] = versions[t]
         /\ \A t \in Sessions : registry'[t] \in versions'[t]
<1>1. /\ registry' \in [Sessions -> VM!SessionRecord] /\ registry'[s] = r
      /\ \A t \in Sessions \ {s} : registry'[t] = registry[t]
  BY DEF VM!Store, VMTypes
<1>2. versions' = [versions EXCEPT ![s] = versions[s] \cup {r}]
  BY DEF VM!Store
<1>3. /\ versions' \in [Sessions -> SUBSET VM!SessionRecord]
      /\ versions'[s] = versions[s] \cup {r}
      /\ \A t \in Sessions \ {s} : versions'[t] = versions[t]
  <2>1. versions[s] \cup {r} \in SUBSET VM!SessionRecord
    BY DEF VMTypes
  <2> QED BY <1>2, <2>1 DEF VMTypes
<1>4. \A t \in Sessions : registry'[t] \in versions'[t]
  BY <1>1, <1>3 DEF VMTypes
<1> QED BY <1>1, <1>3, <1>4

\* The command of c goes on with s alone, or without it.
LEMMA SerialStays ==
  ASSUME VMTypes, NEW c \in Callers, NEW k \in VM!Call, CallerGoes(c, k),
         NEW s \in Sessions, Serial(s, command, registry[s], answers[s]),
         s \in k.targets => \A d \in Callers \ {c} : s \notin command[d].targets,
         answers'[s] = answers[s],
         ReadsAtLeast(s, k, answers[s]), AtLeast(registry'[s], answers[s])
  PROVE  Serial(s, command', registry'[s], answers'[s])
<1>1. command'[c] = k /\ \A d \in Callers \ {c} : command'[d] = command[d]
  BY CallerStep
<1>2. OneWorks(command', s)
  BY <1>1 DEF Serial, OneWorks
<1>3. \A d \in Callers : ReadsAtLeast(s, command'[d], answers[s])
  BY <1>1 DEF Serial
<1> QED BY <1>2, <1>3 DEF Serial

\* The command of c is done with s, and no other works on s.
LEMMA SerialLeft ==
  ASSUME VMTypes, NEW c \in Callers, NEW k \in VM!Call, CallerGoes(c, k),
         NEW s \in Sessions, s \notin k.targets,
         \A d \in Callers \ {c} : s \notin command[d].targets,
         AtLeast(registry'[s], answers'[s])
  PROVE  Serial(s, command', registry'[s], answers'[s])
<1>1. \A d \in Callers : s \notin command'[d].targets
  BY CallerStep
<1> QED BY <1>1 DEF Serial, OneWorks, ReadsAtLeast
LEMMA AtLeastItself ==
  ASSUME VMConstants, NEW r \in VM!SessionRecord PROVE AtLeast(r, r)
BY RecordFields DEF AtLeast

\* A command begins: the sessions that it shares, and those whose record it read as it
\* was, become disturbed.
LEMMA BeginKeeps ==
  ASSUME VMConstants, VMInv, NEW c \in Callers, NEW k \in VM!Call, CallerGoes(c, k),
         NEW old \in SUBSET Sessions, VM!Overlaps(c, k.targets, old),
         UNCHANGED <<provider, registry, versions, answers>>,
         vm' \in [VMs -> VM!ProviderStates \cup {"none"}], GoesOn(vm, vm'),
         provider \/ k.step = "put", provider => CommandTrue(vm', answers, k),
         \A s \in Sessions \ old :
             AtLeast(registry[s], answers[s]) => ReadsAtLeast(s, k, answers[s])
  PROVE  VMInv'
<1>1. VMTypes /\ Offline /\ RecordsTrue /\ SerialInv
  BY DEF VMInv
<1>2. /\ command' \in [Callers -> VM!Call] /\ command'[c] = k
      /\ \A d \in Callers \ {c} : command'[d] = command[d]
  BY <1>1, CallerStep
<1>3. disturbed' = disturbed \cup (k.targets \cap VM!Contended(c)) \cup old
  BY DEF VM!Overlaps
<1>4. VMTypes'
  BY <1>1, <1>2, <1>3, CallFields DEF VMTypes
<1>5. Offline'
  BY <1>1, <1>2 DEF Offline
<1>6. RecordsTrue'
  <2>1. AnswersStay(answers, answers')
    BY DEF AnswersStay
  <2> QED BY <1>1, <1>2, <2>1, RecordsStay
<1>7. SerialInv'
  <2>1. SUFFICES ASSUME NEW s \in Sessions \ disturbed'
                 PROVE  Serial(s, command', registry'[s], answers'[s])
    BY DEF SerialInv
  <2>2. Serial(s, command, registry[s], answers[s])
    BY <1>1, <1>3, <2>1 DEF SerialInv
  <2>3. s \in k.targets => \A d \in Callers \ {c} : s \notin command[d].targets
    BY <1>3, <2>1 DEF VM!Contended
  <2>4. AtLeast(registry[s], answers[s]) /\ ReadsAtLeast(s, k, answers[s])
    BY <1>3, <2>1, <2>2 DEF Serial
  <2> QED BY <1>1, <2>2, <2>3, <2>4, SerialStays
<1> QED BY <1>4, <1>5, <1>6, <1>7 DEF VMInv

\* A command that begins and reads no old record.
LEMMA FreshKeeps ==
  ASSUME VMConstants, VMInv, NEW c \in Callers, NEW k \in VM!Call, CallerGoes(c, k),
         VM!Overlaps(c, k.targets, {}),
         UNCHANGED <<provider, registry, versions, answers>>,
         vm' \in [VMs -> VM!ProviderStates \cup {"none"}], GoesOn(vm, vm'),
         provider \/ k.step = "put", provider => CommandTrue(vm', answers, k),
         \A s \in Sessions : ReadsAtLeast(s, k, answers[s])
  PROVE  VMInv'
<1>1. PICK old \in SUBSET Sessions : old = {}
  OBVIOUS
<1>2. VM!Overlaps(c, k.targets, old)
  BY <1>1
<1> QED BY <1>1, <1>2, BeginKeeps

\* A command goes on with its sessions, or some of them.
LEMMA GoOnKeeps ==
  ASSUME VMConstants, VMInv, NEW c \in Callers, NEW k \in VM!Call, CallerGoes(c, k),
         k.targets \subseteq command[c].targets,
         UNCHANGED <<provider, answers, disturbed>>,
         vm' \in [VMs -> VM!ProviderStates \cup {"none"}], GoesOn(vm, vm'),
         registry' \in [Sessions -> VM!SessionRecord],
         versions' \in [Sessions -> SUBSET VM!SessionRecord],
         \A s \in Sessions :
             /\ registry'[s] = registry[s] \/ registry'[s] = answers[s]
             /\ registry'[s] \in versions'[s]
             /\ \A r \in versions'[s] : r \in versions[s] \/ r = answers[s],
         provider \/ k.step = "idle", provider => CommandTrue(vm', answers, k),
         \A s \in k.targets :
             ReadsAtLeast(s, command[c], answers[s]) => ReadsAtLeast(s, k, answers[s])
  PROVE  VMInv'
<1>1. VMTypes /\ Offline /\ RecordsTrue /\ SerialInv
  BY DEF VMInv
<1>2. /\ command' \in [Callers -> VM!Call] /\ command'[c] = k
      /\ \A d \in Callers \ {c} : command'[d] = command[d]
  BY <1>1, CallerStep
<1>4. VMTypes'
  BY <1>1, <1>2 DEF VMTypes
<1>5. Offline'
  BY <1>1, <1>2 DEF Offline
<1>6. RecordsTrue'
  <2>1. AnswersStay(answers, answers')
    BY DEF AnswersStay
  <2>2. ASSUME NEW s \in Sessions, provider PROVE Good(vm', answers[s])
    BY <1>1, <2>2, GoodStays DEF RecordsTrue
  <2> QED BY <1>1, <1>2, <2>1, <2>2, RecordsStay
<1>7. SerialInv'
  <2>1. SUFFICES ASSUME NEW s \in Sessions \ disturbed
                 PROVE  Serial(s, command', registry'[s], answers'[s])
    BY DEF SerialInv
  <2>2. Serial(s, command, registry[s], answers[s])
    BY <1>1, <2>1 DEF SerialInv
  <2>3. s \in k.targets => \A d \in Callers \ {c} : s \notin command[d].targets
    BY <2>2 DEF Serial, OneWorks
  <2>4. ReadsAtLeast(s, k, answers[s])
    BY <2>2 DEF Serial, ReadsAtLeast
  <2>5. AtLeast(registry'[s], answers[s])
    <3>1. answers[s] \in VM!SessionRecord
      BY <1>1 DEF VMTypes
    <3> QED BY <2>2, <3>1, AtLeastItself DEF Serial
  <2> QED BY <1>1, <2>2, <2>3, <2>4, <2>5, SerialStays
<1> QED BY <1>4, <1>5, <1>6, <1>7 DEF VMInv
\* A command goes on and leaves the records as they are.
LEMMA KeepsOn ==
  ASSUME VMConstants, VMInv, NEW c \in Callers, NEW k \in VM!Call, CallerGoes(c, k),
         k.targets \subseteq command[c].targets,
         UNCHANGED <<provider, registry, versions, answers, disturbed>>,
         vm' \in [VMs -> VM!ProviderStates \cup {"none"}], GoesOn(vm, vm'),
         provider \/ k.step = "idle", provider => CommandTrue(vm', answers, k),
         \A s \in k.targets :
             ReadsAtLeast(s, command[c], answers[s]) => ReadsAtLeast(s, k, answers[s])
  PROVE  VMInv'
<1>1. /\ registry' \in [Sessions -> VM!SessionRecord]
      /\ versions' \in [Sessions -> SUBSET VM!SessionRecord]
      /\ \A s \in Sessions :
            /\ registry'[s] = registry[s] \/ registry'[s] = answers[s]
            /\ registry'[s] \in versions'[s]
            /\ \A r \in versions'[s] : r \in versions[s] \/ r = answers[s]
  BY DEF VMInv, VMTypes
<1>2. UNCHANGED <<provider, answers, disturbed>>
  OBVIOUS
<1> QED BY <1>1, <1>2, GoOnKeeps

\* What a command keeps of a record that it read.
LEMMA KeptIs ==
  ASSUME VMConstants, NEW x, NEW r \in VM!SessionRecord
  PROVE  /\ VM!Kept(x, r) \in VM!SessionRecord
         /\ VM!Kept(x, r).vm = r.vm /\ VM!Kept(x, r).tokens = r.tokens
         /\ VM!Kept(x, r).generation = r.generation
         /\ x = "token" => VM!Kept(x, r) = r
         /\ x # "token" => VM!Kept(x, r).state = "requested"
                           /\ VM!Kept(x, r).desired = "requested"
<1>1. CASE x = "token"
  BY <1>1 DEF VM!Kept
<1>2. CASE x # "token"
  <2>1. VM!Kept(x, r) = [r EXCEPT !.state = "requested", !.desired = "requested"]
    BY <1>2, NoRecordIs DEF VM!Kept
  <2>2. "requested" \in VM!States
    BY StatesAre
  <2> QED BY <1>2, <2>1, <2>2 DEF VM!SessionRecord
<1> QED BY <1>1, <1>2

LEMMA KeptGood ==
  ASSUME VMConstants, NEW x, NEW r \in VM!SessionRecord, NEW V, Good(V, r), VM!Exists(r)
  PROVE  Named(V, VM!Kept(x, r)) /\ RecordTrue(V, VM!Kept(x, r))
BY KeptIs DEF Good, Named, RecordTrue, VM!IsTerminalState

LEMMA StepAfterReadIs ==
  ASSUME NEW x \in VM!Commands
  PROVE  /\ VM!StepAfterRead(x) \in CallSteps
         /\ x = "terminate" => VM!StepAfterRead(x) = "operate"
         /\ VM!StepAfterRead(x) = "put" => x \in VM!Orders
         /\ x \in VM!Orders => VM!StepAfterRead(x) = "put"
         /\ VM!StepAfterRead(x) = "issue" => x = "token"
         /\ VM!StepAfterRead(x) # "hook"
BY DEF VM!StepAfterRead, VM!Commands, VM!Changes, VM!Orders, CallSteps

LEMMA HasReadIs ==
  ASSUME VMConstants, NEW c \in Callers, NEW x \in VM!Commands, NEW s \in Sessions,
         NEW r \in VM!SessionRecord, VM!HasRead(c, x, s, r)
  PROVE  \E k \in VM!Call :
            /\ CallerGoes(c, k)
            /\ k.command = x /\ k.step = VM!StepAfterRead(x) /\ k.targets = {s}
            /\ k.copies[s] = VM!Kept(x, r)
<1> DEFINE old == VM!Idle.seen[s]
           copy == VM!Kept(x, r)
           at == VM!StepAfterRead(x)
           mode == IF x \in VM!Orders THEN VM!OrderedState(x) ELSE old
           k == BeginsAs(x, at, {s}, s, copy, mode)
<1>1. CallerGoes(c, k)
  BY DEF VM!HasRead, CallerGoes, BeginsAs
<1>2. copy \in VM!SessionRecord /\ at \in CallSteps
  BY KeptIs, StepAfterReadIs
<1>3. mode \in VM!States
  BY StatesAre, IdleIs, CallFields DEF VM!OrderedState
<1> HIDE DEF copy, at, mode
<1>4. k \in VM!Call /\ k.command = x /\ k.step = at /\ k.targets = {s} /\ k.copies[s] = copy
  BY <1>2, <1>3, IdleBecomes
<1> QED BY <1>1, <1>4 DEF copy, at

\* What was read is right, and no less than what was answered.
LEMMA ReadTrue ==
  ASSUME VMConstants, NEW V, NEW Q, NEW x \in VM!Commands, NEW s \in Sessions,
         NEW r \in VM!SessionRecord, NEW k \in VM!Call,
         k.command = x, k.step = VM!StepAfterRead(x), k.targets = {s},
         k.copies[s] = VM!Kept(x, r), Good(V, r), VM!Exists(r), x \notin VM!Orders
  PROVE  CommandTrue(V, Q, k)
<1>1. /\ k.step \notin {"put", "hook"} /\ (k.step = "observe" => k.command # "terminate")
      /\ k.step = "issue" => k.command = "token"
  BY StepAfterReadIs
<1>2. CopiesTrue(V, k)
  BY KeptGood DEF CopiesTrue
<1> QED BY <1>1, <1>2 DEF CommandTrue, HooksTrue, TerminatesTrue, SeenTrue

LEMMA ReadAtLeast ==
  ASSUME VMConstants, NEW x, NEW s, NEW r \in VM!SessionRecord, NEW q, NEW k,
         k.copies[s] = VM!Kept(x, r), AtLeast(r, q)
  PROVE  ReadsAtLeast(s, k, q)
BY KeptIs DEF ReadsAtLeast, AtLeast

LEMMA RunKeeps ==
  ASSUME VMConstants, VMInv, NEW c \in Callers, NEW s \in Sessions, NEW v \in VMs,
         VM!Run(c, s, v)
  PROVE  VMInv'
<1> DEFINE copy == [VM!NoRecord EXCEPT !.vm = v]
           seen == VM!MapProviderState[vm'[v]]
           k == BeginsAs("run", "put", {s}, s, copy, seen)
<1>1. /\ CallerGoes(c, k) /\ VM!Overlaps(c, {s}, {})
      /\ UNCHANGED <<provider, registry, versions, answers>>
  BY DEF VM!Run, CallerGoes, BeginsAs
<1>2. /\ vm' \in [VMs -> VM!ProviderStates \cup {"none"}] /\ vm'[v] \in VM!ProviderStates
      /\ vm'[v] # "none" /\ GoesOn(vm, vm') /\ provider
  BY ProviderStatesAre
     DEF VM!Run, VM!Begin, VM!Offered, VMInv, VMTypes, GoesOn, EndedIn, TerminalIn
<1>3. /\ copy \in VM!SessionRecord /\ copy.vm = v
      /\ copy.state = "requested" /\ copy.desired = "requested"
  BY NoRecordIs DEF VM!SessionRecord
<1>4. seen \in VM!States /\ (VM!IsTerminalState(seen) => TerminalIn(vm', v))
  BY <1>2, ProviderStatesAre DEF TerminalIn
<1> HIDE DEF copy, seen
<1>5. /\ k \in VM!Call /\ k.command = "run" /\ k.step = "put" /\ k.targets = {s}
      /\ k.copies[s] = copy /\ k.seen[s] = seen
  BY <1>3, <1>4, IdleBecomes DEF VM!Commands, CallSteps
<1> HIDE DEF k
<1>6. CommandTrue(vm', answers, k)
  BY <1>2, <1>3, <1>4, <1>5
     DEF CommandTrue, HooksTrue, CopiesTrue, TerminatesTrue, SeenTrue, Named, RecordTrue,
         VM!IsTerminalState
<1>7. \A t \in Sessions : ReadsAtLeast(t, k, answers[t])
  BY <1>5 DEF ReadsAtLeast, VM!Begins
<1> QED BY <1>1, <1>2, <1>5, <1>6, <1>7, FreshKeeps

LEMMA CreateKeeps ==
  ASSUME VMConstants, VMInv, NEW c \in Callers, NEW s \in Sessions, VM!Create(c, s)
  PROVE  VMInv'
<1> DEFINE k == BeginsOn("create", "put", {s})
<1>1. /\ CallerGoes(c, k) /\ VM!Overlaps(c, {s}, {})
      /\ UNCHANGED <<provider, registry, versions, answers, vm>> /\ ~provider
  BY DEF VM!Create, VM!Begin, VM!Offered, CallerGoes, BeginsOn
<1>2. k \in VM!Call /\ k.command = "create" /\ k.step = "put" /\ k.targets = {s}
  BY IdleBegins DEF VM!Commands, CallSteps
<1> HIDE DEF k
<1>3. vm' \in [VMs -> VM!ProviderStates \cup {"none"}] /\ GoesOn(vm, vm')
  BY <1>1 DEF VMInv, VMTypes, GoesOn
<1>4. \A t \in Sessions : ReadsAtLeast(t, k, answers[t])
  BY <1>2 DEF ReadsAtLeast, VM!Begins
<1> QED BY <1>1, <1>2, <1>3, <1>4, FreshKeeps

LEMMA GetKeeps ==
  ASSUME VMConstants, VMInv, NEW c \in Callers, NEW x \in VM!Commands, NEW s \in Sessions,
         VM!Get(c, x, s)
  PROVE  VMInv'
<1>1. PICK copy \in versions[s] :
         /\ VM!Exists(copy) /\ VM!HasRead(c, x, s, copy)
         /\ VM!Overlaps(c, {s}, IF copy = registry[s] THEN {} ELSE {s})
  BY DEF VM!Get
<1>2. /\ IF provider THEN x \notin VM!Orders ELSE x \in VM!Orders
      /\ UNCHANGED <<provider, registry, versions, answers, vm>>
  BY DEF VM!Get, VM!Begin, VM!Offered
<1>3. copy \in VM!SessionRecord
  BY DEF VMInv, VMTypes
<1>4. PICK k \in VM!Call :
         /\ CallerGoes(c, k)
         /\ k.command = x /\ k.step = VM!StepAfterRead(x) /\ k.targets = {s}
         /\ k.copies[s] = VM!Kept(x, copy)
  BY <1>1, <1>3, HasReadIs
<1>5. vm' \in [VMs -> VM!ProviderStates \cup {"none"}] /\ GoesOn(vm, vm')
  BY <1>2 DEF VMInv, VMTypes, GoesOn
<1>6. provider \/ k.step = "put"
  BY <1>2, <1>4, StepAfterReadIs
<1>7. provider => CommandTrue(vm', answers, k)
  <2>1. SUFFICES ASSUME provider PROVE CommandTrue(vm', answers, k)
    OBVIOUS
  <2>2. Good(vm', copy)
    BY <1>2, <2>1 DEF VMInv, RecordsTrue
  <2> QED BY <1>1, <1>2, <1>3, <1>4, <2>1, <2>2, ReadTrue
<1>8. PICK old \in SUBSET Sessions : old = IF copy = registry[s] THEN {} ELSE {s}
  OBVIOUS
<1>9. ASSUME NEW t \in Sessions \ old, AtLeast(registry[t], answers[t])
      PROVE  ReadsAtLeast(t, k, answers[t])
  <2>1. CASE t = s
    <3>1. copy = registry[s]
      BY <1>8, <1>9, <2>1
    <3>2. AtLeast(copy, answers[s])
      BY <1>9, <2>1, <3>1
    <3>3. ReadsAtLeast(s, k, answers[s])
      BY <1>3, <1>4, <3>2, ReadAtLeast
    <3> QED BY <2>1, <3>3
  <2>2. CASE t # s
    BY <1>4, <2>2 DEF ReadsAtLeast
  <2> QED BY <2>1, <2>2
<1>10. VM!Overlaps(c, k.targets, old)
  BY <1>1, <1>4, <1>8
<1> QED BY <1>2, <1>4, <1>5, <1>6, <1>7, <1>9, <1>10, BeginKeeps

LEMMA GetStaleKeeps ==
  ASSUME VMConstants, VMInv, NEW c \in Callers, NEW x \in VM!Commands, NEW s \in Sessions,
         VM!GetStale(c, x, s)
  PROVE  VMInv'
<1> DEFINE k == BeginsOn(x, "hook", {s})
<1>1. /\ CallerGoes(c, k) /\ VM!Overlaps(c, {s}, {}) /\ provider /\ VM!Exists(answers[s])
      /\ UNCHANGED <<provider, registry, versions, answers, vm>>
  BY DEF VM!GetStale, CallerGoes, BeginsOn
<1>2. k \in VM!Call /\ k.command = x /\ k.step = "hook" /\ k.targets = {s}
  BY IdleBegins DEF CallSteps
<1>3. x \notin VM!Orders
  BY DEF VM!GetStale, VM!Orders, VM!Changes
<1> HIDE DEF k
<1>4. vm' \in [VMs -> VM!ProviderStates \cup {"none"}] /\ GoesOn(vm, vm')
  BY <1>1 DEF VMInv, VMTypes, GoesOn
<1>5. CommandTrue(vm', answers, k)
  BY <1>1, <1>2, <1>3
     DEF CommandTrue, HooksTrue, CopiesTrue, TerminatesTrue, SeenTrue, Reading
<1>6. \A t \in Sessions : ReadsAtLeast(t, k, answers[t])
  BY <1>2 DEF ReadsAtLeast, Reading
<1> QED BY <1>1, <1>2, <1>4, <1>5, <1>6, FreshKeeps

\* What a list of the records has found, keeps of them, and has read as it was.
Listed(read) == {s \in Sessions : VM!Exists(read[s])}
ListKept(read) == [s \in Sessions |-> VM!Kept("list", read[s])]
ListedOld(read) == {s \in Listed(read) : read[s] # registry[s]}

LEMMA ReadAllKeeps ==
  ASSUME VMConstants, VMInv, NEW c \in Callers, VM!ReadAll(c)
  PROVE  VMInv'
<1>1. PICK read \in [Sessions -> UNION {versions[s] : s \in Sessions}] :
         /\ \A s \in Sessions : read[s] \in versions[s]
         /\ command' = [command EXCEPT ![c] =
               [VM!Idle EXCEPT !.command = "list", !.step = "observe",
                               !.targets = Listed(read), !.copies = ListKept(read)]]
         /\ VM!Overlaps(c, Listed(read), ListedOld(read))
  BY Zenon DEF VM!ReadAll, Listed, ListKept, ListedOld
<1>2. /\ \A s \in Sessions : read[s] \in VM!SessionRecord
      /\ provider /\ UNCHANGED <<provider, registry, versions, answers, vm>>
  <2>1. /\ \A s \in Sessions : versions[s] \in SUBSET VM!SessionRecord
        /\ provider \in BOOLEAN
    BY DEF VMInv, VMTypes
  <2> QED BY <1>1, <2>1 DEF VM!ReadAll, VM!Begin, VM!Offered
<1> DEFINE all == Listed(read)
           copies == ListKept(read)
           old == ListedOld(read)
           k == BeginsWith("list", "observe", all, copies)
<1>3. copies \in [Sessions -> VM!SessionRecord]
  BY <1>2, KeptIs DEF ListKept
<1>4. /\ all \subseteq Sessions
      /\ \A s \in all : VM!Exists(read[s])
      /\ \A s \in Sessions : copies[s] = VM!Kept("list", read[s])
      /\ old \in SUBSET Sessions
      /\ \A s \in Sessions \ old : s \in all => read[s] = registry[s]
      /\ VM!Overlaps(c, all, old)
  BY <1>1, <1>2 DEF Listed, ListKept, ListedOld
<1>5. CallerGoes(c, k)
  BY <1>1 DEF CallerGoes, BeginsWith
<1> HIDE DEF all, copies, old
<1>6. /\ k \in VM!Call /\ k.command = "list" /\ k.step = "observe" /\ k.targets = all
      /\ k.copies = copies
  BY <1>3, <1>4, IdleReads DEF VM!Commands, CallSteps
<1> HIDE DEF k
<1>7. vm' \in [VMs -> VM!ProviderStates \cup {"none"}] /\ GoesOn(vm, vm')
  BY <1>2 DEF VMInv, VMTypes, GoesOn
<1>8. CopiesTrue(vm', k)
  <2>1. ASSUME NEW s \in all PROVE Named(vm', copies[s]) /\ RecordTrue(vm', copies[s])
    <3>1. Good(vm', read[s])
      BY <1>1, <1>2, <1>4, <2>1 DEF VMInv, RecordsTrue
    <3>2. read[s] \in VM!SessionRecord /\ VM!Exists(read[s])
          /\ copies[s] = VM!Kept("list", read[s])
      BY <1>2, <1>4, <2>1
    <3> QED BY <3>1, <3>2, KeptGood
  <2> QED BY <1>6, <2>1 DEF CopiesTrue
<1>9. CommandTrue(vm', answers, k)
  BY <1>6, <1>8 DEF CommandTrue, HooksTrue, TerminatesTrue, SeenTrue
<1>10. ASSUME NEW t \in Sessions \ old, AtLeast(registry[t], answers[t])
      PROVE  ReadsAtLeast(t, k, answers[t])
  <2>1. CASE t \in all
    <3>1. AtLeast(read[t], answers[t])
      BY <1>4, <1>10, <2>1
    <3> QED BY <1>2, <1>4, <1>6, <3>1, ReadAtLeast
  <2>2. CASE t \notin all
    BY <1>6, <2>2 DEF ReadsAtLeast
  <2> QED BY <2>1, <2>2
<1>11. VM!Overlaps(c, k.targets, old)
  BY <1>4, <1>6
<1> QED BY <1>2, <1>4, <1>5, <1>6, <1>7, <1>9, <1>10, <1>11, BeginKeeps

LEMMA ReconstructKeeps ==
  ASSUME VMConstants, VMInv, NEW c \in Callers, VM!Reconstruct(c)
  PROVE  VMInv'
<1> DEFINE x == command[c].command
<1>1. PICK s \in command[c].targets :
         /\ command[c].step = "hook" /\ VM!Store(s, answers[s])
         /\ VM!HasRead(c, x, s, answers[s])
         /\ UNCHANGED <<provider, vm, answers, disturbed>>
  BY DEF VM!Reconstruct
<1>2. command[c] \in VM!Call /\ provider /\ CommandTrue(vm, answers, command[c])
  BY <1>1 DEF VMInv, VMTypes, Offline, RecordsTrue
<1>3. s \in Sessions /\ x \in VM!Commands /\ x \notin VM!Orders /\ VM!Exists(answers[s])
  BY <1>1, <1>2, CallFields DEF CommandTrue, HooksTrue
<1>4. answers[s] \in VM!SessionRecord /\ Good(vm, answers[s])
  BY <1>2, <1>3 DEF VMInv, VMTypes, RecordsTrue
<1> HIDE DEF x
<1>5. PICK k \in VM!Call :
         /\ CallerGoes(c, k)
         /\ k.command = x /\ k.step = VM!StepAfterRead(x) /\ k.targets = {s}
         /\ k.copies[s] = VM!Kept(x, answers[s])
  BY <1>1, <1>3, <1>4, HasReadIs
<1>6. vm' \in [VMs -> VM!ProviderStates \cup {"none"}] /\ GoesOn(vm, vm')
  BY <1>1 DEF VMInv, VMTypes, GoesOn
<1>7. /\ registry' \in [Sessions -> VM!SessionRecord]
      /\ versions' \in [Sessions -> SUBSET VM!SessionRecord]
      /\ \A t \in Sessions :
            /\ registry'[t] = registry[t] \/ registry'[t] = answers[t]
            /\ registry'[t] \in versions'[t]
            /\ \A r \in versions'[t] : r \in versions[t] \/ r = answers[t]
  BY <1>1, <1>3, <1>4, StoreIs DEF VMInv
<1>8. CommandTrue(vm', answers, k)
  BY <1>1, <1>3, <1>4, <1>5, ReadTrue
<1>9. \A t \in k.targets : ReadsAtLeast(t, k, answers[t])
  BY <1>4, <1>5, AtLeastItself, ReadAtLeast
<1> QED BY <1>1, <1>2, <1>5, <1>6, <1>7, <1>8, <1>9, GoOnKeeps

\* A command that goes on.
LEMMA WithStepIs ==
  ASSUME NEW k \in VM!Call, NEW y \in CallSteps
  PROVE  /\ WithStep(k, y) \in VM!Call
         /\ WithStep(k, y).command = k.command /\ WithStep(k, y).step = y
         /\ WithStep(k, y).targets = k.targets /\ WithStep(k, y).copies = k.copies
         /\ WithStep(k, y).seen = k.seen
BY DEF WithStep, VM!Call, CallSteps

LEMMA WithTargetsIs ==
  ASSUME NEW k \in VM!Call, NEW T \in SUBSET Sessions
  PROVE  /\ WithTargets(k, T) \in VM!Call
         /\ WithTargets(k, T).command = k.command /\ WithTargets(k, T).step = k.step
         /\ WithTargets(k, T).targets = T /\ WithTargets(k, T).copies = k.copies
         /\ WithTargets(k, T).seen = k.seen
BY DEF WithTargets, VM!Call

AllSeen(k, B) == [k EXCEPT !.seen = B]
LEMMA AllSeenIs ==
  ASSUME NEW k \in VM!Call, NEW B \in [Sessions -> VM!States]
  PROVE  /\ AllSeen(k, B) \in VM!Call
         /\ AllSeen(k, B).command = k.command /\ AllSeen(k, B).step = k.step
         /\ AllSeen(k, B).targets = k.targets /\ AllSeen(k, B).copies = k.copies
         /\ AllSeen(k, B).seen = B
BY DEF AllSeen, VM!Call
Observed(k, T, B) == [k EXCEPT !.step = "put", !.targets = T, !.seen = B]
LEMMA ObservedIs ==
  ASSUME NEW k, NEW T, NEW B
  PROVE  Observed(k, T, B) = AllSeen(WithTargets(WithStep(k, "put"), T), B)
BY DEF Observed, WithStep, WithTargets, AllSeen

LEMMA OperateKeeps ==
  ASSUME VMConstants, VMInv, NEW c \in Callers, VM!Operate(c)
  PROVE  VMInv'
<1> DEFINE old == command[c]
           k == WithStep(old, "observe")
<1>1. PICK s \in old.targets :
         /\ old.step = "operate"
         /\ LET mode == VM!Operated(vm[old.copies[s].vm], old.command) IN
              mode # "refused" /\ vm' = [vm EXCEPT ![old.copies[s].vm] = mode]
  BY DEF VM!Operate, VM!TheVM
<1>2. CallerGoes(c, k) /\ UNCHANGED <<provider, registry, versions, answers, disturbed>>
  BY DEF VM!Operate, CallerGoes, WithStep
<1>3. /\ old \in VM!Call /\ provider /\ CommandTrue(vm, answers, old)
      /\ vm \in [VMs -> VM!ProviderStates \cup {"none"}]
  BY <1>1 DEF VMInv, VMTypes, Offline, RecordsTrue
<1> HIDE DEF old
<1>4. /\ k \in VM!Call /\ k.command = old.command /\ k.step = "observe"
      /\ k.targets = old.targets /\ k.copies = old.copies
  BY <1>3, WithStepIs DEF CallSteps
<1> HIDE DEF k
<1> DEFINE w == old.copies[s].vm
           mode == VM!Operated(vm[w], old.command)
<1>5. w \in VMs /\ vm[w] \in VM!ProviderStates /\ \A t \in old.targets : t = s
  BY <1>1, <1>3 DEF CommandTrue, CopiesTrue, Named, Reading
<1>6. mode # "refused" /\ vm' = [vm EXCEPT ![w] = mode]
  BY <1>1
<1> HIDE DEF w
<1>7. /\ mode \in VM!ProviderStates
      /\ old.command = "terminate" => mode \in {"terminating", "terminated"}
      /\ vm[w] \in {"terminating", "terminated"} => mode = vm[w]
      /\ vm[w] # "failed"
  BY <1>5, <1>6, ProviderStatesAre DEF VM!Operated
<1> HIDE DEF mode
<1>8. "none" \notin VM!ProviderStates
  BY ProviderStatesAre
<1>9. vm' \in [VMs -> VM!ProviderStates \cup {"none"}] /\ GoesOn(vm, vm') /\ vm'[w] = mode
  BY <1>3, <1>5, <1>6, <1>7, <1>8 DEF GoesOn, EndedIn, TerminalIn
<1>10. CopiesTrue(vm', k)
  BY <1>1, <1>3, <1>4, <1>9, GoodStays DEF CommandTrue, CopiesTrue, Reading
<1>11. TerminatesTrue(vm', k)
  BY <1>4, <1>5, <1>7, <1>9 DEF TerminatesTrue, EndedIn, w
<1>12. CommandTrue(vm', answers, k)
  BY <1>4, <1>10, <1>11 DEF CommandTrue, HooksTrue, SeenTrue
<1>13. \A t \in k.targets : ReadsAtLeast(t, old, answers[t]) => ReadsAtLeast(t, k, answers[t])
  BY <1>1, <1>4 DEF ReadsAtLeast, Reading
<1> QED BY <1>2, <1>3, <1>4, <1>9, <1>12, <1>13, KeepsOn DEF old

LEMMA FailKeeps ==
  ASSUME VMConstants, VMInv, NEW c \in Callers, VM!Fail(c)
  PROVE  VMInv'
<1> DEFINE k == VM!Idle
<1>1. CallerGoes(c, k) /\ UNCHANGED <<provider, vm, registry, versions, answers, disturbed>>
  BY DEF VM!Fail, CallerGoes
<1>2. k \in VM!Call /\ k.step = "idle" /\ k.targets = {}
  BY IdleIs
<1> HIDE DEF k
<1>3. vm' \in [VMs -> VM!ProviderStates \cup {"none"}] /\ GoesOn(vm, vm')
  BY <1>1 DEF VMInv, VMTypes, GoesOn
<1>4. CommandTrue(vm', answers, k)
  BY <1>2 DEF CommandTrue, HooksTrue, CopiesTrue, TerminatesTrue, SeenTrue
<1> QED BY <1>1, <1>2, <1>3, <1>4, KeepsOn

LEMMA ObserveKeeps ==
  ASSUME VMConstants, VMInv, NEW c \in Callers, NEW found \in SUBSET Sessions,
         VM!Observe(c, found)
  PROVE  VMInv'
<1> DEFINE old == command[c]
           seen == [s \in Sessions |-> IF s \in found
                                         THEN VM!MapProviderState[vm[old.copies[s].vm]]
                                         ELSE old.seen[s]]
           k == IF found = {} THEN VM!Idle
                ELSE AllSeen(WithTargets(WithStep(old, "put"), found), seen)
<1>1. old.step = "observe" /\ found \subseteq old.targets
  BY DEF VM!Observe
<1>2. UNCHANGED <<provider, vm, registry, versions, answers, disturbed>>
  BY DEF VM!Observe
<1>3. CallerGoes(c, k)
  <2>1. CallerGoes(c, IF found = {} THEN VM!Idle ELSE Observed(old, found, seen))
    BY DEF VM!Observe, VM!TheVM, VM!Seen, CallerGoes, Observed
  <2> QED BY <2>1, ObservedIs
<1>4. /\ old \in VM!Call /\ provider /\ CommandTrue(vm, answers, old)
      /\ vm \in [VMs -> VM!ProviderStates \cup {"none"}]
  BY <1>1 DEF VMInv, VMTypes, Offline, RecordsTrue
<1> HIDE DEF old
<1>5. \A s \in found : /\ old.copies[s].vm \in VMs
                       /\ vm[old.copies[s].vm] \in VM!ProviderStates
  BY <1>1, <1>4 DEF CommandTrue, CopiesTrue, Named, Reading
<1>6. seen \in [Sessions -> VM!States]
  BY <1>4, <1>5, ProviderStatesAre, CallFields
<1>7. \A s \in found : VM!IsTerminalState(seen[s]) => TerminalIn(vm, old.copies[s].vm)
  BY <1>5, ProviderStatesAre DEF TerminalIn
<1> HIDE DEF seen
<1>8. CASE found = {}
  <2>1. k \in VM!Call /\ k.step = "idle" /\ k.targets = {}
    BY <1>8, IdleIs
  <2> HIDE DEF k
  <2>2. GoesOn(vm, vm')
    BY <1>2 DEF GoesOn
  <2>3. CommandTrue(vm', answers, k)
    BY <2>1 DEF CommandTrue, HooksTrue, CopiesTrue, TerminatesTrue, SeenTrue
  <2> QED BY <1>2, <1>3, <1>4, <2>1, <2>2, <2>3, KeepsOn
<1>9. CASE found # {}
  <2>1. k = AllSeen(WithTargets(WithStep(old, "put"), found), seen)
    BY <1>9
  <2>2. /\ k \in VM!Call /\ k.command = old.command /\ k.step = "put"
        /\ k.targets = found /\ k.copies = old.copies /\ k.seen = seen
    BY <1>4, <1>6, <2>1, WithStepIs, WithTargetsIs, AllSeenIs DEF CallSteps
  <2> HIDE DEF k
  <2>3. GoesOn(vm, vm')
    BY <1>2 DEF GoesOn
  <2>4. CopiesTrue(vm', k) /\ TerminatesTrue(vm', k)
    BY <1>1, <1>2, <1>4, <2>2 DEF CommandTrue, CopiesTrue, TerminatesTrue, Reading
  <2>5. SeenTrue(vm', k)
    BY <1>2, <1>7, <2>2 DEF SeenTrue
  <2>6. CommandTrue(vm', answers, k)
    BY <2>2, <2>4, <2>5 DEF CommandTrue, HooksTrue
  <2>7. \A t \in k.targets :
            ReadsAtLeast(t, old, answers[t]) => ReadsAtLeast(t, k, answers[t])
    BY <1>1, <2>2 DEF ReadsAtLeast, Reading
  <2> QED BY <1>1, <1>2, <1>3, <1>4, <2>2, <2>3, <2>6, <2>7, KeepsOn DEF old
<1> QED BY <1>8, <1>9

LEMMA IssueTokenKeeps ==
  ASSUME VMConstants, VMInv, NEW c \in Callers, VM!IssueToken(c)
  PROVE  VMInv'
<1> DEFINE old == command[c]
<1>1. PICK s \in old.targets :
         /\ old.step = "issue"
         /\ command' = [command EXCEPT ![c].step = "put", ![c].seen[s] = old.copies[s].state]
         /\ UNCHANGED <<provider, vm, registry, versions, answers, disturbed>>
  BY DEF VM!IssueToken
<1> DEFINE seen == [old.seen EXCEPT ![s] = old.copies[s].state]
           k == AllSeen(WithStep(old, "put"), seen)
<1>2. CallerGoes(c, k)
  BY <1>1 DEF CallerGoes, WithStep, AllSeen
<1>3. /\ old \in VM!Call /\ provider /\ CommandTrue(vm, answers, old)
      /\ vm \in [VMs -> VM!ProviderStates \cup {"none"}]
  BY <1>1 DEF VMInv, VMTypes, Offline, RecordsTrue
<1> HIDE DEF old
<1>4. s \in Sessions /\ old.copies[s] \in VM!SessionRecord /\ old.copies[s].state \in VM!States
  BY <1>1, <1>3, CallFields, RecordFields
<1>5. /\ seen \in [Sessions -> VM!States] /\ seen[s] = old.copies[s].state
      /\ \A t \in old.targets : t = s
  BY <1>1, <1>3, <1>4, CallFields DEF CommandTrue
<1> HIDE DEF seen
<1>6. /\ k \in VM!Call /\ k.command = old.command /\ k.step = "put"
      /\ k.targets = old.targets /\ k.copies = old.copies /\ k.seen = seen
  BY <1>3, <1>5, WithStepIs, AllSeenIs DEF CallSteps
<1> HIDE DEF k
<1>7. GoesOn(vm, vm')
  BY <1>1 DEF GoesOn
<1>8. CopiesTrue(vm', k)
  BY <1>1, <1>3, <1>6 DEF CommandTrue, CopiesTrue, Reading
<1>9. RecordTrue(vm, old.copies[s])
  BY <1>1, <1>3 DEF CommandTrue, CopiesTrue, Reading
<1>10. SeenTrue(vm', k)
  BY <1>1, <1>5, <1>6, <1>9 DEF SeenTrue, RecordTrue
<1>11. CommandTrue(vm', answers, k)
  BY <1>1, <1>3, <1>6, <1>8, <1>10 DEF CommandTrue, HooksTrue, TerminatesTrue
<1>12. \A t \in k.targets : ReadsAtLeast(t, old, answers[t]) => ReadsAtLeast(t, k, answers[t])
  BY <1>1, <1>6 DEF ReadsAtLeast, Reading
<1> QED BY <1>1, <1>2, <1>3, <1>6, <1>7, <1>11, <1>12, KeepsOn DEF old
LEMMA DesiredIs ==
  ASSUME NEW x, NEW mode \in VM!States
  PROVE  /\ VM!DesiredStateForCommand(x, mode) \in VM!States
         /\ VM!DesiredStateForCommand(x, mode) = "terminated"
              => x = "terminate" \/ mode = "terminated"
BY StatesAre DEF VM!DesiredStateForCommand

\* The record that a command puts goes on from the copy it read.
LEMMA RecordIs ==
  ASSUME VMConstants, NEW x, NEW copy \in VM!SessionRecord, NEW mode \in VM!States
  PROVE  LET r == VM!Record(x, copy, mode) IN
           /\ r \in VM!SessionRecord /\ VM!Exists(r)
           /\ r.vm = copy.vm /\ r.state = mode
           /\ r.tokens >= copy.tokens /\ r.generation >= copy.generation
           /\ r.desired = "terminated" =>
                copy.desired = "terminated" \/ x = "terminate" \/ mode = "terminated"
<1> DEFINE r == VM!Record(x, copy, mode)
           desired == IF x = "token" THEN copy.desired ELSE VM!DesiredStateForCommand(x, mode)
           tokens == IF x = "token" /\ copy.tokens < MaxCommands THEN copy.tokens + 1
                     ELSE copy.tokens
           generation == VM!NextGeneration(copy)
<1>1. /\ copy.vm \in VMs \cup {None} /\ copy.desired \in VM!States
      /\ copy.generation \in Nat /\ copy.generation <= MaxGeneration
      /\ copy.tokens \in Nat /\ copy.tokens <= MaxCommands
  BY RecordFields
<1>2. desired \in VM!States
  BY <1>1, DesiredIs
<1>3. desired = "terminated" =>
        copy.desired = "terminated" \/ x = "terminate" \/ mode = "terminated"
  BY DesiredIs
<1>4. tokens \in 0 .. MaxCommands /\ tokens >= copy.tokens
  BY <1>1 DEF VMConstants
<1>5. /\ generation \in 0 .. MaxGeneration /\ generation >= copy.generation
      /\ generation > 0
  BY <1>1 DEF VMConstants, VM!NextGeneration
<1>6. r = [vm |-> copy.vm, state |-> mode, desired |-> desired, generation |-> generation,
           tokens |-> tokens]
  BY DEF VM!Record
<1> HIDE DEF r, desired, tokens, generation
<1>7. r \in VM!SessionRecord
  BY <1>1, <1>2, <1>4, <1>5, <1>6 DEF VM!SessionRecord
<1>8. /\ r.vm = copy.vm /\ r.state = mode /\ r.desired = desired
      /\ r.generation = generation /\ r.tokens = tokens
  BY <1>6
<1> QED BY <1>3, <1>4, <1>5, <1>7, <1>8 DEF VM!Exists, r

LEMMA PutKeeps ==
  ASSUME VMConstants, VMInv, NEW c \in Callers, NEW s \in Sessions, NEW ok \in BOOLEAN,
         VM!Put(c, s, ok)
  PROVE  VMInv'
<1> DEFINE old == command[c]
           copy == old.copies[s]
           r == VM!Record(old.command, copy, old.seen[s])
           k == IF old.targets = {s} THEN VM!Idle ELSE WithTargets(old, old.targets \ {s})
<1>1. /\ old.step = "put" /\ s \in old.targets
      /\ VM!Store(s, r)
      /\ answers' = IF ok THEN [answers EXCEPT ![s] = r] ELSE answers
      /\ UNCHANGED <<provider, vm>>
  BY DEF VM!Put
<1>2. CallerGoes(c, k)
  BY DEF VM!Put, CallerGoes, WithTargets
<1>3. disturbed' = IF VM!Begins(old.command) /\ s \notin VM!Contended(c) /\ ok
                     THEN disturbed \ {s}
                   ELSE IF VM!Begins(old.command) THEN disturbed \cup {s}
                   ELSE disturbed
  BY DEF VM!Put
<1>4. /\ VMTypes /\ Offline /\ RecordsTrue /\ SerialInv /\ old \in VM!Call
      /\ provider => CommandTrue(vm, answers, old)
  BY DEF VMInv, VMTypes, RecordsTrue
<1> HIDE DEF old
<1>5. copy \in VM!SessionRecord /\ old.seen[s] \in VM!States /\ old.targets \subseteq Sessions
  BY <1>4, CallFields
<1>6. /\ r \in VM!SessionRecord /\ VM!Exists(r)
      /\ r.vm = copy.vm /\ r.state = old.seen[s]
      /\ r.tokens >= copy.tokens /\ r.generation >= copy.generation
      /\ r.desired = "terminated" =>
           \/ copy.desired = "terminated" \/ old.command = "terminate"
           \/ old.seen[s] = "terminated"
  BY <1>5, RecordIs
<1> HIDE DEF r
<1>7. /\ k \in VM!Call /\ k.targets = old.targets \ {s} /\ k.step \in {"idle", "put"}
      /\ k.targets # {} => /\ k.step = "put" /\ k.command = old.command
                           /\ k.copies = old.copies /\ k.seen = old.seen
  <2>1. CASE old.targets = {s}
    BY <2>1, IdleIs
  <2>2. CASE old.targets # {s}
    BY <1>1, <1>4, <1>5, <2>2, WithTargetsIs
  <2> QED BY <2>1, <2>2
<1> HIDE DEF k
<1>8. /\ command' \in [Callers -> VM!Call] /\ command'[c] = k
      /\ \A d \in Callers \ {c} : command'[d] = command[d]
  BY <1>2, <1>4, <1>7, CallerStep
<1>9. /\ registry \in [Sessions -> VM!SessionRecord]
      /\ answers \in [Sessions -> VM!SessionRecord]
  BY <1>4 DEF VMTypes
<1>10. /\ registry' \in [Sessions -> VM!SessionRecord]
       /\ answers' \in [Sessions -> VM!SessionRecord]
       /\ registry'[s] = r /\ answers'[s] = IF ok THEN r ELSE answers[s]
       /\ \A t \in Sessions \ {s} : registry'[t] = registry[t] /\ answers'[t] = answers[t]
       /\ versions' \in [Sessions -> SUBSET VM!SessionRecord]
       /\ \A t \in Sessions : registry'[t] \in versions'[t]
       /\ versions'[s] = versions[s] \cup {r}
       /\ \A t \in Sessions \ {s} : versions'[t] = versions[t]
  <2>1. /\ answers' \in [Sessions -> VM!SessionRecord]
        /\ answers'[s] = IF ok THEN r ELSE answers[s]
        /\ \A t \in Sessions \ {s} : answers'[t] = answers[t]
    BY <1>1, <1>6, <1>9
  <2> QED BY <1>1, <1>4, <1>6, <2>1, StoreIs
<1>11. VMTypes'
  BY <1>1, <1>3, <1>4, <1>8, <1>10 DEF VMTypes
<1>12. Offline'
  BY <1>1, <1>4, <1>7, <1>8 DEF Offline
<1>13. RecordsTrue'
  <2>1. GoesOn(vm, vm')
    BY <1>1 DEF GoesOn
  <2>2. AnswersStay(answers, answers')
    BY <1>6, <1>10 DEF AnswersStay
  <2>3. ASSUME provider PROVE Good(vm', r)
    <3>1. Named(vm, copy) /\ RecordTrue(vm, copy)
      BY <1>1, <1>4, <2>3 DEF CommandTrue, CopiesTrue, Reading
    <3>2. /\ VM!IsTerminalState(old.seen[s]) => TerminalIn(vm, copy.vm)
          /\ old.command = "terminate" => EndedIn(vm, copy.vm)
      BY <1>1, <1>4, <2>3 DEF CommandTrue, SeenTrue, TerminatesTrue
    <3>3. r.desired = "terminated" => EndedIn(vm, copy.vm)
      BY <1>6, <3>1, <3>2 DEF RecordTrue, VM!IsTerminalState, EndedIn, TerminalIn
    <3> QED BY <1>1, <1>6, <3>1, <3>2, <3>3 DEF Good, Named, RecordTrue
  <2>4. ASSUME provider PROVE CommandTrue(vm', answers', k)
    <3>1. CommandTrue(vm, answers, old)
      BY <1>4, <2>4
    <3>2. CopiesTrue(vm', k)
      BY <1>1, <1>7, <3>1 DEF CommandTrue, CopiesTrue, Reading
    <3>3. TerminatesTrue(vm', k)
      BY <1>1, <1>7, <3>1 DEF CommandTrue, TerminatesTrue
    <3>4. SeenTrue(vm', k)
      BY <1>1, <1>7, <3>1 DEF CommandTrue, SeenTrue
    <3> QED BY <1>7, <3>2, <3>3, <3>4 DEF CommandTrue, HooksTrue
  <2>5. ASSUME NEW t \in Sessions, NEW q \in versions'[t]
        PROVE  q \in versions[t] \/ (provider => Good(vm', q))
    BY <1>10, <2>3, <2>5
  <2>6. ASSUME NEW t \in Sessions
        PROVE  answers'[t] = answers[t] \/ (provider => Good(vm', answers'[t]))
    BY <1>10, <2>3, <2>6
  <2>7. provider' = provider
    BY <1>1
  <2> QED BY <1>4, <1>8, <2>1, <2>2, <2>4, <2>5, <2>6, <2>7, RecordsStay
<1>14. SerialInv'
  <2>1. SUFFICES ASSUME NEW t \in Sessions \ disturbed'
                 PROVE  Serial(t, command', registry'[t], answers'[t])
    BY DEF SerialInv
  <2>2. CASE t # s
    <3>1. Serial(t, command, registry[t], answers[t])
      BY <1>3, <1>4, <2>1, <2>2 DEF SerialInv
    <3>2. t \in k.targets => \A d \in Callers \ {c} : t \notin command[d].targets
      BY <1>7, <3>1 DEF Serial, OneWorks, old
    <3>3. ReadsAtLeast(t, old, answers[t]) /\ AtLeast(registry[t], answers[t])
      BY <3>1 DEF Serial, old
    <3>4. ReadsAtLeast(t, k, answers[t])
      BY <1>1, <1>7, <3>3 DEF ReadsAtLeast, Reading
    <3> QED BY <1>2, <1>4, <1>7, <1>10, <2>1, <2>2, <3>1, <3>2, <3>3, <3>4, SerialStays
  <2>3. CASE t = s
    <3>1. AtLeast(r, r)
      BY <1>6, AtLeastItself
    <3>2. \A d \in Callers \ {c} : s \notin command[d].targets
      <4>1. CASE VM!Begins(old.command)
        BY <1>3, <2>1, <2>3, <4>1 DEF VM!Contended
      <4>2. CASE ~VM!Begins(old.command)
        <5>1. Serial(s, command, registry[s], answers[s])
          BY <1>3, <1>4, <2>1, <2>3, <4>2 DEF SerialInv
        <5> QED BY <1>1, <5>1 DEF Serial, OneWorks, old
      <4> QED BY <4>1, <4>2
    <3>3. AtLeast(r, answers'[s])
      <4>1. CASE ok
        BY <1>10, <3>1, <4>1
      <4>2. CASE ~ok
        <5>1. ~VM!Begins(old.command) /\ s \notin disturbed
          BY <1>3, <2>1, <2>3, <4>2
        <5>2. Serial(s, command, registry[s], answers[s])
          BY <1>4, <5>1 DEF SerialInv
        <5>3. AtLeast(copy, answers[s])
          BY <1>1, <5>1, <5>2 DEF Serial, ReadsAtLeast, Reading, old
        <5>4. answers[s] \in VM!SessionRecord
          BY <1>9
        <5>5. AtLeast(r, answers[s])
          BY <1>5, <1>6, <5>3, <5>4, RecordFields DEF AtLeast
        <5> QED BY <1>10, <4>2, <5>5
      <4> QED BY <4>1, <4>2
    <3> QED BY <1>2, <1>4, <1>7, <1>10, <2>3, <3>2, <3>3, SerialLeft
  <2> QED BY <2>2, <2>3
<1> QED BY <1>11, <1>12, <1>13, <1>14 DEF VMInv
LEMMA SettleKeeps ==
  ASSUME VMConstants, VMInv, NEW v \in VMs, VM!Settle(v) \/ VM!Lapse(v)
  PROVE  VMInv'
<1>1. VMTypes /\ Offline /\ RecordsTrue /\ SerialInv
  BY DEF VMInv
<1>2. UNCHANGED <<provider, registry, versions, command, answers, disturbed>>
  BY DEF VM!Settle, VM!Lapse
<1>3. /\ vm[v] \in {"pending", "suspending", "resuming", "terminating", "running", "suspended"}
      /\ \E q \in {"failed", "running", "suspended", "terminated", "suspending"} :
            /\ vm' = [vm EXCEPT ![v] = q]
            /\ vm[v] = "terminating" => q = "terminated"
  BY DEF VM!Settle, VM!Lapse, VM!Settling
<1>4. vm' \in [VMs -> VM!ProviderStates \cup {"none"}] /\ GoesOn(vm, vm')
  BY <1>1, <1>3, ProviderStatesAre DEF VMTypes, GoesOn, EndedIn, TerminalIn
<1>5. VMTypes' /\ Offline' /\ SerialInv'
  BY <1>1, <1>2, <1>4 DEF VMTypes, Offline, SerialInv
<1>6. AnswersStay(answers, answers')
  BY <1>2 DEF AnswersStay
<1>7. RecordsTrue'
  BY <1>1, <1>2, <1>4, <1>6, RecordsStay
<1> QED BY <1>5, <1>7 DEF VMInv

LEMMA DeleteKeeps ==
  ASSUME VMConstants, VMInv, NEW s \in Sessions, VM!Delete(s)
  PROVE  VMInv'
<1>1. VMTypes /\ Offline /\ RecordsTrue /\ SerialInv
  BY DEF VMInv
<1>2. /\ VM!Store(s, VM!NoRecord)
      /\ disturbed' = disturbed \cup {s}
      /\ UNCHANGED <<provider, vm, command, answers>>
  BY DEF VM!Delete
<1>3. /\ registry' \in [Sessions -> VM!SessionRecord] /\ registry'[s] = VM!NoRecord
      /\ \A t \in Sessions \ {s} : registry'[t] = registry[t]
      /\ versions' \in [Sessions -> SUBSET VM!SessionRecord]
      /\ \A t \in Sessions : registry'[t] \in versions'[t]
      /\ \A t \in Sessions : \A r \in versions'[t] :
            r \in versions[t] \/ r = VM!NoRecord
  BY <1>1, <1>2, NoRecordIs, StoreIs
<1>4. VMTypes' /\ Offline'
  BY <1>1, <1>2, <1>3 DEF VMTypes, Offline
<1>5. RecordsTrue'
  <2>1. GoesOn(vm, vm') /\ AnswersStay(answers, answers')
    BY <1>2 DEF GoesOn, AnswersStay
  <2>2. Good(vm', VM!NoRecord)
    BY NoRecordGood
  <2> QED BY <1>1, <1>2, <1>3, <2>1, <2>2, RecordsStay
<1>6. SerialInv'
  BY <1>1, <1>2, <1>3 DEF SerialInv
<1> QED BY <1>4, <1>5, <1>6 DEF VMInv

LEMMA VMInitInv ==
  ASSUME VMConstants, VM!Init
  PROVE  VMInv
<1>1. /\ \A s \in Sessions : registry[s] = VM!NoRecord /\ answers[s] = VM!NoRecord
                              /\ versions[s] = {VM!NoRecord}
      /\ \A c \in Callers : command[c] = VM!Idle
  BY DEF VM!Init
<1>2. VMTypes
  <2>1. /\ vm \in [VMs -> VM!ProviderStates \cup {"none"}] /\ provider \in BOOLEAN
        /\ disturbed \subseteq Sessions
    BY DEF VM!Init
  <2>2. /\ registry \in [Sessions -> VM!SessionRecord]
        /\ answers \in [Sessions -> VM!SessionRecord]
        /\ versions \in [Sessions -> SUBSET VM!SessionRecord]
        /\ \A s \in Sessions : registry[s] \in versions[s]
    BY NoRecordIs DEF VM!Init
  <2>3. command \in [Callers -> VM!Call]
    BY IdleIs DEF VM!Init
  <2> QED BY <2>1, <2>2, <2>3 DEF VMTypes
<1>3. Offline
  BY <1>1, IdleIs DEF Offline
<1>4. RecordsTrue
  <2>1. \A c \in Callers : CommandTrue(vm, answers, command[c])
    BY <1>1, IdleIs DEF CommandTrue, HooksTrue, CopiesTrue, TerminatesTrue, SeenTrue
  <2> QED BY <1>1, <2>1, NoRecordGood DEF RecordsTrue
<1>5. SerialInv
  BY <1>1, IdleIs, NoRecordIs DEF SerialInv, Serial, OneWorks, ReadsAtLeast, AtLeast
<1> QED BY <1>2, <1>3, <1>4, <1>5 DEF VMInv

LEMMA VMStep ==
  ASSUME VMConstants, VMInv, VM!Next \/ UNCHANGED vmVars
  PROVE  VMInv'
<1>1. CASE UNCHANGED vmVars
  <2>1. UNCHANGED <<provider, vm, registry, versions, command, answers, disturbed>>
    BY <1>1 DEF vmVars
  <2> QED BY <2>1 DEF VMInv, VMTypes, Offline, RecordsTrue, SerialInv
<1>2. ASSUME NEW c \in Callers, VM!Step(c) PROVE VMInv'
  BY <1>2, ReconstructKeeps, OperateKeeps, ObserveKeeps, IssueTokenKeeps, PutKeeps DEF VM!Step
<1> QED BY <1>1, <1>2, RunKeeps, CreateKeeps, GetKeeps, GetStaleKeeps, ReadAllKeeps, FailKeeps,
           SettleKeeps, DeleteKeeps
        DEF VM!Next

\* The instance of the composition (whose Few bounds the sessions and MicroVMs in use),
\* and the controller on its own, without that bound.
LEMMA VMAlways ==
  ASSUME VMConstants PROVE (VM!Spec => []VMInv) /\ (ServicesSpec => []VMInv)
<1>1. VM!Init => VMInv
  BY VMInitInv
<1>2. VMInv /\ [VM!Next]_(VM!vars) => VMInv'
  BY VMStep DEF VM!vars, vmVars
<1>3. VM!Spec => []VMInv
  BY <1>1, <1>2, PTL DEF VM!Spec
<1>4. ServicesInit => VMInv
  BY VMInitInv DEF ServicesInit
<1>5. VMInv /\ [ServicesNext]_allVars => VMInv'
  BY VMStep DEF ServicesNext, allVars
<1>6. ServicesSpec => []VMInv
  BY <1>4, <1>5, PTL DEF ServicesSpec
<1> QED BY <1>3, <1>6

\* No record says or wants the end of a MicroVM that has not ended, for any clients,
\* sessions and MicroVMs, however the commands overlap and fail and however old a record
\* they read.
THEOREM EndAlwaysTrue ==
  ASSUME VMConstants
  PROVE  (VM!Spec => []EndIsTrue) /\ (ServicesSpec => []EndIsTrue)
<1>1. VMInv => EndIsTrue
  BY DEF VMInv, VMTypes, RecordsTrue, Good, RecordTrue, TerminalIn, EndedIn, EndIsTrue,
         VM!EndIsTrue, VM!Ended
<1>2. VM!Spec => []EndIsTrue
  BY <1>1, VMAlways, PTL
<1>3. ServicesSpec => []EndIsTrue
  BY <1>1, VMAlways, PTL
<1> QED BY <1>2, <1>3

\* On a session whose commands do not overlap and read the record that there is, and whose
\* record was not deleted, what was answered is in the record, for any clients, sessions
\* and MicroVMs.
THEOREM SerialCommandsAlwaysKept ==
  ASSUME VMConstants
  PROVE  (VM!Spec => []SerialCommandsKept) /\ (ServicesSpec => []SerialCommandsKept)
<1>1. VMInv => SerialCommandsKept
  BY DEF VMInv, SerialInv, Serial, AtLeast, SerialCommandsKept, VM!SerialCommandsKept
<1>2. VM!Spec => []SerialCommandsKept
  BY <1>1, VMAlways, PTL
<1>3. ServicesSpec => []SerialCommandsKept
  BY <1>1, VMAlways, PTL
<1> QED BY <1>2, <1>3

-----------------------------------------------------------------------------
(* Sums.  MapThenSumSet is a recursive function on the subsets of a set.     *)
(* That it exists, and what it returns, is shown by induction: of the sets   *)
(* for which a statement would fail, LeastSet names one that is minimal.     *)

\* The sum of f over S; the element that the sum takes first; the recursive function.
SumOf(f, S) == MapThenSumSet(LAMBDA w : f[w], S)
Some(s) == CHOOSE x \in s : TRUE
Sums(g, f, S) == g = [s \in SUBSET S |-> IF s = {} THEN 0 ELSE f[Some(s)] + g[s \ {Some(s)}]]

\* Induction over finite sets.
LEMMA LeastSet ==
  ASSUME NEW S, IsFiniteSet(S), NEW B, B \subseteq SUBSET S, B # {}
  PROVE  \E T \in B : \A U \in B : U \subseteq T => U = T
<1> DEFINE R == StrictSubsetOrdering(S)
<1>1. IsWellFoundedOn(R, FiniteSubsetsOf(S))
  BY FS_StrictSubsetOrderingWellFounded
<1>2. B \subseteq FiniteSubsetsOf(S)
  BY FS_Subset DEF FiniteSubsetsOf
<1>3. \E x \in B : \A y \in B : ~ (<<y, x>> \in R)
  <2> HIDE DEF R
  <2> QED BY <1>1, <1>2, WFMin
<1> QED BY <1>3 DEF StrictSubsetOrdering

LEMMA SomeIn ==
  ASSUME NEW S, S # {}
  PROVE  Some(S) \in S
  BY DEF Some

LEMMA SumsEmpty ==
  ASSUME NEW f, NEW g, NEW S, Sums(g, f, S)
  PROVE  g[{}] = 0
  BY DEF Sums

LEMMA SumsSome ==
  ASSUME NEW f, NEW g, NEW S, Sums(g, f, S), NEW U, U \subseteq S, U # {}
  PROVE  g[U] = f[Some(U)] + g[U \ {Some(U)}]
  BY DEF Sums

LEMMA SumsUnique ==
  ASSUME NEW f, NEW g, NEW h, NEW S, NEW T, NEW U, IsFiniteSet(S),
         U \subseteq S, U \subseteq T, Sums(g, f, S), Sums(h, f, T)
  PROVE  g[U] = h[U]
<1> DEFINE B == {V \in SUBSET S : V \subseteq T /\ g[V] # h[V]}
<1> SUFFICES ASSUME B # {} PROVE FALSE
  OBVIOUS
<1>0. B \subseteq SUBSET S
  OBVIOUS
<1>1. PICK V \in B : \A W \in B : W \subseteq V => W = V
  <2> HIDE DEF B
  <2> QED BY <1>0, LeastSet
<1> DEFINE W == V \ {Some(V)}
<1>2. V # {}
  BY <1>1, SumsEmpty
<1>3. Some(V) \in V
  BY <1>2, SomeIn
<1>4. W \subseteq V /\ W # V
  BY <1>3
<1>5. g[W] = h[W]
  BY <1>1, <1>4
<1>6. V \subseteq S /\ V \subseteq T
  BY <1>1
<1>7. g[V] = f[Some(V)] + g[W] /\ h[V] = f[Some(V)] + h[W]
  <2> HIDE DEF B
  <2> QED BY <1>2, <1>6, SumsSome
<1> QED BY <1>1, <1>5, <1>7

LEMMA SumsExist ==
  ASSUME NEW f, NEW S, IsFiniteSet(S)
  PROVE  \E g : Sums(g, f, S)
<1> DEFINE B == {U \in SUBSET S : ~ \E g : Sums(g, f, U)}
<1> SUFFICES ASSUME B # {} PROVE FALSE
  OBVIOUS
<1>0. B \subseteq SUBSET S
  OBVIOUS
<1>1. PICK U \in B : \A V \in B : V \subseteq U => V = U
  <2> HIDE DEF B
  <2> QED BY <1>0, LeastSet
<1> DEFINE G(V) == CHOOSE g : Sums(g, f, V)
           Less(V) == V \ {Some(V)}
           h == [V \in SUBSET U |-> IF V = {} THEN 0 ELSE f[Some(V)] + G(Less(V))[Less(V)]]
<1>2. ASSUME NEW V \in SUBSET U, V # {}
      PROVE  Less(V) \in SUBSET U /\ Less(V) # U /\ Less(V) \subseteq V
  BY <1>2, SomeIn
<1>3. ASSUME NEW V \in SUBSET U, V # U
      PROVE  Sums(G(V), f, V)
  <2>1. \E g : Sums(g, f, V)
    BY <1>1, <1>3
  <2> QED BY <2>1
<1>4. ASSUME NEW V \in SUBSET U, V # {}
      PROVE  h[V] = f[Some(V)] + h[Less(V)]
  <2> DEFINE W == Less(V)
  <2>1. W \in SUBSET U /\ W # U
    BY <1>2, <1>4
  <2>2. CASE W = {}
    <3>1. G(W)[W] = 0
      <4> HIDE DEF G, Less
      <4> QED BY <1>3, <2>1, <2>2, SumsEmpty
    <3> QED BY <1>4, <2>1, <2>2, <3>1
  <2>3. CASE W # {}
    <3>1. Less(W) \in SUBSET U /\ Less(W) # U /\ Less(W) \subseteq W
      BY <1>2, <2>1, <2>3
    <3>2. G(W)[W] = f[Some(W)] + G(W)[Less(W)]
      <4> HIDE DEF G, W
      <4> QED BY <1>3, <2>1, <2>3, SumsSome
    <3>3. IsFiniteSet(W)
      BY <1>1, <2>1, FS_Subset
    <3>4. G(W)[Less(W)] = G(Less(W))[Less(W)]
      <4>1. Sums(G(W), f, W) /\ Sums(G(Less(W)), f, Less(W))
        BY <1>3, <2>1, <3>1
      <4> HIDE DEF G, Less, W
      <4> QED BY <3>1, <3>3, <4>1, SumsUnique
    <3> HIDE DEF G, Less
    <3> QED BY <1>4, <2>1, <2>3, <3>2, <3>4
  <2> QED BY <2>2, <2>3
<1>5. Sums(h, f, U)
  <2>1. h = [V \in SUBSET U |-> h[V]] /\ h[{}] = 0
    OBVIOUS
  <2>2. h = [V \in SUBSET U |-> IF V = {} THEN 0 ELSE f[Some(V)] + h[V \ {Some(V)}]]
    <3> HIDE DEF h
    <3> QED BY <1>4, <2>1
  <2> HIDE DEF h
  <2> QED BY <2>2 DEF Sums
<1> QED BY <1>1, <1>5

\* The sum over a subset is a value of the function for the whole set.
LEMMA SumIs ==
  ASSUME NEW f, NEW S, IsFiniteSet(S), NEW g, Sums(g, f, S), NEW U \in SUBSET S
  PROVE  g[U] = SumOf(f, U)
<1> DEFINE h == CHOOSE h : Sums(h, f, U)
<1>1. SumOf(f, U) = h[U]
  BY DEF SumOf, MapThenSumSet, MapThenFoldSet, Sums, Some
<1>2. IsFiniteSet(U)
  BY FS_Subset
<1>3. Sums(h, f, U)
  BY <1>2, SumsExist
<1>4. U \subseteq S /\ U \subseteq U
  OBVIOUS
<1>5. g[U] = h[U]
  <2> HIDE DEF h
  <2> QED BY <1>3, <1>4, SumsUnique
<1> QED BY <1>1, <1>5

LEMMA SumEmpty ==
  ASSUME NEW f
  PROVE  SumOf(f, {}) = 0
<1>1. PICK g : Sums(g, f, {})
  BY SumsExist, FS_EmptySet
<1>2. g[{}] = SumOf(f, {})
  BY <1>1, SumIs, FS_EmptySet
<1> QED BY <1>1, <1>2, SumsEmpty

LEMMA SumSome ==
  ASSUME NEW f, NEW S, IsFiniteSet(S), S # {}
  PROVE  SumOf(f, S) = f[Some(S)] + SumOf(f, S \ {Some(S)})
<1>1. PICK g : Sums(g, f, S)
  BY SumsExist
<1>2. g[S] = SumOf(f, S) /\ g[S \ {Some(S)}] = SumOf(f, S \ {Some(S)})
  <2>1. S \in SUBSET S /\ S \ {Some(S)} \in SUBSET S
    OBVIOUS
  <2> QED BY <1>1, <2>1, SumIs
<1>3. g[S] = f[Some(S)] + g[S \ {Some(S)}]
  BY <1>1, SumsSome
<1> QED BY <1>2, <1>3

LEMMA SumType ==
  ASSUME NEW f, NEW S, IsFiniteSet(S), \A x \in S : f[x] \in Nat
  PROVE  SumOf(f, S) \in Nat
<1> DEFINE B == {V \in SUBSET S : SumOf(f, V) \notin Nat}
<1> SUFFICES ASSUME B # {} PROVE FALSE
  OBVIOUS
<1>0. B \subseteq SUBSET S
  OBVIOUS
<1>1. PICK V \in B : \A W \in B : W \subseteq V => W = V
  <2> HIDE DEF B
  <2> QED BY <1>0, LeastSet
<1>2. V # {}
  <2>1. SumOf(f, {}) \in Nat
    BY SumEmpty
  <2>2. SumOf(f, V) \notin Nat
    BY <1>1
  <2> QED BY <2>1, <2>2, Zenon
<1>3. Some(V) \in V
  BY <1>2, SomeIn
<1>4. SumOf(f, V \ {Some(V)}) \in Nat
  BY <1>1, <1>3
<1>5. SumOf(f, V) = f[Some(V)] + SumOf(f, V \ {Some(V)})
  BY <1>1, <1>2, SumSome, FS_Subset
<1> QED BY <1>1, <1>3, <1>4, <1>5

\* A sum does not depend on the order in which elements are taken.
LEMMA SumRemove ==
  ASSUME NEW f, NEW S, IsFiniteSet(S), \A x \in S : f[x] \in Nat, NEW x \in S
  PROVE  SumOf(f, S) = f[x] + SumOf(f, S \ {x})
<1> DEFINE B == {V \in SUBSET S : \E y \in V : SumOf(f, V) # f[y] + SumOf(f, V \ {y})}
<1> SUFFICES ASSUME B # {} PROVE FALSE
  OBVIOUS
<1>0. B \subseteq SUBSET S
  OBVIOUS
<1>1. PICK V \in B : \A W \in B : W \subseteq V => W = V
  <2> HIDE DEF B
  <2> QED BY <1>0, LeastSet
<1>2. PICK y \in V : SumOf(f, V) # f[y] + SumOf(f, V \ {y})
  BY <1>1
<1>3. IsFiniteSet(V) /\ V \subseteq S
  BY <1>1, FS_Subset
<1> DEFINE z == Some(V)
           W == V \ {y}
           X == V \ {z}
<1>4. z \in V
  BY <1>2, SomeIn
<1>5. SumOf(f, V) = f[z] + SumOf(f, X)
  BY <1>2, <1>3, SumSome
<1>6. y # z
  BY <1>2, <1>5
<1>a. ASSUME NEW U, U \subseteq V, U # V, NEW u \in U
      PROVE  SumOf(f, U) = f[u] + SumOf(f, U \ {u})
  BY <1>1, <1>a
<1>7. SumOf(f, X) = f[y] + SumOf(f, X \ {y})
  <2>1. X \subseteq V /\ X # V /\ y \in X
    BY <1>4, <1>6
  <2> HIDE DEF X
  <2> QED BY <2>1, <1>a
<1>8. SumOf(f, W) = f[z] + SumOf(f, W \ {z})
  <2>1. W \subseteq V /\ W # V /\ z \in W
    BY <1>4, <1>6
  <2> HIDE DEF W, z
  <2> QED BY <2>1, <1>a
<1>9. X \ {y} = W \ {z}
  OBVIOUS
<1>10. SumOf(f, X \ {y}) \in Nat
  <2>1. IsFiniteSet(X \ {y}) /\ X \ {y} \subseteq S
    BY <1>3, FS_Subset
  <2> QED BY <2>1, SumType
<1>11. f[y] \in Nat /\ f[z] \in Nat
  BY <1>3, <1>4
<1> HIDE DEF z, W, X
<1>12. SumOf(f, V) = f[y] + SumOf(f, W)
  BY <1>5, <1>7, <1>8, <1>9, <1>10, <1>11
<1> QED BY <1>2, <1>12 DEF W

LEMMA SumOne ==
  ASSUME NEW f, NEW x, f[x] \in Nat
  PROVE  SumOf(f, {x}) = f[x]
<1>1. IsFiniteSet({x})
  BY FS_Singleton
<1>2. SumOf(f, {x}) = f[x] + SumOf(f, {x} \ {x})
  BY <1>1, SumRemove
<1>3. {x} \ {x} = {}
  OBVIOUS
<1> QED BY <1>2, <1>3, SumEmpty

LEMMA SumLess ==
  ASSUME NEW f, NEW g, NEW S, IsFiniteSet(S),
         \A x \in S : f[x] \in Nat /\ g[x] \in Nat /\ f[x] <= g[x]
  PROVE  SumOf(f, S) <= SumOf(g, S)
<1> DEFINE B == {V \in SUBSET S : ~ (SumOf(f, V) <= SumOf(g, V))}
<1> SUFFICES ASSUME B # {} PROVE FALSE
  OBVIOUS
<1>0. B \subseteq SUBSET S
  OBVIOUS
<1>1. PICK V \in B : \A W \in B : W \subseteq V => W = V
  <2> HIDE DEF B
  <2> QED BY <1>0, LeastSet
<1>2. V # {}
  <2>1. SumOf(f, {}) <= SumOf(g, {})
    BY SumEmpty
  <2>2. ~ (SumOf(f, V) <= SumOf(g, V))
    BY <1>1
  <2> QED BY <2>1, <2>2, Zenon
<1>3. Some(V) \in V
  BY <1>2, SomeIn
<1> DEFINE W == V \ {Some(V)}
<1>4. SumOf(f, W) <= SumOf(g, W)
  BY <1>1, <1>3
<1>5. SumOf(f, V) = f[Some(V)] + SumOf(f, W) /\ SumOf(g, V) = g[Some(V)] + SumOf(g, W)
  BY <1>1, <1>2, SumSome, FS_Subset
<1>6. SumOf(f, W) \in Nat /\ SumOf(g, W) \in Nat
  <2>1. W \subseteq S /\ IsFiniteSet(W)
    BY <1>1, FS_Subset
  <2> QED BY <2>1, SumType
<1> QED BY <1>1, <1>3, <1>4, <1>5, <1>6

LEMMA SumSame ==
  ASSUME NEW f, NEW g, NEW S, IsFiniteSet(S), \A x \in S : f[x] = g[x]
  PROVE  SumOf(f, S) = SumOf(g, S)
<1> DEFINE B == {V \in SUBSET S : SumOf(f, V) # SumOf(g, V)}
<1> SUFFICES ASSUME B # {} PROVE FALSE
  OBVIOUS
<1>0. B \subseteq SUBSET S
  OBVIOUS
<1>1. PICK V \in B : \A W \in B : W \subseteq V => W = V
  <2> HIDE DEF B
  <2> QED BY <1>0, LeastSet
<1>2. V # {}
  BY <1>1, SumEmpty
<1>3. Some(V) \in V
  BY <1>2, SomeIn
<1> DEFINE W == V \ {Some(V)}
<1>4. SumOf(f, W) = SumOf(g, W)
  BY <1>1, <1>3
<1>5. SumOf(f, V) = f[Some(V)] + SumOf(f, W) /\ SumOf(g, V) = g[Some(V)] + SumOf(g, W)
  BY <1>1, <1>2, SumSome, FS_Subset
<1> QED BY <1>1, <1>3, <1>4, <1>5

LEMMA SumZero ==
  ASSUME NEW f, NEW S, IsFiniteSet(S), \A x \in S : f[x] = 0
  PROVE  SumOf(f, S) = 0
<1> DEFINE B == {V \in SUBSET S : SumOf(f, V) # 0}
<1> SUFFICES ASSUME B # {} PROVE FALSE
  OBVIOUS
<1>0. B \subseteq SUBSET S
  OBVIOUS
<1>1. PICK V \in B : \A W \in B : W \subseteq V => W = V
  <2> HIDE DEF B
  <2> QED BY <1>0, LeastSet
<1>2. V # {}
  BY <1>1, SumEmpty
<1>3. Some(V) \in V
  BY <1>2, SomeIn
<1>4. SumOf(f, V \ {Some(V)}) = 0
  BY <1>1, <1>3
<1>5. SumOf(f, V) = f[Some(V)] + SumOf(f, V \ {Some(V)})
  BY <1>1, <1>2, SumSome, FS_Subset
<1> QED BY <1>1, <1>3, <1>4, <1>5

-----------------------------------------------------------------------------
(* The windows of the limiter.                                              *)

LimiterConstants == IsFiniteSet(Callers) /\ MaxClock \in Nat

\* WindowsAt and Target of a given strategy.
WAt(s, n) ==
    {w \in {WindowAt(g, n - i * g.size) : g \in s.windows, i \in 0 .. s.parts - 1} :
        w.start >= 0}
Tgt(s, n) == {w \in WAt(s, n) : WindowEnd(w) > n}

LEMMA ModTimes ==
  ASSUME NEW k \in Nat, NEW y \in Nat \ {0}
  PROVE  (y * k) % y = 0
  OBVIOUS

LEMMA DivMod ==
  ASSUME NEW x \in Nat, NEW y \in Nat \ {0}
  PROVE  /\ x \div y \in Nat /\ x % y \in Nat /\ x % y < y
         /\ x = y * (x \div y) + (x % y)
  OBVIOUS

LEMMA ModUnique ==
  ASSUME NEW x \in Nat, NEW y \in Nat \ {0}, NEW k \in Nat, NEW r \in Nat, r < y,
         x = y * k + r
  PROVE  x % y = r
  OBVIOUS

LEMMA StartOfWindow ==
  ASSUME NEW n \in Nat, NEW y \in Nat \ {0}
  PROVE  /\ n - (n % y) \in Nat
         /\ n - (n % y) <= n
         /\ n < (n - (n % y)) + y
         /\ (n - (n % y)) % y = 0
<1>1. /\ n \div y \in Nat /\ n % y \in Nat /\ n % y < y
      /\ n = y * (n \div y) + (n % y)
  BY DivMod
<1>2. y * (n \div y) \in Nat
  BY <1>1
<1>3. n - (n % y) = y * (n \div y)
  BY <1>1, <1>2
<1>4. (n - (n % y)) % y = 0
  BY <1>1, <1>3, ModTimes
<1> QED BY <1>1, <1>2, <1>3, <1>4

\* A window that is made of smaller ones starts together with one of them.
LEMMA StartOfNested ==
  ASSUME NEW n \in Nat, NEW y \in Nat \ {0}, NEW z \in Nat \ {0}, z % y = 0,
         NEW t, t = n - (n % y)
  PROVE  t - (t % z) = n - (n % z)
<1> DEFINE k == z \div y  q == n \div z  r == n % z  p == r \div y  m == r % y
<1>1. k \in Nat /\ z = y * k
  BY DivMod
<1>2. q \in Nat /\ r \in Nat /\ r < z /\ n = z * q + r
  BY DivMod
<1>3. p \in Nat /\ m \in Nat /\ m < y /\ r = y * p + m
  BY <1>2, DivMod
<1> HIDE DEF k, q, p, m
<1>4. n = y * (k * q + p) + m
  <2> HIDE DEF r
  <2>1. z * q = y * (k * q)
    BY <1>1, <1>2
  <2>2. y * (k * q + p) = y * (k * q) + y * p
    BY <1>1, <1>2, <1>3
  <2> DEFINE a == z * q  b == y * p  d == y * (k * q)
  <2>3. a \in Nat /\ b \in Nat /\ d \in Nat /\ a = d /\ n = a + (b + m)
    BY <1>1, <1>2, <1>3, <2>1
  <2>4. y * (k * q + p) = d + b
    BY <2>2
  <2> HIDE DEF a, b, d
  <2> QED BY <1>3, <2>3, <2>4
<1>5. n % y = m
  <2>1. k * q + p \in Nat
    BY <1>1, <1>2, <1>3
  <2> QED BY <1>3, <1>4, <2>1, ModUnique
<1>6. y * p \in Nat /\ y * p <= r
  BY <1>2, <1>3
<1>7. t \in Nat /\ t = z * q + y * p
  <2>1. z * q \in Nat
    BY <1>2
  <2> DEFINE a == z * q  b == y * p
  <2>2. a \in Nat /\ b \in Nat /\ n = a + r /\ r = b + m
    BY <1>2, <1>3, <1>6, <2>1
  <2> HIDE DEF a, b, r
  <2>3. n - m \in Nat /\ n - m = a + b
    BY <1>2, <1>3, <2>2
  <2> QED BY <1>5, <2>3 DEF a, b
<1>8. y * p < z
  BY <1>2, <1>6
<1>9. t % z = y * p
  BY <1>2, <1>6, <1>7, <1>8, ModUnique
<1>10. z * q \in Nat
  BY <1>2
<1>11. t - (t % z) = n - r
  <2> HIDE DEF r
  <2> QED BY <1>2, <1>6, <1>7, <1>9, <1>10
<1> QED BY <1>11 DEF r

LEMMA ModInt ==
  ASSUME NEW x \in Int, NEW y \in Nat \ {0}
  PROVE  x % y \in Nat
  OBVIOUS

LEMMA StrategyIs ==
  ASSUME NEW s \in Strategies
  PROVE  /\ s.kind \in Kinds
         /\ s.windows \subseteq WindowConfig /\ s.windows \subseteq Configs /\ s.windows # {}
         /\ s.parts \in Nat \ {0} /\ (s.kind = "multi" => s.parts = 1)
         /\ s.kind # "multi" => \E g \in s.windows : s.windows = {g}
         /\ s.checked \in BOOLEAN
  BY StrategyAssumption DEF StrategyAssumption, Configs

LEMMA ConfigIs ==
  ASSUME NEW g \in Configs
  PROVE  g \in WindowConfig /\ g.size \in Nat \ {0} /\ g.max \in Nat
  BY StrategyAssumption DEF StrategyAssumption, Configs, WindowConfig

LEMMA WindowIs ==
  ASSUME NEW w \in Windows
  PROVE  /\ w.config \in Configs /\ w.config.size \in Nat \ {0} /\ w.config.max \in Nat
         /\ w.start \in Times /\ w.start % w.config.size = 0
         /\ w = [config |-> w.config, start |-> w.start]
  BY ConfigIs DEF Windows

LEMMA WindowAtFields ==
  ASSUME NEW g, NEW n
  PROVE  WindowAt(g, n).config = g /\ WindowAt(g, n).start = n - (n % g.size)
  BY DEF WindowAt

LEMMA WindowAtIs ==
  ASSUME LimiterConstants, NEW g \in Configs, NEW n \in Times
  PROVE  WindowAt(g, n) \in Windows /\ n < WindowEnd(WindowAt(g, n))
<1> DEFINE t == n - (n % g.size)
<1>1. n \in Nat /\ g.size \in Nat \ {0} /\ n <= MaxClock
  BY ConfigIs DEF LimiterConstants, Times
<1>2. t \in Nat /\ t <= n /\ n < t + g.size /\ t % g.size = 0
  BY <1>1, StartOfWindow
<1> HIDE DEF t
<1>3. t \in Times
  BY <1>1, <1>2 DEF Times, LimiterConstants
<1>4. WindowAt(g, n) = [config |-> g, start |-> t]
  BY DEF WindowAt, t
<1> QED BY <1>2, <1>3, <1>4 DEF Windows, WindowEnd

LEMMA WAtIs ==
  ASSUME LimiterConstants, NEW s \in Strategies, NEW n \in Times
  PROVE  WAt(s, n) \subseteq Windows
<1> SUFFICES ASSUME NEW g \in s.windows, NEW i \in 0 .. s.parts - 1,
                    WindowAt(g, n - i * g.size).start >= 0
             PROVE  WindowAt(g, n - i * g.size) \in Windows
  BY DEF WAt
<1> DEFINE m == n - i * g.size
<1>1. g \in Configs /\ s.parts \in Nat
  BY StrategyIs
<1>2. g.size \in Nat \ {0} /\ i \in Nat /\ n \in Nat /\ n <= MaxClock
  BY <1>1, ConfigIs DEF Times, LimiterConstants
<1>3. i * g.size \in Nat
  BY <1>2
<1>4. m \in Int /\ m <= n
  BY <1>2, <1>3
<1>5. WindowAt(g, m).start = m - (m % g.size)
  BY WindowAtFields
<1> HIDE DEF m
<1>6. m % g.size \in Nat
  BY <1>2, <1>4, ModInt
<1>7. m - (m % g.size) >= 0
  BY <1>5 DEF m
<1>8. m \in Times
  BY <1>2, <1>4, <1>6, <1>7 DEF Times, LimiterConstants
<1> QED BY <1>1, <1>8, WindowAtIs DEF m

LEMMA TgtIs ==
  ASSUME LimiterConstants, NEW s \in Strategies, NEW n \in Times
  PROVE  Tgt(s, n) = {WindowAt(g, n) : g \in s.windows}
<1>1. n \in Nat
  BY DEF Times, LimiterConstants
<1>2. ASSUME NEW g \in s.windows
      PROVE  WindowAt(g, n) \in Tgt(s, n)
  <2>1. g \in Configs /\ s.parts \in Nat \ {0} /\ g.size \in Nat
    BY StrategyIs, ConfigIs
  <2>2. WindowAt(g, n) \in Windows /\ WindowEnd(WindowAt(g, n)) > n
    <3>1. n < WindowEnd(WindowAt(g, n)) /\ WindowAt(g, n) \in Windows
      BY <2>1, WindowAtIs
    <3> QED BY <3>1
  <2>3. 0 \in 0 .. s.parts - 1 /\ n - 0 * g.size = n
    BY <1>1, <2>1
  <2>4. WindowAt(g, n).start >= 0
    BY <2>2, WindowIs DEF Times, LimiterConstants
  <2>5. WindowAt(g, n) = WindowAt(g, n - 0 * g.size)
    BY <2>3
  <2> QED BY <2>2, <2>3, <2>4, <2>5 DEF Tgt, WAt
<1>3. ASSUME NEW g \in s.windows, NEW i \in 0 .. s.parts - 1,
             WindowEnd(WindowAt(g, n - i * g.size)) > n
      PROVE  WindowAt(g, n - i * g.size) = WindowAt(g, n)
  <2> DEFINE m == n - i * g.size
  <2>1. g.size \in Nat \ {0} /\ s.parts \in Nat \ {0} /\ i \in Nat
    BY StrategyIs, ConfigIs
  <2>2. CASE i = 0
    BY <1>1, <2>1, <2>2
  <2>3. ASSUME i # 0 PROVE FALSE
    <3>1. i * g.size \in Nat /\ g.size <= i * g.size
      BY <2>1, <2>3
    <3>2. m \in Int /\ m + g.size <= n
      BY <1>1, <2>1, <3>1
    <3>3. WindowEnd(WindowAt(g, m)) = (m - (m % g.size)) + g.size
      BY WindowAtFields DEF WindowEnd
    <3> HIDE DEF m
    <3>4. m % g.size \in Nat
      BY <2>1, <3>2, ModInt
    <3>5. (m - (m % g.size)) + g.size > n
      BY <1>3, <3>3 DEF m
    <3> QED BY <1>1, <2>1, <3>2, <3>4, <3>5
  <2> QED BY <2>2, <2>3
<1> QED BY <1>2, <1>3 DEF Tgt, WAt

LEMMA TgtWindows ==
  ASSUME LimiterConstants, NEW s \in Strategies, NEW n \in Times
  PROVE  Tgt(s, n) \subseteq Windows
  BY WAtIs DEF Tgt

LEMMA MultiWAt ==
  ASSUME LimiterConstants, NEW s \in Strategies, NEW n \in Times, s.kind = "multi"
  PROVE  WAt(s, n) = Tgt(s, n)
<1>1. s.parts = 1 /\ n \in Nat
  BY StrategyIs DEF Times, LimiterConstants
<1>2. 0 .. s.parts - 1 = {0}
  BY <1>1
<1>3. ASSUME NEW g \in s.windows
      PROVE  n - 0 * g.size = n
  BY <1>1, StrategyIs, ConfigIs
<1>4. ASSUME NEW g \in s.windows
      PROVE  WindowAt(g, n) \in Tgt(s, n)
  BY TgtIs
<1>5. ASSUME NEW w \in WAt(s, n)
      PROVE  w \in Tgt(s, n)
  <2>1. PICK g \in s.windows, i \in 0 .. s.parts - 1 : w = WindowAt(g, n - i * g.size)
    BY DEF WAt
  <2>2. i = 0
    BY <1>2
  <2>3. w = WindowAt(g, n)
    BY <1>3, <2>1, <2>2
  <2> QED BY <1>4, <2>3
<1> QED BY <1>5 DEF Tgt

LEMMA OneTgt ==
  ASSUME LimiterConstants, NEW s \in Strategies, NEW n \in Times, s.kind # "multi"
  PROVE  \E w \in Windows : Tgt(s, n) = {w}
<1>1. PICK g \in s.windows : s.windows = {g}
  BY StrategyIs
<1>2. Tgt(s, n) = {WindowAt(g, n)}
  BY <1>1, TgtIs
<1> QED BY <1>2, TgtWindows

LEMMA WindowsOfOne ==
  ASSUME LimiterConstants, NEW g
  PROVE  IsFiniteSet({w \in Windows : w.config = g})
<1> DEFINE S == {w \in Windows : w.config = g}
           f == [w \in S |-> w.start]
<1>1. IsFiniteSet(Times)
  BY FS_Interval DEF Times, LimiterConstants
<1>2. f \in [S -> Times]
  BY WindowIs
<1>3. ASSUME NEW v \in S, NEW w \in S, f[v] = f[w]
      PROVE  v = w
  BY <1>3, WindowIs
<1>4. f \in Injection(S, Times)
  BY <1>2, <1>3 DEF Injection, IsInjective
<1> QED BY <1>1, <1>4, FS_Injection

-----------------------------------------------------------------------------
(* The inductive invariant of the limiter.                                  *)

\* A window that a call has been counted in and that it is yet to be told of.
Owes(s, k, w) ==
    \/ k.step = "count" /\ w \in WAt(s, k.now)
    \/ k.step = "record" /\ w \in Tgt(s, k.now) \ k.left
OwedBy(s, calls, w) == {c \in Callers : Owes(s, calls[c], w)}

\* A call takes the steps of its strategy, creates no item that allows nothing, and
\* ends in time.
CallFits(s, time, k) ==
    /\ k.step \in {"increment", "load", "create", "count", "full"} => ~s.checked
    /\ k.step \in {"load", "create"} => s.kind # "multi"
    /\ k.step \in {"count", "full"} => s.kind = "multi"
    /\ k.step \in {"check", "record"} => s.checked
    /\ k.step = "create" => \A w \in Tgt(s, k.now) : w.config.max > 0
    /\ k.step = "record" => k.left \subseteq Tgt(s, k.now)
    /\ k.step \notin Final => k.now <= time /\ time <= k.now + CallTime
CallsFit == \A c \in Callers : CallFits(strategy, clock, call[c])

\* What is told was counted first, with every request that is yet to be told of.
OwedCounted ==
    \A w \in Windows \ reaped :
        admitted[w] + Cardinality(OwedBy(strategy, call, w)) <= count[w]

\* An item is deleted after its time only, when no call counts in it any more.
ReapedOld == \A w \in reaped : clock > TTL(w)

\* The counts told are those up to the item's, each told once.
NumbersTold ==
    strategy.kind # "multi" /\ ~strategy.checked =>
        \A w \in Windows :
            /\ IsFiniteSet(told[w]) /\ Cardinality(told[w]) = admitted[w]
            /\ w \notin reaped => \A n \in told[w] : n <= count[w]

\* A call that goes on to deny has a window that is full, and stays so.
FullTrue(s, cnt, k) ==
    k.step = "full" => \E w \in Tgt(s, k.now) : cnt[w] >= w.config.max
FullStays == \A c \in Callers : FullTrue(strategy, count, call[c])

\* The windows of size g that w is made of, and WindowsAgree of given counts.
Parts(g, w) == {v \in Windows : v.config = g /\ WindowAt(w.config, v.start) = w}
Agree(s, cnt, gone) ==
    s.kind = "multi" /\ ~s.checked =>
        \A g \in s.windows, w \in {w \in Windows : w.config \in s.windows} :
            w.config.size % g.size = 0 /\ ({w} \cup Parts(g, w)) \cap gone = {}
              => cnt[w] = SumOf(cnt, Parts(g, w))

LimiterInv ==
    /\ TypeOK
    /\ CallsFit
    /\ OwedCounted
    /\ ReapedOld
    /\ WithinLimit
    /\ NumbersTold
    /\ FullStays
    /\ Agree(strategy, count, reaped)

-----------------------------------------------------------------------------
(* What a step of one call changes.                                         *)

\* Only the call of c has changed, to k.
OneChanged(calls, after, c, k) ==
    after[c] = k /\ \A d \in Callers : d # c => after[d] = calls[d]

LEMMA OwedNow ==
  ASSUME NEW s, NEW calls, NEW after, NEW c \in Callers, NEW k, NEW w,
         OneChanged(calls, after, c, k)
  PROVE  OwedBy(s, after, w) = IF Owes(s, k, w) THEN OwedBy(s, calls, w) \cup {c}
                                                ELSE OwedBy(s, calls, w) \ {c}
  BY DEF OwedBy, OneChanged

LEMMA OwedFinite ==
  ASSUME LimiterConstants, NEW s, NEW calls, NEW w
  PROVE  IsFiniteSet(OwedBy(s, calls, w)) /\ Cardinality(OwedBy(s, calls, w)) \in Nat
<1>1. OwedBy(s, calls, w) \in SUBSET Callers
  BY DEF OwedBy
<1>2. IsFiniteSet(OwedBy(s, calls, w))
  BY <1>1, FS_Subset DEF LimiterConstants
<1> QED BY <1>2, FS_CardinalityType

\* A window's books balance when a call's debt, what was told and what was counted
\* change together.
LEMMA OwedBalance ==
  ASSUME LimiterConstants, NEW s, NEW calls, NEW after, NEW c \in Callers, NEW k, NEW w,
         OneChanged(calls, after, c, k),
         NEW a \in Nat, NEW b \in Nat, NEW a2 \in Nat, NEW b2 \in Nat,
         a + Cardinality(OwedBy(s, calls, w)) <= b,
         (IF Owes(s, k, w) THEN a2 + 1 ELSE a2) + b
           <= (IF Owes(s, calls[c], w) THEN a + 1 ELSE a) + b2
  PROVE  a2 + Cardinality(OwedBy(s, after, w)) <= b2
<1> DEFINE old == OwedBy(s, calls, w)
           new == OwedBy(s, after, w)
<1>1. IsFiniteSet(old) /\ Cardinality(old) \in Nat
  BY OwedFinite
<1>2. c \in old <=> Owes(s, calls[c], w)
  BY DEF OwedBy
<1>3. new = IF Owes(s, k, w) THEN old \cup {c} ELSE old \ {c}
  BY OwedNow
<1>6. a + Cardinality(old) <= b
  OBVIOUS
<1> HIDE DEF old, new
<1>4. Cardinality(old \cup {c}) = IF c \in old THEN Cardinality(old) ELSE Cardinality(old) + 1
  BY <1>1, FS_AddElement
<1>5. Cardinality(old \ {c}) = IF c \in old THEN Cardinality(old) - 1 ELSE Cardinality(old)
  BY <1>1, FS_RemoveElement
<1>7. a2 + Cardinality(new) <= b2
  BY <1>1, <1>2, <1>3, <1>4, <1>5, <1>6
<1> QED BY <1>7 DEF new

\* The windows that a call in flight counts in have items for as long as it goes on.
LEMMA TargetKept ==
  ASSUME LimiterConstants, LimiterInv, NEW c \in Callers, call[c].step \notin Final,
         NEW w \in Tgt(strategy, call[c].now)
  PROVE  w \in Windows /\ w \notin reaped /\ ~ (clock > TTL(w))
<1>1. call[c].now \in Times /\ strategy \in Strategies /\ clock \in Times
  BY DEF LimiterInv, TypeOK, Call
<1>2. w \in Windows /\ WindowEnd(w) > call[c].now
  BY <1>1, TgtWindows DEF Tgt
<1>3. clock <= call[c].now + CallTime
  BY DEF LimiterInv, CallsFit, CallFits
<1>4. WindowEnd(w) \in Nat
  BY <1>2, WindowIs DEF WindowEnd, Times, LimiterConstants
<1>5. ~ (clock > TTL(w))
  BY <1>1, <1>2, <1>3, <1>4, CallTimeAssumption
     DEF CallTimeAssumption, TTL, Times, LimiterConstants
<1> QED BY <1>2, <1>5 DEF LimiterInv, ReapedOld

LEMMA AgreeIs == Agree(strategy, count, reaped) <=> WindowsAgree
  BY DEF Agree, Parts, WindowsAgree, SumOf

LEMMA BooksBalance ==
  ASSUME LimiterConstants, LimiterInv, NEW c \in Callers, NEW k,
         OneChanged(call, call', c, k), strategy' = strategy, reaped' = reaped,
         count' \in [Windows -> Nat], admitted' \in [Windows -> Nat],
         \A w \in Windows \ reaped :
             (IF Owes(strategy, k, w) THEN admitted'[w] + 1 ELSE admitted'[w]) + count[w]
               <= (IF Owes(strategy, call[c], w) THEN admitted[w] + 1 ELSE admitted[w])
                    + count'[w]
  PROVE  OwedCounted'
<1> SUFFICES ASSUME NEW w \in Windows \ reaped
             PROVE  admitted'[w] + Cardinality(OwedBy(strategy, call', w)) <= count'[w]
  BY DEF OwedCounted
<1>1. admitted[w] \in Nat /\ count[w] \in Nat /\ admitted'[w] \in Nat /\ count'[w] \in Nat
  BY DEF LimiterInv, TypeOK
<1>2. admitted[w] + Cardinality(OwedBy(strategy, call, w)) <= count[w]
  BY DEF LimiterInv, OwedCounted
<1> QED BY <1>1, <1>2, OwedBalance

LEMMA CallsStayFit ==
  ASSUME CallsFit, NEW c \in Callers, NEW k, OneChanged(call, call', c, k),
         strategy' = strategy, clock' = clock, CallFits(strategy, clock, k)
  PROVE  CallsFit'
  BY DEF CallsFit, OneChanged

LEMMA FullMore ==
  ASSUME LimiterConstants, NEW s \in Strategies, NEW k, k.now \in Times,
         NEW cnt \in [Windows -> Nat], NEW cnt2 \in [Windows -> Nat], FullTrue(s, cnt, k),
         \A w \in Windows : cnt[w] <= cnt2[w]
  PROVE  FullTrue(s, cnt2, k)
<1> SUFFICES ASSUME k.step = "full"
             PROVE  \E w \in Tgt(s, k.now) : cnt2[w] >= w.config.max
  BY DEF FullTrue
<1>1. PICK w \in Tgt(s, k.now) : cnt[w] >= w.config.max
  BY DEF FullTrue
<1>2. w \in Windows
  BY TgtWindows
<1>3. cnt[w] <= cnt2[w] /\ cnt[w] \in Nat /\ cnt2[w] \in Nat /\ w.config.max \in Nat
  BY <1>2, WindowIs
<1>4. cnt2[w] >= w.config.max
  BY <1>1, <1>3
<1> QED BY <1>4

LEMMA FullStaysMore ==
  ASSUME LimiterConstants, LimiterInv, NEW c \in Callers, NEW k, OneChanged(call, call', c, k),
         strategy' = strategy, count' \in [Windows -> Nat],
         \A w \in Windows : count[w] <= count'[w], FullTrue(strategy, count', k)
  PROVE  FullStays'
<1> SUFFICES ASSUME NEW d \in Callers
             PROVE  FullTrue(strategy, count', call'[d])
  BY DEF FullStays
<1>1. CASE d = c
  BY <1>1 DEF OneChanged
<1>2. CASE d # c
  <2>1. call'[d] = call[d]
    BY <1>2 DEF OneChanged
  <2>2. strategy \in Strategies /\ call[d].now \in Times /\ count \in [Windows -> Nat]
    BY DEF LimiterInv, TypeOK, Call
  <2>3. FullTrue(strategy, count, call[d])
    BY DEF LimiterInv, FullStays
  <2> QED BY <2>1, <2>2, <2>3, FullMore
<1> QED BY <1>1, <1>2

LEMMA CallAfter ==
  ASSUME call \in [Callers -> Call], NEW c \in Callers, NEW k \in Call,
         call' = [call EXCEPT ![c] = k]
  PROVE  call' \in [Callers -> Call] /\ OneChanged(call, call', c, k)
  BY DEF OneChanged

LEMMA GoesTo ==
  ASSUME call \in [Callers -> Call], NEW c \in Callers, NEW x \in Steps, Goes(c, x),
         NEW k, k = [step |-> x, now |-> call[c].now, left |-> call[c].left]
  PROVE  k \in Call /\ call' = [call EXCEPT ![c] = k]
<1>1. call[c] \in Call
  OBVIOUS
<1>2. [call[c] EXCEPT !.step = x] = k /\ k \in Call
  BY <1>1 DEF Call
<1> QED BY <1>2 DEF Goes

\* A step that counts and tells nothing.
LEMMA QuietStep ==
  ASSUME LimiterConstants, LimiterInv, NEW c \in Callers, NEW k \in Call,
         call' = [call EXCEPT ![c] = k],
         UNCHANGED <<strategy, clock, count, admitted, told, reaped>>,
         CallFits(strategy, clock, k), FullTrue(strategy, count, k),
         \A w : ~ Owes(strategy, k, w)
  PROVE  LimiterInv'
<1>1. call' \in [Callers -> Call] /\ OneChanged(call, call', c, k)
  BY CallAfter DEF LimiterInv, TypeOK
<1>2. TypeOK'
  BY <1>1 DEF LimiterInv, TypeOK
<1>3. CallsFit'
  BY <1>1, CallsStayFit DEF LimiterInv
<1>4. count \in [Windows -> Nat] /\ admitted \in [Windows -> Nat]
  BY DEF LimiterInv, TypeOK
<1>5. OwedCounted'
  <2>1. \A w \in Windows \ reaped :
             (IF Owes(strategy, k, w) THEN admitted'[w] + 1 ELSE admitted'[w]) + count[w]
               <= (IF Owes(strategy, call[c], w) THEN admitted[w] + 1 ELSE admitted[w])
                    + count'[w]
    BY <1>4
  <2> QED BY <1>1, <1>4, <2>1, BooksBalance
<1>6. FullStays'
  <2>1. count' = count /\ FullTrue(strategy, count', k)
    OBVIOUS
  <2>2. \A w \in Windows : count[w] <= count'[w]
    BY <1>4, <2>1
  <2> QED BY <1>1, <1>4, <2>1, <2>2, FullStaysMore
<1>7. ReapedOld' /\ WithinLimit' /\ NumbersTold'
  BY DEF LimiterInv, ReapedOld, WithinLimit, NumbersTold
<1> QED BY <1>2, <1>3, <1>5, <1>6, <1>7 DEF LimiterInv

\* A call that is counted in its only window, and told so unless the answer is lost.
LEMMA AdmitStep ==
  ASSUME LimiterConstants, LimiterInv, NEW c \in Callers, NEW w \in Windows,
         Tgt(strategy, call[c].now) = {w}, call[c].step \in {"increment", "create"},
         strategy.kind # "multi", count[w] < w.config.max, Admit(c, {w}),
         UNCHANGED <<strategy, clock, reaped>>
  PROVE  LimiterInv'
<1> DEFINE k == [step |-> "idle", now |-> 0, left |-> {}]
<1>1. k \in Call /\ call' = [call EXCEPT ![c] = k] /\ k.step = "idle"
  BY DEF Admit, Ends, Call, Steps, Final, Times, LimiterConstants
<1>2. call' \in [Callers -> Call] /\ OneChanged(call, call', c, k)
  BY <1>1, CallAfter DEF LimiterInv, TypeOK
<1>3. /\ count \in [Windows -> Nat] /\ admitted \in [Windows -> Nat]
      /\ told \in [Windows -> SUBSET Nat] /\ strategy \in Strategies
      /\ call[c].now \in Times
  BY DEF LimiterInv, TypeOK, Call
<1>4. ~ strategy.checked
  BY DEF LimiterInv, CallsFit, CallFits
<1>5. w \notin reaped
  BY TargetKept DEF Final
<1>6. /\ count' = [v \in Windows |-> IF v = w THEN count[v] + 1 ELSE count[v]]
      /\ count' \in [Windows -> Nat]
      /\ count'[w] = count[w] + 1 /\ \A v \in Windows : v # w => count'[v] = count[v]
  <2>1. count' = [v \in Windows |-> IF v = w THEN count[v] + 1 ELSE count[v]]
    BY DEF Admit, Counted
  <2> QED BY <1>3, <2>1
<1>7. \/ UNCHANGED <<admitted, told>>
      \/ /\ admitted' = [v \in Windows |-> IF v = w THEN admitted[v] + 1 ELSE admitted[v]]
         /\ told' = [v \in Windows |-> IF v = w THEN told[v] \cup {count'[v]} ELSE told[v]]
  BY DEF Admit, Told
<1>8. /\ admitted' \in [Windows -> Nat] /\ told' \in [Windows -> SUBSET Nat]
      /\ admitted'[w] = admitted[w] \/ admitted'[w] = admitted[w] + 1
      /\ \A v \in Windows : v # w => admitted'[v] = admitted[v]
  BY <1>3, <1>6, <1>7
<1>9. w.config.max \in Nat
  BY WindowIs
<1>10. TypeOK'
  <2>1. \A v \in Windows : count'[v] <= v.config.max
    BY <1>3, <1>4, <1>6, <1>9 DEF LimiterInv, TypeOK
  <2> QED BY <1>2, <1>6, <1>8, <2>1 DEF LimiterInv, TypeOK
<1>11. CallsFit'
  <2>1. CallFits(strategy, clock, k)
    BY <1>1 DEF CallFits, Final
  <2> QED BY <1>2, <2>1, CallsStayFit DEF LimiterInv
<1>12. OwedCounted'
  <2>1. \A v : ~ Owes(strategy, k, v)
    BY <1>1 DEF Owes
  <2>2. \A v : ~ Owes(strategy, call[c], v)
    BY DEF Owes
  <2>3. ASSUME NEW v \in Windows \ reaped
        PROVE  admitted'[v] + count[v] <= admitted[v] + count'[v]
    BY <1>3, <1>6, <1>8
  <2> HIDE DEF k
  <2> QED BY <1>2, <1>6, <1>8, <2>1, <2>2, <2>3, BooksBalance
<1>13. ReapedOld'
  BY DEF LimiterInv, ReapedOld
<1>14. admitted[w] <= count[w]
  <2>1. admitted[w] + Cardinality(OwedBy(strategy, call, w)) <= count[w]
    BY <1>5 DEF LimiterInv, OwedCounted
  <2> QED BY <1>3, <2>1, OwedFinite
<1>15. WithinLimit'
  <2>1. \A v \in Windows : admitted'[v] <= v.config.max
    BY <1>3, <1>4, <1>8, <1>9, <1>14 DEF LimiterInv, WithinLimit
  <2> QED BY <2>1 DEF WithinLimit
<1>16. NumbersTold'
  <2> SUFFICES ASSUME NEW v \in Windows
               PROVE  /\ IsFiniteSet(told'[v]) /\ Cardinality(told'[v]) = admitted'[v]
                      /\ v \notin reaped => \A n \in told'[v] : n <= count'[v]
    BY DEF NumbersTold
  <2>1. /\ IsFiniteSet(told[v]) /\ Cardinality(told[v]) = admitted[v] /\ told[v] \subseteq Nat
        /\ v \notin reaped => \A n \in told[v] : n <= count[v]
    BY <1>3, <1>4 DEF LimiterInv, NumbersTold
  <2>2. CASE told'[v] = told[v] /\ admitted'[v] = admitted[v]
    BY <1>3, <1>6, <2>1, <2>2
  <2>3. CASE v = w /\ told'[v] = told[v] \cup {count'[v]} /\ admitted'[v] = admitted[v] + 1
    <3>1. count'[v] \notin told[v]
      BY <1>3, <1>5, <1>6, <2>1, <2>3
    <3>2. IsFiniteSet(told'[v]) /\ Cardinality(told'[v]) = Cardinality(told[v]) + 1
      <4>1. LET S == told[v] \cup {count'[v]}
            IN  IsFiniteSet(S) /\ Cardinality(S) = Cardinality(told[v]) + 1
        BY <2>1, <3>1, FS_AddElement
      <4> QED BY <2>3, <4>1
    <3> QED BY <1>3, <1>5, <1>6, <2>1, <2>3, <3>2
  <2>4. \/ told'[v] = told[v] /\ admitted'[v] = admitted[v]
        \/ v = w /\ told'[v] = told[v] \cup {count'[v]} /\ admitted'[v] = admitted[v] + 1
    BY <1>3, <1>7
  <2> QED BY <2>2, <2>3, <2>4
<1>17. FullStays'
  <2>1. FullTrue(strategy, count', k)
    BY <1>1 DEF FullTrue
  <2>2. \A v \in Windows : count[v] <= count'[v]
    BY <1>3, <1>6
  <2> HIDE DEF k
  <2> QED BY <1>2, <1>6, <2>1, <2>2, FullStaysMore
<1>18. Agree(strategy, count, reaped)'
  BY DEF Agree
<1> QED BY <1>10, <1>11, <1>12, <1>13, <1>15, <1>16, <1>17, <1>18 DEF LimiterInv

LEMMA PartsFinite ==
  ASSUME LimiterConstants, NEW g, NEW w
  PROVE  IsFiniteSet(Parts(g, w)) /\ Parts(g, w) \subseteq Windows
<1>1. Parts(g, w) \in SUBSET {v \in Windows : v.config = g}
  BY DEF Parts
<1> QED BY <1>1, WindowsOfOne, FS_Subset

\* A request that is counted in all windows of its time is counted in a window and in
\* one part of it, or in neither.
LEMMA AgreeCounted ==
  ASSUME LimiterConstants, NEW s \in Strategies, NEW n \in Times, NEW gone,
         NEW cnt \in [Windows -> Nat], NEW cnt2, Agree(s, cnt, gone),
         cnt2 = [w \in Windows |-> IF w \in Tgt(s, n) THEN cnt[w] + 1 ELSE cnt[w]]
  PROVE  Agree(s, cnt2, gone)
<1> SUFFICES ASSUME s.kind = "multi" /\ ~s.checked,
                    NEW g \in s.windows, NEW w \in Windows, w.config \in s.windows,
                    w.config.size % g.size = 0, ({w} \cup Parts(g, w)) \cap gone = {}
             PROVE  cnt2[w] = SumOf(cnt2, Parts(g, w))
  BY DEF Agree
<1> DEFINE P == Parts(g, w)  u == WindowAt(g, n)
<1>1. /\ g \in Configs /\ g.size \in Nat \ {0} /\ w.config \in Configs
      /\ w.config.size \in Nat \ {0} /\ n \in Nat
  BY StrategyIs, ConfigIs, WindowIs DEF Times, LimiterConstants
<1>2. cnt[w] = SumOf(cnt, P)
  BY DEF Agree
<1>3. IsFiniteSet(P) /\ P \subseteq Windows
  BY PartsFinite
<1>4. u \in Windows /\ u.config = g /\ u.start = n - (n % g.size) /\ u \in Tgt(s, n)
  BY <1>1, WindowAtIs, WindowAtFields, TgtIs
<1>5. \A v \in Windows : v \in Tgt(s, n) /\ v.config = g => v = u
  BY TgtIs, WindowAtFields
<1>6. w \in Tgt(s, n) <=> WindowAt(w.config, n) = w
  BY TgtIs, WindowAtFields
<1>7. WindowAt(w.config, u.start) = WindowAt(w.config, n)
  <2>1. u.start - (u.start % w.config.size) = n - (n % w.config.size)
    <3> DEFINE y == g.size  z == w.config.size  t == u.start
    <3>1. y \in Nat \ {0} /\ z \in Nat \ {0} /\ z % y = 0 /\ t = n - (n % y)
      BY <1>1, <1>4
    <3>2. t - (t % z) = n - (n % z)
      <4> HIDE DEF y, z, t
      <4> QED BY <1>1, <3>1, StartOfNested
    <3> QED BY <3>2
  <2> QED BY <2>1 DEF WindowAt
<1>8. u \in P <=> w \in Tgt(s, n)
  BY <1>4, <1>6, <1>7 DEF Parts
<1>9. \A v \in P : v # u => v \notin Tgt(s, n)
  BY <1>3, <1>5 DEF Parts
<1> HIDE DEF P, u
<1>10. \A v \in P : cnt[v] \in Nat /\ cnt2[v] \in Nat
  BY <1>3
<1>11. CASE w \notin Tgt(s, n)
  <2>1. \A v \in P : cnt2[v] = cnt[v]
    BY <1>3, <1>8, <1>9, <1>11
  <2>2. SumOf(cnt2, P) = SumOf(cnt, P)
    BY <1>3, <2>1, SumSame
  <2> QED BY <1>2, <1>11, <2>2 DEF P
<1>12. CASE w \in Tgt(s, n)
  <2>1. u \in P /\ cnt2[u] = cnt[u] + 1 /\ cnt2[w] = cnt[w] + 1
    BY <1>4, <1>8, <1>12
  <2>2. \A v \in P \ {u} : cnt2[v] = cnt[v]
    BY <1>3, <1>9
  <2>3. IsFiniteSet(P \ {u})
    BY <1>3, FS_Subset
  <2>4. SumOf(cnt2, P \ {u}) = SumOf(cnt, P \ {u})
    BY <2>2, <2>3, SumSame
  <2>5. /\ SumOf(cnt, P) = cnt[u] + SumOf(cnt, P \ {u})
        /\ SumOf(cnt2, P) = cnt2[u] + SumOf(cnt2, P \ {u})
    BY <1>3, <1>10, <2>1, SumRemove
  <2>6. SumOf(cnt, P \ {u}) \in Nat
    BY <1>10, <2>3, SumType
  <2>7. cnt2[w] = SumOf(cnt2, P)
    BY <1>2, <1>10, <2>1, <2>4, <2>5, <2>6
  <2> QED BY <2>7 DEF P
<1> QED BY <1>11, <1>12

LEMMA AgreeReaped ==
  ASSUME LimiterConstants, NEW s, NEW gone, NEW cnt \in [Windows -> Nat], NEW cnt2,
         Agree(s, cnt, gone), NEW u, \A v \in Windows : v # u => cnt2[v] = cnt[v]
  PROVE  Agree(s, cnt2, gone \cup {u})
<1> SUFFICES ASSUME s.kind = "multi" /\ ~s.checked,
                    NEW g \in s.windows, NEW w \in Windows, w.config \in s.windows,
                    w.config.size % g.size = 0,
                    ({w} \cup Parts(g, w)) \cap (gone \cup {u}) = {}
             PROVE  cnt2[w] = SumOf(cnt2, Parts(g, w))
  BY DEF Agree
<1>1. cnt[w] = SumOf(cnt, Parts(g, w))
  BY DEF Agree
<1>2. IsFiniteSet(Parts(g, w)) /\ Parts(g, w) \subseteq Windows
  BY PartsFinite
<1>3. cnt2[w] = cnt[w] /\ \A v \in Parts(g, w) : cnt2[v] = cnt[v]
  BY <1>2
<1>4. SumOf(cnt2, Parts(g, w)) = SumOf(cnt, Parts(g, w))
  <2> DEFINE P == Parts(g, w)
  <2>1. IsFiniteSet(P) /\ \A v \in P : cnt2[v] = cnt[v]
    BY <1>2, <1>3
  <2> HIDE DEF P
  <2>2. SumOf(cnt2, P) = SumOf(cnt, P)
    BY <2>1, SumSame
  <2> QED BY <2>2 DEF P
<1> QED BY <1>1, <1>3, <1>4

-----------------------------------------------------------------------------
(* The steps of the limiter.                                                *)

LEMMA AtIs ==
  ASSUME NEW n
  PROVE  WindowsAt(n) = WAt(strategy, n) /\ Target(n) = Tgt(strategy, n)
  BY DEF WindowsAt, WAt, Target, Tgt, WindowEnd

LEMMA TheWindowIs ==
  ASSUME LimiterConstants, LimiterInv, NEW c \in Callers, strategy.kind # "multi"
  PROVE  TheWindow(c) \in Windows /\ Tgt(strategy, call[c].now) = {TheWindow(c)}
<1>1. strategy \in Strategies /\ call[c].now \in Times
  BY DEF LimiterInv, TypeOK, Call
<1>2. PICK w \in Windows : Tgt(strategy, call[c].now) = {w}
  BY <1>1, OneTgt
<1>3. TheWindow(c) = w
  BY <1>2, AtIs DEF TheWindow
<1> QED BY <1>2, <1>3

LEMMA StateIs ==
  ASSUME LimiterInv, NEW c \in Callers
  PROVE  /\ strategy \in Strategies /\ clock \in Times /\ count \in [Windows -> Nat]
         /\ call \in [Callers -> Call] /\ call[c] \in Call
         /\ call[c].step \in Steps /\ call[c].now \in Times /\ call[c].left \subseteq Windows
         /\ admitted \in [Windows -> Nat] /\ told \in [Windows -> SUBSET Nat]
         /\ reaped \subseteq Windows
  BY DEF LimiterInv, TypeOK, Call

\* A call that ends, and is told of nothing.
LEMMA QuietEnd ==
  ASSUME LimiterConstants, LimiterInv, NEW c \in Callers, NEW x \in Final, Ends(c, x),
         UNCHANGED <<strategy, clock, count, admitted, told, reaped>>
  PROVE  LimiterInv'
<1> DEFINE k == [step |-> x, now |-> 0, left |-> {}]
<1>1. k \in Call /\ call' = [call EXCEPT ![c] = k] /\ k.step \in Final
  BY DEF Ends, Call, Steps, Times, LimiterConstants
<1>2. CallFits(strategy, clock, k) /\ FullTrue(strategy, count, k)
  BY <1>1 DEF CallFits, FullTrue, Final
<1>3. \A w : ~ Owes(strategy, k, w)
  BY <1>1 DEF Owes, Final
<1> HIDE DEF k
<1> QED BY <1>1, <1>2, <1>3, QuietStep

\* A call that begins.
LEMMA QuietBegin ==
  ASSUME LimiterConstants, LimiterInv, NEW c \in Callers, NEW x \in {"increment", "check"},
         x = "check" <=> strategy.checked, Begins(c, x, {}),
         UNCHANGED <<strategy, clock, count, admitted, told, reaped>>
  PROVE  LimiterInv'
<1> DEFINE k == [step |-> x, now |-> clock, left |-> {}]
<1>1. clock \in Times /\ clock \in Nat
  BY StateIs DEF Times, LimiterConstants
<1>2. /\ k \in Call /\ call' = [call EXCEPT ![c] = k]
      /\ k.step \in {"increment", "check"} /\ k.now = clock
      /\ k.step = "check" <=> strategy.checked
  BY <1>1 DEF Begins, Call, Steps
<1>3. CallFits(strategy, clock, k)
  BY <1>1, <1>2, CallTimeAssumption DEF CallFits, CallTimeAssumption
<1>4. FullTrue(strategy, count, k) /\ \A w : ~ Owes(strategy, k, w)
  BY <1>2 DEF FullTrue, Owes
<1> HIDE DEF k
<1> QED BY <1>2, <1>3, <1>4, QuietStep

\* A call that goes on to a step at which it has counted nothing.
LEMMA QuietGo ==
  ASSUME LimiterConstants, LimiterInv, NEW c \in Callers, call[c].step \notin Final,
         NEW x \in {"load", "create", "full"}, Goes(c, x), ~strategy.checked,
         x # "full" => strategy.kind # "multi",
         x = "create" => \A w \in Tgt(strategy, call[c].now) : w.config.max > 0,
         x = "full" => /\ strategy.kind = "multi"
                       /\ \E w \in Tgt(strategy, call[c].now) : count[w] >= w.config.max,
         UNCHANGED <<strategy, clock, count, admitted, told, reaped>>
  PROVE  LimiterInv'
<1> DEFINE k == [step |-> x, now |-> call[c].now, left |-> call[c].left]
<1>1. /\ k \in Call /\ call' = [call EXCEPT ![c] = k]
  BY StateIs, GoesTo DEF Steps
<1>2. k.step = x /\ k.now = call[c].now
  OBVIOUS
<1>3. call[c].now <= clock /\ clock <= call[c].now + CallTime
  BY DEF LimiterInv, CallsFit, CallFits
<1> HIDE DEF k
<1>4. CallFits(strategy, clock, k)
  BY <1>2, <1>3 DEF CallFits
<1>5. FullTrue(strategy, count, k) /\ \A w : ~ Owes(strategy, k, w)
  BY <1>2 DEF FullTrue, Owes
<1> QED BY <1>1, <1>4, <1>5, QuietStep

LEMMA StepStart ==
  ASSUME LimiterConstants, LimiterInv, NEW c \in Callers, Start(c)
  PROVE  LimiterInv'
<1>1. strategy.checked \in BOOLEAN
  BY StateIs, StrategyIs
<1>2. CASE strategy.checked
  BY <1>2, QuietBegin DEF Start
<1>3. CASE ~ strategy.checked
  BY <1>3, QuietBegin DEF Start
<1> QED BY <1>1, <1>2, <1>3

LEMMA StepIncrement ==
  ASSUME LimiterConstants, LimiterInv, NEW c \in Callers, Increment(c)
  PROVE  LimiterInv'
<1> DEFINE w == TheWindow(c)
<1>1. /\ call[c].step = "increment" /\ strategy.kind # "multi"
      /\ UNCHANGED <<strategy, clock, reaped>>
  BY DEF Increment
<1>2. w \in Windows /\ Tgt(strategy, call[c].now) = {w}
  BY <1>1, TheWindowIs
<1>3. ~ strategy.checked
  BY <1>1 DEF LimiterInv, CallsFit, CallFits
<1>4. \/ HasRoom(w) /\ Admit(c, {w})
      \/ Goes(c, "load") /\ UNCHANGED <<count, admitted, told>>
  BY DEF Increment
<1> HIDE DEF w
<1>5. CASE HasRoom(w) /\ Admit(c, {w})
  BY <1>1, <1>2, <1>5, AdmitStep DEF HasRoom
<1>6. CASE Goes(c, "load") /\ UNCHANGED <<count, admitted, told>>
  BY <1>1, <1>3, <1>6, QuietGo DEF Final
<1> QED BY <1>4, <1>5, <1>6

LEMMA StepLoad ==
  ASSUME LimiterConstants, LimiterInv, NEW c \in Callers, NEW found \in BOOLEAN,
         LoadEntry(c, found)
  PROVE  LimiterInv'
<1>1. call[c].step = "load" /\ UNCHANGED <<strategy, clock, count, admitted, told, reaped>>
  BY DEF LoadEntry
<1>2. ~ strategy.checked /\ strategy.kind # "multi"
  BY <1>1 DEF LimiterInv, CallsFit, CallFits
<1>3. CASE Ends(c, "denied")
  BY <1>1, <1>3, QuietEnd DEF Final
<1>4. CASE TheWindow(c).config.max # 0 /\ Goes(c, "create")
  <2>1. TheWindow(c).config.max \in Nat /\ Tgt(strategy, call[c].now) = {TheWindow(c)}
    BY <1>2, TheWindowIs, WindowIs
  <2>2. \A w \in Tgt(strategy, call[c].now) : w.config.max > 0
    BY <1>4, <2>1
  <2> QED BY <1>1, <1>2, <1>4, <2>2, QuietGo DEF Final
<1> QED BY <1>3, <1>4 DEF LoadEntry

LEMMA StepCreate ==
  ASSUME LimiterConstants, LimiterInv, NEW c \in Callers, CreateEntry(c)
  PROVE  LimiterInv'
<1> DEFINE w == TheWindow(c)
<1>1. call[c].step = "create" /\ UNCHANGED <<strategy, clock, reaped>>
  BY DEF CreateEntry
<1>2. ~ strategy.checked /\ strategy.kind # "multi"
  BY <1>1 DEF LimiterInv, CallsFit, CallFits
<1>3. w \in Windows /\ Tgt(strategy, call[c].now) = {w}
  BY <1>2, TheWindowIs
<1>4. w.config.max > 0
  BY <1>1, <1>3 DEF LimiterInv, CallsFit, CallFits
<1>5. \/ count[w] = 0 /\ Admit(c, {w})
      \/ Begins(c, "increment", {}) /\ UNCHANGED <<count, admitted, told>>
  BY DEF CreateEntry
<1> HIDE DEF w
<1>6. CASE count[w] = 0 /\ Admit(c, {w})
  BY <1>1, <1>2, <1>3, <1>4, <1>6, WindowIs, AdmitStep
<1>7. CASE Begins(c, "increment", {}) /\ UNCHANGED <<count, admitted, told>>
  BY <1>1, <1>2, <1>7, QuietBegin
<1> QED BY <1>5, <1>6, <1>7

LEMMA StepFail ==
  ASSUME LimiterConstants, LimiterInv, NEW c \in Callers, Fail(c)
  PROVE  LimiterInv'
  BY QuietEnd DEF Fail, Final

LEMMA StepCheckAfter ==
  ASSUME LimiterConstants, LimiterInv, NEW c \in Callers, CheckAfter(c)
  PROVE  LimiterInv'
  BY QuietEnd DEF CheckAfter, Final

LEMMA StepCheckLimit ==
  ASSUME LimiterConstants, LimiterInv, NEW c \in Callers, CheckLimit(c)
  PROVE  LimiterInv'
<1>1. call[c].step = "check" /\ UNCHANGED <<strategy, clock, count, admitted, told, reaped>>
  BY DEF CheckLimit
<1>2. strategy.checked
  BY <1>1 DEF LimiterInv, CallsFit, CallFits
<1>3. CASE Ends(c, "denied")
  BY <1>1, <1>3, QuietEnd DEF Final
<1>4. CASE Begins(c, "record", Target(clock))
  <2> DEFINE k == [step |-> "record", now |-> clock, left |-> Tgt(strategy, clock)]
  <2>1. clock \in Times /\ clock \in Nat /\ strategy \in Strategies
    BY StateIs DEF Times, LimiterConstants
  <2>2. Tgt(strategy, clock) \subseteq Windows
    BY <2>1, TgtWindows
  <2>3. /\ k \in Call /\ call' = [call EXCEPT ![c] = k]
        /\ k.step = "record" /\ k.now = clock /\ k.left = Tgt(strategy, clock)
    BY <1>4, <2>1, <2>2, AtIs DEF Begins, Call, Steps
  <2> HIDE DEF k
  <2>4. CallFits(strategy, clock, k)
    BY <1>2, <2>1, <2>3, CallTimeAssumption DEF CallFits, CallTimeAssumption
  <2>5. FullTrue(strategy, count, k) /\ \A w : ~ Owes(strategy, k, w)
    BY <2>3 DEF FullTrue, Owes
  <2> QED BY <1>1, <2>3, <2>4, <2>5, QuietStep
<1> QED BY <1>3, <1>4 DEF CheckLimit

LEMMA StepTransact ==
  ASSUME LimiterConstants, LimiterInv, NEW c \in Callers, Transact(c)
  PROVE  LimiterInv'
<1> DEFINE ws == Tgt(strategy, call[c].now)
<1>1. /\ call[c].step = "increment" /\ strategy.kind = "multi"
      /\ UNCHANGED <<strategy, clock, admitted, told, reaped>>
  BY DEF Transact
<1>2. ~ strategy.checked
  BY <1>1 DEF LimiterInv, CallsFit, CallFits
<1>3. /\ strategy \in Strategies /\ call[c].now \in Times /\ count \in [Windows -> Nat]
      /\ admitted \in [Windows -> Nat]
  BY StateIs
<1>4. ws \subseteq Windows /\ WindowsAt(call[c].now) = ws /\ WAt(strategy, call[c].now) = ws
  BY <1>1, <1>3, TgtWindows, AtIs, MultiWAt
<1>5. \/ /\ \A w \in ws : HasRoom(w)
         /\ Counted(ws)
         /\ Goes(c, "count") \/ Ends(c, "idle")
      \/ /\ ~ \A w \in ws : HasRoom(w)
         /\ Goes(c, "full") /\ UNCHANGED count
  BY <1>4 DEF Transact
<1>6. CASE ~ (\A w \in ws : HasRoom(w)) /\ Goes(c, "full") /\ UNCHANGED count
  <2>1. PICK w \in ws : ~ HasRoom(w)
    BY <1>6
  <2>2. count[w] >= w.config.max
    BY <1>3, <1>4, <2>1, WindowIs DEF HasRoom
  <2> QED BY <1>1, <1>2, <1>6, <2>2, QuietGo DEF Final
<1>7. CASE (\A w \in ws : HasRoom(w)) /\ Counted(ws) /\ (Goes(c, "count") \/ Ends(c, "idle"))
  <2>1. PICK k \in Call : /\ call' = [call EXCEPT ![c] = k]
                          /\ \/ k.step = "count" /\ k.now = call[c].now
                             \/ k.step = "idle"
    <3>1. CASE Goes(c, "count")
      <4> DEFINE k == [step |-> "count", now |-> call[c].now, left |-> call[c].left]
      <4>1. k \in Call /\ call' = [call EXCEPT ![c] = k]
        BY <3>1, StateIs, GoesTo DEF Steps
      <4> QED BY <4>1
    <3>2. CASE Ends(c, "idle")
      <4> DEFINE k == [step |-> "idle", now |-> 0, left |-> {}]
      <4>1. k \in Call /\ call' = [call EXCEPT ![c] = k]
        BY <3>2 DEF Ends, Call, Steps, Final, Times, LimiterConstants
      <4> QED BY <4>1
    <3> QED BY <1>7, <3>1, <3>2
  <2>2. call' \in [Callers -> Call] /\ OneChanged(call, call', c, k)
    BY <2>1, CallAfter, StateIs
  <2>3. count' = [w \in Windows |-> IF w \in ws THEN count[w] + 1 ELSE count[w]]
    BY <1>7 DEF Counted
  <2> HIDE DEF ws
  <2>4. /\ count' \in [Windows -> Nat]
        /\ \A w \in ws : count'[w] = count[w] + 1 /\ count[w] < w.config.max
        /\ \A w \in Windows \ ws : count'[w] = count[w]
    BY <1>3, <1>4, <1>7, <2>3 DEF HasRoom
  <2>5. TypeOK'
    <3>1. \A w \in Windows : count'[w] <= w.config.max
      BY <1>2, <1>3, <2>4, WindowIs DEF LimiterInv, TypeOK
    <3> QED BY <1>1, <2>2, <2>4, <3>1 DEF LimiterInv, TypeOK
  <2>6. CallsFit'
    <3>1. call[c].now <= clock /\ clock <= call[c].now + CallTime
      BY <1>1 DEF LimiterInv, CallsFit, CallFits, Final
    <3>2. CallFits(strategy, clock, k)
      BY <1>1, <1>2, <2>1, <3>1 DEF CallFits, Final
    <3> QED BY <1>1, <2>2, <3>2, CallsStayFit DEF LimiterInv
  <2>7. OwedCounted'
    <3>1. \A w : ~ Owes(strategy, call[c], w)
      BY <1>1 DEF Owes
    <3>2. \A w : Owes(strategy, k, w) => w \in ws
      BY <1>4, <2>1 DEF Owes
    <3>3. ASSUME NEW w \in Windows \ reaped
          PROVE  (IF Owes(strategy, k, w) THEN admitted[w] + 1 ELSE admitted[w]) + count[w]
                   <= admitted[w] + count'[w]
      BY <1>3, <2>4, <3>2
    <3> QED BY <1>1, <1>3, <2>2, <2>4, <3>1, <3>3, BooksBalance
  <2>8. ReapedOld' /\ WithinLimit' /\ NumbersTold'
    BY <1>1 DEF LimiterInv, ReapedOld, WithinLimit, NumbersTold
  <2>9. FullStays'
    <3>1. FullTrue(strategy, count', k)
      BY <2>1 DEF FullTrue
    <3>2. \A w \in Windows : count[w] <= count'[w]
      BY <1>3, <2>4
    <3> QED BY <1>1, <2>2, <2>4, <3>1, <3>2, FullStaysMore
  <2>10. Agree(strategy, count, reaped)'
    <3>1. Agree(strategy, count', reaped)
      BY <1>3, <2>3, AgreeCounted DEF LimiterInv, ws
    <3> QED BY <1>1, <3>1
  <2> QED BY <2>5, <2>6, <2>7, <2>8, <2>9, <2>10 DEF LimiterInv
<1> QED BY <1>5, <1>6, <1>7

LEMMA StepCountAfter ==
  ASSUME LimiterConstants, LimiterInv, NEW c \in Callers, CountAfter(c)
  PROVE  LimiterInv'
<1> DEFINE ws == Tgt(strategy, call[c].now)
           k == [step |-> "idle", now |-> 0, left |-> {}]
<1>1. call[c].step = "count" /\ UNCHANGED <<strategy, clock, count, told, reaped>>
  BY DEF CountAfter
<1>2. ~ strategy.checked /\ strategy.kind = "multi"
  BY <1>1 DEF LimiterInv, CallsFit, CallFits
<1>3. /\ strategy \in Strategies /\ call[c].now \in Times /\ count \in [Windows -> Nat]
      /\ admitted \in [Windows -> Nat]
  BY StateIs
<1>4. ws \subseteq Windows /\ WindowsAt(call[c].now) = ws /\ WAt(strategy, call[c].now) = ws
  BY <1>2, <1>3, TgtWindows, AtIs, MultiWAt
<1>5. k \in Call /\ call' = [call EXCEPT ![c] = k] /\ k.step = "idle"
  BY DEF CountAfter, Ends, Call, Steps, Final, Times, LimiterConstants
<1> HIDE DEF k
<1>6. call' \in [Callers -> Call] /\ OneChanged(call, call', c, k)
  BY <1>5, CallAfter, StateIs
<1>7. admitted' = [w \in Windows |-> IF w \in ws THEN admitted[w] + 1 ELSE admitted[w]]
  BY <1>4 DEF CountAfter
<1>8. \A w \in ws : w \notin reaped
  BY <1>1, TargetKept DEF Final
<1>9. \A w : Owes(strategy, call[c], w) <=> w \in ws
  BY <1>1, <1>4 DEF Owes
<1> HIDE DEF ws
<1>10. admitted' \in [Windows -> Nat]
  BY <1>3, <1>7
<1>11. TypeOK'
  BY <1>1, <1>6, <1>10 DEF LimiterInv, TypeOK
<1>12. CallsFit'
  <2>1. CallFits(strategy, clock, k)
    BY <1>5 DEF CallFits, Final
  <2> QED BY <1>1, <1>6, <2>1, CallsStayFit DEF LimiterInv
<1>13. OwedCounted'
  <2>1. \A w : ~ Owes(strategy, k, w)
    BY <1>5 DEF Owes
  <2>2. ASSUME NEW w \in Windows \ reaped
        PROVE  admitted'[w] + count[w]
                 <= (IF Owes(strategy, call[c], w) THEN admitted[w] + 1 ELSE admitted[w])
                      + count'[w]
    BY <1>1, <1>3, <1>7, <1>9
  <2> QED BY <1>1, <1>3, <1>6, <1>10, <2>1, <2>2, BooksBalance
<1>14. WithinLimit'
  <2>1. ASSUME NEW w \in Windows
        PROVE  admitted'[w] <= w.config.max
    <3>1. admitted[w] <= w.config.max /\ w.config.max \in Nat
      BY <1>2, WindowIs DEF LimiterInv, WithinLimit
    <3>2. CASE w \in reaped
      BY <1>7, <1>8, <3>1, <3>2
    <3>3. CASE w \notin reaped
      <4>1. admitted'[w] + Cardinality(OwedBy(strategy, call', w)) <= count[w]
        BY <1>1, <1>13, <3>3 DEF OwedCounted
      <4>2. Cardinality(OwedBy(strategy, call', w)) \in Nat
        BY OwedFinite
      <4>3. count[w] <= w.config.max
        BY <1>2 DEF LimiterInv, TypeOK
      <4> QED BY <1>3, <1>10, <3>1, <4>1, <4>2, <4>3
    <3> QED BY <3>2, <3>3
  <2> QED BY <2>1 DEF WithinLimit
<1>15. ReapedOld' /\ NumbersTold'
  BY <1>1, <1>2 DEF LimiterInv, ReapedOld, NumbersTold
<1>16. FullStays'
  <2>1. FullTrue(strategy, count', k) /\ count' = count
    BY <1>1, <1>5 DEF FullTrue
  <2>2. \A w \in Windows : count[w] <= count'[w]
    BY <1>3, <2>1
  <2> QED BY <1>1, <1>3, <1>6, <2>1, <2>2, FullStaysMore
<1>17. Agree(strategy, count, reaped)'
  BY <1>1 DEF LimiterInv
<1> QED BY <1>11, <1>12, <1>13, <1>14, <1>15, <1>16, <1>17 DEF LimiterInv

LEMMA StepRecord ==
  ASSUME LimiterConstants, LimiterInv, NEW c \in Callers, RecordRequest(c)
  PROVE  LimiterInv'
<1> DEFINE ws == Tgt(strategy, call[c].now)
<1>1. call[c].step = "record" /\ UNCHANGED <<strategy, clock, told, reaped>>
  BY DEF RecordRequest
<1>2. strategy.checked /\ call[c].left \subseteq ws
  BY <1>1 DEF LimiterInv, CallsFit, CallFits
<1>3. /\ strategy \in Strategies /\ call[c].now \in Times /\ count \in [Windows -> Nat]
      /\ admitted \in [Windows -> Nat] /\ call[c] \in Call /\ call[c].left \subseteq Windows
  BY StateIs
<1>4. Target(call[c].now) = ws
  BY AtIs
<1>5. PICK w \in call[c].left :
        /\ Counted({w})
        /\ \/ /\ call[c].left = {w} /\ Ends(c, "idle")
              /\ admitted' = [v \in Windows |->
                                IF v \in ws THEN admitted[v] + 1 ELSE admitted[v]]
           \/ /\ call' = [call EXCEPT ![c].left = @ \ {w}]
              /\ UNCHANGED admitted
  BY <1>4 DEF RecordRequest
<1>6. /\ count' = [v \in Windows |-> IF v = w THEN count[v] + 1 ELSE count[v]]
      /\ count' \in [Windows -> Nat]
      /\ count'[w] = count[w] + 1 /\ \A v \in Windows : v # w => count'[v] = count[v]
  <2>1. count' = [v \in Windows |-> IF v = w THEN count[v] + 1 ELSE count[v]]
    BY <1>5 DEF Counted
  <2> QED BY <1>3, <1>5, <2>1
<1>7. \A v : Owes(strategy, call[c], v) <=> v \in ws \ call[c].left
  BY <1>1 DEF Owes
<1>8. PICK k \in Call :
        /\ call' = [call EXCEPT ![c] = k]
        /\ \/ /\ k.step = "idle" /\ call[c].left = {w}
              /\ admitted' = [v \in Windows |->
                                IF v \in ws THEN admitted[v] + 1 ELSE admitted[v]]
           \/ /\ k.step = "record" /\ k.now = call[c].now /\ k.left = call[c].left \ {w}
              /\ admitted' = admitted
  <2>1. CASE /\ call[c].left = {w} /\ Ends(c, "idle")
             /\ admitted' = [v \in Windows |->
                              IF v \in ws THEN admitted[v] + 1 ELSE admitted[v]]
    <3> DEFINE k == [step |-> "idle", now |-> 0, left |-> {}]
    <3>1. k \in Call /\ call' = [call EXCEPT ![c] = k] /\ k.step = "idle"
      BY <2>1 DEF Ends, Call, Steps, Final, Times, LimiterConstants
    <3> HIDE DEF k
    <3> QED BY <2>1, <3>1
  <2>2. CASE call' = [call EXCEPT ![c].left = @ \ {w}] /\ UNCHANGED admitted
    <3> DEFINE k == [call[c] EXCEPT !.left = call[c].left \ {w}]
    <3>1. /\ k \in Call /\ k.step = "record" /\ k.now = call[c].now
          /\ k.left = call[c].left \ {w}
      BY <1>1, <1>3 DEF Call
    <3>2. call' = [call EXCEPT ![c] = k]
      BY <2>2
    <3> HIDE DEF k
    <3> QED BY <2>2, <3>1, <3>2
  <2> QED BY <1>5, <2>1, <2>2
<1> HIDE DEF ws
<1>9. call' \in [Callers -> Call] /\ OneChanged(call, call', c, k)
  BY <1>8, CallAfter, StateIs
<1>10. admitted' \in [Windows -> Nat]
  BY <1>3, <1>8
<1>11. TypeOK'
  BY <1>1, <1>2, <1>6, <1>9, <1>10 DEF LimiterInv, TypeOK
<1>12. CallsFit'
  <2>1. call[c].now <= clock /\ clock <= call[c].now + CallTime
    BY <1>1 DEF LimiterInv, CallsFit, CallFits, Final
  <2>2. CallFits(strategy, clock, k)
    BY <1>1, <1>2, <1>8, <2>1 DEF CallFits, Final, ws
  <2> QED BY <1>1, <1>9, <2>2, CallsStayFit DEF LimiterInv
<1>13. OwedCounted'
  <2>1. \A v : Owes(strategy, k, v) =>
                  /\ k.step = "record" /\ k.now = call[c].now /\ admitted' = admitted
                  /\ v \in ws /\ (v = w \/ v \notin call[c].left)
    BY <1>8 DEF Owes, ws
  <2>2. ASSUME NEW v \in Windows \ reaped
        PROVE  (IF Owes(strategy, k, v) THEN admitted'[v] + 1 ELSE admitted'[v]) + count[v]
                 <= (IF Owes(strategy, call[c], v) THEN admitted[v] + 1 ELSE admitted[v])
                      + count'[v]
    <3>1. admitted[v] \in Nat /\ count[v] \in Nat /\ admitted' \in [Windows -> Nat]
      BY <1>3, <1>10
    <3>2. CASE k.step = "idle" /\ call[c].left = {w}
               /\ admitted' = [u \in Windows |->
                                 IF u \in ws THEN admitted[u] + 1 ELSE admitted[u]]
      <4>1. ~ Owes(strategy, k, v)
        BY <3>2 DEF Owes
      <4> QED BY <1>2, <1>6, <1>7, <3>1, <3>2, <4>1
    <3>3. CASE admitted' = admitted
      BY <1>5, <1>6, <1>7, <2>1, <3>1, <3>3
    <3> QED BY <1>8, <3>2, <3>3
  <2> QED BY <1>1, <1>6, <1>9, <1>10, <2>2, BooksBalance
<1>14. WithinLimit' /\ NumbersTold' /\ ReapedOld'
  BY <1>1, <1>2 DEF LimiterInv, WithinLimit, NumbersTold, ReapedOld
<1>15. FullStays'
  <2>1. FullTrue(strategy, count', k)
    BY <1>8 DEF FullTrue
  <2>2. \A v \in Windows : count[v] <= count'[v]
    BY <1>3, <1>6
  <2> QED BY <1>1, <1>6, <1>9, <2>1, <2>2, FullStaysMore
<1>16. Agree(strategy, count, reaped)'
  BY <1>1, <1>2 DEF Agree
<1> QED BY <1>11, <1>12, <1>13, <1>14, <1>15, <1>16 DEF LimiterInv

LEMMA StepTick ==
  ASSUME LimiterConstants, LimiterInv, Tick
  PROVE  LimiterInv'
<1>1. /\ clock < MaxClock /\ clock' = clock + 1
      /\ \A c \in Callers : InFlight(c) => clock < call[c].now + CallTime
      /\ UNCHANGED <<strategy, count, call, admitted, told, reaped>>
  BY DEF Tick
<1>2. clock \in Times /\ clock \in Nat /\ reaped \subseteq Windows
  BY DEF LimiterInv, TypeOK, Times, LimiterConstants
<1>3. clock' \in Times
  BY <1>1, <1>2 DEF Times, LimiterConstants
<1>4. TypeOK'
  BY <1>1, <1>3 DEF LimiterInv, TypeOK
<1>5. CallsFit'
  <2> SUFFICES ASSUME NEW c \in Callers
               PROVE  CallFits(strategy, clock', call[c])
    BY <1>1 DEF CallsFit
  <2>1. CallFits(strategy, clock, call[c]) /\ call[c].now \in Times
    BY StateIs DEF LimiterInv, CallsFit
  <2>2. ASSUME call[c].step \notin Final
        PROVE  call[c].now <= clock' /\ clock' <= call[c].now + CallTime
    <3>1. clock < call[c].now + CallTime /\ call[c].now <= clock
      BY <1>1, <2>1, <2>2 DEF InFlight, CallFits
    <3> QED BY <1>1, <1>2, <2>1, <3>1, CallTimeAssumption
            DEF CallTimeAssumption, Times, LimiterConstants
  <2> QED BY <2>1, <2>2 DEF CallFits
<1>6. ReapedOld'
  <2> SUFFICES ASSUME NEW w \in reaped
               PROVE  clock' > TTL(w)
    BY <1>1 DEF ReapedOld
  <2>1. clock > TTL(w)
    BY DEF LimiterInv, ReapedOld
  <2>2. TTL(w) \in Nat
    BY <1>2, WindowIs, CallTimeAssumption
       DEF TTL, WindowEnd, Times, LimiterConstants, CallTimeAssumption
  <2> QED BY <1>1, <1>2, <2>1, <2>2
<1>7. OwedCounted' /\ WithinLimit' /\ NumbersTold' /\ FullStays'
  BY <1>1 DEF LimiterInv, OwedCounted, WithinLimit, NumbersTold, FullStays
<1>8. Agree(strategy, count, reaped)'
  BY <1>1 DEF LimiterInv
<1> QED BY <1>4, <1>5, <1>6, <1>7, <1>8 DEF LimiterInv

LEMMA StepReap ==
  ASSUME LimiterConstants, LimiterInv, NEW w \in Windows, Reap(w)
  PROVE  LimiterInv'
<1>1. /\ clock > TTL(w) /\ count' = [count EXCEPT ![w] = 0] /\ reaped' = reaped \cup {w}
      /\ UNCHANGED <<strategy, clock, call, admitted, told>>
  BY DEF Reap
<1>2. count \in [Windows -> Nat] /\ reaped \subseteq Windows
  BY DEF LimiterInv, TypeOK
<1>3. /\ count' \in [Windows -> Nat] /\ count'[w] = 0
      /\ \A v \in Windows : v # w => count'[v] = count[v]
  BY <1>1, <1>2
<1>4. TypeOK'
  <2>1. ~strategy.checked => \A v \in Windows : count'[v] <= v.config.max
    BY <1>3, WindowIs DEF LimiterInv, TypeOK
  <2> QED BY <1>1, <1>2, <1>3, <2>1 DEF LimiterInv, TypeOK
<1>5. CallsFit' /\ WithinLimit'
  BY <1>1 DEF LimiterInv, CallsFit, WithinLimit
<1>6. OwedCounted'
  <2> SUFFICES ASSUME NEW v \in Windows \ reaped'
               PROVE  admitted[v] + Cardinality(OwedBy(strategy, call, v)) <= count'[v]
    BY <1>1 DEF OwedCounted
  <2>1. v \in Windows \ reaped /\ count'[v] = count[v]
    BY <1>1, <1>3
  <2> QED BY <2>1 DEF LimiterInv, OwedCounted
<1>7. ReapedOld'
  BY <1>1 DEF LimiterInv, ReapedOld
<1>8. NumbersTold'
  BY <1>1, <1>3 DEF LimiterInv, NumbersTold
<1>9. FullStays'
  <2> SUFFICES ASSUME NEW c \in Callers, call[c].step = "full"
               PROVE  \E v \in Tgt(strategy, call[c].now) : count'[v] >= v.config.max
    BY <1>1 DEF FullStays, FullTrue
  <2>1. PICK v \in Tgt(strategy, call[c].now) : count[v] >= v.config.max
    BY DEF LimiterInv, FullStays, FullTrue
  <2>2. v \in Windows /\ ~ (clock > TTL(v))
    BY TargetKept DEF Final
  <2>3. count'[v] = count[v]
    BY <1>1, <1>3, <2>2
  <2> QED BY <2>1, <2>3
<1>10. Agree(strategy, count, reaped)'
  <2>1. Agree(strategy, count, reaped)
    BY DEF LimiterInv
  <2>2. Agree(strategy, count', reaped \cup {w})
    BY <1>2, <1>3, <2>1, AgreeReaped
  <2> QED BY <1>1, <2>2
<1> QED BY <1>4, <1>5, <1>6, <1>7, <1>8, <1>9, <1>10 DEF LimiterInv

LEMMA LimiterNext ==
  ASSUME LimiterConstants, LimiterInv, [Next]_vars
  PROVE  LimiterInv'
<1>1. CASE UNCHANGED vars
  BY <1>1 DEF vars, LimiterInv, TypeOK, CallsFit, OwedCounted, ReapedOld, WithinLimit,
              NumbersTold, FullStays
<1>2. ASSUME NEW c \in Callers, Start(c) \/ Step(c) \/ Fail(c)
      PROVE  LimiterInv'
  BY <1>2, StepStart, StepIncrement, StepLoad, StepCreate, StepTransact, StepCountAfter,
     StepCheckAfter, StepCheckLimit, StepRecord, StepFail DEF Step
<1> QED BY <1>1, <1>2, StepTick, StepReap DEF Next

LEMMA LimiterStarts ==
  ASSUME LimiterConstants, Init
  PROVE  LimiterInv
<1>1. /\ strategy \in Strategies /\ clock = 0 /\ count = [w \in Windows |-> 0]
      /\ call = [c \in Callers |-> [step |-> "idle", now |-> 0, left |-> {}]]
      /\ admitted = [w \in Windows |-> 0] /\ told = [w \in Windows |-> {}] /\ reaped = {}
  BY DEF Init
<1>2. TypeOK
  <2>1. call \in [Callers -> Call] /\ clock \in Times
    BY <1>1 DEF Call, Steps, Final, Times, LimiterConstants
  <2> QED BY <1>1, <2>1, WindowIs DEF TypeOK
<1>3. \A c \in Callers : call[c].step = "idle"
  BY <1>1
<1>4. CallsFit /\ FullStays
  BY <1>3 DEF CallsFit, CallFits, FullStays, FullTrue, Final
<1>5. OwedCounted
  <2> SUFFICES ASSUME NEW w \in Windows
               PROVE  admitted[w] + Cardinality(OwedBy(strategy, call, w)) <= count[w]
    BY DEF OwedCounted
  <2>1. OwedBy(strategy, call, w) = {}
    BY <1>3 DEF OwedBy, Owes
  <2>2. Cardinality(OwedBy(strategy, call, w)) = 0
    BY <2>1, FS_EmptySet, Zenon
  <2>3. admitted[w] = 0 /\ count[w] = 0
    BY <1>1
  <2> QED BY <2>2, <2>3
<1>6. ReapedOld /\ WithinLimit /\ NumbersTold
  BY <1>1, WindowIs, FS_EmptySet DEF ReapedOld, WithinLimit, NumbersTold
<1>7. Agree(strategy, count, reaped)
  <2> SUFFICES ASSUME NEW g, NEW w \in Windows
               PROVE  count[w] = SumOf(count, Parts(g, w))
    BY DEF Agree
  <2>1. IsFiniteSet(Parts(g, w)) /\ Parts(g, w) \subseteq Windows
    BY PartsFinite
  <2>2. SumOf(count, Parts(g, w)) = 0
    <3> DEFINE P == Parts(g, w)
    <3>1. IsFiniteSet(P) /\ \A v \in P : count[v] = 0
      BY <1>1, <2>1
    <3> HIDE DEF P
    <3>2. SumOf(count, P) = 0
      BY <3>1, SumZero
    <3> QED BY <3>2 DEF P
  <2> QED BY <1>1, <2>2
<1> QED BY <1>2, <1>4, <1>5, <1>6, <1>7 DEF LimiterInv

LEMMA LimiterHolds ==
  ASSUME LimiterConstants, LimiterInv
  PROVE  WindowsHold
<1>1. ASSUME NEW w \in Windows \ reaped
      PROVE  admitted[w] <= count[w]
  <2>1. admitted[w] + Cardinality(OwedBy(strategy, call, w)) <= count[w]
    BY DEF LimiterInv, OwedCounted
  <2>2. admitted[w] \in Nat /\ count[w] \in Nat
    BY DEF LimiterInv, TypeOK
  <2> QED BY <2>1, <2>2, OwedFinite
<1>2. WithinLimit /\ NumberedOnce /\ WindowsAgree
  BY AgreeIs DEF LimiterInv, NumberedOnce, NumbersTold
<1> QED BY <1>1, <1>2 DEF WindowsHold, AdmittedIsCounted

-----------------------------------------------------------------------------
(* Who is denied.                                                           *)

\* The counts of the windows of one size that a call sees.
LEMMA WindowsSeen ==
  ASSUME LimiterConstants, NEW s \in Strategies, NEW n \in Times, NEW g
  PROVE  LET S == {w \in WAt(s, n) : w.config = g} IN IsFiniteSet(S) /\ S \subseteq Windows
<1>1. WAt(s, n) \subseteq Windows
  BY WAtIs
<1>2. {w \in WAt(s, n) : w.config = g} \in SUBSET {w \in Windows : w.config = g}
  BY <1>1
<1> QED BY <1>2, WindowsOfOne, FS_Subset

LEMMA FullIs ==
  ASSUME NEW c, NEW g \in strategy.windows, NEW S,
         S = {w \in WAt(strategy, call[c].now) : w.config = g}, SumOf(count, S) >= g.max
  PROVE  Full(c)
  BY AtIs DEF Full, SumOf

\* MultiWindowStrategy has one window of each size at a time: it is full.
LEMMA MultiFull ==
  ASSUME LimiterConstants, LimiterInv, NEW c \in Callers, strategy.kind = "multi",
         NEW w \in Tgt(strategy, call[c].now), count[w] >= w.config.max
  PROVE  Full(c)
<1>1. strategy \in Strategies /\ call[c].now \in Times /\ count \in [Windows -> Nat]
  BY StateIs
<1>2. WAt(strategy, call[c].now) = Tgt(strategy, call[c].now)
  BY <1>1, MultiWAt
<1>3. PICK g \in strategy.windows : w = WindowAt(g, call[c].now)
  BY <1>1, TgtIs
<1>4. w.config = g
  BY <1>3, WindowAtFields
<1>5. \A v \in Tgt(strategy, call[c].now) : v.config = g => v = w
  BY <1>1, <1>3, TgtIs, WindowAtFields
<1>6. {v \in WAt(strategy, call[c].now) : v.config = g} = {w}
  BY <1>2, <1>4, <1>5
<1>7. w \in Windows
  BY <1>1, TgtWindows
<1>8. SumOf(count, {w}) = count[w]
  BY <1>1, <1>7, SumOne
<1> QED BY <1>3, <1>4, <1>6, <1>8, FullIs

LEMMA CheckFull ==
  ASSUME LimiterConstants, LimiterInv, NEW c \in Callers,
         NEW seen \in Readable(WAt(strategy, call[c].now)), ~ ShouldAllow(seen)
  PROVE  Full(c)
<1> DEFINE ws == WAt(strategy, call[c].now)
<1>1. strategy \in Strategies /\ call[c].now \in Times /\ count \in [Windows -> Nat]
  BY StateIs
<1>2. ws \subseteq Windows
  BY <1>1, WAtIs
<1>3. DOMAIN seen = ws /\ \A w \in ws : seen[w] \in Nat /\ seen[w] <= count[w]
  <2>1. seen \in [ws -> UNION {0 .. count[w] : w \in ws}] /\ \A w \in ws : seen[w] <= count[w]
    BY DEF Readable
  <2>2. UNION {0 .. count[w] : w \in ws} \subseteq Nat
    BY <1>1, <1>2
  <2> QED BY <2>1, <2>2
<1>4. CASE strategy.kind = "multi"
  <2>1. PICK w \in ws : ~ (seen[w] < w.config.max)
    BY <1>3, <1>4 DEF ShouldAllow
  <2>2. count[w] \in Nat /\ seen[w] \in Nat /\ seen[w] <= count[w] /\ w.config.max \in Nat
    BY <1>1, <1>2, <1>3, WindowIs
  <2>3. count[w] >= w.config.max
    BY <2>1, <2>2
  <2>4. w \in Tgt(strategy, call[c].now)
    BY <1>1, <1>4, MultiWAt
  <2> QED BY <1>4, <2>3, <2>4, MultiFull
<1>5. CASE strategy.kind # "multi"
  <2>1. PICK g \in strategy.windows : ~ (SumOf(seen, ws) < g.max)
    BY <1>3, <1>5 DEF ShouldAllow, SumOf
  <2>2. PICK h \in strategy.windows : strategy.windows = {h}
    BY <1>1, <1>5, StrategyIs
  <2>3. ASSUME NEW w \in ws PROVE w.config = g
    <3>1. PICK e \in strategy.windows, i \in 0 .. strategy.parts - 1 :
            w = WindowAt(e, call[c].now - i * e.size)
      BY DEF WAt
    <3>2. e = g
      BY <2>2
    <3> QED BY <3>1, <3>2, WindowAtFields
  <2>4. {w \in WAt(strategy, call[c].now) : w.config = g} = ws
    BY <2>3
  <2>5. IsFiniteSet(ws)
    BY <1>1, <2>4, WindowsSeen
  <2>6. \A w \in ws : count[w] \in Nat
    BY <1>1, <1>2
  <2>7. g.max \in Nat
    BY <1>1, StrategyIs, ConfigIs
  <2> HIDE DEF ws
  <2>8. SumOf(seen, ws) <= SumOf(count, ws)
    BY <1>3, <2>5, <2>6, SumLess
  <2>9. SumOf(seen, ws) \in Nat /\ SumOf(count, ws) \in Nat
    BY <1>3, <2>5, <2>6, SumType
  <2>10. SumOf(count, ws) >= g.max
    BY <2>1, <2>7, <2>8, <2>9
  <2> QED BY <2>4, <2>10, FullIs
<1> QED BY <1>4, <1>5

LEMMA NotDenied ==
  ASSUME call \in [Callers -> Call], NEW d \in Callers, NEW x, x # "denied", NEW l,
         Goes(d, x) \/ Begins(d, x, l) \/ Ends(d, x), NEW c \in Callers
  PROVE  ~ Denies(c)
<1>1. CASE Goes(d, x)
  BY <1>1 DEF Goes, Denies, Call
<1>2. CASE Begins(d, x, l)
  BY <1>2 DEF Begins, Denies
<1>3. CASE Ends(d, x)
  BY <1>3 DEF Ends, Denies
<1> QED BY <1>1, <1>2, <1>3

LEMMA LoadDenies ==
  ASSUME LimiterConstants, LimiterInv, NEW d \in Callers, NEW found \in BOOLEAN,
         LoadEntry(d, found), NEW c \in Callers, Denies(c)
  PROVE  Full(c) \/ (call[c].step = "load" /\ count[TheWindow(c)] > 0)
<1>1. call[d].step = "load" /\ (found => count[TheWindow(d)] > 0)
  BY DEF LoadEntry
<1>2. strategy.kind # "multi"
  BY <1>1 DEF LimiterInv, CallsFit, CallFits
<1>3. (found \/ TheWindow(d).config.max = 0) /\ Ends(d, "denied")
  BY StateIs, NotDenied DEF LoadEntry
<1>4. c = d
  BY <1>3, StateIs DEF Ends, Denies
<1>5. CASE found
  BY <1>1, <1>4, <1>5
<1>6. CASE TheWindow(d).config.max = 0
  <2> DEFINE w == TheWindow(d)  g == w.config
             S == {v \in WAt(strategy, call[d].now) : v.config = g}
  <2>1. /\ strategy \in Strategies /\ call[d].now \in Times /\ count \in [Windows -> Nat]
        /\ Tgt(strategy, call[d].now) = {w}
    BY <1>2, StateIs, TheWindowIs
  <2>2. g \in strategy.windows
    BY <2>1, TgtIs, WindowAtFields
  <2>3. IsFiniteSet(S) /\ S \subseteq Windows
    BY <2>1, WindowsSeen
  <2>4. SumOf(count, S) \in Nat
    <3>1. \A v \in S : count[v] \in Nat
      BY <2>1, <2>3
    <3> HIDE DEF S
    <3> QED BY <2>3, <3>1, SumType
  <2>5. SumOf(count, S) >= g.max
    BY <1>6, <2>4
  <2> QED BY <1>4, <2>2, <2>5, FullIs
<1> QED BY <1>3, <1>5, <1>6

LEMMA DeniedStep ==
  ASSUME LimiterConstants, LimiterInv, [Next]_vars, NEW c \in Callers, Denies(c)
  PROVE  Full(c) \/ (call[c].step = "load" /\ count[TheWindow(c)] > 0)
<1>1. call \in [Callers -> Call]
  BY StateIs
<1>2. CASE UNCHANGED call
  BY <1>2 DEF Denies
<1>3. ASSUME NEW d \in Callers, Start(d) \/ Increment(d) \/ CreateEntry(d) \/ Transact(d)
                                  \/ CountAfter(d) \/ Fail(d)
      PROVE  FALSE
  <2>1. CASE Start(d)
    BY <1>1, <2>1, NotDenied DEF Start
  <2>2. CASE Increment(d)
    BY <1>1, <2>2, NotDenied DEF Increment, Admit
  <2>3. CASE CreateEntry(d)
    BY <1>1, <2>3, NotDenied DEF CreateEntry, Admit
  <2>4. CASE Transact(d)
    BY <1>1, <2>4, NotDenied DEF Transact
  <2>5. CASE CountAfter(d) \/ Fail(d)
    BY <1>1, <2>5, NotDenied DEF CountAfter, Fail
  <2> QED BY <1>3, <2>1, <2>2, <2>3, <2>4, <2>5
<1>4. ASSUME NEW d \in Callers, RecordRequest(d)
      PROVE  FALSE
  <2>1. CASE Ends(d, "idle")
    BY <1>1, <2>1, NotDenied
  <2>2. ASSUME NEW w, call' = [call EXCEPT ![d].left = @ \ {w}]
        PROVE  FALSE
    BY <1>1, <2>2 DEF Denies, Call
  <2> QED BY <1>4, <2>1, <2>2 DEF RecordRequest
<1>5. ASSUME NEW d \in Callers, CheckAfter(d)
      PROVE  Full(c)
  <2>1. call[d].step = "full" /\ Ends(d, "denied")
    BY <1>5 DEF CheckAfter
  <2>2. c = d
    BY <1>1, <2>1 DEF Ends, Denies
  <2>3. strategy.kind = "multi"
    BY <2>1 DEF LimiterInv, CallsFit, CallFits
  <2>4. PICK w \in Tgt(strategy, call[c].now) : count[w] >= w.config.max
    BY <2>1, <2>2 DEF LimiterInv, FullStays, FullTrue
  <2> QED BY <2>3, <2>4, MultiFull
<1>6. ASSUME NEW d \in Callers, CheckLimit(d)
      PROVE  Full(c)
  <2>1. PICK seen \in Readable(WAt(strategy, call[d].now)) :
          IF ShouldAllow(seen) THEN Begins(d, "record", Target(clock)) ELSE Ends(d, "denied")
    BY <1>6, AtIs DEF CheckLimit
  <2>2. ~ ShouldAllow(seen) /\ Ends(d, "denied")
    BY <1>1, <2>1, NotDenied
  <2>3. c = d
    BY <1>1, <2>2 DEF Ends, Denies
  <2> QED BY <2>2, <2>3, CheckFull
<1>7. ASSUME NEW d \in Callers, Start(d) \/ Step(d) \/ Fail(d)
      PROVE  Full(c) \/ (call[c].step = "load" /\ count[TheWindow(c)] > 0)
  BY <1>3, <1>4, <1>5, <1>6, <1>7, LoadDenies DEF Step
<1>8. (Tick \/ \E w \in Windows : Reap(w)) => UNCHANGED call
  BY DEF Tick, Reap
<1>9. UNCHANGED vars => UNCHANGED call
  BY DEF vars
<1> QED BY <1>2, <1>7, <1>8, <1>9 DEF Next

-----------------------------------------------------------------------------

LEMMA LimiterAlways ==
  ASSUME LimiterConstants
  PROVE  (Spec => []LimiterInv) /\ (ServicesSpec => []LimiterInv)
<1>1. Init => LimiterInv
  BY LimiterStarts
<1>2. LimiterInv /\ [Next]_vars => LimiterInv'
  BY LimiterNext
<1>3. ServicesInit => Init
  BY DEF ServicesInit
<1>4. [ServicesNext]_allVars => [Next]_vars
  BY DEF ServicesNext, allVars, vars
<1>5. Spec => []LimiterInv
  BY <1>1, <1>2, PTL DEF Spec
<1>6. ServicesSpec => []LimiterInv
  BY <1>1, <1>2, <1>3, <1>4, PTL DEF ServicesSpec
<1> QED BY <1>5, <1>6

\* No window admits more requests than its limit allows, requests are numbered without
\* repetition, what was admitted is counted, and windows agree with those they are made
\* of: for any callers, strategies, sizes and limits.
THEOREM WindowsAlwaysHold ==
  ASSUME LimiterConstants
  PROVE  (Spec => []WindowsHold) /\ (ServicesSpec => []WindowsHold)
<1>1. LimiterInv => WindowsHold
  BY LimiterHolds
<1>2. Spec => []WindowsHold
  BY <1>1, LimiterAlways, PTL
<1>3. ServicesSpec => []WindowsHold
  BY <1>1, LimiterAlways, PTL
<1> QED BY <1>2, <1>3

\* A request is denied for requests that were counted in one of its windows, which is
\* full unless a single increment lost its race for the item.
THEOREM DenialsExplained ==
  ASSUME LimiterConstants
  PROVE  (Spec => DeniedOnlyWhenUsed) /\ (ServicesSpec => DeniedOnlyWhenUsed)
<1> DEFINE A == \A c \in Callers : Denies(c) =>
                   \/ Full(c)
                   \/ call[c].step = "load" /\ count[TheWindow(c)] > 0
<1>1. LimiterInv /\ [Next]_vars => [A]_vars
  BY DeniedStep
<1>2. [ServicesNext]_allVars => [Next]_vars
  BY DEF ServicesNext, allVars, vars
<1>3. Spec => [][A]_vars
  BY <1>1, LimiterAlways, PTL DEF Spec
<1>4. ServicesSpec => [][A]_vars
  BY <1>1, <1>2, LimiterAlways, PTL DEF ServicesSpec
<1> QED BY <1>3, <1>4 DEF DeniedOnlyWhenUsed
=============================================================================

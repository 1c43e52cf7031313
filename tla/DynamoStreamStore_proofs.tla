----------------------- MODULE DynamoStreamStore_proofs -----------------------
(***************************************************************************)
(* Proofs about DynamoStreamStore.  For any number of streams in a session, *)
(* any faults, payloads and batches: deleted events stay gone and payloads  *)
(* follow their events, and a client receives its stream's events in order.  *)
(* For the only stream of a session: the client misses nothing, and the     *)
(* stream implements StreamLog.                                             *)
(***************************************************************************)
EXTENDS DynamoStreamStore, FiniteSetTheorems, TLAPS

-----------------------------------------------------------------------------
(* Types.  An event's id is any number here; how many there are is counted  *)
(* where there is one stream.                                               *)

Tool == [step : ToolSteps, n : Numbers, seq : Nat, read : {"none", "open", "closed"}]
Record == [seq : Nat, stream : Streams, n : Numbers]
Sub == [step : SubSteps, cursor : Nat, batch : SUBSET Record, full : BOOLEAN,
        drain : BOOLEAN]
Deletion == [step : {"none", "list", "delete", "quiet", "done", "failed"},
             streams : SUBSET Streams, events : SUBSET Record, passes : Nat]

Types ==
    /\ session \in {"none", "active", "deleted"}
    /\ nextSeq \in Nat
    /\ meta \in [Streams -> {"none", "open", "closed"}]
    /\ events \subseteq Record
    /\ objects \subseteq Nat
    /\ tool \in [Streams -> Tool]
    /\ sub \in [Streams -> Sub]
    /\ deletion \in Deletion
    /\ log \in [Streams -> Seq(Record)]
    /\ acked \in [Streams -> SUBSET Numbers]
    /\ got \in [Streams -> Seq(Record)]
    /\ faults \in 0 .. MaxFaults
    /\ disconnects \in [Streams -> 0 .. MaxDisconnects]

-----------------------------------------------------------------------------
(* What a step of a writer comes to: its record becomes r.                  *)

Pending == {"spill", "commit", "cleanup"}
Over == {"close", "put", "done"}
Moved(s, next, n) ==
    [step |-> next, n |-> n, seq |-> tool[s].seq, read |-> tool[s].read]

\* It goes on to its next step, to its next event, or towards its end.
WriterLeaves(s, r) ==
    /\ tool[s].step # "done"
    /\ r.seq = tool[s].seq /\ r.read = tool[s].read
    /\ \/ r.n = tool[s].n /\ r.step \in Over
       \/ r.n = tool[s].n /\ tool[s].step = "touch" /\ r.step = "create"
       \/ r.n = tool[s].n /\ tool[s].step = "create" /\ r.step = "target"
       \/ /\ r.n = tool[s].n + 1 /\ r.step = "target"
          /\ tool[s].step \in {"target", "sequence"} \cup Pending

\* No event comes of it.
WriterIdle(s, r) ==
    /\ WriterLeaves(s, r)
    /\ r.n > tool[s].n => tool[s].n > 1
    /\ UNCHANGED <<events, log, acked>>
    /\ session' = session \/ (session # "deleted" /\ session' = "active")
    /\ nextSeq' = nextSeq \/ (tool[s].step = "sequence" /\ nextSeq' = nextSeq + 1)
    /\ \/ meta' = meta
       \/ tool[s].step = "create" /\ meta' = [meta EXCEPT ![s] = "open"]
       \/ tool[s].step = "put" /\ r.step = "done" /\ meta' = [meta EXCEPT ![s] = "closed"]
    /\ \/ objects' = objects
       \/ tool[s].step = "spill" /\ objects' = objects \cup {tool[s].seq} /\ faults' > 0
       \/ tool[s].step = "cleanup" /\ objects' = objects \ {tool[s].seq}
    /\ faults' \in {faults, faults + 1} \cap 0 .. MaxFaults
    /\ faults' = 0 /\ tool[s].step = "cleanup" => objects' = objects \ {tool[s].seq}
    /\ faults' = 0 /\ tool[s].step = "commit" => tool[s].n \notin Spilled

WriterReads(s, r) ==
    /\ tool[s].step = "target" /\ Found(s)
    /\ r = [step |-> "sequence", n |-> tool[s].n, seq |-> tool[s].seq, read |-> meta[s]]
    /\ UNCHANGED <<table, log, acked, faults>>

WriterNumbers(s, r) ==
    /\ tool[s].step = "sequence" /\ session # "deleted"
    /\ session' = "active" /\ nextSeq' = nextSeq + 1
    /\ r = [step |-> IF tool[s].n \in Spilled THEN "spill" ELSE "commit",
            n |-> tool[s].n, seq |-> nextSeq + 1, read |-> tool[s].read]
    /\ UNCHANGED <<meta, events, objects, log, acked, faults>>

WriterPuts(s, r) ==
    /\ tool[s].step = "spill"
    /\ r = Moved(s, "commit", tool[s].n)
    /\ objects' = objects \cup {tool[s].seq}
    /\ UNCHANGED <<session, nextSeq, meta, events, log, acked, faults>>

\* The event is committed, and its writer told so, or not.
WriterCommits(s, r) ==
    /\ tool[s].step = "commit"
    /\ CommitEvent(s)
    /\ \/ /\ WriterLeaves(s, r) /\ r.step \in {"close", "target"}
          /\ acked' = [acked EXCEPT ![s] = @ \cup ({tool[s].n} \cap Spilled)]
          /\ UNCHANGED faults
       \/ /\ \/ WriterLeaves(s, r) /\ r.step \in {"close", "target"}
             \/ r = Moved(s, "cleanup", tool[s].n)
          /\ faults' = faults + 1 /\ faults' \in 1 .. MaxFaults /\ UNCHANGED acked
    /\ UNCHANGED <<session, nextSeq, objects>>

WriterCleansUp(s, r) ==
    /\ tool[s].step = "commit" /\ tool[s].n \in Spilled
    /\ r = Moved(s, "cleanup", tool[s].n)
    /\ faults' \in {faults, faults + 1} \cap 0 .. MaxFaults
    /\ UNCHANGED <<table, log, acked>>

WriterForm(s, r) ==
    \/ WriterIdle(s, r) \/ WriterReads(s, r) \/ WriterNumbers(s, r)
    \/ WriterPuts(s, r) \/ WriterCommits(s, r) \/ WriterCleansUp(s, r)

WriterFrame(s, r) ==
    /\ tool' = [tool EXCEPT ![s] = r]
    /\ UNCHANGED <<sub, deletion, got, disconnects>>

LEMMA NumbersOfEvents ==
  /\ Final \in Nat /\ Final >= 2 /\ Numbers = 1 .. Final + 1
  /\ MaxFaults \in Nat
BY FinalAssumption, BoundsAssumption DEF Numbers

LEMMA ToolGoesIs ==
  ASSUME Types, NEW s \in Streams, NEW next \in ToolSteps, ToolGoes(s, next)
  PROVE  /\ Moved(s, next, tool[s].n) \in Tool
         /\ tool' = [tool EXCEPT ![s] = Moved(s, next, tool[s].n)]
<1>1. ASSUME NEW r \in Tool
      PROVE  [r EXCEPT !.step = next] = [step |-> next, n |-> r.n, seq |-> r.seq, read |-> r.read]
  BY DEF Tool
<1>2. tool[s] \in Tool /\ tool' = [tool EXCEPT ![s] = [tool[s] EXCEPT !.step = next]]
  BY DEF Types, ToolGoes
<1>3. [tool[s] EXCEPT !.step = next] = Moved(s, next, tool[s].n)
  BY <1>1, <1>2 DEF Moved
<1> QED BY <1>2, <1>3 DEF Moved, Tool

LEMMA RecordFields ==
  ASSUME NEW r \in Tool, NEW next \in ToolSteps, NEW n
  PROVE  [[r EXCEPT !.step = next] EXCEPT !.n = n] =
           [step |-> next, n |-> n, seq |-> r.seq, read |-> r.read]
<1>1. [r EXCEPT !.step = next] = [step |-> next, n |-> r.n, seq |-> r.seq, read |-> r.read]
  BY DEF Tool
<1> DEFINE q == [step |-> next, n |-> r.n, seq |-> r.seq, read |-> r.read]
<1>2. [q EXCEPT !.n = n] = [step |-> next, n |-> n, seq |-> r.seq, read |-> r.read]
  OBVIOUS
<1> HIDE DEF q
<1>3. [r EXCEPT !.step = next] = q
  BY <1>1 DEF q
<1> QED BY <1>2, <1>3

LEMMA AfterAppendIs ==
  ASSUME Types, NEW s \in Streams, NEW ok \in BOOLEAN, AfterAppend(s, ok)
  PROVE  \/ /\ ok \/ tool[s].n > 1
            /\ tool[s].n + 1 \in Numbers
            /\ Moved(s, "target", tool[s].n + 1) \in Tool
            /\ tool' = [tool EXCEPT ![s] = Moved(s, "target", tool[s].n + 1)]
         \/ /\ Moved(s, "close", tool[s].n) \in Tool
            /\ tool' = [tool EXCEPT ![s] = Moved(s, "close", tool[s].n)]
<1> DEFINE n == tool[s].n
           closing == IF n = 1 THEN ~ok ELSE n = Final + 1 \/ (n = Final /\ ok)
           next == IF closing THEN "close" ELSE "target"
           m == IF closing THEN n ELSE n + 1
           f == [tool EXCEPT ![s] = [tool[s] EXCEPT !.step = next]]
<1>1. tool[s] \in Tool /\ n \in Numbers /\ tool \in [Streams -> Tool]
  BY DEF Types, Tool
<1>2. next \in ToolSteps
  BY DEF ToolSteps
<1> HIDE DEF next, m
<1>3. tool' = [f EXCEPT ![s].n = m]
  BY DEF AfterAppend, next, m, f
<1>4. f[s] = [tool[s] EXCEPT !.step = next]
  BY <1>1
<1>5. tool' = [f EXCEPT ![s] = [f[s] EXCEPT !.n = m]]
  BY <1>3
<1>6. [f[s] EXCEPT !.n = m] = Moved(s, next, m)
  BY <1>1, <1>2, <1>4, RecordFields DEF Moved
<1>7. tool' = [tool EXCEPT ![s] = Moved(s, next, m)]
  BY <1>1, <1>5, <1>6
<1>8. CASE closing
  BY <1>1, <1>7, <1>8 DEF Moved, Tool, ToolSteps, next, m
<1>9. CASE ~closing
  <2>1. n + 1 \in Numbers /\ (ok \/ n > 1)
    BY <1>1, <1>9, NumbersOfEvents DEF next, m
  <2> QED BY <1>1, <1>7, <1>9, <2>1 DEF Moved, Tool, ToolSteps, next, m
<1> QED BY <1>8, <1>9

\* A failed append leaves its event.
LEMMA AppendLeaves ==
  ASSUME Types, NEW s \in Streams, NEW ok \in BOOLEAN, AfterAppend(s, ok),
         tool[s].step \in {"target", "sequence"} \cup Pending
  PROVE  \E r \in Tool : /\ tool' = [tool EXCEPT ![s] = r]
                         /\ WriterLeaves(s, r) /\ r.step \in {"close", "target"}
                         /\ r.n > tool[s].n => ok \/ tool[s].n > 1
<1>1. tool[s].n \in Nat
  BY NumbersOfEvents DEF Types, Tool
<1>2. CASE /\ ok \/ tool[s].n > 1
           /\ Moved(s, "target", tool[s].n + 1) \in Tool
           /\ tool' = [tool EXCEPT ![s] = Moved(s, "target", tool[s].n + 1)]
  <2>1. WriterLeaves(s, Moved(s, "target", tool[s].n + 1))
    BY DEF WriterLeaves, Moved, Pending
  <2> QED BY <1>2, <2>1 DEF Moved
<1>3. CASE /\ Moved(s, "close", tool[s].n) \in Tool
           /\ tool' = [tool EXCEPT ![s] = Moved(s, "close", tool[s].n)]
  <2>1. WriterLeaves(s, Moved(s, "close", tool[s].n))
    BY DEF WriterLeaves, Moved, Pending, Over
  <2>2. ~(tool[s].n > tool[s].n)
    BY <1>1
  <2>3. /\ Moved(s, "close", tool[s].n).step = "close"
        /\ Moved(s, "close", tool[s].n).n = tool[s].n
    BY DEF Moved
  <2> QED BY <1>3, <2>1, <2>2, <2>3
<1> QED BY <1>2, <1>3, AfterAppendIs

\* A writer that goes on or ends leaves its event too.
LEMMA GoingLeaves ==
  ASSUME Types, NEW s \in Streams, tool[s].step # "done", NEW next \in ToolSteps,
         ToolGoes(s, next),
         \/ next \in Over
         \/ tool[s].step = "touch" /\ next = "create"
         \/ tool[s].step = "create" /\ next = "target"
  PROVE  \E r \in Tool : /\ tool' = [tool EXCEPT ![s] = r]
                         /\ WriterLeaves(s, r) /\ r.step = next /\ r.n = tool[s].n
<1>1. WriterLeaves(s, Moved(s, next, tool[s].n))
  BY DEF WriterLeaves, Moved
<1> QED BY <1>1, ToolGoesIs DEF Moved

LEMMA ToolForms ==
  ASSUME Types, NEW s \in Streams, ToolStep(s)
  PROVE  \E r \in Tool : WriterFrame(s, r) /\ WriterForm(s, r)
<1> USE DEF WriterFrame, WriterForm, bounds, table
<1>1. /\ tool[s] \in Tool /\ tool \in [Streams -> Tool]
      /\ faults \in 0 .. MaxFaults /\ MaxFaults \in Nat
      /\ tool[s].n \in Nat
  BY NumbersOfEvents DEF Types, Tool
<1>2. faults \in {faults, faults + 1} \cap 0 .. MaxFaults
  BY <1>1
<1>3. CASE CreateTouch(s)
  <2>1. PICK next \in {"done", "create"} :
          /\ ToolGoes(s, next)
          /\ session' = session \/ (session # "deleted" /\ session' = "active")
    BY <1>3 DEF CreateTouch
  <2>2. PICK r \in Tool : /\ tool' = [tool EXCEPT ![s] = r]
                          /\ WriterLeaves(s, r) /\ r.step = next /\ r.n = tool[s].n
    BY <1>3, <2>1, GoingLeaves DEF CreateTouch, Over, ToolSteps
  <2>3. WriterIdle(s, r)
    BY <1>1, <1>2, <1>3, <2>1, <2>2 DEF CreateTouch, WriterIdle
  <2> QED BY <1>3, <2>2, <2>3 DEF CreateTouch
<1>4. CASE CreateMetadata(s)
  <2>1. PICK r \in Tool : /\ tool' = [tool EXCEPT ![s] = r]
                          /\ WriterLeaves(s, r) /\ r.step = "target" /\ r.n = tool[s].n
    BY <1>4, GoingLeaves DEF CreateMetadata, ToolSteps
  <2>2. WriterIdle(s, r)
    BY <1>1, <1>2, <1>4, <2>1 DEF CreateMetadata, WriterIdle
  <2> QED BY <1>4, <2>1, <2>2 DEF CreateMetadata
<1>5. CASE AppendTarget(s)
  <2>1. CASE Found(s) /\ tool' = [tool EXCEPT ![s].step = "sequence", ![s].read = meta[s]]
    <3> DEFINE r == [step |-> "sequence", n |-> tool[s].n, seq |-> tool[s].seq,
                     read |-> meta[s]]
               f == [tool EXCEPT ![s].step = "sequence"]
    <3>1. ASSUME NEW q \in Tool, NEW m
          PROVE  [[q EXCEPT !.step = "sequence"] EXCEPT !.read = m] =
                   [step |-> "sequence", n |-> q.n, seq |-> q.seq, read |-> m]
      <4>1. [q EXCEPT !.step = "sequence"] = [step |-> "sequence", n |-> q.n, seq |-> q.seq,
                                              read |-> q.read]
        BY DEF Tool
      <4>2. [[step |-> "sequence", n |-> q.n, seq |-> q.seq, read |-> q.read] EXCEPT !.read = m] =
              [step |-> "sequence", n |-> q.n, seq |-> q.seq, read |-> m]
        OBVIOUS
      <4> QED BY <4>1, <4>2, Zenon
    <3>2. r \in Tool
      BY <1>1 DEF Types, Tool, ToolSteps
    <3>3. f[s] = [tool[s] EXCEPT !.step = "sequence"]
      BY <1>1
    <3>4. tool' = [f EXCEPT ![s] = [f[s] EXCEPT !.read = meta[s]]]
      BY <2>1
    <3>5. tool' = [tool EXCEPT ![s] = r]
      BY <1>1, <3>1, <3>3, <3>4
    <3> QED BY <1>5, <2>1, <3>2, <3>5 DEF AppendTarget, WriterReads
  <2>2. CASE AfterAppend(s, FALSE)
    BY <1>1, <1>2, <1>5, <2>2, AppendLeaves DEF AppendTarget, WriterIdle
  <2> QED BY <1>5, <2>1, <2>2 DEF AppendTarget
<1>6. CASE AppendSequence(s)
  <2>1. CASE AfterAppend(s, FALSE) /\ UNCHANGED <<session, nextSeq>>
    BY <1>1, <1>2, <1>6, <2>1, AppendLeaves DEF AppendSequence, WriterIdle
  <2>2. CASE /\ session # "deleted" /\ session' = "active" /\ nextSeq' = nextSeq + 1
             /\ tool' = [tool EXCEPT ![s].step = IF tool[s].n \in Spilled THEN "spill"
                                                 ELSE "commit",
                                     ![s].seq  = nextSeq + 1]
    <3> DEFINE next == IF tool[s].n \in Spilled THEN "spill" ELSE "commit"
               r == [step |-> next, n |-> tool[s].n, seq |-> nextSeq + 1,
                     read |-> tool[s].read]
               f == [tool EXCEPT ![s].step = next]
    <3>1. next \in ToolSteps
      BY DEF ToolSteps
    <3>2. nextSeq + 1 \in Nat
      BY DEF Types
    <3>3. r \in Tool
      BY <1>1, <3>1, <3>2 DEF Tool
    <3> HIDE DEF next
    <3>4. ASSUME NEW q \in Tool, NEW m
          PROVE  [[q EXCEPT !.step = next] EXCEPT !.seq = m] =
                   [step |-> next, n |-> q.n, seq |-> m, read |-> q.read]
      <4>1. [q EXCEPT !.step = next] = [step |-> next, n |-> q.n, seq |-> q.seq,
                                        read |-> q.read]
        BY DEF Tool
      <4>2. [[step |-> next, n |-> q.n, seq |-> q.seq, read |-> q.read] EXCEPT !.seq = m] =
              [step |-> next, n |-> q.n, seq |-> m, read |-> q.read]
        OBVIOUS
      <4> QED BY <4>1, <4>2, Zenon
    <3>5. f[s] = [tool[s] EXCEPT !.step = next]
      BY <1>1
    <3>6. tool' = [f EXCEPT ![s] = [f[s] EXCEPT !.seq = nextSeq + 1]]
      BY <2>2 DEF next
    <3>7. tool' = [tool EXCEPT ![s] = r]
      BY <1>1, <3>4, <3>5, <3>6
    <3> QED BY <1>6, <2>2, <3>3, <3>7 DEF AppendSequence, WriterNumbers, next
  <2> QED BY <1>6, <2>1, <2>2 DEF AppendSequence
<1>7. CASE AppendSpill(s)
  <2>1. CASE PutPayload(tool[s].seq) /\ ToolGoes(s, "commit")
    BY <1>7, <2>1, ToolGoesIs DEF AppendSpill, WriterPuts, PutPayload, ToolSteps
  <2>2. CASE session = "deleted" /\ AfterAppend(s, FALSE) /\ UNCHANGED objects
    BY <1>1, <1>2, <1>7, <2>2, AppendLeaves DEF AppendSpill, WriterIdle, Pending
  <2> QED BY <1>7, <2>1, <2>2 DEF AppendSpill
<1>8. CASE AppendCommit(s)
  <2>1. CASE CommitEvent(s) /\ AfterAppend(s, TRUE)
    BY <1>8, <2>1, AppendLeaves DEF AppendCommit, CommitEvent, WriterCommits, Pending
  <2>2. CASE session # "active" /\ CommitFails(s) /\ UNCHANGED <<meta, events, log, acked>>
    <3>1. CASE tool[s].n \in Spilled
      <4>1. /\ Moved(s, "cleanup", tool[s].n) \in Tool
            /\ tool' = [tool EXCEPT ![s] = Moved(s, "cleanup", tool[s].n)]
        BY <2>2, <3>1, ToolGoesIs DEF CommitFails, ToolSteps
      <4> QED BY <1>2, <1>8, <2>2, <3>1, <4>1 DEF AppendCommit, WriterCleansUp
    <3>2. CASE tool[s].n \notin Spilled
      BY <1>1, <1>2, <1>8, <2>2, <3>2, AppendLeaves
         DEF AppendCommit, CommitFails, WriterIdle, Pending
    <3> QED BY <3>1, <3>2
  <2> QED BY <1>8, <2>1, <2>2 DEF AppendCommit
<1>9. CASE AppendCleanup(s)
  BY <1>1, <1>2, <1>9, AppendLeaves DEF AppendCleanup, DropPayload, WriterIdle, Pending
<1>10. CASE CloseRead(s)
  <2>1. PICK next \in {"put", "done"} : ToolGoes(s, next)
    BY <1>10 DEF CloseRead
  <2>2. PICK r \in Tool : /\ tool' = [tool EXCEPT ![s] = r]
                          /\ WriterLeaves(s, r) /\ r.step = next /\ r.n = tool[s].n
    BY <1>10, <2>1, GoingLeaves DEF CloseRead, Over, ToolSteps
  <2>3. WriterIdle(s, r)
    BY <1>1, <1>2, <1>10, <2>2 DEF CloseRead, WriterIdle
  <2> QED BY <1>10, <2>2, <2>3 DEF CloseRead
<1>11. CASE ClosePut(s)
  <2>1. PICK r \in Tool : /\ tool' = [tool EXCEPT ![s] = r]
                          /\ WriterLeaves(s, r) /\ r.step = "done" /\ r.n = tool[s].n
    BY <1>11, GoingLeaves DEF ClosePut, Over, ToolSteps
  <2>2. WriterIdle(s, r)
    BY <1>1, <1>2, <1>11, <2>1 DEF ClosePut, WriterIdle
  <2> QED BY <1>11, <2>1, <2>2 DEF ClosePut
<1> QED BY <1>3, <1>4, <1>5, <1>6, <1>7, <1>8, <1>9, <1>10, <1>11 DEF ToolStep

LEMMA FaultForms ==
  ASSUME Types, NEW s \in Streams, ToolFault(s) \/ ToolCrash(s)
  PROVE  \E r \in Tool : WriterFrame(s, r) /\ WriterForm(s, r)
<1> USE DEF WriterFrame, WriterForm, bounds, table
<1>1. /\ tool[s] \in Tool /\ tool \in [Streams -> Tool]
      /\ faults \in 0 .. MaxFaults /\ MaxFaults \in Nat
      /\ tool[s].n \in Nat /\ tool[s].step \in ToolSteps
  BY NumbersOfEvents DEF Types, Tool
<1>2. /\ tool[s].step # "done" /\ faults' > 0
      /\ faults' \in {faults, faults + 1} \cap 0 .. MaxFaults
      /\ faults' = faults + 1 /\ faults' \in 1 .. MaxFaults
      /\ UNCHANGED <<sub, deletion, acked, got, disconnects>>
  <2>1. /\ tool[s].step # "done" /\ faults < MaxFaults /\ faults' = faults + 1
        /\ UNCHANGED <<sub, deletion, acked, got, disconnects>>
    BY DEF ToolFault, ToolCrash
  <2> HIDE DEF bounds, table
  <2> QED BY <1>1, <2>1
<1>3. CASE ToolCrash(s)
  <2>1. PICK r \in Tool : /\ tool' = [tool EXCEPT ![s] = r]
                          /\ WriterLeaves(s, r) /\ r.step = "done" /\ r.n = tool[s].n
    BY <1>3, GoingLeaves DEF ToolCrash, Over, ToolSteps
  <2>2. WriterIdle(s, r)
    BY <1>1, <1>2, <1>3, <2>1 DEF ToolCrash, WriterIdle
  <2> QED BY <1>2, <2>1, <2>2
<1>4. CASE ToolFault(s) /\ tool[s].step \in {"target", "sequence", "spill", "cleanup"}
  <2>1. PICK r \in Tool : /\ tool' = [tool EXCEPT ![s] = r]
                          /\ WriterLeaves(s, r) /\ r.step \in {"close", "target"}
                          /\ r.n > tool[s].n => tool[s].n > 1
    BY <1>4, AppendLeaves DEF ToolFault, Pending
  <2>2. CASE UNCHANGED <<table, log>>
    <3>1. WriterIdle(s, r)
      BY <1>1, <1>2, <1>4, <2>1, <2>2 DEF WriterIdle
    <3> QED BY <1>2, <2>1, <3>1
  <2>3. CASE MadeWithError(s)
    <3>1. WriterIdle(s, r)
      BY <1>1, <1>2, <1>4, <2>1, <2>3 DEF MadeWithError, PutPayload, DropPayload, WriterIdle
    <3> QED BY <1>2, <2>1, <3>1
  <2> QED BY <1>4, <2>2, <2>3 DEF ToolFault
<1>5. CASE ToolFault(s) /\ tool[s].step = "commit"
  <2>1. CommitFails(s) /\ (UNCHANGED <<table, log>> \/ CommitEvent(s))
    BY <1>5 DEF ToolFault, MadeWithError
  <2>2. MadeWithError(s) => UNCHANGED <<session, nextSeq, objects>>
    BY <1>5 DEF MadeWithError
  <2>3. CASE tool[s].n \in Spilled
    <3>1. /\ Moved(s, "cleanup", tool[s].n) \in Tool
          /\ tool' = [tool EXCEPT ![s] = Moved(s, "cleanup", tool[s].n)]
      BY <2>1, <2>3, ToolGoesIs DEF CommitFails, ToolSteps
    <3>2. CASE UNCHANGED <<table, log>>
      BY <1>2, <1>5, <2>3, <3>1, <3>2 DEF WriterCleansUp
    <3>3. CASE CommitEvent(s) /\ UNCHANGED <<session, nextSeq, objects>>
      BY <1>2, <1>5, <3>1, <3>3 DEF WriterCommits
    <3> QED BY <1>5, <2>1, <2>2, <3>2, <3>3 DEF ToolFault
  <2>4. CASE tool[s].n \notin Spilled
    <3>1. PICK r \in Tool : /\ tool' = [tool EXCEPT ![s] = r]
                            /\ WriterLeaves(s, r) /\ r.step \in {"close", "target"}
                            /\ r.n > tool[s].n => tool[s].n > 1
      BY <1>5, <2>1, <2>4, AppendLeaves DEF CommitFails, Pending
    <3>2. CASE UNCHANGED <<table, log>>
      <4>1. WriterIdle(s, r)
        BY <1>1, <1>2, <1>5, <3>1, <3>2 DEF WriterIdle
      <4> QED BY <1>2, <3>1, <4>1
    <3>3. CASE CommitEvent(s) /\ UNCHANGED <<session, nextSeq, objects>>
      <4>1. WriterCommits(s, r)
        BY <1>2, <1>5, <3>1, <3>3 DEF WriterCommits
      <4> QED BY <1>2, <3>1, <4>1
    <3> QED BY <1>5, <2>1, <2>2, <3>2, <3>3 DEF ToolFault
  <2> QED BY <2>3, <2>4
<1>6. CASE ToolFault(s) /\ tool[s].step \in {"touch", "create", "close", "put"}
  <2>1. PICK r \in Tool : /\ tool' = [tool EXCEPT ![s] = r]
                          /\ WriterLeaves(s, r) /\ r.step = "done" /\ r.n = tool[s].n
    BY <1>6, GoingLeaves DEF ToolFault, Over, ToolSteps
  <2>2. CASE UNCHANGED <<table, log>>
    <3>1. WriterIdle(s, r)
      BY <1>1, <1>2, <1>6, <2>1, <2>2 DEF WriterIdle
    <3> QED BY <1>2, <2>1, <3>1
  <2>3. CASE MadeWithError(s)
    <3>1. WriterIdle(s, r)
      BY <1>1, <1>2, <1>6, <2>1, <2>3 DEF MadeWithError, WriterIdle
    <3> QED BY <1>2, <2>1, <3>1
  <2> QED BY <1>6, <2>2, <2>3 DEF ToolFault
<1> QED BY <1>1, <1>2, <1>3, <1>4, <1>5, <1>6 DEF ToolSteps

-----------------------------------------------------------------------------
(* What a step of a subscription comes to: its record becomes r.            *)

At(next, cursor, batch, full, drain) ==
    [step |-> next, cursor |-> cursor, batch |-> batch, full |-> full, drain |-> drain]
Becomes(s, r) == sub' = [sub EXCEPT ![s] = r]

PumpFrame(s, r) ==
    /\ Becomes(s, r)
    /\ faults' \in {faults, faults + 1} \cap 0 .. MaxFaults
    /\ disconnects' \in [Streams -> 0 .. MaxDisconnects]
    /\ UNCHANGED <<table, tool, deletion, log, acked>>

\* It ends, without having come to the end of its stream.
PumpEnds(s, r) ==
    /\ sub[s].step \notin {"closed", "gone"}
    /\ r.step = "gone" \/ (r.step = "off" /\ Following(s))
    /\ UNCHANGED got

PumpStarts(s, r) ==
    /\ Found(s)
    /\ r.step = "load" /\ r.batch = {} /\ r.full = FALSE /\ r.drain = FALSE
    /\ \/ sub[s].step = "new" /\ tool[s].n > 1 /\ r.cursor = 0
       \/ sub[s].step = "off" /\ got[s] # <<>> /\ r.cursor = got[s][Len(got[s])].seq
    /\ UNCHANGED got

PumpLoads(s, r) ==
    /\ sub[s].step = "load"
    /\ \E records \in EventsAfter(sub[s].cursor) :
         /\ r.cursor \in {sub[s].cursor} \cup {e.seq : e \in records}
         /\ \A e \in records : e.seq <= r.cursor
         /\ r.batch = {e \in records : e.stream = s}
         /\ r.full = (Cardinality(records) >= BatchSize)
    /\ r.step = "forward" /\ r.drain = sub[s].drain
    /\ UNCHANGED got

PumpShows(s, r) ==
    /\ sub[s].step = "forward"
    /\ r = At("send", sub[s].cursor, sub[s].batch, sub[s].full, sub[s].drain)
    /\ UNCHANGED got

PumpHands(s, r) ==
    /\ sub[s].step = "send"
    /\ \E e \in sub[s].batch :
         /\ Leads(e, sub[s].batch)
         /\ got' = [got EXCEPT ![s] = Append(got[s], e)]
         /\ r = At("forward", sub[s].cursor, sub[s].batch \ {e}, sub[s].full, sub[s].drain)

PumpTurns(s, r) ==
    /\ sub[s].step = "forward" /\ sub[s].batch = {}
    /\ r = At(IF sub[s].full THEN "load" ELSE "status", sub[s].cursor, sub[s].batch,
              sub[s].full, sub[s].drain)
    /\ UNCHANGED got

PumpPolls(s, r) ==
    /\ sub[s].step = "status" /\ Found(s)
    /\ r = At(IF sub[s].drain THEN "closed" ELSE "load", sub[s].cursor, sub[s].batch,
              sub[s].full, sub[s].drain \/ meta[s] = "closed")
    /\ UNCHANGED got

PumpForm(s, r) ==
    \/ PumpEnds(s, r) \/ PumpStarts(s, r) \/ PumpLoads(s, r) \/ PumpShows(s, r)
    \/ PumpHands(s, r) \/ PumpTurns(s, r) \/ PumpPolls(s, r)

LEMMA SubFields ==
  ASSUME NEW q \in Sub, NEW next
  PROVE  [q EXCEPT !.step = next] = [step |-> next, cursor |-> q.cursor, batch |-> q.batch,
                                     full |-> q.full, drain |-> q.drain]
BY DEF Sub

\* How the steps write a subscription down.
Turns(s, next) == sub' = [sub EXCEPT ![s].step = next]
TurnsWith(s, next, batch) == sub' = [sub EXCEPT ![s].step = next, ![s].batch = batch]
TurnsDraining(s, next, drain) == sub' = [sub EXCEPT ![s].step = next, ![s].drain = drain]
TurnsLoaded(s, cursor, batch, full) ==
    sub' = [sub EXCEPT ![s].step = "forward", ![s].cursor = cursor, ![s].batch = batch,
                       ![s].full = full]

LEMMA TurnsIs ==
  ASSUME Types, NEW s \in Streams, NEW next
  PROVE  [sub EXCEPT ![s].step = next] =
           [sub EXCEPT ![s] = At(next, sub[s].cursor, sub[s].batch, sub[s].full, sub[s].drain)]
<1>1. [sub EXCEPT ![s].step = next] = [sub EXCEPT ![s] = [sub[s] EXCEPT !.step = next]]
  OBVIOUS
<1>2. sub[s] \in Sub
  BY DEF Types
<1>3. [sub[s] EXCEPT !.step = next] =
        At(next, sub[s].cursor, sub[s].batch, sub[s].full, sub[s].drain)
  BY <1>2, SubFields DEF At
<1> QED BY <1>1, <1>3

LEMMA SubChanges ==
  ASSUME Types, NEW s \in Streams, NEW next, NEW v
  PROVE  /\ Turns(s, next) =>
              Becomes(s, At(next, sub[s].cursor, sub[s].batch, sub[s].full, sub[s].drain))
         /\ TurnsWith(s, next, v) =>
              Becomes(s, At(next, sub[s].cursor, v, sub[s].full, sub[s].drain))
         /\ TurnsDraining(s, next, v) =>
              Becomes(s, At(next, sub[s].cursor, sub[s].batch, sub[s].full, v))
<1> DEFINE q == At(next, sub[s].cursor, sub[s].batch, sub[s].full, sub[s].drain)
           f == [sub EXCEPT ![s].step = next]
<1>1. sub \in [Streams -> Sub]
  BY DEF Types
<1>2. f = [sub EXCEPT ![s] = q]
  BY TurnsIs
<1>3. /\ [q EXCEPT !.batch = v] = At(next, sub[s].cursor, v, sub[s].full, sub[s].drain)
      /\ [q EXCEPT !.drain = v] = At(next, sub[s].cursor, sub[s].batch, sub[s].full, v)
  BY DEF At
<1>4. /\ [f EXCEPT ![s].batch = v] = [f EXCEPT ![s] = [f[s] EXCEPT !.batch = v]]
      /\ [f EXCEPT ![s].drain = v] = [f EXCEPT ![s] = [f[s] EXCEPT !.drain = v]]
  OBVIOUS
<1>5. /\ Turns(s, next) => sub' = f
      /\ TurnsWith(s, next, v) => sub' = [f EXCEPT ![s].batch = v]
      /\ TurnsDraining(s, next, v) => sub' = [f EXCEPT ![s].drain = v]
  BY DEF Turns, TurnsWith, TurnsDraining
<1> HIDE DEF f, q
<1>6. f[s] = q
  BY <1>1, <1>2
<1>7. \A m : [f EXCEPT ![s] = m] = [sub EXCEPT ![s] = m]
  BY <1>1, <1>2
<1>8. /\ [f EXCEPT ![s].batch = v] = [sub EXCEPT ![s] = [q EXCEPT !.batch = v]]
      /\ [f EXCEPT ![s].drain = v] = [sub EXCEPT ![s] = [q EXCEPT !.drain = v]]
  BY <1>4, <1>6, <1>7
<1>9. Turns(s, next) => Becomes(s, q)
  BY <1>2, <1>5 DEF Becomes
<1>10. TurnsWith(s, next, v) =>
         Becomes(s, At(next, sub[s].cursor, v, sub[s].full, sub[s].drain))
  BY <1>3, <1>5, <1>8 DEF Becomes
<1>11. TurnsDraining(s, next, v) =>
         Becomes(s, At(next, sub[s].cursor, sub[s].batch, sub[s].full, v))
  BY <1>3, <1>5, <1>8 DEF Becomes
<1> QED BY <1>9, <1>10, <1>11 DEF q

LEMMA LoadChanges ==
  ASSUME Types, NEW s \in Streams, NEW cursor, NEW batch, NEW full,
         TurnsLoaded(s, cursor, batch, full)
  PROVE  Becomes(s, At("forward", cursor, batch, full, sub[s].drain))
<1> DEFINE q == At("forward", sub[s].cursor, sub[s].batch, sub[s].full, sub[s].drain)
           q1 == At("forward", cursor, sub[s].batch, sub[s].full, sub[s].drain)
           q2 == At("forward", cursor, batch, sub[s].full, sub[s].drain)
           q3 == At("forward", cursor, batch, full, sub[s].drain)
           f == [sub EXCEPT ![s].step = "forward"]
           f1 == [f EXCEPT ![s].cursor = cursor]
           f2 == [f1 EXCEPT ![s].batch = batch]
           f3 == [f2 EXCEPT ![s].full = full]
<1>1. sub \in [Streams -> Sub]
  BY DEF Types
<1>2. f = [sub EXCEPT ![s] = q]
  BY TurnsIs
<1>3. /\ [q EXCEPT !.cursor = cursor] = q1
      /\ [q1 EXCEPT !.batch = batch] = q2
      /\ [q2 EXCEPT !.full = full] = q3
  BY DEF At
<1>4. /\ f1 = [f EXCEPT ![s] = [f[s] EXCEPT !.cursor = cursor]]
      /\ f2 = [f1 EXCEPT ![s] = [f1[s] EXCEPT !.batch = batch]]
      /\ f3 = [f2 EXCEPT ![s] = [f2[s] EXCEPT !.full = full]]
  OBVIOUS
<1>5. sub' = f3
  BY DEF TurnsLoaded
<1> HIDE DEF f, f1, f2, f3, q, q1, q2, q3
<1>6. f[s] = q
  BY <1>1, <1>2
<1>7. f1 = [f EXCEPT ![s] = q1]
  BY <1>3, <1>4, <1>6
<1>8. f1 = [sub EXCEPT ![s] = q1]
  BY <1>1, <1>2, <1>7
<1>9. f1[s] = q1
  BY <1>1, <1>8
<1>10. f2 = [f1 EXCEPT ![s] = q2]
  BY <1>3, <1>4, <1>9
<1>11. f2 = [sub EXCEPT ![s] = q2]
  BY <1>1, <1>8, <1>10
<1>12. f2[s] = q2
  BY <1>1, <1>11
<1>13. f3 = [f2 EXCEPT ![s] = q3]
  BY <1>3, <1>4, <1>12
<1>14. f3 = [sub EXCEPT ![s] = q3]
  BY <1>1, <1>11, <1>13
<1> QED BY <1>5, <1>14 DEF Becomes, q3

LEMMA PumpForms ==
  ASSUME Types, NEW s \in Streams, PumpStep(s) \/ PumpFault(s) \/ Disconnect(s)
  PROVE  \E r \in Sub : PumpFrame(s, r) /\ PumpForm(s, r)
<1>1. /\ sub[s] \in Sub /\ events \subseteq Record
      /\ faults \in 0 .. MaxFaults /\ MaxFaults \in Nat /\ got \in [Streams -> Seq(Record)]
      /\ disconnects \in [Streams -> 0 .. MaxDisconnects] /\ MaxDisconnects \in Nat
  BY NumbersOfEvents, BoundsAssumption DEF Types
<1>2. /\ faults \in {faults, faults + 1} \cap 0 .. MaxFaults
      /\ faults < MaxFaults => faults + 1 \in {faults, faults + 1} \cap 0 .. MaxFaults
  BY <1>1
<1>3. \A next \in SubSteps, cursor \in Nat, batch \in SUBSET Record,
         full \in BOOLEAN, drain \in BOOLEAN : At(next, cursor, batch, full, drain) \in Sub
  BY DEF Sub, At
<1>4. /\ sub[s].cursor \in Nat /\ sub[s].batch \in SUBSET Record
      /\ sub[s].full \in BOOLEAN /\ sub[s].drain \in BOOLEAN
  BY <1>1 DEF Sub
<1> DEFINE kept == /\ faults' = faults /\ disconnects' = disconnects
                   /\ UNCHANGED <<table, tool, deletion, log, acked>>
<1>5. ASSUME kept, NEW r, Becomes(s, r) PROVE PumpFrame(s, r)
  BY <1>1, <1>2, <1>5 DEF PumpFrame
<1>6. CASE Subscribe(s)
  <2>1. kept /\ UNCHANGED got
    BY <1>6 DEF Subscribe, bounds
  <2>2. CASE Found(s) /\ StartPump(s, 0)
    <3>1. At("load", 0, {}, FALSE, FALSE) \in Sub
      BY <1>3 DEF SubSteps
    <3>2. Becomes(s, At("load", 0, {}, FALSE, FALSE))
      BY <2>2 DEF StartPump, Becomes, At
    <3>3. PumpStarts(s, At("load", 0, {}, FALSE, FALSE))
      BY <1>6, <2>1, <2>2 DEF Subscribe, PumpStarts, At
    <3> QED BY <1>5, <2>1, <3>1, <3>2, <3>3 DEF PumpForm
  <2>3. CASE sub' = [sub EXCEPT ![s].step = "gone"]
    <3> DEFINE r == At("gone", sub[s].cursor, sub[s].batch, sub[s].full, sub[s].drain)
    <3>1. r \in Sub
      BY <1>3, <1>4 DEF SubSteps
    <3>2. Turns(s, "gone")
      BY <2>3 DEF Turns
    <3>3. Becomes(s, r)
      BY <3>2, SubChanges
    <3>4. PumpEnds(s, r)
      BY <1>6, <2>1 DEF Subscribe, PumpEnds, At
    <3> HIDE DEF r
    <3> QED BY <1>5, <2>1, <3>1, <3>3, <3>4 DEF PumpForm
  <2> QED BY <1>6, <2>2, <2>3 DEF Subscribe
<1>7. CASE Resume(s)
  <2> DEFINE last == got[s][Len(got[s])].seq
  <2>1. kept /\ UNCHANGED got /\ got[s] # <<>>
    BY <1>7 DEF Resume, bounds
  <2>2. got[s] \in Seq(Record) /\ Len(got[s]) \in 1 .. Len(got[s])
    BY <1>1, <2>1
  <2>3. got[s][Len(got[s])] \in Record
    BY <2>2
  <2>4. last \in Nat /\ Last(got[s]).seq = last
    BY <2>3 DEF Record, Last
  <2>5. CASE Found(s) /\ StartPump(s, Last(got[s]).seq)
    <3>1. At("load", last, {}, FALSE, FALSE) \in Sub
      BY <1>3, <2>4 DEF SubSteps
    <3>2. Becomes(s, At("load", last, {}, FALSE, FALSE))
      BY <2>4, <2>5 DEF StartPump, Becomes, At
    <3>3. PumpStarts(s, At("load", last, {}, FALSE, FALSE))
      BY <1>7, <2>1, <2>5 DEF Resume, PumpStarts, At
    <3> QED BY <1>5, <2>1, <3>1, <3>2, <3>3 DEF PumpForm
  <2>6. CASE sub' = [sub EXCEPT ![s].step = "gone"]
    <3> DEFINE r == At("gone", sub[s].cursor, sub[s].batch, sub[s].full, sub[s].drain)
    <3>1. r \in Sub
      BY <1>3, <1>4 DEF SubSteps
    <3>2. Turns(s, "gone")
      BY <2>6 DEF Turns
    <3>3. Becomes(s, r)
      BY <3>2, SubChanges
    <3>4. PumpEnds(s, r)
      BY <1>7, <2>1 DEF Resume, PumpEnds, At
    <3> HIDE DEF r
    <3> QED BY <1>5, <2>1, <3>1, <3>3, <3>4 DEF PumpForm
  <2> QED BY <1>7, <2>5, <2>6 DEF Resume
<1>8. CASE Load(s)
  <2>1. kept /\ UNCHANGED got /\ sub[s].step = "load"
    BY <1>8 DEF Load, bounds
  <2>2. PICK records \in EventsAfter(sub[s].cursor) :
          \E cursor \in {sub[s].cursor} \cup {e.seq : e \in records} :
            /\ \A e \in records : e.seq <= cursor
            /\ TurnsLoaded(s, cursor, {e \in records : e.stream = s},
                           Cardinality(records) >= BatchSize)
    BY <1>8 DEF Load, TurnsLoaded
  <2>3. PICK cursor \in {sub[s].cursor} \cup {e.seq : e \in records} :
            /\ \A e \in records : e.seq <= cursor
            /\ TurnsLoaded(s, cursor, {e \in records : e.stream = s},
                           Cardinality(records) >= BatchSize)
    BY <2>2
  <2> DEFINE batch == {e \in records : e.stream = s}
             full == (Cardinality(records) >= BatchSize)
             r == At("forward", cursor, batch, full, sub[s].drain)
  <2>4. records \subseteq Record
    BY <1>1 DEF EventsAfter, Batches
  <2>5. cursor \in Nat
    BY <1>4, <2>3, <2>4 DEF Record
  <2>6. batch \in SUBSET Record
    BY <2>4
  <2>7. full \in BOOLEAN
    OBVIOUS
  <2>8. Becomes(s, r)
    BY <2>3, LoadChanges
  <2>9. PumpLoads(s, r)
    BY <2>1, <2>2, <2>3 DEF PumpLoads, At
  <2> HIDE DEF batch, full
  <2>10. r \in Sub
    BY <1>3, <1>4, <2>5, <2>6, <2>7 DEF SubSteps
  <2> HIDE DEF r
  <2> QED BY <1>5, <2>1, <2>8, <2>9, <2>10 DEF PumpForm
<1>9. CASE Rehydrate(s)
  <2>1. kept /\ UNCHANGED got /\ sub[s].step = "forward"
    BY <1>9 DEF Rehydrate, bounds
  <2>2. Turns(s, "send") \/ TurnsWith(s, "off", {})
    BY <1>9 DEF Rehydrate, Turns, TurnsWith
  <2>3. CASE Turns(s, "send")
    <3> DEFINE r == At("send", sub[s].cursor, sub[s].batch, sub[s].full, sub[s].drain)
    <3>1. r \in Sub
      BY <1>3, <1>4 DEF SubSteps
    <3>2. Becomes(s, r)
      BY <2>3, SubChanges
    <3>3. PumpShows(s, r)
      BY <2>1 DEF PumpShows
    <3> HIDE DEF r
    <3> QED BY <1>5, <2>1, <3>1, <3>2, <3>3 DEF PumpForm
  <2>4. CASE TurnsWith(s, "off", {})
    <3> DEFINE r == At("off", sub[s].cursor, {}, sub[s].full, sub[s].drain)
    <3>1. r \in Sub
      BY <1>3, <1>4 DEF SubSteps
    <3>2. Becomes(s, r)
      BY <2>4, SubChanges
    <3>3. PumpEnds(s, r)
      BY <2>1 DEF PumpEnds, Following, At
    <3> HIDE DEF r
    <3> QED BY <1>5, <2>1, <3>1, <3>2, <3>3 DEF PumpForm
  <2> QED BY <2>2, <2>3, <2>4
<1>10. CASE Forward(s)
  <2>1. kept /\ sub[s].step = "send"
    BY <1>10 DEF Forward, bounds
  <2>2. PICK e \in sub[s].batch :
          /\ Leads(e, sub[s].batch)
          /\ got' = [got EXCEPT ![s] = Append(got[s], e)]
          /\ TurnsWith(s, "forward", sub[s].batch \ {e})
    BY <1>10 DEF Forward, TurnsWith
  <2> DEFINE r == At("forward", sub[s].cursor, sub[s].batch \ {e}, sub[s].full, sub[s].drain)
  <2>3. r \in Sub
    BY <1>3, <1>4 DEF SubSteps
  <2>4. Becomes(s, r)
    BY <2>2, SubChanges
  <2>5. PumpHands(s, r)
    BY <2>1, <2>2 DEF PumpHands
  <2> HIDE DEF r
  <2> QED BY <1>5, <2>1, <2>3, <2>4, <2>5 DEF PumpForm
<1>11. CASE Forwarded(s)
  <2> DEFINE next == IF sub[s].full THEN "load" ELSE "status"
             r == At(next, sub[s].cursor, sub[s].batch, sub[s].full, sub[s].drain)
  <2>1. kept /\ UNCHANGED got /\ sub[s].step = "forward" /\ sub[s].batch = {}
    BY <1>11 DEF Forwarded, bounds
  <2>2. next \in SubSteps
    BY DEF SubSteps
  <2>3. PumpTurns(s, r)
    BY <2>1 DEF PumpTurns
  <2>4. Turns(s, next)
    BY <1>11 DEF Forwarded, Turns
  <2> HIDE DEF next
  <2>5. r \in Sub
    BY <1>3, <1>4, <2>2
  <2>6. Becomes(s, r)
    BY <2>4, SubChanges
  <2> HIDE DEF r
  <2> QED BY <1>5, <2>1, <2>3, <2>5, <2>6 DEF PumpForm
<1>12. CASE CheckClosed(s)
  <2> DEFINE next == IF ~Found(s) THEN "gone" ELSE IF sub[s].drain THEN "closed" ELSE "load"
             drain == Found(s) /\ (sub[s].drain \/ meta[s] = "closed")
             r == At(next, sub[s].cursor, sub[s].batch, sub[s].full, drain)
  <2>1. kept /\ UNCHANGED got /\ sub[s].step = "status"
    BY <1>12 DEF CheckClosed, bounds
  <2>2. next \in SubSteps /\ drain \in BOOLEAN
    BY DEF SubSteps
  <2>3. TurnsDraining(s, next, drain)
    BY <1>12 DEF CheckClosed, TurnsDraining
  <2>4. ~Found(s) => next = "gone"
    OBVIOUS
  <2>5. Found(s) => /\ next = IF sub[s].drain THEN "closed" ELSE "load"
                    /\ drain = (sub[s].drain \/ meta[s] = "closed")
    BY <1>4
  <2> HIDE DEF next, drain
  <2>6. r \in Sub
    BY <1>3, <1>4, <2>2
  <2>7. Becomes(s, r)
    BY <2>3, SubChanges
  <2>8. CASE ~Found(s)
    <3>1. PumpEnds(s, r)
      BY <2>1, <2>4, <2>8 DEF PumpEnds, At
    <3> HIDE DEF r
    <3> QED BY <1>5, <2>1, <2>6, <2>7, <3>1 DEF PumpForm
  <2>9. CASE Found(s)
    <3>1. PumpPolls(s, r)
      BY <2>1, <2>5, <2>9 DEF PumpPolls
    <3> HIDE DEF r
    <3> QED BY <1>5, <2>1, <2>6, <2>7, <3>1 DEF PumpForm
  <2> QED BY <2>8, <2>9
<1>13. CASE PumpFault(s) \/ Disconnect(s)
  <2> DEFINE r == At("off", sub[s].cursor, {}, sub[s].full, sub[s].drain)
  <2>1. r \in Sub
    BY <1>3, <1>4 DEF SubSteps
  <2>2. TurnsWith(s, "off", {})
    BY <1>13 DEF PumpFault, Disconnect, TurnsWith
  <2>3. Becomes(s, r)
    BY <2>2, SubChanges
  <2>4. PumpEnds(s, r)
    BY <1>13 DEF PumpFault, Disconnect, PumpEnds, Following, At
  <2>5. disconnects' \in [Streams -> 0 .. MaxDisconnects]
    <3>1. CASE disconnects' = disconnects
      BY <1>1, <3>1
    <3>2. CASE Disconnect(s)
      <4>1. disconnects[s] + 1 \in 0 .. MaxDisconnects
        BY <1>1, <3>2 DEF Disconnect
      <4>2. disconnects' = [disconnects EXCEPT ![s] = disconnects[s] + 1]
        BY <3>2 DEF Disconnect
      <4> QED BY <1>1, <4>1, <4>2
    <3> QED BY <1>13, <3>1, <3>2 DEF PumpFault
  <2>6. /\ UNCHANGED <<table, tool, deletion, log, acked>>
        /\ faults' \in {faults, faults + 1} \cap 0 .. MaxFaults
    BY <1>2, <1>13 DEF PumpFault, Disconnect
  <2> HIDE DEF r
  <2> QED BY <2>1, <2>3, <2>4, <2>5, <2>6 DEF PumpFrame, PumpForm
<1> QED BY <1>6, <1>7, <1>8, <1>9, <1>10, <1>11, <1>12, <1>13 DEF PumpStep

-----------------------------------------------------------------------------
(* What a step of the deletion comes to: its record becomes d.              *)

DeletionFrame(d) ==
    /\ deletion' = d
    /\ UNCHANGED <<nextSeq, tool, sub, log, acked, got, disconnects>>

DeletionMarks(d) ==
    /\ deletion.step = "none" /\ d.step = "list"
    /\ d.events = deletion.events /\ d.passes = deletion.passes
    /\ session' = "deleted"
    /\ UNCHANGED <<meta, events, objects, faults>>

DeletionFindsNone(d) ==
    /\ deletion.step \in {"list", "quiet"} /\ events = {}
    /\ d.step = IF d.passes = 2 THEN "done" ELSE "quiet"
    /\ d.events = deletion.events /\ d.passes = deletion.passes + 1
    /\ UNCHANGED <<session, meta, events, objects, faults>>

DeletionFindsSome(d) ==
    /\ deletion.step \in {"list", "quiet"}
    /\ d.step = "delete" /\ d.events = events /\ d.passes = 0
    /\ UNCHANGED <<session, meta, events, objects, faults>>

DeletionDropsStream(d) ==
    /\ deletion.step = "delete" /\ d.step = "delete"
    /\ d.events = deletion.events /\ d.passes = deletion.passes
    /\ \E s \in Streams : meta' = [meta EXCEPT ![s] = "none"]
    /\ UNCHANGED <<session, events, objects, faults>>

DeletionDropsPayload(d) ==
    /\ deletion.step = "delete" /\ d = deletion
    /\ \E e \in deletion.events : objects' = objects \ {e.seq}
    /\ UNCHANGED <<session, meta, events, faults>>

DeletionDropsEvent(d) ==
    /\ deletion.step = "delete" /\ d.step = "delete" /\ d.passes = deletion.passes
    /\ \E e \in deletion.events :
         /\ e.n \in Spilled => e.seq \notin objects
         /\ events' = events \ {e}
         /\ d.events = deletion.events \ {e}
    /\ UNCHANGED <<session, meta, objects, faults>>

DeletionFails(d) ==
    /\ deletion.step \in {"list", "delete", "quiet"} /\ d.step = "failed"
    /\ d.events = deletion.events /\ d.passes = deletion.passes
    /\ faults' = faults + 1 /\ faults' \in 0 .. MaxFaults
    /\ UNCHANGED <<session, meta, events, objects>>

DeletionTurns(d) ==
    /\ deletion.step = "delete" /\ deletion.events = {}
    /\ d.step = "list" /\ d.events = {} /\ d.passes = deletion.passes
    /\ UNCHANGED <<session, meta, events, objects, faults>>

DeletionForm(d) ==
    \/ DeletionMarks(d) \/ DeletionFindsNone(d) \/ DeletionFindsSome(d)
    \/ DeletionDropsStream(d) \/ DeletionDropsPayload(d) \/ DeletionDropsEvent(d)
    \/ DeletionFails(d) \/ DeletionTurns(d)

LEMMA DeletionFields ==
  ASSUME NEW d \in Deletion, NEW next, NEW v
  PROVE  /\ [d EXCEPT !.step = next] = [step |-> next, streams |-> d.streams,
                                        events |-> d.events, passes |-> d.passes]
         /\ [d EXCEPT !.streams = v] = [step |-> d.step, streams |-> v,
                                        events |-> d.events, passes |-> d.passes]
         /\ [d EXCEPT !.events = v] = [step |-> d.step, streams |-> d.streams,
                                       events |-> v, passes |-> d.passes]
         /\ [d EXCEPT !.step = next, !.passes = v] =
              [step |-> next, streams |-> d.streams, events |-> d.events, passes |-> v]
<1> DEFINE q == [step |-> next, streams |-> d.streams, events |-> d.events,
                 passes |-> d.passes]
<1>1. [d EXCEPT !.step = next] = q
  BY DEF Deletion
<1>2. [q EXCEPT !.passes = v] =
        [step |-> next, streams |-> d.streams, events |-> d.events, passes |-> v]
  OBVIOUS
<1>3. /\ [d EXCEPT !.streams = v] = [step |-> d.step, streams |-> v,
                                     events |-> d.events, passes |-> d.passes]
      /\ [d EXCEPT !.events = v] = [step |-> d.step, streams |-> d.streams,
                                    events |-> v, passes |-> d.passes]
  BY DEF Deletion
<1>4. [d EXCEPT !.step = next, !.passes = v] = [[d EXCEPT !.step = next] EXCEPT !.passes = v]
  OBVIOUS
<1> HIDE DEF q
<1>5. [[d EXCEPT !.step = next] EXCEPT !.passes = v] = [q EXCEPT !.passes = v]
  BY <1>1
<1> QED BY <1>1, <1>2, <1>3, <1>4, <1>5, Zenon DEF q

LEMMA DeletionForms ==
  ASSUME Types, MarkDeleted \/ DeletionStep \/ DeletionFault
  PROVE  \E d \in Deletion : DeletionFrame(d) /\ DeletionForm(d)
<1> USE DEF DeletionFrame, DeletionForm, bounds, table
<1>1. /\ deletion \in Deletion /\ events \subseteq Record
      /\ faults \in 0 .. MaxFaults /\ MaxFaults \in Nat
      /\ deletion.streams \in SUBSET Streams /\ deletion.events \in SUBSET Record
      /\ deletion.passes \in Nat
  BY NumbersOfEvents DEF Types, Deletion
<1> DEFINE It(next, streams, evs, passes) ==
             [step |-> next, streams |-> streams, events |-> evs, passes |-> passes]
<1>2. \A next \in {"none", "list", "delete", "quiet", "done", "failed"},
         streams \in SUBSET Streams, evs \in SUBSET Record, passes \in Nat :
         It(next, streams, evs, passes) \in Deletion
  BY DEF Deletion
<1>3. CASE MarkDeleted
  <2> DEFINE d == It("list", deletion.streams, deletion.events, deletion.passes)
  <2>1. d \in Deletion
    BY <1>1, <1>2
  <2>2. deletion' = d
    BY <1>1, <1>3, DeletionFields DEF MarkDeleted
  <2>3. DeletionMarks(d)
    BY <1>3 DEF MarkDeleted, DeletionMarks
  <2> HIDE DEF d
  <2> QED BY <1>3, <2>1, <2>2, <2>3 DEF MarkDeleted
<1>4. CASE ListRecords
  <2> DEFINE streams == {s \in Streams : meta[s] # "none"}
             passes == deletion.passes + 1
             next == IF passes = 2 THEN "done" ELSE "quiet"
  <2>1. CASE /\ events = {}
             /\ deletion' = [deletion EXCEPT !.step = next, !.passes = passes]
    <3> DEFINE d == It(next, deletion.streams, deletion.events, passes)
    <3>1. d \in Deletion
      <4>1. next \in {"quiet", "done"} /\ passes \in Nat
        BY <1>1
      <4> HIDE DEF next, passes
      <4> QED BY <1>1, <1>2, <4>1
    <3>2. deletion' = d
      <4> HIDE DEF next, passes
      <4> QED BY <1>1, <2>1, DeletionFields
    <3>3. DeletionFindsNone(d)
      BY <1>4, <2>1 DEF ListRecords, DeletionFindsNone
    <3> HIDE DEF d
    <3> QED BY <1>4, <3>1, <3>2, <3>3 DEF ListRecords
  <2>2. CASE deletion' = It("delete", streams, events, 0)
    <3> DEFINE d == It("delete", streams, events, 0)
    <3>1. d \in Deletion
      <4>1. streams \in SUBSET Streams
        OBVIOUS
      <4> HIDE DEF streams
      <4> QED BY <1>1, <1>2, <4>1
    <3>2. DeletionFindsSome(d)
      BY <1>4, <2>2 DEF ListRecords, DeletionFindsSome
    <3> HIDE DEF d
    <3>3. deletion' = d
      BY <2>2 DEF d
    <3> QED BY <1>4, <3>1, <3>2, <3>3 DEF ListRecords
  <2> QED BY <1>4, <2>1, <2>2 DEF ListRecords
<1>5. CASE \E s \in Streams : DeleteStream(s)
  <2>1. PICK s \in Streams : DeleteStream(s)
    BY <1>5
  <2> DEFINE d == It(deletion.step, deletion.streams \ {s}, deletion.events, deletion.passes)
  <2>2. d \in Deletion
    BY <1>1, <1>2, <2>1 DEF DeleteStream
  <2>3. deletion' = d
    BY <1>1, <2>1, DeletionFields DEF DeleteStream
  <2>4. DeletionDropsStream(d)
    BY <2>1 DEF DeleteStream, DeletionDropsStream
  <2> HIDE DEF d
  <2> QED BY <2>1, <2>2, <2>3, <2>4 DEF DeleteStream
<1>6. CASE DeletePayload
  BY <1>1, <1>6 DEF DeletePayload, NextToDelete, DropPayload, DeletionDropsPayload
<1>7. CASE DeleteEvent
  <2>1. PICK e \in deletion.events :
          /\ NextToDelete(e)
          /\ e.n \in Spilled => e.seq \notin objects
          /\ events' = events \ {e}
          /\ deletion' = [deletion EXCEPT !.events = deletion.events \ {e}]
    BY <1>7 DEF DeleteEvent
  <2> DEFINE d == It(deletion.step, deletion.streams, deletion.events \ {e}, deletion.passes)
  <2>2. d \in Deletion
    BY <1>1, <1>2, <2>1 DEF NextToDelete
  <2>3. deletion' = d
    BY <1>1, <2>1, DeletionFields
  <2>4. DeletionDropsEvent(d)
    BY <1>7, <2>1 DEF DeleteEvent, NextToDelete, DeletionDropsEvent
  <2> HIDE DEF d
  <2> QED BY <1>7, <2>2, <2>3, <2>4 DEF DeleteEvent
<1>8. CASE DeletionFault
  <2> DEFINE d == It("failed", deletion.streams, deletion.events, deletion.passes)
  <2>1. d \in Deletion
    BY <1>1, <1>2
  <2>2. deletion' = d
    BY <1>1, <1>8, DeletionFields DEF DeletionFault
  <2>3. faults + 1 \in 0 .. MaxFaults
    BY <1>1, <1>8 DEF DeletionFault
  <2>4. DeletionFails(d)
    BY <1>8, <2>3 DEF DeletionFault, DeletionFails
  <2> HIDE DEF d
  <2> QED BY <1>8, <2>1, <2>2, <2>4 DEF DeletionFault
<1>9. CASE DeletedAll
  <2> DEFINE d == It("list", deletion.streams, deletion.events, deletion.passes)
  <2>1. d \in Deletion
    BY <1>1, <1>2
  <2>2. deletion' = d
    BY <1>1, <1>9, DeletionFields DEF DeletedAll
  <2>3. DeletionTurns(d)
    BY <1>9 DEF DeletedAll, DeletionTurns
  <2> HIDE DEF d
  <2> QED BY <1>9, <2>1, <2>2, <2>3 DEF DeletedAll
<1> QED BY <1>3, <1>4, <1>5, <1>6, <1>7, <1>8, <1>9 DEF DeletionStep

\* Every step is one of these.
LEMMA StepForms ==
  ASSUME Types, [Next]_vars
  PROVE  \/ \E s \in Streams, r \in Tool : WriterFrame(s, r) /\ WriterForm(s, r)
         \/ \E s \in Streams, r \in Sub : PumpFrame(s, r) /\ PumpForm(s, r)
         \/ \E d \in Deletion : DeletionFrame(d) /\ DeletionForm(d)
         \/ UNCHANGED vars
<1>1. CASE UNCHANGED vars
  BY <1>1
<1>2. CASE \E s \in Streams : ToolStep(s) \/ ToolFault(s) \/ ToolCrash(s)
  BY <1>2, ToolForms, FaultForms
<1>3. CASE \E s \in Streams : PumpStep(s) \/ PumpFault(s) \/ Disconnect(s)
  BY <1>3, PumpForms
<1>4. CASE MarkDeleted \/ DeletionStep \/ DeletionFault
  BY <1>4, DeletionForms
<1> QED BY <1>1, <1>2, <1>3, <1>4 DEF Next

-----------------------------------------------------------------------------
(* The invariants, for any number of streams.                               *)

\* A writer between the number it took and the end of its append is the only one
\* with that number, and there is no event with it unless the commit answered an
\* error although it was made.
Fits(s) ==
    /\ tool[s].step \in Pending => tool[s].seq \in 1 .. nextSeq
    /\ tool[s].step = "spill" => tool[s].n \in Spilled
    /\ tool[s].step \in {"spill", "commit"} => \A e \in events : e.seq # tool[s].seq
    /\ tool[s].step = "cleanup" =>
         \A e \in events : e.seq = tool[s].seq => faults > 0 /\ e.stream = s /\ e.n = tool[s].n
    /\ tool[s].step \notin Over =>
         /\ \A n \in acked[s] : n < tool[s].n
         /\ \A e \in events : e.stream = s =>
              e.n < tool[s].n \/ (tool[s].step = "cleanup" /\ e.n = tool[s].n)
    /\ tool[s].step \in {"sequence"} \cup Pending => tool[s].read = "open"
    /\ meta[s] = "closed" => tool[s].step = "done"
    /\ tool[s].n > 1 => log[s] # <<>>
WritersFit == \A s \in Streams : Fits(s)
SeqsDiffer ==
    \A s, u \in Streams :
        tool[s].step \in Pending /\ tool[u].step \in Pending /\ tool[s].seq = tool[u].seq
          => s = u

\* Events have the numbers that were given out, one each, and are in the history.
Logged(s, e) == \E i \in 1 .. Len(log[s]) : log[s][i] = e
EventIds ==
    /\ \A e \in events : e.seq \in 1 .. nextSeq /\ Logged(e.stream, e)
    /\ \A d, e \in events : d.seq = e.seq => d = e

\* What the deletion knows: events it has read and not deleted.
DeletionKnown ==
    /\ deletion.step # "none" => session = "deleted"
    /\ deletion.step \in {"none", "list", "quiet", "done"} => deletion.events = {}
    /\ deletion.events \subseteq events
    /\ deletion.step = "done" => events = {}
    /\ deletion.step \in {"none", "list", "delete"} => deletion.passes = 0
    /\ deletion.step = "quiet" => deletion.passes = 1
    /\ deletion.step = "failed" => faults > 0

\* While the session lives the payload of an answered event is there, and so is
\* one that is about to be committed.
PayloadsKept ==
    session # "deleted" =>
        /\ \A e \in events : e.n \in Spilled /\ e.n \in acked[e.stream] => e.seq \in objects
        /\ \A s \in Streams :
             tool[s].step = "commit" /\ tool[s].n \in Spilled => tool[s].seq \in objects

\* Unless something failed, a payload belongs to an event or to an append, and
\* one that is missing to an event that the deletion is about to delete.
Owned(p) ==
    \/ \E e \in events : e.n \in Spilled /\ e.seq = p
    \/ \E s \in Streams :
         /\ tool[s].step \in {"commit", "cleanup"} /\ tool[s].n \in Spilled
         /\ tool[s].seq = p
PayloadsGo ==
    faults = 0 =>
        /\ \A p \in objects : Owned(p)
        /\ \A p : Owned(p) => p \in objects \/ \E d \in deletion.events : d.seq = p

\* A subscription has handed over what its cursor is past, in the order of the
\* numbers, but for the rest of its batch.
InOrder(s) ==
    /\ \A i \in 1 .. Len(got[s]) : Logged(s, got[s][i])
    /\ \A i, j \in 1 .. Len(got[s]) : i < j => got[s][i].seq < got[s][j].seq
    /\ sub[s].step = "new" => got[s] = <<>>
    /\ Following(s) =>
         /\ \A i \in 1 .. Len(got[s]) : got[s][i].seq <= sub[s].cursor
         /\ \A e \in sub[s].batch :
              /\ e.seq <= sub[s].cursor
              /\ Logged(s, e)
              /\ \A i \in 1 .. Len(got[s]) : got[s][i].seq < e.seq
         /\ \A d, e \in sub[s].batch : d.seq = e.seq => d = e
    /\ sub[s].step \in {"load", "status"} => sub[s].batch = {}
ClientsInOrder == \A s \in Streams : InOrder(s)

StoreInv ==
    /\ Types /\ WritersFit /\ SeqsDiffer /\ EventIds /\ DeletionKnown
    /\ PayloadsKept /\ PayloadsGo /\ ClientsInOrder

LEMMA StoreInvInit == Init => StoreInv
<1> SUFFICES ASSUME Init PROVE StoreInv
  OBVIOUS
<1>1. 1 \in Numbers
  BY NumbersOfEvents
<1>2. Types
  BY <1>1, NumbersOfEvents, BoundsAssumption
     DEF Init, Types, Tool, ToolSteps, Sub, SubSteps, Deletion
<1>3. \A s \in Streams : /\ tool[s].step = "touch" /\ tool[s].n = 1
                         /\ sub[s].step = "new" /\ got[s] = <<>>
                         /\ meta[s] = "none" /\ acked[s] = {} /\ sub[s].batch = {}
  BY DEF Init
<1>4. WritersFit /\ SeqsDiffer
  BY <1>3 DEF Init, WritersFit, Fits, SeqsDiffer, Pending, Over
<1>5. EventIds /\ DeletionKnown /\ PayloadsKept /\ PayloadsGo
  BY <1>3 DEF Init, EventIds, DeletionKnown, PayloadsKept, PayloadsGo, Owned
<1>6. ClientsInOrder
  BY <1>3 DEF ClientsInOrder, InOrder, Following
<1> QED BY <1>2, <1>4, <1>5, <1>6 DEF StoreInv

\* What every step of a writer leaves alone.
LEMMA WriterFacts ==
  ASSUME StoreInv, NEW s \in Streams, NEW r \in Tool, WriterFrame(s, r), WriterForm(s, r)
  PROVE  /\ tool \in [Streams -> Tool] /\ tool'[s] = r
         /\ nextSeq \in Nat /\ nextSeq' \in {nextSeq, nextSeq + 1}
         /\ faults \in Nat /\ faults' \in Nat /\ faults' >= faults
         /\ (session' = "deleted") = (session = "deleted")
         /\ \A u \in Streams \ {s} : /\ tool'[u] = tool[u] /\ meta'[u] = meta[u]
                                     /\ log'[u] = log[u] /\ acked'[u] = acked[u]
<1>1. /\ Types
      /\ tool \in [Streams -> Tool] /\ meta \in [Streams -> {"none", "open", "closed"}]
      /\ log \in [Streams -> Seq(Record)] /\ acked \in [Streams -> SUBSET Numbers]
      /\ nextSeq \in Nat /\ faults \in 0 .. MaxFaults /\ MaxFaults \in Nat
  BY NumbersOfEvents DEF StoreInv, Types
<1>2. /\ tool'[s] = r /\ \A u \in Streams \ {s} : tool'[u] = tool[u]
  BY <1>1 DEF WriterFrame
<1>3. CASE WriterIdle(s, r)
  BY <1>1, <1>2, <1>3 DEF WriterIdle
<1>4. CASE WriterReads(s, r) \/ WriterPuts(s, r) \/ WriterCleansUp(s, r)
  BY <1>1, <1>2, <1>4 DEF WriterReads, WriterPuts, WriterCleansUp, table
<1>5. CASE WriterNumbers(s, r)
  BY <1>1, <1>2, <1>5 DEF WriterNumbers
<1>6. CASE WriterCommits(s, r)
  <2>1. /\ meta' = [meta EXCEPT ![s] = tool[s].read]
        /\ log' = [log EXCEPT ![s] = Append(log[s], [seq |-> tool[s].seq, stream |-> s,
                                                     n |-> tool[s].n])]
        /\ \/ acked' = acked
           \/ acked' = [acked EXCEPT ![s] = acked[s] \cup ({tool[s].n} \cap Spilled)]
        /\ nextSeq' = nextSeq /\ session' = session
        /\ faults' = faults \/ faults' = faults + 1
    BY <1>6 DEF WriterCommits, CommitEvent
  <2>2. faults' \in Nat /\ faults' >= faults
    BY <1>1, <1>6 DEF WriterCommits
  <2> QED BY <1>1, <1>2, <2>1, <2>2
<1> QED BY <1>3, <1>4, <1>5, <1>6 DEF WriterForm

LEMMA WriterTypes ==
  ASSUME Types, NEW s \in Streams, NEW r \in Tool, WriterFrame(s, r), WriterForm(s, r)
  PROVE  Types'
<1>1. /\ session \in {"none", "active", "deleted"} /\ nextSeq \in Nat
      /\ meta \in [Streams -> {"none", "open", "closed"}] /\ events \subseteq Record
      /\ objects \subseteq Nat /\ tool \in [Streams -> Tool]
      /\ log \in [Streams -> Seq(Record)] /\ acked \in [Streams -> SUBSET Numbers]
      /\ faults \in 0 .. MaxFaults
  BY DEF Types
<1>2. tool' \in [Streams -> Tool]
  BY <1>1 DEF WriterFrame
<1>3. /\ sub' \in [Streams -> Sub] /\ deletion' \in Deletion
      /\ got' \in [Streams -> Seq(Record)]
      /\ disconnects' \in [Streams -> 0 .. MaxDisconnects]
  BY DEF WriterFrame, Types
<1>4. tool[s].seq \in Nat /\ tool[s].n \in Numbers /\ tool[s].read \in {"none", "open", "closed"}
  BY <1>1 DEF Tool
<1>5. CASE WriterIdle(s, r)
  <2>1. faults' \in 0 .. MaxFaults /\ events' \subseteq Record
        /\ log' \in [Streams -> Seq(Record)] /\ acked' \in [Streams -> SUBSET Numbers]
    BY <1>1, <1>5 DEF WriterIdle
  <2>2. session' \in {"none", "active", "deleted"} /\ nextSeq' \in Nat
    BY <1>1, <1>5 DEF WriterIdle
  <2>3. meta' \in [Streams -> {"none", "open", "closed"}]
    BY <1>1, <1>5 DEF WriterIdle
  <2>4. objects' \subseteq Nat
    BY <1>1, <1>4, <1>5 DEF WriterIdle
  <2> QED BY <1>2, <1>3, <2>1, <2>2, <2>3, <2>4 DEF Types
<1>6. CASE WriterReads(s, r) \/ WriterCleansUp(s, r)
  <2>1. /\ faults' \in 0 .. MaxFaults
        /\ UNCHANGED <<session, nextSeq, meta, events, objects, log, acked>>
    BY <1>1, <1>6 DEF WriterReads, WriterCleansUp, table
  <2> QED BY <1>1, <1>2, <1>3, <2>1 DEF Types
<1>7. CASE WriterNumbers(s, r) \/ WriterPuts(s, r)
  <2>1. /\ session' \in {"none", "active", "deleted"} /\ nextSeq' \in Nat
        /\ objects' \subseteq Nat /\ UNCHANGED <<meta, events, log, acked, faults>>
    BY <1>1, <1>4, <1>7 DEF WriterNumbers, WriterPuts
  <2> QED BY <1>1, <1>2, <1>3, <2>1 DEF Types
<1>8. CASE WriterCommits(s, r)
  <2> DEFINE e == [seq |-> tool[s].seq, stream |-> s, n |-> tool[s].n]
  <2>1. e \in Record
    BY <1>4 DEF Record
  <2> HIDE DEF e
  <2>2. /\ meta' = [meta EXCEPT ![s] = tool[s].read]
        /\ events' = events \cup {e}
        /\ log' = [log EXCEPT ![s] = Append(log[s], e)]
        /\ UNCHANGED <<session, nextSeq, objects>>
    BY <1>8 DEF WriterCommits, CommitEvent, e
  <2>3. Append(log[s], e) \in Seq(Record)
    BY <1>1, <2>1
  <2>4. /\ log' \in [Streams -> Seq(Record)] /\ events' \subseteq Record
        /\ meta' \in [Streams -> {"none", "open", "closed"}]
    BY <1>1, <1>4, <2>1, <2>2, <2>3
  <2>5. acked' \in [Streams -> SUBSET Numbers]
    <3>1. CASE acked' = acked
      BY <1>1, <3>1
    <3>2. CASE acked' = [acked EXCEPT ![s] = acked[s] \cup ({tool[s].n} \cap Spilled)]
      BY <1>1, <1>4, <3>2
    <3> QED BY <1>8, <3>1, <3>2 DEF WriterCommits
  <2>6. faults' \in 0 .. MaxFaults
    BY <1>1, <1>8 DEF WriterCommits
  <2> QED BY <1>1, <1>2, <1>3, <2>2, <2>4, <2>5, <2>6 DEF Types
<1> QED BY <1>5, <1>6, <1>7, <1>8 DEF WriterForm

LEMMA PumpTypes ==
  ASSUME Types, NEW s \in Streams, NEW r \in Sub, PumpFrame(s, r), PumpForm(s, r)
  PROVE  Types'
<1>1. sub' \in [Streams -> Sub]
  BY DEF Types, PumpFrame, Becomes
<1>2. got' \in [Streams -> Seq(Record)]
  <2>1. got \in [Streams -> Seq(Record)] /\ sub[s].batch \subseteq Record
    BY DEF Types, Sub
  <2>2. CASE UNCHANGED got
    BY <2>1, <2>2
  <2>3. CASE PumpHands(s, r)
    <3>1. PICK e \in Record : got' = [got EXCEPT ![s] = Append(got[s], e)]
      BY <2>1, <2>3 DEF PumpHands
    <3>2. Append(got[s], e) \in Seq(Record)
      BY <2>1
    <3> QED BY <2>1, <3>1, <3>2
  <2> QED BY <2>2, <2>3
          DEF PumpForm, PumpEnds, PumpStarts, PumpLoads, PumpShows, PumpTurns, PumpPolls
<1>3. faults' \in 0 .. MaxFaults
  BY DEF PumpFrame
<1> QED BY <1>1, <1>2, <1>3 DEF Types, PumpFrame, table

LEMMA DeletionTypes ==
  ASSUME Types, NEW d \in Deletion, DeletionFrame(d), DeletionForm(d)
  PROVE  Types'
<1> USE DEF Types, DeletionFrame
<1>1. CASE DeletionMarks(d)
  BY <1>1 DEF DeletionMarks
<1>2. CASE DeletionFindsNone(d) \/ DeletionFindsSome(d) \/ DeletionTurns(d)
  BY <1>2 DEF DeletionFindsNone, DeletionFindsSome, DeletionTurns
<1>3. CASE DeletionDropsStream(d)
  BY <1>3 DEF DeletionDropsStream
<1>4. CASE DeletionDropsPayload(d) \/ DeletionDropsEvent(d)
  BY <1>4 DEF DeletionDropsPayload, DeletionDropsEvent
<1>5. CASE DeletionFails(d)
  BY <1>5 DEF DeletionFails
<1> QED BY <1>1, <1>2, <1>3, <1>4, <1>5 DEF DeletionForm

-----------------------------------------------------------------------------
(* A writer's step keeps the invariants.                                    *)

\* What a commit does, by parts.
LEMMA CommitFacts ==
  ASSUME StoreInv, NEW s \in Streams, NEW r \in Tool, WriterFrame(s, r), WriterCommits(s, r)
  PROVE  \E e \in Record :
           /\ e.seq = tool[s].seq /\ e.stream = s /\ e.n = tool[s].n
           /\ tool[s].step = "commit" /\ session = "active"
           /\ events' = events \cup {e}
           /\ log'[s] = Append(log[s], e) /\ log[s] \in Seq(Record)
           /\ Len(log'[s]) = Len(log[s]) + 1 /\ Len(log[s]) \in Nat
           /\ log'[s][Len(log[s]) + 1] = e
           /\ \A i \in 1 .. Len(log[s]) : log'[s][i] = log[s][i]
           /\ meta'[s] = "open"
<1> DEFINE e == [seq |-> tool[s].seq, stream |-> s, n |-> tool[s].n]
<1>1. /\ meta \in [Streams -> {"none", "open", "closed"}]
      /\ tool \in [Streams -> Tool] /\ log \in [Streams -> Seq(Record)]
  BY DEF StoreInv, Types
<1>2. e \in Record /\ e.seq = tool[s].seq /\ e.stream = s /\ e.n = tool[s].n
  BY <1>1 DEF Tool, Record
<1>3. /\ tool[s].step = "commit" /\ session = "active"
      /\ meta' = [meta EXCEPT ![s] = tool[s].read]
      /\ events' = events \cup {e}
      /\ log' = [log EXCEPT ![s] = Append(log[s], e)]
  BY DEF WriterCommits, CommitEvent
<1>4. tool[s].read = "open"
  BY <1>3 DEF StoreInv, WritersFit, Fits, Pending
<1> HIDE DEF e
<1>5. log'[s] = Append(log[s], e) /\ log[s] \in Seq(Record)
  BY <1>1, <1>3
<1>6. /\ Len(log'[s]) = Len(log[s]) + 1 /\ Len(log[s]) \in Nat
      /\ log'[s][Len(log[s]) + 1] = e
      /\ \A i \in 1 .. Len(log[s]) : log'[s][i] = log[s][i]
  BY <1>2, <1>5
<1> QED BY <1>1, <1>2, <1>3, <1>4, <1>5, <1>6

\* The history grows only.
LEMMA LoggedStays ==
  ASSUME StoreInv, NEW s \in Streams, NEW r \in Tool, WriterFrame(s, r), WriterForm(s, r)
  PROVE  \A u \in Streams : \A e : Logged(u, e) => Logged(u, e)'
<1>1. CASE WriterCommits(s, r)
  <2>1. \A u \in Streams \ {s} : log'[u] = log[u]
    BY WriterFacts
  <2>2. /\ Len(log'[s]) = Len(log[s]) + 1 /\ Len(log[s]) \in Nat
        /\ \A i \in 1 .. Len(log[s]) : log'[s][i] = log[s][i]
    BY <1>1, CommitFacts
  <2> QED BY <2>1, <2>2 DEF Logged
<1>2. CASE log' = log
  BY <1>2 DEF Logged
<1> QED BY <1>1, <1>2
        DEF WriterForm, WriterIdle, WriterReads, WriterNumbers, WriterPuts, WriterCleansUp

\* The other writers keep to their events.
LEMMA OthersFit ==
  ASSUME StoreInv, NEW s \in Streams, NEW r \in Tool, WriterFrame(s, r), WriterForm(s, r),
         NEW u \in Streams, u # s
  PROVE  Fits(u)'
<1>1. /\ tool'[u] = tool[u] /\ meta'[u] = meta[u] /\ log'[u] = log[u] /\ acked'[u] = acked[u]
      /\ nextSeq \in Nat /\ nextSeq' \in {nextSeq, nextSeq + 1}
      /\ faults \in Nat /\ faults' \in Nat /\ faults' >= faults
      /\ tool[u] \in Tool
  BY WriterFacts
<1>2. Fits(u)
  BY DEF StoreInv, WritersFit
<1>3. tool[u].step \in Pending => tool[u].seq \in 1 .. nextSeq'
  BY <1>1, <1>2 DEF Fits, Tool
<1>4. \A e \in events' \ events : e.seq = tool[s].seq /\ e.stream = s /\ tool[s].step = "commit"
  <2>1. CASE WriterCommits(s, r)
    BY <2>1, CommitFacts
  <2>2. CASE events' = events
    BY <2>2
  <2> QED BY <2>1, <2>2
          DEF WriterForm, WriterIdle, WriterReads, WriterNumbers, WriterPuts, WriterCleansUp,
              table
<1>5. \A e \in events' \ events : e.stream # u /\ (tool[u].step \in Pending => e.seq # tool[u].seq)
  BY <1>4 DEF StoreInv, SeqsDiffer, Pending
<1>6. /\ tool[u].step \in {"spill", "commit"} => \A e \in events' : e.seq # tool[u].seq
      /\ tool[u].step = "cleanup" =>
           \A e \in events' : e.seq = tool[u].seq => faults' > 0 /\ e.stream = u /\ e.n = tool[u].n
      /\ tool[u].step \notin Over =>
           \A e \in events' : e.stream = u =>
              e.n < tool[u].n \/ (tool[u].step = "cleanup" /\ e.n = tool[u].n)
  BY <1>1, <1>2, <1>5 DEF Fits, Pending
<1> QED BY <1>1, <1>2, <1>3, <1>6 DEF Fits

\* So does the one that makes the step.
LEMMA OwnFits ==
  ASSUME StoreInv, NEW s \in Streams, NEW r \in Tool, WriterFrame(s, r), WriterForm(s, r)
  PROVE  Fits(s)'
<1>1. /\ tool'[s] = r /\ tool[s] \in Tool /\ Types
      /\ nextSeq \in Nat /\ nextSeq' \in {nextSeq, nextSeq + 1}
      /\ faults \in Nat /\ faults' \in Nat /\ faults' >= faults
  BY WriterFacts DEF StoreInv
<1>2. Fits(s)
  BY DEF StoreInv, WritersFit
<1>3. /\ tool[s].n \in Nat /\ events \subseteq Record
      /\ \A e \in Record : e.n \in Nat /\ e.seq \in Nat
      /\ \A n \in acked[s] : n \in Nat
      /\ meta \in [Streams -> {"none", "open", "closed"}]
  <2>1. Numbers \subseteq Nat
    BY NumbersOfEvents
  <2>2. acked[s] \subseteq Numbers /\ tool[s].n \in Numbers
    BY <1>1 DEF Types, Tool
  <2>3. \A e \in Record : e.n \in Numbers /\ e.seq \in Nat
    BY DEF Record
  <2>4. events \subseteq Record /\ meta \in [Streams -> {"none", "open", "closed"}]
    BY <1>1 DEF Types
  <2> QED BY <2>1, <2>2, <2>3, <2>4
<1>4. CASE WriterIdle(s, r)
  <2>1. /\ tool[s].step # "done" /\ r.n \in {tool[s].n, tool[s].n + 1}
        /\ r.step \in Over \cup {"create", "target"} /\ r.step \notin Pending
        /\ r.step # "sequence"
    BY <1>4 DEF WriterIdle, WriterLeaves, Over, Pending
  <2>2. UNCHANGED <<events, log, acked>>
    BY <1>4 DEF WriterIdle
  <2>3. r.step \notin Over =>
          /\ tool[s].step \notin Over
          /\ tool[s].step = "cleanup" => r.n = tool[s].n + 1
    BY <1>4 DEF WriterIdle, WriterLeaves, Over, Pending
  <2>4. r.step \notin Over =>
          /\ \A n \in acked[s] : n < r.n
          /\ \A e \in events : e.stream = s => e.n < r.n
    BY <1>2, <1>3, <2>1, <2>3 DEF Fits
  <2>5. meta'[s] = "closed" => r.step = "done"
    BY <1>2, <1>3, <1>4, <2>1 DEF WriterIdle, Fits
  <2>6. r.n > 1 => log[s] # <<>>
    BY <1>2, <1>3, <1>4, <2>1 DEF WriterIdle, Fits
  <2> QED BY <1>1, <2>1, <2>2, <2>4, <2>5, <2>6 DEF Fits, Pending
<1>5. CASE WriterReads(s, r)
  <2>1. /\ r.step = "sequence" /\ r.n = tool[s].n /\ r.read = meta[s] /\ meta[s] = "open"
        /\ UNCHANGED <<events, log, acked, meta>> /\ tool[s].step = "target"
    BY <1>2, <1>3, <1>5 DEF WriterReads, Found, Fits, table
  <2> QED BY <1>1, <1>2, <2>1 DEF Fits, Pending, Over
<1>6. CASE WriterNumbers(s, r)
  <2>1. /\ r.step \in {"spill", "commit"} /\ r.n = tool[s].n /\ r.read = tool[s].read
        /\ r.seq = nextSeq + 1 /\ nextSeq' = nextSeq + 1 /\ tool[s].step = "sequence"
        /\ r.step = "spill" => tool[s].n \in Spilled
        /\ UNCHANGED <<events, log, acked, meta>>
    BY <1>6 DEF WriterNumbers
  <2>2. \A e \in events : e.seq # nextSeq + 1
    BY <1>1 DEF StoreInv, EventIds
  <2>3. r.seq \in 1 .. nextSeq'
    BY <1>1, <2>1
  <2> QED BY <1>1, <1>2, <2>1, <2>2, <2>3 DEF Fits, Pending, Over
<1>7. CASE WriterPuts(s, r)
  <2>1. /\ r.step = "commit" /\ r.n = tool[s].n /\ r.read = tool[s].read
        /\ r.seq = tool[s].seq /\ tool[s].step = "spill"
        /\ UNCHANGED <<nextSeq, events, log, acked, meta>>
    BY <1>7 DEF WriterPuts, Moved
  <2> QED BY <1>1, <1>2, <2>1 DEF Fits, Pending, Over
<1>8. CASE WriterCleansUp(s, r)
  <2>1. /\ r.step = "cleanup" /\ r.n = tool[s].n /\ r.read = tool[s].read
        /\ r.seq = tool[s].seq /\ tool[s].step = "commit"
        /\ UNCHANGED <<nextSeq, events, log, acked, meta>>
    BY <1>8 DEF WriterCleansUp, Moved, table
  <2> QED BY <1>1, <1>2, <2>1 DEF Fits, Pending, Over
<1>9. CASE WriterCommits(s, r)
  <2>1. PICK e \in Record :
          /\ e.seq = tool[s].seq /\ e.stream = s /\ e.n = tool[s].n
          /\ tool[s].step = "commit" /\ events' = events \cup {e}
          /\ Len(log'[s]) = Len(log[s]) + 1 /\ Len(log[s]) \in Nat
          /\ meta'[s] = "open"
    BY <1>9, CommitFacts
  <2>2. log'[s] # <<>>
    BY <2>1
  <2>3. /\ \A n \in acked[s] : n < tool[s].n
        /\ \A f \in events : f.stream = s => f.n < tool[s].n
        /\ \A f \in events : f.seq # tool[s].seq
        /\ tool[s].read = "open" /\ tool[s].seq \in 1 .. nextSeq
    BY <1>2, <2>1 DEF Fits, Over, Pending
  <2>4. nextSeq' = nextSeq
    BY <1>9 DEF WriterCommits
  <2>5. CASE WriterLeaves(s, r) /\ r.step \in {"close", "target"}
    <3>1. r.step = "target" => r.n = tool[s].n + 1
      BY <2>1, <2>5 DEF WriterLeaves, Over
    <3>2. \A n \in acked'[s] : n \in acked[s] \/ n = tool[s].n
      <4>1. CASE acked' = acked
        BY <4>1
      <4>2. CASE acked' = [acked EXCEPT ![s] = acked[s] \cup ({tool[s].n} \cap Spilled)]
        BY <1>1, <4>2 DEF Types
      <4> QED BY <1>9, <4>1, <4>2 DEF WriterCommits
    <3>3. r.step = "target" =>
            /\ \A n \in acked'[s] : n < r.n
            /\ \A f \in events' : f.stream = s => f.n < r.n
      <4> SUFFICES ASSUME r.step = "target"
                   PROVE  /\ \A n \in acked'[s] : n < r.n
                          /\ \A f \in events' : f.stream = s => f.n < r.n
        OBVIOUS
      <4>1. r.n = tool[s].n + 1 /\ tool[s].n \in Nat
        BY <1>3, <3>1
      <4>2. \A n \in acked'[s] : n < r.n
        BY <1>3, <2>3, <3>2, <4>1
      <4>3. ASSUME NEW f \in events', f.stream = s PROVE f.n < r.n
        <5>1. CASE f = e
          BY <2>1, <4>1, <5>1
        <5>2. CASE f \in events
          BY <1>3, <2>3, <4>1, <4>3, <5>2
        <5> QED BY <2>1, <5>1, <5>2
      <4> QED BY <4>2, <4>3
    <3> QED BY <1>1, <2>1, <2>2, <2>5, <3>3 DEF Fits, Over, Pending
  <2>6. CASE r = Moved(s, "cleanup", tool[s].n) /\ faults' > 0 /\ UNCHANGED acked
    <3>1. r.step = "cleanup" /\ r.n = tool[s].n /\ r.seq = tool[s].seq /\ r.read = tool[s].read
      BY <2>6 DEF Moved
    <3>2. \A f \in events' : f.stream = s => f.n < r.n \/ f.n = r.n
      BY <2>1, <2>3, <3>1
    <3>3. \A f \in events' : f.seq = r.seq => faults' > 0 /\ f.stream = s /\ f.n = r.n
      BY <2>1, <2>3, <2>6, <3>1
    <3> QED BY <1>1, <2>1, <2>2, <2>3, <2>4, <2>6, <3>1, <3>2, <3>3 DEF Fits, Over, Pending
  <2>7. faults' \in 1 .. MaxFaults => faults' > 0
    BY <1>1, NumbersOfEvents
  <2> QED BY <1>9, <2>5, <2>6, <2>7 DEF WriterCommits
<1> QED BY <1>4, <1>5, <1>6, <1>7, <1>8, <1>9 DEF WriterForm

LEMMA WriterSeqsDiffer ==
  ASSUME StoreInv, NEW s \in Streams, NEW r \in Tool, WriterFrame(s, r), WriterForm(s, r)
  PROVE  SeqsDiffer'
<1>1. /\ tool'[s] = r /\ nextSeq \in Nat
      /\ \A u \in Streams \ {s} : tool'[u] = tool[u]
  BY WriterFacts
<1>2. \A u \in Streams : tool[u].step \in Pending => tool[u].seq \in 1 .. nextSeq
  BY DEF StoreInv, WritersFit, Fits
<1>3. \/ r.step \notin Pending
      \/ r.seq = tool[s].seq /\ tool[s].step \in Pending
      \/ r.seq = nextSeq + 1
  BY DEF WriterForm, WriterIdle, WriterReads, WriterNumbers, WriterPuts, WriterCommits,
         WriterCleansUp, WriterLeaves, Moved, Pending, Over
<1>4. \A u \in Streams \ {s} :
        tool'[u].step \in Pending /\ r.step \in Pending => tool'[u].seq # r.seq
  BY <1>1, <1>2, <1>3 DEF StoreInv, SeqsDiffer
<1> QED BY <1>1, <1>4 DEF StoreInv, SeqsDiffer

LEMMA WriterEventIds ==
  ASSUME StoreInv, NEW s \in Streams, NEW r \in Tool, WriterFrame(s, r), WriterForm(s, r)
  PROVE  EventIds'
<1>1. nextSeq \in Nat /\ nextSeq' \in {nextSeq, nextSeq + 1}
  BY WriterFacts
<1>2. /\ \A e \in events : e.seq \in 1 .. nextSeq /\ Logged(e.stream, e) /\ e.stream \in Streams
      /\ \A d, e \in events : d.seq = e.seq => d = e
  BY DEF StoreInv, EventIds, Types, Record
<1>3. \A e \in events : e.seq \in 1 .. nextSeq'
  BY <1>1, <1>2
<1>4. \A u \in Streams : \A e : Logged(u, e) => Logged(u, e)'
  BY LoggedStays
<1>5. CASE WriterCommits(s, r)
  <2>1. PICK e \in Record :
          /\ e.seq = tool[s].seq /\ e.stream = s /\ tool[s].step = "commit"
          /\ events' = events \cup {e}
          /\ Len(log'[s]) = Len(log[s]) + 1 /\ Len(log[s]) \in Nat
          /\ log'[s][Len(log[s]) + 1] = e
    BY <1>5, CommitFacts
  <2>2. tool[s].seq \in 1 .. nextSeq /\ \A d \in events : d.seq # tool[s].seq
    BY <2>1 DEF StoreInv, WritersFit, Fits, Pending
  <2>3. e.seq \in 1 .. nextSeq'
    BY <1>1, <2>1, <2>2
  <2>4. Logged(s, e)'
    BY <2>1 DEF Logged
  <2>5. \A d \in events' : d.seq \in 1 .. nextSeq' /\ Logged(d.stream, d)'
    BY <1>2, <1>3, <1>4, <2>1, <2>3, <2>4
  <2>6. \A d, f \in events' : d.seq = f.seq => d = f
    BY <1>2, <2>1, <2>2
  <2> QED BY <2>5, <2>6 DEF EventIds
<1>6. CASE events' = events
  BY <1>2, <1>3, <1>4, <1>6 DEF EventIds
<1> QED BY <1>5, <1>6
        DEF WriterForm, WriterIdle, WriterReads, WriterNumbers, WriterPuts, WriterCleansUp,
            table

LEMMA WriterDeletionKnown ==
  ASSUME StoreInv, NEW s \in Streams, NEW r \in Tool, WriterFrame(s, r), WriterForm(s, r)
  PROVE  DeletionKnown'
<1>1. /\ (session' = "deleted") = (session = "deleted") /\ deletion' = deletion
      /\ faults \in Nat /\ faults' \in Nat /\ faults' >= faults
  BY WriterFacts DEF WriterFrame
<1>2. events \subseteq events' /\ (session = "deleted" => events' = events)
  <2>1. CASE WriterCommits(s, r)
    BY <2>1, CommitFacts
  <2>2. CASE events' = events
    BY <2>2
  <2> QED BY <2>1, <2>2
          DEF WriterForm, WriterIdle, WriterReads, WriterNumbers, WriterPuts, WriterCleansUp,
              table
<1> QED BY <1>1, <1>2 DEF StoreInv, DeletionKnown

LEMMA WriterPayloadsKept ==
  ASSUME StoreInv, NEW s \in Streams, NEW r \in Tool, WriterFrame(s, r), WriterForm(s, r)
  PROVE  PayloadsKept'
<1> SUFFICES ASSUME session # "deleted"
             PROVE  /\ \A e \in events' : e.n \in Spilled /\ e.n \in acked'[e.stream]
                                            => e.seq \in objects'
                    /\ \A u \in Streams : tool'[u].step = "commit" /\ tool'[u].n \in Spilled
                                            => tool'[u].seq \in objects'
  BY WriterFacts DEF PayloadsKept
<1>1. /\ tool'[s] = r /\ Fits(s) /\ Types
      /\ \A u \in Streams \ {s} : tool'[u] = tool[u] /\ acked'[u] = acked[u]
  BY WriterFacts DEF StoreInv, WritersFit
<1>2. /\ \A e \in events : e.n \in Spilled /\ e.n \in acked[e.stream] => e.seq \in objects
      /\ \A u \in Streams : tool[u].step = "commit" /\ tool[u].n \in Spilled
                              => tool[u].seq \in objects
  BY DEF StoreInv, PayloadsKept
<1>3. /\ \A e \in events : e.stream \in Streams
      /\ tool[s].n \in Nat /\ \A n \in acked[s] : n \in Nat
  BY <1>1, NumbersOfEvents DEF Types, Record, Tool
<1>4. CASE WriterIdle(s, r)
  <2>1. /\ r.step # "commit" /\ UNCHANGED <<events, acked>>
        /\ \/ objects \subseteq objects'
           \/ tool[s].step = "cleanup" /\ objects' = objects \ {tool[s].seq}
    BY <1>4 DEF WriterIdle, WriterLeaves, Over
  <2>2. CASE tool[s].step = "cleanup" /\ objects' = objects \ {tool[s].seq}
    <3>1. \A u \in Streams \ {s} : tool[u].step = "commit" => tool[u].seq # tool[s].seq
      BY <2>2 DEF StoreInv, SeqsDiffer, Pending
    <3>2. \A e \in events : e.seq = tool[s].seq => e.stream = s /\ e.n = tool[s].n
      BY <1>1, <2>2 DEF Fits
    <3>3. tool[s].n \notin acked[s]
      BY <1>1, <1>3, <2>2 DEF Fits, Over
    <3> QED BY <1>1, <1>2, <2>1, <2>2, <3>1, <3>2, <3>3
  <2> QED BY <1>1, <1>2, <2>1, <2>2
<1>5. CASE WriterReads(s, r) \/ WriterCleansUp(s, r)
  <2>1. r.step # "commit" /\ UNCHANGED <<events, objects, acked>>
    BY <1>5 DEF WriterReads, WriterCleansUp, Moved, table
  <2> QED BY <1>1, <1>2, <2>1
<1>6. CASE WriterNumbers(s, r)
  <2>1. /\ r.step = "commit" => r.n \notin Spilled
        /\ UNCHANGED <<events, objects, acked>>
    BY <1>6 DEF WriterNumbers
  <2> QED BY <1>1, <1>2, <2>1
<1>7. CASE WriterPuts(s, r)
  <2>1. /\ r.seq = tool[s].seq /\ objects' = objects \cup {tool[s].seq}
        /\ UNCHANGED <<events, acked>>
    BY <1>7 DEF WriterPuts, Moved
  <2> QED BY <1>1, <1>2, <2>1
<1>8. CASE WriterCommits(s, r)
  <2>1. PICK e \in Record :
          /\ e.seq = tool[s].seq /\ e.stream = s /\ e.n = tool[s].n
          /\ tool[s].step = "commit" /\ events' = events \cup {e}
    BY <1>8, CommitFacts
  <2>2. r.step # "commit" /\ UNCHANGED objects
    BY <1>8 DEF WriterCommits, Moved
  <2>3. e.n \in Spilled => e.seq \in objects'
    BY <1>2, <2>1, <2>2
  <2>4. \A f \in events : f.stream = s => f.n # tool[s].n
    BY <1>1, <1>3, <2>1 DEF Fits, Over, Types, Record
  <2>5. \A n \in acked'[s] : n \in acked[s] \/ n = tool[s].n
    <3>1. CASE acked' = acked
      BY <3>1
    <3>2. CASE acked' = [acked EXCEPT ![s] = acked[s] \cup ({tool[s].n} \cap Spilled)]
      BY <1>1, <3>2 DEF Types
    <3> QED BY <1>8, <3>1, <3>2 DEF WriterCommits
  <2>6. \A f \in events : f.n \in Spilled /\ f.n \in acked'[f.stream] => f.seq \in objects'
    BY <1>1, <1>2, <1>3, <2>2, <2>4, <2>5
  <2> QED BY <1>1, <1>2, <2>1, <2>2, <2>3, <2>6
<1> QED BY <1>4, <1>5, <1>6, <1>7, <1>8 DEF WriterForm

LEMMA WriterPayloadsGo ==
  ASSUME StoreInv, NEW s \in Streams, NEW r \in Tool, WriterFrame(s, r), WriterForm(s, r)
  PROVE  PayloadsGo'
<1> DEFINE Doing(u) == tool[u].step \in {"commit", "cleanup"} /\ tool[u].n \in Spilled
           DoingThen(u) == tool'[u].step \in {"commit", "cleanup"} /\ tool'[u].n \in Spilled
<1> SUFFICES ASSUME faults' = 0
             PROVE  /\ \A p \in objects' : Owned(p)'
                    /\ \A p : Owned(p)' => \/ p \in objects'
                                           \/ \E d \in deletion.events : d.seq = p
  BY DEF PayloadsGo, WriterFrame
<1>1. /\ tool'[s] = r /\ faults = 0 /\ Fits(s) /\ tool[s] \in Tool
      /\ \A u \in Streams \ {s} : tool'[u] = tool[u]
  BY WriterFacts DEF StoreInv, WritersFit
<1>2. /\ \A p \in objects : Owned(p)
      /\ \A p : Owned(p) => p \in objects \/ \E d \in deletion.events : d.seq = p
  BY <1>1 DEF StoreInv, PayloadsGo
<1>3. ASSUME UNCHANGED events, Doing(s) = DoingThen(s), r.seq = tool[s].seq \/ ~Doing(s)
      PROVE  \A p : Owned(p)' = Owned(p)
  <2>1. \A u \in Streams : DoingThen(u) = Doing(u) /\ (Doing(u) => tool'[u].seq = tool[u].seq)
    BY <1>1, <1>3
  <2> QED BY <1>3, <2>1 DEF Owned
<1>4. CASE WriterIdle(s, r)
  <2>1. CASE tool[s].step = "cleanup"
    <3>1. objects' = objects \ {tool[s].seq} /\ UNCHANGED events /\ ~DoingThen(s)
      BY <1>1, <1>4, <2>1 DEF WriterIdle, WriterLeaves, Over
    <3>2. \A e \in events : e.seq # tool[s].seq
      BY <1>1, <2>1 DEF Fits
    <3>3. \A u \in Streams \ {s} : Doing(u) => tool[u].seq # tool[s].seq
      BY <2>1 DEF StoreInv, SeqsDiffer, Pending
    <3>4. \A p : p # tool[s].seq => Owned(p)' = Owned(p)
      BY <1>1, <3>1 DEF Owned
    <3>5. \A p : p = tool[s].seq => ~Owned(p)'
      BY <1>1, <3>1, <3>2, <3>3 DEF Owned
    <3> QED BY <1>2, <3>1, <3>4, <3>5
  <2>2. CASE tool[s].step # "cleanup"
    <3>1. objects' = objects /\ UNCHANGED events
      BY <1>1, <1>4, <2>2 DEF WriterIdle
    <3>2. ~Doing(s) /\ ~DoingThen(s)
      BY <1>1, <1>4, <2>2 DEF WriterIdle, WriterLeaves, Over
    <3>3. \A p : Owned(p)' = Owned(p)
      BY <1>3, <3>1, <3>2
    <3> QED BY <1>2, <3>1, <3>3
  <2> QED BY <2>1, <2>2
<1>5. CASE WriterReads(s, r)
  <2>1. UNCHANGED <<events, objects>> /\ ~Doing(s) /\ ~DoingThen(s)
    BY <1>1, <1>5 DEF WriterReads, table
  <2>2. \A p : Owned(p)' = Owned(p)
    BY <1>3, <2>1
  <2> QED BY <1>2, <2>1, <2>2
<1>6. CASE WriterNumbers(s, r)
  <2>1. UNCHANGED <<events, objects>> /\ ~Doing(s) /\ ~DoingThen(s)
    BY <1>1, <1>6 DEF WriterNumbers
  <2>2. \A p : Owned(p)' = Owned(p)
    BY <1>3, <2>1
  <2> QED BY <1>2, <2>1, <2>2
<1>7. CASE WriterPuts(s, r)
  <2>1. /\ objects' = objects \cup {tool[s].seq} /\ UNCHANGED events
        /\ tool[s].step = "spill" /\ ~Doing(s) /\ DoingThen(s) /\ r.seq = tool[s].seq
    BY <1>1, <1>7 DEF WriterPuts, Moved, Fits
  <2>2. \A p : Owned(p)' = (Owned(p) \/ p = tool[s].seq)
    BY <1>1, <2>1 DEF Owned
  <2> QED BY <1>2, <2>1, <2>2
<1>8. CASE WriterCleansUp(s, r)
  <2>1. UNCHANGED <<events, objects>> /\ Doing(s) /\ DoingThen(s) /\ r.seq = tool[s].seq
    BY <1>1, <1>8 DEF WriterCleansUp, Moved, table
  <2>2. \A p : Owned(p)' = Owned(p)
    BY <1>3, <2>1
  <2> QED BY <1>2, <2>1, <2>2
<1>9. CASE WriterCommits(s, r)
  <2>1. PICK e \in Record :
          /\ e.seq = tool[s].seq /\ e.stream = s /\ e.n = tool[s].n
          /\ tool[s].step = "commit" /\ events' = events \cup {e}
    BY <1>9, CommitFacts
  <2>2. UNCHANGED objects /\ r.step \in {"close", "target"}
    BY <1>1, <1>9, NumbersOfEvents DEF WriterCommits
  <2>3. ~DoingThen(s) /\ (Doing(s) <=> e.n \in Spilled)
    BY <1>1, <2>1, <2>2
  <2>4. \A p : Owned(p)' <=> Owned(p)
    BY <1>1, <2>1, <2>3 DEF Owned
  <2> QED BY <1>2, <2>2, <2>4
<1> QED BY <1>4, <1>5, <1>6, <1>7, <1>8, <1>9 DEF WriterForm

LEMMA WriterClientsInOrder ==
  ASSUME StoreInv, NEW s \in Streams, NEW r \in Tool, WriterFrame(s, r), WriterForm(s, r)
  PROVE  ClientsInOrder'
<1>1. \A u \in Streams : \A e : Logged(u, e) => Logged(u, e)'
  BY LoggedStays
<1>2. UNCHANGED <<sub, got>>
  BY DEF WriterFrame
<1> QED BY <1>1, <1>2 DEF StoreInv, ClientsInOrder, InOrder, Following

LEMMA WriterStep ==
  ASSUME StoreInv, NEW s \in Streams, NEW r \in Tool, WriterFrame(s, r), WriterForm(s, r)
  PROVE  StoreInv'
<1>1. WritersFit'
  BY OwnFits, OthersFit DEF WritersFit
<1>2. Types'
  BY WriterTypes DEF StoreInv
<1> QED BY <1>1, <1>2, WriterSeqsDiffer, WriterEventIds, WriterDeletionKnown,
           WriterPayloadsKept, WriterPayloadsGo, WriterClientsInOrder DEF StoreInv

-----------------------------------------------------------------------------
(* So do the steps of a subscription and of the deletion.                   *)

LEMMA PumpFacts ==
  ASSUME StoreInv, NEW s \in Streams, NEW r \in Sub, PumpFrame(s, r), PumpForm(s, r)
  PROVE  /\ sub'[s] = r /\ \A u \in Streams \ {s} : sub'[u] = sub[u] /\ got'[u] = got[u]
         /\ UNCHANGED <<session, nextSeq, meta, events, objects, tool, deletion, log, acked>>
         /\ faults \in Nat /\ faults' \in Nat /\ faults' >= faults
         /\ got[s] \in Seq(Record) /\ sub[s] \in Sub /\ sub[s].batch \subseteq Record
<1>1. /\ sub \in [Streams -> Sub] /\ got \in [Streams -> Seq(Record)]
      /\ faults \in 0 .. MaxFaults /\ MaxFaults \in Nat
  BY NumbersOfEvents DEF StoreInv, Types
<1>2. /\ sub'[s] = r /\ \A u \in Streams \ {s} : sub'[u] = sub[u]
      /\ UNCHANGED <<session, nextSeq, meta, events, objects, tool, deletion, log, acked>>
  BY <1>1 DEF PumpFrame, Becomes, table
<1>3. faults \in Nat /\ faults' \in Nat /\ faults' >= faults
  BY <1>1 DEF PumpFrame
<1>4. \A u \in Streams \ {s} : got'[u] = got[u]
  BY <1>1 DEF PumpForm, PumpEnds, PumpStarts, PumpLoads, PumpShows, PumpHands, PumpTurns,
              PumpPolls
<1>5. got[s] \in Seq(Record) /\ sub[s] \in Sub /\ sub[s].batch \subseteq Record
  BY <1>1 DEF Sub
<1> QED BY <1>2, <1>3, <1>4, <1>5

\* The batch of a load: later events of the store, each once.
LEMMA LoadFacts ==
  ASSUME StoreInv, NEW s \in Streams, NEW r \in Sub, PumpLoads(s, r)
  PROVE  /\ r.step = "forward" /\ sub[s].step = "load"
         /\ r.cursor \in Nat /\ sub[s].cursor \in Nat /\ sub[s].cursor <= r.cursor
         /\ \A e \in r.batch : /\ e \in events /\ e.stream = s
                               /\ sub[s].cursor < e.seq /\ e.seq <= r.cursor
<1>1. PICK records \in EventsAfter(sub[s].cursor) :
        /\ r.cursor \in {sub[s].cursor} \cup {e.seq : e \in records}
        /\ \A e \in records : e.seq <= r.cursor
        /\ r.batch = {e \in records : e.stream = s}
  BY DEF PumpLoads
<1>2. \A e \in records : e \in events /\ sub[s].cursor < e.seq
  BY <1>1 DEF EventsAfter, Batches
<1>3. sub[s].cursor \in Nat /\ \A e \in events : e.seq \in Nat
  BY DEF StoreInv, Types, Sub, Record
<1> QED BY <1>1, <1>2, <1>3 DEF PumpLoads

LEMMA PumpInOrder ==
  ASSUME StoreInv, NEW s \in Streams, NEW r \in Sub, PumpFrame(s, r), PumpForm(s, r)
  PROVE  InOrder(s)'
<1>1. /\ sub'[s] = r /\ UNCHANGED <<events, log>> /\ InOrder(s)
      /\ got[s] \in Seq(Record) /\ Len(got[s]) \in Nat
      /\ \A i \in 1 .. Len(got[s]) : got[s][i] \in Record
      /\ \A e \in Record : e.seq \in Nat
      /\ sub[s].cursor \in Nat /\ sub[s].batch \subseteq Record
  <2>1. /\ sub'[s] = r /\ UNCHANGED <<events, log>>
        /\ got[s] \in Seq(Record) /\ sub[s] \in Sub /\ sub[s].batch \subseteq Record
    BY PumpFacts
  <2>2. InOrder(s)
    BY DEF StoreInv, ClientsInOrder
  <2>3. sub[s].cursor \in Nat
    BY <2>1 DEF Sub
  <2>4. \A e \in Record : e.seq \in Nat
    BY DEF Record
  <2>5. Len(got[s]) \in Nat /\ \A i \in 1 .. Len(got[s]) : got[s][i] \in Record
    BY <2>1
  <2> QED BY <2>1, <2>2, <2>3, <2>4, <2>5
<1>2. \A e : Logged(s, e)' <=> Logged(s, e)
  BY <1>1 DEF Logged
<1>3. CASE PumpEnds(s, r)
  BY <1>1, <1>2, <1>3 DEF PumpEnds, InOrder, Following
<1>4. CASE PumpStarts(s, r)
  <2>1. r.step = "load" /\ r.batch = {} /\ UNCHANGED got
    BY <1>4 DEF PumpStarts
  <2>2. \A i \in 1 .. Len(got[s]) : got[s][i].seq <= r.cursor
    <3>1. CASE sub[s].step = "new"
      BY <1>1, <3>1 DEF InOrder
    <3>2. CASE r.cursor = got[s][Len(got[s])].seq
      <4>1. \A i, j \in 1 .. Len(got[s]) : i < j => got[s][i].seq < got[s][j].seq
        BY <1>1 DEF InOrder
      <4> SUFFICES ASSUME NEW i \in 1 .. Len(got[s]) PROVE got[s][i].seq <= r.cursor
        OBVIOUS
      <4>2. Len(got[s]) \in 1 .. Len(got[s])
        BY <1>1
      <4>3. got[s][i].seq \in Nat /\ got[s][Len(got[s])].seq \in Nat
        BY <1>1, <4>2
      <4>4. CASE i = Len(got[s])
        BY <3>2, <4>3, <4>4
      <4>5. CASE i < Len(got[s])
        BY <3>2, <4>1, <4>2, <4>3, <4>5
      <4> QED BY <1>1, <4>4, <4>5
    <3> QED BY <1>4, <3>1, <3>2 DEF PumpStarts
  <2> QED BY <1>1, <1>2, <2>1, <2>2 DEF InOrder, Following
<1>5. CASE PumpLoads(s, r)
  <2>1. /\ r.step = "forward" /\ sub[s].step = "load" /\ UNCHANGED got
        /\ r.cursor \in Nat /\ sub[s].cursor <= r.cursor
        /\ \A e \in r.batch : /\ e \in events /\ e.stream = s
                              /\ sub[s].cursor < e.seq /\ e.seq <= r.cursor
    BY <1>5, LoadFacts DEF PumpLoads
  <2>2. /\ \A e \in r.batch : Logged(s, e)
        /\ \A d, e \in r.batch : d.seq = e.seq => d = e
        /\ \A e \in r.batch : e.seq \in Nat
    BY <2>1 DEF StoreInv, EventIds, Types, Record
  <2>3. \A i \in 1 .. Len(got[s]) : got[s][i].seq <= sub[s].cursor
    BY <1>1, <2>1 DEF InOrder, Following
  <2>4. /\ \A i \in 1 .. Len(got[s]) : got[s][i].seq <= r.cursor
        /\ \A e \in r.batch : \A i \in 1 .. Len(got[s]) : got[s][i].seq < e.seq
    <3>1. \A i \in 1 .. Len(got[s]) : got[s][i].seq \in Nat
      BY <1>1
    <3>2. \A i \in 1 .. Len(got[s]) : got[s][i].seq <= r.cursor
      BY <1>1, <2>1, <2>3, <3>1
    <3>3. ASSUME NEW e \in r.batch, NEW i \in 1 .. Len(got[s]) PROVE got[s][i].seq < e.seq
      <4>1. got[s][i].seq <= sub[s].cursor /\ sub[s].cursor < e.seq /\ e.seq \in Nat
        BY <2>1, <2>2, <2>3
      <4> QED BY <1>1, <3>1, <4>1
    <3> QED BY <3>2, <3>3
  <2>5. /\ \A i \in 1 .. Len(got[s]) : Logged(s, got[s][i])
        /\ \A i, j \in 1 .. Len(got[s]) : i < j => got[s][i].seq < got[s][j].seq
    BY <1>1 DEF InOrder
  <2>6. /\ got' = got /\ sub'[s] = r /\ r.step = "forward" /\ \A e \in r.batch : e.seq <= r.cursor
        /\ \A e \in r.batch : Logged(s, e)'
        /\ \A i \in 1 .. Len(got[s]) : Logged(s, got[s][i])'
    BY <1>1, <1>2, <2>1, <2>2, <2>5
  <2> QED BY <2>2, <2>4, <2>5, <2>6 DEF InOrder, Following
<1>6. CASE PumpShows(s, r)
  BY <1>1, <1>2, <1>6 DEF PumpShows, At, InOrder, Following
<1>7. CASE PumpHands(s, r)
  <2>1. PICK e \in sub[s].batch :
          /\ Leads(e, sub[s].batch)
          /\ got' = [got EXCEPT ![s] = Append(got[s], e)]
          /\ r = At("forward", sub[s].cursor, sub[s].batch \ {e}, sub[s].full, sub[s].drain)
    BY <1>7 DEF PumpHands
  <2> r.step = "forward" /\ r.cursor = sub[s].cursor /\ r.batch = sub[s].batch \ {e}
    BY <2>1 DEF At
  <2>2. /\ Following(s) /\ sub[s].step = "send"
        /\ e \in Record /\ e.seq <= sub[s].cursor /\ Logged(s, e)
        /\ \A i \in 1 .. Len(got[s]) : got[s][i].seq < e.seq
    BY <1>1, <1>7, <2>1 DEF PumpHands, InOrder, Following
  <2>3. got'[s] = Append(got[s], e)
    BY <2>1 DEF StoreInv, Types
  <2>4. /\ Len(got'[s]) = Len(got[s]) + 1
        /\ got'[s][Len(got[s]) + 1] = e
        /\ \A i \in 1 .. Len(got[s]) : got'[s][i] = got[s][i]
    BY <1>1, <2>2, <2>3
  <2>5. \A i \in 1 .. Len(got'[s]) : i = Len(got[s]) + 1 \/ i \in 1 .. Len(got[s])
    BY <1>1, <2>4
  <2>6. \A i \in 1 .. Len(got'[s]) : \E f : f = got'[s][i] /\ Logged(s, f)
    BY <1>1, <2>2, <2>4, <2>5 DEF InOrder
  <2>7. ASSUME NEW i \in 1 .. Len(got'[s]), NEW j \in 1 .. Len(got'[s]), i < j
        PROVE  got'[s][i].seq < got'[s][j].seq
    <3>1. i \in 1 .. Len(got[s])
      BY <1>1, <2>4, <2>7
    <3>2. CASE j \in 1 .. Len(got[s])
      BY <1>1, <2>4, <2>7, <3>1, <3>2 DEF InOrder
    <3>3. CASE j = Len(got[s]) + 1
      BY <2>2, <2>4, <3>1, <3>3
    <3> QED BY <2>5, <3>2, <3>3
  <2>8. \A i \in 1 .. Len(got'[s]) : got'[s][i].seq <= r.cursor
    BY <1>1, <2>1, <2>2, <2>4, <2>5 DEF InOrder
  <2>9. \A d \in r.batch : e.seq < d.seq
    BY <1>1, <2>1, <2>2 DEF Leads, InOrder
  <2>10. \A d \in r.batch : \A i \in 1 .. Len(got'[s]) : got'[s][i].seq < d.seq
    BY <1>1, <2>1, <2>2, <2>4, <2>5, <2>9 DEF InOrder
  <2> QED BY <1>1, <1>2, <2>1, <2>2, <2>6, <2>7, <2>8, <2>10 DEF InOrder, Following
<1>8. CASE PumpTurns(s, r)
  <2>1. /\ r.step \in {"load", "status"} /\ r.batch = {} /\ r.cursor = sub[s].cursor
        /\ UNCHANGED got /\ Following(s)
    BY <1>8 DEF PumpTurns, At, Following
  <2> QED BY <1>1, <1>2, <2>1 DEF InOrder, Following
<1>9. CASE PumpPolls(s, r)
  <2>1. /\ r.step \in {"closed", "load"} /\ r.batch = {} /\ r.cursor = sub[s].cursor
        /\ UNCHANGED got /\ Following(s)
    BY <1>1, <1>9 DEF PumpPolls, At, Following, InOrder
  <2> QED BY <1>1, <1>2, <2>1 DEF InOrder, Following
<1> QED BY <1>3, <1>4, <1>5, <1>6, <1>7, <1>8, <1>9 DEF PumpForm

LEMMA PumpKeeps ==
  ASSUME StoreInv, NEW s \in Streams, NEW r \in Sub, PumpFrame(s, r), PumpForm(s, r)
  PROVE  StoreInv'
<1>1. /\ UNCHANGED <<session, nextSeq, meta, events, objects, tool, deletion, log, acked>>
      /\ faults \in Nat /\ faults' \in Nat /\ faults' >= faults
      /\ \A u \in Streams \ {s} : sub'[u] = sub[u] /\ got'[u] = got[u]
  BY PumpFacts
<1>2. Types'
  BY PumpTypes DEF StoreInv
<1>3. WritersFit'
  BY <1>1 DEF StoreInv, WritersFit, Fits
<1>4. SeqsDiffer' /\ EventIds'
  BY <1>1 DEF StoreInv, SeqsDiffer, EventIds, Logged
<1>5. DeletionKnown' /\ PayloadsKept' /\ PayloadsGo'
  BY <1>1 DEF StoreInv, DeletionKnown, PayloadsKept, PayloadsGo, Owned
<1>6. ASSUME NEW u \in Streams, u # s PROVE InOrder(u)'
  <2>1. InOrder(u) /\ sub'[u] = sub[u] /\ got'[u] = got[u]
    BY <1>1, <1>6 DEF StoreInv, ClientsInOrder
  <2>2. \A e : Logged(u, e)' <=> Logged(u, e)
    BY <1>1 DEF Logged
  <2> QED BY <2>1, <2>2 DEF InOrder, Following
<1>7. ClientsInOrder'
  BY <1>6, PumpInOrder DEF ClientsInOrder
<1> QED BY <1>2, <1>3, <1>4, <1>5, <1>7 DEF StoreInv

LEMMA DeletionKeeps ==
  ASSUME StoreInv, NEW d \in Deletion, DeletionFrame(d), DeletionForm(d)
  PROVE  StoreInv'
<1>1. /\ deletion' = d /\ UNCHANGED <<nextSeq, tool, sub, log, acked, got>>
      /\ faults \in Nat /\ nextSeq \in Nat /\ events \subseteq Record
      /\ meta \in [Streams -> {"none", "open", "closed"}] /\ deletion \in Deletion
      /\ deletion.passes \in Nat /\ d.passes \in Nat
  BY NumbersOfEvents DEF DeletionFrame, StoreInv, Types, Deletion
<1>2. Types'
  BY DeletionTypes DEF StoreInv
<1>3. /\ events' \subseteq events /\ (faults' = faults \/ faults' = faults + 1)
      /\ \A s \in Streams : meta'[s] = "closed" => meta[s] = "closed"
      /\ session' = session \/ session' = "deleted"
  BY <1>1 DEF DeletionForm, DeletionMarks, DeletionFindsNone, DeletionFindsSome,
         DeletionDropsStream, DeletionDropsPayload, DeletionDropsEvent, DeletionFails,
         DeletionTurns
<1>4. WritersFit'
  BY <1>1, <1>3 DEF StoreInv, WritersFit, Fits
<1>5. SeqsDiffer' /\ EventIds'
  BY <1>1, <1>3 DEF StoreInv, SeqsDiffer, EventIds, Logged
<1>6. ClientsInOrder'
  BY <1>1 DEF StoreInv, ClientsInOrder, InOrder, Following, Logged
<1>7. DeletionKnown
  BY DEF StoreInv
<1>8. PayloadsKept'
  <2>1. session' = "deleted" \/ UNCHANGED <<events, objects, session>>
    BY <1>7 DEF DeletionForm, DeletionMarks, DeletionFindsNone, DeletionFindsSome,
         DeletionDropsStream, DeletionDropsPayload, DeletionDropsEvent, DeletionFails,
         DeletionTurns, DeletionKnown
  <2> QED BY <1>1, <2>1 DEF StoreInv, PayloadsKept
<1>9. DeletionKnown'
  <2>1. CASE DeletionMarks(d)
    BY <1>1, <1>7, <2>1 DEF DeletionMarks, DeletionKnown
  <2>2. CASE DeletionFindsNone(d)
    BY <1>1, <1>7, <2>2 DEF DeletionFindsNone, DeletionKnown
  <2>3. CASE DeletionFindsSome(d)
    BY <1>1, <1>7, <2>3 DEF DeletionFindsSome, DeletionKnown
  <2>4. CASE DeletionDropsStream(d)
    BY <1>1, <1>7, <2>4 DEF DeletionDropsStream, DeletionKnown
  <2>5. CASE DeletionDropsPayload(d)
    BY <1>1, <1>7, <2>5 DEF DeletionDropsPayload, DeletionKnown
  <2>6. CASE DeletionDropsEvent(d)
    BY <1>1, <1>7, <2>6 DEF DeletionDropsEvent, DeletionKnown
  <2>7. CASE DeletionFails(d)
    BY <1>1, <1>7, <2>7 DEF DeletionFails, DeletionKnown
  <2>8. CASE DeletionTurns(d)
    BY <1>1, <1>7, <2>8 DEF DeletionTurns, DeletionKnown
  <2> QED BY <2>1, <2>2, <2>3, <2>4, <2>5, <2>6, <2>7, <2>8 DEF DeletionForm
<1>10. PayloadsGo'
  <2> SUFFICES ASSUME faults' = 0
               PROVE  /\ \A p \in objects' : Owned(p)'
                      /\ \A p : Owned(p)' => p \in objects' \/ \E f \in d.events : f.seq = p
    BY <1>1 DEF PayloadsGo
  <2>1. /\ faults = 0 /\ \A p \in objects : Owned(p)
        /\ \A p : Owned(p) => p \in objects \/ \E f \in deletion.events : f.seq = p
    BY <1>1, <1>3 DEF StoreInv, PayloadsGo
  <2>2. CASE UNCHANGED <<events, objects>> /\ deletion.events \subseteq d.events
    <3>1. \A p : Owned(p)' <=> Owned(p)
      BY <1>1, <2>2 DEF Owned
    <3> QED BY <2>1, <2>2, <3>1
  <2>3. CASE DeletionDropsPayload(d)
    <3>1. \A p : Owned(p)' <=> Owned(p)
      BY <1>1, <2>3 DEF Owned, DeletionDropsPayload
    <3>2. PICK e \in deletion.events : objects' = objects \ {e.seq}
      BY <2>3 DEF DeletionDropsPayload
    <3>3. d.events = deletion.events
      BY <2>3 DEF DeletionDropsPayload
    <3> QED BY <2>1, <3>1, <3>2, <3>3
  <2>4. CASE DeletionDropsEvent(d)
    <3>1. PICK e \in deletion.events :
            /\ e.n \in Spilled => e.seq \notin objects
            /\ events' = events \ {e} /\ d.events = deletion.events \ {e}
            /\ objects' = objects
      BY <2>4 DEF DeletionDropsEvent
    <3>2. /\ e \in events /\ \A f \in events : f.seq = e.seq => f = e
      BY <1>7, <3>1 DEF DeletionKnown, StoreInv, EventIds
    <3>3. \A s \in Streams : tool[s].step \in {"commit", "cleanup"} => tool[s].seq # e.seq
      BY <1>1, <2>1, <3>2 DEF StoreInv, WritersFit, Fits
    <3>4. \A p : Owned(p)' => Owned(p) /\ p # e.seq
      BY <1>1, <3>1, <3>2, <3>3 DEF Owned
    <3>5. \A p : Owned(p) /\ (p # e.seq \/ e.n \notin Spilled) => Owned(p)' \/ p = e.seq
      BY <1>1, <3>1 DEF Owned
    <3>6. \A p \in objects : p # e.seq
      BY <2>1, <3>1, <3>2, <3>3 DEF Owned
    <3>7. \A p \in objects : Owned(p)'
      BY <2>1, <3>5, <3>6
    <3> QED BY <2>1, <3>1, <3>4, <3>7
  <2> QED BY <1>1, <1>7, <2>2, <2>3, <2>4
       DEF DeletionForm, DeletionMarks, DeletionFindsNone, DeletionFindsSome,
         DeletionDropsStream, DeletionFails, DeletionTurns, DeletionKnown
<1> QED BY <1>2, <1>4, <1>5, <1>6, <1>8, <1>9, <1>10 DEF StoreInv

LEMMA StoreInvStep == StoreInv /\ [Next]_vars => StoreInv'
<1> SUFFICES ASSUME StoreInv, [Next]_vars PROVE StoreInv'
  OBVIOUS
<1>1. CASE UNCHANGED vars
  <2>1. Types'
    BY <1>1 DEF vars, StoreInv, Types
  <2>2. WritersFit' /\ SeqsDiffer' /\ EventIds'
    BY <1>1 DEF vars, StoreInv, WritersFit, Fits, SeqsDiffer, EventIds, Logged
  <2>3. DeletionKnown' /\ PayloadsKept' /\ PayloadsGo'
    BY <1>1 DEF vars, StoreInv, DeletionKnown, PayloadsKept, PayloadsGo, Owned
  <2>4. ASSUME NEW u \in Streams PROVE InOrder(u)'
    <3>1. InOrder(u) /\ sub' = sub /\ got' = got /\ log' = log
      BY <1>1 DEF vars, StoreInv, ClientsInOrder
    <3>2. \A e : Logged(u, e)' <=> Logged(u, e)
      BY <3>1 DEF Logged
    <3> QED BY <3>1, <3>2 DEF InOrder, Following
  <2> QED BY <2>1, <2>2, <2>3, <2>4 DEF StoreInv, ClientsInOrder
<1>2. Types
  BY DEF StoreInv
<1> QED BY <1>1, <1>2, StepForms, WriterStep, PumpKeeps, DeletionKeeps

-----------------------------------------------------------------------------
(* What follows from them.                                                  *)

LEMMA OrderFollows == StoreInv => ReceivedInOrder
<1> SUFFICES ASSUME StoreInv, NEW s \in Streams
             PROVE  /\ \A i \in DOMAIN got[s] : got[s][i] \in ToSet(log[s])
                    /\ \A i, j \in DOMAIN got[s] : i < j => got[s][i].seq < got[s][j].seq
  BY DEF ReceivedInOrder
<1>1. /\ InOrder(s) /\ got[s] \in Seq(Record) /\ log[s] \in Seq(Record)
  BY DEF StoreInv, ClientsInOrder, Types
<1>2. DOMAIN got[s] = 1 .. Len(got[s]) /\ DOMAIN log[s] = 1 .. Len(log[s])
  BY <1>1
<1>3. \A i \in 1 .. Len(got[s]) : \E j \in 1 .. Len(log[s]) : log[s][j] = got[s][i]
  BY <1>1 DEF InOrder, Logged
<1>4. \A i \in DOMAIN got[s] : got[s][i] \in ToSet(log[s])
  BY <1>2, <1>3 DEF ToSet
<1>5. \A i, j \in DOMAIN got[s] : i < j => got[s][i].seq < got[s][j].seq
  BY <1>1, <1>2 DEF InOrder
<1> QED BY <1>4, <1>5

LEMMA DeletionFollows == StoreInv => EventsStayDeleted /\ PayloadsFollowEvents
<1> SUFFICES ASSUME StoreInv PROVE EventsStayDeleted /\ PayloadsFollowEvents
  OBVIOUS
<1>1. EventsStayDeleted
  BY DEF StoreInv, DeletionKnown, EventsStayDeleted
<1>2. session # "deleted" =>
        \A e \in SpilledEvents : e.n \in acked[e.stream] => e.seq \in objects
  BY DEF StoreInv, PayloadsKept, SpilledEvents
<1>3. ASSUME faults = 0, deletion.step # "delete"
      PROVE  objects = {e.seq : e \in SpilledEvents} \cup {tool[s].seq : s \in Appending}
  <2>1. deletion.events = {}
    <3>1. deletion.step \in {"none", "list", "delete", "quiet", "done", "failed"}
      BY DEF StoreInv, Types, Deletion
    <3> QED BY <1>3, <3>1 DEF StoreInv, DeletionKnown
  <2>2. \A p : p \in objects <=> Owned(p)
    BY <1>3, <2>1 DEF StoreInv, PayloadsGo
  <2> QED BY <2>2 DEF Owned, SpilledEvents, Appending
<1> QED BY <1>1, <1>2, <1>3 DEF PayloadsFollowEvents

\* A client receives events of its stream only, each once and in the order of their
\* ids, whatever faults, disconnects and resumptions there are.
THEOREM ReceivedAlwaysInOrder == Spec => []ReceivedInOrder
<1>1. Spec => []StoreInv
  BY StoreInvInit, StoreInvStep, PTL DEF Spec
<1> QED BY <1>1, OrderFollows, PTL

\* After DeleteSession no event is left and no running tool creates one, and spilled
\* payloads come and go with the events that refer to them.
THEOREM DeletedAlwaysGone == Spec => [](EventsStayDeleted /\ PayloadsFollowEvents)
<1>1. Spec => []StoreInv
  BY StoreInvInit, StoreInvStep, PTL DEF Spec
<1> QED BY <1>1, DeletionFollows, PTL

-----------------------------------------------------------------------------
(* The only stream of a session.                                            *)

OneStream == \A s, u \in Streams : s = u

\* The history is in the order of the numbers, each lower than the one its writer
\* has taken; and while the session lives its events are in the table.
LogInOrder(s) ==
    /\ \A i \in 1 .. Len(log[s]) : log[s][i].seq \in 1 .. nextSeq
    /\ \A i, j \in 1 .. Len(log[s]) : i < j => log[s][i].seq < log[s][j].seq
    /\ tool[s].step \in {"spill", "commit"} =>
         /\ \A i \in 1 .. Len(log[s]) : log[s][i].seq < tool[s].seq
         /\ Following(s) => sub[s].cursor < tool[s].seq
    /\ Following(s) => sub[s].cursor <= nextSeq
    /\ session # "deleted" => \A i \in 1 .. Len(log[s]) : log[s][i] \in events

\* What was received is how the history begins, and what the cursor is past was
\* received or is still in the batch.
NoGap(s) ==
    session # "deleted" =>
        /\ Len(got[s]) <= Len(log[s])
        /\ \A i \in 1 .. Len(got[s]) : got[s][i] = log[s][i]
        /\ Following(s) =>
             \A i \in 1 .. Len(log[s]) :
                log[s][i].seq <= sub[s].cursor => i <= Len(got[s]) \/ log[s][i] \in sub[s].batch

\* A subscription that saw its stream closed and then read a batch that is not full
\* is past the whole history: nothing is appended any more.
AtEnd(s) ==
    /\ sub[s].step \notin {"new", "gone"} => tool[s].n > 1
    /\ sub[s].step = "status" => ~sub[s].full
    /\ session # "deleted" =>
        /\ sub[s].drain /\ (Following(s) \/ sub[s].step = "closed") => meta[s] = "closed"
        /\ sub[s].drain /\ sub[s].step \in {"forward", "send", "status"} /\ ~sub[s].full =>
             \A i \in 1 .. Len(log[s]) : log[s][i].seq <= sub[s].cursor
        /\ sub[s].step = "closed" => sub[s].drain /\ Len(got[s]) = Len(log[s])

\* A number is taken for each event at most.
IdsCount(s) ==
    nextSeq <= IF tool[s].step \in {"touch", "create", "target", "sequence"}
                 THEN tool[s].n - 1 ELSE tool[s].n

StreamInv(s) == LogInOrder(s) /\ NoGap(s) /\ AtEnd(s) /\ IdsCount(s)
OneInv == StoreInv /\ \A s \in Streams : StreamInv(s)

LEMMA OneInvInit == Init => OneInv
<1> SUFFICES ASSUME Init PROVE OneInv
  OBVIOUS
<1>1. ASSUME NEW s \in Streams PROVE StreamInv(s)
  <2>1. /\ tool[s].step = "touch" /\ tool[s].n = 1 /\ nextSeq = 0
        /\ sub[s].step = "new" /\ got[s] = <<>> /\ log[s] = <<>>
    BY DEF Init
  <2> QED BY <2>1 DEF StreamInv, LogInOrder, NoGap, AtEnd, IdsCount, Following
<1> QED BY <1>1, StoreInvInit DEF OneInv

\* What the proofs below use of the types.
LEMMA StreamTypes ==
  ASSUME StoreInv, NEW s \in Streams
  PROVE  /\ log[s] \in Seq(Record) /\ Len(log[s]) \in Nat
         /\ \A i \in 1 .. Len(log[s]) : log[s][i] \in Record
         /\ got[s] \in Seq(Record) /\ Len(got[s]) \in Nat
         /\ \A i \in 1 .. Len(got[s]) : got[s][i] \in Record
         /\ \A e \in Record : e.seq \in Nat /\ e.stream \in Streams
         /\ nextSeq \in Nat /\ tool[s] \in Tool
         /\ tool[s].n \in Nat /\ tool[s].n \in 1 .. Final + 1 /\ tool[s].seq \in Nat
         /\ sub[s].cursor \in Nat /\ sub[s].batch \subseteq Record /\ events \subseteq Record
         /\ sub[s].full \in BOOLEAN /\ sub[s].drain \in BOOLEAN
         /\ meta \in [Streams -> {"none", "open", "closed"}]
<1>1. /\ log[s] \in Seq(Record) /\ got[s] \in Seq(Record) /\ nextSeq \in Nat
      /\ tool[s] \in Tool /\ sub[s] \in Sub /\ events \subseteq Record
      /\ meta \in [Streams -> {"none", "open", "closed"}]
  BY DEF StoreInv, Types
<1>2. /\ Len(log[s]) \in Nat /\ Len(got[s]) \in Nat
      /\ \A i \in 1 .. Len(log[s]) : log[s][i] \in Record
      /\ \A i \in 1 .. Len(got[s]) : got[s][i] \in Record
  BY <1>1
<1>3. tool[s].n \in Numbers /\ tool[s].seq \in Nat
  BY <1>1 DEF Tool
<1>4. tool[s].n \in Nat /\ tool[s].n \in 1 .. Final + 1
  BY <1>3, NumbersOfEvents
<1>5. /\ sub[s].cursor \in Nat /\ sub[s].batch \subseteq Record
      /\ sub[s].full \in BOOLEAN /\ sub[s].drain \in BOOLEAN
  BY <1>1 DEF Sub
<1>6. \A e \in Record : e.seq \in Nat /\ e.stream \in Streams
  BY DEF Record
<1> QED BY <1>1, <1>2, <1>3, <1>4, <1>5, <1>6

LEMMA WriterStreamInv ==
  ASSUME StoreInv, NEW s \in Streams, StreamInv(s),
         NEW r \in Tool, WriterFrame(s, r), WriterForm(s, r)
  PROVE  StreamInv(s)'
<1>1. /\ tool'[s] = r /\ UNCHANGED <<sub, got>>
      /\ nextSeq \in Nat /\ nextSeq' \in {nextSeq, nextSeq + 1}
      /\ (session' = "deleted") = (session = "deleted")
  BY WriterFacts DEF WriterFrame
<1>2. /\ log[s] \in Seq(Record) /\ Len(log[s]) \in Nat /\ Len(got[s]) \in Nat
      /\ \A i \in 1 .. Len(log[s]) : log[s][i] \in Record
      /\ \A e \in Record : e.seq \in Nat
      /\ tool[s].n \in Nat /\ sub[s].cursor \in Nat
      /\ meta \in [Streams -> {"none", "open", "closed"}]
  BY StreamTypes
<1>3. Fits(s) /\ LogInOrder(s) /\ NoGap(s) /\ AtEnd(s) /\ IdsCount(s)
  BY DEF StoreInv, WritersFit, StreamInv
<1>4. CASE WriterCommits(s, r)
  <2>1. PICK e \in Record :
          /\ e.seq = tool[s].seq /\ tool[s].step = "commit" /\ session = "active"
          /\ events' = events \cup {e}
          /\ Len(log'[s]) = Len(log[s]) + 1 /\ log'[s][Len(log[s]) + 1] = e
          /\ \A i \in 1 .. Len(log[s]) : log'[s][i] = log[s][i]
          /\ meta'[s] = "open"
    BY <1>4, CommitFacts
  <2>2. /\ nextSeq' = nextSeq /\ session' = session
        /\ r.n \in {tool[s].n, tool[s].n + 1} /\ r.step \in {"close", "target", "cleanup"}
        /\ r.step = "target" => r.n = tool[s].n + 1
    BY <1>4, <2>1 DEF WriterCommits, WriterLeaves, Moved, Over
  <2>3. /\ \A i \in 1 .. Len(log[s]) : log[s][i].seq < tool[s].seq
        /\ Following(s) => sub[s].cursor < tool[s].seq
        /\ tool[s].seq \in 1 .. nextSeq /\ meta[s] # "closed"
    BY <1>3, <2>1 DEF LogInOrder, Fits, Pending
  <2>4. \A i \in 1 .. Len(log'[s]) : i = Len(log[s]) + 1 \/ i \in 1 .. Len(log[s])
    BY <1>2, <2>1
  <2>5. ASSUME NEW i \in 1 .. Len(log'[s]), NEW j \in 1 .. Len(log'[s]), i < j
        PROVE  log'[s][i].seq < log'[s][j].seq
    <3>1. i \in 1 .. Len(log[s])
      BY <1>2, <2>1, <2>5
    <3>2. CASE j \in 1 .. Len(log[s])
      BY <1>3, <2>1, <2>5, <3>1, <3>2 DEF LogInOrder
    <3>3. CASE j = Len(log[s]) + 1
      BY <2>1, <2>3, <3>1, <3>3
    <3> QED BY <2>4, <3>2, <3>3
  <2>6. /\ \A i \in 1 .. Len(log'[s]) : log'[s][i].seq \in 1 .. nextSeq
        /\ \A i \in 1 .. Len(log'[s]) : log'[s][i] \in events'
    BY <1>3, <2>1, <2>3, <2>4 DEF LogInOrder
  <2>7. LogInOrder(s)'
    BY <1>1, <1>3, <2>1, <2>2, <2>5, <2>6 DEF LogInOrder, Following
  <2>8. NoGap(s)'
    <3>1. /\ Len(got[s]) <= Len(log[s])
          /\ \A i \in 1 .. Len(got[s]) : got[s][i] = log[s][i]
      BY <1>3, <2>1 DEF NoGap
    <3>2. Len(got[s]) <= Len(log'[s])
      BY <1>2, <2>1, <3>1
    <3>3. \A i \in 1 .. Len(got[s]) : got[s][i] = log'[s][i]
      BY <1>2, <2>1, <3>1
    <3>4. ASSUME Following(s), NEW i \in 1 .. Len(log'[s]), log'[s][i].seq <= sub[s].cursor
          PROVE  i <= Len(got[s]) \/ log'[s][i] \in sub[s].batch
      <4>1. i # Len(log[s]) + 1
        BY <1>2, <2>1, <2>3, <3>4
      <4>2. i \in 1 .. Len(log[s]) /\ log'[s][i] = log[s][i]
        BY <2>1, <2>4, <4>1
      <4> QED BY <1>3, <2>1, <3>4, <4>2 DEF NoGap
    <3> QED BY <1>1, <3>2, <3>3, <3>4 DEF NoGap, Following
  <2>9. AtEnd(s)'
    BY <1>1, <1>2, <1>3, <2>1, <2>2, <2>3 DEF AtEnd, Following
  <2>10. IdsCount(s)'
    <3>1. nextSeq <= tool[s].n
      BY <1>3, <2>1 DEF IdsCount
    <3>2. /\ r.n \in Nat /\ tool[s].n <= r.n
          /\ r.step = "target" => tool[s].n <= r.n - 1
      BY <1>2, <2>2
    <3>3. /\ nextSeq <= r.n /\ (r.step = "target" => nextSeq <= r.n - 1)
          /\ r.step \notin {"touch", "create", "sequence"}
      BY <1>1, <1>2, <2>2, <3>1, <3>2
    <3> QED BY <1>1, <2>2, <3>3 DEF IdsCount
  <2> QED BY <2>7, <2>8, <2>9, <2>10 DEF StreamInv
<1>5. CASE UNCHANGED <<events, log>> /\ ~WriterCommits(s, r)
  <2>1. /\ r.n \in {tool[s].n, tool[s].n + 1}
        /\ meta[s] = "closed" => meta'[s] = "closed"
    BY <1>2, <1>3, <1>5
       DEF WriterForm, WriterIdle, WriterLeaves, WriterReads, WriterNumbers, WriterPuts,
           WriterCleansUp, Moved, table, Fits
  <2>2. r.step \in {"spill", "commit"} =>
          \/ r.seq = nextSeq + 1
          \/ r.seq = tool[s].seq /\ tool[s].step \in {"spill", "commit"}
    BY <1>5 DEF WriterForm, WriterIdle, WriterLeaves, WriterReads, WriterNumbers, WriterPuts,
           WriterCleansUp, Moved, Over
  <2>3. LogInOrder(s)'
    <3>1. \A i \in 1 .. Len(log[s]) : log[s][i].seq \in 1 .. nextSeq /\ log[s][i].seq \in Nat
      BY <1>2, <1>3 DEF LogInOrder
    <3>2. r.step \in {"spill", "commit"} =>
            /\ \A i \in 1 .. Len(log[s]) : log[s][i].seq < r.seq
            /\ Following(s) => sub[s].cursor < r.seq
      BY <1>1, <1>2, <1>3, <2>2, <3>1 DEF LogInOrder
    <3>3. /\ \A i \in 1 .. Len(log[s]) : log[s][i].seq \in 1 .. nextSeq'
          /\ Following(s) => sub[s].cursor <= nextSeq'
      BY <1>1, <1>2, <1>3, <3>1 DEF LogInOrder
    <3> QED BY <1>1, <1>3, <1>5, <3>2, <3>3 DEF LogInOrder, Following
  <2>4. NoGap(s)'
    BY <1>1, <1>3, <1>5 DEF NoGap, Following
  <2>5. AtEnd(s)'
    BY <1>1, <1>2, <1>3, <1>5, <2>1 DEF AtEnd, Following
  <2>6. IdsCount(s)'
    <3>1. CASE WriterIdle(s, r)
      <4>1. /\ nextSeq' = nextSeq \/ (tool[s].step = "sequence" /\ nextSeq' = nextSeq + 1)
            /\ \/ r.n = tool[s].n /\ r.step \in Over
               \/ /\ r.n = tool[s].n /\ tool[s].step \in {"touch", "create"}
                  /\ r.step \in {"create", "target"}
               \/ r.n = tool[s].n + 1 /\ r.step = "target"
        BY <3>1 DEF WriterIdle, WriterLeaves
      <4>2. nextSeq <= IF tool[s].step \in {"touch", "create", "target", "sequence"}
                         THEN tool[s].n - 1 ELSE tool[s].n
        BY <1>3 DEF IdsCount
      <4>3. nextSeq \in Nat /\ tool[s].n \in Nat
        BY <1>1, <1>2
      <4>4. ASSUME tool[s].step \in {"touch", "create", "target", "sequence"}
            PROVE  nextSeq' <= IF r.step \in {"touch", "create", "target", "sequence"}
                            THEN r.n - 1 ELSE r.n
        <5>1. nextSeq <= tool[s].n - 1
          BY <4>2, <4>4
        <5>2. nextSeq' <= tool[s].n /\ (tool[s].step # "sequence" => nextSeq' <= tool[s].n - 1)
          BY <4>1, <4>3, <5>1
        <5> QED BY <4>1, <4>3, <5>2 DEF Over
      <4>5. ASSUME tool[s].step \notin {"touch", "create", "target", "sequence"}
            PROVE  nextSeq' <= IF r.step \in {"touch", "create", "target", "sequence"}
                            THEN r.n - 1 ELSE r.n
        <5>1. nextSeq' <= tool[s].n
          BY <4>1, <4>2, <4>5
        <5> QED BY <4>1, <4>3, <4>5, <5>1 DEF Over
      <4>6. nextSeq' <= IF r.step \in {"touch", "create", "target", "sequence"}
                          THEN r.n - 1 ELSE r.n
        BY <4>4, <4>5
      <4> QED BY <1>1, <4>6 DEF IdsCount
    <3>2. CASE WriterReads(s, r)
      BY <1>1, <1>2, <1>3, <3>2 DEF WriterReads, IdsCount, table
    <3>3. CASE WriterNumbers(s, r)
      BY <1>1, <1>2, <1>3, <3>3 DEF WriterNumbers, IdsCount
    <3>4. CASE WriterPuts(s, r) \/ WriterCleansUp(s, r)
      BY <1>1, <1>2, <1>3, <3>4 DEF WriterPuts, WriterCleansUp, Moved, IdsCount, table
    <3> QED BY <1>5, <3>1, <3>2, <3>3, <3>4 DEF WriterForm
  <2> QED BY <2>3, <2>4, <2>5, <2>6 DEF StreamInv
<1> QED BY <1>4, <1>5
        DEF WriterForm, WriterIdle, WriterReads, WriterNumbers, WriterPuts, WriterCleansUp,
            table

\* An event that comes before what is left of the history is the next one.
LEMMA NextInLog ==
  ASSUME StoreInv, NEW s \in Streams, StreamInv(s), session # "deleted",
         sub[s].step = "send", NEW e \in sub[s].batch, Leads(e, sub[s].batch)
  PROVE  Len(got[s]) + 1 \in 1 .. Len(log[s]) /\ log[s][Len(got[s]) + 1] = e
<1>1. /\ Len(log[s]) \in Nat /\ Len(got[s]) \in Nat
      /\ \A i \in 1 .. Len(log[s]) : log[s][i] \in Record
      /\ \A f \in Record : f.seq \in Nat
      /\ sub[s].batch \subseteq Record /\ sub[s].cursor \in Nat
  BY StreamTypes
<1>2. InOrder(s) /\ LogInOrder(s) /\ NoGap(s)
  BY DEF StoreInv, ClientsInOrder, StreamInv
<1>3. PICK j \in 1 .. Len(log[s]) : log[s][j] = e
  BY <1>2 DEF InOrder, Following, Logged
<1>4. /\ e.seq \in Nat /\ e.seq <= sub[s].cursor
      /\ \A i \in 1 .. Len(got[s]) : got[s][i].seq < e.seq
  BY <1>1, <1>2 DEF InOrder, Following
<1>5. Len(got[s]) < j
  <2> SUFFICES ASSUME j <= Len(got[s]) PROVE FALSE
    BY <1>1
  <2>1. got[s][j] = e
    BY <1>1, <1>2, <1>3 DEF NoGap
  <2> QED BY <1>1, <1>4, <2>1
<1> DEFINE k == Len(got[s]) + 1
<1>6. k \in 1 .. Len(log[s]) /\ k <= j
  BY <1>1, <1>5
<1> HIDE DEF k
<1>7. k = j
  <2> SUFFICES ASSUME k < j PROVE FALSE
    BY <1>1, <1>6
  <2>1. log[s][k].seq < e.seq /\ log[s][k].seq \in Nat
    BY <1>1, <1>2, <1>3, <1>6 DEF LogInOrder
  <2>2. log[s][k].seq <= sub[s].cursor
    BY <1>1, <1>4, <2>1
  <2>3. log[s][k] \in sub[s].batch
    <3>1. k <= Len(got[s]) \/ log[s][k] \in sub[s].batch
      BY <1>2, <1>6, <2>2 DEF NoGap, Following
    <3>2. ~(k <= Len(got[s]))
      BY <1>1 DEF k
    <3> QED BY <3>1, <3>2
  <2>4. e.seq <= log[s][k].seq
    BY <2>3 DEF Leads
  <2> QED BY <1>4, <2>1, <2>4
<1> QED BY <1>3, <1>6, <1>7 DEF k

\* A load takes what follows the cursor, and all of it when the batch is not full.
LEMMA LoadTakesNext ==
  ASSUME OneStream, StoreInv, NEW s \in Streams, StreamInv(s), session # "deleted",
         NEW r \in Sub, PumpLoads(s, r), NEW i \in 1 .. Len(log[s]),
         log[s][i].seq > sub[s].cursor, log[s][i].seq <= r.cursor \/ ~r.full
  PROVE  log[s][i] \in r.batch
<1>1. PICK records \in EventsAfter(sub[s].cursor) :
        /\ r.cursor \in {sub[s].cursor} \cup {e.seq : e \in records}
        /\ r.batch = {e \in records : e.stream = s}
        /\ r.full = (Cardinality(records) >= BatchSize)
  BY DEF PumpLoads
<1> DEFINE later == {e \in events : e.seq > sub[s].cursor}
<1>2. /\ records \subseteq later
      /\ \A e \in records, d \in later \ records : e.seq < d.seq
      /\ Cardinality(records) = BatchSize
           \/ (records = later /\ Cardinality(records) < BatchSize)
  BY DEF EventsAfter, Batches
<1>3. /\ log[s][i] \in Record /\ log[s][i] \in events /\ log[s][i].stream = s
      /\ log[s][i].seq \in Nat /\ sub[s].cursor \in Nat /\ events \subseteq Record
      /\ \A e \in Record : e.seq \in Nat
  BY StreamTypes DEF StreamInv, LogInOrder, OneStream
<1>4. log[s][i] \in later
  BY <1>3
<1>5. log[s][i] \in records
  <2>1. CASE log[s][i].seq <= r.cursor
    <3> SUFFICES ASSUME log[s][i] \notin records PROVE FALSE
      OBVIOUS
    <3>1. \A e \in records : e.seq < log[s][i].seq /\ e.seq \in Nat
      BY <1>2, <1>3, <1>4
    <3> HIDE DEF later
    <3> QED BY <1>1, <1>3, <2>1, <3>1
  <2>2. CASE ~r.full
    <3>1. ~(Cardinality(records) >= BatchSize)
      BY <1>1, <2>2
    <3>2. BatchSize >= BatchSize
      BY BatchSizeAssumption
    <3>3. records = later
      BY <1>2, <3>1, <3>2
    <3> QED BY <1>4, <3>3
  <2> QED BY <2>1, <2>2
<1> QED BY <1>1, <1>3, <1>5

LEMMA PumpLogInOrder ==
  ASSUME OneStream, StoreInv, NEW s \in Streams, StreamInv(s),
         NEW r \in Sub, PumpFrame(s, r), PumpForm(s, r)
  PROVE  LogInOrder(s)'
<1>1. /\ sub'[s] = r /\ UNCHANGED <<session, nextSeq, events, tool, log>>
  BY PumpFacts
<1>2. /\ nextSeq \in Nat /\ sub[s].cursor \in Nat /\ tool[s].seq \in Nat
      /\ Len(got[s]) \in Nat
      /\ \A i \in 1 .. Len(got[s]) : got[s][i] \in Record
      /\ \A e \in Record : e.seq \in Nat /\ e.stream \in Streams
      /\ events \subseteq Record /\ got[s] \in Seq(Record)
  BY StreamTypes
<1>3. InOrder(s) /\ LogInOrder(s) /\ EventIds
  BY DEF StoreInv, ClientsInOrder, StreamInv
<1>4. \A e : Logged(s, e) =>
        /\ e.seq \in 1 .. nextSeq
        /\ tool[s].step \in {"spill", "commit"} => e.seq < tool[s].seq
  BY <1>3 DEF LogInOrder, Logged
<1>5. tool[s].step \in {"spill", "commit"} => tool[s].seq \in 1 .. nextSeq
  BY DEF StoreInv, WritersFit, Fits, Pending
<1>6. r.step \in {"load", "forward", "send", "status"} =>
        /\ r.cursor <= nextSeq
        /\ tool[s].step \in {"spill", "commit"} => r.cursor < tool[s].seq
  <2>1. CASE Following(s) /\ r.cursor = sub[s].cursor
    BY <1>3, <2>1 DEF LogInOrder
  <2>2. CASE PumpStarts(s, r)
    <3>1. CASE r.cursor = 0
      BY <1>2, <1>5, <3>1
    <3>2. CASE got[s] # <<>> /\ r.cursor = got[s][Len(got[s])].seq
      <4>1. Len(got[s]) \in 1 .. Len(got[s])
        BY <1>2, <3>2
      <4>2. Logged(s, got[s][Len(got[s])])
        BY <1>3, <4>1 DEF InOrder
      <4> QED BY <1>2, <1>4, <3>2, <4>2
    <3> QED BY <2>2, <3>1, <3>2 DEF PumpStarts
  <2>3. CASE PumpLoads(s, r)
    <3>1. PICK records \in EventsAfter(sub[s].cursor) :
            r.cursor \in {sub[s].cursor} \cup {e.seq : e \in records}
      BY <2>3 DEF PumpLoads
    <3>2. CASE r.cursor = sub[s].cursor
      BY <2>1, <2>3, <3>2 DEF PumpLoads, Following
    <3>3. CASE \E e \in records : r.cursor = e.seq
      <4>1. PICK e \in records : r.cursor = e.seq
        BY <3>3
      <4>2. e \in events
        BY <3>1 DEF EventsAfter, Batches
      <4>3. e.stream = s /\ Logged(e.stream, e) /\ e.seq \in Nat
        BY <1>2, <1>3, <4>2 DEF OneStream, EventIds
      <4>4. Logged(s, e)
        BY <4>3
      <4> QED BY <1>2, <1>4, <4>1, <4>4
    <3> QED BY <3>1, <3>2, <3>3
  <2>4. CASE PumpEnds(s, r)
    BY <2>4 DEF PumpEnds
  <2> QED BY <2>1, <2>2, <2>3, <2>4
          DEF PumpForm, PumpShows, PumpHands, PumpTurns, PumpPolls, At, Following
<1> QED BY <1>1, <1>3, <1>6 DEF LogInOrder, Following

LEMMA PumpNoGap ==
  ASSUME OneStream, StoreInv, NEW s \in Streams, StreamInv(s),
         NEW r \in Sub, PumpFrame(s, r), PumpForm(s, r)
  PROVE  NoGap(s)'
<1> SUFFICES ASSUME session # "deleted" PROVE NoGap(s)'
  BY PumpFacts DEF NoGap
<1>1. /\ sub'[s] = r /\ UNCHANGED <<session, log>>
  BY PumpFacts
<1>2. /\ Len(log[s]) \in Nat /\ Len(got[s]) \in Nat /\ got[s] \in Seq(Record)
      /\ \A i \in 1 .. Len(log[s]) : log[s][i] \in Record
      /\ \A e \in Record : e.seq \in Nat
      /\ sub[s].cursor \in Nat /\ sub[s].batch \subseteq Record
  BY StreamTypes
<1>3. InOrder(s) /\ LogInOrder(s) /\ NoGap(s)
  BY DEF StoreInv, ClientsInOrder, StreamInv
<1>4. /\ Len(got[s]) <= Len(log[s])
      /\ \A i \in 1 .. Len(got[s]) : got[s][i] = log[s][i]
  BY <1>3 DEF NoGap
<1>5. CASE PumpEnds(s, r)
  BY <1>1, <1>4, <1>5 DEF PumpEnds, NoGap, Following
<1>6. CASE PumpStarts(s, r)
  <2>1. ASSUME NEW i \in 1 .. Len(log[s]), log[s][i].seq <= r.cursor
        PROVE  i <= Len(got[s])
    <3>1. log[s][i].seq \in 1 .. nextSeq
      BY <1>3 DEF LogInOrder
    <3>2. CASE r.cursor = 0
      BY <2>1, <3>1, <3>2
    <3>3. CASE got[s] # <<>> /\ r.cursor = got[s][Len(got[s])].seq
      <4> DEFINE k == Len(got[s])
      <4>1. k \in 1 .. Len(got[s]) /\ k \in 1 .. Len(log[s])
        BY <1>2, <1>4, <3>3
      <4>2. got[s][k] = log[s][k] /\ log[s][k].seq \in Nat /\ log[s][i].seq \in Nat
        BY <1>2, <1>4, <4>1
      <4>3. log[s][i].seq <= log[s][k].seq
        BY <2>1, <3>3, <4>2
      <4> HIDE DEF k
      <4>4. ~(k < i)
        BY <1>3, <4>1, <4>2, <4>3 DEF LogInOrder
      <4> QED BY <1>2, <4>1, <4>4 DEF k
    <3> QED BY <1>6, <3>2, <3>3 DEF PumpStarts
  <2> QED BY <1>1, <1>4, <1>6, <2>1 DEF PumpStarts, NoGap
<1>7. CASE PumpLoads(s, r)
  <2>1. sub[s].step = "load" /\ sub[s].batch = {} /\ Following(s) /\ UNCHANGED got
    BY <1>3, <1>7 DEF PumpLoads, InOrder, Following
  <2>2. ASSUME NEW i \in 1 .. Len(log[s]), log[s][i].seq <= r.cursor
        PROVE  i <= Len(got[s]) \/ log[s][i] \in r.batch
    <3>1. CASE log[s][i].seq <= sub[s].cursor
      BY <1>3, <2>1, <3>1 DEF NoGap
    <3>2. CASE log[s][i].seq > sub[s].cursor
      BY <1>7, <2>2, <3>2, LoadTakesNext
    <3>3. log[s][i].seq \in Nat
      BY <1>2
    <3> QED BY <1>2, <3>1, <3>2, <3>3
  <2> QED BY <1>1, <1>4, <2>1, <2>2 DEF NoGap
<1>8. CASE PumpHands(s, r)
  <2>1. PICK e \in sub[s].batch :
          /\ Leads(e, sub[s].batch)
          /\ got' = [got EXCEPT ![s] = Append(got[s], e)]
          /\ r = At("forward", sub[s].cursor, sub[s].batch \ {e}, sub[s].full, sub[s].drain)
    BY <1>8 DEF PumpHands
  <2>2. r.cursor = sub[s].cursor /\ r.batch = sub[s].batch \ {e}
    BY <2>1 DEF At
  <2>3. sub[s].step = "send" /\ Following(s)
    BY <1>8 DEF PumpHands, Following
  <2>4. Len(got[s]) + 1 \in 1 .. Len(log[s]) /\ log[s][Len(got[s]) + 1] = e
    BY <2>1, <2>3, NextInLog
  <2>5. got'[s] = Append(got[s], e) /\ e \in Record
    BY <1>2, <2>1 DEF StoreInv, Types
  <2>6. /\ Len(got'[s]) = Len(got[s]) + 1
        /\ got'[s][Len(got[s]) + 1] = e
        /\ \A i \in 1 .. Len(got[s]) : got'[s][i] = got[s][i]
    BY <1>2, <2>5
  <2>7. \A i \in 1 .. Len(got'[s]) : i = Len(got[s]) + 1 \/ i \in 1 .. Len(got[s])
    BY <1>2, <2>6
  <2>8. /\ Len(got'[s]) <= Len(log[s])
        /\ \A i \in 1 .. Len(got'[s]) : got'[s][i] = log[s][i]
    <3>1. Len(got'[s]) <= Len(log[s])
      BY <1>2, <2>4, <2>6
    <3>2. \A i \in 1 .. Len(got[s]) : got'[s][i] = log[s][i]
      BY <1>4, <2>6
    <3>3. got'[s][Len(got[s]) + 1] = log[s][Len(got[s]) + 1]
      BY <2>4, <2>6
    <3> QED BY <2>7, <3>1, <3>2, <3>3
  <2>9. ASSUME NEW i \in 1 .. Len(log[s]), log[s][i].seq <= r.cursor
        PROVE  i <= Len(got'[s]) \/ log[s][i] \in r.batch
    <3>1. i <= Len(got[s]) \/ log[s][i] \in sub[s].batch
      BY <1>3, <2>2, <2>3, <2>9 DEF NoGap
    <3>2. CASE i <= Len(got[s])
      BY <1>2, <2>6, <3>2
    <3>3. CASE log[s][i] = e
      <4> DEFINE k == Len(got[s]) + 1
      <4>1. k \in 1 .. Len(log[s]) /\ log[s][k] = e /\ e.seq \in Nat
        BY <1>2, <2>4, <2>5
      <4> HIDE DEF k
      <4>2. /\ i < k => log[s][i].seq < log[s][k].seq
            /\ k < i => log[s][k].seq < log[s][i].seq
        BY <1>3, <4>1 DEF LogInOrder
      <4>3. ~(e.seq < e.seq)
        BY <4>1
      <4>4. ~(i < k) /\ ~(k < i)
        BY <3>3, <4>1, <4>2, <4>3
      <4> QED BY <1>2, <2>6, <4>1, <4>4 DEF k
    <3> QED BY <2>2, <3>1, <3>2, <3>3
  <2> QED BY <1>1, <2>8, <2>9 DEF NoGap
<1>9. CASE PumpShows(s, r) \/ PumpTurns(s, r) \/ PumpPolls(s, r)
  <2>1. r.cursor = sub[s].cursor /\ r.batch = sub[s].batch /\ Following(s) /\ UNCHANGED got
    BY <1>9 DEF PumpShows, PumpTurns, PumpPolls, At, Following
  <2> QED BY <1>1, <1>3, <1>4, <2>1 DEF NoGap
<1> QED BY <1>5, <1>6, <1>7, <1>8, <1>9 DEF PumpForm

LEMMA PumpAtEnd ==
  ASSUME OneStream, StoreInv, NEW s \in Streams, StreamInv(s),
         NEW r \in Sub, PumpFrame(s, r), PumpForm(s, r)
  PROVE  AtEnd(s)'
<1>1. /\ sub'[s] = r /\ UNCHANGED <<session, log, meta, tool>>
  BY PumpFacts
<1>2. /\ Len(log[s]) \in Nat /\ Len(got[s]) \in Nat
      /\ \A i \in 1 .. Len(log[s]) : log[s][i] \in Record
      /\ \A e \in Record : e.seq \in Nat
      /\ sub[s].cursor \in Nat /\ tool[s].n \in Nat
      /\ sub[s].full \in BOOLEAN /\ sub[s].drain \in BOOLEAN
  BY StreamTypes
<1>3. InOrder(s) /\ NoGap(s) /\ AtEnd(s) /\ Fits(s)
  BY DEF StoreInv, ClientsInOrder, StreamInv, WritersFit
<1>4. CASE PumpEnds(s, r)
  BY <1>1, <1>3, <1>4 DEF PumpEnds, AtEnd, Following
<1>5. CASE PumpStarts(s, r)
  BY <1>1, <1>3, <1>5 DEF PumpStarts, AtEnd, Following
<1>6. CASE PumpLoads(s, r)
  <2>1. /\ sub[s].step = "load" /\ r.step = "forward" /\ r.drain = sub[s].drain
        /\ r.cursor \in Nat /\ sub[s].cursor <= r.cursor /\ UNCHANGED got
    BY <1>6, LoadFacts DEF PumpLoads
  <2>2. ASSUME session # "deleted", ~r.full, NEW i \in 1 .. Len(log[s])
        PROVE  log[s][i].seq <= r.cursor
    <3>1. log[s][i].seq \in Nat
      BY <1>2
    <3>2. CASE log[s][i].seq > sub[s].cursor
      <4>1. log[s][i] \in r.batch
        BY <1>6, <2>2, <3>2, LoadTakesNext
      <4> QED BY <1>6, <4>1, LoadFacts
    <3>3. CASE log[s][i].seq <= sub[s].cursor
      BY <1>2, <2>1, <3>1, <3>3
    <3> QED BY <1>2, <3>1, <3>2, <3>3
  <2> QED BY <1>1, <1>3, <2>1, <2>2 DEF AtEnd, Following
<1>7. CASE PumpShows(s, r)
  BY <1>1, <1>3, <1>7 DEF PumpShows, At, AtEnd, Following
<1>8. CASE PumpHands(s, r)
  <2>1. /\ sub[s].step = "send" /\ r.step = "forward" /\ r.cursor = sub[s].cursor
        /\ r.full = sub[s].full /\ r.drain = sub[s].drain
    BY <1>8 DEF PumpHands, At
  <2> QED BY <1>1, <1>3, <2>1 DEF AtEnd, Following
<1>9. CASE PumpTurns(s, r)
  <2>1. /\ sub[s].step = "forward" /\ r.step = (IF sub[s].full THEN "load" ELSE "status")
        /\ r.cursor = sub[s].cursor
        /\ r.full = sub[s].full /\ r.drain = sub[s].drain
    BY <1>9 DEF PumpTurns, At
  <2> QED BY <1>1, <1>2, <1>3, <2>1 DEF AtEnd, Following
<1>10. CASE PumpPolls(s, r)
  <2>1. /\ sub[s].step = "status" /\ r.step = (IF sub[s].drain THEN "closed" ELSE "load")
        /\ r.cursor = sub[s].cursor /\ session # "deleted" /\ UNCHANGED got
        /\ r.full = sub[s].full /\ r.drain = (sub[s].drain \/ meta[s] = "closed")
        /\ sub[s].batch = {}
    BY <1>3, <1>10 DEF PumpPolls, At, Found, InOrder
  <2>2. sub[s].drain => Len(got[s]) = Len(log[s])
    <3> SUFFICES ASSUME sub[s].drain PROVE Len(got[s]) = Len(log[s])
      OBVIOUS
    <3>1. \A i \in 1 .. Len(log[s]) : log[s][i].seq <= sub[s].cursor
      BY <1>2, <1>3, <2>1 DEF AtEnd
    <3>2. \A i \in 1 .. Len(log[s]) : i <= Len(got[s])
      BY <1>3, <2>1, <3>1 DEF NoGap, Following
    <3>3. Len(got[s]) <= Len(log[s])
      BY <1>3, <2>1 DEF NoGap
    <3> QED BY <1>2, <3>2, <3>3
  <2> QED BY <1>1, <1>2, <1>3, <2>1, <2>2 DEF AtEnd, Following
<1> QED BY <1>4, <1>5, <1>6, <1>7, <1>8, <1>9, <1>10 DEF PumpForm

LEMMA OneInvStep ==
  ASSUME OneStream, OneInv, [Next]_vars
  PROVE  OneInv'
<1>1. StoreInv /\ StoreInv' /\ Types
  BY StoreInvStep DEF OneInv, StoreInv
<1> SUFFICES ASSUME NEW s \in Streams PROVE StreamInv(s)'
  BY <1>1 DEF OneInv
<1>2. StreamInv(s) /\ \A u \in Streams : u = s
  BY DEF OneInv, OneStream
<1>3. CASE \E r \in Tool : WriterFrame(s, r) /\ WriterForm(s, r)
  BY <1>1, <1>2, <1>3, WriterStreamInv
<1>4. CASE \E r \in Sub : PumpFrame(s, r) /\ PumpForm(s, r)
  <2>1. PICK r \in Sub : PumpFrame(s, r) /\ PumpForm(s, r)
    BY <1>4
  <2>2. IdsCount(s)'
    <3>1. UNCHANGED <<nextSeq, tool>>
      BY <1>1, <2>1, PumpFacts
    <3> QED BY <1>2, <3>1 DEF StreamInv, IdsCount
  <2> QED BY <1>1, <1>2, <2>1, <2>2, PumpLogInOrder, PumpNoGap, PumpAtEnd DEF StreamInv
<1>5. CASE \E d \in Deletion : DeletionFrame(d) /\ DeletionForm(d)
  <2>1. PICK d \in Deletion : DeletionFrame(d) /\ DeletionForm(d)
    BY <1>5
  <2>2. UNCHANGED <<nextSeq, tool, sub, log, got>>
    BY <2>1 DEF DeletionFrame
  <2>3. session' = "deleted" \/ UNCHANGED <<session, events, meta>>
    BY <1>1, <2>1 DEF DeletionForm, DeletionMarks, DeletionFindsNone, DeletionFindsSome,
         DeletionDropsStream, DeletionDropsPayload, DeletionDropsEvent, DeletionFails,
         DeletionTurns, StoreInv, DeletionKnown
  <2> QED BY <1>2, <2>2, <2>3
          DEF StreamInv, LogInOrder, NoGap, AtEnd, IdsCount, Following
<1>6. CASE UNCHANGED vars
  BY <1>2, <1>6 DEF vars, StreamInv, LogInOrder, NoGap, AtEnd, IdsCount, Following
<1> QED BY <1>1, <1>2, <1>3, <1>4, <1>5, <1>6, StepForms

LEMMA NoGapFollows == OneInv => ReceivedWithoutGap /\ ClosedAfterAll
<1> SUFFICES ASSUME OneInv, NEW s \in Streams, session # "deleted"
             PROVE  /\ IsPrefix(got[s], log[s])
                    /\ sub[s].step = "closed" => /\ log[s] # <<>> /\ got[s] # <<>>
                                                 /\ Last(got[s]) = Last(log[s])
  BY DEF ReceivedWithoutGap, ClosedAfterAll
<1>1. /\ log[s] \in Seq(Record) /\ Len(log[s]) \in Nat
      /\ got[s] \in Seq(Record) /\ Len(got[s]) \in Nat
      /\ tool[s].n \in Nat
  BY StreamTypes DEF OneInv
<1>2. /\ Len(got[s]) <= Len(log[s])
      /\ \A i \in 1 .. Len(got[s]) : got[s][i] = log[s][i]
  BY DEF OneInv, StreamInv, NoGap
<1>3. IsPrefix(got[s], log[s])
  <2>1. SubSeq(got[s], 1, Len(got[s])) = SubSeq(log[s], 1, Len(got[s]))
    <3> DEFINE n == Len(got[s])
    <3>1. /\ SubSeq(got[s], 1, n) \in Seq(Record) /\ SubSeq(log[s], 1, n) \in Seq(Record)
          /\ Len(SubSeq(got[s], 1, n)) = n /\ Len(SubSeq(log[s], 1, n)) = n
          /\ \A i \in 1 .. n : /\ SubSeq(got[s], 1, n)[i] = got[s][i]
                               /\ SubSeq(log[s], 1, n)[i] = log[s][i]
      BY <1>1, <1>2
    <3> QED BY <1>1, <1>2, <3>1
  <2> QED BY <1>2, <2>1 DEF IsPrefix
<1>4. ASSUME sub[s].step = "closed"
      PROVE  log[s] # <<>> /\ got[s] # <<>> /\ Last(got[s]) = Last(log[s])
  <2>1. Len(got[s]) = Len(log[s]) /\ tool[s].n > 1
    BY <1>4 DEF OneInv, StreamInv, AtEnd
  <2>2. log[s] # <<>>
    BY <2>1 DEF OneInv, StoreInv, WritersFit, Fits
  <2>3. Len(log[s]) \in 1 .. Len(got[s])
    BY <1>1, <2>1, <2>2
  <2> QED BY <1>1, <1>2, <2>1, <2>2, <2>3 DEF Last
<1> QED BY <1>3, <1>4

-----------------------------------------------------------------------------
(* The only stream implements StreamLog.                                    *)

LEMMA CommittedEvent ==
  ASSUME OneStream, OneInv, NEW s \in Streams, tool[s].step = "commit",
         NEW e \in Record, e.seq = tool[s].seq
  PROVE  e \in Event
<1>1. /\ tool[s].seq \in 1 .. nextSeq /\ nextSeq <= tool[s].n
  BY DEF OneInv, StoreInv, WritersFit, Fits, StreamInv, IdsCount, Pending
<1>2. tool[s].n \in 1 .. Final + 1 /\ nextSeq \in Nat /\ Final \in Nat
  BY StreamTypes, NumbersOfEvents DEF OneInv
<1>3. Cardinality(Streams) = 1
  <2>1. Streams = {s}
    BY DEF OneStream
  <2> QED BY <2>1, FS_Singleton
<1>4. Cardinality(Streams) * (Final + 1) = Final + 1
  BY <1>2, <1>3
<1>5. e.seq \in Seqs
  BY <1>1, <1>2, <1>4 DEF Seqs
<1> QED BY <1>5 DEF Event, Record

LEMMA StreamLogInit == Init => \A s \in Streams : Stream(s)!Init
BY DEF Init, Stream!Init

LEMMA StreamLogStep ==
  ASSUME OneStream, OneInv, [Next]_vars, NEW s \in Streams
  PROVE  Stream(s)!Next \/ UNCHANGED Stream(s)!vars
<1> DEFINE state == IF session = "deleted" THEN "removed"
                    ELSE IF meta[s] = "closed" THEN "closed" ELSE "open"
           ended == sub[s].step = "closed"
<1>1. StoreInv /\ Types /\ StreamInv(s) /\ StreamInv(s)' /\ Fits(s) /\ InOrder(s)
      /\ \A u \in Streams : u = s
  BY OneInvStep DEF OneInv, StoreInv, WritersFit, ClientsInOrder, OneStream
<1>2. meta \in [Streams -> {"none", "open", "closed"}]
  BY <1>1 DEF Types
<1>3. ASSUME NEW r \in Tool, WriterFrame(s, r), WriterForm(s, r)
      PROVE  Stream(s)!Next \/ UNCHANGED Stream(s)!vars
  <2>1. /\ UNCHANGED <<got, sub>>
        /\ (session' = "deleted") = (session = "deleted")
        /\ tool[s].step # "done" => meta[s] # "closed"
    BY <1>1, <1>3, WriterFacts DEF WriterFrame, Fits
  <2>2. CASE WriterCommits(s, r)
    <3>1. PICK e \in Record :
            /\ e.seq = tool[s].seq /\ tool[s].step = "commit" /\ session = "active"
            /\ log'[s] = Append(log[s], e) /\ meta'[s] = "open"
      BY <1>1, <1>3, <2>2, CommitFacts
    <3>2. e \in Event
      BY <3>1, CommittedEvent
    <3>3. state = "open" /\ state' = "open"
      BY <2>1, <3>1
    <3>4. Stream(s)!AppendEvent(e)
      BY <2>1, <3>1, <3>3 DEF Stream!AppendEvent
    <3> QED BY <3>2, <3>4 DEF Stream!Next
  <2>3. CASE log' = log /\ ~WriterCommits(s, r)
    <3>1. state' = state \/ (state = "open" /\ state' = "closed")
      BY <1>1, <1>2, <1>3, <2>1, <2>3
         DEF WriterForm, WriterIdle, WriterLeaves, WriterReads, WriterNumbers, WriterPuts,
             WriterCleansUp, table
    <3>2. CASE state' = state
      BY <2>1, <2>3, <3>2 DEF Stream!vars
    <3>3. CASE state = "open" /\ state' = "closed"
      <4>1. Stream(s)!Close
        BY <2>1, <2>3, <3>3 DEF Stream!Close
      <4> QED BY <4>1 DEF Stream!Next
    <3> QED BY <3>1, <3>2, <3>3
  <2> QED BY <1>3, <2>2, <2>3
          DEF WriterForm, WriterIdle, WriterReads, WriterNumbers, WriterPuts, WriterCleansUp,
              table
<1>4. ASSUME NEW r \in Sub, PumpFrame(s, r), PumpForm(s, r)
      PROVE  Stream(s)!Next \/ UNCHANGED Stream(s)!vars
  <2>1. /\ sub'[s] = r /\ UNCHANGED <<session, meta, log>>
    BY <1>1, <1>4, PumpFacts
  <2>2. state' = state
    BY <2>1
  <2>3. CASE PumpHands(s, r)
    <3>1. PICK e \in sub[s].batch :
            /\ Leads(e, sub[s].batch)
            /\ got' = [got EXCEPT ![s] = Append(got[s], e)]
            /\ r = At("forward", sub[s].cursor, sub[s].batch \ {e}, sub[s].full, sub[s].drain)
      BY <2>3 DEF PumpHands
    <3>2. got'[s] = Append(got[s], e) /\ ended' = ended
      BY <1>1, <2>1, <2>3, <3>1 DEF Types, PumpHands, At
    <3>3. CASE session = "deleted"
      <4>1. Stream(s)!AfterRemoval
        BY <2>1, <2>2, <3>3 DEF Stream!AfterRemoval
      <4> QED BY <4>1 DEF Stream!Next
    <3>4. CASE session # "deleted"
      <4>1. Len(got[s]) + 1 \in 1 .. Len(log[s]) /\ log[s][Len(got[s]) + 1] = e
        BY <1>1, <2>3, <3>1, <3>4, NextInLog DEF PumpHands
      <4>2. Len(got[s]) < Len(log[s])
        BY <1>1, <4>1, StreamTypes
      <4>3. Stream(s)!Receive
        BY <2>1, <2>2, <3>2, <4>1, <4>2 DEF Stream!Receive
      <4> QED BY <4>3 DEF Stream!Next
    <3> QED BY <3>3, <3>4
  <2>4. CASE PumpPolls(s, r) /\ sub[s].drain
    <3>1. r.step = "closed" /\ UNCHANGED got /\ session # "deleted"
      BY <2>4 DEF PumpPolls, At, Found
    <3>2. meta[s] = "closed"
      BY <1>1, <2>4, <3>1 DEF StreamInv, AtEnd, PumpPolls, Following
    <3>3. state = "closed" /\ ended'
      BY <2>1, <3>1, <3>2
    <3>4. got[s] = log[s]
      <4>1. Len(got[s]) = Len(log[s])
        BY <1>1, <2>1, <3>1 DEF StreamInv, AtEnd
      <4>2. \A i \in 1 .. Len(got[s]) : got[s][i] = log[s][i]
        BY <1>1, <3>1 DEF StreamInv, NoGap
      <4>3. got[s] \in Seq(Record) /\ log[s] \in Seq(Record)
        BY <1>1, StreamTypes
      <4> QED BY <4>1, <4>2, <4>3
    <3>5. Stream(s)!End
      BY <2>1, <2>2, <3>1, <3>3, <3>4 DEF Stream!End
    <3> QED BY <3>5 DEF Stream!Next
  <2>5. CASE ~PumpHands(s, r) /\ ~(PumpPolls(s, r) /\ sub[s].drain)
    <3>1. UNCHANGED got
      BY <1>4, <2>5 DEF PumpForm, PumpEnds, PumpStarts, PumpLoads, PumpShows, PumpTurns,
                        PumpPolls
    <3>2. sub[s].step # "closed" /\ r.step # "closed"
      BY <1>4, <2>5 DEF PumpForm, PumpEnds, PumpStarts, PumpLoads, PumpShows, PumpTurns,
                        PumpPolls, At
    <3>3. ended' = ended
      BY <2>1, <3>2
    <3> QED BY <2>1, <2>2, <3>1, <3>3 DEF Stream!vars
  <2> QED BY <2>3, <2>4, <2>5
<1>5. ASSUME NEW d \in Deletion, DeletionFrame(d), DeletionForm(d)
      PROVE  Stream(s)!Next \/ UNCHANGED Stream(s)!vars
  <2>1. UNCHANGED <<sub, log, got>>
    BY <1>5 DEF DeletionFrame
  <2>2. session' = "deleted"
    BY <1>1, <1>5 DEF DeletionForm, DeletionMarks, DeletionFindsNone, DeletionFindsSome,
         DeletionDropsStream, DeletionDropsPayload, DeletionDropsEvent, DeletionFails,
         DeletionTurns, StoreInv, DeletionKnown
  <2>3. state' = "removed"
    BY <2>2
  <2>4. Stream(s)!Remove
    BY <2>1, <2>3 DEF Stream!Remove
  <2> QED BY <2>4 DEF Stream!Next
<1>6. CASE UNCHANGED vars
  BY <1>6 DEF vars, Stream!vars
<1> QED BY <1>1, <1>3, <1>4, <1>5, <1>6, StepForms

\* The only stream of a session is a log as StreamLog describes it.
THEOREM OneStreamImplementsLog ==
  ASSUME OneStream PROVE Spec => ImplementsStreamLog
<1>1. Init => OneInv
  BY OneInvInit
<1>2. OneInv /\ [Next]_vars => OneInv'
  BY OneInvStep
<1>3. OneInv /\ [Next]_vars => \A s \in Streams : Stream(s)!Next \/ UNCHANGED Stream(s)!vars
  BY StreamLogStep
<1>4. Init => \A s \in Streams : Stream(s)!Init
  BY StreamLogInit
<1> QED BY <1>1, <1>2, <1>3, <1>4, PTL DEF Spec, ImplementsStreamLog
=============================================================================

----------------------------- MODULE Mcp_proofs -----------------------------
(***************************************************************************)
(* Proofs about the parts of the MCP server: the tasks, the calls of a tool, *)
(* the pages of a list and the versions of the protocol, for any values of   *)
(* their constants; those about McpSessions are in McpSessions_proofs and    *)
(* brought here to the server.                                              *)
(***************************************************************************)
EXTENDS MCMcp, Sequences, FiniteSetTheorems, TLAPS

-----------------------------------------------------------------------------
(* Tasks.                                                                   *)

\* What a record was, and what those who have read it or written it rely on.
OneOutcome ==
    \A t \in Tasks \ removed : \A s \in past[t] \cap Terminal : item[t] = s
UpToNow == \A t \in Tasks \ removed : past[t] # {"none"} => item[t] # "none"
NotBefore ==
    \A t \in Tasks : /\ tool[t].step \in {"idle", "create"} => past[t] = {"none"}
                     /\ tool[t].step = "write" => "working" \in past[t]
CancelsRead ==
    \A c \in Cancels :
        /\ cancel[c].step = "write" => "working" \in past[cancel[c].task]
        /\ cancel[c].step \in {"stop", "ok"} =>
             cancel[c].task \in removed \/ item[cancel[c].task] = "canceled"
AnswersRead ==
    \A w \in Waits : wait[w].answer \in Terminal =>
        wait[w].task \in removed \/ item[wait[w].task] = wait[w].answer

TaskInv ==
    /\ TypeOK
    /\ OneOutcome
    /\ UpToNow
    /\ NotBefore
    /\ CancelsRead
    /\ AnswersRead
    /\ StoppedIsCanceled

LEMMA TaskInit ==
  ASSUME Tasks # {}
  PROVE  Init => TaskInv
<1>1. AnyTask \in Tasks
  BY DEF AnyTask
<1> QED
  BY <1>1 DEF Init, TaskInv, TypeOK, OneOutcome, UpToNow, NotBefore, CancelsRead, AnswersRead,
     StoppedIsCanceled, Status, Terminal, Outcomes, Tool, Cancel, Wait

\* A step that leaves the records alone.
LEMMA RecordsKept ==
  ASSUME TaskInv, UNCHANGED <<item, past, removed>>,
         TypeOK', NotBefore', CancelsRead', AnswersRead', StoppedIsCanceled'
  PROVE  TaskInv'
  BY DEF TaskInv, OneOutcome, UpToNow

\* A record is written that had no outcome.
LEMMA RecordWritten ==
  ASSUME TaskInv, NEW t \in Tasks, NEW s \in Status \ {"none"}, Put(t, s), MayWrite(t),
         "working" \in past[t] \/ (s = "working" /\ past[t] = {"none"}),
         UNCHANGED <<stopped, wait, removed>>,
         TypeOK', NotBefore', CancelsRead'
  PROVE  TaskInv'
<1>1. /\ \A u \in Tasks : item'[u] = IF u = t THEN s ELSE item[u]
      /\ \A u \in Tasks : past'[u] = IF u = t THEN past[u] \cup {s} ELSE past[u]
  BY DEF Put, TaskInv, TypeOK
<1>2. item[t] \notin Terminal /\ "canceled" \in Terminal
  BY DEF MayWrite, Terminal
<1>3. OneOutcome'
  <2> SUFFICES ASSUME NEW u \in Tasks \ removed, NEW old \in past'[u] \cap Terminal
               PROVE  item'[u] = old
    BY DEF OneOutcome
  <2> QED BY <1>1, <1>2 DEF TaskInv, OneOutcome
<1>4. UpToNow'
  BY <1>1 DEF TaskInv, UpToNow
<1>5. AnswersRead'
  <2>1. wait' = wait /\ wait \in [Waits -> Wait]
    BY DEF TaskInv, TypeOK
  <2>2. \A w \in Waits : wait[w].task \in Tasks
    BY <2>1 DEF Wait
  <2> QED BY <1>1, <1>2, <2>1, <2>2 DEF TaskInv, AnswersRead
<1>6. StoppedIsCanceled'
  BY <1>1, <1>2 DEF TaskInv, TypeOK, StoppedIsCanceled
<1> QED BY <1>3, <1>4, <1>5, <1>6 DEF TaskInv

USE DEF ToolGoes, CancelGoes, Answer, Reads

\* The tool of one task moves on.
LEMMA ToolMoves ==
  ASSUME TaskInv, NEW t \in Tasks, NEW new \in Tool, tool' = [tool EXCEPT ![t] = new],
         UNCHANGED <<item, past, stopped, cancel, wait, removed>>, tracked' \subseteq Tasks,
         new.step \in {"idle", "create"} => past[t] = {"none"},
         new.step = "write" => "working" \in past[t]
  PROVE  TaskInv'
<1>1. TypeOK'
  BY DEF TaskInv, TypeOK
<1>2. NotBefore'
  BY DEF TaskInv, TypeOK, NotBefore
<1>3. CancelsRead' /\ AnswersRead' /\ StoppedIsCanceled'
  BY DEF TaskInv, CancelsRead, AnswersRead, StoppedIsCanceled
<1> QED BY <1>1, <1>2, <1>3, RecordsKept

\* A tool's step other than those that write its record.
LEMMA ToolGoesOn ==
  ASSUME TaskInv, NEW t \in Tasks,
         NEW next \in {"create", "track", "run", "load", "write", "finish", "done", "lost"},
         NEW end \in Outcomes, tool' = [tool EXCEPT ![t] = [step |-> next, outcome |-> end]],
         UNCHANGED <<item, past, stopped, cancel, wait, removed>>,
         tracked' \subseteq Tasks,
         next = "create" => tool[t].step = "idle",
         next = "write" => "working" \in past[t]
  PROVE  TaskInv'
<1> DEFINE new == [step |-> next, outcome |-> end]
<1>1. new \in Tool /\ new.step = next
  BY DEF Tool
<1>2. next = "create" => past[t] = {"none"}
  BY DEF TaskInv, NotBefore
<1> QED BY <1>1, <1>2, ToolMoves

LEMMA ToolGoesEffect ==
  ASSUME TypeOK, NEW t \in Tasks, NEW next, ToolGoes(t, next)
  PROVE  tool' = [tool EXCEPT ![t] = [step |-> next, outcome |-> tool[t].outcome]]
<1>1. ASSUME NEW r \in Tool PROVE [r EXCEPT !.step = next] = [step |-> next, outcome |-> r.outcome]
  BY DEF Tool
<1>2. tool' = [tool EXCEPT ![t] = [tool[t] EXCEPT !.step = next]] /\ tool[t] \in Tool
  BY DEF TypeOK
<1> QED BY <1>1, <1>2

LEMMA QuietToolStep ==
  ASSUME TaskInv, NEW t \in Tasks,
         StartTask(t) \/ Track(t) \/ ToolEnds(t) \/ LoadForUpdate(t) \/ Finish(t) \/ ToolLost(t)
  PROVE  TaskInv'
<1>1. tracked \subseteq Tasks /\ tool[t].outcome \in Outcomes /\ TypeOK
  BY DEF TaskInv, TypeOK, Tool
<1>2. ASSUME NEW next, ToolGoes(t, next)
      PROVE  tool' = [tool EXCEPT ![t] = [step |-> next, outcome |-> tool[t].outcome]]
  BY <1>1, <1>2, ToolGoesEffect
<1>3. CASE StartTask(t)
  <2>1. tool' = [tool EXCEPT ![t] = [step |-> "create", outcome |-> tool[t].outcome]]
    BY <1>2, <1>3 DEF StartTask
  <2> QED BY <1>1, <1>3, <2>1, ToolGoesOn DEF StartTask
<1>4. CASE Track(t)
  <2>1. tracked' \subseteq Tasks
    BY <1>1, <1>4 DEF Track
  <2>2. tool' = [tool EXCEPT ![t] = [step |-> "run", outcome |-> tool[t].outcome]]
    BY <1>2, <1>4 DEF Track
  <2> QED BY <1>1, <1>4, <2>1, <2>2, ToolGoesOn DEF Track
<1>5. CASE ToolEnds(t)
  BY <1>1, <1>2, <1>5, ToolGoesOn DEF ToolEnds
<1>6. CASE LoadForUpdate(t)
  <2>1. PICK status \in Status :
          /\ status \in past[t]
          /\ ToolGoes(t, CASE status = "working" -> "write"
                           [] status \in Terminal -> "finish"
                           [] status = "none" -> "lost")
    BY <1>6 DEF LoadForUpdate
  <2>2. tracked' \subseteq Tasks
    BY <1>1, <1>6 DEF LoadForUpdate
  <2>3. CASE status = "working"
    <3>1. ToolGoes(t, "write")
      BY <2>1, <2>3 DEF Terminal, Outcomes
    <3> QED BY <1>1, <1>2, <1>6, <2>1, <2>2, <2>3, <3>1, ToolGoesOn DEF LoadForUpdate
  <2>4. CASE status \in Terminal
    <3>1. ToolGoes(t, "finish")
      BY <2>1, <2>4 DEF Terminal, Outcomes
    <3>2. tool' = [tool EXCEPT ![t] = [step |-> "finish", outcome |-> tool[t].outcome]]
      BY <1>2, <3>1
    <3> QED BY <1>1, <1>6, <2>2, <3>2, ToolGoesOn DEF LoadForUpdate
  <2>5. CASE status = "none"
    <3>1. ToolGoes(t, "lost")
      BY <2>1, <2>5 DEF Terminal, Outcomes
    <3> QED BY <1>1, <1>2, <1>6, <2>2, <3>1, ToolGoesOn DEF LoadForUpdate
  <2> QED BY <2>3, <2>4, <2>5 DEF Status
<1>7. CASE Finish(t)
  BY <1>1, <1>2, <1>7, ToolGoesOn DEF Finish
<1>8. CASE ToolLost(t)
  BY <1>1, <1>2, <1>8, ToolGoesOn DEF ToolLost
<1> QED BY <1>3, <1>4, <1>5, <1>6, <1>7, <1>8

LEMMA CreateRecordKeeps ==
  ASSUME TaskInv, NEW t \in Tasks, CreateRecord(t)
  PROVE  TaskInv'
<1>1. PICK next \in {"track", "lost"} : ToolGoes(t, next)
  BY DEF CreateRecord
<1>2. past[t] = {"none"} /\ item[t] = "none" /\ MayWrite(t)
  BY DEF CreateRecord, TaskInv, TypeOK, NotBefore, MayWrite, Terminal, Outcomes
<1>3. TypeOK'
  BY <1>1 DEF CreateRecord, Put, TaskInv, TypeOK, Tool, Status
<1>4. NotBefore'
  BY <1>1, <1>2 DEF CreateRecord, Put, TaskInv, TypeOK, NotBefore
<1>5. CancelsRead'
  BY <1>2 DEF CreateRecord, Put, TaskInv, TypeOK, CancelsRead, Cancel
<1> QED BY <1>2, <1>3, <1>4, <1>5, RecordWritten DEF CreateRecord, Status

LEMMA WriteOutcomeKeeps ==
  ASSUME TaskInv, NEW t \in Tasks, WriteOutcome(t)
  PROVE  TaskInv'
<1> DEFINE end == tool[t].outcome
<1>1. tool[t] \in Tool /\ end \in Outcomes /\ end \in Status \ {"none"}
  BY DEF TaskInv, TypeOK, Tool, Status, Terminal, Outcomes
<1>2. "working" \in past[t]
  BY DEF WriteOutcome, TaskInv, NotBefore
<1>3. CASE ~MayWrite(t)
  <2>1. tool' = [tool EXCEPT ![t] = [step |-> "finish", outcome |-> end]]
    BY ToolGoesEffect DEF WriteOutcome, TaskInv
  <2> QED BY <1>1, <1>3, <2>1, ToolGoesOn DEF WriteOutcome, TaskInv, TypeOK
<1>4. CASE MayWrite(t) /\ Put(t, end)
  <2>1. TypeOK'
    BY <1>1, <1>4 DEF WriteOutcome, Put, TaskInv, TypeOK, Tool
  <2>2. NotBefore'
    BY <1>2, <1>4 DEF WriteOutcome, Put, TaskInv, TypeOK, NotBefore
  <2>3. CancelsRead'
    BY <1>4 DEF WriteOutcome, Put, TaskInv, TypeOK, CancelsRead, Cancel, MayWrite, Terminal
  <2> QED BY <1>1, <1>2, <1>4, <2>1, <2>2, <2>3, RecordWritten DEF WriteOutcome
<1> QED BY <1>3, <1>4 DEF WriteOutcome

\* The requests move on and leave the records alone.
LEMMA CancelMoves ==
  ASSUME TaskInv, NEW c \in Cancels, NEW new \in Cancel, cancel' = [cancel EXCEPT ![c] = new],
         UNCHANGED <<item, past, tool, tracked, wait, removed>>,
         new.step = "write" => "working" \in past[new.task],
         new.step \in {"stop", "ok"} => new.task \in removed \/ item[new.task] = "canceled",
         stopped' \subseteq Tasks, StoppedIsCanceled'
  PROVE  TaskInv'
<1>1. TypeOK'
  BY DEF TaskInv, TypeOK
<1>2. CancelsRead'
  BY DEF TaskInv, TypeOK, CancelsRead
<1>3. NotBefore' /\ AnswersRead'
  BY DEF TaskInv, NotBefore, AnswersRead
<1> QED BY <1>1, <1>2, <1>3, RecordsKept

LEMMA CancelGoesEffect ==
  ASSUME TypeOK, NEW c \in Cancels, NEW next, CancelGoes(c, next)
  PROVE  cancel' = [cancel EXCEPT ![c] = [step |-> next, task |-> cancel[c].task]]
<1>1. ASSUME NEW r \in Cancel PROVE [r EXCEPT !.step = next] = [step |-> next, task |-> r.task]
  BY DEF Cancel
<1>2. cancel' = [cancel EXCEPT ![c] = [cancel[c] EXCEPT !.step = next]] /\ cancel[c] \in Cancel
  BY DEF TypeOK
<1> QED BY <1>1, <1>2

\* A request about the same task as before.
LEMMA CancelGoesOn ==
  ASSUME TaskInv, NEW c \in Cancels,
         NEW next \in {"load", "write", "stop", "ok", "error"}, CancelGoes(c, next),
         UNCHANGED <<item, past, tool, tracked, wait, removed>>,
         next = "write" => "working" \in past[cancel[c].task],
         next \in {"stop", "ok"} => cancel[c].step \in {"stop", "ok"},
         stopped' \subseteq Tasks, StoppedIsCanceled'
  PROVE  TaskInv'
<1> DEFINE new == [step |-> next, task |-> cancel[c].task]
<1>1. cancel' = [cancel EXCEPT ![c] = new]
  BY CancelGoesEffect DEF TaskInv
<1>2. new \in Cancel /\ new.step = next /\ new.task = cancel[c].task
  BY DEF Cancel, TaskInv, TypeOK
<1>3. next \in {"stop", "ok"} => new.task \in removed \/ item[new.task] = "canceled"
  BY <1>2 DEF TaskInv, CancelsRead
<1> QED BY <1>1, <1>2, <1>3, CancelMoves

LEMMA CancelStep ==
  ASSUME TaskInv, NEW c \in Cancels,
         StartCancel(c) \/ CancelLoad(c) \/ CancelStop(c) \/ CancelFails(c)
  PROVE  TaskInv'
<1>1. StoppedIsCanceled /\ stopped \subseteq Tasks /\ cancel[c].task \in Tasks
  BY DEF TaskInv, TypeOK, Cancel
<1>2. UNCHANGED <<stopped, item, removed>> => StoppedIsCanceled'
  BY <1>1 DEF StoppedIsCanceled
<1>3. CASE StartCancel(c)
  <2>1. PICK t \in Tasks : cancel' = [cancel EXCEPT ![c] = [step |-> "load", task |-> t]]
    BY <1>3 DEF StartCancel
  <2>2. [step |-> "load", task |-> t] \in Cancel
    BY DEF Cancel
  <2> QED BY <1>1, <1>2, <1>3, <2>1, <2>2, CancelMoves DEF StartCancel
<1>4. CASE CancelLoad(c)
  <2>1. PICK status \in Status :
          /\ status \in past[cancel[c].task]
          /\ CancelGoes(c, IF status = "working" THEN "write" ELSE "error")
    BY <1>4 DEF CancelLoad
  <2> QED BY <1>1, <1>2, <1>4, <2>1, CancelGoesOn DEF CancelLoad
<1>5. CASE CancelStop(c)
  <2>1. cancel[c].step = "stop" /\ CancelGoes(c, "ok")
    BY <1>5 DEF CancelStop
  <2>2. item[cancel[c].task] = "canceled" \/ cancel[c].task \in removed
    BY <2>1 DEF TaskInv, CancelsRead
  <2>3. stopped' \subseteq Tasks /\ StoppedIsCanceled'
    BY <1>1, <1>5, <2>2 DEF CancelStop, StoppedIsCanceled
  <2> QED BY <1>5, <2>1, <2>3, CancelGoesOn DEF CancelStop
<1>6. CASE CancelFails(c)
  BY <1>1, <1>2, <1>6, CancelGoesOn DEF CancelFails
<1> QED BY <1>3, <1>4, <1>5, <1>6

LEMMA CancelWriteKeeps ==
  ASSUME TaskInv, NEW c \in Cancels, CancelWrite(c)
  PROVE  TaskInv'
<1> DEFINE t == cancel[c].task
<1>1. t \in Tasks /\ "working" \in past[t] /\ "canceled" \in Status \ {"none"}
  BY DEF CancelWrite, TaskInv, TypeOK, Cancel, CancelsRead, Status, Terminal
<1>2. CASE ~MayWrite(t)
  <2>1. UNCHANGED <<item, past, stopped, removed>> /\ CancelGoes(c, "error")
    BY <1>2 DEF CancelWrite
  <2>2. stopped' \subseteq Tasks /\ StoppedIsCanceled'
    BY <2>1 DEF TaskInv, TypeOK, StoppedIsCanceled
  <2> QED BY <2>1, <2>2, CancelGoesOn DEF CancelWrite
<1>3. CASE MayWrite(t) /\ Put(t, "canceled")
  <2>1. PICK next \in {"stop", "error"} :
          cancel' = [cancel EXCEPT ![c] = [step |-> next, task |-> t]]
    BY <1>3, CancelGoesEffect DEF CancelWrite, TaskInv
  <2>2. TypeOK'
    BY <1>1, <1>3, <2>1 DEF CancelWrite, Put, TaskInv, TypeOK, Cancel
  <2>3. NotBefore'
    BY <1>1, <1>3 DEF CancelWrite, Put, TaskInv, TypeOK, NotBefore
  <2>4. CancelsRead'
    BY <1>1, <1>3, <2>1 DEF CancelWrite, Put, TaskInv, TypeOK, CancelsRead, Cancel, MayWrite,
       Terminal
  <2> QED BY <1>1, <1>3, <2>2, <2>3, <2>4, RecordWritten DEF CancelWrite
<1> QED BY <1>2, <1>3 DEF CancelWrite

LEMMA AnswerEffect ==
  ASSUME TypeOK, NEW w \in Waits, NEW given \in Terminal \cup {"error"}, Answer(w, given)
  PROVE  \E new \in Wait : /\ new.answer = given /\ new.task = wait[w].task
                           /\ wait' = [wait EXCEPT ![w] = new]
<1> DEFINE old == wait[w]
           new == [step |-> "answered", task |-> old.task, answer |-> given]
           mid == [wait EXCEPT ![w] = [old EXCEPT !.step = "answered"]]
<1>1. old \in Wait /\ wait \in [Waits -> Wait]
  BY DEF TypeOK
<1>2. ASSUME NEW r \in Wait
      PROVE  /\ [r EXCEPT !.step = "answered"] \in Wait
             /\ [r EXCEPT !.step = "answered"].task = r.task
             /\ [r EXCEPT !.answer = given] = [step |-> r.step, task |-> r.task, answer |-> given]
             /\ [r EXCEPT !.step = "answered"].step = "answered"
  BY DEF Wait
<1>3. new \in Wait /\ new.answer = given /\ new.task = old.task
  BY <1>1 DEF Wait
<1>4. mid \in [Waits -> Wait] /\ mid[w] = [old EXCEPT !.step = "answered"]
  BY <1>1, <1>2
<1>5. [mid[w] EXCEPT !.answer = given] = new
  <2>1. mid[w] \in Wait /\ mid[w].step = "answered" /\ mid[w].task = old.task
    BY <1>1, <1>2, <1>4
  <2> HIDE DEF mid, old
  <2> QED BY <1>2, <2>1
<1>6. wait' = [mid EXCEPT ![w] = [mid[w] EXCEPT !.answer = given]]
  OBVIOUS
<1>7. [mid EXCEPT ![w] = new] = [wait EXCEPT ![w] = new]
  BY <1>1
<1> QED BY <1>3, <1>5, <1>6, <1>7

LEMMA WaitStep ==
  ASSUME TaskInv, NEW w \in Waits, StartWait(w) \/ Poll(w) \/ WaitFails(w)
  PROVE  TaskInv'
<1>1. UNCHANGED <<item, past, tool, tracked, stopped, cancel, removed>>
  BY DEF StartWait, Poll, WaitFails
<1>2. wait[w] \in Wait /\ wait[w].task \in Tasks /\ TypeOK
  BY DEF TaskInv, TypeOK, Wait
<1>3. PICK new \in Wait :
        /\ wait' = [wait EXCEPT ![w] = new]
        /\ new.answer \in Terminal => new.task \in removed \/ item[new.task] = new.answer
  <2>1. CASE StartWait(w)
    <3>1. PICK t \in Tasks :
            wait' = [wait EXCEPT ![w] = [step |-> "poll", task |-> t, answer |-> "pending"]]
      BY <2>1 DEF StartWait
    <3>2. [step |-> "poll", task |-> t, answer |-> "pending"] \in Wait
      BY DEF Wait
    <3> QED BY <3>1, <3>2 DEF Terminal, Outcomes
  <2>2. CASE Poll(w)
    <3>1. PICK status \in Status \ {"working"} :
            /\ status \in past[wait[w].task]
            /\ Answer(w, IF status = "none" THEN "error" ELSE status)
      BY <2>2 DEF Poll
    <3>2. CASE status = "none"
      <4>1. Answer(w, "error") /\ "error" \notin Terminal
        BY <3>1, <3>2 DEF Terminal, Outcomes
      <4> HIDE DEF Answer
      <4> QED BY <1>2, <4>1, AnswerEffect
    <3>3. CASE status \in Terminal
      <4>1. wait[w].task \in removed \/ item[wait[w].task] = status
        BY <1>2, <3>1, <3>3 DEF TaskInv, OneOutcome
      <4>2. Answer(w, status)
        BY <3>1, <3>3 DEF Terminal, Outcomes
      <4> HIDE DEF Answer
      <4> QED BY <1>2, <3>3, <4>1, <4>2, AnswerEffect
    <3> QED BY <3>1, <3>2, <3>3 DEF Status
  <2>3. CASE WaitFails(w)
    <3>1. Answer(w, "error") /\ "error" \notin Terminal
      BY <2>3 DEF WaitFails, Terminal, Outcomes
    <3> HIDE DEF Answer
    <3> QED BY <1>2, <3>1, AnswerEffect
  <2> QED BY <2>1, <2>2, <2>3
<1>4. TypeOK'
  BY <1>1, <1>3 DEF TaskInv, TypeOK
<1>5. AnswersRead'
  BY <1>1, <1>3 DEF TaskInv, TypeOK, AnswersRead
<1>6. NotBefore' /\ CancelsRead' /\ StoppedIsCanceled'
  BY <1>1 DEF TaskInv, NotBefore, CancelsRead, StoppedIsCanceled
<1> QED BY <1>1, <1>4, <1>5, <1>6, RecordsKept

LEMMA RemoveKeeps ==
  ASSUME TaskInv, NEW t \in Tasks, Remove(t)
  PROVE  TaskInv'
<1>1. /\ \A u \in Tasks \ {t} : item'[u] = item[u] /\ past'[u] = past[u]
      /\ past'[t] = past[t] \cup {"none"} /\ item'[t] = "none" /\ removed' = removed \cup {t}
      /\ UNCHANGED <<tool, tracked, stopped, cancel, wait>>
  BY DEF Remove, Put, TaskInv, TypeOK
<1>2. TypeOK'
  BY DEF Remove, Put, TaskInv, TypeOK, Status
<1>3. OneOutcome' /\ UpToNow'
  BY <1>1 DEF TaskInv, OneOutcome, UpToNow
<1>4. NotBefore'
  BY <1>1 DEF TaskInv, NotBefore
<1>5. CancelsRead' /\ AnswersRead'
  BY <1>1 DEF TaskInv, TypeOK, CancelsRead, AnswersRead, Cancel, Wait
<1>6. StoppedIsCanceled'
  BY <1>1 DEF TaskInv, TypeOK, StoppedIsCanceled
<1> QED BY <1>2, <1>3, <1>4, <1>5, <1>6 DEF TaskInv

LEMMA TaskStep ==
  ASSUME TaskInv, [Next]_vars
  PROVE  TaskInv'
<1>1. ASSUME UNCHANGED vars PROVE TaskInv'
  BY <1>1, RecordsKept DEF vars, TaskInv, TypeOK, NotBefore, CancelsRead, AnswersRead,
     StoppedIsCanceled
<1> QED
  BY <1>1, QuietToolStep, CreateRecordKeeps, WriteOutcomeKeeps, CancelStep, CancelWriteKeeps,
     WaitStep, RemoveKeeps DEF Next, RunTool

\* Whoever tells a task's result has read its record, and whoever tells that it

\* was canceled has written it.
LEMMA ReadersAgree ==
  ASSUME TaskInv
  PROVE  ResultsAgree
<1> SUFFICES ASSUME NEW t \in Tasks \ removed, NEW v \in Waits, NEW w \in Waits,
                    NEW c \in Cancels, wait[v].task = t, wait[v].answer \in Terminal
             PROVE  /\ wait[w].task = t /\ wait[w].answer \in Terminal =>
                         wait[v].answer = wait[w].answer
                    /\ cancel[c].task = t /\ cancel[c].step \in {"stop", "ok"} =>
                         wait[v].answer = "canceled"
  BY DEF ResultsAgree
<1> QED BY DEF TaskInv, AnswersRead, CancelsRead

LEMMA McpStepOfTasks ==
  [McpNext]_<<kind, vars, sessionVars, protocolVars, callVars, pageVars>> => [Next]_vars
  BY DEF McpNext

LEMMA TasksAlwaysInv ==
  ASSUME Tasks # {}
  PROVE  McpSpec => []TaskInv
<1>1. McpInit => TaskInv
  BY TaskInit DEF McpInit
<1>2. TaskInv /\ [McpNext]_<<kind, vars, sessionVars, protocolVars, callVars, pageVars>>
        => TaskInv'
  BY McpStepOfTasks, TaskStep
<1> QED BY <1>1, <1>2, PTL DEF McpSpec

LEMMA TasksAlwaysAgree ==
  ASSUME Tasks # {}
  PROVE  McpSpec => [](StoppedIsCanceled /\ ResultsAgree)
<1>1. TaskInv => StoppedIsCanceled /\ ResultsAgree
  BY ReadersAgree DEF TaskInv
<1> QED BY <1>1, TasksAlwaysInv, PTL

-----------------------------------------------------------------------------
(* The records implement the board of a store that has a mutex.             *)

shown == [t \in Tasks |-> IF t \in removed THEN "gone" ELSE item[t]]

LEMMA ShownMoves ==
  ASSUME TaskInv, NEW t \in Tasks \ removed, NEW s \in Status, Put(t, s), removed' = removed
  PROVE  shown' = [shown EXCEPT ![t] = s] /\ shown[t] = item[t]
  BY DEF TaskInv, TypeOK, Put, shown

LEMMA ShownStays ==
  ASSUME TaskInv, NEW t \in removed, NEW s, Put(t, s), removed' = removed
  PROVE  shown' = shown
  BY DEF TaskInv, TypeOK, Put, shown

\* A write that its condition lets pass finds a record that works.
LEMMA WriteFindsWorking ==
  ASSUME TaskInv, NEW t \in Tasks \ removed, MayWrite(t), "working" \in past[t]
  PROVE  item[t] = "working"
  BY DEF TaskInv, TypeOK, UpToNow, MayWrite, Status

LEMMA BoardStep ==
  ASSUME TaskInv, [Next]_vars
  PROVE  [Board!Next]_shown
<1> USE DEF Board!Next, Board!Create, Board!Update, Board!Cancel, Board!Delete, Board!Moves,
            Board!Terminal, Board!Outcomes
<1>1. ASSUME UNCHANGED <<item, removed>> PROVE shown' = shown
  BY <1>1 DEF shown
<1>2. ASSUME NEW t \in Tasks, CreateRecord(t) PROVE [Board!Next]_shown
  <2>1. item[t] = "none" /\ Put(t, "working") /\ removed' = removed /\ "working" \in Status
    BY <1>2 DEF CreateRecord, TaskInv, TypeOK, NotBefore, Status
  <2>2. CASE t \in removed
    BY <2>1, <2>2, ShownStays
  <2>3. CASE t \notin removed
    BY <2>1, <2>3, ShownMoves DEF shown
  <2> QED BY <2>2, <2>3
<1>3. ASSUME NEW t \in Tasks, WriteOutcome(t) PROVE [Board!Next]_shown
  <2> DEFINE end == tool[t].outcome
  <2>1. end \in Outcomes /\ end \in Status /\ "working" \in past[t] /\ removed' = removed
    BY <1>3 DEF WriteOutcome, TaskInv, TypeOK, Tool, NotBefore, Status, Terminal
  <2>2. CASE UNCHANGED item
    BY <1>1, <2>1, <2>2
  <2>3. CASE MayWrite(t) /\ Put(t, end)
    <3>1. CASE t \in removed
      BY <2>1, <2>3, <3>1, ShownStays
    <3>2. CASE t \notin removed
      <4>1. shown' = [shown EXCEPT ![t] = end] /\ shown[t] = "working"
        BY <2>1, <2>3, <3>2, ShownMoves, WriteFindsWorking
      <4> HIDE DEF end
      <4> QED BY <2>1, <4>1 DEF Outcomes, shown
    <3> QED BY <3>1, <3>2
  <2> QED BY <1>3, <2>2, <2>3 DEF WriteOutcome
<1>4. ASSUME NEW c \in Cancels, CancelWrite(c) PROVE [Board!Next]_shown
  <2> DEFINE t == cancel[c].task
  <2>1. t \in Tasks /\ "canceled" \in Status /\ "working" \in past[t] /\ removed' = removed
    BY <1>4 DEF CancelWrite, TaskInv, TypeOK, Cancel, CancelsRead, Status, Terminal
  <2>2. CASE UNCHANGED item
    BY <1>1, <2>1, <2>2
  <2>3. CASE MayWrite(t) /\ Put(t, "canceled")
    BY <2>1, <2>3, ShownStays, ShownMoves, WriteFindsWorking DEF shown
  <2> QED BY <1>4, <2>2, <2>3 DEF CancelWrite
<1>5. ASSUME NEW t \in Tasks, Remove(t) PROVE [Board!Next]_shown
  <2>1. /\ \A u \in Tasks \ {t} : item'[u] = item[u]
        /\ removed' = removed \cup {t} /\ item[t] \in Status \ {"none"}
    BY <1>5 DEF Remove, Put, TaskInv, TypeOK
  <2>2. CASE t \in removed
    BY <2>1, <2>2 DEF shown
  <2>3. CASE t \notin removed
    <3>1. shown' = [shown EXCEPT ![t] = "gone"] /\ shown[t] \in {"working"} \cup Terminal
      BY <2>1, <2>3 DEF shown, Status
    <3> QED BY <3>1 DEF Terminal, Outcomes, shown
  <2> QED BY <2>2, <2>3
<1>6. CASE UNCHANGED <<item, removed>>
  BY <1>1, <1>6
<1>7. CASE ~UNCHANGED <<item, removed>>
  <2>1. /\ \A t \in Tasks : ~StartTask(t) /\ ~Track(t) /\ ~ToolEnds(t) /\ ~LoadForUpdate(t)
                            /\ ~Finish(t) /\ ~ToolLost(t)
        /\ \A c \in Cancels : ~StartCancel(c) /\ ~CancelLoad(c) /\ ~CancelStop(c)
                              /\ ~CancelFails(c)
        /\ \A w \in Waits : ~StartWait(w) /\ ~Poll(w) /\ ~WaitFails(w)
        /\ ~UNCHANGED vars
    BY <1>7 DEF vars, StartTask, Track, ToolEnds, LoadForUpdate, Finish, ToolLost, StartCancel,
       CancelLoad, CancelStop, CancelFails, StartWait, Poll, WaitFails
  <2> QED BY <1>2, <1>3, <1>4, <1>5, <2>1 DEF Next, RunTool
<1> QED BY <1>6, <1>7

\* The records behave as those of MemoryTaskStore: a task works until it is
\* completed, failed or canceled, once, and a deleted one is not heard of again.
THEOREM RecordsImplementTaskBoard ==
  ASSUME Tasks # {}
  PROVE  McpSpec => ImplementsTaskBoard
<1>1. McpInit => Board!Init
  BY DEF McpInit, Init, Board!Init
<1>2. TaskInv /\ [McpNext]_<<kind, vars, sessionVars, protocolVars, callVars, pageVars>>
        => [Board!Next]_shown
  BY McpStepOfTasks, BoardStep
<1> QED BY <1>1, <1>2, TasksAlwaysInv, PTL DEF McpSpec, ImplementsTaskBoard, Board!Spec, shown

-----------------------------------------------------------------------------
(* Calls of a tool.                                                         *)

\* What the finish hook is going to be told is how the call ends.
EndsAlike ==
    /\ err = None => /\ code = "none" /\ outcome # "timeout" /\ result \in Call!Results
                     /\ marked <=> result = "isError"
    /\ err # None => \/ err = "invalid" /\ code = "InvalidParams" /\ outcome # "timeout"
                     \/ err = "internal" /\ code = "InternalError" /\ outcome # "timeout"
                     \/ err = "deadline" /\ code = "ServerError" /\ outcome = "timeout"
                     \/ err = "canceled" /\ code = "ServerError" /\ outcome # "timeout"
    /\ late => outcome = "timeout"
HookTold == finishes = <<[outcome |-> outcome, code |-> code, marked |-> marked]>>

\* The hook is told once the call has ended, and what came too late is a timeout.
CallInv ==
    /\ call.wrapped \in BOOLEAN /\ marked \in BOOLEAN
    /\ step \in {"lookup", "start", "bind", "run", "classify", "handle", "recover", "finish",
                "called", "thrown", "told"}
    /\ step \in {"lookup", "start", "bind", "run"} => ~late /\ err = None
    /\ call.wrapped =>
         /\ step \in {"lookup", "start", "bind", "run", "classify", "handle", "recover",
                     "finish"} => finishes = <<>>
         /\ step = "classify" => err \in Call!HandlerErrors /\ (late => inner = "deadline")
         /\ step \in {"handle", "recover"} => ~late
         /\ step = "finish" => EndsAlike
         /\ step = "called" => err = "notFound" \/ (EndsAlike /\ HookTold)
         /\ step # "thrown"
    /\ Call!ToolToldTrue

LEMMA CallInvInit == Call!Init => CallInv
  BY DEF Call!Init, CallInv, EndsAlike, HookTold, Call!ToolToldTrue

LEMMA CallInvStep == CallInv /\ [Call!Next]_callVars => CallInv'
<1> SUFFICES ASSUME CallInv, [Call!Next]_callVars PROVE CallInv'
  OBVIOUS
<1>1. CASE UNCHANGED callVars
  BY <1>1 DEF callVars, CallInv, EndsAlike, HookTold, Call!ToolToldTrue, Call!Finished,
              Call!Refused
<1>2. ASSUME NEW end \in Call!Ends, Call!ServerEnds(end) PROVE CallInv'
  <2>1. /\ step # "told" /\ (inner = "live" \/ inner' = inner)
        /\ UNCHANGED <<call, step, result, err, outcome, code, marked, finishes, late>>
    BY <1>2 DEF Call!ServerEnds, Call!Telemetry
  <2> QED BY <2>1 DEF CallInv, EndsAlike, HookTold, Call!ToolToldTrue
<1>3. CASE Call!TimesOut
  <2>1. /\ step # "told" /\ inner = "live"
        /\ UNCHANGED <<call, step, result, err, outcome, code, marked, finishes, late>>
    BY <1>3 DEF Call!TimesOut, Call!Telemetry
  <2> QED BY <2>1 DEF CallInv, EndsAlike, HookTold, Call!ToolToldTrue
<1>4. CASE Call!Lookup \/ Call!Start
  <2>1. /\ step \in {"lookup", "start"}
        /\ \/ step' \in {"start", "bind"} /\ err' = err
           \/ step' = "run" /\ err' = err
           \/ step' = "called" /\ err' = "notFound"
        /\ UNCHANGED <<call, inner, result, outcome, code, marked, finishes, late>>
    BY <1>4 DEF Call!Lookup, Call!Start, Call!Telemetry, Call!Contexts
  <2> QED BY <2>1 DEF CallInv, Call!ToolToldTrue
<1>5. CASE Call!Bind
  BY <1>5, NoneAssumption
     DEF Call!Bind, Call!Finish, Call!Telemetry, Call!Contexts, Call!HandlerErrors,
         CallInv, EndsAlike, Call!ToolToldTrue
<1>6. ASSUME NEW r \in Call!Results, Call!HandlerReturns(r) PROVE CallInv'
  BY <1>6, NoneAssumption
     DEF Call!HandlerReturns, Call!Finish, Call!Telemetry, Call!Contexts, Call!HandlerErrors,
         CallInv, EndsAlike, Call!ToolToldTrue
<1>7. ASSUME NEW e \in Call!HandlerErrors, Call!HandlerFails(e) PROVE CallInv'
  BY <1>7 DEF Call!HandlerFails, Call!Telemetry, Call!Contexts, CallInv, Call!ToolToldTrue
<1>8. CASE Call!Classify
  BY <1>8, NoneAssumption
     DEF Call!Classify, Call!Finish, Call!Telemetry, Call!Contexts, Call!HandlerErrors,
         CallInv, EndsAlike, Call!ToolToldTrue
<1>9. CASE Call!HandleError
  BY <1>9, NoneAssumption
     DEF Call!HandleError, Call!Finish, Call!Telemetry, Call!Contexts, CallInv, EndsAlike,
         Call!ToolToldTrue
<1>10. CASE Call!Panic
  BY <1>10 DEF Call!Panic, Call!Telemetry, Call!Contexts, CallInv, Call!ToolToldTrue
<1>11. CASE Call!Recover
  BY <1>11, NoneAssumption
     DEF Call!Recover, Call!Finish, Call!Telemetry, Call!Contexts, CallInv, EndsAlike,
         Call!ToolToldTrue
<1>12. CASE Call!FinishHook
  <2> DEFINE telling == [outcome |-> outcome, code |-> code, marked |-> marked]
  <2>1. /\ step = "finish" /\ step' = "called" /\ finishes' = Append(finishes, telling)
        /\ UNCHANGED <<call, inner, result, err, outcome, code, marked, late>>
    BY <1>12 DEF Call!FinishHook, Call!Telemetry, Call!Contexts
  <2>2. CASE ~call.wrapped
    BY <2>1, <2>2 DEF CallInv, Call!ToolToldTrue
  <2>3. CASE call.wrapped
    <3>1. finishes = <<>> /\ EndsAlike
      BY <2>1, <2>3 DEF CallInv
    <3>2. finishes' = <<telling>>
      BY <2>1, <3>1
    <3>3. HookTold'
      BY <2>1, <3>2 DEF HookTold
    <3>4. EndsAlike'
      BY <2>1, <3>1 DEF EndsAlike
    <3> QED BY <2>1, <3>3, <3>4 DEF CallInv, Call!ToolToldTrue
  <2> QED BY <2>2, <2>3
<1>13. CASE Call!Tell
  <2> DEFINE plain == UNCHANGED <<call, server, inner, result, err, outcome, code, marked,
                                 finishes, late>>
  <2>1. step' = "told" /\ step = "called" /\ plain
    BY <1>13 DEF Call!Tell, Call!Telemetry, Call!Contexts
  <2>2. CASE ~call.wrapped \/ err = "notFound"
    BY <2>1, <2>2 DEF CallInv, Call!ToolToldTrue
  <2>3. CASE call.wrapped /\ err # "notFound"
    <3>1. EndsAlike /\ HookTold
      BY <2>1, <2>3 DEF CallInv
    <3>2. /\ Len(finishes) = 1 /\ Call!Finished.code = code
          /\ Call!Finished.outcome = outcome /\ Call!Finished.marked = marked
      BY <3>1 DEF HookTold, Call!Finished
    <3>3. CASE call.mode = "task" /\ server # "live"
      <4>1. answer'.kind = "left" /\ answer'.text = "none"
        BY <1>13, <3>3 DEF Call!Tell, Call!Left
      <4>2. Call!ToolToldTrue'
        BY <2>1, <3>1, <3>2, <3>3, <4>1 DEF Call!ToolToldTrue, EndsAlike, Call!Finished
      <4> QED BY <2>1, <4>2 DEF CallInv
    <3>4. CASE ~(call.mode = "task" /\ server # "live") /\ err = None
      <4>1. \/ /\ answer'.kind = "error" /\ Call!Refused
               /\ answer'.text \in {"internal", "unsupported"}
            \/ answer'.kind = "result" /\ answer'.result = result /\ answer'.text = "none"
        BY <1>13, <3>4
           DEF Call!Tell, Call!Prepared, Call!Error, Call!Result, Call!Refused
      <4>2. Call!ToolToldTrue'
        BY <2>1, <3>1, <3>2, <3>4, <4>1
           DEF Call!ToolToldTrue, EndsAlike, Call!Finished, Call!Refused
      <4> QED BY <2>1, <4>2 DEF CallInv
    <3>5. CASE ~(call.mode = "task" /\ server # "live") /\ err # None
      <4>1. /\ answer'.kind = "error" /\ answer'.code = code
            /\ answer'.text \in {"invalid", "internal", "timedOut", "canceled"}
            /\ outcome = "timeout" => answer'.text = "timedOut"
        BY <1>13, <3>1, <3>5
           DEF Call!Tell, Call!ToolCallError, Call!Error, EndsAlike, Call!HandlerErrors
      <4>2. Call!ToolToldTrue'
        BY <2>1, <3>1, <3>2, <3>5, <4>1
           DEF Call!ToolToldTrue, EndsAlike, Call!Finished, Call!Refused
      <4> QED BY <2>1, <4>2 DEF CallInv
    <3> QED BY <3>3, <3>4, <3>5
  <2> QED BY <2>2, <2>3
<1>14. CASE Call!TellPanic
  BY <1>14 DEF Call!TellPanic, Call!Telemetry, Call!Contexts, CallInv, Call!ToolToldTrue
<1> QED BY <1>1, <1>2, <1>3, <1>4, <1>5, <1>6, <1>7, <1>8, <1>9, <1>10, <1>11, <1>12, <1>13,
           <1>14 DEF Call!Next

\* The finish hook of a wrapped tool is told once, before the client and the same
\* as the client, of however the call ended; a handler that ends after its
\* deadline has timed out; and the client sees no error of the product's.
THEOREM CallsAlwaysToldTrue == McpSpec => [](kind = "CALL" => Call!ToolToldTrue)
<1> DEFINE Inv == kind = "CALL" => CallInv
<1>1. McpInit => Inv
  BY CallInvInit DEF McpInit
<1>2. Inv /\ [McpNext]_<<kind, vars, sessionVars, protocolVars, callVars, pageVars>> => Inv'
  <2> SUFFICES ASSUME Inv, kind' = "CALL",
                      [McpNext]_<<kind, vars, sessionVars, protocolVars, callVars, pageVars>>
               PROVE  CallInv'
    OBVIOUS
  <2>1. kind = "CALL" /\ [Call!Next]_callVars
    BY DEF McpNext
  <2> QED BY <2>1, CallInvStep
<1>3. Inv => (kind = "CALL" => Call!ToolToldTrue)
  BY DEF CallInv
<1> QED BY <1>1, <1>2, <1>3, PTL DEF McpSpec

-----------------------------------------------------------------------------
(* Pages of a list of tasks.                                                *)

PageRecord == [status : {"absent", "live", "expired", "removed"}, created : Nat]
Paged == cursor \notin {Pages!Start, Pages!End}

PageTypes ==
    /\ rowStore \in {"memory", "dynamo"}
    /\ rows \in [PageTasks -> PageRecord] /\ oldRows \in [PageTasks -> PageRecord]
    /\ cursor \in {Pages!Start, Pages!End} \cup {Pages!Paging(n) : n \in Nat}
    /\ listed \in Seq(PageTasks)
    /\ lasting \subseteq PageTasks /\ changed \subseteq PageTasks

\* What is not there yet has no place among the tasks.
Present == {t \in PageTasks : rows[t].status # "absent"}
OnlyPresent ==
    /\ Pages!Stored(oldRows) \subseteq Present
    /\ changed \subseteq Present
    /\ \A i \in 1 .. Len(listed) : listed[i] \in Present
    /\ lasting \subseteq Pages!Live(rows) \cap Pages!Live(oldRows)

\* Whether a replica is asked or not, the tasks that differ are known as changed.
ChangesKnown ==
    IF cursor = Pages!Start THEN listed = <<>> /\ changed = {} /\ lasting = {}
    ELSE \A u \in PageTasks :
            ~(u \in Pages!Stored(rows) <=> u \in Pages!Stored(oldRows)) => u \in changed

\* The place of a task, which no change before it has shifted.
Earlier(t) == {u \in Pages!Stored(rows) : Pages!Before(u, t)}
Place(t) == Cardinality(Earlier(t))
Kept(t) == ~Pages!Shifted(t)

\* The tasks that were given are those whose place the cursor has passed.
GivenBefore ==
    Paged => /\ \A i \in 1 .. Len(listed) : Kept(listed[i]) => Place(listed[i]) < cursor.offset
             /\ \A t \in lasting : Kept(t) /\ Place(t) < cursor.offset =>
                                     \E i \in 1 .. Len(listed) : listed[i] = t
GivenOnce ==
    \A i, j \in 1 .. Len(listed) : listed[i] = listed[j] /\ Kept(listed[i]) => i = j
GivenInOrder ==
    changed = {} => \A i, j \in 1 .. Len(listed) : i < j => Pages!Before(listed[i], listed[j])
GivenAll ==
    cursor = Pages!End =>
        \A t \in lasting : Kept(t) => \E i \in 1 .. Len(listed) : listed[i] = t

PagesInv ==
    /\ PageTypes /\ OnlyPresent /\ ChangesKnown
    /\ GivenBefore /\ GivenOnce /\ GivenInOrder /\ GivenAll

LEMMA PagesInvInit == Pages!Init => PagesInv
<1> SUFFICES ASSUME Pages!Init PROVE PagesInv
  OBVIOUS
<1> USE DEF Pages!Init, Pages!Start, Pages!End
<1>1. PageTypes
  BY DEF PageTypes, PageRecord, Pages!Record
<1>2. OnlyPresent
  BY DEF OnlyPresent, Pages!Stored, Pages!Record
<1>3. ChangesKnown
  BY DEF ChangesKnown
<1>4. ~Paged /\ listed = <<>> /\ lasting = {}
  BY DEF Paged
<1> QED BY <1>1, <1>2, <1>3, <1>4 DEF PagesInv, GivenBefore, GivenOnce, GivenInOrder, GivenAll

\* The order of the tasks is total.
LEMMA PagesOrdered ==
  ASSUME PageTypes, NEW t \in PageTasks, NEW u \in PageTasks
  PROVE  /\ ~Pages!Before(t, t)
         /\ t = u \/ Pages!Before(t, u) \/ Pages!Before(u, t)
         /\ \A v \in PageTasks : Pages!Before(t, u) /\ Pages!Before(u, v) => Pages!Before(t, v)
<1>1. \A v \in PageTasks : v \in Nat /\ rows[v].created \in Nat
  BY PagesAssumption DEF PageTypes, PageRecord
<1> QED BY <1>1 DEF Pages!Before

LEMMA PlaceIs ==
  ASSUME PageTypes, NEW t \in PageTasks
  PROVE  /\ IsFiniteSet(Earlier(t)) /\ Place(t) \in Nat
         /\ Pages!Position(rows, t) = Place(t)
<1>1. Earlier(t) \subseteq PageTasks
  BY DEF Earlier, Pages!Stored
<1>2. IsFiniteSet(Earlier(t))
  BY <1>1, PagesAssumption, FS_Subset
<1>3. Place(t) \in Nat
  BY <1>2, FS_CardinalityType DEF Place
<1>4. Pages!Position(rows, t) = Place(t)
  BY DEF Pages!Position, Place, Earlier, Pages!Cardinality, Cardinality
<1> QED BY <1>2, <1>3, <1>4

\* A replica that differs only in what has changed shows the task in its place.
LEMMA SamePlace ==
  ASSUME PageTypes, NEW t \in PageTasks, NEW seen \in {rows, oldRows}, NEW differs,
         \A u \in PageTasks :
            ~(u \in Pages!Stored(rows) <=> u \in Pages!Stored(oldRows)) => u \in differs,
         ~\E u \in differs : Pages!Before(u, t)
  PROVE  Pages!Position(seen, t) = Place(t)
<1>1. CASE seen = rows
  BY <1>1, PlaceIs
<1>2. CASE seen = oldRows
  <2>1. {u \in Pages!Stored(oldRows) : Pages!Before(u, t)} = Earlier(t)
    BY DEF Earlier, Pages!Stored
  <2> QED BY <1>2, <2>1 DEF Pages!Position, Place, Pages!Cardinality, Cardinality
<1> QED BY <1>1, <1>2

\* An earlier place is that of an earlier task.
LEMMA PlacesOrdered ==
  ASSUME PageTypes, NEW t \in PageTasks, NEW u \in PageTasks, Place(t) < Place(u)
  PROVE  Pages!Before(t, u)
<1>1. ASSUME Pages!Before(u, t) PROVE FALSE
  <2>1. Earlier(u) \subseteq Earlier(t)
    <3> SUFFICES ASSUME NEW v \in Earlier(u) PROVE v \in Earlier(t)
      OBVIOUS
    <3>1. v \in PageTasks /\ v \in Pages!Stored(rows) /\ Pages!Before(v, u)
      BY DEF Earlier, Pages!Stored
    <3>2. Pages!Before(v, t)
      BY <1>1, <3>1, PagesOrdered
    <3> QED BY <3>1, <3>2 DEF Earlier
  <2>2. Place(u) <= Place(t)
    BY <2>1, PlaceIs, FS_Subset DEF Place
  <2> QED BY <2>2, PlaceIs
<1>2. t # u
  BY PlaceIs
<1> QED BY <1>1, <1>2, PagesOrdered

\* The session's tasks change; where they do so before a task, it is shifted.
RowsMove ==
    /\ UNCHANGED <<cursor, listed>>
    /\ \A u \in Present : rows'[u].status # "absent" /\ rows'[u].created = rows[u].created
    /\ changed \subseteq changed'
    /\ cursor # Pages!Start =>
         \A u \in PageTasks :
            ~(u \in Pages!Stored(rows) <=> u \in Pages!Stored(rows)') => u \in changed'

LEMMA RowsMoveKeeps ==
  ASSUME PagesInv, PageTypes', OnlyPresent', ChangesKnown', RowsMove, lasting' \subseteq lasting
  PROVE  PagesInv'
<1>1. PageTypes /\ OnlyPresent /\ Present \subseteq PageTasks
  BY DEF PagesInv, Present
<1>2. ASSUME NEW t \in Present, NEW u \in Present
      PROVE  Pages!Before(t, u)' <=> Pages!Before(t, u)
  BY <1>2 DEF RowsMove, Pages!Before
<1>3. ASSUME NEW t \in Present, Kept(t)' PROVE Kept(t)
  <2>1. \A u \in changed : u \in changed' /\ u \in Present
    BY <1>1 DEF RowsMove, OnlyPresent
  <2> QED BY <1>2, <1>3, <2>1 DEF Kept, Pages!Shifted
<1>4. ASSUME NEW t \in Present, Kept(t)', cursor # Pages!Start PROVE Place(t)' = Place(t)
  <2>1. Pages!Stored(rows) \subseteq Present
    BY DEF Pages!Stored, Present
  <2>2. \A u \in Pages!Stored(rows) : Pages!Before(u, t) => u \in Pages!Stored(rows)'
    <3> SUFFICES ASSUME NEW u \in Pages!Stored(rows), Pages!Before(u, t),
                        u \notin Pages!Stored(rows)'
                 PROVE  FALSE
      OBVIOUS
    <3>1. u \in Present /\ u \in PageTasks /\ u \in changed'
      BY <1>1, <1>4, <2>1 DEF RowsMove
    <3>2. Pages!Before(u, t)'
      BY <1>2, <3>1
    <3> QED BY <1>4, <3>1, <3>2 DEF Kept, Pages!Shifted
  <2>3. \A u \in Pages!Stored(rows)' : Pages!Before(u, t)' => u \in Pages!Stored(rows)
    <3> SUFFICES ASSUME NEW u \in Pages!Stored(rows)', Pages!Before(u, t)',
                        u \notin Pages!Stored(rows)
                 PROVE  FALSE
      OBVIOUS
    <3>1. u \in PageTasks
      BY DEF Pages!Stored
    <3>2. u \in changed'
      BY <1>4, <3>1 DEF RowsMove
    <3> QED BY <1>4, <3>2 DEF Kept, Pages!Shifted
  <2>4. Earlier(t)' = Earlier(t)
    <3>1. \A u \in Pages!Stored(rows) : Pages!Before(u, t)' <=> Pages!Before(u, t)
      BY <1>2, <2>1
    <3> QED BY <2>2, <2>3, <3>1 DEF Earlier
  <2> QED BY <2>4 DEF Place
<1>5. /\ \A i \in 1 .. Len(listed) : listed[i] \in Present
      /\ \A t \in lasting : t \in Present
      /\ UNCHANGED <<cursor, listed>>
  BY <1>1 DEF OnlyPresent, Pages!Live, Present, RowsMove
<1>6. GivenBefore'
  <2>1. ASSUME Paged PROVE cursor # Pages!Start
    BY <2>1 DEF Paged
  <2> QED BY <1>3, <1>4, <1>5, <2>1 DEF PagesInv, GivenBefore, Paged
<1>7. GivenOnce'
  BY <1>3, <1>5 DEF PagesInv, GivenOnce
<1>8. GivenInOrder'
  <2>1. changed' = {} => changed = {}
    BY DEF RowsMove
  <2> QED BY <1>2, <1>5, <2>1 DEF PagesInv, GivenInOrder
<1>9. GivenAll'
  BY <1>3, <1>5 DEF PagesInv, GivenAll
<1> QED BY <1>6, <1>7, <1>8, <1>9 DEF PagesInv

\* The history of a list does not change as its tasks do.
LEMMA WriteKeeps ==
  ASSUME PagesInv, NEW new \in [PageTasks -> PageRecord], NEW ts \in SUBSET PageTasks,
         Pages!Write(new, ts),
         \A u \in PageTasks : new[u] = rows[u] \/ u \in ts,
         \A u \in ts : new[u].status # "absent",
         \A u \in Present : new[u].status # "absent" /\ new[u].created = rows[u].created,
         lasting' \subseteq lasting, \A u \in lasting' : new[u].status = "live"
  PROVE  PagesInv'
<1>1. /\ rows' = new /\ oldRows' \in {new, rows}
      /\ UNCHANGED <<rowStore, cursor, listed>>
      /\ IF cursor = Pages!Start THEN changed' = changed ELSE changed' = changed \cup ts
  BY DEF Pages!Write
<1>2. PageTypes /\ OnlyPresent /\ ChangesKnown
  BY DEF PagesInv
<1>3. PageTypes'
  BY <1>1, <1>2 DEF PageTypes
<1>4. Present \subseteq Present' /\ ts \subseteq Present'
  BY <1>1 DEF Present
<1>5. OnlyPresent'
  <2>1. Pages!Stored(oldRows)' \subseteq Present'
    BY <1>1, <1>4 DEF Pages!Stored, Present
  <2>2. changed' \subseteq Present'
    BY <1>1, <1>2, <1>4 DEF OnlyPresent
  <2>3. \A u \in lasting' : u \in PageTasks /\ rows[u].status = "live"
    BY <1>2 DEF OnlyPresent, Pages!Live
  <2>4. lasting' \subseteq Pages!Live(rows)' \cap Pages!Live(oldRows)'
    BY <1>1, <2>3 DEF Pages!Live
  <2> QED BY <1>1, <1>2, <1>4, <2>1, <2>2, <2>4 DEF OnlyPresent
<1>6. ASSUME cursor # Pages!Start, NEW u \in PageTasks, new[u] # rows[u] PROVE u \in changed'
  BY <1>1, <1>6
<1>7. ChangesKnown'
  <2>1. CASE cursor = Pages!Start
    BY <1>1, <1>2, <2>1 DEF ChangesKnown
  <2>2. CASE cursor # Pages!Start
    BY <1>1, <1>6, <2>2 DEF ChangesKnown, Pages!Stored
  <2> QED BY <2>1, <2>2
<1>8. RowsMove
  BY <1>1, <1>6 DEF RowsMove, Pages!Stored
<1> QED BY <1>3, <1>5, <1>7, <1>8, RowsMoveKeeps

LEMMA TasksMoveKeeps ==
  ASSUME PagesInv,
         \/ \E t \in PageTasks : \E now \in PageTimes : Pages!Create(t, now)
         \/ \E t \in PageTasks : Pages!Expire(t) \/ Pages!DeleteByTTL(t)
         \/ Pages!DeleteSession \/ Pages!CatchUp
  PROVE  PagesInv'
<1>1. PageTypes /\ OnlyPresent /\ ChangesKnown
  BY DEF PagesInv
<1>2. ASSUME NEW t \in PageTasks, NEW now \in PageTimes, Pages!Create(t, now) PROVE PagesInv'
  <2> DEFINE new == [rows EXCEPT ![t] = Pages!Record("live", now)]
  <2>1. /\ rows[t].status = "absent" /\ Pages!Write(new, {t}) /\ lasting' = lasting
        /\ now \in Nat
    BY <1>2, PagesAssumption DEF Pages!Create
  <2>2. /\ new \in [PageTasks -> PageRecord] /\ new[t].status = "live"
        /\ \A u \in PageTasks : u # t => new[u] = rows[u]
    BY <1>1, <2>1 DEF PageTypes, PageRecord, Pages!Record
  <2>3. \A u \in lasting : rows[u].status = "live" /\ u \in PageTasks
    BY <1>1 DEF OnlyPresent, Pages!Live
  <2> HIDE DEF new
  <2>4. /\ \A u \in PageTasks : new[u] = rows[u] \/ u \in {t}
        /\ \A u \in {t} : new[u].status # "absent"
        /\ \A u \in Present : new[u].status # "absent" /\ new[u].created = rows[u].created
        /\ \A u \in lasting' : new[u].status = "live"
    BY <2>1, <2>2, <2>3 DEF Present
  <2> QED BY <2>1, <2>2, <2>4, WriteKeeps
<1>3. ASSUME NEW t \in PageTasks, Pages!DeleteByTTL(t) PROVE PagesInv'
  <2> DEFINE new == [rows EXCEPT ![t].status = "removed"]
  <2>1. rows[t].status = "expired" /\ Pages!Write(new, {t}) /\ lasting' = lasting
    BY <1>3 DEF Pages!DeleteByTTL
  <2>2. /\ new \in [PageTasks -> PageRecord] /\ new[t].status = "removed"
        /\ new[t].created = rows[t].created
        /\ \A u \in PageTasks : u # t => new[u] = rows[u]
    BY <1>1, <2>1 DEF PageTypes, PageRecord
  <2>3. \A u \in lasting : rows[u].status = "live" /\ u \in PageTasks
    BY <1>1 DEF OnlyPresent, Pages!Live
  <2> HIDE DEF new
  <2>4. /\ \A u \in PageTasks : new[u] = rows[u] \/ u \in {t}
        /\ \A u \in {t} : new[u].status # "absent"
        /\ \A u \in Present : new[u].status # "absent" /\ new[u].created = rows[u].created
        /\ \A u \in lasting' : new[u].status = "live"
    BY <2>1, <2>2, <2>3 DEF Present
  <2> QED BY <2>1, <2>2, <2>4, WriteKeeps
<1>4. CASE Pages!DeleteSession
  <2> DEFINE ts == Pages!Stored(rows)
             new == [t \in PageTasks |-> IF t \in ts THEN Pages!Record("removed", rows[t].created)
                                         ELSE rows[t]]
  <2>1. Pages!Write(new, ts) /\ lasting' = {} /\ ts \in SUBSET PageTasks
    BY <1>4 DEF Pages!DeleteSession, Pages!Stored
  <2>2. /\ new \in [PageTasks -> PageRecord]
        /\ \A u \in PageTasks : new[u] = rows[u] \/ u \in ts
        /\ \A u \in ts : new[u].status = "removed" /\ new[u].created = rows[u].created
    BY <1>1, <2>1 DEF PageTypes, PageRecord, Pages!Record
  <2> HIDE DEF new, ts
  <2>3. /\ \A u \in ts : new[u].status # "absent"
        /\ \A u \in Present : new[u].status # "absent" /\ new[u].created = rows[u].created
        /\ lasting' \subseteq lasting /\ \A u \in lasting' : new[u].status = "live"
    BY <2>1, <2>2 DEF Present
  <2> QED BY <2>1, <2>2, <2>3, WriteKeeps
<1>5. ASSUME NEW t \in PageTasks, Pages!Expire(t) PROVE PagesInv'
  <2>1. /\ rows[t].status = "live" /\ rows' = [rows EXCEPT ![t].status = "expired"]
        /\ lasting' = lasting \ {t} /\ UNCHANGED <<rowStore, cursor, listed, changed>>
        /\ oldRows' = [oldRows EXCEPT ![t].status = IF oldRows[t].status = "live" THEN "expired"
                                                     ELSE oldRows[t].status]
    BY <1>5 DEF Pages!Expire
  <2>2. /\ rows' \in [PageTasks -> PageRecord] /\ oldRows' \in [PageTasks -> PageRecord]
        /\ \A u \in PageTasks : u # t => rows'[u] = rows[u] /\ oldRows'[u] = oldRows[u]
        /\ rows'[t].status = "expired" /\ rows'[t].created = rows[t].created
        /\ oldRows[t].status = "live" => oldRows'[t].status = "expired"
        /\ oldRows[t].status # "live" => oldRows'[t].status = oldRows[t].status
    BY <1>1, <2>1 DEF PageTypes, PageRecord
  <2>3. Pages!Stored(rows)' = Pages!Stored(rows) /\ Pages!Stored(oldRows)' = Pages!Stored(oldRows)
    BY <2>1, <2>2 DEF Pages!Stored
  <2>4. PageTypes' /\ Present' = Present
    BY <1>1, <2>1, <2>2 DEF PageTypes, Present
  <2>5. OnlyPresent'
    BY <1>1, <2>1, <2>2, <2>3, <2>4 DEF OnlyPresent, Pages!Live
  <2>6. ChangesKnown'
    BY <1>1, <2>1, <2>3 DEF ChangesKnown
  <2>7. RowsMove
    BY <2>1, <2>2, <2>3 DEF RowsMove, Present
  <2> QED BY <2>1, <2>4, <2>5, <2>6, <2>7, RowsMoveKeeps
<1>6. CASE Pages!CatchUp
  <2>1. oldRows' = rows /\ UNCHANGED <<rowStore, rows, cursor, listed, lasting, changed>>
    BY <1>6 DEF Pages!CatchUp
  <2>2. PageTypes' /\ Present' = Present
    BY <1>1, <2>1 DEF PageTypes, Present
  <2>3. OnlyPresent'
    BY <1>1, <2>1, <2>2 DEF OnlyPresent, Pages!Live, Pages!Stored, Present
  <2>4. ChangesKnown'
    BY <1>1, <2>1 DEF ChangesKnown, Pages!Stored
  <2>5. RowsMove
    BY <2>1 DEF RowsMove, Present, Pages!Stored
  <2> QED BY <2>1, <2>2, <2>3, <2>4, <2>5, RowsMoveKeeps
<1> QED BY <1>2, <1>3, <1>4, <1>5, <1>6

\* The tasks that List shows: each that the page has, once, in their order.
LEMMA ShownIs ==
  ASSUME NEW S \in SUBSET PageTasks, NEW o \in Pages!Ordered(S)
  PROVE  /\ o \in Seq(S) /\ Len(o) \in Nat
         /\ \A x \in S : \E j \in 1 .. Len(o) : o[j] = x
         /\ \A i, j \in 1 .. Len(o) : o[i] = o[j] => i = j
         /\ \A i, j \in 1 .. Len(o) : i < j => Pages!Before(o[i], o[j])
<1> DEFINE N == Cardinality(S)
<1>1. IsFiniteSet(S) /\ N \in Nat
  BY PagesAssumption, FS_Subset, FS_CardinalityType
<1>2. /\ o \in [1 .. N -> S] /\ \A i, j \in 1 .. N : i # j => o[i] # o[j]
      /\ \A i, j \in DOMAIN o : i < j => Pages!Before(o[i], o[j])
  BY DEF Pages!Ordered, Pages!SetToSeqs, Pages!Cardinality, Cardinality
<1>3. o \in Injection(1 .. N, S)
  BY <1>2 DEF Injection, IsInjective
<1>4. IsFiniteSet(1 .. N) /\ Cardinality(1 .. N) = N
  BY <1>1, FS_Interval
<1>5. o \in Surjection(1 .. N, S)
  BY <1>1, <1>3, <1>4, FS_Injection
<1>6. \A x \in S : \E j \in 1 .. N : o[j] = x
  BY <1>5 DEF Surjection
<1> HIDE DEF N
<1>7. o \in Seq(S) /\ DOMAIN o = 1 .. N /\ Len(o) = N
  BY <1>1, <1>2
<1> QED BY <1>1, <1>2, <1>6, <1>7

LEMMA ListedAppended ==
  ASSUME NEW s \in Seq(PageTasks), NEW o \in Seq(PageTasks)
  PROVE  /\ s \o o \in Seq(PageTasks) /\ Len(s) \in Nat /\ Len(o) \in Nat
         /\ Len(s \o o) = Len(s) + Len(o)
         /\ \A i \in 1 .. Len(s) : (s \o o)[i] = s[i]
         /\ \A j \in 1 .. Len(o) : (s \o o)[Len(s) + j] = o[j]
         /\ \A j \in 1 .. Len(o) : Len(s) + j \in 1 .. Len(s \o o)
         /\ \A i \in 1 .. Len(s \o o) :
              \/ i \in 1 .. Len(s) /\ (s \o o)[i] = s[i]
              \/ \E j \in 1 .. Len(o) : i = Len(s) + j /\ (s \o o)[i] = o[j]
<1>1. Len(s) \in Nat /\ Len(o) \in Nat
  OBVIOUS
<1>2. s \o o \in Seq(PageTasks) /\ Len(s \o o) = Len(s) + Len(o)
  OBVIOUS
<1>3. \A i \in 1 .. Len(s) : (s \o o)[i] = s[i]
  BY <1>1
<1>4. \A j \in 1 .. Len(o) : (s \o o)[Len(s) + j] = o[j]
  BY <1>1
<1>5. ASSUME NEW i \in 1 .. Len(s) + Len(o), i \notin 1 .. Len(s)
      PROVE  \E j \in 1 .. Len(o) : i = Len(s) + j
  <2>1. i - Len(s) \in 1 .. Len(o) /\ i = Len(s) + (i - Len(s))
    BY <1>1, <1>5
  <2> QED BY <2>1
<1>6. \A j \in 1 .. Len(o) : Len(s) + j \in 1 .. Len(s) + Len(o)
  BY <1>1
<1>7. ASSUME NEW i \in 1 .. Len(s) + Len(o)
      PROVE  \/ i \in 1 .. Len(s) /\ (s \o o)[i] = s[i]
             \/ \E j \in 1 .. Len(o) : i = Len(s) + j /\ (s \o o)[i] = o[j]
  <2>1. CASE i \in 1 .. Len(s)
    BY <1>3, <2>1
  <2>2. CASE i \notin 1 .. Len(s)
    <3>1. PICK j \in 1 .. Len(o) : i = Len(s) + j
      BY <1>5, <2>2
    <3>2. (s \o o)[i] = o[j]
      BY <1>4, <3>1
    <3> QED BY <3>1, <3>2
  <2> QED BY <2>1, <2>2
<1> QED BY <1>1, <1>2, <1>3, <1>4, <1>6, <1>7

LEMMA ListKeeps ==
  ASSUME PagesInv, NEW seen \in {rows, oldRows}, Pages!List(seen)
  PROVE  PagesInv'
<1> DEFINE N == cursor.offset
           L == Len(listed)
           page == Pages!Page(seen) \cap Pages!Live(seen)
           Untouched(t) == ~\E u \in changed' : Pages!Before(u, t)
<1>1. /\ PageTypes /\ OnlyPresent /\ ChangesKnown
      /\ cursor # Pages!End /\ UNCHANGED <<rowStore, rows, oldRows>>
      /\ cursor' = Pages!NextCursor(seen)
  BY DEF PagesInv, Pages!List
<1>2. N \in Nat /\ (cursor = Pages!Start => N = 0) /\ (cursor # Pages!Start => Paged)
  BY <1>1 DEF PageTypes, Pages!Start, Pages!Paging, Paged
<1>3. IF cursor = Pages!Start
        THEN /\ lasting' = Pages!Live(rows) \cap Pages!Live(oldRows)
             /\ changed' = {t \in PageTasks :
                              ~(t \in Pages!Stored(rows) <=> t \in Pages!Stored(oldRows))}
        ELSE UNCHANGED <<lasting, changed>>
  BY DEF Pages!List, Pages!Stored
<1>4. /\ \A u \in PageTasks :
            ~(u \in Pages!Stored(rows) <=> u \in Pages!Stored(oldRows)) => u \in changed'
      /\ lasting' \subseteq Pages!Live(rows) \cap Pages!Live(oldRows)
      /\ changed \subseteq changed'
  BY <1>1, <1>3 DEF ChangesKnown, OnlyPresent
<1>5. PICK o \in Pages!Ordered(page) : listed' = listed \o o
  BY DEF Pages!List
<1>6. /\ page \subseteq PageTasks
      /\ \A t \in page : /\ t \in Pages!Stored(seen) /\ t \in Pages!Live(seen)
                         /\ N <= Pages!Position(seen, t)
                         /\ Pages!Position(seen, t) < N + PageLimit
      /\ \A t \in Pages!Live(seen) :
           N <= Pages!Position(seen, t) /\ Pages!Position(seen, t) < N + PageLimit => t \in page
  BY DEF Pages!Page, Pages!Live, Pages!Stored
<1> HIDE DEF page
<1>7. /\ o \in Seq(page) /\ o \in Seq(PageTasks) /\ Len(o) \in Nat
      /\ \A t \in page : \E j \in 1 .. Len(o) : o[j] = t
      /\ \A j \in 1 .. Len(o) : o[j] \in page
      /\ \A i, j \in 1 .. Len(o) : o[i] = o[j] => i = j
      /\ \A i, j \in 1 .. Len(o) : i < j => Pages!Before(o[i], o[j])
  <2>1. /\ o \in Seq(page) /\ Len(o) \in Nat
        /\ \A t \in page : \E j \in 1 .. Len(o) : o[j] = t
        /\ \A i, j \in 1 .. Len(o) : o[i] = o[j] => i = j
        /\ \A i, j \in 1 .. Len(o) : i < j => Pages!Before(o[i], o[j])
    BY <1>6, ShownIs
  <2> QED BY <1>6, <2>1
<1>8. /\ listed \in Seq(PageTasks) /\ L \in Nat
      /\ listed' \in Seq(PageTasks) /\ Len(listed') = L + Len(o)
      /\ \A i \in 1 .. L : listed'[i] = listed[i]
      /\ \A j \in 1 .. Len(o) : listed'[L + j] = o[j]
      /\ \A j \in 1 .. Len(o) : L + j \in 1 .. Len(listed')
      /\ \A i \in 1 .. Len(listed') :
           \/ i \in 1 .. L /\ listed'[i] = listed[i]
           \/ \E j \in 1 .. Len(o) : i = L + j /\ listed'[i] = o[j]
      /\ \A i \in 1 .. Len(listed') : listed'[i] \in PageTasks
  <2>1. listed \in Seq(PageTasks)
    BY <1>1 DEF PageTypes
  <2>2. listed' \in Seq(PageTasks) => \A i \in 1 .. Len(listed') : listed'[i] \in PageTasks
    OBVIOUS
  <2> QED BY <1>5, <1>7, <2>1, <2>2, ListedAppended
<1>9. ASSUME NEW t \in PageTasks
      PROVE  /\ Kept(t)' <=> Untouched(t)
             /\ Place(t)' = Place(t) /\ Place(t) \in Nat
             /\ Untouched(t) => Kept(t) /\ Pages!Position(seen, t) = Place(t)
  <2>1. Kept(t)' <=> Untouched(t)
    BY <1>1 DEF Kept, Pages!Shifted, Pages!Before
  <2>2. Place(t)' = Place(t)
    BY <1>1 DEF Place, Earlier, Pages!Stored, Pages!Before
  <2>3. Untouched(t) => Kept(t)
    BY <1>4 DEF Kept, Pages!Shifted
  <2>4. Untouched(t) => Pages!Position(seen, t) = Place(t)
    BY <1>1, <1>4, SamePlace
  <2> QED BY <1>1, <2>1, <2>2, <2>3, <2>4, PlaceIs
<1>10. ASSUME NEW i \in 1 .. L
       PROVE  /\ listed[i] \in PageTasks /\ cursor # Pages!Start
              /\ Untouched(listed[i]) => Place(listed[i]) < N
  <2>1. listed[i] \in PageTasks
    BY <1>8
  <2>2. cursor # Pages!Start
    BY <1>1, <1>8 DEF ChangesKnown
  <2>3. Kept(listed[i]) => Place(listed[i]) < N
    BY <1>2, <2>2 DEF PagesInv, GivenBefore
  <2> QED BY <1>9, <2>1, <2>2, <2>3
<1>11. ASSUME NEW j \in 1 .. Len(o), Untouched(o[j])
       PROVE  N <= Place(o[j]) /\ Place(o[j]) < N + PageLimit /\ o[j] \in PageTasks
  <2>1. o[j] \in page /\ o[j] \in PageTasks
    BY <1>6, <1>7
  <2>2. Pages!Position(seen, o[j]) = Place(o[j])
    BY <1>9, <1>11, <2>1
  <2> QED BY <1>6, <2>1, <2>2
<1>12. ASSUME NEW t \in lasting', Untouched(t), Place(t) < N + PageLimit
       PROVE  \E i \in 1 .. Len(listed') : listed'[i] = t
  <2>1. t \in PageTasks /\ t \in Pages!Live(seen)
    BY <1>4 DEF Pages!Live
  <2>2. /\ Pages!Position(seen, t) = Place(t) /\ Place(t) \in Nat /\ Kept(t)
    BY <1>9, <1>12, <2>1
  <2>3. CASE Place(t) < N
    <3>1. cursor # Pages!Start /\ t \in lasting
      BY <1>2, <1>3, <2>2, <2>3
    <3>2. PICK i \in 1 .. L : listed[i] = t
      BY <1>2, <2>2, <2>3, <3>1 DEF PagesInv, GivenBefore
    <3>3. i \in 1 .. Len(listed')
      BY <1>7, <1>8
    <3>4. listed'[i] = t
      BY <1>8, <3>2
    <3> QED BY <3>3, <3>4
  <2>4. CASE N <= Place(t)
    <3>1. t \in page
      BY <1>6, <1>12, <2>1, <2>2, <2>4
    <3>2. PICK j \in 1 .. Len(o) : o[j] = t
      BY <1>7, <3>1
    <3>3. L + j \in 1 .. Len(listed') /\ listed'[L + j] = t
      BY <1>8, <3>2
    <3> QED BY <3>3
  <2> QED BY <1>2, <2>2, <2>3, <2>4
<1> HIDE DEF N, L, Untouched
<1>13. /\ cursor' = Pages!Paging(N + PageLimit) \/ cursor' = Pages!End
       /\ N + PageLimit \in Nat
       /\ cursor' = Pages!End => Pages!Cardinality(Pages!Stored(seen)) <= N + PageLimit
  <2>1. PageLimit \in Nat
    BY PagesAssumption
  <2>2. Pages!Stored(seen) \subseteq PageTasks
    BY DEF Pages!Stored
  <2>3. Pages!Cardinality(Pages!Stored(seen)) \in Nat
    BY <2>2, PagesAssumption, FS_Subset, FS_CardinalityType DEF Pages!Cardinality, Cardinality
  <2> QED BY <1>1, <1>2, <2>1, <2>3
          DEF Pages!NextCursor, Pages!HasMore, Pages!Paging, Pages!End, N
<1>14. cursor' # Pages!Start /\ cursor' \in {Pages!End} \cup {Pages!Paging(n) : n \in Nat}
  BY <1>13 DEF Pages!Start, Pages!End, Pages!Paging
<1>15. PageTypes'
  <2>1. lasting' \subseteq PageTasks /\ changed' \subseteq PageTasks
    BY <1>1, <1>3, <1>4 DEF PageTypes, Pages!Live
  <2> QED BY <1>1, <1>8, <1>14, <2>1 DEF PageTypes, Pages!Start, Pages!End, Pages!Paging
<1>16. OnlyPresent'
  <2>1. Pages!Stored(oldRows) \subseteq Present /\ Pages!Stored(rows) \subseteq Present
    BY <1>1 DEF OnlyPresent, Pages!Stored, Present
  <2>2. \A t \in changed' : t \in Present
    BY <1>1, <1>3, <2>1 DEF OnlyPresent
  <2>3. \A i \in 1 .. Len(listed') : listed'[i] \in Present
    <3>1. \A i \in 1 .. L : listed[i] \in Present
      BY <1>1 DEF OnlyPresent, L
    <3>2. \A j \in 1 .. Len(o) : o[j] \in Present
      BY <1>6, <1>7, <2>1
    <3> QED BY <1>8, <3>1, <3>2
  <2>4. Present' = Present
    BY <1>1 DEF Present
  <2>5. /\ Pages!Stored(oldRows)' = Pages!Stored(oldRows)
        /\ Pages!Live(rows)' = Pages!Live(rows) /\ Pages!Live(oldRows)' = Pages!Live(oldRows)
    BY <1>1 DEF Pages!Stored, Pages!Live
  <2> QED BY <1>4, <2>1, <2>2, <2>3, <2>4, <2>5 DEF OnlyPresent
<1>17. ChangesKnown'
  BY <1>1, <1>4, <1>14 DEF ChangesKnown, Pages!Stored, Pages!Start
<1>18. GivenBefore'
  <2> SUFFICES ASSUME Paged' PROVE GivenBefore'
    BY DEF GivenBefore
  <2>1. cursor'.offset = N + PageLimit
    BY <1>13 DEF Paged, Pages!Paging, Pages!End
  <2>2. ASSUME NEW i \in 1 .. Len(listed'), Untouched(listed'[i])
        PROVE  Place(listed'[i]) < N + PageLimit /\ listed'[i] \in PageTasks
    <3>1. CASE i \in 1 .. L /\ listed'[i] = listed[i]
      <4>1. listed'[i] = listed[i] /\ listed[i] \in PageTasks /\ Place(listed[i]) < N
        BY <1>10, <2>2, <3>1
      <4>2. Place(listed[i]) \in Nat /\ PageLimit \in Nat /\ N \in Nat
        BY <1>2, <1>9, <4>1, PagesAssumption DEF N
      <4> QED BY <4>1, <4>2
    <3>2. CASE \E j \in 1 .. Len(o) : i = L + j /\ listed'[i] = o[j]
      BY <1>11, <2>2, <3>2
    <3> QED BY <1>8, <3>1, <3>2
  <2>3. \A i \in 1 .. Len(listed') : listed'[i] \in PageTasks
    BY <1>8
  <2>4. \A t \in PageTasks : (Kept(t)' <=> Untouched(t)) /\ Place(t)' = Place(t)
    BY <1>9
  <2>5. \A i \in 1 .. Len(listed') : Kept(listed[i])' => Place(listed[i])' < cursor'.offset
    BY <2>1, <2>2, <2>3, <2>4
  <2>6. \A t \in lasting' : Kept(t)' /\ Place(t)' < cursor'.offset =>
                              \E i \in 1 .. Len(listed') : listed'[i] = t
    BY <1>12, <1>15, <2>1, <2>4 DEF PageTypes
  <2> QED BY <2>5, <2>6 DEF GivenBefore
<1>19. GivenOnce'
  <2>1. ASSUME NEW k \in 1 .. L, NEW m \in 1 .. Len(o), listed[k] = o[m], Untouched(o[m])
        PROVE  FALSE
    <3>1. N <= Place(o[m]) /\ o[m] \in PageTasks /\ Place(listed[k]) < N
      BY <1>10, <1>11, <2>1
    <3>2. N \in Nat /\ Place(o[m]) \in Nat /\ Place(o[m]) < N
      BY <1>2, <1>9, <2>1, <3>1 DEF N
    <3> QED BY <3>1, <3>2
  <2>2. ASSUME NEW i \in 1 .. L, NEW j \in 1 .. L, listed[i] = listed[j], Untouched(listed[i])
        PROVE  i = j
    BY <1>9, <1>10, <2>2 DEF PagesInv, GivenOnce, L
  <2>3. ASSUME NEW i \in 1 .. Len(listed'), NEW j \in 1 .. Len(listed'),
               listed'[i] = listed'[j], Untouched(listed'[i])
        PROVE  i = j
    <3>1. \/ i \in 1 .. L /\ listed'[i] = listed[i]
          \/ \E m \in 1 .. Len(o) : i = L + m /\ listed'[i] = o[m]
      BY <1>8
    <3>2. \/ j \in 1 .. L /\ listed'[j] = listed[j]
          \/ \E m \in 1 .. Len(o) : j = L + m /\ listed'[j] = o[m]
      BY <1>8
    <3>3. \A k, m \in 1 .. Len(o) : o[k] = o[m] => k = m
      BY <1>7
    <3> QED BY <2>1, <2>2, <2>3, <3>1, <3>2, <3>3
  <2>4. \A i \in 1 .. Len(listed') : Kept(listed[i])' <=> Untouched(listed'[i])
    BY <1>8, <1>9
  <2> QED BY <2>3, <2>4 DEF GivenOnce
<1>20. GivenInOrder'
  <2> SUFFICES ASSUME changed' = {}, NEW i \in 1 .. Len(listed'), NEW j \in 1 .. Len(listed'),
                      i < j
               PROVE  Pages!Before(listed'[i], listed'[j])
    BY <1>1 DEF GivenInOrder, Pages!Before
  <2>1. changed = {} /\ \A t : Untouched(t)
    BY <1>4 DEF Untouched
  <2>2. CASE i \in 1 .. L /\ j \in 1 .. L
    BY <1>8, <2>1, <2>2 DEF PagesInv, GivenInOrder, L
  <2>3. CASE i \in 1 .. L /\ \E m \in 1 .. Len(o) : j = L + m /\ listed'[j] = o[m]
    <3>1. PICK m \in 1 .. Len(o) : j = L + m /\ listed'[j] = o[m]
      BY <2>3
    <3>2. /\ listed'[i] = listed[i] /\ listed[i] \in PageTasks /\ o[m] \in PageTasks
          /\ Place(listed[i]) < N /\ N <= Place(o[m])
      BY <1>8, <1>10, <1>11, <2>1, <2>3
    <3>3. Place(listed[i]) \in Nat /\ Place(o[m]) \in Nat /\ N \in Nat
      BY <1>2, <1>9, <3>2 DEF N
    <3>4. Place(listed[i]) < Place(o[m])
      BY <3>2, <3>3
    <3> QED BY <1>1, <3>1, <3>2, <3>4, PlacesOrdered
  <2>4. CASE \E m \in 1 .. Len(o) : i = L + m /\ listed'[i] = o[m]
    <3>1. PICK m \in 1 .. Len(o) : i = L + m /\ listed'[i] = o[m]
      BY <2>4
    <3>2. j \notin 1 .. L
      BY <1>8, <3>1
    <3>3. PICK k \in 1 .. Len(o) : j = L + k /\ listed'[j] = o[k]
      BY <1>8, <3>2
    <3>4. m < k
      BY <1>8, <3>1, <3>3
    <3> QED BY <1>7, <3>1, <3>3, <3>4
  <2> QED BY <1>8, <2>2, <2>3, <2>4
<1>21. GivenAll'
  <2> SUFFICES ASSUME cursor' = Pages!End, NEW t \in lasting', Untouched(t)
               PROVE  \E i \in 1 .. Len(listed') : listed'[i] = t
    BY <1>9, <1>15 DEF GivenAll, PageTypes
  <2>1. t \in PageTasks /\ t \in Pages!Live(seen)
    BY <1>4 DEF Pages!Live
  <2> DEFINE S == Pages!Stored(seen)
             E == {u \in S : Pages!Before(u, t)}
  <2>2. IsFiniteSet(S) /\ t \in S /\ t \notin E /\ E \subseteq S
    <3>1. S \subseteq PageTasks /\ t \in S
      BY <2>1 DEF Pages!Stored, Pages!Live
    <3>2. IsFiniteSet(S)
      BY <3>1, PagesAssumption, FS_Subset
    <3> QED BY <1>1, <2>1, <3>1, <3>2, PagesOrdered
  <2>3. Cardinality(E) < Cardinality(S) /\ Cardinality(S) \in Nat /\ Cardinality(E) \in Nat
    BY <2>2, FS_Subset, FS_CardinalityType
  <2>4. Pages!Position(seen, t) = Cardinality(E) /\ Pages!Cardinality(S) = Cardinality(S)
    BY DEF Pages!Position, Pages!Cardinality, Cardinality
  <2>5. Cardinality(S) <= N + PageLimit
    BY <1>13, <2>4
  <2> HIDE DEF S, E
  <2>6. Place(t) < N + PageLimit
    <3>1. Place(t) = Cardinality(E)
      BY <1>9, <2>1, <2>4
    <3> QED BY <1>13, <2>3, <2>5, <3>1
  <2> QED BY <1>12, <2>6
<1> QED BY <1>15, <1>16, <1>17, <1>18, <1>19, <1>20, <1>21 DEF PagesInv

LEMMA PagesInvStep == PagesInv /\ [Pages!Next]_pageVars => PagesInv'
<1> SUFFICES ASSUME PagesInv, [Pages!Next]_pageVars PROVE PagesInv'
  OBVIOUS
<1>1. CASE UNCHANGED pageVars
  <2>1. UNCHANGED <<rows, oldRows, rowStore, cursor, listed, lasting, changed>>
    BY <1>1 DEF pageVars
  <2>2. PageTypes' /\ OnlyPresent' /\ ChangesKnown'
    BY <2>1 DEF PagesInv, PageTypes, OnlyPresent, ChangesKnown, Present, Pages!Stored, Pages!Live
  <2>3. RowsMove
    BY <2>1 DEF RowsMove, Present, Pages!Stored
  <2> QED BY <2>1, <2>2, <2>3, RowsMoveKeeps
<1>2. CASE Pages!List(rows) \/ Pages!List(oldRows)
  BY <1>2, ListKeeps
<1> QED BY <1>1, <1>2, TasksMoveKeeps DEF Pages!Next

LEMMA PagesInvComplete == PagesInv => Pages!PagesComplete
<1> SUFFICES ASSUME PagesInv PROVE Pages!PagesComplete
  OBVIOUS
<1>1. listed \in Seq(PageTasks) /\ DOMAIN listed = 1 .. Len(listed)
  BY DEF PagesInv, PageTypes
<1>2. cursor = Pages!End => \A t \in lasting : Pages!Listed(t) # {} \/ Pages!Shifted(t)
  BY <1>1 DEF PagesInv, GivenAll, Kept, Pages!Listed
<1>3. ASSUME NEW t \in PageTasks, Pages!Cardinality(Pages!Listed(t)) > 1, Kept(t) PROVE FALSE
  <2> DEFINE S == Pages!Listed(t)
  <2>1. \A i, j \in S : i = j
    BY <1>1, <1>3 DEF PagesInv, GivenOnce, Pages!Listed
  <2>2. Pages!Cardinality(S) = Cardinality(S)
    BY DEF Pages!Cardinality, Cardinality
  <2> HIDE DEF S
  <2>3. CASE S = {}
    BY <1>3, <2>2, <2>3, FS_EmptySet DEF S
  <2>4. CASE S # {}
    <3>1. PICK i \in S : TRUE
      BY <2>4
    <3>2. S = {i}
      BY <2>1, <3>1
    <3>3. Cardinality({i}) = 1
      BY FS_Singleton
    <3> QED BY <1>3, <2>2, <3>2, <3>3 DEF S
  <2> QED BY <2>3, <2>4
<1>4. changed = {} =>
        \A i, j \in DOMAIN listed : i < j => Pages!Before(listed[i], listed[j])
  BY <1>1 DEF PagesInv, GivenInOrder
<1> QED BY <1>2, <1>3, <1>4 DEF Pages!PagesComplete, Kept

\* A client that follows the cursors of tasks/list to their end is given each task
\* that is there all the time, once and in its order, unless a task before it came
\* or went: whatever else expires or is created meanwhile, and whichever replica
\* of DynamoDB answers for a page.
THEOREM PagesAlwaysComplete == McpSpec => [](kind = "PAGES" => Pages!PagesComplete)
<1> DEFINE Inv == PagesInv
<1>1. McpInit => Inv
  BY PagesInvInit DEF McpInit
<1>2. Inv /\ [McpNext]_<<kind, vars, sessionVars, protocolVars, callVars, pageVars>> => Inv'
  <2>1. [McpNext]_<<kind, vars, sessionVars, protocolVars, callVars, pageVars>>
          => [Pages!Next]_pageVars
    BY DEF McpNext
  <2> QED BY <2>1, PagesInvStep
<1>3. Inv => (kind = "PAGES" => Pages!PagesComplete)
  BY PagesInvComplete
<1> QED BY <1>1, <1>2, <1>3, PTL DEF McpSpec

-----------------------------------------------------------------------------
(* Versions of the protocol.                                                *)

USE DEF Protocol!Stateless, Protocol!Latest, Protocol!Prior, Protocol!Legacy, Protocol!Absent

\* An answer that has the form of the version it was served under.
AnswerFits(a, identity) ==
    (a.code = "absent" /\ a.served # "absent") =>
        IF a.served = "2026-07-28"
        THEN /\ a.marker \in {"complete", "asks"} /\ a.info = identity
             /\ a.marker = "asks" => a.request.capable = "all"
             /\ a.hint # "absent"
                  <=> a.marker = "complete" /\ a.request.method \in Protocol!Cacheable
             /\ a.hint = "configured" => ~a.request.retry
        ELSE /\ a.hint = "absent" /\ (a.info => a.request.method = "server/discover")
             /\ a.marker # "absent" => a.request.method = "tasks/result"

\* What the handler of a request answers, before it is told apart by version.
HandlerAnswer(a, q, v) ==
    /\ a \in Protocol!Answer /\ a.request = q
    /\ a.served = "absent" /\ a.session = 0 /\ a.negotiated = "absent" /\ a.hint = "absent"
    /\ a.info => q.method = "server/discover" /\ v # "2026-07-28"
    /\ a.marker # "absent" => \/ q.method = "tools/call"
                              \/ q.method = "tasks/result" /\ v # "2026-07-28"

LEMMA NothingIs ==
  ASSUME NEW q \in Protocol!Request
  PROVE  LET a == Protocol!Nothing(q) IN
         /\ a \in Protocol!Answer /\ a.request = q /\ a.served = "absent" /\ a.session = 0
         /\ a.negotiated = "absent" /\ a.code = "absent" /\ a.marker = "absent"
         /\ ~a.info /\ a.hint = "absent"
BY SessionsAssumption DEF Protocol!Nothing, Protocol!Answer

LEMMA ErrorIs ==
  ASSUME NEW q \in Protocol!Request,
         NEW failure \in {"NotFound", "Params", "Invalid", "Internal", "Tool", "Parse"}
  PROVE  LET a == Protocol!Error(q, failure) IN
         /\ a \in Protocol!Answer /\ a.request = q /\ a.served = "absent" /\ a.session = 0
         /\ a.negotiated = "absent" /\ a.code = failure /\ a.marker = "absent"
         /\ ~a.info /\ a.hint = "absent"
BY NothingIs DEF Protocol!Error, Protocol!Answer

LEMMA ToolAnswerIs ==
  ASSUME NEW q \in Protocol!Request, NEW out \in Protocol!Outcomes \cup {"absent"}
  PROVE  LET a == Protocol!ToolAnswer(q, out) IN
         /\ a \in Protocol!Answer /\ a.request = q /\ a.served = "absent" /\ a.session = 0
         /\ a.negotiated = "absent" /\ ~a.info /\ a.hint = "absent"
<1>1. CASE out = "error"
  BY <1>1, ErrorIs DEF Protocol!ToolAnswer
<1>2. CASE out # "error"
  <2>1. Protocol!ToolAnswer(q, out) = [Protocol!Nothing(q) EXCEPT !.marker =
                                         IF out = "plain" THEN "absent" ELSE out]
    BY <1>2 DEF Protocol!ToolAnswer
  <2>2. (IF out = "plain" THEN "absent" ELSE out) \in Protocol!Outcomes \cup {"absent"}
    OBVIOUS
  <2> QED BY <2>1, <2>2, NothingIs DEF Protocol!Answer
<1> QED BY <1>1, <1>2

WorkRecord == [via : {"none", "stream", "task"}, session : 0 .. MaxSessions,
               state : Protocol!Outcomes \cup {"running", "absent"}]

LEMMA HandledIs ==
  ASSUME NEW q \in Protocol!Request, NEW v \in Protocol!Supported \cup {"2026-07-28"},
         NEW s \in 0 .. MaxSessions, NEW out \in Protocol!Outcomes, work \in WorkRecord
  PROVE  HandlerAnswer(Protocol!Handled(v, q, s, out), q, v)
<1>1. CASE ~Protocol!Found(v, q)
  BY <1>1, ErrorIs DEF Protocol!Handled, HandlerAnswer
<1>2. CASE Protocol!Found(v, q) /\ q.method = "tools/call"
  <2>1. Protocol!Handled(v, q, s, out) = Protocol!ToolsCall(q, s, out)
    BY <1>2 DEF Protocol!Handled
  <2>2. HandlerAnswer(Protocol!ToolsCall(q, s, out), q, v)
    <3>1. \/ Protocol!ToolsCall(q, s, out) = Protocol!Nothing(q)
          \/ \E failure \in {"Params", "NotFound"} :
                Protocol!ToolsCall(q, s, out) = Protocol!Error(q, failure)
          \/ Protocol!ToolsCall(q, s, out) = Protocol!ToolAnswer(q, out)
      BY DEF Protocol!ToolsCall
    <3>2. HandlerAnswer(Protocol!Nothing(q), q, v)
      BY NothingIs DEF HandlerAnswer
    <3>3. \A failure \in {"Params", "NotFound"} : HandlerAnswer(Protocol!Error(q, failure), q, v)
      BY ErrorIs DEF HandlerAnswer
    <3>4. HandlerAnswer(Protocol!ToolAnswer(q, out), q, v)
      <4> DEFINE t == Protocol!ToolAnswer(q, out)
      <4>1. /\ t \in Protocol!Answer /\ t.request = q /\ t.served = "absent" /\ t.session = 0
            /\ t.negotiated = "absent" /\ ~t.info /\ t.hint = "absent"
        BY ToolAnswerIs
      <4> HIDE DEF t
      <4>2. HandlerAnswer(t, q, v)
        BY <1>2, <4>1 DEF HandlerAnswer
      <4> QED BY <4>2 DEF t
    <3> QED BY <3>1, <3>2, <3>3, <3>4
  <2> QED BY <2>1, <2>2
<1>3. CASE Protocol!Found(v, q) /\ q.method = "tasks/result"
  <2>1. Protocol!Handled(v, q, s, out) = Protocol!TasksResult(q, s)
    BY <1>3 DEF Protocol!Handled
  <2>2. v # "2026-07-28"
    BY <1>3 DEF Protocol!Found, Protocol!Allowed, Protocol!StatelessMethods
  <2>3. work.state # "running" => work.state \in Protocol!Outcomes \cup {"absent"}
    BY DEF WorkRecord
  <2>4. HandlerAnswer(Protocol!TasksResult(q, s), q, v)
    BY <1>3, <2>2, <2>3, ErrorIs, ToolAnswerIs DEF Protocol!TasksResult, HandlerAnswer
  <2> QED BY <2>1, <2>4
<1>4. CASE Protocol!Found(v, q) /\ q.method = "server/discover"
  <2>1. Protocol!Handled(v, q, s, out) = Protocol!Discover(q, v)
    BY <1>4 DEF Protocol!Handled
  <2>2. HandlerAnswer(Protocol!Discover(q, v), q, v)
    <3> DEFINE n == Protocol!Nothing(q)
    <3>1. /\ n \in Protocol!Answer /\ n.request = q /\ n.served = "absent" /\ n.session = 0
          /\ n.negotiated = "absent" /\ n.marker = "absent" /\ n.hint = "absent"
      BY NothingIs
    <3>2. CASE v = "2026-07-28"
      <4>1. Protocol!Discover(q, v) = [n EXCEPT !.info = FALSE]
        BY <3>2 DEF Protocol!Discover
      <4> HIDE DEF n
      <4> QED BY <3>1, <4>1 DEF Protocol!Answer, HandlerAnswer
    <3>3. CASE v # "2026-07-28"
      <4>1. Protocol!Discover(q, v) = [n EXCEPT !.info = TRUE]
        BY <3>3 DEF Protocol!Discover
      <4> HIDE DEF n
      <4> QED BY <1>4, <3>1, <3>3, <4>1 DEF Protocol!Answer, HandlerAnswer
    <3> QED BY <3>2, <3>3
  <2> QED BY <2>1, <2>2
<1>5. CASE /\ Protocol!Found(v, q)
           /\ q.method \notin {"tools/call", "tasks/result", "server/discover"}
  BY <1>5, NothingIs DEF Protocol!Handled, HandlerAnswer
<1> QED BY <1>1, <1>2, <1>3, <1>4, <1>5

LEMMA PreparedIs ==
  ASSUME NEW q \in Protocol!Request, NEW v \in Protocol!Supported \cup {"2026-07-28"}, NEW a,
         q.method = "tools/call", HandlerAnswer(a, q, v)
  PROVE  LET p == Protocol!Prepared(a, v) IN
         /\ HandlerAnswer(p, q, v)
         /\ p.code = "absent" => p.marker \in {"absent", "asks"}
         /\ p.code = "absent" /\ v # "2026-07-28" => p.marker = "absent"
<1>1. CASE a.marker \in {"absent", "complete"}
  <2>1. Protocol!Prepared(a, v) = [a EXCEPT !.marker = "absent"]
    BY <1>1 DEF Protocol!Prepared
  <2> QED BY <2>1 DEF HandlerAnswer, Protocol!Answer
<1>2. CASE a.marker = "asks" /\ v = "2026-07-28"
  BY <1>2 DEF Protocol!Prepared
<1>3. CASE a.marker = "asks" /\ v # "2026-07-28"
  BY <1>3, ErrorIs DEF Protocol!Prepared, HandlerAnswer
<1>4. CASE a.marker \notin {"absent", "complete", "asks"}
  BY <1>4, ErrorIs DEF Protocol!Prepared, HandlerAnswer
<1> QED BY <1>1, <1>2, <1>3, <1>4

LEMMA DispatchIs ==
  ASSUME NEW q \in Protocol!Request, NEW v \in Protocol!Supported \cup {"2026-07-28"},
         NEW s \in 0 .. MaxSessions, NEW out \in Protocol!Outcomes, work \in WorkRecord,
         config \in Protocol!Config,
         v = "2026-07-28" /\ Protocol!Dispatch(q, v, s, out).marker = "asks"
           => q.capable = "all"
  PROVE  LET a == Protocol!Dispatch(q, v, s, out) IN
         /\ a \in Protocol!Answer /\ a.request = q /\ a.negotiated = "absent"
         /\ a.served = v /\ a.session = s
         /\ AnswerFits(a, config.info)
<1> DEFINE h == Protocol!Handled(v, q, s, out)
           p == IF q.method = "tools/call" THEN Protocol!Prepared(h, v) ELSE h
           f == IF p.code # "absent" \/ v # "2026-07-28" THEN p
                ELSE [p EXCEPT !.marker = IF p.marker = "absent" THEN "complete" ELSE p.marker,
                               !.info = config.info, !.hint = Protocol!Hint(q)]
           a == Protocol!Dispatch(q, v, s, out)
<1>1. HandlerAnswer(h, q, v)
  BY HandledIs
<1>2. /\ HandlerAnswer(p, q, v)
      /\ p.code = "absent" => p.marker \in {"absent", "asks"} \/ v # "2026-07-28"
      /\ p.code = "absent" /\ q.method = "tools/call" /\ v # "2026-07-28" => p.marker = "absent"
      /\ q.method # "tools/call" /\ v = "2026-07-28" => p.marker = "absent"
  BY <1>1, PreparedIs DEF HandlerAnswer
<1>3. a = [f EXCEPT !.served = v, !.session = s]
  BY <1>1 DEF Protocol!Dispatch, Protocol!Finalize, HandlerAnswer
<1> HIDE DEF h, p, a
<1>4. /\ Protocol!Hint(q) \in {"absent", "configured", "stale"}
      /\ Protocol!Hint(q) # "absent" <=> q.method \in Protocol!Cacheable
      /\ Protocol!Hint(q) = "configured" => ~q.retry
  BY DEF Protocol!Hint
<1>5. CASE p.code # "absent" \/ v # "2026-07-28"
  <2>1. a = [p EXCEPT !.served = v, !.session = s]
    BY <1>3, <1>5
  <2>2. /\ a \in Protocol!Answer /\ a.request = q /\ a.negotiated = "absent"
        /\ a.served = v /\ a.session = s /\ a.code = p.code /\ a.marker = p.marker
        /\ a.info = p.info /\ a.hint = p.hint
    BY <1>2, <2>1 DEF HandlerAnswer, Protocol!Answer
  <2> HIDE DEF f
  <2>3. AnswerFits(a, config.info)
    BY <1>2, <1>5, <2>2 DEF AnswerFits, HandlerAnswer
  <2> QED BY <2>2, <2>3 DEF a
<1>6. CASE p.code = "absent" /\ v = "2026-07-28"
  <2>1. f = [p EXCEPT !.marker = IF p.marker = "absent" THEN "complete" ELSE p.marker,
                      !.info = config.info, !.hint = Protocol!Hint(q)]
    BY <1>6
  <2> HIDE DEF f
  <2>2. config.info \in BOOLEAN
    BY DEF Protocol!Config
  <2>3. /\ f \in Protocol!Answer /\ f.request = q /\ f.negotiated = "absent" /\ f.code = "absent"
        /\ f.marker = IF p.marker = "absent" THEN "complete" ELSE p.marker
        /\ f.info = config.info /\ f.hint = Protocol!Hint(q)
    BY <1>2, <1>4, <1>6, <2>1, <2>2 DEF HandlerAnswer, Protocol!Answer, Protocol!Outcomes
  <2>4. /\ a \in Protocol!Answer /\ a.request = q /\ a.negotiated = "absent"
        /\ a.served = v /\ a.session = s /\ a.code = f.code /\ a.marker = f.marker
        /\ a.info = f.info /\ a.hint = f.hint
    BY <1>3, <2>3 DEF Protocol!Answer
  <2>5. a.marker = "asks" => q.capable = "all" /\ q.method = "tools/call"
    BY <1>2, <1>6, <2>3, <2>4 DEF a
  <2>6. "tools/call" \notin Protocol!Cacheable
    BY DEF Protocol!Cacheable
  <2>7. AnswerFits(a, config.info)
    BY <1>2, <1>4, <1>6, <2>3, <2>4, <2>5, <2>6 DEF AnswerFits
  <2> QED BY <2>4, <2>7 DEF a
<1> QED BY <1>5, <1>6

\* The answers to requests are extended by that to the next one.
LEMMA OrderExtends ==
  ASSUME NEW requests, NEW n \in Nat, NEW due \in SUBSET (1 .. n),
         NEW answers \in Seq(Protocol!Answer), NEW a \in Protocol!Answer,
         a.request = requests[n + 1], Protocol!AnsweredInOrder(requests, due, answers)
  PROVE  Protocol!AnsweredInOrder(requests, due \cup {n + 1}, Append(answers, a))
<1> DEFINE m == Len(answers)
           more == Append(answers, a)
<1>0. DOMAIN answers = 1 .. m
  OBVIOUS
<1>f. PICK f \in [DOMAIN answers -> due] :
         /\ \A i, j \in DOMAIN answers : i < j => f[i] < f[j]
         /\ \A k \in due : \E i \in DOMAIN answers : f[i] = k
         /\ \A i \in DOMAIN answers : answers[i].request = requests[f[i]]
  BY Zenon DEF Protocol!AnsweredInOrder
<1>1. /\ f \in [1 .. m -> due]
      /\ \A i, j \in 1 .. m : i < j => f[i] < f[j]
      /\ \A k \in due : \E i \in 1 .. m : f[i] = k
      /\ \A i \in 1 .. m : answers[i].request = requests[f[i]]
  <2>1. /\ f \in [1 .. m -> due]
        /\ \A i, j \in 1 .. m : i < j => f[i] < f[j]
    BY <1>0, <1>f
  <2>2. \A k \in due : \E i \in 1 .. m : f[i] = k
    BY <1>0, <1>f
  <2>3. \A i \in 1 .. m : answers[i].request = requests[f[i]]
    BY <1>0, <1>f
  <2> QED BY <2>1, <2>2, <2>3
<1> DEFINE g == [i \in 1 .. m + 1 |-> IF i = m + 1 THEN n + 1 ELSE f[i]]
<1>2. m \in Nat /\ DOMAIN more = 1 .. m + 1 /\ more[m + 1] = a
        /\ \A i \in 1 .. m : more[i] = answers[i]
  OBVIOUS
<1> HIDE DEF m, more
<1>3. /\ g \in [1 .. m + 1 -> due \cup {n + 1}] /\ g[m + 1] = n + 1
      /\ \A i \in 1 .. m : g[i] = f[i] /\ f[i] \in 1 .. n
  <2>1. \A i \in 1 .. m : i # m + 1 /\ i \in 1 .. m + 1 /\ f[i] \in due /\ f[i] \in 1 .. n
    <3>1. \A i \in 1 .. m : f[i] \in due
      BY <1>1
    <3>2. \A i \in due : i \in 1 .. n
      OBVIOUS
    <3>3. \A i \in 1 .. m : i # m + 1 /\ i \in 1 .. m + 1
      BY <1>2
    <3> QED BY <3>1, <3>2, <3>3
  <2>2. \A i \in 1 .. m + 1 : i = m + 1 \/ i \in 1 .. m
    BY <1>2
  <2>3. m + 1 \in 1 .. m + 1
    BY <1>2
  <2> QED BY <2>1, <2>2, <2>3
<1> HIDE DEF g
<1>4. \A i, j \in 1 .. m + 1 : i < j => g[i] < g[j]
  <2> SUFFICES ASSUME NEW i \in 1 .. m + 1, NEW j \in 1 .. m + 1, i < j PROVE g[i] < g[j]
    OBVIOUS
  <2>1. i \in 1 .. m /\ (j = m + 1 \/ j \in 1 .. m)
    BY <1>2
  <2> QED BY <1>1, <1>3, <2>1
<1>5. \A k \in due \cup {n + 1} : \E i \in 1 .. m + 1 : g[i] = k
  <2>1. m + 1 \in 1 .. m + 1 /\ \A i \in 1 .. m : i \in 1 .. m + 1
    BY <1>2
  <2> QED BY <1>1, <1>3, <2>1
<1>6. \A i \in 1 .. m + 1 : more[i].request = requests[g[i]]
  <2> SUFFICES ASSUME NEW i \in 1 .. m + 1 PROVE more[i].request = requests[g[i]]
    OBVIOUS
  <2>1. i = m + 1 \/ i \in 1 .. m
    BY <1>2
  <2> QED BY <1>1, <1>2, <1>3, <2>1
<1>7. Protocol!AnsweredInOrder(requests, due \cup {n + 1}, more)
  <2>1. DOMAIN more = 1 .. m + 1
    BY <1>2
  <2>2. g \in [1 .. m + 1 -> due \cup {n + 1}]
    BY <1>3
  <2>3. g \in [DOMAIN more -> due \cup {n + 1}]
    BY <2>1, <2>2
  <2>4. \A i, j \in DOMAIN more : i < j => g[i] < g[j]
    BY <1>4, <2>1
  <2>5. \A k \in due \cup {n + 1} : \E i \in DOMAIN more : g[i] = k
    BY <1>5, <2>1
  <2>6. \A i \in DOMAIN more : more[i].request = requests[g[i]]
    BY <1>6, <2>1
  <2> QED BY ONLY <2>3, <2>4, <2>5, <2>6, Zenon DEF Protocol!AnsweredInOrder
<1> QED BY <1>7 DEF more

ProtocolTypes ==
    /\ config \in Protocol!Config
    /\ sessions \in [Protocol!Ids -> Protocol!Supported \cup {"unused", "deleted"}]
    /\ work \in WorkRecord
    /\ told \in [Protocol!Ids -> Protocol!Supported \cup {"absent"}]

\* A session that is in use has the version that was told.
ToldFits ==
    \A s \in Protocol!Ids : told[s] # "absent" => sessions[s] \in {told[s], "deleted"}

BatchRecord ==
    [envelope : Protocol!Envelope, requests : Seq(Protocol!Request),
     left : Seq(Protocol!Request), session : 0 .. MaxSessions, created : 0 .. MaxSessions,
     answers : Seq(Protocol!Answer),
     before : [Protocol!Ids -> Protocol!Supported \cup {"unused", "deleted"}] \X WorkRecord]

\* An answer that may be in a batch: the versions of the sessions are versions, the
\* server's identity in results is identity.
OfBatch(a, versions, identity) ==
    /\ a.session # 0 => versions[a.session] = "2025-03-26"
    /\ a.served \in {"absent", "2025-03-26"} /\ a.negotiated \in {"absent", "2025-03-26"}
    /\ AnswerFits(a, identity)

\* The requests of a batch that are done are answered in order; the session that
\* the next is served in is of the version that has batches.
BatchFits ==
    LET done == Len(batch.requests) - Len(batch.left) IN
    /\ batch \in BatchRecord
    /\ batch.envelope.verb = "POST" /\ batch.envelope.form = "batch"
    /\ batch.envelope.header \in {"absent", "2025-03-26"}
    /\ \A i \in 1 .. Len(batch.requests) : batch.requests[i].meta # "2026-07-28"
    /\ done \in Nat
    /\ \A i \in 1 .. Len(batch.left) : batch.left[i] = batch.requests[done + i]
    /\ batch.session # 0 => sessions[batch.session] = "2025-03-26"
    /\ \A i \in 1 .. Len(batch.answers) : OfBatch(batch.answers[i], sessions, config.info)
    /\ Protocol!AnsweredInOrder(batch.requests, {i \in 1 .. done : batch.requests[i].id},
                                batch.answers)

ProtocolInv ==
    /\ ProtocolTypes /\ ToldFits /\ (batch # Protocol!NoBatch => BatchFits)
    /\ Protocol!ProtocolSafe

LEMMA AppendedIs ==
  ASSUME NEW S, NEW answers \in Seq(S), NEW a \in S
  PROVE  \A i \in 1 .. Len(Append(answers, a)) :
            Append(answers, a)[i] = a \/ \E j \in 1 .. Len(answers) :
                                            Append(answers, a)[i] = answers[j]
<1> SUFFICES ASSUME NEW i \in 1 .. Len(Append(answers, a))
             PROVE  Append(answers, a)[i] = a \/ \E j \in 1 .. Len(answers) :
                                                     Append(answers, a)[i] = answers[j]
  OBVIOUS
<1>1. i = Len(answers) + 1 \/ i \in 1 .. Len(answers)
  OBVIOUS
<1> QED BY <1>1

LEMMA LeftStep ==
  ASSUME NEW left \in Seq(Protocol!Request), NEW requests \in Seq(Protocol!Request), left # <<>>,
         NEW done \in Nat, done = Len(requests) - Len(left),
         \A i \in 1 .. Len(left) : left[i] = requests[done + i]
  PROVE  /\ Tail(left) \in Seq(Protocol!Request) /\ Len(requests) - Len(Tail(left)) = done + 1
         /\ Head(left) = requests[done + 1]
         /\ \A i \in 1 .. Len(Tail(left)) : Tail(left)[i] = requests[done + 1 + i]
<1>1. /\ Len(Tail(left)) = Len(left) - 1 /\ Len(left) \in Nat \ {0}
      /\ \A i \in 1 .. Len(left) - 1 : Tail(left)[i] = left[i + 1]
      /\ Tail(left) \in Seq(Protocol!Request) /\ Head(left) = left[1] /\ Len(requests) \in Nat
  OBVIOUS
<1>2. ASSUME NEW i \in 1 .. Len(Tail(left)) PROVE Tail(left)[i] = requests[done + 1 + i]
  <2>1. /\ Tail(left)[i] = left[i + 1] /\ i + 1 \in 1 .. Len(left)
        /\ done + (i + 1) = done + 1 + i
    BY <1>1
  <2> QED BY <2>1
<1>3. 1 \in 1 .. Len(left)
  BY <1>1
<1> QED BY <1>1, <1>2, <1>3

LEMMA DueStep ==
  ASSUME NEW requests \in Seq(Protocol!Request), NEW done \in Nat
  PROVE  {i \in 1 .. done + 1 : requests[i].id}
           = {i \in 1 .. done : requests[i].id}
                \cup (IF requests[done + 1].id THEN {done + 1} ELSE {})
<1>1. 1 .. done + 1 = (1 .. done) \cup {done + 1}
  OBVIOUS
<1> QED BY <1>1

\* A batch goes on by a request that is answered with a, if at all.
LEMMA BatchStep ==
  ASSUME BatchFits, batch.left # <<>>,
         NEW session \in 0 .. MaxSessions, NEW newest \in 0 .. MaxSessions,
         NEW a \in Protocol!Answer, a.request = Head(batch.left),
         Protocol!BatchGoes(session, newest, a), config' = config,
         \A s \in Protocol!Ids : sessions[s] = "2025-03-26" => sessions'[s] = "2025-03-26",
         session # 0 => sessions'[session] = "2025-03-26",
         OfBatch(a, sessions', config.info)
  PROVE  BatchFits'
<1> DEFINE left == batch.left
           requests == batch.requests
           answers == batch.answers
           done == Len(requests) - Len(left)
           answered == IF Head(left).id THEN Append(answers, a) ELSE answers
<1>1. /\ batch.envelope \in Protocol!Envelope
      /\ requests \in Seq(Protocol!Request) /\ left \in Seq(Protocol!Request)
      /\ answers \in Seq(Protocol!Answer) /\ left # <<>>
      /\ done \in Nat /\ \A i \in 1 .. Len(left) : left[i] = requests[done + i]
      /\ done = Len(requests) - Len(left) /\ a.request = Head(left)
  BY DEF BatchFits, BatchRecord
<1> HIDE DEF done, left, requests, answers
<1>2. /\ Tail(left) \in Seq(Protocol!Request) /\ Len(requests) - Len(Tail(left)) = done + 1
      /\ Head(left) = requests[done + 1]
      /\ \A i \in 1 .. Len(Tail(left)) : Tail(left)[i] = requests[done + 1 + i]
  BY ONLY <1>1, LeftStep
<1>3. answered \in Seq(Protocol!Answer)
  BY <1>1
<1>4. /\ batch' \in BatchRecord
      /\ batch'.envelope = batch.envelope /\ batch'.requests = requests
      /\ batch'.left = Tail(left) /\ batch'.session = session
      /\ batch'.answers = answered
  <2>1. batch' = [batch EXCEPT !.left = Tail(left), !.session = session, !.created = newest,
                               !.answers = answered]
    BY DEF Protocol!BatchGoes, BatchFits, BatchRecord, left, answers
  <2> HIDE DEF answered
  <2> QED BY <1>2, <1>3, <2>1 DEF BatchFits, BatchRecord, requests
<1>5. \A i \in 1 .. Len(answered) : OfBatch(answered[i], sessions', config.info)
  <2>1. \A i \in 1 .. Len(answers) : OfBatch(answers[i], sessions', config.info)
    <3> SUFFICES ASSUME NEW i \in 1 .. Len(answers)
                 PROVE  OfBatch(answers[i], sessions', config.info)
      OBVIOUS
    <3>1. OfBatch(answers[i], sessions, config.info) /\ answers[i] \in Protocol!Answer
      BY <1>1 DEF BatchFits, answers
    <3>2. answers[i].session # 0 => answers[i].session \in Protocol!Ids
      BY <3>1, SessionsAssumption DEF Protocol!Answer, Protocol!Ids
    <3> QED BY <3>1, <3>2 DEF OfBatch
  <2>2. \A i \in 1 .. Len(Append(answers, a)) :
           OfBatch(Append(answers, a)[i], sessions', config.info)
    <3>1. \A i \in 1 .. Len(Append(answers, a)) :
            Append(answers, a)[i] = a \/ \E j \in 1 .. Len(answers) :
                                            Append(answers, a)[i] = answers[j]
      BY ONLY <1>1, a \in Protocol!Answer, AppendedIs
    <3> QED BY <2>1, <3>1
  <2> QED BY <2>1, <2>2
<1>6. Protocol!AnsweredInOrder(requests, {i \in 1 .. done + 1 : requests[i].id}, answered)
  <2> DEFINE due == {i \in 1 .. done : requests[i].id}
  <2>1. Protocol!AnsweredInOrder(requests, due, answers)
    BY DEF BatchFits, answers, done, requests, left
  <2>2. due \in SUBSET (1 .. done)
    OBVIOUS
  <2>3. CASE Head(left).id
    <3>1. {i \in 1 .. done + 1 : requests[i].id} = due \cup {done + 1}
      <4>1. {i \in 1 .. done + 1 : requests[i].id}
              = due \cup (IF requests[done + 1].id THEN {done + 1} ELSE {})
        BY ONLY <1>1, DueStep
      <4> HIDE DEF due
      <4> QED BY ONLY <1>2, <2>3, <4>1
    <3>2. Protocol!AnsweredInOrder(requests, due \cup {done + 1}, Append(answers, a))
      BY ONLY <1>1, <1>2, <2>1, <2>2, OrderExtends, a \in Protocol!Answer
    <3> QED BY <2>3, <3>1, <3>2
  <2>4. CASE ~Head(left).id
    <3>1. {i \in 1 .. done + 1 : requests[i].id} = due
      <4>1. {i \in 1 .. done + 1 : requests[i].id}
              = due \cup (IF requests[done + 1].id THEN {done + 1} ELSE {})
        BY ONLY <1>1, DueStep
      <4> HIDE DEF due
      <4> QED BY ONLY <1>2, <2>4, <4>1
    <3> QED BY <2>1, <2>4, <3>1
  <2> QED BY <2>3, <2>4
<1>7. /\ batch.envelope.verb = "POST" /\ batch.envelope.form = "batch"
      /\ batch.envelope.header \in {"absent", "2025-03-26"}
      /\ \A i \in 1 .. Len(requests) : requests[i].meta # "2026-07-28"
  BY DEF BatchFits, requests
<1>8. done + 1 \in Nat
  BY <1>1
<1> HIDE DEF answered
<1> QED BY <1>2, <1>4, <1>5, <1>6, <1>7, <1>8 DEF BatchFits

\* The reply to one request.
LEMMA SingleSafe ==
  ASSUME NEW e \in Protocol!Envelope, e.form = "single", e.verb = "POST",
         NEW q \in Protocol!Request, NEW a \in Protocol!Answer, a.request = q,
         NEW session, NEW before, Protocol!Respond(e, <<q>>, <<a>>, session, before),
         config' = config, AnswerFits(a, config.info), q.id \/ q.method = "initialize",
         "2026-07-28" \in {e.header, q.meta}
           => /\ before = <<sessions', work'>> /\ session = 0
              /\ a.session = 0 /\ a.served \in {"2026-07-28", "absent"},
         a.session # 0 /\ a.served # "absent" /\ told'[a.session] # "absent"
           => a.served = told'[a.session] /\ e.header \in {"absent", told'[a.session]}
  PROVE  Protocol!ProtocolSafe'
<1>1. /\ reply'.envelope = e /\ reply'.requests = <<q>> /\ reply'.answers = <<a>>
      /\ reply'.session = session /\ (before = <<sessions', work'>> => ~reply'.changed)
  BY DEF Protocol!Respond
<1>2. Protocol!Answered' = {a}
  BY <1>1 DEF Protocol!Answered
<1>3. Protocol!StatelessKeepsNothing'
  <2>1. DOMAIN <<q>> = {1} /\ <<q>>[1] = q
    OBVIOUS
  <2>2. CASE "2026-07-28" \in {e.header, q.meta}
    BY <1>1, <1>2, <2>2 DEF Protocol!StatelessKeepsNothing
  <2>3. CASE "2026-07-28" \notin {e.header, q.meta}
    BY <1>1, <2>1, <2>3 DEF Protocol!StatelessKeepsNothing
  <2> QED BY <2>2, <2>3
<1>4. Protocol!ServedAsNegotiated'
  BY <1>1, <1>2 DEF Protocol!ServedAsNegotiated
<1>5. Protocol!DeletedAsNegotiated'
  BY <1>1 DEF Protocol!DeletedAsNegotiated
<1>6. Protocol!AnswersFit'
  BY <1>2 DEF Protocol!AnswersFit, AnswerFits
<1>7. Protocol!EachAnswered'
  <2>1. {i \in DOMAIN <<q>> : \/ <<q>>[i].id
                              \/ e.form = "single" /\ <<q>>[i].method = "initialize"} = {1}
    OBVIOUS
  <2>2. Protocol!AnsweredInOrder(<<q>>, {1}, <<a>>)
    <3> DEFINE f == [i \in {1} |-> 1]
    <3>1. DOMAIN <<a>> = {1} /\ <<a>>[1] = a /\ <<q>>[1] = q
      OBVIOUS
    <3>2. f \in [{1} -> {1}] /\ f[1] = 1
      OBVIOUS
    <3> HIDE DEF f
    <3>3. /\ \A i, j \in {1} : i < j => f[i] < f[j]
          /\ \A k \in {1} : \E i \in {1} : f[i] = k
          /\ \A i \in {1} : <<a>>[i].request = <<q>>[f[i]]
      BY <3>1, <3>2
    <3>4. /\ \A i, j \in DOMAIN <<a>> : i < j => f[i] < f[j]
          /\ \A k \in {1} : \E i \in DOMAIN <<a>> : f[i] = k
          /\ \A i \in DOMAIN <<a>> : <<a>>[i].request = <<q>>[f[i]]
      BY <3>1, <3>3
    <3>5. f \in [DOMAIN <<a>> -> {1}]
      BY <3>1, <3>2
    <3> QED BY ONLY <3>4, <3>5, Zenon DEF Protocol!AnsweredInOrder
  <2> QED BY <1>1, <2>1, <2>2 DEF Protocol!EachAnswered
<1> QED BY <1>3, <1>4, <1>5, <1>6, <1>7 DEF Protocol!ProtocolSafe

\* What a single request is answered that creates no session.
LEMMA AnswersSafe ==
  ASSUME ProtocolInv, NEW e \in Protocol!Envelope, e.form = "single", e.verb = "POST",
         NEW q \in Protocol!Request, NEW a \in Protocol!Answer, a.request = q,
         Protocol!Answers(e, q, a), work' \in WorkRecord, batch = Protocol!NoBatch,
         a.negotiated = "absent", AnswerFits(a, config.info), q.id \/ q.method = "initialize",
         "2026-07-28" \in {e.header, q.meta}
           => work' = work /\ a.session = 0 /\ a.served \in {"2026-07-28", "absent"},
         a.session # 0 /\ a.served # "absent"
           => /\ a.served = sessions[a.session] /\ sessions[a.session] # "deleted"
              /\ e.header \in {"absent", a.served}
  PROVE  ProtocolInv'
<1>1. /\ config' = config /\ sessions' = sessions /\ batch' = batch
      /\ Protocol!Respond(e, <<q>>, <<a>>, 0, <<sessions, work>>)
  BY DEF Protocol!Answers
<1>2. told' = told
  <2>1. told \in [Protocol!Ids -> Protocol!Supported \cup {"absent"}]
    BY DEF ProtocolInv, ProtocolTypes
  <2>2. told' = [s \in Protocol!Ids |->
                   LET initialized == {i \in DOMAIN <<a>> : /\ <<a>>[i].session = s
                                                            /\ <<a>>[i].negotiated # "absent"}
                   IN  IF initialized = {} THEN told[s]
                       ELSE <<a>>[CHOOSE i \in initialized : TRUE].negotiated]
    BY <1>1 DEF Protocol!Respond
  <2>3. \A s : {i \in DOMAIN <<a>> : <<a>>[i].session = s /\ <<a>>[i].negotiated # "absent"} = {}
    OBVIOUS
  <2>4. told' = [s \in Protocol!Ids |-> told[s]]
    BY <2>2, <2>3
  <2> QED BY <2>1, <2>4
<1>3. a.session # 0 /\ a.served # "absent" /\ told[a.session] # "absent"
        => a.served = told[a.session] /\ e.header \in {"absent", told[a.session]}
  <2>1. a.session # 0 => a.session \in Protocol!Ids
    BY SessionsAssumption DEF Protocol!Answer, Protocol!Ids
  <2> QED BY <2>1 DEF ProtocolInv, ToldFits
<1>4. Protocol!ProtocolSafe'
  BY <1>1, <1>2, <1>3, SingleSafe
<1> QED BY <1>1, <1>2, <1>4 DEF ProtocolInv, ProtocolTypes, ToldFits

\* What was replied stays true while the reply is there.
LEMMA ReplyStays ==
  ASSUME ProtocolInv, config' = config, reply' = reply, told' = told
  PROVE  Protocol!ProtocolSafe'
BY DEF ProtocolInv, Protocol!ProtocolSafe, Protocol!StatelessKeepsNothing,
       Protocol!ServedAsNegotiated, Protocol!DeletedAsNegotiated, Protocol!AnswersFit,
       Protocol!EachAnswered, Protocol!Replied, Protocol!Answered

LEMMA NoAnswerKeeps ==
  ASSUME ProtocolInv, UNCHANGED protocolVars
  PROVE  ProtocolInv'
<1>1. UNCHANGED <<config, sessions, work, batch, reply, told>>
  BY DEF protocolVars
<1>2. Protocol!ProtocolSafe'
  BY <1>1, ReplyStays
<1> QED BY <1>1, <1>2 DEF ProtocolInv, ProtocolTypes, ToldFits, BatchFits

LEMMA RefusedKeeps ==
  ASSUME ProtocolInv, batch = Protocol!NoBatch, NEW e \in Protocol!Envelope,
         e.form = "single", e.verb = "POST",
         NEW q \in Protocol!Requests, Protocol!PostRefused(e, q)
  PROVE  ProtocolInv'
<1>1. q \in Protocol!Request /\ (q.method = "malformed" => q.id)
  BY DEF Protocol!Requests
<1>2. CASE q.method = "malformed"
  <2> DEFINE a == Protocol!Error(q, "Parse")
  <2>1. /\ a \in Protocol!Answer /\ a.request = q /\ a.served = "absent" /\ a.session = 0
        /\ a.negotiated = "absent" /\ a.code = "Parse"
    BY <1>1, ErrorIs
  <2>2. work' = work /\ Protocol!Answers(e, q, a)
    BY <1>2 DEF Protocol!PostRefused
  <2> HIDE DEF a
  <2>3. AnswerFits(a, config.info)
    BY <2>1 DEF AnswerFits
  <2>4. work' \in WorkRecord
    BY <2>2 DEF ProtocolInv, ProtocolTypes
  <2> QED BY <1>1, <1>2, <2>1, <2>2, <2>3, <2>4, AnswersSafe
<1>3. CASE q.method # "malformed"
  BY <1>3, NoAnswerKeeps DEF Protocol!PostRefused, Protocol!NoAnswer, Protocol!vars, protocolVars
<1> QED BY <1>2, <1>3

LEMMA StatelessKeeps ==
  ASSUME ProtocolInv, batch = Protocol!NoBatch, NEW e \in Protocol!Envelope,
         e.form = "single", e.verb = "POST",
         NEW q \in Protocol!Request, NEW out \in Protocol!Outcomes,
         Protocol!PostStateless(e, q, out)
  PROVE  ProtocolInv'
<1> DEFINE a == Protocol!Dispatch(q, "2026-07-28", 0, out)
<1>1. CASE q.id /\ (a.marker = "asks" => q.capable = "all")
  <2>1. work' = work /\ Protocol!Answers(e, q, a)
    BY <1>1 DEF Protocol!PostStateless
  <2>2. /\ a \in Protocol!Answer /\ a.request = q /\ a.negotiated = "absent"
        /\ a.served = "2026-07-28" /\ a.session = 0 /\ AnswerFits(a, config.info)
    <3>1. work \in WorkRecord /\ config \in Protocol!Config /\ 0 \in 0 .. MaxSessions
      BY SessionsAssumption DEF ProtocolInv, ProtocolTypes
    <3> QED BY <1>1, <3>1, DispatchIs
  <2> HIDE DEF a
  <2>3. work' \in WorkRecord
    BY <2>1 DEF ProtocolInv, ProtocolTypes
  <2> QED BY <1>1, <2>1, <2>2, <2>3, AnswersSafe
<1>2. CASE ~(q.id /\ (a.marker = "asks" => q.capable = "all"))
  BY <1>2, NoAnswerKeeps DEF Protocol!PostStateless, Protocol!NoAnswer, Protocol!vars,
     protocolVars
<1> QED BY <1>1, <1>2

LEMMA DiscoverKeeps ==
  ASSUME ProtocolInv, batch = Protocol!NoBatch, NEW e \in Protocol!Envelope,
         e.form = "single", e.verb = "POST",
         NEW q \in Protocol!Request, Protocol!PostDiscover(e, q)
  PROVE  ProtocolInv'
<1> DEFINE a == Protocol!Dispatch(q, "2025-11-25", 0, "plain")
<1>1. CASE q.id
  <2>1. work' = work /\ Protocol!Answers(e, q, a) /\ "2026-07-28" \notin {e.header, q.meta}
    BY <1>1 DEF Protocol!PostDiscover, Protocol!Claim
  <2>2. /\ a \in Protocol!Answer /\ a.request = q /\ a.negotiated = "absent"
        /\ a.served = "2025-11-25" /\ a.session = 0 /\ AnswerFits(a, config.info)
    <3>1. work \in WorkRecord /\ config \in Protocol!Config /\ 0 \in 0 .. MaxSessions
      BY SessionsAssumption DEF ProtocolInv, ProtocolTypes
    <3>2. "plain" \in Protocol!Outcomes /\ "2025-11-25" \in Protocol!Supported
      BY DEF Protocol!Outcomes, Protocol!Supported
    <3> QED BY <3>1, <3>2, DispatchIs
  <2> HIDE DEF a
  <2>3. work' \in WorkRecord
    BY <2>1 DEF ProtocolInv, ProtocolTypes
  <2> QED BY <1>1, <2>1, <2>2, <2>3, AnswersSafe
<1>2. CASE ~q.id
  BY <1>2, NoAnswerKeeps DEF Protocol!PostDiscover, Protocol!NoAnswer, Protocol!vars,
     protocolVars
<1> QED BY <1>1, <1>2

LEMMA StartIs ==
  ASSUME NEW via \in {"stream", "task"}, NEW s \in 0 .. MaxSessions, Protocol!Start(via, s)
  PROVE  work' \in WorkRecord
BY DEF Protocol!Start, WorkRecord

\* A message of a session names one that is in use.
LEMMA SessionFitsIs ==
  ASSUME ProtocolInv, NEW e \in Protocol!Envelope, Protocol!SessionFits(e)
  PROVE  /\ e.session \in Protocol!Ids /\ e.session \in 0 .. MaxSessions /\ e.session # 0
         /\ sessions[e.session] \in Protocol!Supported
         /\ e.header \in {"absent", sessions[e.session]}
<1>1. e.session \in 0 .. MaxSessions
  BY DEF Protocol!Envelope
<1> QED BY <1>1, SessionsAssumption
        DEF Protocol!SessionFits, Protocol!Known, Protocol!HeaderFits, Protocol!Ids

LEMMA CallKeeps ==
  ASSUME ProtocolInv, batch = Protocol!NoBatch, NEW e \in Protocol!Envelope,
         e.form = "single", e.verb = "POST",
         NEW q \in Protocol!Request, NEW out \in Protocol!Outcomes,
         Protocol!PostCall(e, q, out)
  PROVE  ProtocolInv'
<1> DEFINE v == sessions[e.session]
           a == Protocol!Dispatch(q, v, e.session, out)
<1>1. /\ e.session \in Protocol!Ids /\ e.session \in 0 .. MaxSessions /\ e.session # 0
      /\ v \in Protocol!Supported /\ e.header \in {"absent", v}
  BY SessionFitsIs DEF Protocol!PostCall
<1>2. Protocol!CallVersion(e) = v
  BY <1>1 DEF Protocol!CallVersion, Protocol!SessionVersion
<1>3. q.id /\ "2026-07-28" \notin {e.header, q.meta} /\ Protocol!Answers(e, q, a)
  BY <1>2 DEF Protocol!PostCall, Protocol!InSession, Protocol!Claim
<1>4. work' \in WorkRecord
  <2>1. Protocol!Start("task", e.session) \/ work' = work
    BY DEF Protocol!PostCall
  <2> QED BY <1>1, <2>1, StartIs DEF ProtocolInv, ProtocolTypes
<1>5. v # "2026-07-28" /\ v # "deleted"
  BY <1>1 DEF Protocol!Supported
<1> HIDE DEF v
<1>6. /\ a \in Protocol!Answer /\ a.request = q /\ a.negotiated = "absent"
      /\ a.served = v /\ a.session = e.session /\ AnswerFits(a, config.info)
  <2>1. work \in WorkRecord /\ config \in Protocol!Config
    BY DEF ProtocolInv, ProtocolTypes
  <2> QED BY <1>1, <1>5, <2>1, DispatchIs
<1> HIDE DEF a
<1>7. a.served = sessions[a.session] /\ sessions[a.session] # "deleted"
  BY <1>5, <1>6 DEF v
<1>8. e.header \in {"absent", a.served}
  BY <1>1, <1>6
<1> QED BY <1>3, <1>4, <1>6, <1>7, <1>8, AnswersSafe

\* Where there are unused sessions, one of them is the next.
LEMMA NewIdIs ==
  ASSUME ProtocolInv, Protocol!Unused # {}
  PROVE  /\ Protocol!NewId \in Protocol!Ids /\ Protocol!NewId # 0
         /\ Protocol!NewId \in 0 .. MaxSessions
         /\ sessions[Protocol!NewId] = "unused" /\ told[Protocol!NewId] = "absent"
<1> DEFINE id == Protocol!NewId
<1>1. id \in Protocol!Unused
  BY DEF Protocol!NewId
<1>2. id \in Protocol!Ids /\ sessions[id] = "unused"
  BY <1>1 DEF Protocol!Unused
<1>3. id # 0 /\ id \in 0 .. MaxSessions
  BY <1>2, SessionsAssumption DEF Protocol!Ids
<1> HIDE DEF id
<1>4. told[id] = "absent"
  <2>1. told[id] \in Protocol!Supported \cup {"absent"}
    BY <1>2 DEF ProtocolInv, ProtocolTypes
  <2>2. told[id] # "absent" => "unused" \in {told[id], "deleted"}
    BY <1>2 DEF ProtocolInv, ToldFits
  <2> QED BY <2>1, <2>2 DEF Protocol!Supported
<1> QED BY <1>2, <1>3, <1>4 DEF id

LEMMA CreateIs ==
  ASSUME ProtocolInv, Protocol!Unused # {}, NEW version \in Protocol!Supported,
         Protocol!Create(version)
  PROVE  /\ sessions' \in [Protocol!Ids -> Protocol!Supported \cup {"unused", "deleted"}]
         /\ sessions'[Protocol!NewId] = version
         /\ \A s \in Protocol!Ids : s # Protocol!NewId => sessions'[s] = sessions[s]
<1> DEFINE id == Protocol!NewId
<1>1. id \in Protocol!Ids
  BY NewIdIs
<1>2. sessions' = [sessions EXCEPT ![id] = version]
  BY DEF Protocol!Create
<1>3. sessions \in [Protocol!Ids -> Protocol!Supported \cup {"unused", "deleted"}]
  BY DEF ProtocolInv, ProtocolTypes
<1> HIDE DEF id
<1>4. /\ sessions' \in [Protocol!Ids -> Protocol!Supported \cup {"unused", "deleted"}]
      /\ sessions'[id] = version
      /\ \A s \in Protocol!Ids : s # id => sessions'[s] = sessions[s]
  BY <1>1, <1>2, <1>3
<1> QED BY <1>4 DEF id

LEMMA InitializeAnswerIs ==
  ASSUME ProtocolInv, Protocol!Unused # {}, NEW version \in Protocol!Supported,
         NEW q \in Protocol!Request
  PROVE  LET a == Protocol!InitializeAnswer(q, version) IN
         /\ a \in Protocol!Answer /\ a.request = q /\ a.served = "absent"
         /\ a.session = Protocol!NewId /\ a.negotiated = version
         /\ \A identity : AnswerFits(a, identity)
<1> DEFINE id == Protocol!NewId
           n == Protocol!Nothing(q)
           a == Protocol!InitializeAnswer(q, version)
<1>1. id \in 0 .. MaxSessions
  BY NewIdIs
<1>2. n \in Protocol!Answer /\ n.request = q /\ n.served = "absent"
  BY NothingIs
<1>3. a = [n EXCEPT !.session = id, !.negotiated = version]
  BY DEF Protocol!InitializeAnswer
<1> HIDE DEF id, n, a
<1>4. /\ a \in Protocol!Answer /\ a.request = q /\ a.served = "absent"
      /\ a.session = id /\ a.negotiated = version
  BY <1>1, <1>2, <1>3 DEF Protocol!Answer
<1>5. \A identity : AnswerFits(a, identity)
  BY <1>4 DEF AnswerFits
<1> QED BY <1>4, <1>5 DEF a, id

LEMMA NegotiateIs ==
  ASSUME NEW requested, NEW default \in Protocol!Supported
  PROVE  Protocol!Negotiate(requested, default) \in Protocol!Supported
BY DEF Protocol!Negotiate

LEMMA InitializeKeeps ==
  ASSUME ProtocolInv, batch = Protocol!NoBatch, NEW e \in Protocol!Envelope,
         e.form = "single", e.verb = "POST",
         NEW q \in Protocol!Request, NEW stored \in BOOLEAN,
         Protocol!PostInitialize(e, q, stored)
  PROVE  ProtocolInv'
<1> DEFINE version == Protocol!Negotiate(q.version, "2025-11-25")
           a == Protocol!InitializeAnswer(q, version)
           id == Protocol!NewId
<1>1. /\ "2026-07-28" \notin {e.header, q.meta} /\ q.method = "initialize"
      /\ Protocol!Unused # {} /\ work' = work
  BY DEF Protocol!PostInitialize, Protocol!Claim
<1>2. work' \in WorkRecord
  BY <1>1 DEF ProtocolInv, ProtocolTypes
<1>3. CASE ~stored
  <2> DEFINE b == Protocol!Error(q, "Internal")
  <2>1. /\ b \in Protocol!Answer /\ b.request = q /\ b.served = "absent" /\ b.session = 0
        /\ b.negotiated = "absent" /\ b.code = "Internal"
    BY ErrorIs
  <2>2. Protocol!Answers(e, q, b)
    BY <1>3 DEF Protocol!PostInitialize
  <2> HIDE DEF b
  <2>3. AnswerFits(b, config.info)
    BY <2>1 DEF AnswerFits
  <2> QED BY <1>1, <1>2, <2>1, <2>2, <2>3, AnswersSafe
<1>4. CASE stored
  <2>1. /\ Protocol!Create(version) /\ config' = config /\ batch' = batch
        /\ Protocol!Respond(e, <<q>>, <<a>>, id, <<sessions, work>>)
    BY <1>4 DEF Protocol!PostInitialize
  <2>2. version \in Protocol!Supported
    <3>1. "2025-11-25" \in Protocol!Supported
      BY DEF Protocol!Supported
    <3> QED BY <3>1, NegotiateIs
  <2> HIDE DEF version
  <2>3. /\ a \in Protocol!Answer /\ a.request = q /\ a.served = "absent"
        /\ a.session = id /\ a.negotiated = version /\ AnswerFits(a, config.info)
    BY <1>1, <2>2, InitializeAnswerIs
  <2>4. /\ sessions' \in [Protocol!Ids -> Protocol!Supported \cup {"unused", "deleted"}]
        /\ sessions'[id] = version
        /\ \A s \in Protocol!Ids : s # id => sessions'[s] = sessions[s]
    BY <1>1, <2>1, <2>2, CreateIs
  <2> HIDE DEF a, id
  <2>5. Protocol!ProtocolSafe'
    BY <1>1, <2>1, <2>3, SingleSafe
  <2>6. /\ told' \in [Protocol!Ids -> Protocol!Supported \cup {"absent"}]
        /\ \A s \in Protocol!Ids : told'[s] = IF s = id THEN version ELSE told[s]
    <3>1. told' = [s \in Protocol!Ids |->
                     LET initialized == {i \in DOMAIN <<a>> : /\ <<a>>[i].session = s
                                                              /\ <<a>>[i].negotiated # "absent"}
                     IN  IF initialized = {} THEN told[s]
                         ELSE <<a>>[CHOOSE i \in initialized : TRUE].negotiated]
      BY <2>1 DEF Protocol!Respond
    <3>2. version # "absent"
      BY <2>2 DEF Protocol!Supported
    <3>3. \A s : {i \in DOMAIN <<a>> : <<a>>[i].session = s /\ <<a>>[i].negotiated # "absent"}
                   = IF s = id THEN {1} ELSE {}
      BY <2>3, <3>2
    <3>4. told' = [s \in Protocol!Ids |->
                     LET initialized == IF s = id THEN {1} ELSE {}
                     IN  IF initialized = {} THEN told[s]
                         ELSE <<a>>[CHOOSE i \in initialized : TRUE].negotiated]
      BY <3>1, <3>3
    <3>5. \A s : LET initialized == IF s = id THEN {1} ELSE {}
                 IN (IF initialized = {} THEN told[s]
                     ELSE <<a>>[CHOOSE i \in initialized : TRUE].negotiated)
                    = IF s = id THEN version ELSE told[s]
      <4>1. <<a>>[CHOOSE i \in {1} : TRUE] = a
        OBVIOUS
      <4> QED BY <2>3, <4>1
    <3>6. told' = [s \in Protocol!Ids |-> IF s = id THEN version ELSE told[s]]
      BY ONLY <3>4, <3>5
    <3>7. told \in [Protocol!Ids -> Protocol!Supported \cup {"absent"}]
      BY DEF ProtocolInv, ProtocolTypes
    <3> QED BY <2>2, <3>6, <3>7
  <2>7. ToldFits'
    BY <2>4, <2>6 DEF ProtocolInv, ToldFits
  <2>8. ProtocolTypes'
    BY <1>1, <2>1, <2>4, <2>6 DEF ProtocolInv, ProtocolTypes
  <2> QED BY <2>1, <2>5, <2>7, <2>8 DEF ProtocolInv
<1> QED BY <1>3, <1>4

LEMMA DeleteKeeps ==
  ASSUME ProtocolInv, batch = Protocol!NoBatch, NEW e \in Protocol!Envelope,
         e.verb = "DELETE", Protocol!Names(e), Protocol!Delete(e)
  PROVE  ProtocolInv'
<1>1. CASE Protocol!Deletes(e)
  <2>1. /\ e.session \in Protocol!Ids /\ e.header # "2026-07-28"
        /\ e.header \in {"absent", sessions[e.session]}
        /\ sessions[e.session] \in Protocol!Supported
    BY <1>1, SessionFitsIs DEF Protocol!Deletes
  <2>2. told[e.session] # "absent"
    BY <1>1 DEF Protocol!Names, Protocol!Deletes, Protocol!SessionFits
  <2>3. sessions[e.session] = told[e.session]
    <3>1. sessions[e.session] # "deleted"
      BY <2>1 DEF Protocol!Supported
    <3> QED BY <2>1, <2>2, <3>1 DEF ProtocolInv, ToldFits
  <2>4. /\ sessions' = [sessions EXCEPT ![e.session] = "deleted"]
        /\ work' = IF work.session = e.session THEN Protocol!NoWork ELSE work
        /\ config' = config /\ batch' = batch
        /\ Protocol!Respond(e, <<>>, <<>>, 0, <<sessions, work>>)
    BY <1>1 DEF Protocol!Delete
  <2>5. told' = told
    <3>1. told' = [s \in Protocol!Ids |->
                     LET initialized == {i \in DOMAIN <<>> : /\ <<>>[i].session = s
                                                             /\ <<>>[i].negotiated # "absent"}
                     IN  IF initialized = {} THEN told[s]
                         ELSE <<>>[CHOOSE i \in initialized : TRUE].negotiated]
      BY <2>4 DEF Protocol!Respond
    <3>2. \A s : {i \in DOMAIN <<>> : <<>>[i].session = s /\ <<>>[i].negotiated # "absent"} = {}
      OBVIOUS
    <3>3. told' = [s \in Protocol!Ids |-> told[s]]
      BY <3>1, <3>2
    <3> QED BY <3>3 DEF ProtocolInv, ProtocolTypes
  <2>6. Protocol!ProtocolSafe'
    <3>1. reply'.envelope = e /\ reply'.requests = <<>> /\ reply'.answers = <<>>
      BY <2>4 DEF Protocol!Respond
    <3>2. Protocol!Answered' = {} /\ DOMAIN reply'.requests = {}
      BY <3>1 DEF Protocol!Answered
    <3> QED BY <2>1, <2>3, <2>5, <3>1, <3>2
            DEF Protocol!ProtocolSafe, Protocol!StatelessKeepsNothing,
                Protocol!ServedAsNegotiated, Protocol!DeletedAsNegotiated,
                Protocol!AnswersFit, Protocol!EachAnswered
  <2>7. /\ sessions' \in [Protocol!Ids -> Protocol!Supported \cup {"unused", "deleted"}]
        /\ \A s \in Protocol!Ids : sessions'[s] = sessions[s] \/ sessions'[s] = "deleted"
    BY <2>1, <2>4 DEF ProtocolInv, ProtocolTypes
  <2>8. work' \in WorkRecord
    <3>1. Protocol!NoWork \in WorkRecord
      BY SessionsAssumption DEF Protocol!NoWork, WorkRecord
    <3> QED BY <2>4, <3>1 DEF ProtocolInv, ProtocolTypes
  <2>9. ToldFits' /\ ProtocolTypes'
    BY <2>4, <2>5, <2>7, <2>8 DEF ProtocolInv, ProtocolTypes, ToldFits
  <2> QED BY <2>4, <2>6, <2>9 DEF ProtocolInv
<1>2. CASE ~Protocol!Deletes(e)
  BY <1>2, NoAnswerKeeps DEF Protocol!Delete, Protocol!NoAnswer, Protocol!vars, protocolVars
<1> QED BY <1>1, <1>2

LEMMA BatchBegins ==
  ASSUME ProtocolInv, NEW e \in Protocol!Envelope, e.verb = "POST", e.form = "batch",
         NEW requests \in Protocol!Batches, Protocol!PostBatch(e, requests)
  PROVE  ProtocolInv'
<1>1. CASE Protocol!BatchPasses(e, requests)
  <2>1. requests \in Seq(Protocol!Request)
    <3>1. \A methods : Protocol!InBatch(methods) \subseteq Protocol!Request
      BY DEF Protocol!InBatch, Protocol!Requests
    <3>2. \E q, r \in Protocol!Request : requests = <<q, r>>
      BY <3>1 DEF Protocol!Batches
    <3> QED BY <3>2
  <2>2. /\ e.header \in {"absent", "2025-03-26"} /\ e.session \in 0 .. MaxSessions
        /\ \A i \in 1 .. Len(requests) : requests[i].meta # "2026-07-28"
        /\ e.session # 0 => sessions[e.session] = "2025-03-26"
    <3>1. e.session \in 0 .. MaxSessions
      BY DEF Protocol!Envelope
    <3>2. e.session # 0 => sessions[e.session] = "2025-03-26"
      <4>1. e.session # 0 => Protocol!SessionFits(e)
        BY <1>1 DEF Protocol!BatchPasses
      <4>2. e.session # 0 => e.header \in {"absent", sessions[e.session]}
        BY <4>1, SessionFitsIs
      <4>3. Protocol!BatchVersion(e.header, e.session) = "2025-03-26"
        BY <1>1 DEF Protocol!BatchPasses
      <4> QED BY <4>2, <4>3 DEF Protocol!BatchVersion, Protocol!SessionVersion
    <3>3. DOMAIN requests = 1 .. Len(requests)
      BY <2>1
    <3> QED BY <1>1, <3>1, <3>2, <3>3 DEF Protocol!BatchPasses, Protocol!BatchStateless
  <2>3. /\ batch' = [envelope |-> e, requests |-> requests, left |-> requests,
                     session |-> e.session, created |-> 0, answers |-> <<>>,
                     before |-> <<sessions, work>>]
        /\ UNCHANGED <<config, sessions, work, reply, told>>
    BY <1>1 DEF Protocol!PostBatch
  <2>4. /\ batch' \in BatchRecord
        /\ batch'.envelope = e /\ batch'.requests = requests /\ batch'.left = requests
        /\ batch'.session = e.session /\ batch'.answers = <<>>
    <3>1. <<sessions, work>> \in [Protocol!Ids -> Protocol!Supported \cup {"unused", "deleted"}]
                                   \X WorkRecord
      BY DEF ProtocolInv, ProtocolTypes
    <3>2. <<>> \in Seq(Protocol!Answer) /\ 0 \in 0 .. MaxSessions
      BY SessionsAssumption
    <3> QED BY <2>1, <2>2, <2>3, <3>1, <3>2 DEF BatchRecord
  <2>5. Protocol!AnsweredInOrder(requests, {i \in 1 .. 0 : requests[i].id}, <<>>)
    <3> DEFINE due == {i \in 1 .. 0 : requests[i].id}
               f == [i \in {} |-> 0]
    <3>1. DOMAIN <<>> = {} /\ due = {}
      OBVIOUS
    <3> HIDE DEF due
    <3>2. f \in [DOMAIN <<>> -> due]
      BY <3>1
    <3>3. /\ \A i, j \in DOMAIN <<>> : i < j => f[i] < f[j]
          /\ \A k \in due : \E i \in DOMAIN <<>> : f[i] = k
          /\ \A i \in DOMAIN <<>> : <<>>[i].request = requests[f[i]]
      BY <3>1
    <3> HIDE DEF f
    <3>4. Protocol!AnsweredInOrder(requests, due, <<>>)
      BY ONLY <3>2, <3>3, Zenon DEF Protocol!AnsweredInOrder
    <3> QED BY <3>4 DEF due
  <2>6. Len(requests) - Len(requests) = 0 /\ Len(<<>>) = 0
    BY <2>1
  <2>7. \A i \in 1 .. Len(requests) : requests[i] = requests[0 + i]
    BY <2>1
  <2>8. BatchFits'
    BY <2>2, <2>3, <2>4, <2>5, <2>6, <2>7 DEF BatchFits
  <2>9. Protocol!ProtocolSafe'
    BY <2>3, ReplyStays
  <2> QED BY <2>3, <2>8, <2>9 DEF ProtocolInv, ProtocolTypes, ToldFits
<1>2. CASE ~Protocol!BatchPasses(e, requests)
  BY <1>2, NoAnswerKeeps DEF Protocol!PostBatch, Protocol!NoAnswer, Protocol!vars, protocolVars
<1> QED BY <1>1, <1>2

\* The batch that is served, and the request of it that is next.
LEMMA BatchIs ==
  ASSUME ProtocolInv, batch.left # <<>>
  PROVE  /\ BatchFits /\ Head(batch.left) \in Protocol!Request
         /\ batch.session \in 0 .. MaxSessions /\ batch.created \in 0 .. MaxSessions
         /\ batch.session # 0 => /\ batch.session \in Protocol!Ids
                                 /\ sessions[batch.session] = "2025-03-26"
<1>1. BatchFits
  BY DEF ProtocolInv, Protocol!NoBatch
<1>2. /\ batch.left \in Seq(Protocol!Request)
      /\ batch.session \in 0 .. MaxSessions /\ batch.created \in 0 .. MaxSessions
  BY <1>1 DEF BatchFits, BatchRecord
<1>3. Head(batch.left) \in Protocol!Request
  BY <1>2
<1>4. batch.session # 0 => /\ batch.session \in Protocol!Ids
                           /\ sessions[batch.session] = "2025-03-26"
  BY <1>1, <1>2, SessionsAssumption DEF BatchFits, Protocol!Ids
<1> QED BY <1>1, <1>2, <1>3, <1>4

LEMMA BatchInitializeKeeps ==
  ASSUME ProtocolInv, NEW stored \in BOOLEAN, Protocol!BatchInitialize(stored)
  PROVE  ProtocolInv'
<1> DEFINE q == Head(batch.left)
           version == Protocol!Negotiate(q.version, "2025-03-26")
           id == Protocol!NewId
<1>1. /\ batch.left # <<>> /\ Protocol!Unused # {}
      /\ UNCHANGED <<config, work, reply, told>>
  BY DEF Protocol!BatchInitialize
<1>2. /\ BatchFits /\ q \in Protocol!Request
      /\ batch.session \in 0 .. MaxSessions /\ batch.created \in 0 .. MaxSessions
      /\ batch.session # 0 => sessions[batch.session] = "2025-03-26"
  BY <1>1, BatchIs
<1>3. Protocol!ProtocolSafe'
  BY <1>1, ReplyStays
<1>4. CASE version = "2025-03-26" /\ stored
  <2> DEFINE a == Protocol!InitializeAnswer(q, "2025-03-26")
  <2>1. Protocol!Create("2025-03-26") /\ Protocol!BatchGoes(id, id, a)
    BY <1>4 DEF Protocol!BatchInitialize
  <2>2. "2025-03-26" \in Protocol!Supported
    BY DEF Protocol!Supported
  <2> HIDE DEF q
  <2>3. /\ a \in Protocol!Answer /\ a.request = q /\ a.served = "absent"
        /\ a.session = id /\ a.negotiated = "2025-03-26" /\ AnswerFits(a, config.info)
    BY <1>1, <1>2, <2>2, InitializeAnswerIs
  <2>4. /\ sessions' \in [Protocol!Ids -> Protocol!Supported \cup {"unused", "deleted"}]
        /\ sessions'[id] = "2025-03-26"
        /\ \A s \in Protocol!Ids : s # id => sessions'[s] = sessions[s]
    BY <1>1, <2>1, <2>2, CreateIs
  <2>5. /\ id \in 0 .. MaxSessions /\ id \in Protocol!Ids /\ sessions[id] = "unused"
        /\ told[id] = "absent"
    BY <1>1, NewIdIs
  <2> HIDE DEF a, id
  <2>6. OfBatch(a, sessions', config.info)
    BY <2>3, <2>4 DEF OfBatch
  <2>7. \A s \in Protocol!Ids : sessions[s] = "2025-03-26" => sessions'[s] = "2025-03-26"
    BY <2>4
  <2>8. BatchFits'
    BY <1>1, <1>2, <2>1, <2>3, <2>4, <2>5, <2>6, <2>7, BatchStep DEF q
  <2>9. ToldFits' /\ ProtocolTypes'
    BY <1>1, <2>4, <2>5 DEF ProtocolInv, ProtocolTypes, ToldFits
  <2> QED BY <1>3, <2>8, <2>9 DEF ProtocolInv
<1>5. CASE ~(version = "2025-03-26" /\ stored)
  <2> DEFINE failure == IF version = "2025-03-26" THEN "Internal" ELSE "Params"
             a == Protocol!Error(q, failure)
  <2>1. sessions' = sessions /\ Protocol!BatchGoes(batch.session, batch.created, a)
    BY <1>5 DEF Protocol!BatchInitialize
  <2>2. failure \in {"NotFound", "Params", "Invalid", "Internal", "Tool", "Parse"}
    OBVIOUS
  <2> HIDE DEF failure, q
  <2>3. /\ a \in Protocol!Answer /\ a.request = q /\ a.served = "absent"
        /\ a.session = 0 /\ a.negotiated = "absent"
    BY <1>2, <2>2, ErrorIs
  <2> HIDE DEF a
  <2>4. OfBatch(a, sessions', config.info)
    BY <2>3 DEF OfBatch, AnswerFits
  <2>5. BatchFits'
    BY <1>1, <1>2, <2>1, <2>3, <2>4, BatchStep DEF q
  <2>6. ToldFits' /\ ProtocolTypes'
    BY <1>1, <2>1 DEF ProtocolInv, ProtocolTypes, ToldFits
  <2> QED BY <1>3, <2>5, <2>6 DEF ProtocolInv
<1> QED BY <1>4, <1>5

LEMMA BatchCallKeeps ==
  ASSUME ProtocolInv, NEW out \in Protocol!Outcomes, Protocol!BatchCall(out)
  PROVE  ProtocolInv'
<1> DEFINE q == Head(batch.left)
           s == batch.session
           a == IF s = 0 THEN Protocol!Error(q, "Invalid")
                ELSE Protocol!Dispatch(q, Protocol!SessionVersion(s), s, out)
<1>1. /\ batch.left # <<>> /\ Protocol!BatchGoes(s, batch.created, a)
      /\ UNCHANGED <<config, sessions, reply, told>>
      /\ Protocol!Start("task", s) \/ work' = work
  BY DEF Protocol!BatchCall
<1>2. /\ BatchFits /\ q \in Protocol!Request
      /\ s \in 0 .. MaxSessions /\ batch.created \in 0 .. MaxSessions
      /\ s # 0 => sessions[s] = "2025-03-26"
  BY <1>1, BatchIs
<1>3. work \in WorkRecord /\ config \in Protocol!Config
  BY DEF ProtocolInv, ProtocolTypes
<1>4. work' \in WorkRecord
  BY <1>1, <1>2, <1>3, StartIs
<1>5. Protocol!ProtocolSafe'
  BY <1>1, ReplyStays
<1>6. a \in Protocol!Answer /\ a.request = q /\ OfBatch(a, sessions, config.info)
  <2>1. CASE s = 0
    <3> DEFINE b == Protocol!Error(q, "Invalid")
    <3>1. /\ b \in Protocol!Answer /\ b.request = q /\ b.served = "absent"
          /\ b.session = 0 /\ b.negotiated = "absent"
      BY <1>2, ErrorIs
    <3>2. a = b
      BY <2>1
    <3> HIDE DEF a, b
    <3> QED BY <3>1, <3>2 DEF OfBatch, AnswerFits
  <2>2. CASE s # 0
    <3> DEFINE b == Protocol!Dispatch(q, "2025-03-26", s, out)
    <3>1. "2025-03-26" \in Protocol!Supported
      BY DEF Protocol!Supported
    <3>2. /\ b \in Protocol!Answer /\ b.request = q /\ b.negotiated = "absent"
          /\ b.served = "2025-03-26" /\ b.session = s /\ AnswerFits(b, config.info)
      BY <1>2, <1>3, <3>1, DispatchIs
    <3>3. a = b
      BY <1>2, <2>2 DEF Protocol!SessionVersion
    <3> HIDE DEF a, b, s
    <3> QED BY <1>2, <3>2, <3>3 DEF OfBatch
  <2> QED BY <2>1, <2>2
<1> HIDE DEF a
<1>7. BatchFits'
  BY <1>1, <1>2, <1>6, BatchStep
<1>8. ToldFits' /\ ProtocolTypes'
  BY <1>1, <1>4 DEF ProtocolInv, ProtocolTypes, ToldFits
<1> QED BY <1>5, <1>7, <1>8 DEF ProtocolInv

\* Once it is done, the answers are replied, and the versions that its initialize

\* requests told.
LEMMA BatchDoneKeeps ==
  ASSUME ProtocolInv, Protocol!BatchDone
  PROVE  ProtocolInv'
<1> DEFINE e == batch.envelope
           requests == batch.requests
           answers == batch.answers
           session == IF answers = <<>> THEN 0 ELSE batch.created
<1>1. /\ batch # Protocol!NoBatch /\ batch.left = <<>> /\ batch' = Protocol!NoBatch
      /\ UNCHANGED <<config, sessions, work>>
      /\ Protocol!Respond(e, requests, answers, session, batch.before)
  BY DEF Protocol!BatchDone
<1>2. /\ requests \in Seq(Protocol!Request) /\ answers \in Seq(Protocol!Answer)
      /\ e.verb = "POST" /\ e.form = "batch" /\ e.header \in {"absent", "2025-03-26"}
      /\ \A i \in DOMAIN requests : requests[i].meta # "2026-07-28"
      /\ \A i \in DOMAIN answers : OfBatch(answers[i], sessions, config.info)
      /\ Protocol!AnsweredInOrder(requests, {i \in 1 .. Len(requests) : requests[i].id}, answers)
  <2>1. BatchFits
    BY <1>1 DEF ProtocolInv
  <2>2. requests \in Seq(Protocol!Request) /\ answers \in Seq(Protocol!Answer)
    BY <2>1 DEF BatchFits, BatchRecord
  <2>3. /\ DOMAIN requests = 1 .. Len(requests) /\ DOMAIN answers = 1 .. Len(answers)
        /\ Len(batch.left) = 0 /\ Len(requests) - 0 = Len(requests)
    BY <1>1, <2>2
  <2>4. Protocol!AnsweredInOrder(requests, {i \in 1 .. Len(requests) : requests[i].id}, answers)
    BY <2>1, <2>3 DEF BatchFits
  <2> QED BY <2>1, <2>2, <2>3, <2>4 DEF BatchFits
<1> HIDE DEF e, requests, answers, session
<1>3. /\ reply'.envelope = e /\ reply'.requests = requests /\ reply'.answers = answers
      /\ reply' # Protocol!NoReply
  BY <1>1 DEF Protocol!Respond, Protocol!NoReply
<1>4. /\ told' \in [Protocol!Ids -> Protocol!Supported \cup {"absent"}]
      /\ \A s \in Protocol!Ids : \/ told'[s] = told[s]
                                 \/ told'[s] = "2025-03-26" /\ sessions[s] = "2025-03-26"
  <2> DEFINE initialized(s) == {i \in DOMAIN answers : /\ answers[i].session = s
                                                       /\ answers[i].negotiated # "absent"}
             new(s) == IF initialized(s) = {} THEN told[s]
                       ELSE answers[CHOOSE i \in initialized(s) : TRUE].negotiated
  <2>1. told' = [s \in Protocol!Ids |-> new(s)]
    BY <1>1 DEF Protocol!Respond
  <2>2. ASSUME NEW s \in Protocol!Ids
        PROVE  \/ new(s) = told[s]
               \/ new(s) = "2025-03-26" /\ sessions[s] = "2025-03-26"
    <3>1. CASE initialized(s) = {}
      BY <3>1
    <3>2. CASE initialized(s) # {}
      <4> DEFINE i == CHOOSE i \in initialized(s) : TRUE
      <4>1. i \in initialized(s)
        BY <3>2
      <4> HIDE DEF i
      <4>2. i \in DOMAIN answers /\ answers[i].session = s /\ answers[i].negotiated # "absent"
        BY <4>1
      <4>3. OfBatch(answers[i], sessions, config.info) /\ s # 0
        BY <1>2, <4>2, SessionsAssumption DEF Protocol!Ids
      <4>4. answers[i].negotiated = "2025-03-26" /\ sessions[s] = "2025-03-26"
        BY <4>2, <4>3 DEF OfBatch
      <4> QED BY <3>2, <4>4 DEF i
    <3> QED BY <3>1, <3>2
  <2> HIDE DEF new
  <2>3. told \in [Protocol!Ids -> Protocol!Supported \cup {"absent"}]
    BY DEF ProtocolInv, ProtocolTypes
  <2>4. "2025-03-26" \in Protocol!Supported
    BY DEF Protocol!Supported
  <2> QED BY <2>1, <2>2, <2>3, <2>4
<1>5. ToldFits' /\ ProtocolTypes'
  <2>1. ToldFits'
    BY <1>1, <1>4 DEF ProtocolInv, ToldFits
  <2> QED BY <1>1, <1>4, <2>1 DEF ProtocolInv, ProtocolTypes
<1>6. Protocol!Answered' = {answers[i] : i \in DOMAIN answers}
  BY <1>3 DEF Protocol!Answered
<1>7. Protocol!StatelessKeepsNothing'
  BY <1>2, <1>3 DEF Protocol!StatelessKeepsNothing
<1>8. Protocol!ServedAsNegotiated'
  <2> SUFFICES ASSUME NEW a \in Protocol!Answered', a.session # 0, a.served # "absent",
                      told'[a.session] # "absent"
               PROVE  /\ a.served = told'[a.session] /\ a.served = "2025-03-26"
                      /\ e.header \in {"absent", told'[a.session]}
    BY <1>3 DEF Protocol!ServedAsNegotiated
  <2>1. PICK i \in DOMAIN answers : a = answers[i]
    BY <1>6
  <2>2. a \in Protocol!Answer /\ OfBatch(a, sessions, config.info)
    BY <1>2, <2>1
  <2>3. a.session \in Protocol!Ids
    BY <2>2, SessionsAssumption DEF Protocol!Answer, Protocol!Ids
  <2>4. a.served = "2025-03-26" /\ sessions[a.session] = "2025-03-26"
    BY <2>2 DEF OfBatch
  <2>5. told'[a.session] = "2025-03-26"
    BY <1>1, <1>5, <2>3, <2>4 DEF ToldFits
  <2> QED BY <1>2, <2>4, <2>5
<1>9. Protocol!DeletedAsNegotiated'
  BY <1>2, <1>3 DEF Protocol!DeletedAsNegotiated
<1>10. Protocol!AnswersFit'
  <2> SUFFICES ASSUME NEW a \in Protocol!Answered' PROVE AnswerFits(a, config.info)
    BY <1>1 DEF Protocol!AnswersFit, AnswerFits
  <2> QED BY <1>2, <1>6 DEF OfBatch
<1>11. Protocol!EachAnswered'
  <2>1. {i \in DOMAIN requests : \/ requests[i].id
                                 \/ e.form = "single" /\ requests[i].method = "initialize"}
          = {i \in 1 .. Len(requests) : requests[i].id}
    BY <1>2
  <2> QED BY <1>2, <1>3, <2>1 DEF Protocol!EachAnswered
<1> QED BY <1>1, <1>5, <1>7, <1>8, <1>9, <1>10, <1>11 DEF ProtocolInv, Protocol!ProtocolSafe

\* What tools that run on end with, and the reading of a reply.
LEMMA AfterwardsKeeps ==
  ASSUME ProtocolInv,
         Protocol!Take \/ \E out \in Protocol!Outcomes : \/ Protocol!StreamEnds(out)
                                                         \/ Protocol!TaskEnds(out)
  PROVE  ProtocolInv'
<1>1. CASE Protocol!Take
  <2>1. reply' = Protocol!NoReply /\ UNCHANGED <<config, sessions, work, batch, told>>
    BY <1>1 DEF Protocol!Take
  <2>2. ~Protocol!Replied'
    BY <2>1 DEF Protocol!Replied
  <2>3. Protocol!ProtocolSafe'
    BY <2>2 DEF Protocol!ProtocolSafe, Protocol!StatelessKeepsNothing,
       Protocol!ServedAsNegotiated, Protocol!DeletedAsNegotiated, Protocol!AnswersFit,
       Protocol!EachAnswered
  <2> QED BY <2>1, <2>3 DEF ProtocolInv, ProtocolTypes, ToldFits, BatchFits
<1>2. ASSUME NEW out \in Protocol!Outcomes, Protocol!StreamEnds(out) PROVE ProtocolInv'
  <2>1. /\ batch = Protocol!NoBatch /\ work' = Protocol!NoWork /\ reply'.envelope.verb = "stream"
        /\ UNCHANGED <<config, sessions, batch, told>>
    BY <1>2 DEF Protocol!StreamEnds, Protocol!Idle
  <2>2. ~Protocol!Replied'
    BY <2>1 DEF Protocol!Replied
  <2>3. Protocol!ProtocolSafe'
    BY <2>2 DEF Protocol!ProtocolSafe, Protocol!StatelessKeepsNothing,
       Protocol!ServedAsNegotiated, Protocol!DeletedAsNegotiated, Protocol!AnswersFit,
       Protocol!EachAnswered
  <2>4. work' \in WorkRecord
    BY <2>1, SessionsAssumption DEF Protocol!NoWork, WorkRecord
  <2> QED BY <2>1, <2>3, <2>4 DEF ProtocolInv, ProtocolTypes, ToldFits
<1>3. ASSUME NEW out \in Protocol!Outcomes, Protocol!TaskEnds(out) PROVE ProtocolInv'
  <2>1. /\ batch = Protocol!NoBatch /\ work' = [work EXCEPT !.state = out]
        /\ UNCHANGED <<config, sessions, batch, reply, told>>
    BY <1>3 DEF Protocol!TaskEnds, Protocol!Idle
  <2>2. Protocol!ProtocolSafe'
    BY <2>1, ReplyStays
  <2>3. work' \in WorkRecord
    <3>1. work \in WorkRecord
      BY DEF ProtocolInv, ProtocolTypes
    <3> QED BY <2>1, <3>1 DEF WorkRecord
  <2> QED BY <2>1, <2>2, <2>3 DEF ProtocolInv, ProtocolTypes, ToldFits
<1> QED BY <1>1, <1>2, <1>3

LEMMA ServeKeeps ==
  ASSUME ProtocolInv, Protocol!Idle, NEW e \in Protocol!Envelopes, Protocol!Names(e),
         Protocol!Serve(e)
  PROVE  ProtocolInv'
<1>1. e \in Protocol!Envelope /\ batch = Protocol!NoBatch
  BY DEF Protocol!Envelopes, Protocol!Idle
<1>2. CASE Protocol!Get \/ Protocol!PostResponse
  BY <1>2, NoAnswerKeeps DEF Protocol!Get, Protocol!PostResponse, Protocol!NoAnswer,
     Protocol!vars, protocolVars
<1>3. CASE e.verb = "DELETE" /\ Protocol!Delete(e)
  BY <1>1, <1>3, DeleteKeeps
<1>4. ASSUME NEW requests \in Protocol!Batches, e.verb = "POST", e.form = "batch",
             Protocol!PostBatch(e, requests)
      PROVE  ProtocolInv'
  BY <1>1, <1>4, BatchBegins
<1>5. ASSUME e.verb = "POST", e.form = "single", Protocol!PostRequest(e) PROVE ProtocolInv'
  <2>1. PICK q \in Protocol!Requests :
          \/ Protocol!PostDiscover(e, q) \/ Protocol!PostUnanswered(e, q)
          \/ Protocol!PostStream(e, q) \/ Protocol!PostRefused(e, q)
          \/ \E out \in Protocol!OutcomesOf(q) : \/ Protocol!PostStateless(e, q, out)
                                                 \/ Protocol!PostCall(e, q, out)
          \/ \E stored \in BOOLEAN : Protocol!PostInitialize(e, q, stored)
    BY <1>5, Zenon DEF Protocol!PostRequest
  <2>2. q \in Protocol!Request
    BY DEF Protocol!Requests
  <2>3. Protocol!OutcomesOf(q) \subseteq Protocol!Outcomes
    BY DEF Protocol!OutcomesOf, Protocol!Outcomes
  <2>4. CASE Protocol!PostDiscover(e, q)
    BY <1>1, <1>5, <2>2, <2>4, DiscoverKeeps
  <2>5. CASE Protocol!PostUnanswered(e, q)
    BY <2>5, NoAnswerKeeps DEF Protocol!PostUnanswered, Protocol!NoAnswer, Protocol!vars,
       protocolVars
  <2>6. CASE Protocol!PostStream(e, q)
    <3>1. /\ Protocol!SessionFits(e) /\ Protocol!Start("stream", e.session)
          /\ UNCHANGED <<config, sessions, batch, reply, told>>
      BY <2>6 DEF Protocol!PostStream
    <3>2. Protocol!ProtocolSafe'
      BY <3>1, ReplyStays
    <3>3. work' \in WorkRecord
      BY <1>1, <3>1, SessionFitsIs, StartIs
    <3> QED BY <1>1, <3>1, <3>2, <3>3 DEF ProtocolInv, ProtocolTypes, ToldFits
  <2>7. CASE Protocol!PostRefused(e, q)
    BY <1>1, <1>5, <2>7, RefusedKeeps
  <2>8. ASSUME NEW out \in Protocol!OutcomesOf(q), Protocol!PostStateless(e, q, out)
        PROVE  ProtocolInv'
    BY <1>1, <1>5, <2>2, <2>3, <2>8, StatelessKeeps
  <2>9. ASSUME NEW out \in Protocol!OutcomesOf(q), Protocol!PostCall(e, q, out)
        PROVE  ProtocolInv'
    BY <1>1, <1>5, <2>2, <2>3, <2>9, CallKeeps
  <2>10. ASSUME NEW stored \in BOOLEAN, Protocol!PostInitialize(e, q, stored)
         PROVE  ProtocolInv'
    BY <1>1, <1>5, <2>2, <2>10, InitializeKeeps
  <2> QED BY <2>1, <2>4, <2>5, <2>6, <2>7, <2>8, <2>9, <2>10
<1> QED BY <1>2, <1>3, <1>4, <1>5 DEF Protocol!Serve

LEMMA ProtocolInvStep == ProtocolInv /\ [Protocol!Next]_protocolVars => ProtocolInv'
<1> SUFFICES ASSUME ProtocolInv, [Protocol!Next]_protocolVars PROVE ProtocolInv'
  OBVIOUS
<1>1. CASE UNCHANGED protocolVars
  BY <1>1, NoAnswerKeeps
<1>2. ASSUME Protocol!Idle, NEW e \in Protocol!Envelopes, Protocol!Names(e), Protocol!Serve(e)
      PROVE  ProtocolInv'
  BY <1>2, ServeKeeps
<1>3. ASSUME NEW stored \in BOOLEAN, Protocol!BatchInitialize(stored) PROVE ProtocolInv'
  BY <1>3, BatchInitializeKeeps
<1>4. ASSUME NEW out \in Protocol!Outcomes, Protocol!BatchCall(out) PROVE ProtocolInv'
  BY <1>4, BatchCallKeeps
<1>5. CASE Protocol!BatchDone
  BY <1>5, BatchDoneKeeps
<1>6. CASE Protocol!Take \/ \E out \in Protocol!Outcomes : \/ Protocol!StreamEnds(out)
                                                           \/ Protocol!TaskEnds(out)
  BY <1>6, AfterwardsKeeps
<1> QED BY <1>1, <1>2, <1>3, <1>4, <1>5, <1>6 DEF Protocol!Next

LEMMA ProtocolInvInit == Protocol!Init => ProtocolInv
<1> SUFFICES ASSUME Protocol!Init PROVE ProtocolInv
  OBVIOUS
<1>1. /\ config \in Protocol!Config /\ sessions = [s \in Protocol!Ids |-> "unused"]
      /\ work = Protocol!NoWork /\ batch = Protocol!NoBatch /\ reply = Protocol!NoReply
      /\ told = [s \in Protocol!Ids |-> "absent"]
  BY DEF Protocol!Init, Protocol!Configs
<1>2. work \in WorkRecord
  BY <1>1, SessionsAssumption DEF Protocol!NoWork, WorkRecord
<1>3. ~Protocol!Replied
  BY <1>1 DEF Protocol!Replied
<1>4. Protocol!ProtocolSafe
  BY <1>3 DEF Protocol!ProtocolSafe, Protocol!StatelessKeepsNothing,
     Protocol!ServedAsNegotiated, Protocol!DeletedAsNegotiated, Protocol!AnswersFit,
     Protocol!EachAnswered
<1> QED BY <1>1, <1>2, <1>4 DEF ProtocolInv, ProtocolTypes, ToldFits

HIDE DEF Protocol!Stateless, Protocol!Latest, Protocol!Prior, Protocol!Legacy, Protocol!Absent

\* A message is served under the version that its session negotiated, or without
\* a session under the stateless one, which keeps nothing; a session is deleted
\* only by a message of its version; each request is answered once, in order and
\* in the form of that version, in batches too.
THEOREM ProtocolAlwaysSafe == McpSpec => [](kind = "PROTOCOL" => Protocol!ProtocolSafe)
<1> DEFINE Inv == kind = "PROTOCOL" => ProtocolInv
<1>1. McpInit => Inv
  BY ProtocolInvInit DEF McpInit
<1>2. Inv /\ [McpNext]_<<kind, vars, sessionVars, protocolVars, callVars, pageVars>> => Inv'
  <2> SUFFICES ASSUME Inv, kind' = "PROTOCOL",
                      [McpNext]_<<kind, vars, sessionVars, protocolVars, callVars, pageVars>>
               PROVE  ProtocolInv'
    OBVIOUS
  <2>1. kind = "PROTOCOL" /\ [Protocol!Next]_protocolVars
    BY DEF McpNext
  <2> QED BY <2>1, ProtocolInvStep
<1>3. Inv => (kind = "PROTOCOL" => Protocol!ProtocolSafe)
  BY DEF ProtocolInv
<1> QED BY <1>1, <1>2, <1>3, PTL DEF McpSpec

\* What the MCP server answers is true: of the version and the session that serve
\* the message, of how a tool ended, and of the tasks that last.
THEOREM AnswersAlwaysTrue == McpSpec => []AnswersTrue
<1>1. /\ (kind = "PROTOCOL" => Protocol!ProtocolSafe)
      /\ (kind = "CALL" => Call!ToolToldTrue)
      /\ (kind = "PAGES" => Pages!PagesComplete)
      => AnswersTrue
  BY DEF AnswersTrue
<1> QED BY <1>1, CallsAlwaysToldTrue, PagesAlwaysComplete, ProtocolAlwaysSafe, PTL

-----------------------------------------------------------------------------
(* Sessions.                                                                *)

SessionProofs == INSTANCE McpSessions_proofs WITH past <- record

\* The two instances of McpSessions are the same.
LEMMA SameSession ==
  /\ Session!Init <=> SessionProofs!Init
  /\ Session!Next <=> SessionProofs!Next
  /\ sessionVars = SessionProofs!vars
  /\ Session!SessionSafe <=> SessionProofs!SessionSafe
<1>1. Session!Idle = SessionProofs!Idle
  BY DEF Session!Idle, SessionProofs!Idle
<1>2. Session!Init <=> SessionProofs!Init
  BY <1>1 DEF Session!Init, SessionProofs!Init
<1>3. Session!SessionSafe <=> SessionProofs!SessionSafe
  BY DEF Session!SessionSafe, Session!SessionLasts, Session!CancelReaches, Session!Promised,
     Session!Running, SessionProofs!SessionSafe, SessionProofs!SessionLasts,
     SessionProofs!CancelReaches, SessionProofs!Promised, SessionProofs!Running
<1>4. Session!Next <=> SessionProofs!Next
  BY <1>1 DEF Session!Next, Session!Arrive, Session!Refresh, Session!Get, Session!Check,
     Session!Evict, Session!Mark, Session!Erase, Session!Fail, Session!Track, Session!Cancel,
     Session!Finish, Session!Crash, Session!Reap, Session!Tick, Session!Write, Session!Expired,
     Session!Promised, Session!MovesTo, Session!Ends, Session!requestVars, Session!Served,
     Session!Over, Session!Running, Session!StoreSteps,
     SessionProofs!Next, SessionProofs!Arrive, SessionProofs!Refresh, SessionProofs!Get,
     SessionProofs!Check, SessionProofs!Evict, SessionProofs!Mark, SessionProofs!Erase,
     SessionProofs!Fail, SessionProofs!Track, SessionProofs!Cancel, SessionProofs!Finish,
     SessionProofs!Crash, SessionProofs!Reap, SessionProofs!Tick, SessionProofs!Write,
     SessionProofs!Expired, SessionProofs!Promised, SessionProofs!MovesTo, SessionProofs!Ends,
     SessionProofs!requestVars, SessionProofs!Served, SessionProofs!Over, SessionProofs!Running,
     SessionProofs!StoreSteps
<1> QED BY <1>2, <1>3, <1>4 DEF sessionVars, SessionProofs!vars

LEMMA SessionOfMcp ==
  McpSpec => SessionProofs!Spec
<1>1. McpInit => SessionProofs!Init
  BY SameSession DEF McpInit
<1>2. [McpNext]_<<kind, vars, sessionVars, protocolVars, callVars, pageVars>>
        => [SessionProofs!Next]_SessionProofs!vars
  BY SameSession DEF McpNext, sessionVars, SessionProofs!vars
<1> QED BY <1>1, <1>2, PTL DEF McpSpec, SessionProofs!Spec

\* A tool is stopped only when its task's record says that it was canceled, and
\* all who are told a task's result, by tasks/result or by a tasks/cancel that
\* succeeded, are told the same.  A session in the DynamoDB store lasts for its
\* TTL after the last message that was served, up to the time that older messages
\* take to write their expiry over it, and a running request can be cancelled in
\* its process, whatever requests with its id ended before.
THEOREM RecordsAlwaysSafe ==
  ASSUME Tasks # {}, SessionProofs!SessionConstants
  PROVE  McpSpec => []RecordsSafe
<1>1. McpSpec => []SessionProofs!SessionSafe
  BY SessionOfMcp, SessionProofs!SessionAlwaysSafe, PTL
<1>2. StoppedIsCanceled /\ ResultsAgree /\ SessionProofs!SessionSafe => RecordsSafe
  BY SameSession DEF RecordsSafe
<1> QED BY <1>1, <1>2, TasksAlwaysAgree, PTL

\* A deleted session is revived only by a message that was served while DELETE
\* removed it or that read an old record.
THEOREM DeletionIsFinal ==
  ASSUME SessionProofs!SessionConstants
  PROVE  McpSpec => DeletedStaysGone
<1>1. SessionProofs!Spec => SessionProofs!DeletedStaysGone
  BY SessionProofs!SessionStaysDeleted
<1> QED BY <1>1, SessionOfMcp, PTL
        DEF DeletedStaysGone, Session!DeletedStaysGone, SessionProofs!DeletedStaysGone,
            Session!vars, SessionProofs!vars
=============================================================================

------------------------------ MODULE McpTasks ------------------------------
(***************************************************************************)
(* Task-augmented tool calls of one MCP session (runtime/mcp/task.go) on    *)
(* DynamoTaskStore (runtime/mcp/task_dynamo.go).                            *)
(*                                                                         *)
(* tools/call with a task parameter creates the task's record and runs the  *)
(* tool on a context of its own, tracked by the server instance that runs   *)
(* it.  tasks/cancel marks the record canceled and then stops the tool if   *)
(* it runs on the same instance.  tasks/result polls the record.  The       *)
(* store's updates read the record, look at its status and then write it    *)
(* on condition that it is not terminal; its reads are eventually           *)
(* consistent.  DELETE of the session, or the task's TTL, removes records.  *)
(***************************************************************************)
EXTENDS Naturals

CONSTANTS Tasks, Cancels, Waits   \* tasks, tasks/cancel and tasks/result requests

VARIABLES item,     \* the record's status, "none" when there is no record
          past,     \* history: what each item has been
          tool,     \* each task's tool call
          tracked,  \* taskExecutions: the tasks whose context can be canceled
          stopped,  \* the tasks whose context is canceled
          cancel,   \* the tasks/cancel requests
          wait,     \* the tasks/result requests
          removed   \* history: the tasks whose record was deleted

vars == <<item, past, tool, tracked, stopped, cancel, wait, removed>>

Outcomes == {"completed", "failed"}
Terminal == Outcomes \cup {"canceled"}
Status == Terminal \cup {"none", "working"}

Tool == [step : {"idle", "create", "track", "run", "load", "write", "finish",
                 "done", "lost"},
         outcome : Outcomes]
Cancel == [step : {"idle", "load", "write", "stop", "ok", "error"}, task : Tasks]
Wait == [step : {"idle", "poll", "answered"},
         task : Tasks,
         answer : Terminal \cup {"pending", "error"}]

TypeOK ==
    /\ item \in [Tasks -> Status]
    /\ past \in [Tasks -> SUBSET Status] /\ \A t \in Tasks : item[t] \in past[t]
    /\ tool \in [Tasks -> Tool]
    /\ tracked \subseteq Tasks
    /\ stopped \subseteq Tasks
    /\ cancel \in [Cancels -> Cancel]
    /\ wait \in [Waits -> Wait]
    /\ removed \subseteq Tasks

AnyTask == CHOOSE t \in Tasks : TRUE

Init ==
    /\ item = [t \in Tasks |-> "none"]
    /\ past = [t \in Tasks |-> {"none"}]
    /\ tool = [t \in Tasks |-> [step |-> "idle", outcome |-> "completed"]]
    /\ tracked = {}
    /\ stopped = {}
    /\ cancel = [c \in Cancels |-> [step |-> "idle", task |-> AnyTask]]
    /\ wait = [w \in Waits |-> [step |-> "idle", task |-> AnyTask, answer |-> "pending"]]
    /\ removed = {}

-----------------------------------------------------------------------------
(* The items of the task table.                                             *)

Put(t, status) ==
    /\ item' = [item EXCEPT ![t] = status]
    /\ past' = [past EXCEPT ![t] = @ \cup {status}]

\* Mutant: the write has no condition.
MayWriteAlways(t) == TRUE

\* taskNonTerminalWriteGuard, which an item that is not there passes.
MayWrite(t) == item[t] \notin Terminal

\* A read returns the item as it is or as it was.
Reads(t, status) == status \in past[t]

-----------------------------------------------------------------------------
(* The tool call of a task.                                                 *)

ToolGoes(t, step) == tool' = [tool EXCEPT ![t].step = step]

StartTask(t) ==
    /\ tool[t].step = "idle"
    /\ ToolGoes(t, "create")
    /\ UNCHANGED <<item, past, tracked, stopped, cancel, wait, removed>>

CreateRecord(t) ==
    /\ tool[t].step = "create"
    /\ Put(t, "working")
    /\ \/ ToolGoes(t, "track")
       \/ ToolGoes(t, "lost")   \* the answer is lost: no tool runs
    /\ UNCHANGED <<tracked, stopped, cancel, wait, removed>>

\* The context is tracked before the tool's goroutine starts.
Track(t) ==
    /\ tool[t].step = "track"
    /\ tracked' = tracked \cup {t}
    /\ ToolGoes(t, "run")
    /\ UNCHANGED <<item, past, stopped, cancel, wait, removed>>

\* Mutant: what a failing tool leaves behind is not recorded.
ToolEndsQuietly(t) ==
    /\ tool[t].step = "run"
    /\ \/ tool' = [tool EXCEPT ![t] = [step |-> "load", outcome |-> "completed"]]
       \/ ToolGoes(t, "finish")
    /\ UNCHANGED <<item, past, tracked, stopped, cancel, wait, removed>>

\* The tool returns a result, returns an error or panics.  An error is dropped
\* when the context was canceled.
ToolEnds(t) ==
    /\ tool[t].step = "run"
    /\ \/ \E outcome \in Outcomes :
            tool' = [tool EXCEPT ![t] = [step |-> "load", outcome |-> outcome]]
       \/ t \in stopped /\ ToolGoes(t, "finish")
    /\ UNCHANGED <<item, past, tracked, stopped, cancel, wait, removed>>

\* finishTask: Update reads the record first.
LoadForUpdate(t) ==
    /\ tool[t].step = "load"
    /\ \E status \in Status :
         /\ Reads(t, status)
         /\ ToolGoes(t, CASE status = "working" -> "write"
                          [] status \in Terminal -> "finish"
                          [] status = "none" -> "lost")
    /\ tracked' = IF tool'[t].step = "lost" THEN tracked \ {t} ELSE tracked
    /\ UNCHANGED <<item, past, stopped, cancel, wait, removed>>

\* The condition failed: the task is terminal already.  Whether the answer of
\* the write comes makes no difference: an error is logged.
WriteOutcome(t) ==
    /\ tool[t].step = "write"
    /\ \/ MayWrite(t) /\ Put(t, tool[t].outcome)
       \/ ~MayWrite(t) /\ UNCHANGED <<item, past>>
    /\ ToolGoes(t, "finish")
    /\ UNCHANGED <<tracked, stopped, cancel, wait, removed>>

\* The deferred finish of the tracker.
Finish(t) ==
    /\ tool[t].step = "finish"
    /\ tracked' = tracked \ {t}
    /\ ToolGoes(t, "done")
    /\ UNCHANGED <<item, past, stopped, cancel, wait, removed>>

\* The instance is frozen or dies, or a call of the store fails.
ToolLost(t) ==
    /\ tool[t].step \in {"create", "track", "run", "load", "write", "finish"}
    /\ tracked' = tracked \ {t}
    /\ ToolGoes(t, "lost")
    /\ UNCHANGED <<item, past, stopped, cancel, wait, removed>>

-----------------------------------------------------------------------------
(* tasks/cancel.                                                            *)

CancelGoes(c, step) == cancel' = [cancel EXCEPT ![c].step = step]

\* A client knows the task from the answer of tools/call, or from tasks/list.
StartCancel(c) ==
    /\ cancel[c].step = "idle"
    /\ \E t \in Tasks : cancel' = [cancel EXCEPT ![c] = [step |-> "load", task |-> t]]
    /\ UNCHANGED <<item, past, tool, tracked, stopped, wait, removed>>

CancelLoad(c) ==
    /\ cancel[c].step = "load"
    /\ \E status \in Status :
         /\ Reads(cancel[c].task, status)
         /\ CancelGoes(c, IF status = "working" THEN "write" ELSE "error")
    /\ UNCHANGED <<item, past, tool, tracked, stopped, wait, removed>>

\* Mutant: the tool is stopped although the task was terminal.
CancelWriteUnheeded(c) ==
    /\ cancel[c].step = "write"
    /\ \/ MayWrite(cancel[c].task) /\ Put(cancel[c].task, "canceled")
       \/ ~MayWrite(cancel[c].task) /\ UNCHANGED <<item, past>>
    /\ CancelGoes(c, "stop")
    /\ UNCHANGED <<tool, tracked, stopped, wait, removed>>

CancelWrite(c) ==
    /\ cancel[c].step = "write"
    /\ \/ /\ MayWrite(cancel[c].task)
          /\ Put(cancel[c].task, "canceled")
          /\ \/ CancelGoes(c, "stop")
             \/ CancelGoes(c, "error")   \* the answer is lost
       \/ /\ ~MayWrite(cancel[c].task)
          /\ CancelGoes(c, "error")
          /\ UNCHANGED <<item, past>>
    /\ UNCHANGED <<tool, tracked, stopped, wait, removed>>

\* Only the instance that runs the tool has its context.
CancelStop(c) ==
    /\ cancel[c].step = "stop"
    /\ \E here \in BOOLEAN :
         stopped' = IF here /\ cancel[c].task \in tracked
                      THEN stopped \cup {cancel[c].task} ELSE stopped
    /\ CancelGoes(c, "ok")
    /\ UNCHANGED <<item, past, tool, tracked, wait, removed>>

CancelFails(c) ==
    /\ cancel[c].step \in {"load", "write", "stop"}
    /\ CancelGoes(c, "error")
    /\ UNCHANGED <<item, past, tool, tracked, stopped, wait, removed>>

-----------------------------------------------------------------------------
(* tasks/result.                                                            *)

Answer(w, answer) == wait' = [wait EXCEPT ![w].step = "answered", ![w].answer = answer]

StartWait(w) ==
    /\ wait[w].step = "idle"
    /\ \E t \in Tasks :
         wait' = [wait EXCEPT ![w] = [step |-> "poll", task |-> t, answer |-> "pending"]]
    /\ UNCHANGED <<item, past, tool, tracked, stopped, cancel, removed>>

\* Mutant: what the first poll finds is answered.
PollOnce(w) ==
    /\ wait[w].step = "poll"
    /\ \E status \in Status :
         /\ Reads(wait[w].task, status)
         /\ Answer(w, IF status = "none" THEN "error" ELSE status)
    /\ UNCHANGED <<item, past, tool, tracked, stopped, cancel, removed>>

\* A record that is still working is polled again.
Poll(w) ==
    /\ wait[w].step = "poll"
    /\ \E status \in Status \ {"working"} :
         /\ Reads(wait[w].task, status)
         /\ Answer(w, IF status = "none" THEN "error" ELSE status)
    /\ UNCHANGED <<item, past, tool, tracked, stopped, cancel, removed>>

\* The deadline passes, the client goes away or the store fails.
WaitFails(w) ==
    /\ wait[w].step = "poll"
    /\ Answer(w, "error")
    /\ UNCHANGED <<item, past, tool, tracked, stopped, cancel, removed>>

-----------------------------------------------------------------------------
(* The end of the records.                                                  *)

\* handleDELETE's DeleteSession deletes the record, or DynamoDB does when its
\* TTL has passed, from when on the store does not return it.  Requests may
\* follow: those that have passed getSession go on, and the Put with which
\* getSession extends a session can undo a concurrent deletion.
Remove(t) ==
    /\ item[t] # "none"
    /\ Put(t, "none")
    /\ removed' = removed \cup {t}
    /\ UNCHANGED <<tool, tracked, stopped, cancel, wait>>

RunTool(t) ==
    CreateRecord(t) \/ Track(t) \/ ToolEnds(t) \/ LoadForUpdate(t) \/ WriteOutcome(t) \/ Finish(t)

Next ==
    \/ \E t \in Tasks : StartTask(t) \/ RunTool(t) \/ ToolLost(t) \/ Remove(t)
    \/ \E c \in Cancels :
         StartCancel(c) \/ CancelLoad(c) \/ CancelWrite(c) \/ CancelStop(c) \/ CancelFails(c)
    \/ \E w \in Waits : StartWait(w) \/ Poll(w) \/ WaitFails(w)

\* A goroutine goes on, and a tool ends.
Fairness == \A t \in Tasks : WF_vars(RunTool(t))

Spec == Init /\ [][Next]_vars /\ Fairness

-----------------------------------------------------------------------------
(* Properties.                                                              *)

\* A tool is stopped only after its task was recorded as canceled: the error
\* that runTaskTool then drops is not the task's outcome.
StoppedIsCanceled == \A t \in stopped : item[t] = "canceled" \/ t \in removed

\* Two tasks/result requests never tell different results of a task, nor does
\* one tell another result than that of a tasks/cancel that succeeded.
ResultsAgree ==
    \A t \in Tasks \ removed, v, w \in Waits, c \in Cancels :
        /\ wait[v].task = t /\ wait[v].answer \in Terminal
        => /\ wait[w].task = t /\ wait[w].answer \in Terminal => wait[v].answer = wait[w].answer
           /\ cancel[c].task = t /\ cancel[c].step \in {"stop", "ok"} => wait[v].answer = "canceled"

\* A task whose tool runs comes to an outcome, is removed, or its instance or
\* its store has failed it.
TaskSettles ==
    \A t \in Tasks :
        tool[t].step = "run"
          ~> item[t] \in Terminal \/ t \in removed \/ tool[t].step = "lost"

\* The records behave as those of MemoryTaskStore.  A record that an update in
\* progress writes again after it was deleted is out of reach: its session or
\* its lifetime is over.
Board == INSTANCE TaskBoard WITH
    board <- [t \in Tasks |-> IF t \in removed THEN "gone" ELSE item[t]]
ImplementsTaskBoard == Board!Spec
=============================================================================

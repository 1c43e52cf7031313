----------------------------- MODULE TaskBoard -----------------------------
(***************************************************************************)
(* What a task store promises for the tasks of one session, and what        *)
(* MemoryTaskStore (runtime/mcp/task_memory.go) does under its mutex: a     *)
(* task works until it is completed, failed or canceled, once, and a        *)
(* deleted task is not heard of again.                                      *)
(***************************************************************************)
CONSTANT Tasks

VARIABLE board   \* the tasks' statuses

Outcomes == {"completed", "failed"}
Terminal == Outcomes \cup {"canceled"}

Init == board = [t \in Tasks |-> "none"]

Moves(t, from, to) ==
    /\ board[t] \in from
    /\ board' = [board EXCEPT ![t] = to]

Create(t) == Moves(t, {"none"}, "working")
Update(t, outcome) == Moves(t, {"working"}, outcome)
Cancel(t) == Moves(t, {"working"}, "canceled")
Delete(t) == Moves(t, {"working"} \cup Terminal, "gone")

Next ==
    \E t \in Tasks :
        \/ Create(t) \/ Cancel(t) \/ Delete(t)
        \/ \E outcome \in Outcomes : Update(t, outcome)

Spec == Init /\ [][Next]_board
=============================================================================

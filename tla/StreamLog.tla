----------------------------- MODULE StreamLog -----------------------------
(***************************************************************************)
(* What runtime/mcp's StreamStore promises the client of one streaming      *)
(* tool call: the call's events form a log, the client receives them in     *)
(* order and without a gap, and the stream ends for it only when the log is *)
(* closed and all of it was received, or when the stream is removed.        *)
(***************************************************************************)
EXTENDS Naturals, Sequences

CONSTANT Events

VARIABLES log,     \* the events appended so far
          state,   \* "open", "closed", or "removed" once the session is deleted
          seen,    \* the events the client has received
          ended    \* whether the client was told that the stream is over

vars == <<log, state, seen, ended>>

Init == log = <<>> /\ state = "open" /\ seen = <<>> /\ ended = FALSE

AppendEvent(e) ==
    /\ state = "open"
    /\ log' = Append(log, e)
    /\ UNCHANGED <<state, seen, ended>>

Close ==
    /\ state = "open"
    /\ state' = "closed"
    /\ UNCHANGED <<log, seen, ended>>

Receive ==
    /\ Len(seen) < Len(log)
    /\ seen' = Append(seen, log[Len(seen) + 1])
    /\ UNCHANGED <<log, state, ended>>

End ==
    /\ state = "closed"
    /\ seen = log
    /\ ended' = TRUE
    /\ UNCHANGED <<log, state, seen>>

Remove ==
    /\ state' = "removed"
    /\ UNCHANGED <<log, seen, ended>>

\* Nothing is promised about what is received once the session is deleted.
AfterRemoval ==
    /\ state = "removed"
    /\ UNCHANGED <<log, state>>

Next ==
    \/ \E e \in Events : AppendEvent(e)
    \/ Close \/ Receive \/ End \/ Remove \/ AfterRemoval

Spec == Init /\ [][Next]_vars
=============================================================================

----------------------------- MODULE SseStream -----------------------------
(***************************************************************************)
(* A response of server-sent events (runtime/sse.go): a goroutine takes       *)
(* events from a channel and writes them to a pipe, whose other end is the    *)
(* body of the response.  An MCP stream has one more in between, which        *)
(* forwards what the subscription gives (streamToSSE); the listener of a      *)
(* session writes comments of its own (openSessionListener).                *)
(*                                                                         *)
(* An event is its number.                                                  *)
(***************************************************************************)
EXTENDS Naturals, Sequences

CONSTANT MaxEvents   \* bound on the events of a source, for TLC

VARIABLES via,      \* what the response is of
          total,    \* the number of its events
          endless,  \* whether its source stays open after them
          bad,      \* the event that cannot be formatted, 0 for none
          sent,     \* the events that the source has given
          forward,  \* the forwarding goroutine
          writer,   \* the writing goroutine
          ended,    \* whether the request's context, or the listener's, has ended
          pipe,     \* whether, and how, the writer has closed the pipe
          left,     \* whether the reader has
          got, saw  \* what the reader got, and saw last

vars == <<via, total, endless, bad, sent, forward, writer, ended, pipe, left, got, saw>>

At(step, event) == [step |-> step, event |-> event]
Done == At("done", 0)

TypeOK ==
    /\ via \in {"subscription", "channel", "listener"}
    /\ total \in 0 .. MaxEvents /\ endless \in BOOLEAN
    /\ {bad, sent} \subseteq 0 .. total
    /\ forward.step \in {"receive", "offer", "done"}
    /\ writer.step \in {"receive", "write", "failed", "close", "done"}
    /\ {forward.event, writer.event} \subseteq 0 .. total
    /\ ended \in BOOLEAN /\ left \in BOOLEAN
    /\ pipe \in {"open", "end", "error"}
    /\ Len(got) <= total /\ saw \in {"data", "end", "error"}

\* A listener without a budget of time sends one comment; one whose budget is
\* used up begins with a context that has ended.
Init ==
    /\ via \in {"subscription", "channel", "listener"}
    /\ total \in 0 .. MaxEvents /\ endless \in BOOLEAN /\ bad \in 0 .. total
    /\ via = "listener" => bad = 0 /\ total > 0 /\ (~endless => total = 1)
    /\ ended \in BOOLEAN /\ (ended => via = "listener" /\ endless)
    /\ sent = 0
    /\ forward = IF via = "subscription" THEN At("receive", 0) ELSE Done
    /\ writer = At("receive", 0)
    /\ pipe = "open" /\ left = FALSE
    /\ got = <<>> /\ saw = "data"

Source == <<via, total, endless, bad>>
Closed == sent = total /\ ~endless

\* The request ends, or the listener's budget is used up.
ContextEnds ==
    /\ ~ended /\ ended' = TRUE
    /\ UNCHANGED <<Source, sent, forward, writer, pipe, left, got, saw>>

-----------------------------------------------------------------------------
(* streamToSSE                                                              *)

ForwardReceive ==
    /\ forward.step = "receive" /\ sent < total
    /\ sent' = sent + 1 /\ forward' = At("offer", sent + 1)
    /\ UNCHANGED <<Source, writer, ended, pipe, left, got, saw>>

\* Mutant: an event is offered until somebody takes it.
ForwardStopsReceiving ==
    /\ forward.step = "receive" /\ (ended \/ Closed)
    /\ forward' = Done
    /\ UNCHANGED <<Source, sent, writer, ended, pipe, left, got, saw>>

\* The context's end, or the channel's.  The event that is offered is dropped.
ForwardStops ==
    /\ \/ forward.step = "receive" /\ (ended \/ Closed)
       \/ forward.step = "offer" /\ ended
    /\ forward' = Done
    /\ UNCHANGED <<Source, sent, writer, ended, pipe, left, got, saw>>

-----------------------------------------------------------------------------
(* streamSSEEvents                                                          *)

Formatted(event) == At(IF event = bad THEN "failed" ELSE "write", event)

\* From the forwarding goroutine.
TakeOffer ==
    /\ writer.step = "receive" /\ forward.step = "offer"
    /\ writer' = Formatted(forward.event)
    /\ forward' = At("receive", 0)
    /\ UNCHANGED <<Source, sent, ended, pipe, left, got, saw>>

\* From the handler's channel, or a tick of the listener.  The first comment of
\* a listener is sent at once, unless it has no time.
TakeEvent ==
    /\ writer.step = "receive" /\ via # "subscription" /\ sent < total
    /\ via = "listener" /\ sent = 0 => ~ended
    /\ sent' = sent + 1 /\ writer' = Formatted(sent + 1)
    /\ UNCHANGED <<Source, forward, ended, pipe, left, got, saw>>

\* The context's end, or the channel's.
WriterStops ==
    /\ writer.step = "receive"
    /\ \/ ended
       \/ via = "subscription" /\ forward = Done
       \/ via # "subscription" /\ Closed
    /\ writer' = At("close", 0)
    /\ UNCHANGED <<Source, sent, forward, ended, pipe, left, got, saw>>

\* A write to the pipe lasts until the reader has read it, or has left.
Write ==
    /\ writer.step = "write" /\ ~left
    /\ got' = Append(got, writer.event)
    /\ writer' = At("receive", 0)
    /\ UNCHANGED <<Source, sent, forward, ended, pipe, left, saw>>

WriteFails ==
    /\ writer.step = "write" /\ left
    /\ writer' = At(IF via = "listener" THEN "close" ELSE "failed", writer.event)
    /\ UNCHANGED <<Source, sent, forward, ended, pipe, left, got, saw>>

\* Mutant: the goroutine ends, and its deferred call closes the pipe.
CloseQuietly ==
    /\ writer.step = "failed"
    /\ writer' = At("close", 0)
    /\ UNCHANGED <<Source, sent, forward, ended, pipe, left, got, saw>>

CloseWithError ==
    /\ writer.step = "failed"
    /\ pipe' = "error" /\ writer' = At("close", 0)
    /\ UNCHANGED <<Source, sent, forward, ended, left, got, saw>>

\* The deferred call: a pipe that is closed stays as it is.
Close ==
    /\ writer.step = "close"
    /\ pipe' = IF pipe = "open" THEN "end" ELSE pipe
    /\ writer' = Done
    /\ UNCHANGED <<Source, sent, forward, ended, left, got, saw>>

-----------------------------------------------------------------------------
(* Who reads the body.                                                      *)

See ==
    /\ saw = "data" /\ ~left /\ pipe # "open"
    /\ saw' = pipe
    /\ UNCHANGED <<Source, sent, forward, writer, ended, pipe, left, got>>

Leave ==
    /\ saw = "data" /\ ~left /\ left' = TRUE
    /\ UNCHANGED <<Source, sent, forward, writer, ended, pipe, got, saw>>

Forward == ForwardReceive \/ ForwardStops
Pump == TakeOffer \/ TakeEvent \/ WriterStops \/ Write \/ WriteFails \/ CloseWithError \/ Close

Next == ContextEnds \/ Forward \/ Pump \/ See \/ Leave

Spec == Init /\ [][Next]_vars

-----------------------------------------------------------------------------
\* The reader gets the events in order; the body ends well only after all of
\* them or with the request, and with an error only at the one that cannot be
\* formatted, which cuts a response that would look whole otherwise.
BodyWhole ==
    /\ got = [i \in 1 .. Len(got) |-> i]
    /\ saw = "end" => ended \/ (~endless /\ Len(got) = total)
    /\ saw = "error" => Len(got) + 1 = bad

\* With a reader who reads on or leaves: both goroutines end after the context
\* has, whatever they were waiting for, and a source that ends brings the body
\* to its end.
GoroutinesEnd ==
    /\ ended ~> (forward = Done /\ writer = Done)
    /\ Closed ~> (saw # "data" \/ left)
=============================================================================

------------------------------ MODULE ToolCalls ------------------------------
(***************************************************************************)
(* One call of a tool: the lifecycle wrapper around its handler              *)
(* (runtime/mcp/lifecycle.go) and what the server, which calls it for a      *)
(* buffered response, a stream or a task, tells the client of its end.       *)
(*                                                                         *)
(* A panic unwinds through the wrapper's deferred functions.  Those cancel    *)
(* the handler's context first and then call the finish hook.               *)
(***************************************************************************)

EXTENDS Sequences

CONSTANT None

VARIABLES call,      \* how the tool is registered and called
          step,      \* where the call is
          server,    \* the context that the server calls with
          inner,     \* the context that the handler runs with
          result, err,           \* what the call returns
          outcome, code, marked, \* what the finish hook is going to be told
          finishes,  \* what the finish hook was told, in order
          answer,    \* what the client was told
          late       \* history: the handler ended after its deadline

vars == <<call, step, server, inner, result, err, outcome, code, marked, finishes, answer, late>>

Modes == {"buffered", "streaming", "task"}
\* "input" asks for more input, which only the newest protocol version knows.
Results == {"nil", "ok", "isError", "input"}
\* The errors a handler returns; the wrapper and the registry have more.
HandlerErrors == {"raw", "deadline", "canceled"}
Ends == {"live", "deadline", "canceled"}
Codes == {"none", "InvalidRequest", "InvalidParams", "InternalError", "ServerError"}
Outcomes == {"success", "invalid_params", "handled_error", "timeout", "panic",
             "unhandled_error", "context_canceled"}
Texts == {"none", "timedOut", "canceled", "invalid", "internal", "unsupported", "raw"}

TypeOK ==
    /\ call \in [mode : Modes, wrapped : BOOLEAN, newest : BOOLEAN,
                 timeout : BOOLEAN, handles : BOOLEAN]
    /\ step \in {"lookup", "start", "bind", "run", "classify", "handle", "recover", "finish", "called",
                 "thrown", "told"}
    /\ {server, inner} \subseteq Ends
    /\ result \in Results \cup {None}
    /\ err \in HandlerErrors \cup {"invalid", "internal", "notFound", None}
    /\ outcome \in Outcomes /\ code \in Codes /\ marked \in BOOLEAN
    /\ \A i \in DOMAIN finishes : finishes[i].outcome \in Outcomes
    /\ answer.code \in Codes /\ answer.text \in Texts
    /\ late \in BOOLEAN

Init ==
    /\ call \in [mode : Modes, wrapped : BOOLEAN, newest : BOOLEAN,
                 timeout : BOOLEAN, handles : BOOLEAN]
    /\ (call.timeout \/ call.handles) => call.wrapped
    /\ call.newest => call.mode = "buffered"
    /\ step = "lookup"
    /\ server = "live" /\ inner = "live"
    /\ result = None /\ err = None
    /\ outcome = "success" /\ code = "none" /\ marked = FALSE
    /\ finishes = <<>>
    /\ answer = [kind |-> "none", code |-> "none", text |-> "none", result |-> None]
    /\ late = FALSE

Telemetry == <<outcome, code, marked>>
Contexts == <<server, inner>>

-----------------------------------------------------------------------------
(* The contexts: the handler's derives from the server's.                   *)

\* The request is cancelled, or its own time ends, which streams and tasks
\* outlive.
ServerEnds(end) ==
    /\ server = "live" /\ step # "told" /\ end # "live"
    /\ end = "deadline" => call.mode = "buffered"
    /\ server' = end
    /\ inner' = IF inner = "live" THEN end ELSE inner
    /\ UNCHANGED <<call, step, result, err, Telemetry, finishes, answer, late>>

\* options.Timeout, which begins with the handler.
TimesOut ==
    /\ call.timeout /\ inner = "live" /\ step \in {"run", "classify", "handle"}
    /\ inner' = "deadline"
    /\ UNCHANGED <<call, step, server, result, err, Telemetry, finishes, answer, late>>

-----------------------------------------------------------------------------
(* runToolLifecycle                                                         *)

\* ToolRegistry.Call and CallStreaming.  A stream or a task is begun for a tool
\* that was found.
Lookup ==
    /\ step = "lookup"
    /\ \/ step' = (IF call.wrapped THEN "start" ELSE "run") /\ UNCHANGED err
       \/ call.mode = "buffered" /\ err' = "notFound" /\ step' = "called"
    /\ UNCHANGED <<call, Contexts, result, Telemetry, finishes, answer, late>>

Finish(r, e, o, c, m) ==
    /\ result' = r /\ err' = e
    /\ outcome' = o /\ code' = c /\ marked' = m
    /\ step' = "finish"

\* The start hook, whose panic is swallowed.
Start ==
    /\ step = "start" /\ step' = "bind"
    /\ UNCHANGED <<call, Contexts, result, err, Telemetry, finishes, answer, late>>

\* bindToolLifecycleArgs.
Bind ==
    /\ step = "bind"
    /\ \/ step' = "run" /\ UNCHANGED <<result, err, Telemetry>>
       \/ Finish(None, "invalid", "invalid_params", "InvalidParams", FALSE)
    /\ UNCHANGED <<call, Contexts, finishes, answer, late>>

\* A result that comes after the deadline is not given out.
HandlerReturns(r) ==
    /\ step = "run"
    /\ late' = (inner = "deadline")
    /\ IF ~call.wrapped THEN result' = r /\ step' = "called" /\ UNCHANGED <<err, Telemetry>>
       ELSE IF inner = "deadline"
         THEN Finish(None, "deadline", "timeout", "ServerError", FALSE)
         ELSE Finish(r, None, "success", "none", r = "isError")
    /\ UNCHANGED <<call, Contexts, finishes, answer>>

HandlerFails(e) ==
    /\ step = "run"
    /\ late' = (inner = "deadline")
    /\ err' = e /\ step' = IF call.wrapped THEN "classify" ELSE "called"
    /\ UNCHANGED <<call, Contexts, result, Telemetry, finishes, answer>>

\* Mutant: the error alone says whether the time was over.
ClassifyByError ==
    /\ step = "classify"
    /\ CASE err = "deadline" -> Finish(None, "deadline", "timeout", "ServerError", FALSE)
         [] err = "canceled" -> Finish(None, "canceled", "context_canceled", "ServerError", FALSE)
         [] OTHER -> step' = "handle" /\ UNCHANGED <<result, err, Telemetry>>
    /\ UNCHANGED <<call, Contexts, finishes, answer, late>>

\* handleToolLifecycleError: whatever the error, a deadline goes before a
\* cancellation, and both before the product's errors.
Classify ==
    /\ step = "classify"
    /\ CASE err = "deadline" \/ inner = "deadline" ->
              Finish(None, "deadline", "timeout", "ServerError", FALSE)
         [] ~(err = "deadline" \/ inner = "deadline")
               /\ (err = "canceled" \/ inner = "canceled") ->
              Finish(None, "canceled", "context_canceled", "ServerError", FALSE)
         [] OTHER -> step' = "handle" /\ UNCHANGED <<result, err, Telemetry>>
    /\ UNCHANGED <<call, Contexts, finishes, answer, late>>

\* HandleError makes a result of the product's error, isError if it gives none.
HandleError ==
    /\ step = "handle"
    /\ \/ /\ call.handles
          /\ \E r \in Results \ {"nil"} : Finish(r, None, "handled_error", "none", r = "isError")
       \/ Finish(None, "internal", "unhandled_error", "InternalError", FALSE)
    /\ UNCHANGED <<call, Contexts, finishes, answer, late>>

\* The arguments' validation, the handler or HandleError panics.
Panic ==
    /\ step \in {"bind", "run"} \/ (step = "handle" /\ call.handles)
    /\ step' = IF call.wrapped THEN "recover" ELSE "thrown"
    /\ UNCHANGED <<call, Contexts, result, err, Telemetry, finishes, answer, late>>

\* Mutant: the call ends with an error that the hook is not told of.
RecoverQuietly ==
    /\ step = "recover" /\ Finish(None, "internal", outcome, code, FALSE)
    /\ UNCHANGED <<call, Contexts, finishes, answer, late>>

Recover ==
    /\ step = "recover" /\ Finish(None, "internal", "panic", "InternalError", FALSE)
    /\ UNCHANGED <<call, Contexts, finishes, answer, late>>

\* The finish hook, whose panic is swallowed.
FinishHook ==
    /\ step = "finish" /\ step' = "called"
    /\ finishes' = Append(finishes, [outcome |-> outcome, code |-> code, marked |-> marked])
    /\ UNCHANGED <<call, Contexts, result, err, Telemetry, answer, late>>

-----------------------------------------------------------------------------
(* The server: handleToolsCall, runStreamingTool, runTaskTool                *)

Error(c, text) == [kind |-> "error", code |-> c, text |-> text, result |-> None]
Result(r) == [kind |-> "result", code |-> "none", text |-> "none", result |-> r]
\* A task that its cancellation has ended already: runTaskTool says nothing of
\* an error, and the store refuses anything else.
Left == [kind |-> "left", code |-> "none", text |-> "none", result |-> None]

\* Mutant: the wrapper's errors are told like those of any handler.
ToolCallErrorPlain ==
    IF server = "deadline" \/ err = "deadline" THEN Error("ServerError", "timedOut")
    ELSE Error("ServerError", err)

\* toolCallError, and runTaskTool's own choice.
ToolCallError ==
    CASE err \in {"invalid", "notFound"} -> Error("InvalidParams", "invalid")
      [] err = "internal" -> Error("InternalError", "internal")
      [] err \in HandlerErrors /\ (server = "deadline" \/ err = "deadline") ->
           Error("ServerError", "timedOut")
      [] OTHER -> Error("ServerError", err)

\* prepareToolResult, of a buffered response; the others give the result out as
\* it is.
Prepared ==
    CASE call.mode = "buffered" /\ result = "nil" -> Error("InternalError", "internal")
      [] call.mode = "buffered" /\ result = "input" /\ ~call.newest ->
           Error("InvalidRequest", "unsupported")
      [] OTHER -> Result(result)

Tell ==
    /\ step = "called" /\ step' = "told"
    /\ answer' = IF call.mode = "task" /\ server # "live" THEN Left
                 ELSE IF err = None THEN Prepared ELSE ToolCallError
    /\ UNCHANGED <<call, Contexts, result, err, Telemetry, finishes, late>>

\* A panic of a handler without the wrapper.
TellPanic ==
    /\ step = "thrown" /\ step' = "told"
    /\ answer' = IF call.mode = "task" /\ server # "live" THEN Left
                 ELSE Error("InternalError", "internal")
    /\ UNCHANGED <<call, Contexts, result, err, Telemetry, finishes, late>>

Next ==
    \/ \E end \in Ends : ServerEnds(end)
    \/ TimesOut
    \/ Lookup \/ Start \/ Bind
    \/ \E r \in Results : HandlerReturns(r)
    \/ \E e \in HandlerErrors : HandlerFails(e)
    \/ Classify \/ HandleError \/ Panic \/ Recover \/ FinishHook
    \/ Tell \/ TellPanic

Spec == Init /\ [][Next]_vars

-----------------------------------------------------------------------------
Finished == finishes[1]
\* The server refuses these results, after the call has ended well.
Refused == result = "nil" \/ (result = "input" /\ ~call.newest)

\* Whatever ends a call of a wrapped tool (its arguments, its handler, a panic,
\* its time, a cancellation), the finish hook is told once, before the client;
\* the client is told the same, or the server refuses the result; a task that
\* the client is told nothing of was cancelled; what came too late is
\* told as a timeout; and the client sees no error text of the product's.
ToolToldTrue ==
    step = "told" /\ call.wrapped /\ err # "notFound" =>
        /\ Len(finishes) = 1
        /\ answer.kind = "error" => answer.code = Finished.code \/ Refused
        /\ answer.kind = "result" =>
             /\ Finished.code = "none"
             /\ Finished.marked <=> (answer.result = "isError")
        /\ answer.kind = "left" => server # "live"
        /\ late => Finished.outcome = "timeout"
        /\ Finished.outcome = "timeout" => answer.text = "timedOut" \/ answer.kind = "left"
        /\ answer.text # "raw"
=============================================================================

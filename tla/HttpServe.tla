------------------------------ MODULE HttpServe ------------------------------
(***************************************************************************)
(* One request through the HTTP core (runtime/serve.go) or a WebSocket       *)
(* route (runtime/aws_websockets.go): normalisation, route, policy,          *)
(* authentication, then the app's middlewares, of which the framework's own  *)
(* are the rate limit (runtime/rate_limit_middleware.go) and the timeout     *)
(* (runtime/timeout_middleware.go), then the handler.  The timeout runs the   *)
(* rest of the chain in a goroutine and may answer before it: the goroutine   *)
(* goes on.  What the app supplies (hooks, limiter, handler) answers in any   *)
(* way it can, a panic included.                                            *)
(***************************************************************************)
EXTENDS Naturals, Sequences

Tiers == {"P0", "P1", "P2"}
Chains == {<<>>, <<"limit">>, <<"timeout">>, <<"limit", "timeout">>, <<"timeout", "limit">>}

\* What an app's error codes and a handler's results come to.
StatusForErrorCode == [bad_request |-> 400, unauthorized |-> 401, forbidden |-> 403,
                       not_found |-> 404, method_not_allowed |-> 405, timeout |-> 408,
                       conflict |-> 409, too_large |-> 413, rate_limited |-> 429,
                       overloaded |-> 503, internal |-> 500]
Codes == DOMAIN StatusForErrorCode
Results == {"ok", "nil", "large", "conflict", "panic"}

VARIABLES conf,     \* how the app is set up, and which transport the request uses
          main,     \* the goroutine that serves: its step, place in the chain, result
          work,     \* the timeout's goroutine, likewise
          channel,  \* the timeout's channel, of one result
          expired,  \* whether the timeout's context is done
          passed,   \* history: the gates the request passed, with what they said
          handler,  \* history: the handler's result, "none" or "running"
          answer,   \* the response: its status, and its error code or "none"
          record    \* the log record of the request, likewise

vars == <<conf, main, work, channel, expired, passed, handler, answer, record>>

Nothing == [status |-> 0, code |-> "none"]
Steps == {"accept", "policy", "authorize", "walk", "handler", "wait", "send",
          "finish", "idle"}

TypeOK ==
    /\ conf \in [tier : Tiers, transport : {"http", "websocket"}, chain : Chains,
                 failClosed : BOOLEAN, auth : {"none", "optional", "required"}]
    /\ main \in [step : Steps, at : 1 .. 3, result : Results \cup Codes \cup {"none", "preflight"}]
    /\ work \in [step : Steps, at : 1 .. 3, result : Results \cup Codes \cup {"none", "preflight"}]
    /\ channel \in {<<>>} \cup {<<r>> : r \in Results \cup Codes}
    /\ expired \in BOOLEAN
    /\ passed \subseteq {"policy", "principal", "anonymous", "admitted", "unlimited"}
    /\ handler \in Results \cup {"none", "running"}
    /\ answer \in [status : {0, 200, 204} \cup {StatusForErrorCode[c] : c \in Codes},
                   code : Codes \cup {"none"}]
    /\ record \in [status : {0, 200, 204} \cup {StatusForErrorCode[c] : c \in Codes},
                   code : Codes \cup {"none"}]

Init ==
    /\ conf \in [tier : Tiers, transport : {"http", "websocket"}, chain : Chains,
                 failClosed : BOOLEAN, auth : {"none", "optional", "required"}]
    /\ main = [step |-> "accept", at |-> 1, result |-> "none"]
    /\ work = [step |-> "idle", at |-> 1, result |-> "none"]
    /\ channel = <<>>
    /\ expired = FALSE
    /\ passed = {}
    /\ handler = "none"
    /\ answer = Nothing
    /\ record = Nothing

\* P1 and P2 requests are portable; P0 and WebSocket ones know no policy, no
\* authentication, no limits and no log record.
Portable == conf.transport = "http" /\ conf.tier # "P0"

-----------------------------------------------------------------------------
(* Before the handler.                                                      *)

Goes(step) == main' = [main EXCEPT !.step = step]
Refuses(code) == main' = [main EXCEPT !.step = "finish", !.result = code]

\* A preflight is answered before anything else; the body is decoded and measured,
\* and the route is looked up.
Accept ==
    /\ main.step = "accept"
    /\ \/ Portable /\ Refuses("preflight")
       \/ Refuses("bad_request")
       \/ Portable /\ Refuses("too_large")
       \/ Refuses("not_found")
       \/ conf.transport = "http" /\ Refuses("method_not_allowed")
       \/ Goes(IF Portable THEN "policy" ELSE "walk")
    /\ UNCHANGED <<conf, work, channel, expired, passed, handler, answer, record>>

\* applyPolicy: an app of tier P2 may have a policy, which answers, denies with a
\* code of its own, fails, or panics.
ApplyPolicy ==
    /\ main.step = "policy"
    /\ \/ Goes("authorize") /\ passed' = passed \cup {"policy"}
       \/ /\ conf.tier = "P2"
          /\ \E code \in {"rate_limited", "overloaded", "internal", "panic"} : Refuses(code)
          /\ UNCHANGED passed
    /\ UNCHANGED <<conf, work, channel, expired, handler, answer, record>>

\* Mutant: a route that requires a principal takes the lack of one for an option.
AuthorizeAnyone ==
    /\ main.step = "authorize"
    /\ \/ Goes("walk") /\ passed' = passed \cup {"anonymous"}
       \/ /\ conf.auth # "none"
          /\ \/ Goes("walk") /\ passed' = passed \cup {"principal"}
             \/ \E code \in {"forbidden", "unauthorized", "internal", "panic"} :
                   Refuses(code) /\ UNCHANGED passed
    /\ UNCHANGED <<conf, work, channel, expired, handler, answer, record>>

\* authorize: the hook finds a principal (with the scopes the route asks for, or
\* without), or none, fails, or panics.
Authorize ==
    /\ main.step = "authorize"
    /\ \/ /\ conf.auth # "required"
          /\ Goes("walk") /\ passed' = passed \cup {"anonymous"}
       \/ /\ conf.auth # "none"
          /\ \/ Goes("walk") /\ passed' = passed \cup {"principal"}
             \/ \E code \in {"unauthorized", "internal", "panic"} :
                   Refuses(code) /\ UNCHANGED passed
       \/ conf.auth = "required" /\ Refuses("forbidden") /\ UNCHANGED passed
    /\ UNCHANGED <<conf, work, channel, expired, handler, answer, record>>

-----------------------------------------------------------------------------
(* The chain, walked by the serving goroutine and, inside a timeout, by the  *)
(* timeout's.                                                               *)

\* The walker g, "main" or "work", becomes w.
Set(g, w) ==
    IF g = "main" THEN main' = w /\ UNCHANGED work
                  ELSE work' = w /\ UNCHANGED main
Walker(g) == IF g = "main" THEN main ELSE work

\* What the chain inside it returns to the walker's caller: the serving goroutine
\* recovers a panic when it answers, the timeout's goroutine at once.
Returned(g, result) ==
    [Walker(g) EXCEPT
       !.step   = IF g = "main" THEN "finish" ELSE "send",
       !.result = IF g = "work" /\ result = "panic" THEN "internal" ELSE result]
Onward(g) == [Walker(g) EXCEPT !.at = @ + 1]

AtMiddleware(g, name) ==
    /\ Walker(g).step = "walk"
    /\ Walker(g).at <= Len(conf.chain)
    /\ conf.chain[Walker(g).at] = name

\* Mutant: the answer is not waited for.
RateLimitNotAsked(g) ==
    /\ AtMiddleware(g, "limit")
    /\ \E said \in {"allowed", "denied", "error", "panic"} :
         \/ /\ Set(g, Onward(g))
            /\ passed' = passed \cup {IF said = "allowed" THEN "admitted" ELSE "unlimited"}
         \/ said = "panic" /\ Set(g, Returned(g, "panic")) /\ UNCHANGED passed
    /\ UNCHANGED <<conf, channel, expired, handler, answer, record>>

\* The limiter answers, or fails, which a request survives unless FailClosed.
RateLimit(g) ==
    /\ AtMiddleware(g, "limit")
    /\ \E said \in {"allowed", "denied", "error", "panic"} :
         CASE said = "allowed" ->
                Set(g, Onward(g)) /\ passed' = passed \cup {"admitted"}
           [] said = "error" /\ ~conf.failClosed ->
                Set(g, Onward(g)) /\ passed' = passed \cup {"unlimited"}
           [] said = "error" /\ conf.failClosed ->
                Set(g, Returned(g, "internal")) /\ UNCHANGED passed
           [] said = "denied" ->
                Set(g, Returned(g, "rate_limited")) /\ UNCHANGED passed
           [] OTHER -> Set(g, Returned(g, "panic")) /\ UNCHANGED passed
    /\ UNCHANGED <<conf, channel, expired, handler, answer, record>>

\* Some operations have no timeout; otherwise the rest of the chain runs in a
\* goroutine while the serving one waits.
Timeout ==
    /\ AtMiddleware("main", "timeout")
    /\ \/ main' = Onward("main") /\ UNCHANGED work
       \/ /\ main' = [main EXCEPT !.step = "wait"]
          /\ work' = [step |-> "walk", at |-> main.at + 1, result |-> "none"]
    /\ UNCHANGED <<conf, channel, expired, passed, handler, answer, record>>

StartHandler(g) ==
    /\ Walker(g).step = "walk"
    /\ Walker(g).at > Len(conf.chain)
    /\ Set(g, [Walker(g) EXCEPT !.step = "handler"])
    /\ handler' = "running"
    /\ UNCHANGED <<conf, channel, expired, passed, answer, record>>

EndHandler(g) ==
    /\ Walker(g).step = "handler"
    /\ \E result \in Results :
         Set(g, Returned(g, result)) /\ handler' = result
    /\ UNCHANGED <<conf, channel, expired, passed, answer, record>>

\* Mutant: a channel without a buffer.
RoomIfReceived == main.step = "wait" /\ channel = <<>>

\* make(chan timeoutResult, 1)
Room == channel = <<>>

\* ch <- result
Send ==
    /\ work.step = "send"
    /\ Room
    /\ channel' = <<work.result>>
    /\ work' = [work EXCEPT !.step = "idle"]
    /\ UNCHANGED <<conf, main, expired, passed, handler, answer, record>>

\* The time is up, or the caller gave up.
Expire ==
    /\ main.step = "wait"
    /\ ~expired
    /\ expired' = TRUE
    /\ UNCHANGED <<conf, main, work, channel, passed, handler, answer, record>>

\* The select: when both are ready, either is taken.
Receive ==
    /\ main.step = "wait"
    /\ \/ /\ channel # <<>>
          /\ main' = [main EXCEPT !.step = "finish", !.result = Head(channel)]
          /\ channel' = <<>>
       \/ /\ expired
          /\ main' = [main EXCEPT !.step = "finish", !.result = "timeout"]
          /\ UNCHANGED channel
    /\ UNCHANGED <<conf, work, expired, passed, handler, answer, record>>

-----------------------------------------------------------------------------
(* The answer.                                                              *)

\* The code an answer is given for what the serving goroutine was left with: a
\* panic or a nil response is an internal error, and so is a response larger than
\* a portable request's limit too large.
CodeFor(result) ==
    CASE result \in {"ok", "preflight"}  -> "none"
      [] result = "large" -> IF Portable THEN "too_large" ELSE "none"
      [] result \in {"nil", "panic"} -> "internal"
      [] OTHER -> result

\* Mutant: the code of a recovered panic is not recorded.
FinishUnrecorded ==
    /\ main.step = "finish"
    /\ LET code == CodeFor(main.result)
           status == IF main.result = "preflight" THEN 204
                     ELSE IF code = "none" THEN 200 ELSE StatusForErrorCode[code]
       IN  /\ answer' = [status |-> status, code |-> code]
           /\ record' = IF Portable /\ conf.tier = "P2"
                          THEN [status |-> status,
                                code |-> IF main.result = "panic" THEN "none" ELSE code]
                          ELSE Nothing
    /\ Goes("idle")
    /\ UNCHANGED <<conf, work, channel, expired, passed, handler>>

\* servePortable's deferred function and what it defers to; tier P2 is logged.
Finish ==
    /\ main.step = "finish"
    /\ LET code == CodeFor(main.result)
           status == IF main.result = "preflight" THEN 204
                     ELSE IF code = "none" THEN 200 ELSE StatusForErrorCode[code]
       IN  /\ answer' = [status |-> status, code |-> code]
           /\ record' = IF Portable /\ conf.tier = "P2"
                          THEN [status |-> status, code |-> code] ELSE Nothing
    /\ Goes("idle")
    /\ UNCHANGED <<conf, work, channel, expired, passed, handler>>

WorkStep == RateLimit("work") \/ StartHandler("work") \/ EndHandler("work") \/ Send
Next ==
    \/ Accept \/ ApplyPolicy \/ Authorize
    \/ RateLimit("main") \/ Timeout \/ StartHandler("main") \/ EndHandler("main")
    \/ WorkStep
    \/ Expire \/ Receive \/ Finish

Spec == Init /\ [][Next]_vars

-----------------------------------------------------------------------------
(* Properties.                                                              *)

\* A handler runs only for a request that passed every gate in front of it.
HandlerGated ==
    handler # "none" =>
      /\ Portable => "policy" \in passed
      /\ Portable /\ conf.auth = "required" => "principal" \in passed
      /\ "limit" \in {conf.chain[i] : i \in DOMAIN conf.chain} =>
            "admitted" \in passed \/ ("unlimited" \in passed /\ ~conf.failClosed)

\* The answer is what became of the handler: a success is its own, a refusal means
\* that it did not run, and only after a timeout may it still be running.  The log
\* record tells of the same.
AnswerTrue ==
    answer # Nothing =>
      /\ answer.status = 200 => handler \in {"ok", "large"}
      /\ handler = "running" => answer.code = "timeout"
      /\ answer.code \in {"unauthorized", "forbidden", "not_found", "rate_limited",
                          "overloaded", "method_not_allowed"} => handler = "none"
      /\ answer.code = "conflict" => handler = "conflict"
      /\ record \in {Nothing, answer}

\* An abandoned handler's goroutine ends: its result has a place to go.
NeverStuck == work.step = "send" => Room

RequestServed == HandlerGated /\ AnswerTrue /\ NeverStuck
=============================================================================

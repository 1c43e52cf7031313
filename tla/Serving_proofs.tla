--------------------------- MODULE Serving_proofs ---------------------------
(***************************************************************************)
(* Proofs about the parts of MCServices that handle one request or event:   *)
(* the batches of event sources, the HTTP core, the limit on a streamed       *)
(* response, the lifecycle hooks of a MicroVM, the routes and the binding of   *)
(* requests.  With those of Services_proofs they give the types of them all.  *)
(* They are for any values of the modules' constants.                        *)
(***************************************************************************)
EXTENDS Services_proofs

-----------------------------------------------------------------------------
(* The batches of event sources.                                            *)

BatchTypes ==
    /\ pending \subseteq Records /\ delivered \subseteq Records
    /\ failures \subseteq delivered /\ batch \subseteq delivered
    /\ step \in {"idle", "running", "error"}
    /\ handled \in [Records -> Nat]
    /\ source \in Batches!Sources /\ routed \in BOOLEAN

\* What a handler was registered for was looked at, or is still to be; without one
\* the answer names all of a batch, and SNS's entry point returns an error.
LookedAt ==
    step = "running" =>
      IF routed THEN \A r \in delivered : r \in batch \cup failures \/ handled[r] > 0
                ELSE IF source \in Batches!Batches THEN failures = delivered
                                                   ELSE source = "eventbridge"

\* SQS has deleted what was handled in an invocation that answered.
AnsweredGone == source = "sqs" => answered \cap pending = {} /\ repeated = {}

BatchInv == BatchTypes /\ LookedAt /\ AnsweredGone /\ Batches!NothingLost

\* The records of a source have numbers.
BatchConstants == Records \subseteq Nat

LEMMA BatchInitInv == Batches!Init => BatchInv
  BY DEF Batches!Init, BatchInv, BatchTypes, LookedAt, AnsweredGone, Batches!NothingLost

LEMMA InvokeKeeps ==
  ASSUME BatchInv, NEW records \in SUBSET Records, Batches!Invoke(records)
  PROVE  BatchInv'
<1>1. records \subseteq pending
  BY DEF Batches!Invoke, Batches!Deliverable
<1>2. BatchTypes'
  BY DEF Batches!Invoke, BatchInv, BatchTypes
<1>3. LookedAt'
  BY DEF Batches!Invoke, BatchInv, BatchTypes, LookedAt, Batches!Sources, Batches!Batches
<1>4. AnsweredGone'
  BY <1>1 DEF Batches!Invoke, BatchInv, AnsweredGone
<1>5. Batches!NothingLost'
  BY DEF Batches!Invoke, BatchInv, Batches!NothingLost
<1> QED BY <1>2, <1>3, <1>4, <1>5 DEF BatchInv

LEMMA HandleKeeps ==
  ASSUME BatchInv, NEW r \in Records, Batches!Handle(r)
  PROVE  BatchInv'
<1>1. handled' \in [Records -> Nat] /\ \A q \in Records : handled'[q] >= handled[q]
  BY DEF Batches!Handle, BatchInv, BatchTypes
<1>2. handled'[r] > 0
  BY DEF Batches!Handle, BatchInv, BatchTypes
<1>3. BatchTypes'
  BY <1>1 DEF Batches!Handle, BatchInv, BatchTypes
<1>4. LookedAt'
  <2>1. batch' = batch \ {r} /\ UNCHANGED <<delivered, failures, source, routed, step>>
    BY DEF Batches!Handle
  <2>2. CASE routed
    <3>1. ASSUME NEW q \in delivered, step = "running"
          PROVE  q \in batch' \cup failures \/ handled'[q] > 0
      <4>1. q \in batch \cup failures \/ handled[q] > 0
        BY <2>2, <3>1 DEF BatchInv, LookedAt
      <4>2. q \in Records /\ handled'[q] >= handled[q]
        BY <1>1 DEF BatchInv, BatchTypes
      <4>3. handled[q] \in Nat /\ handled'[q] \in Nat
        BY <1>1, <4>2 DEF BatchInv, BatchTypes
      <4> QED BY <1>2, <2>1, <4>1, <4>2, <4>3
    <3> QED BY <2>1, <2>2, <3>1 DEF LookedAt
  <2>3. CASE ~routed
    BY <2>1, <2>3 DEF BatchInv, LookedAt
  <2> QED BY <2>2, <2>3 DEF BatchInv, BatchTypes
<1>5. AnsweredGone'
  BY DEF Batches!Handle, BatchInv, AnsweredGone
<1>6. Batches!NothingLost'
  BY <1>1 DEF Batches!Handle, BatchInv, BatchTypes, Batches!NothingLost
<1> QED BY <1>3, <1>4, <1>5, <1>6 DEF BatchInv

LEMMA HandlerFailsKeeps ==
  ASSUME BatchInv, NEW r \in Records, Batches!HandlerFails(r)
  PROVE  BatchInv'
<1>1. r \in batch
  BY DEF Batches!HandlerFails, Batches!IsNext
<1>2. BatchTypes'
  BY <1>1 DEF Batches!HandlerFails, BatchInv, BatchTypes
<1>3. LookedAt'
  BY <1>1 DEF Batches!HandlerFails, BatchInv, BatchTypes, LookedAt
<1>4. AnsweredGone' /\ Batches!NothingLost'
  BY DEF Batches!HandlerFails, BatchInv, AnsweredGone, Batches!NothingLost
<1> QED BY <1>2, <1>3, <1>4 DEF BatchInv

\* What the source forgets after an answer is not among the failures.
LEMMA AcknowledgedHandled ==
  ASSUME BatchConstants, BatchTypes
  PROVE  Batches!Acknowledged \subseteq delivered \ failures
<1>1. ASSUME NEW r \in delivered, \A failed \in failures : r < failed
      PROVE  r \notin failures
  <2>1. r \in Nat
    BY DEF BatchTypes, BatchConstants
  <2>2. ~(r < r)
    BY <2>1
  <2> QED BY <1>1, <2>2
<1> QED BY <1>1 DEF Batches!Acknowledged

LEMMA AnswerKeeps ==
  ASSUME BatchConstants, BatchInv, Batches!Answer
  PROVE  BatchInv'
<1>1. Batches!Acknowledged \subseteq delivered \ failures
  BY AcknowledgedHandled DEF BatchInv
<1>2. BatchTypes' /\ LookedAt'
  BY DEF Batches!Answer, Batches!Ended, BatchInv, BatchTypes, LookedAt
<1>3. AnsweredGone'
  <2>1. source = "sqs" => Batches!Acknowledged = delivered \ failures
    BY DEF Batches!Acknowledged, Batches!Streams
  <2> QED BY <2>1 DEF Batches!Answer, BatchInv, AnsweredGone
<1>4. ASSUME NEW r \in delivered \ failures
      PROVE  handled[r] > 0 \/ (source = "eventbridge" /\ ~routed)
  BY <1>4 DEF Batches!Answer, BatchInv, BatchTypes, LookedAt
<1>5. Batches!NothingLost'
  BY <1>1, <1>4 DEF Batches!Answer, BatchInv, Batches!NothingLost
<1> QED BY <1>2, <1>3, <1>5 DEF BatchInv

LEMMA BatchStep ==
  ASSUME BatchConstants, BatchInv, [Batches!Next]_batchVars
  PROVE  BatchInv'
<1>1. ASSUME Batches!Die PROVE BatchInv'
  BY <1>1 DEF Batches!Die, Batches!Ended, BatchInv, BatchTypes, LookedAt, AnsweredGone,
              Batches!NothingLost
<1>2. ASSUME UNCHANGED batchVars PROVE BatchInv'
  BY <1>2 DEF batchVars, BatchInv, BatchTypes, LookedAt, AnsweredGone, Batches!NothingLost
<1> QED
  BY <1>1, <1>2, InvokeKeeps, HandleKeeps, HandlerFailsKeeps, AnswerKeeps DEF Batches!Next

LEMMA BatchInvSafe == BatchInv => Batches!BatchesSafe
  BY DEF BatchInv, AnsweredGone, Batches!BatchesSafe, Batches!HandledNotRepeated

LEMMA BatchAlways ==
  ASSUME BatchConstants
  PROVE  (Batches!Spec => []BatchInv) /\ (ServicesSpec => []BatchInv)
<1>1. BatchInv /\ [Batches!Next]_(Batches!vars) => BatchInv'
  BY BatchStep DEF Batches!vars, batchVars
<1>2. BatchInv /\ [ServicesNext]_allVars => BatchInv'
  BY BatchStep DEF ServicesNext, allVars, batchVars
<1>3. ServicesInit => BatchInv
  BY BatchInitInv DEF ServicesInit
<1>4. Batches!Spec => []BatchInv
  BY <1>1, BatchInitInv, PTL DEF Batches!Spec
<1>5. ServicesSpec => []BatchInv
  BY <1>2, <1>3, PTL DEF ServicesSpec
<1> QED BY <1>4, <1>5

-----------------------------------------------------------------------------
(* The HTTP core.                                                           *)

Walkers == [step : Http!Steps, at : 1 .. 3,
            result : Http!Results \cup Http!Codes \cup {"none", "preflight"}]

HttpTypes ==
    /\ conf.tier \in Http!Tiers /\ conf.chain \in Http!Chains
    /\ main \in Walkers /\ work \in Walkers

\* The gates in front of place n of the chain.
PassedUpTo(n) ==
    /\ Http!Portable => "policy" \in passed
    /\ Http!Portable /\ conf.auth = "required" => "principal" \in passed
    /\ \A i \in DOMAIN conf.chain : i < n /\ conf.chain[i] = "limit" =>
          "admitted" \in passed \/ ("unlimited" \in passed /\ ~conf.failClosed)

\* What a goroutine that walks the chain can be left with.
Outcomes == (Http!Results \cup Http!Codes) \ {"timeout"}

\* What a walker was left with, and what became of the handler.
Fits(outcome) ==
    IF outcome \in {"ok", "nil", "large", "conflict"} THEN handler = outcome
    ELSE IF outcome \in {"panic", "internal"} THEN handler \in {"panic", "none"}
    ELSE handler = "none"

\* Where the serving goroutine is, where the timeout's is.
Places ==
    /\ main.step \in {"accept", "policy", "authorize", "walk", "handler"} =>
         work.step = "idle" /\ channel = <<>>
    /\ main.step \in {"accept", "policy", "authorize", "walk"} => handler = "none"
    /\ main.step \in {"accept", "policy", "authorize"} => main.at = 1
    /\ main.step \in {"finish", "idle"} <=> main.result # "none"
    /\ main.step # "send"
    /\ main.step = "authorize" /\ Http!Portable => "policy" \in passed
    /\ main.step \in {"walk", "handler", "wait"} => PassedUpTo(main.at)
    /\ main.step = "handler" => handler = "running"
    /\ work.step \in {"idle", "walk", "handler", "send"}
    /\ work.step # "idle" =>
         /\ channel = <<>>
         /\ main.step = "wait" \/ (main.step \in {"finish", "idle"} /\ main.result = "timeout")
    /\ work.step = "walk" => handler = "none" /\ PassedUpTo(work.at)
    /\ work.step = "handler" => handler = "running"
    /\ work.step = "send" => work.result \in Outcomes /\ Fits(work.result)
    /\ channel # <<>> => \E r \in Outcomes : channel = <<r>> /\ Fits(r)
    /\ main.step \in {"finish", "idle"} /\ main.result # "timeout" => Fits(main.result)

Answered ==
    answer # Http!Nothing =>
      /\ main.step = "idle"
      /\ answer.code = Http!CodeFor(main.result)
      /\ answer.status = 200 => main.result \in {"ok", "large"}
      /\ record \in {Http!Nothing, answer}

HttpInv == HttpTypes /\ Places /\ Answered /\ Http!HandlerGated

LEMMA HttpInitInv ==
  ASSUME Http!Init
  PROVE  HttpInv
<1>1. HttpTypes
  BY DEF Http!Init, HttpTypes, Walkers, Http!Steps, Http!Results
<1>2. Places
  BY DEF Http!Init, Places
<1>3. Answered /\ Http!HandlerGated
  BY DEF Http!Init, Answered, Http!HandlerGated, Http!Nothing
<1> QED BY <1>1, <1>2, <1>3 DEF HttpInv

LEMMA CodesAre ==
  Http!Codes = {"bad_request", "unauthorized", "forbidden", "not_found", "method_not_allowed",
                "timeout", "conflict", "too_large", "rate_limited", "overloaded", "internal"}
  BY Zenon DEF Http!Codes, Http!StatusForErrorCode

\* A chain has at most two middlewares, in the places 1 and 2.
LEMMA ChainPlaces ==
  ASSUME HttpTypes
  PROVE  /\ Len(conf.chain) \in 0 .. 2
         /\ DOMAIN conf.chain = 1 .. Len(conf.chain)
<1>1. conf.chain \in Http!Chains
  BY DEF HttpTypes
<1>2. ASSUME NEW a, NEW b
      PROVE  /\ Len(<<>>) = 0 /\ DOMAIN <<>> = 1 .. 0
             /\ Len(<<a>>) = 1 /\ DOMAIN <<a>> = 1 .. 1
             /\ Len(<<a, b>>) = 2 /\ DOMAIN <<a, b>> = 1 .. 2
  OBVIOUS
<1>3. /\ Len(<<"limit">>) = 1 /\ DOMAIN <<"limit">> = 1 .. 1
      /\ Len(<<"timeout">>) = 1 /\ DOMAIN <<"timeout">> = 1 .. 1
      /\ Len(<<"limit", "timeout">>) = 2 /\ DOMAIN <<"limit", "timeout">> = 1 .. 2
      /\ Len(<<"timeout", "limit">>) = 2 /\ DOMAIN <<"timeout", "limit">> = 1 .. 2
      /\ Len(<<>>) = 0 /\ DOMAIN <<>> = 1 .. 0
  BY <1>2
<1> QED BY <1>1, <1>3 DEF Http!Chains

LEMMA PlaceInChain ==
  ASSUME HttpTypes, NEW n \in 1 .. 3, n <= Len(conf.chain)
  PROVE  n \in 1 .. 2
<1>1. PICK len \in 0 .. 2 : len = Len(conf.chain)
  BY ChainPlaces
<1>2. n <= len
  BY <1>1
<1> QED BY <1>2

\* The request is refused, or goes on, in front of the chain.
LEMMA FrontKeeps ==
  ASSUME HttpInv, main.step \in {"accept", "policy", "authorize"},
         main' \in Walkers,
         main'.step \in {"finish", "policy", "authorize", "walk"},
         main'.step = "finish" <=> main'.result # "none",
         main'.result \in (Http!Codes \cup {"none", "preflight", "panic"})
                             \ {"timeout", "conflict"},
         main'.at = main.at,
         passed \subseteq passed',
         main'.step = "authorize" /\ Http!Portable => "policy" \in passed',
         main'.step = "walk" /\ Http!Portable =>
           "policy" \in passed' /\ (conf.auth = "required" => "principal" \in passed'),
         UNCHANGED <<conf, work, channel, expired, handler, answer, record>>
  PROVE  HttpInv'
<1>1. HttpTypes'
  BY DEF HttpInv, HttpTypes
<1>2. /\ handler = "none" /\ work.step = "idle" /\ channel = <<>>
      /\ answer = Http!Nothing /\ main.at = 1
  BY DEF HttpInv, Places, Answered
<1>3. Fits(main.result)'
  BY <1>2, CodesAre DEF Fits
<1>4. main'.step = "walk" => PassedUpTo(main.at)'
  BY <1>2, ChainPlaces DEF HttpInv, PassedUpTo, Http!Portable
<1>5. Places'
  BY <1>2, <1>3, <1>4 DEF HttpInv, Places, Http!Portable
<1>6. Answered' /\ Http!HandlerGated'
  BY <1>2 DEF Answered, Http!HandlerGated, Http!Nothing
<1> QED BY <1>1, <1>5, <1>6 DEF HttpInv

\* What a refusal, and going on, make of the serving goroutine.
LEMMA MainMoves ==
  ASSUME HttpInv
  PROVE  /\ \A to \in Http!Steps : Http!Goes(to) =>
              main' \in Walkers /\ main'.step = to /\ main'.at = main.at
              /\ main'.result = main.result
         /\ \A code \in Http!Results \cup Http!Codes \cup {"none", "preflight"} :
              Http!Refuses(code) =>
                main' \in Walkers /\ main'.step = "finish" /\ main'.at = main.at
                /\ main'.result = code
<1>1. main \in Walkers /\ main.result \in Http!Results \cup Http!Codes \cup {"none", "preflight"}
  BY DEF HttpInv, HttpTypes, Walkers
<1>2. "finish" \in Http!Steps
  BY DEF Http!Steps
<1>3. ASSUME NEW to \in Http!Steps, Http!Goes(to)
      PROVE  main' \in Walkers /\ main'.step = to /\ main'.at = main.at
             /\ main'.result = main.result
  BY <1>1, <1>3 DEF Walkers, Http!Goes
<1>4. ASSUME NEW code \in Http!Results \cup Http!Codes \cup {"none", "preflight"},
             Http!Refuses(code)
      PROVE  main' \in Walkers /\ main'.step = "finish" /\ main'.at = main.at
             /\ main'.result = code
  BY <1>1, <1>2, <1>4 DEF Walkers, Http!Refuses
<1> QED BY <1>3, <1>4

LEMMA AcceptKeeps ==
  ASSUME HttpInv, Http!Accept
  PROVE  HttpInv'
<1>1. /\ main.step = "accept" /\ main.result = "none"
      /\ UNCHANGED <<conf, work, channel, expired, passed, handler, answer, record>>
  BY DEF Http!Accept, HttpInv, Places
<1>2. ASSUME NEW r \in {"preflight", "bad_request", "too_large", "not_found",
                        "method_not_allowed"},
             Http!Refuses(r)
      PROVE  HttpInv'
  <2>1. r \in (Http!Codes \cup {"none", "preflight", "panic"}) \ {"timeout", "conflict"}
    BY CodesAre
  <2>2. /\ main' \in Walkers /\ main'.step = "finish" /\ main'.at = main.at
        /\ main'.result = r
    BY <1>2, <2>1, MainMoves
  <2> QED BY <1>1, <2>1, <2>2, FrontKeeps
<1>3. CASE Http!Portable /\ Http!Goes("policy")
  <2>1. /\ main' \in Walkers /\ main'.step = "policy" /\ main'.at = main.at
        /\ main'.result = "none"
    BY <1>1, <1>3, MainMoves DEF Http!Steps
  <2> QED BY <1>1, <2>1, FrontKeeps
<1>4. CASE ~Http!Portable /\ Http!Goes("walk")
  <2>1. /\ main' \in Walkers /\ main'.step = "walk" /\ main'.at = main.at
        /\ main'.result = "none"
    BY <1>1, <1>4, MainMoves DEF Http!Steps
  <2> QED BY <1>1, <1>4, <2>1, FrontKeeps
<1> QED BY <1>2, <1>3, <1>4 DEF Http!Accept

LEMMA ApplyPolicyKeeps ==
  ASSUME HttpInv, Http!ApplyPolicy
  PROVE  HttpInv'
<1>1. /\ main.step = "policy" /\ main.result = "none"
      /\ UNCHANGED <<conf, work, channel, expired, handler, answer, record>>
  BY DEF Http!ApplyPolicy, HttpInv, Places
<1>2. CASE Http!Goes("authorize") /\ passed' = passed \cup {"policy"}
  <2>1. /\ main' \in Walkers /\ main'.step = "authorize" /\ main'.at = main.at
        /\ main'.result = "none"
    BY <1>1, <1>2, MainMoves DEF Http!Steps
  <2> QED BY <1>1, <1>2, <2>1, FrontKeeps
<1>3. ASSUME NEW r \in {"rate_limited", "overloaded", "internal", "panic"},
             Http!Refuses(r), passed' = passed
      PROVE  HttpInv'
  <2>1. /\ r \in (Http!Codes \cup {"none", "preflight", "panic"}) \ {"timeout", "conflict"}
        /\ r \in Http!Results \cup Http!Codes
    BY CodesAre DEF Http!Results
  <2>2. /\ main' \in Walkers /\ main'.step = "finish" /\ main'.at = main.at
        /\ main'.result = r
    BY <1>3, <2>1, MainMoves
  <2> QED BY <1>1, <1>3, <2>1, <2>2, FrontKeeps
<1> QED BY <1>2, <1>3 DEF Http!ApplyPolicy

LEMMA AuthorizeKeeps ==
  ASSUME HttpInv, Http!Authorize
  PROVE  HttpInv'
<1>1. /\ main.step = "authorize" /\ main.result = "none"
      /\ Http!Portable => "policy" \in passed
      /\ UNCHANGED <<conf, work, channel, expired, handler, answer, record>>
  BY DEF Http!Authorize, HttpInv, Places
<1>2. ASSUME NEW p, Http!Goes("walk"), passed' = passed \cup {p},
             conf.auth = "required" => p = "principal"
      PROVE  HttpInv'
  <2>1. /\ main' \in Walkers /\ main'.step = "walk" /\ main'.at = main.at
        /\ main'.result = "none"
    BY <1>1, <1>2, MainMoves DEF Http!Steps
  <2> QED BY <1>1, <1>2, <2>1, FrontKeeps
<1>3. ASSUME NEW r \in {"forbidden", "unauthorized", "internal", "panic"},
             Http!Refuses(r), passed' = passed
      PROVE  HttpInv'
  <2>1. /\ r \in (Http!Codes \cup {"none", "preflight", "panic"}) \ {"timeout", "conflict"}
        /\ r \in Http!Results \cup Http!Codes
    BY CodesAre DEF Http!Results
  <2>2. /\ main' \in Walkers /\ main'.step = "finish" /\ main'.at = main.at
        /\ main'.result = r
    BY <1>3, <2>1, MainMoves
  <2> QED BY <1>1, <1>3, <2>1, <2>2, FrontKeeps
<1> QED BY <1>2, <1>3 DEF Http!Authorize

\* What a walker's way through the chain makes of its goroutine: it comes back from
\* the chain with a result, goes on to the next place, or comes to the handler.
LEMMA MainReturned ==
  ASSUME HttpInv, NEW r \in Http!Results \cup Http!Codes,
         Http!Set("main", Http!Returned("main", r))
  PROVE  /\ main' \in Walkers /\ main'.step = "finish" /\ main'.at = main.at
         /\ main'.result = r /\ work' = work
  BY DEF HttpInv, HttpTypes, Walkers, Http!Steps, Http!Set, Http!Returned, Http!Walker

LEMMA MainOnward ==
  ASSUME HttpInv, main.at \in 1 .. 2, Http!Set("main", Http!Onward("main"))
  PROVE  /\ main' \in Walkers /\ main'.step = main.step /\ main'.at = main.at + 1
         /\ main'.result = main.result /\ work' = work
  BY DEF HttpInv, HttpTypes, Walkers, Http!Set, Http!Onward, Http!Walker

LEMMA MainHandles ==
  ASSUME HttpInv, Http!Set("main", [Http!Walker("main") EXCEPT !.step = "handler"])
  PROVE  /\ main' \in Walkers /\ main'.step = "handler" /\ main'.at = main.at
         /\ main'.result = main.result /\ work' = work
  BY DEF HttpInv, HttpTypes, Walkers, Http!Steps, Http!Set, Http!Walker

LEMMA WorkReturned ==
  ASSUME HttpInv, NEW r \in Http!Results \cup Http!Codes,
         Http!Set("work", Http!Returned("work", r))
  PROVE  /\ work' \in Walkers /\ work'.step = "send" /\ work'.at = work.at
         /\ work'.result = IF r = "panic" THEN "internal" ELSE r
         /\ main' = main
  BY CodesAre DEF HttpInv, HttpTypes, Walkers, Http!Steps, Http!Set, Http!Returned, Http!Walker

LEMMA WorkOnward ==
  ASSUME HttpInv, work.at \in 1 .. 2, Http!Set("work", Http!Onward("work"))
  PROVE  /\ work' \in Walkers /\ work'.step = work.step /\ work'.at = work.at + 1
         /\ main' = main
  BY DEF HttpInv, HttpTypes, Walkers, Http!Set, Http!Onward, Http!Walker

LEMMA WorkHandles ==
  ASSUME HttpInv, Http!Set("work", [Http!Walker("work") EXCEPT !.step = "handler"])
  PROVE  /\ work' \in Walkers /\ work'.step = "handler" /\ work'.at = work.at
         /\ main' = main
  BY DEF HttpInv, HttpTypes, Walkers, Http!Steps, Http!Set, Http!Walker

\* The gates up to the next place of the chain were passed when the one here was.
LEMMA NextPlacePassed ==
  ASSUME HttpInv, NEW n \in 1 .. 3, n <= Len(conf.chain), PassedUpTo(n),
         conf' = conf, passed \subseteq passed',
         conf.chain[n] = "limit" =>
           "admitted" \in passed' \/ ("unlimited" \in passed' /\ ~conf.failClosed)
  PROVE  PassedUpTo(n + 1)'
<1>1. DOMAIN conf.chain \subseteq Nat
  BY ChainPlaces DEF HttpInv
<1>2. ASSUME NEW i \in DOMAIN conf.chain, i < n + 1, conf.chain[i] = "limit"
      PROVE  "admitted" \in passed' \/ ("unlimited" \in passed' /\ ~conf.failClosed)
  <2>1. CASE i = n
    BY <1>2, <2>1
  <2>2. CASE i < n
    BY <1>2, <2>2 DEF PassedUpTo
  <2> QED BY <1>1, <1>2, <2>1, <2>2
<1> QED BY <1>2 DEF PassedUpTo, Http!Portable

LEMMA RateLimitKeeps ==
  ASSUME HttpInv, Http!RateLimit("main")
  PROVE  HttpInv'
<1>1. /\ main.step = "walk" /\ main.at <= Len(conf.chain) /\ main.at \in 1 .. 3
      /\ main.result = "none" /\ PassedUpTo(main.at)
      /\ work.step = "idle" /\ channel = <<>> /\ handler = "none" /\ answer = Http!Nothing
      /\ UNCHANGED <<conf, channel, expired, handler, answer, record>>
  BY DEF Http!RateLimit, Http!AtMiddleware, Http!Walker, HttpInv, HttpTypes, Walkers,
         Places, Answered
<1>2. main.at \in 1 .. 2
  <2>1. HttpTypes
    BY DEF HttpInv
  <2> QED BY <1>1, <2>1, PlaceInChain
<1>3. CASE /\ Http!Set("main", Http!Onward("main")) /\ passed \subseteq passed'
           /\ "admitted" \in passed' \/ ("unlimited" \in passed' /\ ~conf.failClosed)
  <2>1. /\ main' \in Walkers /\ main'.step = "walk" /\ main'.at = main.at + 1
        /\ main'.result = "none" /\ work' = work
    BY <1>1, <1>2, <1>3, MainOnward
  <2>2. PassedUpTo(main.at)'
    BY <1>1, <1>3, <2>1, NextPlacePassed DEF PassedUpTo
  <2>3. HttpTypes'
    BY <1>1, <2>1 DEF HttpInv, HttpTypes
  <2>4. Places'
    BY <1>1, <2>1, <2>2 DEF Places
  <2>5. Answered' /\ Http!HandlerGated'
    BY <1>1 DEF Answered, Http!HandlerGated, Http!Nothing
  <2> QED BY <2>3, <2>4, <2>5 DEF HttpInv
<1>4. ASSUME NEW r \in {"internal", "rate_limited", "panic"},
             Http!Set("main", Http!Returned("main", r)), passed' = passed
      PROVE  HttpInv'
  <2>1. r \in Http!Results \cup Http!Codes
    BY CodesAre DEF Http!Results
  <2>2. /\ main' \in Walkers /\ main'.step = "finish" /\ main'.result = r
        /\ work' = work
    BY <1>4, <2>1, MainReturned
  <2>3. Fits(main.result)'
    BY <1>1, <2>2 DEF Fits
  <2>4. HttpTypes'
    BY <1>1, <2>2 DEF HttpInv, HttpTypes
  <2>5. Places'
    BY <1>1, <2>2, <2>3 DEF Places
  <2>6. Answered' /\ Http!HandlerGated'
    BY <1>1 DEF Answered, Http!HandlerGated, Http!Nothing
  <2> QED BY <2>4, <2>5, <2>6 DEF HttpInv
<1>5. \/ /\ Http!Set("main", Http!Onward("main"))
         /\ passed' = passed \cup {"admitted"}
      \/ /\ ~conf.failClosed /\ Http!Set("main", Http!Onward("main"))
         /\ passed' = passed \cup {"unlimited"}
      \/ \E r \in {"internal", "rate_limited", "panic"} :
            Http!Set("main", Http!Returned("main", r)) /\ passed' = passed
  BY Zenon DEF Http!RateLimit
<1> QED BY <1>3, <1>4, <1>5

\* A step of the timeout's goroutine that leaves the handler and the channel alone.
LEMMA WorkKeeps ==
  ASSUME HttpInv, work.step # "idle", handler = "none",
         work' \in Walkers, work'.step \in {"walk", "send"},
         work'.step = "walk" => PassedUpTo(work.at)',
         work'.step = "send" => work'.result \in Outcomes /\ Fits(work.result)',
         passed \subseteq passed',
         UNCHANGED <<conf, main, channel, expired, handler, answer, record>>
  PROVE  HttpInv'
<1>1. HttpTypes'
  BY DEF HttpInv, HttpTypes
<1>2. main.step \in {"walk", "handler", "wait"} => PassedUpTo(main.at)'
  BY DEF HttpInv, Places, PassedUpTo, Http!Portable
<1>3. main.step \in {"finish", "idle"} => main.result = "timeout"
  BY DEF HttpInv, Places
<1>4. Places'
  BY <1>2, <1>3 DEF HttpInv, Places
<1>5. Answered'
  BY DEF HttpInv, Answered, Http!CodeFor, Http!Portable
<1>6. Http!HandlerGated'
  BY DEF Http!HandlerGated
<1> QED BY <1>1, <1>4, <1>5, <1>6 DEF HttpInv

LEMMA RateLimitWorkKeeps ==
  ASSUME HttpInv, Http!RateLimit("work")
  PROVE  HttpInv'
<1>1. /\ work.step = "walk" /\ work.at <= Len(conf.chain) /\ work.at \in 1 .. 3
      /\ PassedUpTo(work.at) /\ channel = <<>> /\ handler = "none"
      /\ main.step = "wait" \/ (main.step \in {"finish", "idle"} /\ main.result = "timeout")
      /\ UNCHANGED <<conf, channel, expired, handler, answer, record>>
  BY DEF Http!RateLimit, Http!AtMiddleware, Http!Walker, HttpInv, HttpTypes, Walkers, Places
<1>2. work.at \in 1 .. 2
  <2>1. HttpTypes
    BY DEF HttpInv
  <2> QED BY <1>1, <2>1, PlaceInChain
<1>3. CASE /\ Http!Set("work", Http!Onward("work")) /\ passed \subseteq passed'
           /\ "admitted" \in passed' \/ ("unlimited" \in passed' /\ ~conf.failClosed)
  <2>1. /\ work' \in Walkers /\ work'.step = "walk" /\ work'.at = work.at + 1
        /\ main' = main
    BY <1>1, <1>2, <1>3, WorkOnward
  <2>2. PassedUpTo(work.at)'
    BY <1>1, <1>3, <2>1, NextPlacePassed DEF PassedUpTo
  <2> QED BY <1>1, <1>3, <2>1, <2>2, WorkKeeps
<1>4. ASSUME NEW r \in {"internal", "rate_limited", "panic"},
             Http!Set("work", Http!Returned("work", r)), passed' = passed
      PROVE  HttpInv'
  <2>1. r \in Http!Results \cup Http!Codes /\ "internal" \in Outcomes
        /\ "rate_limited" \in Outcomes
    BY CodesAre DEF Http!Results, Outcomes
  <2>2. /\ work' \in Walkers /\ work'.step = "send"
        /\ work'.result \in {"internal", "rate_limited"} /\ main' = main
    BY <1>4, <2>1, WorkReturned
  <2>3. Fits(work.result)'
    BY <1>1, <2>2 DEF Fits
  <2> QED BY <1>1, <1>4, <2>1, <2>2, <2>3, WorkKeeps
<1>5. \/ /\ Http!Set("work", Http!Onward("work"))
         /\ passed' = passed \cup {"admitted"}
      \/ /\ ~conf.failClosed /\ Http!Set("work", Http!Onward("work"))
         /\ passed' = passed \cup {"unlimited"}
      \/ \E r \in {"internal", "rate_limited", "panic"} :
            Http!Set("work", Http!Returned("work", r)) /\ passed' = passed
  BY Zenon DEF Http!RateLimit
<1> QED BY <1>3, <1>4, <1>5

LEMMA TimeoutKeeps ==
  ASSUME HttpInv, Http!Timeout
  PROVE  HttpInv'
<1>1. /\ main.step = "walk" /\ main.at <= Len(conf.chain) /\ main.at \in 1 .. 3
      /\ conf.chain[main.at] = "timeout" /\ main \in Walkers
      /\ main.result = "none" /\ PassedUpTo(main.at)
      /\ work.step = "idle" /\ channel = <<>> /\ handler = "none" /\ answer = Http!Nothing
      /\ UNCHANGED <<conf, channel, expired, passed, handler, answer, record>>
  BY DEF Http!Timeout, Http!AtMiddleware, Http!Walker, HttpInv, HttpTypes, Walkers,
         Places, Answered
<1>2. main.at \in 1 .. 2
  <2>1. HttpTypes
    BY DEF HttpInv
  <2> QED BY <1>1, <2>1, PlaceInChain
<1> PICK n \in 1 .. 3 : n = main.at
  BY <1>1
<1>3. PassedUpTo(n + 1)'
  <2>1. PassedUpTo(n) /\ n <= Len(conf.chain) /\ conf.chain[n] # "limit"
    BY <1>1 DEF PassedUpTo
  <2> QED BY <1>1, <2>1, NextPlacePassed
<1>4. Answered' /\ Http!HandlerGated'
  BY <1>1 DEF Answered, Http!HandlerGated, Http!Nothing
<1>5. CASE main' = Http!Onward("main") /\ UNCHANGED work
  <2>1. /\ main' \in Walkers /\ main'.step = "walk" /\ main'.at = main.at + 1
        /\ main'.result = "none"
    BY <1>1, <1>2, <1>5 DEF Walkers, Http!Onward, Http!Walker
  <2>2. PassedUpTo(main.at)'
    BY <1>3, <2>1 DEF PassedUpTo
  <2>3. HttpTypes' /\ Places'
    BY <1>1, <1>5, <2>1, <2>2 DEF HttpInv, HttpTypes, Places
  <2> QED BY <1>4, <2>3 DEF HttpInv
<1>6. CASE /\ main' = [main EXCEPT !.step = "wait"]
           /\ work' = [step |-> "walk", at |-> main.at + 1, result |-> "none"]
  <2>1. /\ main' \in Walkers /\ main'.step = "wait" /\ main'.at = main.at
        /\ main'.result = "none"
    BY <1>1, <1>6 DEF Walkers, Http!Steps
  <2>2. work' \in Walkers /\ work'.step = "walk" /\ work'.at = main.at + 1
    BY <1>2, <1>6 DEF Walkers, Http!Steps
  <2>3. PassedUpTo(main.at)' /\ PassedUpTo(work.at)'
    BY <1>1, <1>3, <2>1, <2>2 DEF PassedUpTo, Http!Portable
  <2>4. HttpTypes'
    BY <1>1, <2>1, <2>2 DEF HttpInv, HttpTypes
  <2>5. Places'
    BY <1>1, <2>1, <2>2, <2>3 DEF Places
  <2> QED BY <1>4, <2>4, <2>5 DEF HttpInv
<1> QED BY <1>5, <1>6 DEF Http!Timeout

\* Past the end of the chain, every gate of it was passed.
LEMMA AllPassed ==
  ASSUME HttpInv, NEW n \in 1 .. 3, n > Len(conf.chain), PassedUpTo(n)
  PROVE  /\ Http!Portable => "policy" \in passed
         /\ Http!Portable /\ conf.auth = "required" => "principal" \in passed
         /\ "limit" \in {conf.chain[i] : i \in DOMAIN conf.chain} =>
              "admitted" \in passed \/ ("unlimited" \in passed /\ ~conf.failClosed)
<1>1. PICK len \in 0 .. 2 : len = Len(conf.chain) /\ DOMAIN conf.chain = 1 .. len
  BY ChainPlaces DEF HttpInv
<1>2. \A i \in DOMAIN conf.chain : i < n
  BY <1>1
<1> QED BY <1>2 DEF PassedUpTo

LEMMA StartHandlerKeeps ==
  ASSUME HttpInv, Http!StartHandler("main")
  PROVE  HttpInv'
<1>1. /\ main.step = "walk" /\ main.at > Len(conf.chain) /\ main.at \in 1 .. 3
      /\ main.result = "none" /\ PassedUpTo(main.at)
      /\ work.step = "idle" /\ channel = <<>> /\ answer = Http!Nothing
      /\ Http!Set("main", [Http!Walker("main") EXCEPT !.step = "handler"])
      /\ handler' = "running"
      /\ UNCHANGED <<conf, channel, expired, passed, answer, record>>
  BY DEF Http!StartHandler, Http!Walker, HttpInv, HttpTypes, Walkers, Places, Answered
<1>2. /\ main' \in Walkers /\ main'.step = "handler" /\ main'.at = main.at
      /\ main'.result = "none" /\ work' = work
  BY <1>1, MainHandles
<1>3. HttpTypes'
  BY <1>1, <1>2 DEF HttpInv, HttpTypes
<1>4. PassedUpTo(main.at)'
  BY <1>1, <1>2 DEF PassedUpTo, Http!Portable
<1>5. Places'
  BY <1>1, <1>2, <1>4 DEF Places
<1>6. Http!HandlerGated'
  BY <1>1, AllPassed DEF Http!HandlerGated, Http!Portable, HttpInv
<1>7. Answered'
  BY <1>1 DEF Answered, Http!Nothing
<1> QED BY <1>3, <1>5, <1>6, <1>7 DEF HttpInv

LEMMA StartHandlerWorkKeeps ==
  ASSUME HttpInv, Http!StartHandler("work")
  PROVE  HttpInv'
<1>1. /\ work.step = "walk" /\ work.at > Len(conf.chain) /\ work.at \in 1 .. 3
      /\ PassedUpTo(work.at) /\ channel = <<>>
      /\ main.step = "wait" \/ (main.step \in {"finish", "idle"} /\ main.result = "timeout")
      /\ Http!Set("work", [Http!Walker("work") EXCEPT !.step = "handler"])
      /\ handler' = "running"
      /\ UNCHANGED <<conf, channel, expired, passed, answer, record>>
  BY DEF Http!StartHandler, Http!Walker, HttpInv, HttpTypes, Walkers, Places
<1>2. work' \in Walkers /\ work'.step = "handler" /\ main' = main
  BY <1>1, WorkHandles
<1>3. HttpTypes'
  BY <1>1, <1>2 DEF HttpInv, HttpTypes
<1>4. main.step = "wait" => PassedUpTo(main.at)'
  BY <1>1, <1>2 DEF HttpInv, Places, PassedUpTo, Http!Portable
<1>5. Places'
  BY <1>1, <1>2, <1>4 DEF HttpInv, Places
<1>6. Http!HandlerGated'
  BY <1>1, AllPassed DEF Http!HandlerGated, Http!Portable, HttpInv
<1>7. Answered'
  BY <1>1, <1>2 DEF HttpInv, Answered, Http!CodeFor, Http!Portable
<1> QED BY <1>3, <1>5, <1>6, <1>7 DEF HttpInv

LEMMA EndHandlerKeeps ==
  ASSUME HttpInv, Http!EndHandler("main")
  PROVE  HttpInv'
<1>1. PICK r \in Http!Results : Http!Set("main", Http!Returned("main", r)) /\ handler' = r
  BY DEF Http!EndHandler
<1>2. /\ main.step = "handler" /\ handler = "running" /\ answer = Http!Nothing
      /\ work.step = "idle" /\ channel = <<>>
      /\ UNCHANGED <<conf, channel, expired, passed, answer, record>>
  BY DEF Http!EndHandler, Http!Walker, HttpInv, Places, Answered
<1>3. /\ main' \in Walkers /\ main'.step = "finish" /\ main'.result = r /\ work' = work
  BY <1>1, MainReturned
<1>4. HttpTypes'
  BY <1>2, <1>3 DEF HttpInv, HttpTypes
<1>5. Fits(main.result)'
  BY <1>1, <1>3 DEF Fits, Http!Results
<1>6. Places'
  BY <1>2, <1>3, <1>5 DEF Places, Http!Results
<1>7. Answered' /\ Http!HandlerGated'
  BY <1>2 DEF HttpInv, Answered, Http!HandlerGated, Http!Portable, Http!Nothing
<1> QED BY <1>4, <1>6, <1>7 DEF HttpInv

LEMMA EndHandlerWorkKeeps ==
  ASSUME HttpInv, Http!EndHandler("work")
  PROVE  HttpInv'
<1>1. PICK r \in Http!Results : Http!Set("work", Http!Returned("work", r)) /\ handler' = r
  BY DEF Http!EndHandler
<1>2. /\ work.step = "handler" /\ handler = "running" /\ channel = <<>>
      /\ main.step = "wait" \/ (main.step \in {"finish", "idle"} /\ main.result = "timeout")
      /\ UNCHANGED <<conf, channel, expired, passed, answer, record>>
  BY DEF Http!EndHandler, Http!Walker, HttpInv, Places
<1>3. /\ work' \in Walkers /\ work'.step = "send" /\ main' = main
      /\ work'.result = IF r = "panic" THEN "internal" ELSE r
  BY <1>1, WorkReturned
<1>4. HttpTypes'
  BY <1>2, <1>3 DEF HttpInv, HttpTypes
<1>5. work'.result \in Outcomes /\ Fits(work.result)'
  BY <1>1, <1>3, CodesAre DEF Fits, Outcomes, Http!Results
<1>6. main.step = "wait" => PassedUpTo(main.at)'
  BY <1>2, <1>3 DEF HttpInv, Places, PassedUpTo, Http!Portable
<1>7. Places'
  BY <1>2, <1>3, <1>5, <1>6 DEF HttpInv, Places
<1>8. Http!HandlerGated'
  BY <1>2 DEF HttpInv, Http!HandlerGated, Http!Portable
<1>9. Answered'
  BY <1>2, <1>3 DEF HttpInv, Answered, Http!CodeFor, Http!Portable
<1> QED BY <1>4, <1>7, <1>8, <1>9 DEF HttpInv

LEMMA SendResultKeeps ==
  ASSUME HttpInv, Http!Send
  PROVE  HttpInv'
<1>1. /\ work.step = "send" /\ work.result \in Outcomes /\ Fits(work.result)
      /\ main.step = "wait" \/ (main.step \in {"finish", "idle"} /\ main.result = "timeout")
      /\ channel' = <<work.result>>
      /\ UNCHANGED <<conf, main, expired, passed, handler, answer, record>>
  BY DEF Http!Send, HttpInv, Places
<1>2. work' \in Walkers /\ work'.step = "idle"
  BY DEF Http!Send, HttpInv, HttpTypes, Walkers, Http!Steps
<1>3. HttpTypes'
  BY <1>1, <1>2 DEF HttpInv, HttpTypes
<1>4. main.step = "wait" => PassedUpTo(main.at)'
  BY <1>1 DEF HttpInv, Places, PassedUpTo, Http!Portable
<1>5. \E r \in Outcomes : channel' = <<r>> /\ Fits(r)'
  BY <1>1 DEF Fits
<1>6. Places'
  <2>1. main.step \in {"finish", "idle"} <=> main.result # "none"
    BY DEF HttpInv, Places
  <2> QED BY <1>1, <1>2, <1>4, <1>5, <2>1 DEF Places
<1>7. Http!HandlerGated'
  BY <1>1 DEF HttpInv, Http!HandlerGated, Http!Portable
<1>8. Answered'
  BY <1>1 DEF HttpInv, Answered, Http!CodeFor, Http!Portable
<1> QED BY <1>3, <1>6, <1>7, <1>8 DEF HttpInv

LEMMA ReceiveKeeps ==
  ASSUME HttpInv, Http!Receive
  PROVE  HttpInv'
<1>1. /\ main.step = "wait" /\ answer = Http!Nothing /\ main \in Walkers
      /\ UNCHANGED <<conf, work, expired, passed, handler, answer, record>>
  BY DEF Http!Receive, HttpInv, HttpTypes, Places, Answered
<1>2. Answered' /\ Http!HandlerGated'
  BY <1>1 DEF HttpInv, Answered, Http!HandlerGated, Http!Portable, Http!Nothing
<1>3. CASE /\ channel # <<>> /\ channel' = <<>>
           /\ main' = [main EXCEPT !.step = "finish", !.result = Head(channel)]
  <2>1. PICK r \in Outcomes : channel = <<r>> /\ Fits(r)
    BY <1>3 DEF HttpInv, Places
  <2>2. work.step = "idle"
    BY <1>3 DEF HttpInv, Places
  <2>3. main' \in Walkers /\ main'.step = "finish" /\ main'.result = r
    <3>1. Head(channel) = r
      BY <2>1
    <3>2. main' = [main EXCEPT !.step = "finish", !.result = r]
      BY <1>3, <3>1
    <3>3. r \in Http!Results \cup Http!Codes \cup {"none", "preflight"}
      BY DEF Outcomes
    <3>4. "finish" \in Http!Steps
      BY DEF Http!Steps
    <3> QED BY <1>1, <3>2, <3>3, <3>4 DEF Walkers
  <2>4. Fits(main.result)' /\ r # "none"
    BY <1>1, <2>1, <2>3, CodesAre DEF Fits, Outcomes, Http!Results
  <2>5. HttpTypes'
    BY <1>1, <2>3 DEF HttpInv, HttpTypes
  <2>6. Places'
    BY <1>1, <1>3, <2>2, <2>3, <2>4 DEF Places
  <2> QED BY <1>2, <2>5, <2>6 DEF HttpInv
<1>4. CASE /\ expired /\ UNCHANGED channel
           /\ main' = [main EXCEPT !.step = "finish", !.result = "timeout"]
  <2>1. main' \in Walkers /\ main'.step = "finish" /\ main'.result = "timeout"
    BY <1>1, <1>4, CodesAre DEF Walkers, Http!Steps
  <2>2. HttpTypes'
    BY <1>1, <2>1 DEF HttpInv, HttpTypes
  <2>3. work.step = "walk" => PassedUpTo(work.at)'
    BY <1>1 DEF HttpInv, Places, PassedUpTo, Http!Portable
  <2>4. work.step = "send" => work'.result \in Outcomes /\ Fits(work.result)'
    BY <1>1 DEF HttpInv, Places, Fits
  <2>5. channel # <<>> => \E r \in Outcomes : channel' = <<r>> /\ Fits(r)'
    BY <1>1, <1>4 DEF HttpInv, Places, Fits
  <2>6. Places'
    BY <1>1, <1>4, <2>1, <2>3, <2>4, <2>5 DEF HttpInv, Places
  <2> QED BY <1>2, <2>2, <2>6 DEF HttpInv
<1> QED BY <1>3, <1>4 DEF Http!Receive

\* No code an answer is given is a success's.
LEMMA CodesFail ==
  ASSUME NEW code \in Http!Codes
  PROVE  Http!StatusForErrorCode[code] # 200
  BY CodesAre DEF Http!StatusForErrorCode

LEMMA FinishKeeps ==
  ASSUME HttpInv, Http!Finish
  PROVE  HttpInv'
<1> DEFINE code == Http!CodeFor(main.result)
<1>1. /\ main.step = "finish" /\ main \in Walkers /\ main.result # "none"
      /\ main' = [main EXCEPT !.step = "idle"]
      /\ UNCHANGED <<conf, work, channel, expired, passed, handler>>
  BY DEF Http!Finish, Http!Goes, HttpInv, HttpTypes, Places
<1>2. main' \in Walkers /\ main'.step = "idle" /\ main'.result = main.result
      /\ main.result \in Http!Results \cup Http!Codes \cup {"preflight"}
  BY <1>1 DEF Walkers, Http!Steps
<1>3. /\ answer'.code = code
      /\ answer'.status = IF main.result = "preflight" THEN 204
                          ELSE IF code = "none" THEN 200 ELSE Http!StatusForErrorCode[code]
      /\ record' \in {Http!Nothing, answer'}
  BY DEF Http!Finish
<1>4. HttpTypes'
  BY <1>1, <1>2 DEF HttpInv, HttpTypes
<1>5. Places'
  <2>1. work.step = "walk" => PassedUpTo(work.at)'
    BY <1>1 DEF HttpInv, Places, PassedUpTo, Http!Portable
  <2>2. work.step = "send" => work'.result \in Outcomes /\ Fits(work.result)'
    BY <1>1 DEF HttpInv, Places, Fits
  <2>3. channel # <<>> => \E r \in Outcomes : channel' = <<r>> /\ Fits(r)'
    BY <1>1 DEF HttpInv, Places, Fits
  <2>4. main.result # "timeout" => Fits(main.result)'
    BY <1>1, <1>2 DEF HttpInv, Places, Fits
  <2> QED BY <1>1, <1>2, <2>1, <2>2, <2>3, <2>4 DEF HttpInv, Places
<1>6. answer'.status = 200 => main.result \in {"ok", "large"}
  <2>1. CASE code = "none"
    BY <1>2, <1>3, <2>1, CodesAre DEF Http!CodeFor, Http!Results
  <2>2. CASE code # "none"
    <3>1. code \in Http!Codes
      BY <1>2, <2>2, CodesAre DEF Http!CodeFor, Http!Results
    <3> HIDE DEF code
    <3>2. answer'.status # 200
      BY <1>3, <2>2, <3>1, CodesFail
    <3> QED BY <3>2
  <2> QED BY <2>1, <2>2
<1>7. Answered'
  BY <1>1, <1>2, <1>3, <1>6 DEF Answered, Http!CodeFor, Http!Portable, Http!Nothing
<1>8. Http!HandlerGated'
  BY <1>1 DEF HttpInv, Http!HandlerGated, Http!Portable
<1> QED BY <1>4, <1>5, <1>7, <1>8 DEF HttpInv

LEMMA ExpireKeeps ==
  ASSUME HttpInv,
         UNCHANGED <<conf, main, work, channel, passed, handler, answer, record>>
  PROVE  HttpInv'
<1>1. HttpTypes'
  BY DEF HttpInv, HttpTypes
<1>2. Places'
  BY DEF HttpInv, Places, PassedUpTo, Fits, Http!Portable
<1>3. Answered' /\ Http!HandlerGated'
  BY DEF HttpInv, Answered, Http!CodeFor, Http!Portable, Http!HandlerGated
<1> QED BY <1>1, <1>2, <1>3 DEF HttpInv

\* Every step of a request, and every step that is none, preserves the invariant.
LEMMA HttpStep ==
  ASSUME HttpInv, [Http!Next]_(Http!vars)
  PROVE  HttpInv'
<1>1. CASE Http!Accept \/ Http!ApplyPolicy \/ Http!Authorize
  BY <1>1, AcceptKeeps, ApplyPolicyKeeps, AuthorizeKeeps
<1>2. CASE Http!RateLimit("main") \/ Http!Timeout \/ Http!StartHandler("main")
           \/ Http!EndHandler("main")
  BY <1>2, RateLimitKeeps, TimeoutKeeps, StartHandlerKeeps, EndHandlerKeeps
<1>3. CASE Http!WorkStep
  BY <1>3, RateLimitWorkKeeps, StartHandlerWorkKeeps, EndHandlerWorkKeeps, SendResultKeeps
     DEF Http!WorkStep
<1>4. CASE Http!Expire \/ UNCHANGED Http!vars
  BY <1>4, ExpireKeeps DEF Http!Expire, Http!vars
<1>5. CASE Http!Receive \/ Http!Finish
  BY <1>5, ReceiveKeeps, FinishKeeps
<1> QED BY <1>1, <1>2, <1>3, <1>4, <1>5 DEF Http!Next

LEMMA HttpInvServes ==
  ASSUME HttpInv
  PROVE  Http!RequestServed
<1>1. Http!HandlerGated
  BY DEF HttpInv
<1>2. Http!NeverStuck
  BY DEF HttpInv, Places, Http!NeverStuck, Http!Room
<1>3. ASSUME answer # Http!Nothing
      PROVE  /\ answer.status = 200 => handler \in {"ok", "large"}
             /\ handler = "running" => answer.code = "timeout"
             /\ answer.code \in {"unauthorized", "forbidden", "not_found", "rate_limited",
                                 "overloaded", "method_not_allowed"} => handler = "none"
             /\ answer.code = "conflict" => handler = "conflict"
             /\ record \in {Http!Nothing, answer}
  <2>1. /\ main.result # "timeout" => Fits(main.result)
        /\ answer.code = Http!CodeFor(main.result)
        /\ answer.status = 200 => main.result \in {"ok", "large"}
        /\ record \in {Http!Nothing, answer}
    BY <1>3 DEF HttpInv, Places, Answered
  <2> QED BY <2>1 DEF Fits, Http!CodeFor
<1> QED BY <1>1, <1>2, <1>3 DEF Http!RequestServed, Http!AnswerTrue

\* The invariant holds in every state of a request's, alone and in MCServices.
LEMMA HttpAlways ==
  /\ Http!Spec => []HttpInv
  /\ ServicesSpec => [](kind = "HTTP" => HttpInv)
<1>1. HttpInv /\ [Http!Next]_(Http!vars) => HttpInv'
  BY HttpStep
<1>2. (kind = "HTTP" => HttpInv) /\ [ServicesNext]_allVars => (kind = "HTTP" => HttpInv)'
  BY HttpStep DEF ServicesNext, allVars, httpVars, Http!vars
<1>3. ServicesInit => (kind = "HTTP" => HttpInv)
  BY HttpInitInv DEF ServicesInit
<1>4. Http!Spec => []HttpInv
  BY <1>1, HttpInitInv, PTL DEF Http!Spec
<1>5. ServicesSpec => [](kind = "HTTP" => HttpInv)
  BY <1>2, <1>3, PTL DEF ServicesSpec
<1> QED BY <1>4, <1>5

-----------------------------------------------------------------------------
(* The limit on a streamed response.                                        *)

OnItsWay(p) == IF pump[p].step \in {"write", "cut"} THEN pump[p].size ELSE 0

LimitTypes ==
    /\ emitted \in 0 .. MaxResponseBytes /\ body \in Nat
    /\ chunks \in [Limits!Pumps -> Seq(Sizes)]
    /\ given \in [Limits!Pumps -> Nat] /\ got \in [Limits!Pumps -> Nat]
    /\ pump \in [Limits!Pumps -> [step : Limits!PumpSteps, size : Nat]]
    /\ saw \in [Limits!Pumps -> {"data", "error", "end"}]

\* Both goroutines count what they let through before it goes out.
Out(p) == got[p] + OnItsWay(p)
GoesOutCounted == body + Out("reader") + Out("stream") <= emitted

\* What a source gave went out, or is on its way, unless an error follows.
NothingLeftOut ==
    \A p \in Limits!Pumps :
      /\ pump[p].step \in {"copy", "write"} => Out(p) = given[p]
      /\ pump[p].step = "end" \/ saw[p] = "end" => chunks[p] = <<>> /\ got[p] = given[p]
      /\ saw[p] # "data" => pump[p].step = "done"

LimitInv == LimitTypes /\ GoesOutCounted /\ NothingLeftOut

LimitConstants == MaxResponseBytes \in Nat /\ Sizes \subseteq Nat

LEMMA LimitInitInv ==
  ASSUME LimitConstants, Limits!Init
  PROVE  LimitInv
<1>1. \A p \in Limits!Pumps :
        /\ pump[p] = [step |-> "copy", size |-> 0]
        /\ given[p] = 0 /\ got[p] = 0 /\ saw[p] = "data" /\ Out(p) = 0
  BY DEF Limits!Init, Limits!At, Out, OnItsWay
<1>2. chunks \in [Limits!Pumps -> Seq(Sizes)]
  <2>1. \A n \in 0 .. MaxChunks : [1 .. n -> Sizes] \subseteq Seq(Sizes)
    OBVIOUS
  <2> QED BY <2>1 DEF Limits!Init, Limits!Chunks
<1>3. body \in Nat /\ emitted = body /\ emitted \in 0 .. MaxResponseBytes
  BY DEF Limits!Init, LimitConstants
<1>4. LimitTypes
  BY <1>2, <1>3 DEF Limits!Init, LimitTypes, Limits!At, Limits!PumpSteps
<1>5. GoesOutCounted
  BY <1>1, <1>3 DEF GoesOutCounted, Limits!Pumps
<1>6. NothingLeftOut
  BY <1>1 DEF NothingLeftOut
<1> QED BY <1>4, <1>5, <1>6 DEF LimitInv

\* What a goroutine may do with a chunk: nothing, a part of it, or all.
LEMMA MayDo ==
  ASSUME LimitConstants, LimitTypes, NEW n \in Nat, NEW may,
         may = Limits!ConsumeReader(n) \/ may = Limits!AllowChunk(n)
  PROVE  \/ may.next = Limits!At("error", 0) /\ may.counts = emitted
         \/ \E part \in Nat : /\ may.next = Limits!At("cut", part)
                              /\ may.counts = emitted + part
                              /\ may.counts <= MaxResponseBytes
         \/ /\ may.next = Limits!At("write", n) /\ may.counts = emitted + n
            /\ may.counts <= MaxResponseBytes
<1>1. emitted \in Nat /\ MaxResponseBytes \in Nat /\ emitted <= MaxResponseBytes
  BY DEF LimitTypes, LimitConstants
<1>2. CASE may = Limits!AllowChunk(n)
  BY <1>1, <1>2 DEF Limits!AllowChunk
<1>3. CASE may = Limits!ConsumeReader(n)
  <2> DEFINE remaining == MaxResponseBytes - emitted
  <2>1. CASE tripped \/ remaining <= 0
    BY <1>1, <1>3, <2>1 DEF Limits!ConsumeReader
  <2>2. CASE ~tripped /\ remaining > 0 /\ n > remaining
    <3>1. may.next = Limits!At("cut", remaining) /\ may.counts = MaxResponseBytes
      BY <1>1, <1>3, <2>2 DEF Limits!ConsumeReader
    <3>2. remaining \in Nat /\ MaxResponseBytes = emitted + remaining
      BY <1>1, <2>2
    <3> HIDE DEF remaining
    <3> QED BY <1>1, <3>1, <3>2
  <2>3. CASE ~tripped /\ remaining > 0 /\ ~(n > remaining)
    <3>1. may.next = Limits!At("write", n) /\ may.counts = emitted + n
      BY <1>1, <1>3, <2>3 DEF Limits!ConsumeReader
    <3> QED BY <1>1, <2>3, <3>1
  <2> QED BY <1>1, <2>1, <2>2, <2>3
<1> QED BY <1>2, <1>3

LEMMA LimitOut ==
  ASSUME LimitTypes, NEW p \in Limits!Pumps
  PROVE  Out(p) \in Nat /\ got[p] \in Nat /\ got[p] <= Out(p)
<1>1. got[p] \in Nat /\ pump[p].size \in Nat
  BY DEF LimitTypes
<1> QED BY <1>1 DEF Out, OnItsWay

\* One goroutine goes on: what it lets out it has counted.
LEMMA LimitPartKeeps ==
  ASSUME LimitInv, NEW p \in Limits!Pumps, LimitTypes', body' = body,
         \A q \in Limits!Pumps \ {p} :
           /\ pump'[q] = pump[q] /\ got'[q] = got[q] /\ given'[q] = given[q]
           /\ saw'[q] = saw[q] /\ chunks'[q] = chunks[q],
         Out(p)' - Out(p) <= emitted' - emitted,
         /\ pump'[p].step \in {"copy", "write"} => Out(p)' = given'[p]
         /\ pump'[p].step = "end" \/ saw'[p] = "end" =>
              chunks'[p] = <<>> /\ got'[p] = given'[p]
         /\ saw'[p] # "data" => pump'[p].step = "done"
  PROVE  LimitInv'
<1>1. \A q \in Limits!Pumps \ {p} : Out(q)' = Out(q)
  BY DEF Out, OnItsWay
<1>2. \A q \in Limits!Pumps : Out(q) \in Nat /\ Out(q)' \in Nat
  <2>1. \A q \in Limits!Pumps : Out(q) \in Nat
    BY LimitOut DEF LimitInv
  <2>2. \A q \in Limits!Pumps : /\ got'[q] \in Nat /\ pump'[q].size \in Nat
    BY DEF LimitTypes
  <2>3. \A q \in Limits!Pumps : Out(q)' \in Nat
    BY <2>2 DEF Out, OnItsWay
  <2> QED BY <2>1, <2>3
<1>3. emitted \in Nat /\ emitted' \in Nat /\ body \in Nat
  BY DEF LimitInv, LimitTypes
<1>4. GoesOutCounted'
  <2>1. p = "reader" \/ p = "stream"
    BY DEF Limits!Pumps
  <2>2. /\ Out("reader") \in Nat /\ Out("reader")' \in Nat
        /\ Out("stream") \in Nat /\ Out("stream")' \in Nat
    BY <1>2 DEF Limits!Pumps
  <2>3. body + Out("reader") + Out("stream") <= emitted
    BY DEF LimitInv, GoesOutCounted
  <2>4. CASE p = "reader"
    <3>1. Out("stream")' = Out("stream")
      BY <1>1, <2>4 DEF Limits!Pumps
    <3>2. Out("reader")' - Out("reader") <= emitted' - emitted
      BY <2>4
    <3> QED BY <1>3, <2>2, <2>3, <3>1, <3>2 DEF GoesOutCounted
  <2>5. CASE p = "stream"
    <3>1. Out("reader")' = Out("reader")
      BY <1>1, <2>5 DEF Limits!Pumps
    <3>2. Out("stream")' - Out("stream") <= emitted' - emitted
      BY <2>5
    <3> QED BY <1>3, <2>2, <2>3, <3>1, <3>2 DEF GoesOutCounted
  <2> QED BY <2>1, <2>4, <2>5
<1>5. NothingLeftOut'
  BY <1>1 DEF LimitInv, NothingLeftOut
<1> QED BY <1>4, <1>5 DEF LimitInv

LEMMA CopyKeeps ==
  ASSUME LimitConstants, LimitInv, NEW p \in Limits!Pumps, Limits!Copy(p)
  PROVE  LimitInv'
<1> DEFINE n == Head(chunks[p])
           may == IF p = "reader" THEN Limits!ConsumeReader(n) ELSE Limits!AllowChunk(n)
<1>1. chunks[p] \in Seq(Sizes) /\ chunks[p] # <<>> /\ pump[p].step = "copy"
  BY DEF Limits!Copy, LimitInv, LimitTypes
<1>2. n \in Nat /\ Tail(chunks[p]) \in Seq(Sizes)
  <2>1. n \in Sizes /\ Tail(chunks[p]) \in Seq(Sizes)
    BY <1>1
  <2> QED BY <2>1 DEF LimitConstants
<1>3. /\ chunks' = [chunks EXCEPT ![p] = Tail(chunks[p])]
      /\ given' = [given EXCEPT ![p] = given[p] + n]
      /\ emitted' = may.counts
      /\ pump' = [pump EXCEPT ![p] = may.next]
      /\ UNCHANGED <<body, got, saw>>
  BY DEF Limits!Copy
<1>4. \/ may.next = Limits!At("error", 0) /\ emitted' = emitted
      \/ \E part \in Nat : /\ may.next = Limits!At("cut", part)
                           /\ emitted' = emitted + part
                           /\ emitted' <= MaxResponseBytes
      \/ /\ may.next = Limits!At("write", n) /\ emitted' = emitted + n
         /\ emitted' <= MaxResponseBytes
  <2>1. may = Limits!ConsumeReader(n) \/ may = Limits!AllowChunk(n)
    OBVIOUS
  <2> HIDE DEF may, n
  <2> QED BY <1>2, <1>3, <2>1, MayDo DEF LimitInv
<1> HIDE DEF may
<1>5. PICK to \in Limits!PumpSteps, m \in Nat :
        /\ may.next = [step |-> to, size |-> m]
        /\ \/ to = "error" /\ emitted' = emitted
           \/ to \in {"cut", "write"} /\ emitted' = emitted + m /\ emitted' <= MaxResponseBytes
        /\ to = "write" => m = n
        /\ to \in {"error", "cut", "write"}
  BY <1>2, <1>4 DEF Limits!At, Limits!PumpSteps
<1> HIDE DEF n
<1>6. /\ pump'[p] = [step |-> to, size |-> m]
      /\ given'[p] = given[p] + n /\ got'[p] = got[p] /\ saw'[p] = saw[p]
      /\ given[p] \in Nat /\ got[p] \in Nat /\ emitted \in Nat
      /\ emitted <= MaxResponseBytes /\ MaxResponseBytes \in Nat
  BY <1>3, <1>5 DEF LimitInv, LimitTypes, LimitConstants
<1>7. LimitTypes'
  <2>1. emitted' \in 0 .. MaxResponseBytes
    BY <1>5, <1>6
  <2>2. [step |-> to, size |-> m] \in [step : Limits!PumpSteps, size : Nat]
    OBVIOUS
  <2>3. given[p] + n \in Nat
    BY <1>2, <1>6
  <2> QED BY <1>2, <1>3, <1>5, <2>1, <2>2, <2>3 DEF LimitInv, LimitTypes
<1>8. Out(p) = got[p] /\ Out(p) = given[p] /\ saw[p] = "data"
  <2>1. OnItsWay(p) = 0
    BY <1>1 DEF OnItsWay
  <2>2. Out(p) = given[p] /\ saw[p] = "data"
    BY <1>1 DEF LimitInv, NothingLeftOut
  <2> QED BY <1>6, <2>1, <2>2 DEF Out
<1>9. Out(p)' = got'[p] + (IF to \in {"write", "cut"} THEN m ELSE 0)
  BY <1>6 DEF Out, OnItsWay
<1>10. Out(p)' - Out(p) <= emitted' - emitted
  <2>0. got[p] \in Nat /\ emitted \in Nat /\ Out(p) = got[p]
    BY <1>6, <1>8
  <2>1. CASE to = "error"
    <3>1. Out(p)' = got[p] + 0 /\ emitted' = emitted
      BY <1>5, <1>6, <1>9, <2>1
    <3> QED BY <2>0, <3>1
  <2>2. CASE to \in {"cut", "write"}
    <3>1. Out(p)' = got[p] + m /\ emitted' = emitted + m
      BY <1>5, <1>6, <1>9, <2>2
    <3> QED BY <2>0, <3>1
  <2> QED BY <1>5, <2>1, <2>2
<1>11. to = "write" => Out(p)' = given'[p]
  BY <1>5, <1>6, <1>8, <1>9
<1> QED BY <1>3, <1>5, <1>6, <1>7, <1>8, <1>10, <1>11, LimitPartKeeps

LEMMA SourceEndsKeeps ==
  ASSUME LimitInv, NEW p \in Limits!Pumps, Limits!SourceEnds(p)
  PROVE  LimitInv'
<1>1. PICK to \in {"error", "end"} : pump' = [pump EXCEPT ![p] = [step |-> to, size |-> 0]]
  BY DEF Limits!SourceEnds, Limits!At
<1>2. /\ pump[p].step = "copy" /\ chunks[p] = <<>>
      /\ UNCHANGED <<emitted, body, chunks, given, got, saw>>
  BY DEF Limits!SourceEnds
<1>3. LimitTypes'
  BY <1>1, <1>2 DEF LimitInv, LimitTypes, Limits!PumpSteps
<1>4. pump'[p] = [step |-> to, size |-> 0] /\ got[p] \in Nat /\ emitted \in Nat
  BY <1>1 DEF LimitInv, LimitTypes
<1>5. Out(p) = got[p] /\ Out(p)' = got[p] /\ got[p] = given[p] /\ saw[p] = "data"
  BY <1>2, <1>4 DEF Out, OnItsWay, LimitInv, NothingLeftOut
<1>6. Out(p)' - Out(p) <= emitted' - emitted
  BY <1>2, <1>4, <1>5
<1>7. /\ pump'[p].step \notin {"copy", "write"}
      /\ chunks'[p] = <<>> /\ got'[p] = given'[p] /\ saw'[p] = "data"
      /\ \A q \in Limits!Pumps \ {p} : pump'[q] = pump[q]
  BY <1>1, <1>2, <1>4, <1>5 DEF LimitInv, LimitTypes
<1> QED BY <1>2, <1>3, <1>6, <1>7, LimitPartKeeps

LEMMA WriteKeeps ==
  ASSUME LimitInv, NEW p \in Limits!Pumps, Limits!Write(p)
  PROVE  LimitInv'
<1>1. PICK to \in {"error", "copy"} :
        /\ pump' = [pump EXCEPT ![p] = [step |-> to, size |-> 0]]
        /\ to = "copy" => pump[p].step = "write"
  BY DEF Limits!Write, Limits!At
<1>2. /\ pump[p].step \in {"write", "cut"} /\ got' = [got EXCEPT ![p] = got[p] + pump[p].size]
      /\ UNCHANGED <<emitted, body, chunks, given, saw>>
  BY DEF Limits!Write
<1>3. got[p] \in Nat /\ pump[p].size \in Nat /\ emitted \in Nat
  BY DEF LimitInv, LimitTypes
<1>4. LimitTypes'
  BY <1>1, <1>2, <1>3 DEF LimitInv, LimitTypes, Limits!PumpSteps
<1>5. /\ pump'[p] = [step |-> to, size |-> 0]
      /\ got'[p] = got[p] + pump[p].size
      /\ \A q \in Limits!Pumps \ {p} : pump'[q] = pump[q] /\ got'[q] = got[q]
  BY <1>1, <1>2 DEF LimitInv, LimitTypes
<1>6. Out(p) = got[p] + pump[p].size /\ Out(p)' = got[p] + pump[p].size + 0 /\ saw[p] = "data"
  BY <1>2, <1>3, <1>5 DEF Out, OnItsWay, LimitInv, NothingLeftOut
<1>7. Out(p)' - Out(p) <= emitted' - emitted
  BY <1>2, <1>3, <1>6
<1>8. /\ pump'[p].step \in {"copy", "write"} => Out(p)' = given'[p]
      /\ pump'[p].step # "end" /\ saw'[p] = "data"
  BY <1>1, <1>2, <1>3, <1>5, <1>6 DEF LimitInv, NothingLeftOut
<1> QED BY <1>2, <1>4, <1>5, <1>7, <1>8, LimitPartKeeps

LEMMA ClosePumpKeeps ==
  ASSUME LimitInv, NEW p \in Limits!Pumps, Limits!Close(p)
  PROVE  LimitInv'
<1>1. /\ pump[p].step \in {"error", "end"}
      /\ saw' = [saw EXCEPT ![p] = pump[p].step]
      /\ pump' = [pump EXCEPT ![p] = [step |-> "done", size |-> 0]]
      /\ UNCHANGED <<emitted, body, chunks, given, got>>
  BY DEF Limits!Close, Limits!At
<1>2. LimitTypes'
  BY <1>1 DEF LimitInv, LimitTypes, Limits!PumpSteps
<1>3. /\ pump'[p] = [step |-> "done", size |-> 0] /\ saw'[p] = pump[p].step
      /\ \A q \in Limits!Pumps \ {p} : pump'[q] = pump[q] /\ saw'[q] = saw[q]
      /\ got[p] \in Nat /\ emitted \in Nat
  BY <1>1 DEF LimitInv, LimitTypes
<1>4. Out(p) = got[p] /\ Out(p)' = got[p]
  BY <1>1, <1>3 DEF Out, OnItsWay
<1>5. Out(p)' - Out(p) <= emitted' - emitted
  BY <1>1, <1>3, <1>4
<1>6. saw'[p] = "end" => chunks'[p] = <<>> /\ got'[p] = given'[p]
  BY <1>1, <1>3 DEF LimitInv, NothingLeftOut
<1> QED BY <1>1, <1>2, <1>3, <1>5, <1>6, LimitPartKeeps

LEMMA LimitStep ==
  ASSUME LimitConstants, LimitInv, [Limits!Next]_limitVars
  PROVE  LimitInv'
<1>1. ASSUME UNCHANGED limitVars PROVE LimitInv'
  BY <1>1 DEF limitVars, LimitInv, LimitTypes, GoesOutCounted, NothingLeftOut, Out, OnItsWay
<1> QED BY <1>1, CopyKeeps, SourceEndsKeeps, WriteKeeps, ClosePumpKeeps DEF Limits!Next

LEMMA LimitInvSafe ==
  ASSUME LimitConstants, LimitInv
  PROVE  Limits!ResponseWhole
<1>1. \A p \in Limits!Pumps : Out(p) \in Nat /\ got[p] \in Nat /\ got[p] <= Out(p)
  BY LimitOut DEF LimitInv
<1>2. /\ got["reader"] \in Nat /\ got["reader"] <= Out("reader") /\ Out("reader") \in Nat
      /\ got["stream"] \in Nat /\ got["stream"] <= Out("stream") /\ Out("stream") \in Nat
  BY <1>1 DEF Limits!Pumps
<1>3. body + Out("reader") + Out("stream") <= emitted
  BY DEF LimitInv, GoesOutCounted
<1>4. emitted \in Nat /\ emitted <= MaxResponseBytes /\ MaxResponseBytes \in Nat /\ body \in Nat
  BY DEF LimitInv, LimitTypes, LimitConstants
<1>5. body + got["reader"] + got["stream"] <= MaxResponseBytes
  BY <1>2, <1>3, <1>4
<1> QED BY <1>5 DEF LimitInv, NothingLeftOut, Limits!ResponseWhole

LEMMA LimitAlways ==
  ASSUME LimitConstants
  PROVE  (Limits!Spec => []LimitInv) /\ (ServicesSpec => [](kind = "LIMITS" => LimitInv))
<1>1. LimitInv /\ [Limits!Next]_(Limits!vars) => LimitInv'
  BY LimitStep DEF Limits!vars, limitVars
<1>2. (kind = "LIMITS" => LimitInv) /\ [ServicesNext]_allVars => (kind = "LIMITS" => LimitInv)'
  BY LimitStep DEF ServicesNext, allVars, limitVars
<1>3. ServicesInit => (kind = "LIMITS" => LimitInv)
  BY LimitInitInv DEF ServicesInit
<1>4. Limits!Spec => []LimitInv
  BY <1>1, LimitInitInv, PTL DEF Limits!Spec
<1>5. ServicesSpec => [](kind = "LIMITS" => LimitInv)
  BY <1>2, <1>3, PTL DEF ServicesSpec
<1> QED BY <1>4, <1>5

-----------------------------------------------------------------------------
(* The lifecycle hooks of a MicroVM.                                        *)

\* What each hook's handler must have been preceded by, as HandlersInOrder has it.
Needs == [prepareImage |-> {}, start |-> {"prepareImage"}, readiness |-> {"start"},
          stop |-> {"readiness"}, teardown |-> {"stop"},
          validate |-> {}, run |-> {"validate"}, ready |-> {"run"},
          suspend |-> {"ready"}, resume |-> {"suspend"}, terminate |-> {"ready"},
          failure |-> {}]
InOrder(hooks) == \A h \in hooks : Needs[h] \subseteq hooks

\* The hook that has run when a session is in a state that hooks start from.
LastHook(hooks, s) ==
    IF hooks = Lifecycle!M15Hooks
      THEN CASE s = "imagePrepared" -> {"prepareImage"} [] s = "started" -> {"start"}
             [] s = "ready" -> {"readiness"} [] s = "stopped" -> {"stop"} [] OTHER -> {}
      ELSE CASE s = "validated" -> {"validate"} [] s = "running" -> {"run"}
             [] s = "ready" -> {"ready"} [] s = "suspended" -> {"suspend"} [] OTHER -> {}

Tables == {Lifecycle!M15Hooks, Lifecycle!M16Hooks}
HookTypes ==
    /\ contract.hooks \in Tables
    /\ contract.front = None \/ contract.front.to = "failed"
    /\ contract.transitions \subseteq Lifecycle!Transitions(contract.hooks)
    /\ Lifecycle!ValidateLifecycleContract(contract)

HookInv ==
    /\ HookTypes
    /\ LastHook(contract.hooks, state) \subseteq reached
    /\ InOrder(reached)
    /\ Lifecycle!ValidContractIsEnough

LEMMA M15Table ==
  /\ DOMAIN Lifecycle!M15Hooks = {"prepareImage", "start", "readiness", "stop", "teardown"}
  /\ Lifecycle!M15Hooks["prepareImage"]
       = Lifecycle!Hook({"requested"}, "imagePreparing", "imagePrepared")
  /\ Lifecycle!M15Hooks["start"] = Lifecycle!Hook({"imagePrepared"}, "starting", "started")
  /\ Lifecycle!M15Hooks["readiness"] = Lifecycle!Hook({"started"}, "readinessProbing", "ready")
  /\ Lifecycle!M15Hooks["stop"] = Lifecycle!Hook({"ready"}, "stopping", "stopped")
  /\ Lifecycle!M15Hooks["teardown"] = Lifecycle!Hook({"stopped"}, "tearingDown", "terminated")
  BY DEF Lifecycle!M15Hooks

LEMMA M16Table ==
  /\ DOMAIN Lifecycle!M16Hooks = {"validate", "run", "ready", "suspend", "resume", "terminate"}
  /\ Lifecycle!M16Hooks["validate"]
       = Lifecycle!Hook({"requested"}, "validating", "validated")
  /\ Lifecycle!M16Hooks["run"] = Lifecycle!Hook({"validated"}, "running", "running")
  /\ Lifecycle!M16Hooks["ready"] = Lifecycle!Hook({"running"}, "ready", "ready")
  /\ Lifecycle!M16Hooks["suspend"] = Lifecycle!Hook({"ready"}, "suspending", "suspended")
  /\ Lifecycle!M16Hooks["resume"] = Lifecycle!Hook({"suspended"}, "resuming", "ready")
  /\ Lifecycle!M16Hooks["terminate"]
       = Lifecycle!Hook({"ready", "suspended"}, "terminating", "terminated")
  BY DEF Lifecycle!M16Hooks

LEMMA NeedsTable ==
  /\ Needs["prepareImage"] = {} /\ Needs["start"] = {"prepareImage"}
  /\ Needs["readiness"] = {"start"} /\ Needs["stop"] = {"readiness"}
  /\ Needs["teardown"] = {"stop"} /\ Needs["validate"] = {} /\ Needs["run"] = {"validate"}
  /\ Needs["ready"] = {"run"} /\ Needs["suspend"] = {"ready"}
  /\ Needs["resume"] = {"suspend"} /\ Needs["terminate"] = {"ready"}
  /\ Needs["failure"] = {}
  BY DEF Needs

\* Where a hook's handler may run, the hooks that lead to it have run, and so they
\* have where it takes the session.
LEMMA HookRuns ==
  ASSUME NEW hooks \in Tables, NEW h \in DOMAIN hooks, NEW s, NEW ran,
         s \in hooks[h].before \/ (s = hooks[h].active /\ s = hooks[h].success),
         InOrder(ran), LastHook(hooks, s) \subseteq ran
  PROVE  /\ Needs[h] \subseteq ran
         /\ LastHook(hooks, hooks[h].success) \subseteq ran \cup {h}
         /\ LastHook(hooks, hooks[h].active) \subseteq ran \cup {h}
<1>1. CASE hooks = Lifecycle!M15Hooks
  <2>2. h \in {"prepareImage", "start", "readiness", "stop", "teardown"}
    BY <1>1, M15Table
  <2>3. CASE h = "prepareImage"
    BY <1>1, <2>3, M15Table, NeedsTable DEF Lifecycle!Hook, LastHook
  <2>4. CASE h = "start"
    BY <1>1, <2>4, M15Table, NeedsTable DEF Lifecycle!Hook, LastHook
  <2>5. CASE h = "readiness"
    BY <1>1, <2>5, M15Table, NeedsTable DEF Lifecycle!Hook, LastHook
  <2>6. CASE h = "stop"
    BY <1>1, <2>6, M15Table, NeedsTable DEF Lifecycle!Hook, LastHook
  <2>7. CASE h = "teardown"
    BY <1>1, <2>7, M15Table, NeedsTable DEF Lifecycle!Hook, LastHook
  <2> QED BY <2>2, <2>3, <2>4, <2>5, <2>6, <2>7
<1>2. CASE hooks = Lifecycle!M16Hooks
  <2>1. hooks # Lifecycle!M15Hooks
    <3>1. "run" \in DOMAIN hooks /\ "run" \notin DOMAIN Lifecycle!M15Hooks
      BY <1>2, M15Table, M16Table
    <3> QED BY <3>1
  <2>3. h \in {"validate", "run", "ready", "suspend", "resume", "terminate"}
    BY <1>2, M16Table
  <2>4. CASE h = "validate"
    BY <1>2, <2>1, <2>4, M16Table, NeedsTable DEF Lifecycle!Hook, LastHook
  <2>5. CASE h = "run"
    BY <1>2, <2>1, <2>5, M16Table, NeedsTable DEF Lifecycle!Hook, LastHook, InOrder
  <2>6. CASE h = "ready"
    BY <1>2, <2>1, <2>6, M16Table, NeedsTable DEF Lifecycle!Hook, LastHook, InOrder
  <2>7. CASE h = "suspend"
    BY <1>2, <2>1, <2>7, M16Table, NeedsTable DEF Lifecycle!Hook, LastHook
  <2>8. CASE h = "resume"
    BY <1>2, <2>1, <2>8, M16Table, NeedsTable DEF Lifecycle!Hook, LastHook, InOrder
  <2>9. CASE h = "terminate"
    BY <1>2, <2>1, <2>9, M16Table, NeedsTable DEF Lifecycle!Hook, LastHook, InOrder
  <2> QED BY <2>3, <2>4, <2>5, <2>6, <2>7, <2>8, <2>9
<1> QED BY <1>1, <1>2 DEF Tables

LEMMA NoActiveFailed ==
  ASSUME NEW hooks \in Tables, NEW h \in DOMAIN hooks
  PROVE  hooks[h].active # "failed" /\ h # "failure"
<1>1. CASE hooks = Lifecycle!M15Hooks
  BY <1>1, M15Table DEF Lifecycle!Hook
<1>2. CASE hooks = Lifecycle!M16Hooks
  BY <1>2, M16Table DEF Lifecycle!Hook
<1> QED BY <1>1, <1>2 DEF Tables

\* A transition of a table is into a hook's active state or out of it.
LEMMA TransitionIs ==
  ASSUME NEW hooks \in Tables, NEW t \in Lifecycle!Transitions(hooks), t.hook # "failure"
  PROVE  /\ t.hook \in DOMAIN hooks
         /\ \/ t.from \in hooks[t.hook].before /\ t.to = hooks[t.hook].active
            \/ t.from = hooks[t.hook].active /\ t.to = hooks[t.hook].success
<1>0. \/ \E h \in DOMAIN hooks : \E s \in hooks[h].before :
             t = Lifecycle!Transition(s, h, hooks[h].active)
      \/ \E h \in DOMAIN hooks :
             t = Lifecycle!Transition(hooks[h].active, h, hooks[h].success)
      \/ \E s \in Lifecycle!FailingStates(hooks) :
             t = Lifecycle!Transition(s, "failure", "failed")
  BY Zenon DEF Lifecycle!Transitions
<1>1. CASE \E h \in DOMAIN hooks : \E s \in hooks[h].before :
             t = Lifecycle!Transition(s, h, hooks[h].active)
  BY <1>1 DEF Lifecycle!Transition
<1>2. CASE \E h \in DOMAIN hooks :
             t = Lifecycle!Transition(hooks[h].active, h, hooks[h].success)
  BY <1>2 DEF Lifecycle!Transition
<1>3. ~ \E s \in Lifecycle!FailingStates(hooks) :
          t = Lifecycle!Transition(s, "failure", "failed")
  BY DEF Lifecycle!Transition
<1> QED BY <1>0, <1>1, <1>2, <1>3

\* The contracts a product may give.
LEMMA ContractsAre ==
  ASSUME contract \in Lifecycle!Contracts, Lifecycle!ValidateLifecycleContract(contract)
  PROVE  HookTypes
<1>1. PICK hooks \in Tables :
        LET all == Lifecycle!Transitions(hooks) IN
        contract \in [hooks : {hooks},
                      front : {None} \cup {[t EXCEPT !.to = "failed"] : t \in all},
                      transitions : {all} \cup {all \ {t} : t \in all}]
  BY DEF Lifecycle!Contracts, Tables
<1> DEFINE all == Lifecycle!Transitions(hooks)
<1>2. \A t \in all : [t EXCEPT !.to = "failed"].to = "failed"
  <2>1. ASSUME NEW t \in all
        PROVE  "to" \in DOMAIN t
    <3>1. \E from, h, to : t = Lifecycle!Transition(from, h, to)
      BY Zenon DEF Lifecycle!Transitions
    <3> QED BY <3>1 DEF Lifecycle!Transition
  <2> HIDE DEF all
  <2> QED BY <2>1
<1>3. /\ contract.hooks = hooks
      /\ contract.front \in {None} \cup {[t EXCEPT !.to = "failed"] : t \in all}
      /\ contract.transitions \in {all} \cup {all \ {t} : t \in all}
  BY <1>1
<1>4. contract.front = None \/ contract.front.to = "failed"
  BY <1>2, <1>3
<1>5. contract.transitions \subseteq all
  BY <1>3
<1> QED BY <1>3, <1>4, <1>5 DEF HookTypes

\* The states that the contract has after this one, for a hook of its table.
LEMMA NextStatesAre ==
  ASSUME HookTypes, NEW h, h # "failure", NEW to \in Lifecycle!NextStates(state, h)
  PROVE  \/ contract.front # None /\ to = "failed"
         \/ /\ h \in DOMAIN contract.hooks
            /\ \/ state \in contract.hooks[h].before /\ to = contract.hooks[h].active
               \/ state = contract.hooks[h].active /\ to = contract.hooks[h].success
<1>1. CASE contract.front # None /\ contract.front.from = state /\ contract.front.hook = h
  BY <1>1 DEF HookTypes, Lifecycle!NextStates
<1>2. CASE ~(contract.front # None /\ contract.front.from = state /\ contract.front.hook = h)
  <2>1. PICK t \in contract.transitions : t.from = state /\ t.hook = h /\ t.to = to
    BY <1>2 DEF Lifecycle!NextStates
  <2>2. t \in Lifecycle!Transitions(contract.hooks) /\ contract.hooks \in Tables
    BY DEF HookTypes
  <2> QED BY <2>1, <2>2, TransitionIs
<1> QED BY <1>1, <1>2

\* A step in which a handler runs, or none: where the session then is.
LEMMA HookKeeps ==
  ASSUME HookInv, NEW h,
         UNCHANGED contract,
         \/ reached' = reached /\ state' = state
         \/ /\ h \in DOMAIN contract.hooks
            /\ \/ state \in contract.hooks[h].before
               \/ state = contract.hooks[h].active /\ state = contract.hooks[h].success
            /\ reached' = reached \cup {h}
            /\ state' \in {"failed", state, contract.hooks[h].active, contract.hooks[h].success}
         \/ h = "failure" /\ reached' = reached \cup {h} /\ state' = "failed"
         \/ reached' = reached /\ state' = "failed",
         Lifecycle!ValidContractIsEnough'
  PROVE  HookInv'
<1> DEFINE hooks == contract.hooks
<1>1. HookTypes'
  BY DEF HookInv, HookTypes, Lifecycle!ValidateLifecycleContract, Lifecycle!Has
<1>2. LastHook(hooks, "failed") = {}
  BY DEF LastHook
<1>3. InOrder(reached) /\ LastHook(hooks, state) \subseteq reached
  BY DEF HookInv
<1> HIDE DEF hooks
<1>4. CASE /\ h \in DOMAIN contract.hooks
           /\ \/ state \in contract.hooks[h].before
              \/ state = contract.hooks[h].active /\ state = contract.hooks[h].success
           /\ reached' = reached \cup {h}
           /\ state' \in {"failed", state, contract.hooks[h].active,
                          contract.hooks[h].success}
  <2>1. /\ Needs[h] \subseteq reached
        /\ LastHook(hooks, contract.hooks[h].success) \subseteq reached \cup {h}
        /\ LastHook(hooks, contract.hooks[h].active) \subseteq reached \cup {h}
    <3>1. hooks \in Tables
      BY DEF HookInv, HookTypes, hooks
    <3> QED BY <1>3, <1>4, <3>1, HookRuns DEF hooks
  <2>2. LastHook(hooks, state') \subseteq reached'
    BY <1>2, <1>3, <1>4, <2>1
  <2>3. InOrder(reached')
    BY <1>3, <1>4, <2>1 DEF InOrder
  <2> QED BY <1>1, <2>2, <2>3 DEF HookInv, hooks
<1>5. CASE h = "failure" /\ reached' = reached \cup {h} /\ state' = "failed"
  <2>1. InOrder(reached')
    BY <1>3, <1>5, NeedsTable DEF InOrder
  <2> QED BY <1>1, <1>2, <1>5, <2>1 DEF HookInv, hooks
<1>6. CASE reached' = reached /\ state' \in {state, "failed"}
  BY <1>1, <1>2, <1>3, <1>6 DEF HookInv, hooks
<1> QED BY <1>4, <1>5, <1>6

LEMMA HookHandleKeeps ==
  ASSUME HookInv, NEW hook, NEW ok \in BOOLEAN, Lifecycle!Handle(hook, ok)
  PROVE  HookInv'
<1> DEFINE nexts == Lifecycle!NextStates(state, hook)
           active == CHOOSE s \in nexts : TRUE
           h == contract.hooks[hook]
           success == IF hook = "failure" THEN "failed" ELSE h.success
           rejected ==
             IF hook \notin Lifecycle!Hooks(contract) \/ nexts = {} THEN "unsupported"
             ELSE IF hook # "failure" /\ active # h.active THEN "inconsistent"
             ELSE IF hook \notin handlers THEN "noHandler"
             ELSE "none"
           supported == \/ hook = "failure"
                        \/ Lifecycle!Has(contract, Lifecycle!Transition(active, hook, success))
<1>1. /\ IF rejected # "none" THEN Lifecycle!Returns("failed", rejected) /\ UNCHANGED reached
         ELSE IF ~ok THEN Lifecycle!Returns("failed", "hookFailed") /\ UNCHANGED reached
         ELSE /\ reached' = reached \cup {hook}
              /\ IF supported THEN Lifecycle!Returns(success, "passed")
                 ELSE Lifecycle!Returns("failed", "inconsistent")
      /\ UNCHANGED <<contract, handlers>>
  BY DEF Lifecycle!Handle
<1>2. nexts # {} => active \in nexts
  OBVIOUS
<1>3. hook \in Lifecycle!Hooks(contract) => hook = "failure" \/ hook \in DOMAIN contract.hooks
  BY DEF Lifecycle!Hooks
<1>4. HookTypes /\ contract.hooks \in Tables
  BY DEF HookInv, HookTypes
<1>5. ASSUME hook # "failure", hook \in DOMAIN contract.hooks, nexts # {}, active = h.active
      PROVE  /\ state \in h.before \/ (state = h.active /\ state = h.success)
             /\ supported
  <2>1. active # "failed"
    BY <1>4, <1>5, NoActiveFailed
  <2> HIDE DEF active, nexts
  <2>2. \/ state \in h.before
        \/ state = h.active /\ active = h.success
    <3>1. active \in nexts
      BY <1>2, <1>5
    <3> QED BY <1>4, <1>5, <2>1, <3>1, NextStatesAre DEF nexts
  <2>3. Lifecycle!Has(contract, Lifecycle!Transition(h.active, hook, h.success))
    BY <1>4, <1>5 DEF HookTypes, Lifecycle!ValidateLifecycleContract
  <2>4. success = h.success
    BY <1>5
  <2> QED BY <1>5, <2>2, <2>3, <2>4
<1>6. ASSUME contract.front = None, hook # "failure", hook \in DOMAIN contract.hooks,
             nexts # {}, active # h.active
      PROVE  state = h.active /\ h.success # state
  <2> HIDE DEF active, nexts
  <2>1. active \in nexts
    BY <1>2, <1>6
  <2> QED BY <1>4, <1>6, <2>1, NextStatesAre DEF nexts
<1> HIDE DEF nexts, active, h, success, supported
<1>7. Lifecycle!ValidContractIsEnough'
  <2>1. ASSUME contract.front = None, result'.outcome = "inconsistent"
        PROVE  /\ hook \in DOMAIN contract.hooks /\ h.active = state /\ h.success # state
               /\ result'.from = state
    <3>1. rejected = "inconsistent"
      <4>1. CASE rejected # "none"
        BY <1>1, <2>1, <4>1 DEF Lifecycle!Returns
      <4>2. CASE rejected = "none"
        <5>1. hook # "failure" => active = h.active /\ hook \in DOMAIN contract.hooks
                                  /\ nexts # {}
          BY <1>3, <4>2
        <5>2. supported
          BY <1>5, <5>1 DEF supported
        <5> QED BY <1>1, <2>1, <4>2, <5>2 DEF Lifecycle!Returns
      <4> QED BY <4>1, <4>2
    <3>2. hook # "failure" /\ hook \in DOMAIN contract.hooks /\ nexts # {} /\ active # h.active
      BY <1>3, <3>1
    <3>3. result'.from = state
      BY <1>1, <3>1 DEF Lifecycle!Returns
    <3> QED BY <1>6, <2>1, <3>2, <3>3
  <2> QED BY <1>1, <2>1 DEF Lifecycle!ValidContractIsEnough, h
<1>8. CASE reached' = reached /\ state' = "failed"
  BY <1>1, <1>7, <1>8, HookKeeps
<1>9. CASE rejected = "none" /\ reached' = reached \cup {hook}
           /\ state' \in {success, "failed"}
  <2>1. CASE hook = "failure"
    <3>1. success = "failed"
      BY <2>1 DEF success
    <3> QED BY <1>1, <1>7, <1>9, <2>1, <3>1, HookKeeps
  <2>2. CASE hook # "failure"
    <3>1. hook \in DOMAIN contract.hooks /\ nexts # {} /\ active = h.active
      BY <1>3, <1>9, <2>2
    <3>2. state \in h.before \/ (state = h.active /\ state = h.success)
      BY <1>5, <2>2, <3>1
    <3>3. success = h.success
      BY <2>2 DEF success
    <3> QED BY <1>1, <1>7, <1>9, <3>1, <3>2, <3>3, HookKeeps DEF h
  <2> QED BY <2>1, <2>2
<1> QED BY <1>1, <1>8, <1>9 DEF Lifecycle!Returns

LEMMA InterruptedKeeps ==
  ASSUME HookInv, NEW hook, Lifecycle!Interrupted(hook)
  PROVE  HookInv'
<1> DEFINE h == contract.hooks[hook]
<1>1. /\ hook \in DOMAIN contract.hooks /\ h.active \in Lifecycle!NextStates(state, hook)
      /\ state' \in {state, h.active} /\ reached' = reached \cup {hook}
      /\ UNCHANGED <<contract, handlers, result>>
  BY DEF Lifecycle!Interrupted
<1>2. HookTypes /\ h.active # "failed" /\ hook # "failure"
  BY <1>1, NoActiveFailed DEF HookInv, HookTypes
<1>3. state \in h.before \/ (state = h.active /\ state = h.success)
  BY <1>1, <1>2, NextStatesAre
<1>4. Lifecycle!ValidContractIsEnough'
  BY <1>1 DEF HookInv, Lifecycle!ValidContractIsEnough
<1> QED BY <1>1, <1>3, <1>4, HookKeeps

LEMMA HookInitInv ==
  ASSUME Lifecycle!Init
  PROVE  HookInv
<1>1. contract \in Lifecycle!Contracts /\ Lifecycle!ValidateLifecycleContract(contract)
  BY DEF Lifecycle!Init
<1>2. state = "requested" /\ reached = {} /\ result.outcome = "none"
  BY DEF Lifecycle!Init
<1>3. LastHook(contract.hooks, state) = {}
  BY <1>2 DEF LastHook
<1> QED BY <1>1, <1>2, <1>3, ContractsAre
        DEF HookInv, InOrder, Lifecycle!ValidContractIsEnough

LEMMA HookStep ==
  ASSUME HookInv, [Lifecycle!Next]_(Lifecycle!vars)
  PROVE  HookInv'
<1>1. CASE Lifecycle!Next
  BY <1>1, HookHandleKeeps, InterruptedKeeps DEF Lifecycle!Next
<1>2. CASE UNCHANGED Lifecycle!vars
  <2>1. Lifecycle!ValidContractIsEnough'
    BY <1>2 DEF Lifecycle!vars, HookInv, Lifecycle!ValidContractIsEnough
  <2> QED BY <1>2, <2>1, HookKeeps DEF Lifecycle!vars
<1> QED BY <1>1, <1>2

LEMMA HookInvSound ==
  ASSUME HookInv
  PROVE  Lifecycle!LifecycleSound
  BY DEF HookInv, InOrder, Needs, Lifecycle!LifecycleSound, Lifecycle!HandlersInOrder

\* The invariant holds in every state of an adapter, alone and in MCServices.
LEMMA HookAlways ==
  /\ Lifecycle!Spec => []HookInv
  /\ ServicesSpec => [](kind = "LIFECYCLE" => HookInv)
<1>1. HookInv /\ [Lifecycle!Next]_(Lifecycle!vars) => HookInv'
  BY HookStep
<1>2. (kind = "LIFECYCLE" => HookInv) /\ [ServicesNext]_allVars
        => (kind = "LIFECYCLE" => HookInv)'
  BY HookStep DEF ServicesNext, allVars, lifecycleVars, Lifecycle!vars
<1>3. ServicesInit => (kind = "LIFECYCLE" => HookInv)
  BY HookInitInv DEF ServicesInit
<1>4. Lifecycle!Spec => []HookInv
  BY <1>1, HookInitInv, PTL DEF Lifecycle!Spec
<1>5. ServicesSpec => [](kind = "LIFECYCLE" => HookInv)
  BY <1>2, <1>3, PTL DEF ServicesSpec
<1> QED BY <1>4, <1>5

-----------------------------------------------------------------------------
(* Numbers: of those for which a statement fails, one is the least.          *)

\* Induction over finite sets, and with it over numbers.
LEMMA LeastSubset ==
  ASSUME NEW S, IsFiniteSet(S), NEW B, B \subseteq SUBSET S, B # {}
  PROVE  \E T \in B : \A U \in B : U \subseteq T => U = T
<1> DEFINE R == StrictSubsetOrdering(S)
<1>1. IsWellFoundedOn(R, FiniteSubsetsOf(S))
  BY FS_StrictSubsetOrderingWellFounded
<1>2. B \subseteq FiniteSubsetsOf(S)
  BY FS_Subset DEF FiniteSubsetsOf
<1>3. \E x \in B : \A y \in B : ~ (<<y, x>> \in R)
  <2> HIDE DEF R
  <2> QED BY <1>1, <1>2, WFMin
<1> QED BY <1>3 DEF StrictSubsetOrdering

LEMMA LeastNumber ==
  ASSUME NEW B \in SUBSET Nat, B # {}
  PROVE  \E m \in B : \A k \in B : m <= k
<1>1. PICK n \in B : TRUE
  OBVIOUS
<1> DEFINE upto == {0 .. k : k \in {j \in B : j <= n}}
<1>2. IsFiniteSet(0 .. n) /\ upto \subseteq SUBSET (0 .. n) /\ upto # {}
  <2>1. n \in Nat
    BY <1>1
  <2>2. IsFiniteSet(0 .. n)
    BY <2>1, FS_Interval
  <2> QED BY <1>1, <2>1, <2>2
<1>3. PICK T \in upto : \A U \in upto : U \subseteq T => U = T
  <2> DEFINE S == 0 .. n
  <2>1. IsFiniteSet(S) /\ upto \subseteq SUBSET S /\ upto # {}
    BY <1>2
  <2> HIDE DEF upto, S
  <2> QED BY ONLY <2>1, LeastSubset
<1>4. PICK m \in B : m <= n /\ T = 0 .. m
  BY <1>3
<1>5. ASSUME NEW k \in B, ~ (m <= k)
      PROVE  FALSE
  <2>1. k \in Nat /\ m \in Nat /\ n \in Nat /\ k <= n /\ k < m
    BY <1>1, <1>4, <1>5
  <2>2. 0 .. k \in upto /\ 0 .. k \subseteq 0 .. m
    BY <2>1, <1>5
  <2>3. 0 .. k = 0 .. m
    BY <1>3, <1>4, <2>2
  <2>4. m \in 0 .. m /\ m \notin 0 .. k
    BY <2>1
  <2> QED BY <2>3, <2>4
<1> QED BY <1>5

LEMMA GreatestNumber ==
  ASSUME NEW n \in Nat, NEW I \in SUBSET (1 .. n), I # {}
  PROVE  \E m \in I : \A k \in I : k <= m
<1> DEFINE B == {n - i : i \in I}
<1>1. B \in SUBSET Nat /\ B # {}
  <2>1. \A i \in I : n - i \in Nat
    OBVIOUS
  <2> QED BY <2>1
<1>2. PICK b \in B : \A k \in B : b <= k
  <2> HIDE DEF B
  <2> QED BY <1>1, LeastNumber
<1>3. PICK m \in I : b = n - m
  BY <1>2
<1>4. \A k \in I : n - m <= n - k
  BY <1>2, <1>3
<1> QED BY <1>3, <1>4

-----------------------------------------------------------------------------
(* The routes.                                                              *)

\* The bounds of the router are numbers.
RouteConstants == MaxRoutes \in Nat /\ MaxLength \in Nat

\* What a route is, for the proofs: how many of its segments are of each kind.
Statics(p) == {i \in DOMAIN p : p[i].kind = "static"}
Parameters(p) == {i \in DOMAIN p : p[i].kind = "param"}
Proxies(p) == {i \in DOMAIN p : p[i].kind = "proxy"}

LEMMA PatternIs ==
  ASSUME RouteConstants, NEW p \in Routes!Patterns
  PROVE  /\ Len(p) \in Nat /\ DOMAIN p = 1 .. Len(p)
         /\ \A i \in DOMAIN p : p[i].kind \in {"static", "param", "proxy"}
         /\ \A i \in DOMAIN p : p[i].kind = "proxy" => i = Len(p)
<1>1. p \in Routes!SeqsOf(Routes!Static \cup Routes!Param \cup Routes!Proxy, MaxLength)
  BY DEF Routes!Patterns
<1>2. PICK k \in 0 .. MaxLength :
         p \in [1 .. k -> Routes!Static \cup Routes!Param \cup Routes!Proxy]
  BY <1>1 DEF Routes!SeqsOf
<1>3. k \in Nat /\ Len(p) = k /\ DOMAIN p = 1 .. Len(p)
  BY <1>2 DEF RouteConstants
<1>4. \A i \in DOMAIN p : p[i].kind \in {"static", "param", "proxy"}
  BY <1>2 DEF Routes!Static, Routes!Param, Routes!Proxy
<1> QED BY <1>3, <1>4 DEF Routes!Patterns

\* Every segment is of one kind, and only the last can be a proxy.
LEMMA KindsCounted ==
  ASSUME RouteConstants, NEW p \in Routes!Patterns
  PROVE  /\ IsFiniteSet(Statics(p)) /\ IsFiniteSet(Parameters(p)) /\ IsFiniteSet(Proxies(p))
         /\ Routes!CountOf(p, "static") = Cardinality(Statics(p))
         /\ Routes!CountOf(p, "param") = Cardinality(Parameters(p))
         /\ Cardinality(Statics(p)) \in Nat /\ Cardinality(Parameters(p)) \in Nat
         /\ Cardinality(Statics(p)) + Cardinality(Parameters(p))
              = IF Routes!HasProxy(p) THEN Len(p) - 1 ELSE Len(p)
         /\ Routes!HasProxy(p) => Len(p) \in Proxies(p)
         /\ ~Routes!HasProxy(p) => Proxies(p) = {}
<1>0. /\ Len(p) \in Nat /\ DOMAIN p = 1 .. Len(p)
      /\ \A i \in DOMAIN p : p[i].kind \in {"static", "param", "proxy"}
      /\ \A i \in DOMAIN p : p[i].kind = "proxy" => i = Len(p)
  BY PatternIs
<1>1. IsFiniteSet(DOMAIN p) /\ Cardinality(DOMAIN p) = Len(p)
  <2>1. IsFiniteSet(1 .. Len(p)) /\ Cardinality(1 .. Len(p)) = Len(p)
    <3> DEFINE n == Len(p)
    <3>1. n \in Nat /\ 1 \in Int
      BY <1>0
    <3> HIDE DEF n
    <3>2. IsFiniteSet(1 .. n) /\ Cardinality(1 .. n) = n
      BY ONLY <3>1, FS_Interval
    <3> QED BY <3>2 DEF n
  <2> QED BY <1>0, <2>1
<1>2. /\ Statics(p) \in SUBSET DOMAIN p /\ Parameters(p) \in SUBSET DOMAIN p
      /\ Proxies(p) \in SUBSET DOMAIN p
  BY DEF Statics, Parameters, Proxies
<1>3. IsFiniteSet(Statics(p)) /\ IsFiniteSet(Parameters(p)) /\ IsFiniteSet(Proxies(p))
  BY <1>1, <1>2, FS_Subset
<1>4. /\ Routes!CountOf(p, "static") = Cardinality(Statics(p))
      /\ Routes!CountOf(p, "param") = Cardinality(Parameters(p))
      /\ Routes!CountOf(p, "proxy") = Cardinality(Proxies(p))
  BY DEF Routes!CountOf, Statics, Parameters, Proxies, Routes!Cardinality, Cardinality
<1>5. /\ Cardinality(Statics(p)) \in Nat /\ Cardinality(Parameters(p)) \in Nat
      /\ Cardinality(Proxies(p)) \in Nat
  BY <1>3, FS_CardinalityType
<1>6. Cardinality(Statics(p) \cup Parameters(p))
        = Cardinality(Statics(p)) + Cardinality(Parameters(p))
  <2>1. Statics(p) \cap Parameters(p) = {}
    BY DEF Statics, Parameters
  <2>2. Cardinality(Statics(p) \cup Parameters(p)) = Cardinality(Statics(p))
          + Cardinality(Parameters(p)) - Cardinality(Statics(p) \cap Parameters(p))
    BY ONLY <1>3, FS_Union
  <2> QED BY <1>5, <2>1, <2>2, FS_EmptySet
<1>7. Statics(p) \cup Parameters(p) = DOMAIN p \ Proxies(p)
  BY <1>0 DEF Statics, Parameters, Proxies
<1>8. CASE Proxies(p) = {}
  <2>1. Cardinality(Proxies(p)) = 0
    BY <1>8, FS_EmptySet
  <2>2. ~Routes!HasProxy(p)
    BY <1>4, <2>1 DEF Routes!HasProxy
  <2>3. Statics(p) \cup Parameters(p) = DOMAIN p
    BY <1>7, <1>8
  <2> QED BY <1>1, <1>3, <1>4, <1>5, <1>6, <1>8, <2>2, <2>3
<1>9. CASE Proxies(p) # {}
  <2>1. Proxies(p) = {Len(p)} /\ Len(p) \in DOMAIN p
    BY <1>0, <1>9 DEF Proxies
  <2>2. Cardinality(Proxies(p)) = 1
    BY <2>1, FS_Singleton
  <2>3. Routes!HasProxy(p)
    BY <1>4, <2>2 DEF Routes!HasProxy
  <2>4. Cardinality(DOMAIN p \ {Len(p)}) = Len(p) - 1
    BY <1>1, <2>1, FS_RemoveElement
  <2> QED BY <1>3, <1>4, <1>5, <1>6, <1>7, <2>1, <2>3, <2>4
<1> QED BY <1>8, <1>9

\* a is greater than b in the order of lists of five numbers.
Greater(a1, a2, a3, a4, a5, b1, b2, b3, b4, b5) ==
    \/ a1 > b1
    \/ a1 = b1 /\ a2 > b2
    \/ a1 = b1 /\ a2 = b2 /\ a3 > b3
    \/ a1 = b1 /\ a2 = b2 /\ a3 = b3 /\ a4 > b4
    \/ a1 = b1 /\ a2 = b2 /\ a3 = b3 /\ a4 = b4 /\ a5 > b5

\* The order of the routes, by the five numbers that it compares.
SCount(r) == Cardinality(Statics(r.pattern))
PCount(r) == Cardinality(Parameters(r.pattern))
Unproxied(r) == IF Routes!HasProxy(r.pattern) THEN 0 ELSE 1
Length(r) == Len(r.pattern)
Early(r) == MaxRoutes - r.order
MoreSpecific(a, b) ==
    Greater(SCount(a), PCount(a), Unproxied(a), Length(a), Early(a),
            SCount(b), PCount(b), Unproxied(b), Length(b), Early(b))

LEMMA RouteNumbers ==
  ASSUME RouteConstants, NEW r \in Routes!Route
  PROVE  /\ r.pattern \in Routes!Patterns /\ r.order \in Nat
         /\ SCount(r) \in Int /\ PCount(r) \in Int /\ Unproxied(r) \in Int
         /\ Length(r) \in Int /\ Early(r) \in Int
<1>1. r.pattern \in Routes!Patterns /\ r.order \in Nat
  BY DEF Routes!Route, RouteConstants
<1>2. SCount(r) \in Int /\ PCount(r) \in Int /\ Length(r) \in Int
  BY <1>1, KindsCounted, PatternIs DEF SCount, PCount, Length
<1>3. Unproxied(r) \in Int
  BY DEF Unproxied
<1>4. Early(r) \in Int
  BY <1>1 DEF Early, RouteConstants
<1> QED BY <1>1, <1>2, <1>3, <1>4

\* It is an order.
LEMMA MoreSpecificTrans ==
  ASSUME RouteConstants, NEW a \in Routes!Route, NEW b \in Routes!Route, NEW c \in Routes!Route
  PROVE  /\ ~MoreSpecific(a, a)
         /\ MoreSpecific(a, b) => ~MoreSpecific(b, a)
         /\ MoreSpecific(a, b) /\ MoreSpecific(c, a) => MoreSpecific(c, b)
<1>1. /\ SCount(a) \in Int /\ PCount(a) \in Int /\ Unproxied(a) \in Int /\ Length(a) \in Int
      /\ Early(a) \in Int
  BY RouteNumbers
<1>2. /\ SCount(b) \in Int /\ PCount(b) \in Int /\ Unproxied(b) \in Int /\ Length(b) \in Int
      /\ Early(b) \in Int
  BY RouteNumbers
<1>3. /\ SCount(c) \in Int /\ PCount(c) \in Int /\ Unproxied(c) \in Int /\ Length(c) \in Int
      /\ Early(c) \in Int
  BY RouteNumbers
<1>4. ~MoreSpecific(a, a)
  BY ONLY <1>1 DEF MoreSpecific, Greater
<1>5. MoreSpecific(a, b) => ~MoreSpecific(b, a)
  BY ONLY <1>1, <1>2 DEF MoreSpecific, Greater
<1>6. MoreSpecific(a, b) /\ MoreSpecific(c, a) => MoreSpecific(c, b)
  BY ONLY <1>1, <1>2, <1>3 DEF MoreSpecific, Greater
<1> QED BY <1>4, <1>5, <1>6

LEMMA MoreSpecificIs ==
  ASSUME RouteConstants, NEW a \in Routes!Route, NEW b \in Routes!Route
  PROVE  Routes!RouteMoreSpecific(a, b) <=> MoreSpecific(a, b)
<1> DEFINE rank(r) == <<Routes!CountOf(r.pattern, "static"), Routes!CountOf(r.pattern, "param"),
                        IF Routes!HasProxy(r.pattern) THEN 0 ELSE 1, Len(r.pattern),
                        MaxRoutes - r.order>>
           differs == {i \in 1 .. 5 : rank(a)[i] # rank(b)[i]}
<1>1. Routes!RouteMoreSpecific(a, b)
        <=> \E i \in differs : (\A j \in differs : i <= j) /\ rank(a)[i] > rank(b)[i]
  BY DEF Routes!RouteMoreSpecific
<1>2. ASSUME NEW r \in Routes!Route
      PROVE  /\ rank(r)[1] = SCount(r) /\ rank(r)[2] = PCount(r) /\ rank(r)[3] = Unproxied(r)
             /\ rank(r)[4] = Length(r) /\ rank(r)[5] = Early(r)
             /\ \A i \in 1 .. 5 : rank(r)[i] \in Int
  <2>1. Routes!CountOf(r.pattern, "static") = SCount(r)
        /\ Routes!CountOf(r.pattern, "param") = PCount(r)
    BY RouteNumbers, KindsCounted DEF SCount, PCount
  <2>2. rank(r) = <<SCount(r), PCount(r), Unproxied(r), Length(r), Early(r)>>
    BY <2>1 DEF Unproxied, Length, Early
  <2>3. /\ SCount(r) \in Int /\ PCount(r) \in Int /\ Unproxied(r) \in Int
        /\ Length(r) \in Int /\ Early(r) \in Int
    BY RouteNumbers
  <2> HIDE DEF rank
  <2> QED BY <2>2, <2>3
<1> HIDE DEF rank
<1>3. (\E i \in differs : (\A j \in differs : i <= j) /\ rank(a)[i] > rank(b)[i])
        <=> Greater(rank(a)[1], rank(a)[2], rank(a)[3], rank(a)[4], rank(a)[5],
                    rank(b)[1], rank(b)[2], rank(b)[3], rank(b)[4], rank(b)[5])
  <2>1. \A i \in 1 .. 5 : rank(a)[i] \in Int /\ rank(b)[i] \in Int
    BY <1>2
  <2>2. 1 .. 5 = {1, 2, 3, 4, 5}
    OBVIOUS
  <2> QED BY ONLY <2>1, <2>2 DEF Greater
<1> HIDE DEF differs
<1>4. /\ rank(a)[1] = SCount(a) /\ rank(a)[2] = PCount(a) /\ rank(a)[3] = Unproxied(a)
      /\ rank(a)[4] = Length(a) /\ rank(a)[5] = Early(a)
      /\ rank(b)[1] = SCount(b) /\ rank(b)[2] = PCount(b) /\ rank(b)[3] = Unproxied(b)
      /\ rank(b)[4] = Length(b) /\ rank(b)[5] = Early(b)
  BY <1>2
<1> QED BY ONLY <1>1, <1>3, <1>4, Zenon DEF MoreSpecific

\* The pass of Match over the first n routes, as a function of how far it came.
IsPass(g, rs, method, path, n) ==
    g = [k \in 0 .. n |->
           IF k = 0 THEN Routes!NoRoute
           ELSE IF /\ rs[k].method = method
                   /\ Routes!MatchRoute(rs[k].pattern, path)
                   /\ g[k - 1] = Routes!NoRoute \/ Routes!RouteMoreSpecific(rs[k], g[k - 1])
                  THEN rs[k] ELSE g[k - 1]]

\* A pass over any number of routes exists, by induction, and Match is one.
LEMMA PassExists ==
  ASSUME NEW rs, NEW method, NEW path, NEW n \in Nat
  PROVE  \E g : IsPass(g, rs, method, path, n)
<1> DEFINE P(g, k) == IsPass(g, rs, method, path, k)
           B == {k \in Nat : ~ \E g : P(g, k)}
<1> SUFFICES B = {}
  OBVIOUS
<1> SUFFICES ASSUME B # {} PROVE FALSE
  OBVIOUS
<1>1. PICK m \in B : \A k \in B : m <= k
  <2>1. B \in SUBSET Nat
    OBVIOUS
  <2> HIDE DEF B
  <2> QED BY <2>1, LeastNumber
<1>2. m \in Nat /\ ~ \E g : P(g, m)
  BY <1>1
<1>3. m # 0
  <2> DEFINE g == [k \in 0 .. 0 |-> Routes!NoRoute]
  <2>1. P(g, 0)
    BY DEF IsPass
  <2> HIDE DEF P, g
  <2> QED BY <1>2, <2>1
<1>4. m - 1 \in Nat /\ m - 1 \notin B
  <2>1. m - 1 \in Nat /\ ~ (m <= m - 1)
    BY <1>2, <1>3
  <2> HIDE DEF B
  <2> QED BY <1>1, <2>1
<1>5. PICK g : P(g, m - 1)
  BY <1>4
<1> DEFINE value(h, k) ==
             IF k = 0 THEN Routes!NoRoute
             ELSE IF /\ rs[k].method = method
                     /\ Routes!MatchRoute(rs[k].pattern, path)
                     /\ h[k - 1] = Routes!NoRoute \/ Routes!RouteMoreSpecific(rs[k], h[k - 1])
                    THEN rs[k] ELSE h[k - 1]
           h == [k \in 0 .. m |-> IF k = m THEN value(g, m) ELSE g[k]]
<1>6. g = [k \in 0 .. m - 1 |-> value(g, k)]
  BY <1>5 DEF IsPass
<1>7. \A k \in 0 .. m : h[k] = value(h, k)
  <2> SUFFICES ASSUME NEW k \in 0 .. m PROVE h[k] = value(h, k)
    OBVIOUS
  <2>1. CASE k = 0
    <3>1. h[0] = g[0] /\ g[0] = Routes!NoRoute
      BY <1>2, <1>3, <1>4, <1>6
    <3> HIDE DEF h
    <3> QED BY <2>1, <3>1
  <2>2. CASE k # 0
    <3>1. h[k - 1] = g[k - 1]
      BY <1>2, <2>2
    <3>2. h[k] = value(g, k)
      <4>1. k = m \/ k \in 0 .. m - 1
        BY <1>2
      <4> HIDE DEF value
      <4> QED BY <1>2, <1>6, <4>1
    <3> HIDE DEF h
    <3> QED BY <2>2, <3>1, <3>2
  <2> QED BY <2>1, <2>2
<1>8. h = [k \in 0 .. m |-> value(h, k)]
  <2>1. h = [k \in 0 .. m |-> h[k]]
    OBVIOUS
  <2> HIDE DEF h, value
  <2> QED BY <1>7, <2>1
<1>9. P(h, m)
  <2> HIDE DEF h
  <2> QED BY <1>8 DEF IsPass
<1> HIDE DEF P, h
<1> QED BY <1>2, <1>9

LEMMA MatchIsPass ==
  ASSUME NEW rs \in Seq(Routes!Route), NEW method, NEW path
  PROVE  \E g : /\ IsPass(g, rs, method, path, Len(rs))
                /\ Routes!Match(rs, method, path) = g[Len(rs)]
<1> DEFINE n == Len(rs)
           best == CHOOSE g : IsPass(g, rs, method, path, n)
<1>1. n \in Nat
  OBVIOUS
<1>2. IsPass(best, rs, method, path, n)
  <2> HIDE DEF n
  <2> QED BY <1>1, PassExists
<1>3. Routes!Match(rs, method, path) = best[n]
  BY DEF Routes!Match, IsPass
<1> HIDE DEF best, n
<1> QED BY <1>2, <1>3 DEF n

\* What Match returns: a route that takes the path, than which no other that does is
\* more specific, if there is one at all.
Takers(rs, method, path, n) ==
    {k \in 1 .. n : rs[k].method = method /\ Routes!MatchRoute(rs[k].pattern, path)}
BestOf(r, rs, takers) ==
    /\ r = Routes!NoRoute <=> takers = {}
    /\ takers # {} => (\E k \in takers : r = rs[k])
    /\ \A k \in takers : ~MoreSpecific(rs[k], r)

LEMMA RouteIsRoute ==
  ASSUME NEW r \in Routes!Route
  PROVE  r # Routes!NoRoute
  BY DEF Routes!Route, Routes!NoRoute

\* One step of the pass.
LEMMA BestExtends ==
  ASSUME RouteConstants, NEW rs \in Seq(Routes!Route), NEW method, NEW path,
         NEW m \in 1 .. Len(rs), NEW old, NEW new,
         BestOf(old, rs, Takers(rs, method, path, m - 1)),
         new = IF /\ rs[m].method = method
                  /\ Routes!MatchRoute(rs[m].pattern, path)
                  /\ old = Routes!NoRoute \/ Routes!RouteMoreSpecific(rs[m], old)
                 THEN rs[m] ELSE old
  PROVE  BestOf(new, rs, Takers(rs, method, path, m))
<1> DEFINE before == Takers(rs, method, path, m - 1)
           after == Takers(rs, method, path, m)
           takes == rs[m].method = method /\ Routes!MatchRoute(rs[m].pattern, path)
<1>1. /\ rs[m] \in Routes!Route /\ rs[m] # Routes!NoRoute
      /\ \A k \in before : rs[k] \in Routes!Route
  <2>1. \A k \in before : k \in 1 .. Len(rs)
    BY DEF Takers
  <2> HIDE DEF before
  <2> QED BY <2>1, RouteIsRoute
<1>2. after = before \cup (IF takes THEN {m} ELSE {})
  BY DEF Takers
<1>3. new = IF takes /\ (old = Routes!NoRoute \/ Routes!RouteMoreSpecific(rs[m], old))
             THEN rs[m] ELSE old
  OBVIOUS
<1>4. BestOf(old, rs, before)
  OBVIOUS
<1> HIDE DEF before, after, takes
<1>5. BestOf(new, rs, after)
  <2>1. CASE ~takes
    <3>1. new = old /\ after = before
      BY <1>2, <1>3, <2>1
    <3> QED BY <1>4, <3>1
  <2>2. CASE takes /\ old = Routes!NoRoute
    <3>1. new = rs[m] /\ after = {m}
      BY <1>2, <1>3, <1>4, <2>2 DEF BestOf
    <3>2. ~MoreSpecific(rs[m], rs[m])
      BY <1>1, MoreSpecificTrans
    <3> QED BY <1>1, <3>1, <3>2 DEF BestOf
  <2>3. CASE takes /\ old # Routes!NoRoute
    <3>1. PICK j \in before : old = rs[j] /\ old \in Routes!Route
      BY <1>1, <1>4, <2>3 DEF BestOf
    <3>2. after = before \cup {m}
      BY <1>2, <2>3
    <3>3. CASE Routes!RouteMoreSpecific(rs[m], old)
      <4>1. new = rs[m]
        BY <1>3, <2>3, <3>3
      <4>2. MoreSpecific(rs[m], old)
        BY <1>1, <3>1, <3>3, MoreSpecificIs
      <4>3. \A k \in after : ~MoreSpecific(rs[k], rs[m])
        <5> SUFFICES ASSUME NEW k \in after PROVE ~MoreSpecific(rs[k], rs[m])
          OBVIOUS
        <5>1. CASE k = m
          BY <1>1, <5>1, MoreSpecificTrans
        <5>2. CASE k \in before
          <6>1. ~MoreSpecific(rs[k], old) /\ rs[k] \in Routes!Route
            BY <1>1, <1>4, <5>2 DEF BestOf
          <6> QED BY <1>1, <3>1, <4>2, <6>1, MoreSpecificTrans
        <5> QED BY <3>2, <5>1, <5>2
      <4> QED BY <1>1, <3>2, <4>1, <4>3 DEF BestOf
    <3>4. CASE ~Routes!RouteMoreSpecific(rs[m], old)
      <4>1. new = old
        BY <1>3, <2>3, <3>4
      <4>2. ~MoreSpecific(rs[m], old)
        BY <1>1, <3>1, <3>4, MoreSpecificIs
      <4> QED BY <1>4, <2>3, <3>1, <3>2, <4>1, <4>2 DEF BestOf
    <3> QED BY <3>3, <3>4
  <2> QED BY <2>1, <2>2, <2>3
<1> QED BY <1>5 DEF after

LEMMA MatchIs ==
  ASSUME RouteConstants, NEW rs \in Seq(Routes!Route), NEW method, NEW path
  PROVE  BestOf(Routes!Match(rs, method, path), rs, Takers(rs, method, path, Len(rs)))
<1> DEFINE n == Len(rs)
<1>0. n \in Nat
  OBVIOUS
<1>1. PICK g : IsPass(g, rs, method, path, n) /\ Routes!Match(rs, method, path) = g[n]
  BY MatchIsPass
<1> HIDE DEF n
<1> DEFINE GoodUpTo(k) == BestOf(g[k], rs, Takers(rs, method, path, k))
           B == {k \in 0 .. n : ~GoodUpTo(k)}
<1> SUFFICES B = {}
  BY <1>0, <1>1 DEF n
<1> SUFFICES ASSUME B # {} PROVE FALSE
  OBVIOUS
<1>2. PICK m \in B : \A k \in B : m <= k
  <2>1. B \in SUBSET Nat
    BY <1>0
  <2> HIDE DEF B
  <2> QED BY <2>1, LeastNumber
<1>3. m \in 0 .. n /\ ~GoodUpTo(m)
  BY <1>2
<1>4. GoodUpTo(0)
  <2>1. g[0] = Routes!NoRoute
    BY <1>0, <1>1 DEF IsPass
  <2>2. Takers(rs, method, path, 0) = {}
    BY DEF Takers
  <2> QED BY <2>1, <2>2 DEF BestOf
<1>5. m \in 1 .. n /\ m - 1 \in 0 .. n
  <2> HIDE DEF GoodUpTo
  <2> QED BY <1>0, <1>3, <1>4
<1>6. GoodUpTo(m - 1)
  <2>1. ~ (m <= m - 1)
    BY <1>0, <1>5
  <2>2. m - 1 \notin B
    <3> HIDE DEF B
    <3> QED BY <1>2, <2>1
  <2> QED BY <1>5, <2>2
<1>7. g[m] = IF /\ rs[m].method = method
                /\ Routes!MatchRoute(rs[m].pattern, path)
                /\ g[m - 1] = Routes!NoRoute \/ Routes!RouteMoreSpecific(rs[m], g[m - 1])
               THEN rs[m] ELSE g[m - 1]
  BY <1>0, <1>1, <1>5 DEF IsPass
<1>8. GoodUpTo(m)
  BY <1>5, <1>6, <1>7, BestExtends DEF n
<1> QED BY <1>3, <1>8

\* What "more literal" means in these sets.
LEMMA LiteralOrNot ==
  ASSUME RouteConstants, NEW p \in Routes!Patterns, NEW i, Len(p) \in Nat
  PROVE  /\ i \in Statics(p) <=> i \in DOMAIN p /\ p[i].kind = "static"
         /\ i \in Statics(p) \cup Parameters(p) <=> i \in DOMAIN p /\ p[i].kind # "proxy"
         /\ i \in Nat \ {0} => (Routes!Literal(p, i) <=> i \in Statics(p))
         /\ i \in Nat \ {0} => (Routes!Bound(p, i) <=> i \in Statics(p) \cup Parameters(p))
<1>1. /\ DOMAIN p = 1 .. Len(p)
      /\ \A j \in DOMAIN p : p[j].kind \in {"static", "param", "proxy"}
  BY PatternIs
<1> QED BY <1>1 DEF Statics, Parameters, Routes!Literal, Routes!Bound

LEMMA PathIs ==
  ASSUME RouteConstants, NEW path \in Routes!Paths
  PROVE  Len(path) \in Nat /\ DOMAIN path = 1 .. Len(path)
<1>1. PICK k \in 0 .. MaxLength : path \in [1 .. k -> Words \cup {"another", Routes!Empty}]
  BY DEF Routes!Paths, Routes!SeqsOf
<1> QED BY <1>1 DEF RouteConstants

\* Of two routes that take a path, of which the first is not more specific and yet
\* as literal everywhere, the second is as literal and not the later one.
LEMMA LiteralAlike ==
  ASSUME RouteConstants, NEW path \in Routes!Paths,
         NEW a \in Routes!Route, NEW b \in Routes!Route,
         Routes!MatchRoute(a.pattern, path), Routes!MatchRoute(b.pattern, path),
         ~MoreSpecific(a, b),
         \A i \in DOMAIN path : /\ Routes!Literal(b.pattern, i) => Routes!Literal(a.pattern, i)
                                /\ Routes!Bound(b.pattern, i) => Routes!Bound(a.pattern, i)
  PROVE  /\ b.order <= a.order
         /\ \A i \in DOMAIN path :
               /\ Routes!Literal(a.pattern, i) => Routes!Literal(b.pattern, i)
               /\ Routes!Bound(a.pattern, i) => Routes!Bound(b.pattern, i)
<1> DEFINE p == a.pattern
           q == b.pattern
<1>1. p \in Routes!Patterns /\ q \in Routes!Patterns /\ a.order \in Nat /\ b.order \in Nat
  BY RouteNumbers
<1>2. /\ Len(path) \in Nat /\ Len(p) \in Nat /\ Len(q) \in Nat
      /\ DOMAIN path = 1 .. Len(path) /\ DOMAIN p = 1 .. Len(p) /\ DOMAIN q = 1 .. Len(q)
  BY <1>1, PathIs, PatternIs
<1>3. /\ IF Routes!HasProxy(p) THEN Len(path) >= Len(p) ELSE Len(path) = Len(p)
      /\ IF Routes!HasProxy(q) THEN Len(path) >= Len(q) ELSE Len(path) = Len(q)
  BY DEF Routes!MatchRoute
<1>4. SCount(a) = Cardinality(Statics(p)) /\ PCount(a) = Cardinality(Parameters(p))
      /\ SCount(b) = Cardinality(Statics(q)) /\ PCount(b) = Cardinality(Parameters(q))
  BY DEF SCount, PCount
<1>5. /\ SCount(a) + PCount(a) = IF Routes!HasProxy(p) THEN Len(p) - 1 ELSE Len(p)
      /\ SCount(b) + PCount(b) = IF Routes!HasProxy(q) THEN Len(q) - 1 ELSE Len(q)
  BY <1>1, <1>4, KindsCounted
<1>6. /\ IsFiniteSet(Statics(p)) /\ IsFiniteSet(Parameters(p))
      /\ IsFiniteSet(Statics(q)) /\ IsFiniteSet(Parameters(q))
  BY <1>1, KindsCounted
<1>7. /\ SCount(a) \in Int /\ PCount(a) \in Int /\ Unproxied(a) \in Int /\ Early(a) \in Int
      /\ SCount(b) \in Int /\ PCount(b) \in Int /\ Unproxied(b) \in Int /\ Early(b) \in Int
      /\ Length(a) \in Int /\ Length(b) \in Int
  BY RouteNumbers
<1>8. \A i \in DOMAIN path :
         /\ i \in Statics(q) => i \in Statics(p)
         /\ i \in Statics(q) \cup Parameters(q) => i \in Statics(p) \cup Parameters(p)
  BY <1>1, <1>2, LiteralOrNot
<1>9. /\ Statics(q) \cup Parameters(q) \subseteq DOMAIN path
      /\ Statics(p) \cup Parameters(p) \subseteq DOMAIN path
  <2>1. DOMAIN p \subseteq DOMAIN path /\ DOMAIN q \subseteq DOMAIN path
    BY <1>2, <1>3
  <2> QED BY <2>1 DEF Statics, Parameters
<1>10. Statics(q) = Statics(p)
  <2>1. Statics(q) \in SUBSET Statics(p)
    BY <1>8, <1>9
  <2>2. SCount(b) <= SCount(a) /\ (SCount(a) = SCount(b) => Statics(p) = Statics(q))
    BY <1>4, <1>6, <2>1, FS_Subset
  <2>3. SCount(a) <= SCount(b)
    BY <1>7 DEF MoreSpecific, Greater
  <2> QED BY <1>7, <2>2, <2>3
<1>11. SCount(a) = SCount(b)
  BY <1>4, <1>10
<1>12. Parameters(q) = Parameters(p)
  <2>1. Parameters(q) \in SUBSET Parameters(p)
    <3>1. Statics(q) \cap Parameters(q) = {}
      BY DEF Statics, Parameters
    <3> QED BY <1>8, <1>9, <1>10, <3>1
  <2>2. PCount(b) <= PCount(a) /\ (PCount(a) = PCount(b) => Parameters(p) = Parameters(q))
    BY <1>4, <1>6, <2>1, FS_Subset
  <2>3. PCount(a) <= PCount(b)
    BY <1>7, <1>11 DEF MoreSpecific, Greater
  <2> QED BY <1>7, <2>2, <2>3
<1>13. PCount(a) = PCount(b)
  BY <1>4, <1>12
<1>14. (Routes!HasProxy(p) <=> Routes!HasProxy(q)) /\ Len(p) = Len(q)
  <2> DEFINE n == SCount(a) + PCount(a)
             l == Len(p)
             m == Len(q)
             t == Len(path)
  <2>1. n \in Int /\ l \in Int /\ m \in Int /\ t \in Int
    BY <1>2, <1>7
  <2>2. n = SCount(b) + PCount(b)
    BY <1>11, <1>13
  <2>3. /\ n = IF Routes!HasProxy(p) THEN l - 1 ELSE l
        /\ n = IF Routes!HasProxy(q) THEN m - 1 ELSE m
    BY <1>5, <2>2
  <2>4. /\ IF Routes!HasProxy(p) THEN t >= l ELSE t = l
        /\ IF Routes!HasProxy(q) THEN t >= m ELSE t = m
    BY <1>3
  <2> HIDE DEF n, l, m, t, p, q
  <2>5. (Routes!HasProxy(p) <=> Routes!HasProxy(q)) /\ l = m
    BY ONLY <2>1, <2>3, <2>4
  <2> QED BY <2>5 DEF l, m
<1>15. b.order <= a.order
  <2>1. Unproxied(a) = Unproxied(b) /\ Length(a) = Length(b)
    BY <1>14 DEF Unproxied, Length
  <2>2. ~ (Early(a) > Early(b))
    BY <1>7, <1>11, <1>13, <2>1 DEF MoreSpecific, Greater
  <2> QED BY <1>1, <2>2 DEF Early, RouteConstants
<1>16. \A i \in DOMAIN path : /\ Routes!Literal(p, i) => Routes!Literal(q, i)
                              /\ Routes!Bound(p, i) => Routes!Bound(q, i)
  BY <1>1, <1>2, <1>10, <1>12, LiteralOrNot
<1> QED BY <1>15, <1>16

\* Routes are as they were added, in that order.
RoutesInv ==
    /\ routes \in Seq(Routes!Route) /\ Len(routes) <= MaxRoutes
    /\ \A k \in DOMAIN routes : routes[k].order = k - 1

LEMMA RoutesInvWins ==
  ASSUME RouteConstants, RoutesInv
  PROVE  Routes!LiteralWins
<1> SUFFICES ASSUME NEW method \in Methods, NEW path \in Routes!Paths
             PROVE  LET served == Routes!Match(routes, method, path)
                        takes == {k \in DOMAIN routes : routes[k].method = method
                                    /\ Routes!MatchRoute(routes[k].pattern, path)}
                        better(p, q) == \A i \in DOMAIN path :
                                          /\ Routes!Literal(q, i) => Routes!Literal(p, i)
                                          /\ Routes!Bound(q, i) => Routes!Bound(p, i)
                    IN  /\ (served = Routes!NoRoute) = (takes = {})
                        /\ \A k \in takes :
                             better(routes[k].pattern, served.pattern)
                               => /\ better(served.pattern, routes[k].pattern)
                                  /\ served.order <= routes[k].order
  BY DEF Routes!LiteralWins
<1> DEFINE served == Routes!Match(routes, method, path)
           takes == {k \in DOMAIN routes : routes[k].method = method
                       /\ Routes!MatchRoute(routes[k].pattern, path)}
<1>1. takes = Takers(routes, method, path, Len(routes)) /\ DOMAIN routes = 1 .. Len(routes)
  BY DEF Takers, RoutesInv
<1>2. BestOf(served, routes, takes)
  BY <1>1, MatchIs DEF RoutesInv
<1> HIDE DEF served
<1>3. ASSUME NEW k \in takes,
             \A i \in DOMAIN path :
                /\ Routes!Literal(served.pattern, i) => Routes!Literal(routes[k].pattern, i)
                /\ Routes!Bound(served.pattern, i) => Routes!Bound(routes[k].pattern, i)
      PROVE  /\ served.order <= routes[k].order
             /\ \A i \in DOMAIN path :
                   /\ Routes!Literal(routes[k].pattern, i) => Routes!Literal(served.pattern, i)
                   /\ Routes!Bound(routes[k].pattern, i) => Routes!Bound(served.pattern, i)
  <2>1. PICK j \in takes : served = routes[j]
    BY <1>2, <1>3 DEF BestOf
  <2>2. /\ routes[k] \in Routes!Route /\ Routes!MatchRoute(routes[k].pattern, path)
        /\ served \in Routes!Route /\ Routes!MatchRoute(served.pattern, path)
    BY <1>1, <2>1 DEF RoutesInv
  <2>3. ~MoreSpecific(routes[k], served)
    BY <1>2 DEF BestOf
  <2> DEFINE a == routes[k]
  <2> HIDE DEF a, takes
  <2> QED BY <1>3, <2>2, <2>3, LiteralAlike DEF a
<1>4. (served = Routes!NoRoute) = (takes = {})
  BY <1>2 DEF BestOf
<1> QED BY <1>3, <1>4 DEF served

LEMMA RoutesInvStep ==
  ASSUME RouteConstants, RoutesInv, [Routes!Next]_routes
  PROVE  RoutesInv'
<1>1. CASE UNCHANGED routes
  BY <1>1 DEF RoutesInv
<1>2. ASSUME NEW method \in Methods, NEW pattern \in Routes!Patterns, Routes!Add(method, pattern)
      PROVE  RoutesInv'
  <2> DEFINE r == [method |-> method, pattern |-> pattern, order |-> Len(routes)]
  <2>1. Len(routes) \in Nat /\ Len(routes) < MaxRoutes /\ routes' = Append(routes, r)
    BY <1>2 DEF Routes!Add, RoutesInv
  <2>2. r \in Routes!Route
    BY <2>1 DEF Routes!Route, RouteConstants
  <2>3. r.order = Len(routes)
    OBVIOUS
  <2> HIDE DEF r
  <2>4. /\ routes' \in Seq(Routes!Route) /\ Len(routes') = Len(routes) + 1
        /\ \A k \in DOMAIN routes : routes'[k] = routes[k]
        /\ routes'[Len(routes) + 1] = r
    BY <2>1, <2>2 DEF RoutesInv
  <2>5. \A k \in DOMAIN routes' : routes'[k].order = k - 1
    <3> SUFFICES ASSUME NEW k \in DOMAIN routes' PROVE routes'[k].order = k - 1
      OBVIOUS
    <3>1. k \in DOMAIN routes \/ k = Len(routes) + 1
      BY <2>1, <2>4 DEF RoutesInv
    <3> QED BY <2>1, <2>3, <2>4, <3>1 DEF RoutesInv
  <2> QED BY <2>1, <2>4, <2>5 DEF RoutesInv, RouteConstants
<1> QED BY <1>1, <1>2 DEF Routes!Next

LEMMA RoutesInvInit ==
  ASSUME RouteConstants, Routes!Init
  PROVE  RoutesInv
  BY DEF Routes!Init, RoutesInv, RouteConstants

LEMMA RoutesAlways ==
  ASSUME RouteConstants
  PROVE  /\ Routes!Spec => []RoutesInv
         /\ ServicesSpec => []RoutesInv
<1>1. RoutesInv /\ [Routes!Next]_(Routes!vars) => RoutesInv'
  BY RoutesInvStep DEF Routes!vars
<1>2. RoutesInv /\ [ServicesNext]_allVars => RoutesInv'
  BY RoutesInvStep DEF ServicesNext, allVars
<1>3. ServicesInit => RoutesInv
  BY RoutesInvInit DEF ServicesInit
<1>4. Routes!Spec => []RoutesInv
  BY <1>1, RoutesInvInit, PTL DEF Routes!Spec
<1>5. ServicesSpec => []RoutesInv
  BY <1>2, <1>3, PTL DEF ServicesSpec
<1> QED BY <1>4, <1>5

-----------------------------------------------------------------------------
(* The binding of requests.                                                 *)

MemberRecord == [key : {"a", "A", "F"}, value : {"null", "zero", "good", "bad"}]

\* A model has fields, and the body's object has each key once.
BindConstants ==
    /\ \A m \in Models : m \subseteq Binding!Field
    /\ \A r \in Requests :
          /\ r.body \in Seq(MemberRecord)
          /\ \A i, j \in DOMAIN r.body : r.body[i].key = r.body[j].key => i = j

\* The request is one of those, and what the handler was given is right.
BindInv ==
    /\ model \subseteq Binding!Field
    /\ request.body \in Seq(MemberRecord)
    /\ \A i, j \in DOMAIN request.body : request.body[i].key = request.body[j].key => i = j
    /\ Binding!RequestBound

LEMMA MembersAre ==
  ASSUME BindInv
  PROVE  /\ Binding!Members \in Seq(MemberRecord)
         /\ \A i, j \in DOMAIN Binding!Members :
              Binding!Members[i].key = Binding!Members[j].key => i = j
         /\ DOMAIN Binding!Members = 1 .. Len(Binding!Members) /\ Len(Binding!Members) \in Nat
         /\ Binding!ToSet(Binding!Members) = {Binding!Members[i] : i \in DOMAIN Binding!Members}
         /\ Binding!Members # <<>> => config.body
<1>1. CASE config.body
  BY <1>1 DEF BindInv, Binding!Members, Binding!ToSet
<1>2. CASE ~config.body
  BY <1>2 DEF BindInv, Binding!Members, Binding!ToSet
<1> QED BY <1>1, <1>2

\* The first source that was sent.
LEMMA FirstSentIs ==
  ASSUME NEW f
  PROVE  LET n == Binding!FirstSent(f) IN
         /\ n \in 0 .. 3
         /\ n = 0 <=> ~ \E s \in {"path", "query", "header"} : Binding!Sent(f, s)
         /\ n # 0 => /\ Binding!Sources[n] \in {"path", "query", "header"}
                     /\ Binding!Sent(f, Binding!Sources[n])
                     /\ \A s \in {"path", "query", "header"} :
                          Binding!Sent(f, s) =>
                            s = Binding!Sources[n] \/ Binding!Sources[n] = "path" \/ s = "header"
<1> DEFINE I == {i \in 1 .. 3 : Binding!Sent(f, Binding!Sources[i])}
           n == Binding!FirstSent(f)
<1>1. Len(Binding!Sources) = 3 /\ Binding!Sources[1] = "path" /\ Binding!Sources[2] = "query"
        /\ Binding!Sources[3] = "header"
  BY DEF Binding!Sources
<1>2. n = IF I # {} THEN CHOOSE i \in I : \A j \in I : i <= j ELSE 0
  <2>1. n = IF {i \in 1 .. Len(Binding!Sources) : Binding!Sent(f, Binding!Sources[i])} # {}
            THEN CHOOSE i \in {k \in 1 .. Len(Binding!Sources) :
                                Binding!Sent(f, Binding!Sources[k])} :
                   \A j \in {k \in 1 .. Len(Binding!Sources) :
                             Binding!Sent(f, Binding!Sources[k])} : i <= j
            ELSE 0
    BY DEF Binding!FirstSent, Binding!SelectInSeq, Binding!Min
  <2> QED BY <1>1, <2>1
<1>3. I # {} => n \in I /\ \A j \in I : n <= j
  <2> SUFFICES ASSUME I # {} PROVE n \in I /\ \A j \in I : n <= j
    OBVIOUS
  <2>1. I \in SUBSET Nat
    OBVIOUS
  <2>2. \E i \in I : \A j \in I : i <= j
    <3> HIDE DEF I
    <3> QED BY <2>1, LeastNumber
  <2> HIDE DEF I
  <2> QED BY <1>2, <2>2
<1>4. I = {} => n = 0
  BY <1>2
<1>5. /\ 1 \in I <=> Binding!Sent(f, "path")
      /\ 2 \in I <=> Binding!Sent(f, "query")
      /\ 3 \in I <=> Binding!Sent(f, "header")
      /\ \A i \in I : i \in {1, 2, 3}
  BY <1>1
<1> HIDE DEF n, I
<1>6. n = 0 <=> I = {}
  BY <1>3, <1>4, <1>5
<1>7. I = {} <=> ~ \E s \in {"path", "query", "header"} : Binding!Sent(f, s)
  BY <1>5
<1>8. n # 0 => n \in {1, 2, 3} /\ n \in I /\ \A j \in I : n <= j
  BY <1>3, <1>5, <1>6
<1>9. n # 0 => /\ Binding!Sources[n] \in {"path", "query", "header"}
               /\ Binding!Sent(f, Binding!Sources[n])
               /\ \A s \in {"path", "query", "header"} :
                    Binding!Sent(f, s) =>
                      s = Binding!Sources[n] \/ Binding!Sources[n] = "path" \/ s = "header"
  BY <1>1, <1>5, <1>8
<1> QED BY <1>6, <1>7, <1>8, <1>9 DEF n

\* The members of the body that set a field.
Sets(f) == {i \in 1 .. Len(Binding!Members) :
              /\ Binding!Takes(f, Binding!Members[i].key)
              /\ Binding!Members[i].value = "null" => f.pointer}

LEMMA BodyBoundIs ==
  ASSUME BindInv, NEW f
  PROVE  \/ Sets(f) = {} /\ Binding!BodyBound(f) = Binding!Unset
         \/ \E n \in Sets(f) :
              /\ \A k \in Sets(f) : k <= n
              /\ Binding!BodyBound(f) = IF Binding!Members[n].value = "null" THEN Binding!Unset
                                        ELSE [from |-> "body", is |-> Binding!Members[n].value]
<1> DEFINE n == IF Sets(f) # {} THEN CHOOSE i \in Sets(f) : \A j \in Sets(f) : i >= j ELSE 0
<1>1. Binding!BodyBound(f) = IF n = 0 \/ Binding!Members[n].value = "null" THEN Binding!Unset
                             ELSE [from |-> "body", is |-> Binding!Members[n].value]
  BY DEF Binding!BodyBound, Binding!SelectLastInSeq, Binding!Max, Sets
<1>2. CASE Sets(f) = {}
  BY <1>1, <1>2
<1>3. CASE Sets(f) # {}
  <2>1. Len(Binding!Members) \in Nat /\ Sets(f) \in SUBSET (1 .. Len(Binding!Members))
    BY MembersAre DEF Sets
  <2>2. \E i \in Sets(f) : \A j \in Sets(f) : j <= i
    <3> DEFINE N == Len(Binding!Members)
    <3>1. N \in Nat /\ Sets(f) \in SUBSET (1 .. N)
      BY <2>1
    <3> HIDE DEF N
    <3> QED BY ONLY <1>3, <3>1, GreatestNumber
  <2>3. \E i \in Sets(f) : \A j \in Sets(f) : i >= j
    BY <2>1, <2>2
  <2>4. n \in Sets(f) /\ \A j \in Sets(f) : n >= j
    BY <1>3, <2>3
  <2> HIDE DEF n
  <2>5. n # 0 /\ \A j \in Sets(f) : j <= n
    BY <2>1, <2>4
  <2> QED BY <1>1, <2>4, <2>5
<1> QED BY <1>2, <1>3

\* Where what a field is bound to is from.
LEMMA BoundIs ==
  ASSUME BindInv, NEW f
  PROVE  LET n == Binding!FirstSent(f) IN
         Binding!Bound(f) = IF n = 0 THEN Binding!BodyBound(f)
                            ELSE [from |-> Binding!Sources[n], is |-> request[Binding!Sources[n]]]
  BY DEF Binding!Bound

\* A field whose body has a value for it is set from the body, or a null under another
\* spelling of its key has undone that.
LEMMA PresentInBody ==
  ASSUME BindInv, NEW g \in model, g.tags = {},
         NEW m \in Binding!ToSet(Binding!Members), m.key = g.key, m.value # "null"
  PROVE  Binding!BodyBound(g).from = "body" \/ Binding!SpelledNull
<1> DEFINE ms == Binding!Members
<1>1. PICK i \in 1 .. Len(ms) : m = ms[i]
  BY MembersAre
<1>2. i \in Sets(g)
  BY <1>1 DEF Sets, Binding!Takes
<1>3. PICK n \in Sets(g) :
         Binding!BodyBound(g) = IF ms[n].value = "null" THEN Binding!Unset
                                ELSE [from |-> "body", is |-> ms[n].value]
  BY <1>2, BodyBoundIs
<1>4. CASE ms[n].value # "null"
  BY <1>3, <1>4
<1>5. CASE ms[n].value = "null"
  <2>1. n \in 1 .. Len(ms) /\ n # i /\ Binding!Takes(g, ms[n].key)
    BY <1>1, <1>3, <1>5 DEF Sets
  <2>2. ms[n].key # g.key /\ ms[n].key \in {"a", "A", "F"} /\ ms[n] \in Binding!ToSet(ms)
    <3>1. ms[n].key # ms[i].key /\ ms[n] \in MemberRecord /\ ms[n] \in Binding!ToSet(ms)
      BY <1>1, <2>1, MembersAre
    <3> QED BY <1>1, <3>1 DEF MemberRecord
  <2>3. g.key \in {"a", "F"}
    BY DEF BindInv, Binding!Field
  <2>4. ms[n].key = "A"
    BY <2>1, <2>2, <2>3 DEF Binding!Takes, Binding!Fold
  <2> QED BY <1>5, <2>2, <2>4 DEF Binding!SpelledNull
<1> QED BY <1>4, <1>5

\* The sources that a field can be tagged with.
Tagged == {"path", "query", "header"}
LEMMA SourcesAre == Binding!ToSet(Binding!Sources) = Tagged
<1>1. DOMAIN Binding!Sources = {1, 2, 3}
  BY DEF Binding!Sources
<1> QED BY <1>1 DEF Binding!ToSet, Binding!Sources, Tagged

\* A field whose required rule holds was set from where it should be.
LEMMA FieldBound ==
  ASSUME BindInv, NEW f \in model, Binding!Next,
         bound'.is = "bound", bound'.bound = [g \in model |-> Binding!Bound(g)],
         ~Binding!RequiredFails(f)
  PROVE  Binding!FieldRight(f, bound.bound[f])'
<1> DEFINE v == Binding!Bound(f)
           n == Binding!FirstSent(f)
<1>1. UNCHANGED <<model, config, request>>
  BY DEF Binding!Next
<1>2. /\ n \in 0 .. 3
      /\ n = 0 <=> ~ \E s \in Tagged : Binding!Sent(f, s)
      /\ n # 0 => /\ Binding!Sources[n] \in Tagged
                  /\ Binding!Sent(f, Binding!Sources[n])
                  /\ \A s \in Tagged :
                       Binding!Sent(f, s) =>
                         s = Binding!Sources[n] \/ Binding!Sources[n] = "path" \/ s = "header"
  BY FirstSentIs DEF Tagged
<1>3. v = IF n = 0 THEN Binding!BodyBound(f)
          ELSE [from |-> Binding!Sources[n], is |-> request[Binding!Sources[n]]]
  BY BoundIs
<1> HIDE DEF v, n
<1>4. v.from \in Tagged => /\ Binding!Sent(f, v.from) /\ v.is = request[v.from]
                          /\ \A s \in Tagged :
                               Binding!Sent(f, s) => s = v.from \/ v.from = "path" \/ s = "header"
  <2>1. CASE n = 0
    <3>1. v.from \in {"body", "none"}
      BY <1>3, <2>1, BodyBoundIs DEF Binding!Unset
    <3> QED BY <3>1 DEF Tagged
  <2>2. CASE n # 0
    BY <1>2, <1>3, <2>2
  <2> QED BY <2>1, <2>2
<1>5. v.from \in {"body", "none"} => n = 0 /\ \A s \in Tagged : ~Binding!Sent(f, s)
  BY <1>2, <1>3 DEF Tagged
<1>6. v.from = "body" =>
        \E m \in Binding!ToSet(Binding!Members) :
           m.value = v.is /\ (config.strict => m.key = f.key /\ f.tags = {})
  <2> SUFFICES ASSUME v.from = "body"
               PROVE  \E m \in Binding!ToSet(Binding!Members) :
                         m.value = v.is /\ (config.strict => m.key = f.key /\ f.tags = {})
    OBVIOUS
  <2>1. v = Binding!BodyBound(f)
    BY <1>3, <1>5
  <2>2. PICK k \in Sets(f) :
          v = IF Binding!Members[k].value = "null" THEN Binding!Unset
              ELSE [from |-> "body", is |-> Binding!Members[k].value]
    BY <2>1, BodyBoundIs DEF Binding!Unset
  <2>3. v.is = Binding!Members[k].value
    BY <2>2 DEF Binding!Unset
  <2>4. /\ Binding!Members[k] \in Binding!ToSet(Binding!Members)
        /\ Binding!Takes(f, Binding!Members[k].key)
    BY MembersAre DEF Sets
  <2> QED BY <2>3, <2>4 DEF Binding!Takes
<1>7. v.from = "none" /\ "required" \in f.rules =>
        Binding!SpelledNull \/ \E g \in model \ {f} : /\ Binding!Name(g) = Binding!Name(f)
                                                     /\ Binding!Bound(g).from # "none"
  <2> SUFFICES ASSUME v.from = "none", "required" \in f.rules, ~Binding!SpelledNull
               PROVE  \E g \in model \ {f} : /\ Binding!Name(g) = Binding!Name(f)
                                             /\ Binding!Bound(g).from # "none"
    OBVIOUS
  <2>1. n = 0 /\ v = Binding!Unset
    <3>1. n = 0 /\ v = Binding!BodyBound(f)
      BY <1>3, <1>5
    <3> QED BY <3>1, BodyBoundIs
  <2>2. v.is = "zero"
    BY <2>1 DEF Binding!Unset
  <2>3. Binding!Tracked(Binding!Name(f)) /\ Binding!Present(Binding!Name(f))
    BY <2>2 DEF Binding!RequiredFails, v
  <2>4. PICK g \in model :
          /\ Binding!Name(g) = Binding!Name(f)
          /\ \/ Binding!FirstSent(g) # 0
             \/ g.tags = {} /\ \E m \in Binding!ToSet(Binding!Members) :
                                  m.key = g.key /\ m.value # "null"
    BY <2>3 DEF Binding!Present
  <2>5. Binding!Bound(g).from # "none"
    <3>1. CASE Binding!FirstSent(g) # 0
      <4>1. Binding!Bound(g).from \in {"path", "query", "header"}
        BY <3>1, FirstSentIs, BoundIs
      <4> QED BY <4>1
    <3>2. CASE Binding!FirstSent(g) = 0
      <4>1. Binding!BodyBound(g).from = "body"
        BY <2>4, <3>2, PresentInBody
      <4> QED BY <3>2, <4>1, BoundIs
    <3> QED BY <3>1, <3>2
  <2>6. g # f
    BY <2>5 DEF v
  <2> QED BY <2>4, <2>5, <2>6
<1>8. /\ \A s : Binding!Sent(f, s)' <=> Binding!Sent(f, s)
      /\ Binding!Members' = Binding!Members /\ (Binding!SpelledNull' <=> Binding!SpelledNull)
      /\ bound'.bound[f] = v /\ \A g \in model : bound'.bound[g] = Binding!Bound(g)
      /\ config' = config /\ request' = request /\ model' = model
  BY <1>1 DEF Binding!Sent, Binding!Members, Binding!SpelledNull, v
<1> QED BY <1>4, <1>5, <1>6, <1>7, <1>8, SourcesAre DEF Binding!FieldRight

\* A field that is reported as missing was not sent.
LEMMA RequiredUnsent ==
  ASSUME BindInv, NEW f \in model, Binding!RequiredFails(f)
  PROVE  /\ \A s \in Tagged : ~Binding!Sent(f, s)
         /\ f.tags = {} =>
              \A m \in Binding!ToSet(Binding!Members) : m.key = f.key => m.value = "null"
<1>1. Binding!FirstSent(f) = 0 <=> \A s \in Tagged : ~Binding!Sent(f, s)
  BY FirstSentIs DEF Tagged
<1>2. CASE Binding!Tracked(Binding!Name(f))
  <2>1. ~Binding!Present(Binding!Name(f))
    BY <1>2 DEF Binding!RequiredFails
  <2> QED BY <1>1, <2>1 DEF Binding!Present
<1>3. CASE ~Binding!Tracked(Binding!Name(f))
  <2>1. f.tags \cap config.sources = {} /\ (f.tags = {} => ~config.body)
    BY <1>3 DEF Binding!Tracked
  <2>2. \A s \in Tagged : ~Binding!Sent(f, s)
    BY <2>1 DEF Binding!Sent
  <2>3. ~config.body => Binding!ToSet(Binding!Members) = {}
    BY MembersAre
  <2> QED BY <2>1, <2>2, <2>3
<1> QED BY <1>2, <1>3

LEMMA PanicUnsent ==
  ASSUME BindInv, NEW f \in model, Binding!EnumPanics(f)
  PROVE  f.pointer /\ "enum" \in f.rules /\ \A s \in Tagged : ~Binding!Sent(f, s)
<1>1. Binding!Bound(f).from = "none" /\ f.pointer /\ "enum" \in f.rules
  BY DEF Binding!EnumPanics, Binding!EnumChecked, Binding!Unset
<1>2. Binding!FirstSent(f) = 0
  BY <1>1, FirstSentIs, BoundIs
<1> QED BY <1>1, <1>2, FirstSentIs DEF Tagged

LEMMA BindStep ==
  ASSUME BindInv, [Binding!Next]_bindVars
  PROVE  BindInv'
<1>1. CASE UNCHANGED bindVars
  BY <1>1 DEF bindVars, BindInv, Binding!RequestBound, Binding!FieldRight, Binding!Sent,
              Binding!Members, Binding!SpelledNull
<1>2. CASE Binding!Next
  <2>1. UNCHANGED <<model, config, request>> /\ bound' = Binding!BindRequest
    BY <1>2 DEF Binding!Next
  <2>2. /\ \A f, s : Binding!Sent(f, s)' <=> Binding!Sent(f, s)
        /\ Binding!Members' = Binding!Members
    BY <2>1 DEF Binding!Sent, Binding!Members
  <2>3. bound'.is = "bound" => \A f \in model : Binding!FieldRight(f, bound.bound[f])'
    <3> SUFFICES ASSUME bound'.is = "bound", NEW f \in model
                 PROVE  Binding!FieldRight(f, bound.bound[f])'
      OBVIOUS
    <3>1. bound' = Binding!Answer("bound", [g \in model |-> Binding!Bound(g)], {})
            /\ Binding!Errors = {}
      BY <2>1 DEF Binding!BindRequest, Binding!Answer
    <3>2. bound'.bound = [g \in model |-> Binding!Bound(g)]
      BY <3>1 DEF Binding!Answer
    <3>3. ~Binding!RequiredFails(f)
      BY <3>1 DEF Binding!Errors
    <3> QED BY <1>2, <3>2, <3>3, FieldBound
  <2>4. ASSUME NEW f \in model, <<f, "required">> \in bound'.errors
        PROVE  Binding!RequiredFails(f)
    <3>1. bound'.errors \subseteq Binding!Errors
      BY <2>1 DEF Binding!BindRequest, Binding!Answer
    <3>2. <<f, "required">> \in Binding!Errors
      BY <2>4, <3>1
    <3> QED BY <3>2 DEF Binding!Errors
  <2>5. bound'.is = "panic" => \E f \in model : Binding!EnumPanics(f)
    BY <2>1 DEF Binding!BindRequest, Binding!Answer
  <2>6. Binding!RequestBound'
    <3>1. \A f \in model : <<f, "required">> \in bound'.errors =>
            /\ \A s \in Tagged : ~Binding!Sent(f, s)
            /\ f.tags = {} =>
                 \A m \in Binding!ToSet(Binding!Members) : m.key = f.key => m.value = "null"
      BY <2>4, RequiredUnsent
    <3>2. bound'.is = "panic" =>
            \E f \in model : /\ f.pointer /\ "enum" \in f.rules
                             /\ \A s \in Tagged : ~Binding!Sent(f, s)
      BY <2>5, PanicUnsent
    <3> QED BY <2>1, <2>2, <2>3, <3>1, <3>2, SourcesAre DEF Binding!RequestBound
  <2> QED BY <2>1, <2>6 DEF BindInv
<1> QED BY <1>1, <1>2

LEMMA BindInitInv ==
  ASSUME BindConstants, Binding!Init
  PROVE  BindInv
<1>1. bound.is = "none" /\ bound.errors = {}
  BY DEF Binding!Init, Binding!Nothing, Binding!Answer
<1>2. Binding!RequestBound
  BY <1>1 DEF Binding!RequestBound
<1> QED BY <1>2 DEF Binding!Init, BindInv, BindConstants

LEMMA BindAlways ==
  ASSUME BindConstants
  PROVE  /\ Binding!Spec => []BindInv
         /\ ServicesSpec => [](kind = "BIND" => BindInv)
<1>1. BindInv /\ [Binding!Next]_(Binding!vars) => BindInv'
  BY BindStep DEF Binding!vars, bindVars
<1>2. (kind = "BIND" => BindInv) /\ [ServicesNext]_allVars => (kind = "BIND" => BindInv)'
  BY BindStep DEF ServicesNext, allVars
<1>3. ServicesInit => (kind = "BIND" => BindInv)
  BY BindInitInv DEF ServicesInit
<1>4. Binding!Spec => []BindInv
  BY <1>1, BindInitInv, PTL DEF Binding!Spec
<1>5. ServicesSpec => [](kind = "BIND" => BindInv)
  BY <1>2, <1>3, PTL DEF ServicesSpec
<1> QED BY <1>4, <1>5

-----------------------------------------------------------------------------
(* The types.                                                               *)

\* What the invariants above do not say of the types.

\* A record that is still to be looked at was handled in earlier invocations only.
Invoked ==
    /\ invocations \in 0 .. MaxInvocations
    /\ answered \subseteq Records /\ repeated \subseteq Records
    /\ \A r \in Records : /\ handled[r] <= invocations
                          /\ r \in batch => handled[r] < invocations

LEMMA InvokedStep ==
  ASSUME BatchConstants, MaxInvocations \in Nat, BatchInv, Invoked, [Batches!Next]_batchVars
  PROVE  Invoked'
<1>1. ASSUME NEW records \in SUBSET Records, Batches!Invoke(records) PROVE Invoked'
  <2>1. /\ invocations' = invocations + 1 /\ invocations' <= MaxInvocations
        /\ UNCHANGED <<handled, answered>> /\ repeated' \subseteq repeated \cup records
    BY <1>1 DEF Batches!Invoke, Invoked
  <2>2. \A r \in Records : handled[r] \in Nat /\ handled[r] < invocations'
    BY <2>1 DEF Invoked, BatchInv, BatchTypes
  <2> QED BY <2>1, <2>2 DEF Invoked
<1>2. ASSUME NEW r \in Records, Batches!Handle(r) PROVE Invoked'
  <2>1. /\ r \in batch /\ batch' = batch \ {r} /\ handled' = [handled EXCEPT ![r] = @ + 1]
        /\ UNCHANGED <<answered, repeated, invocations>>
    BY <1>2 DEF Batches!Handle, Batches!IsNext
  <2>2. handled \in [Records -> Nat]
    BY DEF BatchInv, BatchTypes
  <2> QED BY <2>1, <2>2 DEF Invoked
<1>3. ASSUME NEW r \in Records, Batches!HandlerFails(r) PROVE Invoked'
  BY <1>3 DEF Batches!HandlerFails, Invoked
<1>4. ASSUME Batches!Answer PROVE Invoked'
  BY <1>4 DEF Batches!Answer, Batches!Ended, Invoked, BatchInv, BatchTypes
<1>5. ASSUME Batches!Die \/ UNCHANGED batchVars PROVE Invoked'
  BY <1>5 DEF Batches!Die, Batches!Ended, batchVars, Invoked
<1> QED BY <1>1, <1>2, <1>3, <1>4, <1>5 DEF Batches!Next

LEMMA InvokedTyped ==
  ASSUME MaxInvocations \in Nat, BatchInv, Invoked
  PROVE  Batches!TypeOK
<1>1. \A r \in Records : handled[r] \in 0 .. MaxInvocations
  BY DEF BatchInv, BatchTypes, Invoked
<1> QED BY <1>1 DEF BatchInv, BatchTypes, Invoked, Batches!TypeOK

-----------------------------------------------------------------------------
\* The notifier's queue is its channel's buffer.
Queued ==
    /\ panicked \in BOOLEAN
    /\ Len(queue) <= BufferSize
    /\ worker.failures <= MaxRetries

LogConstants == None \notin Entries /\ BufferSize \in Nat /\ MaxRetries \in Nat

LEMMA QueuedStep ==
  ASSUME LogConstants, LogInv, Queued, Log!Next \/ UNCHANGED logVars
  PROVE  Queued'
<1>1. /\ queue \in Seq(Entries) /\ Len(queue) \in Nat /\ BufferSize \in Nat /\ MaxRetries \in Nat
      /\ worker.failures \in Nat
  BY DEF LogInv, LogTypes, LogConstants
<1>2. \/ queue' = queue
      \/ Len(queue) < BufferSize /\ \E e \in Entries : queue' = Append(queue, e)
      \/ queue # <<>> /\ queue' = Tail(queue)
  BY DEF Log!Next, Log!Log, Log!Count, Log!Send, Log!WorkerStep, Log!Take, Log!Retry,
         Log!Notified, Log!Flush, Log!WaitNotifier, Log!Wait, Log!Wake, Log!FlushCanceled,
         Log!Close, Log!CloseWaits, logVars
<1>3. Len(queue') <= BufferSize
  BY <1>1, <1>2 DEF Queued
<1>4. \/ worker' = worker
      \/ worker.failures + 1 < MaxRetries /\ worker' = [worker EXCEPT !.failures = @ + 1]
      \/ \E e : worker' = [entry |-> e, failures |-> 0]
  BY DEF Log!Next, Log!Log, Log!Count, Log!Send, Log!WorkerStep, Log!Take, Log!Retry,
         Log!Notified, Log!Flush, Log!WaitNotifier, Log!Wait, Log!Wake, Log!FlushCanceled,
         Log!Close, Log!CloseWaits, logVars
<1>5. worker'.failures <= MaxRetries
  <2>1. worker \in [entry : Entries \cup {None}, failures : Nat]
    BY DEF LogInv, LogTypes
  <2> QED BY <1>1, <1>4, <2>1 DEF Queued
<1>6. panicked' \in BOOLEAN
  BY DEF Log!Next, Log!Log, Log!Count, Log!Send, Log!WorkerStep, Log!Take, Log!Retry,
         Log!Notified, Log!Flush, Log!WaitNotifier, Log!Wait, Log!Wake, Log!FlushCanceled,
         Log!Close, Log!CloseWaits, logVars, Queued
<1> QED BY <1>3, <1>5, <1>6 DEF Queued

LEMMA QueuedTyped ==
  ASSUME LogConstants, LogInv, Queued
  PROVE  Log!TypeOK
<1>1. worker \in [entry : Entries \cup {None}, failures : 0 .. MaxRetries]
  BY DEF LogInv, LogTypes, Queued, LogConstants
<1> QED BY <1>1 DEF LogInv, LogTypes, Queued, Log!TypeOK, Log!Worker, ErrorSteps, FlushSteps,
                    WaiterSteps, ClosingSteps

-----------------------------------------------------------------------------
CountedUp ==
    \/ commands' = commands
    \/ commands < MaxCommands /\ commands' = commands + 1

\* The commands are counted up to the bound.
LEMMA CommandsStep ==
  ASSUME VMConstants, commands \in 0 .. MaxCommands, [VM!Next]_vmVars
  PROVE  commands' \in 0 .. MaxCommands
<1> USE DEF VM!Counts
<1>0. ASSUME NEW c, NEW order, VM!Begin(c, order)
      PROVE  CountedUp
  BY <1>0, Zenon DEF VM!Begin, CountedUp
<1>1. ASSUME NEW c \in Callers, NEW s \in Sessions, NEW v \in VMs, VM!Run(c, s, v)
      PROVE  CountedUp
  BY <1>0, <1>1, Zenon DEF VM!Run
<1>2. ASSUME NEW c \in Callers, NEW s \in Sessions, VM!Create(c, s)
      PROVE  CountedUp
  BY <1>0, <1>2, Zenon DEF VM!Create
<1>3. ASSUME NEW c \in Callers, NEW order \in VM!Commands, NEW s \in Sessions,
             VM!Get(c, order, s) \/ VM!GetStale(c, order, s)
      PROVE  CountedUp
  <2>1. VM!Get(c, order, s) => CountedUp
    BY <1>0, Zenon DEF VM!Get
  <2>2. VM!GetStale(c, order, s) => CountedUp
    BY Zenon DEF VM!GetStale, CountedUp
  <2> QED BY <1>3, <2>1, <2>2
<1>4. ASSUME NEW c \in Callers, VM!ReadAll(c) \/ VM!Step(c) \/ VM!Fail(c)
      PROVE  CountedUp
  <2>1. VM!ReadAll(c) => CountedUp
    BY <1>0, Zenon DEF VM!ReadAll
  <2>2. VM!Reconstruct(c) => CountedUp
    BY DEF VM!Reconstruct, CountedUp
  <2>3. VM!Operate(c) => CountedUp
    BY DEF VM!Operate, CountedUp
  <2>4. ASSUME NEW found \in SUBSET Sessions, VM!Observe(c, found)
        PROVE  CountedUp
    BY <2>4 DEF VM!Observe, CountedUp
  <2>5. VM!IssueToken(c) => CountedUp
    BY DEF VM!IssueToken, CountedUp
  <2>6. ASSUME NEW s \in Sessions, NEW heard \in BOOLEAN, VM!Put(c, s, heard)
        PROVE  CountedUp
    BY <2>6 DEF VM!Put, CountedUp
  <2>7. VM!Fail(c) => CountedUp
    BY DEF VM!Fail, CountedUp
  <2> QED BY <1>4, <2>1, <2>2, <2>3, <2>4, <2>5, <2>6, <2>7, Zenon DEF VM!Step
<1>5. ASSUME NEW v \in VMs, VM!Settle(v) \/ VM!Lapse(v)
      PROVE  CountedUp
  BY <1>5 DEF VM!Settle, VM!Lapse, CountedUp
<1>6. ASSUME NEW s \in Sessions, VM!Delete(s)
      PROVE  CountedUp
  BY <1>6 DEF VM!Delete, CountedUp
<1>7. UNCHANGED vmVars => CountedUp
  BY DEF vmVars, CountedUp
<1>8. VM!Next => CountedUp
  BY <1>1, <1>2, <1>3, <1>4, <1>5, <1>6, Zenon DEF VM!Next
<1>9. CountedUp
  BY <1>7, <1>8
<1> QED BY <1>9 DEF VMConstants, CountedUp

-----------------------------------------------------------------------------
LEMMA EmbedTyped ==
  ASSUME EmbedInv
  PROVE  Embedding!TypeOK
  BY DEF EmbedInv, EmbedTypes, EmbedWorker, Embedding!TypeOK

-----------------------------------------------------------------------------
Configured ==
    /\ conf \in [tier : Http!Tiers, transport : {"http", "websocket"}, chain : Http!Chains,
                 failClosed : BOOLEAN, auth : {"none", "optional", "required"}]
    /\ expired \in BOOLEAN
    /\ passed \subseteq {"policy", "principal", "anonymous", "admitted", "unlimited"}
    /\ handler \in Http!Results \cup {"none", "running"}

AnAnswer ==
    [status : {0, 200, 204} \cup {Http!StatusForErrorCode[c] : c \in Http!Codes},
     code : Http!Codes \cup {"none"}]

LEMMA ConfiguredStep ==
  ASSUME HttpInv, Configured, [Http!Next]_httpVars
  PROVE  Configured'
<1>1. conf' = conf
  BY DEF Http!Next, Http!Accept, Http!ApplyPolicy, Http!Authorize, Http!RateLimit, Http!Timeout,
         Http!StartHandler, Http!EndHandler, Http!WorkStep, Http!Send, Http!Expire,
         Http!Receive, Http!Finish, httpVars
<1>2. expired' \in BOOLEAN
  BY DEF Http!Next, Http!Accept, Http!ApplyPolicy, Http!Authorize, Http!RateLimit, Http!Timeout,
         Http!StartHandler, Http!EndHandler, Http!WorkStep, Http!Send, Http!Expire,
         Http!Receive, Http!Finish, httpVars, Configured
<1>3. handler' \in Http!Results \cup {"none", "running"}
  BY DEF Http!Next, Http!Accept, Http!ApplyPolicy, Http!Authorize, Http!RateLimit, Http!Timeout,
         Http!StartHandler, Http!EndHandler, Http!WorkStep, Http!Send, Http!Expire,
         Http!Receive, Http!Finish, httpVars, Configured
<1>4. passed' \subseteq {"policy", "principal", "anonymous", "admitted", "unlimited"}
  <2>1. ASSUME NEW g, Http!RateLimit(g)
        PROVE  passed' \subseteq passed \cup {"admitted", "unlimited"}
    BY <2>1 DEF Http!RateLimit
  <2>2. ASSUME Http!ApplyPolicy \/ Http!Authorize
        PROVE  passed' \subseteq passed \cup {"policy", "principal", "anonymous"}
    BY <2>2 DEF Http!ApplyPolicy, Http!Authorize
  <2>3. \/ passed' = passed \/ Http!ApplyPolicy \/ Http!Authorize
        \/ \E g \in {"main", "work"} : Http!RateLimit(g)
    BY DEF Http!Next, Http!Accept, Http!Timeout, Http!StartHandler, Http!EndHandler,
           Http!WorkStep, Http!Send, Http!Expire, Http!Receive, Http!Finish, httpVars
  <2> QED BY <2>1, <2>2, <2>3 DEF Configured
<1> QED BY <1>1, <1>2, <1>3, <1>4 DEF Configured

\* What is answered and recorded.
LEMMA AnswerStep ==
  ASSUME HttpInv, answer \in AnAnswer, record \in AnAnswer, [Http!Next]_httpVars
  PROVE  answer' \in AnAnswer /\ record' \in AnAnswer
<1>1. ASSUME Http!Finish PROVE answer' \in AnAnswer /\ record' \in AnAnswer
  <2> DEFINE code == Http!CodeFor(main.result)
             status == IF main.result = "preflight" THEN 204
                       ELSE IF code = "none" THEN 200 ELSE Http!StatusForErrorCode[code]
  <2>1. /\ main.result \in Http!Results \cup Http!Codes \cup {"preflight"}
    BY <1>1 DEF HttpInv, HttpTypes, Places, Walkers, Http!Finish
  <2>2. code \in Http!Codes \cup {"none"}
    <3>1. {"too_large", "internal"} \subseteq Http!Codes
      BY DEF Http!Codes, Http!StatusForErrorCode
    <3>2. CASE main.result \in {"ok", "preflight", "large", "nil", "panic"}
      BY <3>1, <3>2 DEF Http!CodeFor
    <3>3. CASE main.result \notin {"ok", "preflight", "large", "nil", "panic"}
      <4>1. code = main.result
        BY <3>3 DEF Http!CodeFor
      <4>2. main.result \in Http!Codes \cup {"conflict"} /\ "conflict" \in Http!Codes
        BY <2>1, <3>3 DEF Http!Results, Http!Codes, Http!StatusForErrorCode
      <4> QED BY <4>1, <4>2
    <3> QED BY <3>2, <3>3
  <2>3. status \in {0, 200, 204} \cup {Http!StatusForErrorCode[c] : c \in Http!Codes}
    BY <2>2
  <2>4. Http!Nothing = [status |-> 0, code |-> "none"]
    BY DEF Http!Nothing
  <2>5. /\ answer' = [status |-> status, code |-> code]
        /\ record' \in {[status |-> status, code |-> code], Http!Nothing}
    BY <1>1 DEF Http!Finish
  <2> HIDE DEF code, status
  <2> QED BY <2>2, <2>3, <2>4, <2>5 DEF AnAnswer
<1>2. Http!Finish \/ UNCHANGED <<answer, record>>
  BY DEF Http!Next, Http!Accept, Http!ApplyPolicy, Http!Authorize, Http!RateLimit, Http!Timeout,
         Http!StartHandler, Http!EndHandler, Http!WorkStep, Http!Send, Http!Expire,
         Http!Receive, httpVars
<1> QED BY <1>1, <1>2

LEMMA HttpTyped ==
  ASSUME HttpInv, Configured, answer \in AnAnswer, record \in AnAnswer
  PROVE  Http!TypeOK
<1>1. channel \in {<<>>} \cup {<<r>> : r \in Http!Results \cup Http!Codes}
  BY DEF HttpInv, Places, Outcomes
<1> QED BY <1>1 DEF HttpInv, HttpTypes, Walkers, Configured, AnAnswer, Http!TypeOK

-----------------------------------------------------------------------------
Limited ==
    /\ tripped \in BOOLEAN /\ body <= MaxResponseBytes
    /\ \A p \in Limits!Pumps : fails[p] \in BOOLEAN

LEMMA LimitedStep ==
  ASSUME LimitConstants, LimitInv, Limited, [Limits!Next]_limitVars
  PROVE  Limited'
<1>1. UNCHANGED <<body, fails>>
  BY DEF Limits!Next, Limits!Copy, Limits!SourceEnds, Limits!Write, Limits!Close, limitVars
<1>2. tripped' \in BOOLEAN
  BY DEF Limits!Next, Limits!Copy, Limits!SourceEnds, Limits!Write, Limits!Close, limitVars,
         Limits!ConsumeReader, Limits!AllowChunk, Limited
<1> QED BY <1>1, <1>2 DEF Limited

LEMMA LimitTyped ==
  ASSUME LimitConstants, LimitInv, Limited
  PROVE  Limits!TypeOK
<1>1. body \in 0 .. MaxResponseBytes
  BY DEF LimitInv, LimitTypes, Limited, LimitConstants
<1> QED BY <1>1 DEF LimitInv, LimitTypes, Limited, Limits!TypeOK

-----------------------------------------------------------------------------
LEMMA RoutesTyped ==
  ASSUME RoutesInv
  PROVE  Routes!TypeOK
  BY DEF RoutesInv, Routes!TypeOK

-----------------------------------------------------------------------------
\* The hooks of both tables, and the states that they are between.
LEMMA HooksAre ==
  ASSUME NEW hooks \in Tables, NEW h \in DOMAIN hooks
  PROVE  /\ h \in Lifecycle!HookNames
         /\ hooks[h].before \cup {hooks[h].active, hooks[h].success} \subseteq Lifecycle!States
<1>1. h \in Lifecycle!HookNames
  BY DEF Tables, Lifecycle!HookNames
<1> DEFINE Around(k) == {k.active, k.success} \cup k.before
           All(g) == UNION {Around(k) : k \in {g[m] : m \in DOMAIN g}}
<1>2. Around(hooks[h]) \subseteq All(hooks)
  <2>1. hooks[h] \in {hooks[m] : m \in DOMAIN hooks}
    OBVIOUS
  <2> HIDE DEF Around
  <2> QED BY <2>1, Zenon
<1>3. All(hooks) \subseteq Lifecycle!States
  <2>1. All(hooks) \in {All(g) : g \in {Lifecycle!M15Hooks, Lifecycle!M16Hooks}}
    <3> HIDE DEF All
    <3> QED BY Zenon DEF Tables
  <2>2. Lifecycle!States = {"failed"} \cup
                             UNION {All(g) : g \in {Lifecycle!M15Hooks, Lifecycle!M16Hooks}}
    BY Zenon DEF Lifecycle!States
  <2> HIDE DEF All
  <2> QED BY <2>1, <2>2, Zenon
<1>4. hooks[h].before \cup {hooks[h].active, hooks[h].success} = Around(hooks[h])
  OBVIOUS
<1> HIDE DEF Around, All
<1> QED BY <1>1, <1>2, <1>3, <1>4

Hooked ==
    /\ contract \in Lifecycle!Contracts
    /\ handlers \subseteq Lifecycle!HookNames
    /\ state \in Lifecycle!States
    /\ reached \subseteq Lifecycle!HookNames
    /\ result \in [from : Lifecycle!States, outcome : Lifecycle!Outcomes]

LEMMA HookedInit == Lifecycle!Init => Hooked
<1> SUFFICES ASSUME Lifecycle!Init PROVE Hooked
  OBVIOUS
<1>1. contract \in Lifecycle!Contracts /\ contract.hooks \in Tables
  BY ContractsAre DEF Lifecycle!Init, HookTypes
<1>2. handlers \subseteq Lifecycle!HookNames
  BY <1>1, HooksAre DEF Lifecycle!Init, Lifecycle!Hooks, Lifecycle!HookNames
<1>3. "requested" \in Lifecycle!States
  <2>1. /\ Lifecycle!M15Hooks \in Tables /\ "prepareImage" \in DOMAIN Lifecycle!M15Hooks
        /\ "requested" \in Lifecycle!M15Hooks["prepareImage"].before
    BY M15Table DEF Tables, Lifecycle!Hook
  <2> QED BY <2>1, HooksAre
<1>4. state = "requested" /\ reached = {} /\ result = [from |-> "requested", outcome |-> "none"]
  BY DEF Lifecycle!Init
<1> QED BY <1>1, <1>2, <1>3, <1>4 DEF Hooked, Lifecycle!Outcomes

LEMMA HookedStep ==
  ASSUME HookInv, Hooked, [Lifecycle!Next]_(Lifecycle!vars)
  PROVE  Hooked'
<1>1. contract.hooks \in Tables
  BY DEF HookInv, HookTypes
<1>2. "failed" \in Lifecycle!States
  BY DEF Lifecycle!States
<1>3. ASSUME NEW hook \in Lifecycle!HookNames, NEW ok \in BOOLEAN, Lifecycle!Handle(hook, ok)
      PROVE  Hooked'
  <2> DEFINE nexts == Lifecycle!NextStates(state, hook)
             active == CHOOSE s \in nexts : TRUE
             success == IF hook = "failure" THEN "failed" ELSE contract.hooks[hook].success
             rejected ==
               IF hook \notin Lifecycle!Hooks(contract) \/ nexts = {} THEN "unsupported"
               ELSE IF hook # "failure" /\ active # contract.hooks[hook].active
                      THEN "inconsistent"
               ELSE IF hook \notin handlers THEN "noHandler"
               ELSE "none"
             supported == \/ hook = "failure"
                          \/ Lifecycle!Has(contract, Lifecycle!Transition(active, hook, success))
  <2>1. /\ IF rejected # "none" THEN Lifecycle!Returns("failed", rejected) /\ UNCHANGED reached
           ELSE IF ~ok THEN Lifecycle!Returns("failed", "hookFailed") /\ UNCHANGED reached
           ELSE /\ reached' = reached \cup {hook}
                /\ IF supported THEN Lifecycle!Returns(success, "passed")
                   ELSE Lifecycle!Returns("failed", "inconsistent")
        /\ UNCHANGED <<contract, handlers>>
    BY <1>3 DEF Lifecycle!Handle
  <2>2. rejected \in Lifecycle!Outcomes
        /\ {"hookFailed", "passed", "inconsistent"} \subseteq Lifecycle!Outcomes
    BY DEF Lifecycle!Outcomes
  <2>3. rejected = "none" => success \in Lifecycle!States
    <3>1. rejected = "none" => hook \in DOMAIN contract.hooks \cup {"failure"}
      BY DEF Lifecycle!Hooks
    <3> QED BY <1>1, <1>2, <3>1, HooksAre
  <2> HIDE DEF rejected, success, supported, nexts, active
  <2>4. /\ reached' \subseteq reached \cup {hook}
        /\ \E s \in Lifecycle!States, o \in Lifecycle!Outcomes : Lifecycle!Returns(s, o)
    BY <1>2, <2>1, <2>2, <2>3
  <2> QED BY <1>3, <2>1, <2>4 DEF Hooked, Lifecycle!Returns
<1>4. ASSUME NEW hook \in Lifecycle!HookNames, Lifecycle!Interrupted(hook)
      PROVE  Hooked'
  <2>1. /\ hook \in DOMAIN contract.hooks /\ UNCHANGED <<contract, handlers, result>>
        /\ state' \in {state, contract.hooks[hook].active} /\ reached' = reached \cup {hook}
    BY <1>4 DEF Lifecycle!Interrupted
  <2> QED BY <1>1, <1>4, <2>1, HooksAre DEF Hooked
<1>5. CASE UNCHANGED Lifecycle!vars
  BY <1>5 DEF Lifecycle!vars, Hooked
<1> QED BY <1>3, <1>4, <1>5 DEF Lifecycle!Next

LEMMA HookTyped == Hooked => Lifecycle!TypeOK
  BY DEF Hooked, Lifecycle!TypeOK

-----------------------------------------------------------------------------
\* A configuration names sources, and a value of a source can be parsed or not.
BindInputs ==
    /\ BindConfigs \subseteq [body : BOOLEAN, strict : BOOLEAN, sources : SUBSET Tagged]
    /\ \A r \in Requests : \A s \in Tagged : r[s] \in {"absent", "zero", "good", "bad"}

Bindable ==
    /\ config \in [body : BOOLEAN, strict : BOOLEAN, sources : SUBSET Tagged]
    /\ \A s \in Tagged : request[s] \in {"absent", "zero", "good", "bad"}
    /\ bound.is \in {"none", "bad_request", "validation_failed", "panic", "bound"}
    /\ bound.is = "bound" => bound.bound \in [model -> Binding!Value]
    /\ bound.errors \subseteq model \X {"required", "enum"}

LEMMA BindableInit ==
  ASSUME BindConstants, BindInputs, Binding!Init
  PROVE  Bindable
<1>1. bound.is = "none" /\ bound.errors = {}
  BY DEF Binding!Init, Binding!Nothing, Binding!Answer
<1> QED BY <1>1 DEF Binding!Init, Bindable, BindInputs

\* What can be parsed is a value.
LEMMA BoundValue ==
  ASSUME BindInv, Bindable, NEW f, Binding!Bound(f).is # "bad"
  PROVE  Binding!Bound(f) \in Binding!Value
<1> DEFINE n == Binding!FirstSent(f)
<1>1. Binding!Value = [from : Tagged \cup {"body", "none"}, is : {"zero", "good"}]
  BY SourcesAre DEF Binding!Value
<1>2. CASE n = 0
  <2>1. Binding!Bound(f) = Binding!BodyBound(f)
    BY <1>2, BoundIs
  <2>2. CASE Binding!BodyBound(f) = Binding!Unset
    BY <1>1, <2>1, <2>2 DEF Binding!Unset
  <2>3. CASE Binding!BodyBound(f) # Binding!Unset
    <3>1. PICK k \in Sets(f) : /\ Binding!Members[k].value # "null"
                               /\ Binding!BodyBound(f)
                                    = [from |-> "body", is |-> Binding!Members[k].value]
      BY <2>3, BodyBoundIs
    <3>2. Binding!Members[k].value \in {"null", "zero", "good", "bad"}
      <4>1. Binding!Members[k] \in MemberRecord
        BY MembersAre DEF Sets
      <4> QED BY <4>1 DEF MemberRecord
    <3> QED BY <1>1, <2>1, <3>1, <3>2
  <2> QED BY <2>2, <2>3
<1>3. CASE n # 0
  <2>1. Binding!Sources[n] \in Tagged /\ Binding!Sent(f, Binding!Sources[n])
    BY <1>3, FirstSentIs DEF Tagged
  <2>2. Binding!Bound(f) = [from |-> Binding!Sources[n], is |-> request[Binding!Sources[n]]]
    BY <1>3, BoundIs
  <2>3. request[Binding!Sources[n]] \in {"zero", "good", "bad"}
    BY <2>1 DEF Bindable, Binding!Sent
  <2> HIDE DEF n
  <2> QED BY <1>1, <2>1, <2>2, <2>3
<1> QED BY <1>2, <1>3

LEMMA BindableStep ==
  ASSUME BindInv, Bindable, [Binding!Next]_bindVars
  PROVE  Bindable'
<1>1. CASE UNCHANGED bindVars
  BY <1>1 DEF bindVars, Bindable
<1>2. CASE Binding!Next
  <2>1. UNCHANGED <<model, config, request>> /\ bound' = Binding!BindRequest
    BY <1>2 DEF Binding!Next
  <2>2. bound'.is \in {"none", "bad_request", "validation_failed", "panic", "bound"}
    BY <2>1 DEF Binding!BindRequest, Binding!Answer
  <2>3. bound'.errors \subseteq model \X {"required", "enum"}
    <3>1. Binding!Errors \subseteq model \X {"required", "enum"}
      BY DEF Binding!Errors
    <3> QED BY <2>1, <3>1 DEF Binding!BindRequest, Binding!Answer
  <2>4. bound'.is = "bound" => bound'.bound \in [model -> Binding!Value]
    <3> SUFFICES ASSUME bound'.is = "bound" PROVE bound'.bound \in [model -> Binding!Value]
      OBVIOUS
    <3>1. ~Binding!SourcesRefused /\ bound'.bound = [f \in model |-> Binding!Bound(f)]
      BY <2>1 DEF Binding!BindRequest, Binding!Answer
    <3>2. \A f \in model : Binding!Bound(f) \in Binding!Value
      BY <3>1, BoundValue DEF Binding!SourcesRefused
    <3> QED BY <3>1, <3>2
  <2> QED BY <2>1, <2>2, <2>3, <2>4 DEF Bindable, Binding!Value
<1> QED BY <1>1, <1>2

LEMMA BindTyped ==
  ASSUME BindInv, Bindable
  PROVE  Binding!TypeOK
  BY SourcesAre DEF BindInv, Bindable, Binding!TypeOK

-----------------------------------------------------------------------------
\* The constants are as all of the components need them.
ServicesConstants ==
    /\ LimiterConstants /\ VMConstants /\ EmbedConstants /\ BatchConstants /\ LogConstants
    /\ LimitConstants /\ RouteConstants /\ BindConstants /\ BindInputs
    /\ MaxInvocations \in Nat

Components == {"LIMITER", "MICROVM", "LIFECYCLE", "LOG", "EVENTS", "HTTP", "ROUTES", "LIMITS",
               "EMBED", "BIND"}

\* The invariants of the components, of some only while they run.
ComponentsInv ==
    /\ LimiterInv /\ VMInv /\ EmbedInv /\ BatchInv /\ LogInv /\ RoutesInv
    /\ (kind = "LIFECYCLE" => HookInv) /\ (kind = "HTTP" => HttpInv)
    /\ (kind = "LIMITS" => LimitInv) /\ (kind = "BIND" => BindInv)

LEMMA ComponentsAlways ==
  ASSUME ServicesConstants
  PROVE  ServicesSpec => []ComponentsInv
<1>1. EmbedConstants /\ LogConstants /\ None \notin Entries
  BY DEF ServicesConstants, LogConstants
<1>2. ServicesInit => EmbedInv /\ LogInv
  BY <1>1, EmbedInit, LogInitInv DEF ServicesInit
<1>3. EmbedInv /\ LogInv /\ [ServicesNext]_allVars => (EmbedInv /\ LogInv)'
  BY <1>1, EmbedStep, LogStep DEF ServicesNext, allVars
<1>4. ServicesSpec => [](EmbedInv /\ LogInv)
  BY <1>2, <1>3, PTL DEF ServicesSpec
<1>5. ServicesSpec => []LimiterInv /\ []VMInv /\ []BatchInv /\ []RoutesInv
  BY LimiterAlways, VMAlways, BatchAlways, RoutesAlways DEF ServicesConstants
<1>6. ServicesSpec => [](kind = "LIFECYCLE" => HookInv) /\ [](kind = "HTTP" => HttpInv)
  BY HookAlways, HttpAlways
<1>7. ServicesSpec => [](kind = "LIMITS" => LimitInv) /\ [](kind = "BIND" => BindInv)
  BY LimitAlways, BindAlways DEF ServicesConstants
<1> QED BY <1>4, <1>5, <1>6, <1>7, PTL DEF ComponentsInv

\* What they leave open.
TypesInv ==
    /\ kind \in Components
    /\ commands \in 0 .. MaxCommands /\ Queued /\ Invoked
    /\ (kind = "LIFECYCLE" => Hooked)
    /\ (kind = "HTTP" => Configured /\ answer \in AnAnswer /\ record \in AnAnswer)
    /\ (kind = "LIMITS" => Limited) /\ (kind = "BIND" => Bindable)

LEMMA TypesInit ==
  ASSUME ServicesConstants, ServicesInit
  PROVE  TypesInv
<1>1. kind \in Components
  BY DEF ServicesInit, Components
<1>2. commands \in 0 .. MaxCommands
  BY DEF ServicesInit, VM!Init, ServicesConstants, VMConstants
<1>3. Queued
  <2>1. Log!Init /\ BufferSize \in Nat /\ MaxRetries \in Nat
    BY DEF ServicesInit, ServicesConstants, LogConstants
  <2>2. queue = <<>> /\ panicked = FALSE /\ worker.failures = 0
    BY <2>1 DEF Log!Init
  <2>3. Len(queue) = 0 /\ panicked \in BOOLEAN
    BY <2>2
  <2>4. Len(queue) <= BufferSize /\ worker.failures <= MaxRetries
    BY <2>1, <2>2, <2>3
  <2> QED BY <2>3, <2>4 DEF Queued
<1>4. Invoked
  BY DEF ServicesInit, Batches!Init, ServicesConstants, Invoked
<1>5. kind = "LIFECYCLE" => Hooked
  BY HookedInit DEF ServicesInit
<1>6. kind = "HTTP" => Configured /\ answer \in AnAnswer /\ record \in AnAnswer
  <2> SUFFICES ASSUME Http!Init
               PROVE  Configured /\ answer \in AnAnswer /\ record \in AnAnswer
    BY DEF ServicesInit
  <2>1. Configured
    BY DEF Http!Init, Configured
  <2>2. Http!Nothing \in AnAnswer
    BY DEF Http!Nothing, AnAnswer
  <2> QED BY <2>1, <2>2 DEF Http!Init
<1>7. kind = "LIMITS" => Limited
  <2> SUFFICES ASSUME Limits!Init PROVE Limited
    BY DEF ServicesInit
  <2>1. MaxResponseBytes \in Nat
    BY DEF ServicesConstants, LimitConstants
  <2>2. body <= MaxResponseBytes
    BY <2>1 DEF Limits!Init
  <2> QED BY <2>2 DEF Limits!Init, Limited
<1>8. kind = "BIND" => Bindable
  BY BindableInit DEF ServicesInit, ServicesConstants
<1> QED BY <1>1, <1>2, <1>3, <1>4, <1>5, <1>6, <1>7, <1>8 DEF TypesInv

LEMMA TypesStep ==
  ASSUME ServicesConstants, ComponentsInv, TypesInv, [ServicesNext]_allVars
  PROVE  TypesInv'
<1>1. kind' = kind
  BY DEF ServicesNext, allVars
<1>2. commands' \in 0 .. MaxCommands
  <2>1. [VM!Next]_vmVars
    BY DEF ServicesNext, allVars
  <2> QED BY <2>1, CommandsStep DEF ServicesConstants, TypesInv
<1>3. Queued'
  <2>1. Log!Next \/ UNCHANGED logVars
    BY DEF ServicesNext, allVars
  <2> QED BY <2>1, QueuedStep DEF ServicesConstants, ComponentsInv, TypesInv
<1>4. Invoked'
  <2>1. [Batches!Next]_batchVars
    BY DEF ServicesNext, allVars
  <2> QED BY <2>1, InvokedStep DEF ServicesConstants, ComponentsInv, TypesInv
<1>5. kind = "LIFECYCLE" => Hooked'
  <2>1. [Lifecycle!Next]_(Lifecycle!vars)
    BY DEF ServicesNext, allVars, lifecycleVars, Lifecycle!vars
  <2> QED BY <2>1, HookedStep DEF ComponentsInv, TypesInv
<1>6. kind = "HTTP" => (Configured /\ answer \in AnAnswer /\ record \in AnAnswer)'
  <2>1. [Http!Next]_httpVars
    BY DEF ServicesNext, allVars
  <2>2. kind = "HTTP" => answer' \in AnAnswer /\ record' \in AnAnswer
    BY <2>1, AnswerStep DEF ComponentsInv, TypesInv
  <2>3. kind = "HTTP" => Configured'
    BY <2>1, ConfiguredStep DEF ComponentsInv, TypesInv
  <2> QED BY <2>2, <2>3 DEF AnAnswer
<1>7. kind = "LIMITS" => Limited'
  <2>1. [Limits!Next]_limitVars
    BY DEF ServicesNext, allVars
  <2> QED BY <2>1, LimitedStep DEF ServicesConstants, ComponentsInv, TypesInv
<1>8. kind = "BIND" => Bindable'
  <2>1. [Binding!Next]_bindVars
    BY DEF ServicesNext, allVars
  <2> QED BY <2>1, BindableStep DEF ComponentsInv, TypesInv
<1> QED BY <1>1, <1>2, <1>3, <1>4, <1>5, <1>6, <1>7, <1>8 DEF TypesInv

-----------------------------------------------------------------------------
(* The theorems.                                                            *)

\* A record that its source no longer holds was handled with success, unless no
\* EventBridge route matched it, and no message of SQS that was handled in an
\* invocation that answered is handled again (EventBatches: batchItemFailures and
\* the dispatch of runtime/aws_lambda_dispatch.go).
THEOREM BatchesAlwaysSafe ==
  ASSUME BatchConstants
  PROVE  Batches!Spec => []Batches!BatchesSafe
<1>1. BatchInv => Batches!BatchesSafe
  BY BatchInvSafe
<1> QED BY <1>1, BatchAlways, PTL

\* A lifecycle hook's handler runs only after those of the hooks that lead to it,
\* under every contract that validation lets through (MicroVMLifecycle).
THEOREM LifecycleAlwaysSound ==
  Lifecycle!Spec => []Lifecycle!LifecycleSound
<1>1. HookInv => Lifecycle!LifecycleSound
  BY HookInvSound
<1> QED BY <1>1, HookAlways, PTL

\* Both in the run of the services: no record of an event source is lost, and a
\* lifecycle hook runs in order.
THEOREM HandlersAlwaysSafe ==
  ASSUME BatchConstants
  PROVE  ServicesSpec => []HandlersSafe
<1>1. BatchInv /\ (kind = "LIFECYCLE" => HookInv) => HandlersSafe
  BY BatchInvSafe, HookInvSound DEF HandlersSafe
<1> QED BY <1>1, BatchAlways, HookAlways, PTL

\* Whatever times out, panics or is refused, and in whatever order the timeout's
\* goroutine and the serving one go on: a handler runs behind every gate in front of
\* it, the answer and the log record tell what became of it, and the abandoned
\* goroutine never blocks (HttpServe).
THEOREM RequestsAlwaysServed ==
  Http!Spec => []Http!RequestServed
<1>1. HttpInv => Http!RequestServed
  BY HttpInvServes
<1> QED BY <1>1, HttpAlways, PTL

\* A response stays within its limit, with two goroutines that share the counter,
\* and its end is told only after everything its source gave (ResponseLimits).
THEOREM ResponsesAlwaysWhole ==
  ASSUME LimitConstants
  PROVE  Limits!Spec => []Limits!ResponseWhole
<1>1. LimitInv => Limits!ResponseWhole
  BY LimitInvSafe
<1> QED BY <1>1, LimitAlways, PTL

\* Both in the run of the services.
THEOREM ResponsesAlwaysTrue ==
  ASSUME LimitConstants
  PROVE  ServicesSpec => []ResponsesTrue
<1>1. (kind = "HTTP" => HttpInv) /\ (kind = "LIMITS" => LimitInv) => ResponsesTrue
  BY HttpInvServes, LimitInvSafe DEF ResponsesTrue
<1> QED BY <1>1, HttpAlways, LimitAlways, PTL

\* The route that serves a request takes its path as literally as any other route does
\* that takes it, and of routes alike in that the first one registered serves, for any
\* words, parameters and methods, and in whatever order routes are added (Router: match,
\* matchRoute and routeMoreSpecific of runtime/router.go).
THEOREM RoutesAlwaysLiteral ==
  ASSUME RouteConstants
  PROVE  Routes!Spec => []Routes!LiteralWins
<1>1. RoutesInv => Routes!LiteralWins
  BY RoutesInvWins
<1> QED BY <1>1, RoutesAlways, PTL

\* A handler's model holds what the first source that was sent says, a required field
\* was sent, and who is told that a field is missing did not send it, for any models,
\* configurations and requests (RequestBinding: BindRequest).
THEOREM RequestsAlwaysBound ==
  ASSUME BindConstants
  PROVE  Binding!Spec => []Binding!RequestBound
<1>1. BindInv => Binding!RequestBound
  BY DEF BindInv
<1> QED BY <1>1, BindAlways, PTL

\* Both in the run of the services.
THEOREM RequestsAlwaysUnderstood ==
  ASSUME RouteConstants, BindConstants
  PROVE  ServicesSpec => []RequestsUnderstood
<1>1. RoutesInv /\ (kind = "BIND" => BindInv) => RequestsUnderstood
  BY RoutesInvWins DEF RequestsUnderstood, BindInv
<1> QED BY <1>1, RoutesAlways, BindAlways, PTL

\* The state of each component is well formed whichever runs, for any values of the
\* constants that are what their components need (the types of the fields and variables
\* of the code that they model).
THEOREM ServicesAlwaysTyped ==
  ASSUME ServicesConstants
  PROVE  ServicesSpec => []ServicesTypeOK
<1>1. ComponentsInv /\ TypesInv => ServicesTypeOK
  <2> SUFFICES ASSUME ComponentsInv, TypesInv PROVE ServicesTypeOK
    OBVIOUS
  <2>1. TypeOK /\ Embedding!TypeOK /\ Log!TypeOK /\ Batches!TypeOK /\ Routes!TypeOK
    BY EmbedTyped, QueuedTyped, InvokedTyped, RoutesTyped
    DEF ComponentsInv, TypesInv, LimiterInv, ServicesConstants
  <2>2. VM!TypeOK
    BY DEF ComponentsInv, TypesInv, VMInv, VMTypes, VM!TypeOK
  <2>3. kind = "LIFECYCLE" => Lifecycle!TypeOK
    BY HookTyped DEF TypesInv
  <2>4. kind = "HTTP" => Http!TypeOK
    BY HttpTyped DEF ComponentsInv, TypesInv
  <2>5. kind = "LIMITS" => Limits!TypeOK
    BY LimitTyped DEF ComponentsInv, TypesInv, ServicesConstants
  <2>6. kind = "BIND" => Binding!TypeOK
    BY BindTyped DEF ComponentsInv, TypesInv
  <2>7. kind \in Components
    BY DEF TypesInv
  <2>8. \/ kind \in {"LIMITER", "LOG", "EVENTS", "ROUTES", "EMBED"}
        \/ kind \in {"MICROVM", "LIFECYCLE", "HTTP", "LIMITS", "BIND"}
    BY <2>7 DEF Components
  <2>9. CASE kind \in {"LIMITER", "LOG", "EVENTS", "ROUTES", "EMBED"}
    BY <2>1, <2>9, Zenon DEF ServicesTypeOK
  <2>10. CASE kind \in {"MICROVM", "LIFECYCLE", "HTTP", "LIMITS", "BIND"}
    BY <2>2, <2>3, <2>4, <2>5, <2>6, <2>10, Zenon DEF ServicesTypeOK
  <2> QED BY <2>8, <2>9, <2>10
<1>2. ServicesInit => TypesInv
  BY TypesInit
<1>3. ComponentsInv /\ TypesInv /\ [ServicesNext]_allVars => TypesInv'
  BY TypesStep
<1>4. ServicesSpec => []ComponentsInv
  BY ComponentsAlways
<1> QED BY <1>1, <1>2, <1>3, <1>4, PTL DEF ServicesSpec
=============================================================================

------------------------------- MODULE Router -------------------------------
(***************************************************************************)
(* The routes of an app (runtime/router.go): registering one, and choosing   *)
(* the one that serves a request's method and path.  A pattern is a sequence *)
(* of segments, static ones, parameters and, last, a proxy for the rest of    *)
(* the path.                                                                *)
(***************************************************************************)
EXTENDS Naturals, Sequences, FiniteSets

CONSTANTS Words,      \* the words of static segments
          Params,     \* the names of parameters
          Methods,
          MaxLength,  \* bound on the length of patterns and paths, for TLC
          MaxRoutes   \* bound on the number of routes, for TLC

VARIABLE routes

vars == <<routes>>

\* A path has other words too, and may have empty segments ("a//b"), which only a
\* proxy takes.
Empty == ""
SeqsOf(S, n) == UNION {[1 .. k -> S] : k \in 0 .. n}
Paths == SeqsOf(Words \cup {"another", Empty}, MaxLength)

Static == [kind : {"static"}, value : Words]
Param == [kind : {"param"}, value : Params]
Proxy == [kind : {"proxy"}, value : Params]

\* parseRouteSegments: a proxy is the last segment.
Patterns ==
    {p \in SeqsOf(Static \cup Param \cup Proxy, MaxLength) :
       \A i \in DOMAIN p : p[i].kind = "proxy" => i = Len(p)}

Route == [method : Methods, pattern : Patterns, order : 0 .. MaxRoutes - 1]

TypeOK ==
    /\ Len(routes) <= MaxRoutes
    /\ \A k \in DOMAIN routes : routes[k] \in Route /\ routes[k].order = k - 1

CountOf(pattern, kind) == Cardinality({i \in DOMAIN pattern : pattern[i].kind = kind})
HasProxy(pattern) == CountOf(pattern, "proxy") > 0

\* Mutant: the proxy takes no segment too.
MatchRouteEmptyProxy(pattern, path) ==
    /\ IF HasProxy(pattern) THEN Len(path) >= Len(pattern) - 1 ELSE Len(path) = Len(pattern)
    /\ \A i \in 1 .. CountOf(pattern, "static") + CountOf(pattern, "param") :
         /\ path[i] # Empty
         /\ pattern[i].kind = "static" => pattern[i].value = path[i]

\* matchRoute: the proxy takes one segment or more, of any kind.
MatchRoute(pattern, path) ==
    /\ IF HasProxy(pattern) THEN Len(path) >= Len(pattern) ELSE Len(path) = Len(pattern)
    /\ \A i \in 1 .. CountOf(pattern, "static") + CountOf(pattern, "param") :
         /\ path[i] # Empty
         /\ pattern[i].kind = "static" => pattern[i].value = path[i]

\* Mutant: of equally specific routes the later one.
RouteMoreSpecificLater(a, b) ==
    LET rank(r) == <<CountOf(r.pattern, "static"), CountOf(r.pattern, "param"),
                     IF HasProxy(r.pattern) THEN 0 ELSE 1, Len(r.pattern), r.order>>
        differs == {i \in 1 .. 5 : rank(a)[i] # rank(b)[i]}
    IN  \E i \in differs : (\A j \in differs : i <= j) /\ rank(a)[i] > rank(b)[i]

\* Mutant: a proxy is as good as a parameter.
RouteMoreSpecificProxyCounts(a, b) ==
    LET rank(r) == <<CountOf(r.pattern, "static"),
                     CountOf(r.pattern, "param") + CountOf(r.pattern, "proxy"),
                     MaxRoutes - r.order>>
        differs == {i \in 1 .. 3 : rank(a)[i] # rank(b)[i]}
    IN  \E i \in differs : (\A j \in differs : i <= j) /\ rank(a)[i] > rank(b)[i]

\* More static segments, then more parameters, then no proxy, then the longer one,
\* and of equally specific routes the one registered first.
RouteMoreSpecific(a, b) ==
    LET rank(r) == <<CountOf(r.pattern, "static"), CountOf(r.pattern, "param"),
                     IF HasProxy(r.pattern) THEN 0 ELSE 1, Len(r.pattern),
                     MaxRoutes - r.order>>
        differs == {i \in 1 .. 5 : rank(a)[i] # rank(b)[i]}
    IN  \E i \in differs : (\A j \in differs : i <= j) /\ rank(a)[i] > rank(b)[i]

NoRoute == [method |-> "none"]

\* match: a pass over the routes that keeps the best so far.
Match(rs, method, path) ==
    LET best[k \in 0 .. Len(rs)] ==
          IF k = 0 THEN NoRoute
          ELSE IF /\ rs[k].method = method
                  /\ MatchRoute(rs[k].pattern, path)
                  /\ best[k - 1] = NoRoute \/ RouteMoreSpecific(rs[k], best[k - 1])
                 THEN rs[k] ELSE best[k - 1]
    IN  best[Len(rs)]

Init == routes = <<>>

\* addStrict
Add(method, pattern) ==
    /\ Len(routes) < MaxRoutes
    /\ \A k \in DOMAIN routes : routes[k].method # method \/ routes[k].pattern # pattern
    /\ routes' = Append(routes, [method |-> method, pattern |-> pattern,
                                 order |-> Len(routes)])

Next == \E method \in Methods, pattern \in Patterns : Add(method, pattern)

Spec == Init /\ [][Next]_vars

-----------------------------------------------------------------------------
(* Properties.                                                              *)

\* What a path looks like to a pattern, segment by segment: the reference for
\* "more specific" among patterns that match the same path.
Literal(pattern, i) == i <= Len(pattern) /\ pattern[i].kind = "static"
Bound(pattern, i) == i <= Len(pattern) /\ pattern[i].kind # "proxy"

\* A request is served by a route that takes every segment of its path at least as
\* literally as any other route does: one as literal everywhere and more so
\* somewhere is never passed over for a vaguer one, and of two that do not differ
\* in that the one registered first serves, whatever came between and after them.
LiteralWins ==
    \A method \in Methods, path \in Paths :
      LET served == Match(routes, method, path)
          takes == {k \in DOMAIN routes :
                      routes[k].method = method /\ MatchRoute(routes[k].pattern, path)}
          better(p, q) == \A i \in DOMAIN path :
                            (Literal(q, i) => Literal(p, i)) /\ (Bound(q, i) => Bound(p, i))
      IN  /\ (served = NoRoute) = (takes = {})
          /\ \A k \in takes :
               better(routes[k].pattern, served.pattern)
                 => /\ better(served.pattern, routes[k].pattern)
                    /\ served.order <= routes[k].order
=============================================================================

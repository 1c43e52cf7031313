--------------------------- MODULE MCRateLimiter ---------------------------
(* Small instances of RateLimiter: a window of two requests, and a window of
   one request in a window of two. *)
EXTENDS RateLimiter

CONSTANTS c1, c2

One(kind, parts, g, checked) ==
    [kind |-> kind, parts |-> parts, windows |-> {g}, checked |-> checked]
Nested(checked) ==
    [kind |-> "multi", parts |-> 1, checked |-> checked,
     windows |-> {[size |-> 1, max |-> 1], [size |-> 2, max |-> 2]}]
OneWindow == One("fixed", 1, [size |-> 2, max |-> 2], FALSE)
Closed == One("fixed", 1, [size |-> 2, max |-> 0], FALSE)
Sliding(checked) == One("sliding", 2, [size |-> 1, max |-> 1], checked)
AllStrategies ==
    {OneWindow, Closed, Nested(FALSE), Nested(TRUE), Sliding(FALSE), Sliding(TRUE)}
SingleWindow == {OneWindow}
SlidingOnly == {Sliding(FALSE)}
=============================================================================

--------------------------- MODULE ResponseLimits ---------------------------
(***************************************************************************)
(* The limit on a streamed response (runtime/response_limits.go): a          *)
(* response's reader and its stream are each copied by a goroutine, both      *)
(* counting against one limiter that starts at the size of the buffered body. A chunk   *)
(* is its size; empty chunks, which are not counted, are left out.           *)
(***************************************************************************)
EXTENDS Integers, Sequences

CONSTANTS MaxResponseBytes,
          Sizes,      \* of chunks
          MaxChunks   \* bound on the chunks of each source, for TLC

Pumps == {"reader", "stream"}

VARIABLES emitted,  \* the limiter's count
          tripped,  \* whether it has refused something
          body,     \* the size of the buffered body
          chunks,   \* what each source has left
          fails,    \* whether each source ends with an error
          pump,     \* each goroutine: the step it is at, and the size it writes
          given,    \* history: the bytes each source gave so far
          got,      \* history: the bytes each consumer got
          saw       \* history: what each consumer saw last

vars == <<emitted, tripped, body, chunks, fails, pump, given, got, saw>>

\* "cut" writes a part of a chunk, the error comes after it.
PumpSteps == {"copy", "write", "cut", "error", "end", "done"}
At(step, n) == [step |-> step, size |-> n]
Chunks == UNION {[1 .. n -> Sizes] : n \in 0 .. MaxChunks}

TypeOK ==
    /\ emitted \in 0 .. MaxResponseBytes /\ tripped \in BOOLEAN
    /\ body \in 0 .. MaxResponseBytes
    /\ \A p \in Pumps :
          /\ chunks[p] \in Seq(Sizes) /\ fails[p] \in BOOLEAN
          /\ pump[p].step \in PumpSteps /\ pump[p].size \in Nat
          /\ given[p] \in Nat /\ got[p] \in Nat /\ saw[p] \in {"data", "error", "end"}

\* A longer body has been answered with an error before.
Init ==
    /\ tripped = FALSE
    /\ body \in 0 .. MaxResponseBytes
    /\ emitted = body
    /\ chunks \in [Pumps -> Chunks]
    /\ fails \in [Pumps -> BOOLEAN]
    /\ pump = [p \in Pumps |-> At("copy", 0)]
    /\ given = [p \in Pumps |-> 0]
    /\ got = [p \in Pumps |-> 0]
    /\ saw = [p \in Pumps |-> "data"]

\* Mutant: what does not fit is left out and the copy goes on.
AllowChunkUntripped(n) ==
    IF emitted + n > MaxResponseBytes
      THEN [next |-> At("copy", 0), counts |-> emitted, trips |-> FALSE]
      ELSE [next |-> At("write", n), counts |-> emitted + n, trips |-> FALSE]

\* allowChunk: a chunk of the stream goes out whole or not at all.
AllowChunk(n) ==
    IF tripped \/ emitted + n > MaxResponseBytes
      THEN [next |-> At("error", 0), counts |-> emitted, trips |-> TRUE]
      ELSE [next |-> At("write", n), counts |-> emitted + n, trips |-> FALSE]

\* Mutant: the reader counts its own bytes only.
ConsumeReaderAlone(n) ==
    LET remaining == MaxResponseBytes - body - got["reader"]
    IN  CASE remaining <= 0 -> [next |-> At("error", 0), counts |-> emitted, trips |-> TRUE]
          [] remaining > 0 /\ n > remaining ->
               [next |-> At("cut", remaining), counts |-> emitted, trips |-> TRUE]
          [] OTHER -> [next |-> At("write", n), counts |-> emitted, trips |-> tripped]

\* consumeReader: a chunk of the reader is cut at the limit.
ConsumeReader(n) ==
    LET remaining == MaxResponseBytes - emitted
    IN  CASE tripped \/ remaining <= 0 ->
               [next |-> At("error", 0), counts |-> emitted, trips |-> TRUE]
          [] ~tripped /\ remaining > 0 /\ n > remaining ->
               [next |-> At("cut", remaining), counts |-> MaxResponseBytes, trips |-> TRUE]
          [] OTHER -> [next |-> At("write", n), counts |-> emitted + n, trips |-> FALSE]

\* limitBodyStream, limitBodyReader: a goroutine takes the next chunk of its
\* source and finds, under the limiter's mutex, what of it may go out.
Copy(p) ==
    /\ pump[p].step = "copy" /\ chunks[p] # <<>>
    /\ chunks' = [chunks EXCEPT ![p] = Tail(@)]
    /\ LET n == Head(chunks[p])
           may == IF p = "reader" THEN ConsumeReader(n) ELSE AllowChunk(n)
       IN  /\ given' = [given EXCEPT ![p] = @ + n]
           /\ emitted' = may.counts /\ tripped' = may.trips
           /\ pump' = [pump EXCEPT ![p] = may.next]
    /\ UNCHANGED <<body, fails, got, saw>>

SourceEnds(p) ==
    /\ pump[p].step = "copy" /\ chunks[p] = <<>>
    /\ pump' = [pump EXCEPT ![p] = At(IF fails[p] THEN "error" ELSE "end", 0)]
    /\ UNCHANGED <<emitted, tripped, body, chunks, fails, given, got, saw>>

\* The consumer takes what the goroutine writes.  One that left takes nothing
\* more: the goroutine then stays where it is.
Write(p) ==
    /\ pump[p].step \in {"write", "cut"}
    /\ got' = [got EXCEPT ![p] = @ + pump[p].size]
    /\ pump' = [pump EXCEPT ![p] = At(IF @.step = "cut" THEN "error" ELSE "copy", 0)]
    /\ UNCHANGED <<emitted, tripped, body, chunks, fails, given, saw>>

\* The pipe or channel is closed, after an error or not.
Close(p) ==
    /\ pump[p].step \in {"error", "end"}
    /\ saw' = [saw EXCEPT ![p] = pump[p].step]
    /\ pump' = [pump EXCEPT ![p] = At("done", 0)]
    /\ UNCHANGED <<emitted, tripped, body, chunks, fails, given, got>>

Next == \E p \in Pumps : Copy(p) \/ SourceEnds(p) \/ Write(p) \/ Close(p)
Spec == Init /\ [][Next]_vars

-----------------------------------------------------------------------------
\* The parts of a response together stay within its limit, and a part that ends
\* without an error is whole: a client that is not told of an error has all of it.
ResponseWhole ==
    /\ body + got["reader"] + got["stream"] <= MaxResponseBytes
    /\ \A p \in Pumps : saw[p] = "end" => chunks[p] = <<>> /\ got[p] = given[p]
=============================================================================

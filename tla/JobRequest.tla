----------------------------- MODULE JobRequest -----------------------------
(***************************************************************************)
(* The REQ item of one idempotency key (pkg/jobs/ledger.go) and the callers *)
(* that guard an effect with it: CreateIdempotencyRecord, the effect when   *)
(* the record was created, then CompleteIdempotencyRecord.                  *)
(*                                                                         *)
(* A caller is one invocation of a handler: the first delivery of a request *)
(* or a retry of it, at any time and concurrently.  It can fail or crash at *)
(* any step, and an answer of DynamoDB can be lost.  The record has a TTL   *)
(* (24 hours by default), which a completion does not extend.               *)
(***************************************************************************)
EXTENDS Naturals, FiniteSets

CONSTANT Callers

VARIABLES req,      \* the REQ item, NoRequest when there is none
          reaped,   \* history: how often the record was deleted
          past,     \* history: what the item has been
          caller,   \* each caller's step
          life,     \* history: when each caller created it, between which deletions
          effects   \* history: the callers that applied the effect

vars == <<req, reaped, past, caller, life, effects>>

\* by: the caller whose result the record keeps, nobody until it is completed.
\* The record does not name its creator: it is here for the properties.
Request == [status : {"IN_PROGRESS", "COMPLETED"}, creator : Callers,
            by : SUBSET Callers]
NoRequest == [status |-> "NONE"]

Steps == {"create", "load", "effect", "complete",
          "already_completed", "already_in_progress", "ok", "failed"}

TypeOK ==
    /\ req \in Request \cup {NoRequest}
    /\ reaped \in 0 .. Cardinality(Callers)
    /\ past \subseteq Request
    /\ caller \in [Callers -> Steps]
    /\ life \in [Callers -> 0 .. reaped]
    /\ effects \subseteq Callers

Init ==
    /\ req = NoRequest
    /\ reaped = 0
    /\ past = {}
    /\ caller = [c \in Callers |-> "create"]
    /\ life = [c \in Callers |-> 0]
    /\ effects = {}

-----------------------------------------------------------------------------

Goes(c, step) == caller' = [caller EXCEPT ![c] = step]

NewRequest(c) == [status |-> "IN_PROGRESS", creator |-> c, by |-> {}]

Create(c) ==
    /\ req' = NewRequest(c)
    /\ past' = past \cup {req'}
    /\ life' = [life EXCEPT ![c] = reaped]

\* Mutant: the create replaces what is there.
ApplyCreateReplaces(c) ==
    /\ caller[c] = "create"
    /\ Create(c)
    /\ Goes(c, "effect")
    /\ UNCHANGED <<reaped, effects>>

\* A create with attribute_not_exists.
ApplyCreate(c) ==
    /\ caller[c] = "create"
    /\ \/ /\ req = NoRequest
          /\ Create(c)
          /\ Goes(c, "effect")
       \/ /\ req # NoRequest
          /\ Goes(c, "load")
          /\ UNCHANGED <<req, past, life>>
    /\ UNCHANGED <<reaped, effects>>

\* Mutant: what was found is taken for a completed record.
LoadExistingCompleted(c) ==
    /\ caller[c] = "load"
    /\ \/ past # {} /\ Goes(c, "already_completed")
       \/ Goes(c, "failed")
    /\ UNCHANGED <<req, reaped, past, life, effects>>

\* First(&existing) is an eventually consistent read: it may return what the
\* item was before, or not find it, which is an internal error.
LoadExisting(c) ==
    /\ caller[c] = "load"
    /\ \/ \E r \in past :
            Goes(c, IF r.status = "COMPLETED" THEN "already_completed"
                                              ELSE "already_in_progress")
       \/ Goes(c, "failed")
    /\ UNCHANGED <<req, reaped, past, life, effects>>

\* External: the effect that the record guards, as in the import pipeline's
\* ingest handler: only the caller that created the record gets here.
Effect(c) ==
    /\ caller[c] = "effect"
    /\ effects' = effects \cup {c}
    /\ Goes(c, "complete")
    /\ UNCHANGED <<req, reaped, past, life>>

\* Result and Error with SetIfNotExists: the first completion's stay.
Completed(c) ==
    [req EXCEPT !.status = "COMPLETED", !.by = IF @ = {} THEN {c} ELSE @]

\* Mutant: without IfExists the update creates the item.
ApplyCompleteUpserts(c) ==
    /\ caller[c] = "complete"
    /\ req' = IF req = NoRequest THEN [status |-> "COMPLETED", by |-> {c}]
                                 ELSE Completed(c)
    /\ past' = past \cup {req'}
    /\ Goes(c, "ok")
    /\ UNCHANGED <<reaped, life, effects>>

\* IfExists: a record that DynamoDB has deleted is not found.
ApplyComplete(c) ==
    /\ caller[c] = "complete"
    /\ \/ /\ req # NoRequest
          /\ req' = Completed(c)
          /\ past' = past \cup {req'}
          /\ Goes(c, "ok")
       \/ /\ req = NoRequest
          /\ Goes(c, "failed")
          /\ UNCHANGED <<req, past>>
    /\ UNCHANGED <<reaped, life, effects>>

\* A step fails before it did anything, or its answer is lost; or the caller's
\* process dies: the caller does not go on.
Fail(c) ==
    /\ caller[c] \in {"create", "load", "effect", "complete"}
    /\ Goes(c, "failed")
    /\ UNCHANGED <<req, reaped, past, life, effects>>

FailAfterCreate(c) ==
    /\ caller[c] = "create"
    /\ req = NoRequest
    /\ Create(c)
    /\ Goes(c, "failed")
    /\ UNCHANGED <<reaped, effects>>

\* External: DynamoDB deletes the record after its TTL.
ReapRequest ==
    /\ req # NoRequest
    /\ req' = NoRequest
    /\ reaped' = reaped + 1
    /\ UNCHANGED <<past, caller, life, effects>>

Next ==
    \/ \E c \in Callers :
         \/ ApplyCreate(c) \/ LoadExisting(c) \/ Effect(c) \/ ApplyComplete(c)
         \/ Fail(c) \/ FailAfterCreate(c)
    \/ ReapRequest

Spec == Init /\ [][Next]_vars

-----------------------------------------------------------------------------
(* Properties.                                                              *)

\* While a record exists its effect is applied by one caller at most: repeated
\* requests "do not double-apply side effects".
EffectOnce ==
    \A c, d \in effects : life[c] = life[d] => c = d

\* A caller that is told already_completed can rely on the effect: some caller
\* has applied it, however stale the read was.
CompletedIsTrue ==
    (\E c \in Callers : caller[c] = "already_completed") => effects # {}

\* A completed record is complete: the effect of the caller whose result it
\* keeps is applied, and that caller is the record's creator, if it is not one
\* that outlived its own record and completed the one created after it.
CompletedByCreator ==
    req # NoRequest /\ req.status = "COMPLETED"
      => \E c \in effects :
           /\ req.by = {c}
           /\ life[c] = life[req.creator] => c = req.creator
=============================================================================

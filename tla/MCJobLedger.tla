----------------------------- MODULE MCJobLedger -----------------------------
(***************************************************************************)
(* A small instance of DynamoJobLedger on one jobs table: the SLOT items of *)
(* one semaphore, the META item of one job and the REQ item of one          *)
(* idempotency key.  No operation reads or writes two kinds of items, so    *)
(* what happens to one kind does not depend on the others: a behaviour here *)
(* works on one kind, and each kind is explored completely.                 *)
(***************************************************************************)
EXTENDS JobSemaphore, TLC

CONSTANTS w1, w2, w3, j1, j2, c1, c2, c3,
          JobWorkers, Statuses, MaxVersion, MaxLives, Callers

VARIABLES kind,   \* the kind of items that the behaviour works on
          meta, lives, jobs, jobCall,
          req, reaped, requests, caller, life, effects

jobVars == <<meta, lives, jobs, jobCall>>
requestVars == <<req, reaped, requests, caller, life, effects>>

Status == INSTANCE JobStatus WITH
    Workers <- JobWorkers, past <- jobs, call <- jobCall
Request == INSTANCE JobRequest WITH past <- requests

MCAhead == [w \in Workers |-> 0]
Same == Permutations(Workers)

LedgerInit ==
    /\ kind \in {"SLOT", "META", "REQ"}
    /\ Init /\ Status!Init /\ Request!Init

LedgerNext ==
    /\ \/ kind = "SLOT" /\ Next /\ UNCHANGED <<jobVars, requestVars>>
       \/ kind = "META" /\ Status!Next /\ UNCHANGED <<vars, requestVars>>
       \/ kind = "REQ" /\ Request!Next /\ UNCHANGED <<vars, jobVars>>
    /\ UNCHANGED kind

LedgerSpec == LedgerInit /\ [][LedgerNext]_<<kind, vars, jobVars, requestVars>>

-----------------------------------------------------------------------------
(* The properties of JobSemaphore and, named here, those of the others.     *)

\* The items of the table and the calls on them are well formed.
LedgerTypeOK == TypeOK /\ Status!TypeOK /\ Request!TypeOK

\* A granted transition replaces the job its caller decided on.
NoLostUpdate == Status!NoLostUpdate

\* Within one life of the job a version names one state (TransitionJobStatus).
VersionNamesState == Status!VersionNamesState

\* One caller applies the effect that an idempotency record guards while the
\* record exists, already_completed is told only after it was applied, and a
\* completed record keeps its creator's result.
RequestsSafe ==
    Request!EffectOnce /\ Request!CompletedIsTrue /\ Request!CompletedByCreator
=============================================================================

----------------------------- MODULE JobStatus -----------------------------
(***************************************************************************)
(* The META item of one job (pkg/jobs/ledger.go): CreateJob, and            *)
(* TransitionJobStatus with its optimistic check of the item's version.     *)
(*                                                                         *)
(* A worker decides on a transition from the job as it last saw it, in the  *)
(* answer of a call or in the table: that may be any job the item has been. *)
(* Answers are lost, and a job that was created with a TTL is deleted by    *)
(* DynamoDB and can be created again.                                       *)
(***************************************************************************)
EXTENDS Naturals

CONSTANTS Workers,
          Statuses,   \* in.Status and in.ToStatus are not restricted further
          MaxVersion, \* bound on the version, for TLC
          MaxLives    \* bound on how often the job is created, for TLC

VARIABLES meta,   \* the META item, NoJob when there is none
          lives,  \* history: how often the job was created
          past,   \* history: what the item has been
          call    \* each worker's call in progress

vars == <<meta, lives, past, call>>

\* life tells one creation of the job from the next; the item does not have it.
Job == [status : Statuses, version : Nat \ {0}, life : Nat \ {0}]
NoJob == [version |-> 0, life |-> 0]

\* A transition with a FromStatus checks the status too.
Call == [step : {"create"}, to : Statuses]
          \cup [step : {"transition"}, checkStatus : BOOLEAN, expected : Job, to : Statuses]
          \cup [step : {"idle", "granted", "conflict"}]
Idle == [step |-> "idle"]

TypeOK ==
    /\ meta \in Job \cup {NoJob}
    /\ past \subseteq Job
    /\ lives \in Nat
    /\ call \in [Workers -> Call]

Init ==
    /\ meta = NoJob
    /\ lives = 0
    /\ past = {}
    /\ call = [w \in Workers |-> Idle]

-----------------------------------------------------------------------------

StartCreate(w) ==
    /\ call[w].step = "idle"
    /\ \E s \in Statuses :
         call' = [call EXCEPT ![w] = [step |-> "create", to |-> s]]
    /\ UNCHANGED <<meta, lives, past>>

\* The worker expects the version of the job it decided on.
StartTransition(w) ==
    /\ call[w].step = "idle"
    /\ \E job \in past, s \in Statuses, check \in BOOLEAN :
         call' = [call EXCEPT ![w] =
                    [step |-> "transition", checkStatus |-> check,
                     expected |-> job, to |-> s]]
    /\ UNCHANGED <<meta, lives, past>>

Answer(w, answer) == call' = [call EXCEPT ![w] = [step |-> answer]]

\* The item becomes `job', the answer of the call.
Write(w, job) ==
    /\ meta' = job
    /\ past' = past \cup {job}
    /\ Answer(w, "granted")

\* Mutant: the version is not set.
NewJobUnversioned(w) == [status |-> call[w].to, version |-> 0, life |-> lives + 1]

NewJob(w) == [status |-> call[w].to, version |-> 1, life |-> lives + 1]

\* A create with attribute_not_exists.
ApplyCreate(w) ==
    /\ call[w].step = "create"
    /\ \/ /\ meta = NoJob
          /\ lives < MaxLives
          /\ lives' = lives + 1
          /\ Write(w, NewJob(w))
       \/ /\ meta # NoJob
          /\ Answer(w, "conflict")
          /\ UNCHANGED <<meta, lives, past>>

\* Mutant: only the status is checked.
MatchesStatus(c) ==
    /\ meta # NoJob
    /\ meta.status = c.expected.status

\* IfExists, Version = ExpectedVersion, and the status if the call has one.
Matches(c) ==
    /\ meta # NoJob
    /\ meta.version = c.expected.version
    /\ c.checkStatus => meta.status = c.expected.status

\* Mutant: the version is left as it is.
TransitionedSameVersion(c) == [meta EXCEPT !.status = c.to]

Transitioned(c) == [status |-> c.to, version |-> meta.version + 1, life |-> meta.life]

ApplyTransition(w) ==
    LET c == call[w]
    IN  /\ c.step = "transition"
        /\ \/ /\ Matches(c)
              /\ meta.version < MaxVersion
              /\ Write(w, Transitioned(c))
           \/ /\ ~Matches(c)
              /\ Answer(w, "conflict")
              /\ UNCHANGED <<meta, past>>
        /\ UNCHANGED lives

\* The call returns the item as it was written, or a conflict.
Return(w) ==
    /\ call[w].step \in {"granted", "conflict"}
    /\ Answer(w, "idle")
    /\ UNCHANGED <<meta, lives, past>>

\* An internal error, whether or not the write was applied.
GiveUp(w) ==
    /\ call[w].step # "idle"
    /\ Answer(w, "idle")
    /\ UNCHANGED <<meta, lives, past>>

\* External: DynamoDB deletes a job whose TTL has passed.
ReapJob ==
    /\ meta # NoJob
    /\ meta' = NoJob
    /\ UNCHANGED <<lives, past, call>>

Next ==
    \/ \E w \in Workers :
         \/ StartCreate(w) \/ StartTransition(w)
         \/ ApplyCreate(w) \/ ApplyTransition(w)
         \/ Return(w) \/ GiveUp(w)
    \/ ReapJob

Spec == Init /\ [][Next]_vars

-----------------------------------------------------------------------------
(* Properties.                                                              *)

\* A transition replaces the very job its caller decided on, status included,
\* though it checks the version alone, and so of the workers that decided on
\* one state of the job one wins.  A job that was deleted and created again
\* since counts its versions from 1 again and is out of this protection.
NoLostUpdate ==
    [][ \A w \in Workers :
          call[w].step = "transition" /\ call'[w].step = "granted"
            => (meta.life = call[w].expected.life => meta = call[w].expected) ]_vars

\* From one creation of the job to its deletion, a version names one state of it.
VersionNamesState ==
    \A j, k \in past : j.life = k.life /\ j.version = k.version => j = k
=============================================================================

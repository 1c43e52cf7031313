-------------------------- MODULE MicroVMLifecycle --------------------------
(***************************************************************************)
(* LifecycleAdapter (runtime/microvm/lifecycle.go): a product takes a        *)
(* MicroVM session through its hooks.  It keeps the session's state, gives   *)
(* it to Handle with each hook, and keeps the state that Handle returns.     *)
(* The contract, which tables the hooks and the transitions, is one of the   *)
(* two of the source (M15, and M16 in operation_contract.go), or one that a  *)
(* product made of them: a transition left out, or one put in front of the   *)
(* others.  A process may die after a handler ran, before the product keeps  *)
(* the result, or inside the handler, which is told the hook's active state. *)
(***************************************************************************)
CONSTANT None

VARIABLES contract,  \* the adapter's contract
          handlers,  \* the hooks with a handler
          state,     \* the session's state, as the product keeps it
          passed,    \* history: the hooks whose handler ran without an error
          result     \* LifecycleResult of the last Handle: PreviousState and outcome

vars == <<contract, handlers, state, passed, result>>

Hook(before, active, success) == [before |-> before, active |-> active, success |-> success]

\* The hooks: the states they start from, and their active and success states.
M15Hooks ==
    [prepareImage |-> Hook({"requested"}, "imagePreparing", "imagePrepared"),
     start        |-> Hook({"imagePrepared"}, "starting", "started"),
     readiness    |-> Hook({"started"}, "readinessProbing", "ready"),
     stop         |-> Hook({"ready"}, "stopping", "stopped"),
     teardown     |-> Hook({"stopped"}, "tearingDown", "terminated")]
M16Hooks ==
    [validate  |-> Hook({"requested"}, "validating", "validated"),
     run       |-> Hook({"validated"}, "running", "running"),
     ready     |-> Hook({"running"}, "ready", "ready"),
     suspend   |-> Hook({"ready"}, "suspending", "suspended"),
     resume    |-> Hook({"suspended"}, "resuming", "ready"),
     terminate |-> Hook({"ready", "suspended"}, "terminating", "terminated")]

FailingStates(hooks) ==
    IF hooks = M15Hooks
      THEN {hooks[h].active : h \in DOMAIN hooks}
      ELSE {"validating", "running", "ready", "suspending", "suspended", "resuming", "terminating"}
IsTerminalState(s) == s \in {"terminated", "failed"}

Transition(from, hook, to) == [from |-> from, hook |-> hook, to |-> to]
Transitions(hooks) ==
    (UNION {{Transition(s, h, hooks[h].active) : s \in hooks[h].before} : h \in DOMAIN hooks})
    \cup {Transition(hooks[h].active, h, hooks[h].success) : h \in DOMAIN hooks}
    \cup {Transition(s, "failure", "failed") : s \in FailingStates(hooks)}

\* The contracts that a product may give: front is looked at first.
Contracts ==
    UNION {LET all == Transitions(hooks) IN
           [hooks : {hooks}, front : {None} \cup {[t EXCEPT !.to = "failed"] : t \in all},
            transitions : {all} \cup {all \ {t} : t \in all}] : hooks \in {M15Hooks, M16Hooks}}
Has(c, t) == t \in c.transitions \/ t = c.front

\* Mutant: the success transitions are not required.
ValidateActiveOnly(c) ==
    /\ \A h \in DOMAIN c.hooks :
         \A s \in c.hooks[h].before : Has(c, Transition(s, h, c.hooks[h].active))
    /\ \A s \in FailingStates(c.hooks) : Has(c, Transition(s, "failure", "failed"))

\* ValidateLifecycleContract and ValidateRealLifecycleContract.
ValidateLifecycleContract(c) ==
    /\ \A h \in DOMAIN c.hooks :
         /\ \A s \in c.hooks[h].before : Has(c, Transition(s, h, c.hooks[h].active))
         /\ Has(c, Transition(c.hooks[h].active, h, c.hooks[h].success))
    /\ \A s \in FailingStates(c.hooks) : Has(c, Transition(s, "failure", "failed"))

Hooks(c) == DOMAIN c.hooks \cup {"failure"}
HookNames == DOMAIN M15Hooks \cup DOMAIN M16Hooks \cup {"failure"}
States ==
    {"failed"}
    \cup UNION {UNION {{h.active, h.success} \cup h.before : h \in {hooks[n] : n \in DOMAIN hooks}}
                   : hooks \in {M15Hooks, M16Hooks}}

Outcomes == {"none", "passed", "hookFailed", "unsupported", "inconsistent", "noHandler"}

TypeOK ==
    /\ contract \in Contracts
    /\ handlers \subseteq HookNames
    /\ state \in States
    /\ passed \subseteq HookNames
    /\ result \in [from : States, outcome : Outcomes]

\* NewLifecycleAdapter refuses a contract that is not valid.
Init ==
    /\ contract \in {c \in Contracts : ValidateLifecycleContract(c)}
    /\ handlers \in {Hooks(contract), Hooks(contract) \ {"terminate", "teardown"}}
    /\ state = "requested"
    /\ passed = {}
    /\ result = [from |-> "requested", outcome |-> "none"]

-----------------------------------------------------------------------------
\* nextState: the first transition of the list that fits.
NextStates(s, hook) ==
    LET all == {t \in contract.transitions : t.from = s /\ t.hook = hook} IN
    IF contract.front # None /\ contract.front.from = s /\ contract.front.hook = hook
      THEN {contract.front.to} ELSE {t.to : t \in all}

Returns(s, outcome) == state' = s /\ result' = [from |-> state, outcome |-> outcome]

\* Mutant: the state of the last hook is not looked at.
HandleAnyState(hook, ok) ==
    /\ hook \in Hooks(contract) \ {"failure"} /\ hook \in handlers
    /\ IF ok THEN Returns(contract.hooks[hook].success, "passed") ELSE Returns("failed", "hookFailed")
    /\ passed' = IF ok THEN passed \cup {hook} ELSE passed
    /\ UNCHANGED <<contract, handlers>>

\* Handle: what is returned is failed after each error.
Handle(hook, ok) ==
    LET nexts == NextStates(state, hook)
        active == CHOOSE s \in nexts : TRUE
        success == IF hook = "failure" THEN "failed" ELSE contract.hooks[hook].success
        rejected ==
            IF hook \notin Hooks(contract) \/ nexts = {} THEN "unsupported"
            ELSE IF hook # "failure" /\ active # contract.hooks[hook].active THEN "inconsistent"
            ELSE IF hook \notin handlers THEN "noHandler"
            ELSE "none"
        supported == hook = "failure" \/ Has(contract, Transition(active, hook, success))
    IN  /\ IF rejected # "none" THEN Returns("failed", rejected) /\ UNCHANGED passed
           ELSE IF ~ok THEN Returns("failed", "hookFailed") /\ UNCHANGED passed
           ELSE /\ passed' = passed \cup {hook}
                /\ IF supported THEN Returns(success, "passed")
                   ELSE Returns("failed", "inconsistent")
        /\ UNCHANGED <<contract, handlers>>

\* The process dies after the handler ran, with its state kept or not.
Interrupted(hook) ==
    /\ hook \in handlers /\ hook \in DOMAIN contract.hooks
    /\ NextStates(state, hook) = {contract.hooks[hook].active}
    /\ \/ state' = state
       \/ state' = contract.hooks[hook].active
    /\ passed' = passed \cup {hook}
    /\ UNCHANGED <<contract, handlers, result>>

Next == \E hook \in HookNames : Interrupted(hook) \/ \E ok \in BOOLEAN : Handle(hook, ok)

Spec == Init /\ [][Next]_vars

-----------------------------------------------------------------------------
(* Properties.                                                              *)

\* A hook's handler has run only after those of the hooks that lead to it, with
\* processes that die and hooks that are delivered again.
HandlersInOrder ==
    LET needs == [prepareImage |-> {}, start |-> {"prepareImage"}, readiness |-> {"start"},
                  stop |-> {"readiness"}, teardown |-> {"stop"},
                  validate |-> {}, run |-> {"validate"}, ready |-> {"run"},
                  suspend |-> {"ready"}, resume |-> {"suspend"}, terminate |-> {"ready"},
                  failure |-> {}]
    IN  \A hook \in passed : needs[hook] \subseteq passed

\* With a contract that validates, in which no transition hides another, Handle
\* finds the transitions that it looks for; but a hook whose process died is not
\* taken up again from its active state, although the contract has a transition.
ValidContractIsEnough ==
    contract.front = None /\ result.outcome = "inconsistent" =>
        \E h \in DOMAIN contract.hooks :
            result.from = contract.hooks[h].active /\ contract.hooks[h].success # result.from

\* Hooks run in order, and a valid contract lets them run.
LifecycleSound == HandlersInOrder /\ ValidContractIsEnough
=============================================================================

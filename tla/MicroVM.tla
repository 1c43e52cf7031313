------------------------------ MODULE MicroVM ------------------------------
(***************************************************************************)
(* The MicroVM controller (runtime/microvm/controller.go), its registry of  *)
(* sessions (registry.go) and the provider behind it (aws_provider.go).     *)
(*                                                                         *)
(* A command on a session reads the session's record, asks the provider to  *)
(* act on the MicroVM that the record names, asks it for the MicroVM's      *)
(* state, and puts the record back with what it saw and a generation one    *)
(* higher.  The put is unconditional: commands that overlap, from requests  *)
(* that different Lambda processes serve, overwrite each other's records.   *)
(* Each of those calls may fail, and the command with it; what it did       *)
(* before stays.  A run reads nothing: its record replaces any other.  The  *)
(* reads of DynamoDB are not consistent: a record is read as it is or as it *)
(* was (the memory registry's as it is).                                    *)
(*                                                                         *)
(* Without a provider (RegistryClient) a command only records the state it  *)
(* asks for.  The MicroVMs are those of one tenant and namespace.           *)
(***************************************************************************)
EXTENDS Naturals, FiniteSets

CONSTANTS None,
          Callers, Sessions,
          Poller,          \* a caller that gets the sessions' states again and again, or
                           \* None
          VMs,             \* a MicroVM is named after the RequestID that ran it
          MaxCommands,     \* bound: the commands other than the Poller's gets, records
                           \* not found and records deleted
          MaxGeneration    \* bound: generations beyond it are not told apart

ASSUME MicroVMAssumption == None \notin VMs /\ Poller \in Callers \cup {None}

VARIABLES provider,   \* whether the controller has a provider
          vm,         \* the provider's state of each MicroVM
          registry,   \* the session records
          versions,   \* history: what each session's record has been
          call,       \* the callers' commands
          commands,   \* bound: the commands so far
          told,       \* the records as the product was last answered
          disturbed   \* history: sessions whose last run was not followed only by
                      \* commands one after the other that read the last record

vars == <<provider, vm, registry, versions, call, commands, told, disturbed>>

\* DefaultProviderStateMappings: the state that a provider's state stands for.
MapProviderState ==
    [pending |-> "validating", running |-> "running", suspending |-> "suspending",
     suspended |-> "suspended", resuming |-> "resuming", terminating |-> "terminating",
     terminated |-> "terminated", failed |-> "failed"]
ProviderStates == DOMAIN MapProviderState
IsTerminalState(state) == state \in {"terminated", "failed"}

States == {MapProviderState[p] : p \in ProviderStates} \cup
          {"ready", "requested", "starting", "started", "stopping", "stopped"}
Changes == {"suspend", "resume", "terminate"}
Orders == {"start", "stop"}
Commands == {"run", "create", "get", "list", "token"} \cup Changes \cup Orders

SessionRecord == [vm : VMs \cup {None}, state : States, desired : States,
                  generation : 0 .. MaxGeneration, tokens : 0 .. MaxCommands]
NoRecord == [vm |-> None, state |-> "requested", desired |-> "requested",
             generation |-> 0, tokens |-> 0]

Call == [command : Commands,
         step : {"idle", "hook", "operate", "observe", "issue", "put"},
         targets : SUBSET Sessions,              \* the sessions still to be put
         copies : [Sessions -> SessionRecord],         \* the records that were read
         seen : [Sessions -> States]]            \* the states that were seen
Idle == [command |-> "get", step |-> "idle", targets |-> {},
         copies |-> [s \in Sessions |-> NoRecord], seen |-> [s \in Sessions |-> "requested"]]

TypeOK ==
    /\ provider \in BOOLEAN
    /\ vm \in [VMs -> ProviderStates \cup {"none"}]
    /\ registry \in [Sessions -> SessionRecord]
    /\ versions \in [Sessions -> SUBSET SessionRecord]
    /\ \A s \in Sessions : registry[s] \in versions[s]
    /\ call \in [Callers -> Call]
    /\ commands \in 0 .. MaxCommands
    /\ told \in [Sessions -> SessionRecord]
    /\ disturbed \subseteq Sessions

Init ==
    /\ provider \in BOOLEAN
    /\ vm = [v \in VMs |-> "none"]
    /\ registry = [s \in Sessions |-> NoRecord]
    /\ versions = [s \in Sessions |-> {NoRecord}]
    /\ call = [c \in Callers |-> Idle]
    /\ commands = 0
    /\ told = [s \in Sessions |-> NoRecord]
    /\ disturbed = {}

-----------------------------------------------------------------------------
Exists(record) == record.generation > 0
Busy(c) == call[c].step # "idle"
\* The sessions that a caller other than c works on.
Contended(c) == UNION {call[d].targets : d \in Callers \ {c}}
NextGeneration(record) ==
    IF record.generation < MaxGeneration THEN record.generation + 1 ELSE record.generation

\* Mutant: the provider's state is recorded as it is.
SeenUnmapped(v) == vm[v]

Seen(v) == MapProviderState[vm[v]]

\* The product uses a provider's commands or the registry client's.
Offered(command) ==
    /\ command \in {"create"} \cup Orders => ~provider
    /\ command \in {"run", "list", "token"} \cup Changes => provider
Counts == commands < MaxCommands /\ commands' = commands + 1

Begin(c, command) ==
    /\ ~Busy(c) /\ Offered(command)
    /\ IF command = "get" /\ c = Poller THEN UNCHANGED commands ELSE Counts
\* A command that begins disturbs the sessions that others work on, and those whose
\* record is not the one it has read.
Overlaps(c, targets, old) ==
    disturbed' = disturbed \cup (targets \cap Contended(c)) \cup old

\* handleRealRun: the provider runs a MicroVM, or answers with the one it ran
\* for an earlier request with this RequestID (ClientToken).
Run(c, s, v) ==
    /\ Begin(c, "run")
    /\ vm' = [vm EXCEPT ![v] = IF @ = "none" THEN "pending" ELSE @]
    /\ call' = [call EXCEPT ![c] =
                  [Idle EXCEPT !.command = "run", !.step = "put", !.targets = {s},
                               !.copies[s] = [NoRecord EXCEPT !.vm = v],
                               !.seen[s] = MapProviderState[vm'[v]]]]
    /\ Overlaps(c, {s}, {})
    /\ UNCHANGED <<provider, registry, versions, told>>

\* RegistryClient.Create puts a first record, without a look at another.
Create(c, s) ==
    /\ Begin(c, "create")
    /\ call' = [call EXCEPT ![c] = [Idle EXCEPT !.command = "create", !.step = "put",
                                                !.targets = {s}]]
    /\ Overlaps(c, {s}, {})
    /\ UNCHANGED <<provider, vm, registry, versions, told>>

\* The record of a session becomes another.
Store(s, record) ==
    /\ registry' = [registry EXCEPT ![s] = record]
    /\ versions' = [versions EXCEPT ![s] = @ \cup {record}]

\* What follows the read of a record.
StepAfterRead(command) ==
    CASE command \in Changes -> "operate"
      [] command = "token" -> "issue"
      [] command \in Orders -> "put"
      [] OTHER -> "observe"
\* What a command keeps of the record; the other fields it writes anew.
Kept(command, record) ==
    IF command = "token" THEN record
    ELSE [record EXCEPT !.state = NoRecord.state, !.desired = NoRecord.desired]
OrderedState(command) == IF command = "start" THEN "starting" ELSE "stopping"
HasRead(c, command, s, record) ==
    call' = [call EXCEPT ![c] =
               [Idle EXCEPT !.command = command, !.step = StepAfterRead(command),
                            !.targets = {s}, !.copies[s] = Kept(command, record),
                            !.seen[s] = IF command \in Orders THEN OrderedState(command) ELSE @]]

\* registry.Get returns the record as it is or as it was; a get without a provider
\* (Status, Session) ends there.
Get(c, command, s) ==
    /\ command \in {"get", "token"} \cup Changes \cup Orders
    /\ command = "get" => provider
    /\ Begin(c, command)
    /\ \E record \in versions[s] :
         /\ Exists(record)
         /\ HasRead(c, command, s, record)
         /\ Overlaps(c, {s}, IF record = registry[s] THEN {} ELSE {s})
    /\ UNCHANGED <<provider, vm, registry, versions, told>>

\* ReconstructingSessionRegistry.Get finds no record, or an old one, and asks
\* the product, which knows the sessions that it was answered.
GetStale(c, command, s) ==
    /\ command \in {"get", "token"} \cup Changes
    /\ ~Busy(c) /\ provider /\ Counts
    /\ Exists(told[s])
    /\ call' = [call EXCEPT ![c] = [Idle EXCEPT !.command = command, !.step = "hook",
                                                !.targets = {s}]]
    /\ Overlaps(c, {s}, {})
    /\ UNCHANGED <<provider, vm, registry, versions, told>>

\* The product gives the record as it knows it, which is put.
Reconstruct(c) ==
    \E s \in call[c].targets :
        /\ call[c].step = "hook"
        /\ Store(s, told[s])
        /\ HasRead(c, call[c].command, s, told[s])
        /\ UNCHANGED <<provider, vm, commands, told, disturbed>>

\* handleRealList reads all the records, each as it is or as it was.
ReadAll(c) ==
    /\ Begin(c, "list")
    /\ \E read \in [Sessions -> UNION {versions[s] : s \in Sessions}] :
         LET all == {s \in Sessions : Exists(read[s])} IN
         /\ \A s \in Sessions : read[s] \in versions[s]
         /\ call' = [call EXCEPT ![c] =
                       [Idle EXCEPT !.command = "list", !.step = "observe",
                                    !.targets = all,
                                    !.copies = [s \in Sessions |-> Kept("list", read[s])]]]
         /\ Overlaps(c, all, {s \in all : read[s] # registry[s]})
    /\ UNCHANGED <<provider, vm, registry, versions, told>>

-----------------------------------------------------------------------------
TheVM(c, s) == call[c].copies[s].vm

\* What the provider makes of an operation; it refuses the others.
Operated(state, command) ==
    CASE command = "suspend" /\ state = "running" -> "suspending"
      [] command = "resume" /\ state = "suspended" -> "resuming"
      [] command = "terminate" /\ state \in {"pending", "running", "suspended"} -> "terminating"
      [] command = "terminate" /\ state \in {"terminating", "terminated"} -> state
      [] OTHER -> "refused"

\* runStateChangingOperation, the operation.
Operate(c) ==
    \E s \in call[c].targets :
        /\ call[c].step = "operate"
        /\ LET state == Operated(vm[TheVM(c, s)], call[c].command) IN
             /\ state # "refused"
             /\ vm' = [vm EXCEPT ![TheVM(c, s)] = state]
        /\ call' = [call EXCEPT ![c].step = "observe"]
        /\ UNCHANGED <<provider, registry, versions, commands, told, disturbed>>

\* GetMicrovm, or ListMicrovms: a page of the MicroVMs.  Of two sessions with
\* one MicroVM, listOutputFromSDK finds one.
Observe(c, found) ==
    /\ call[c].step = "observe"
    /\ found \subseteq call[c].targets
    /\ call[c].command # "list" => found = call[c].targets
    /\ \A s, t \in found : TheVM(c, s) = TheVM(c, t) => s = t
    /\ call' = [call EXCEPT ![c] =
                  IF found = {} THEN Idle
                  ELSE [@ EXCEPT !.step = "put", !.targets = found,
                                 !.seen = [s \in Sessions |-> IF s \in found THEN Seen(TheVM(c, s))
                                                              ELSE call[c].seen[s]]]]
    /\ UNCHANGED <<provider, vm, registry, versions, commands, told, disturbed>>

\* The provider issues a token; the answer tells nothing of the MicroVM's state.
IssueToken(c) ==
    \E s \in call[c].targets :
        /\ call[c].step = "issue"
        /\ call' = [call EXCEPT ![c].step = "put",
                                ![c].seen[s] = call[c].copies[s].state]
        /\ UNCHANGED <<provider, vm, registry, versions, commands, told, disturbed>>

-----------------------------------------------------------------------------
DesiredStateForCommand(command, state) ==
    CASE command = "run" -> "running"
      [] command = "suspend" -> "suspended"
      [] command = "resume" -> "ready"
      [] command = "terminate" -> "terminated"
      [] command = "start" -> "started"
      [] command = "stop" -> "stopped"
      [] OTHER -> state

\* Mutant: the record keeps the state that it had.
RecordStateKept(command, copy, state) ==
    [vm |-> copy.vm,
     state |-> IF copy.generation = 0 THEN state ELSE copy.state,
     desired |-> DesiredStateForCommand(command, state),
     generation |-> NextGeneration(copy), tokens |-> copy.tokens]

\* Mutant: the record is given the state that the command is for.
RecordDesired(command, copy, state) ==
    [vm |-> copy.vm,
     state |-> DesiredStateForCommand(command, state),
     desired |-> DesiredStateForCommand(command, state),
     generation |-> NextGeneration(copy), tokens |-> copy.tokens]

\* Mutant: the record is made anew.
RecordAnew(command, copy, state) ==
    [vm |-> copy.vm, state |-> state, desired |-> DesiredStateForCommand(command, state),
     generation |-> 1, tokens |-> IF command = "token" THEN 1 ELSE 0]

\* sessionRecordFromProviderSession, handleRealToken and transition.
Record(command, copy, state) ==
    [vm |-> copy.vm,
     state |-> state,
     desired |-> IF command = "token" THEN copy.desired
                 ELSE DesiredStateForCommand(command, state),
     generation |-> NextGeneration(copy),
     tokens |-> IF command = "token" /\ copy.tokens < MaxCommands THEN copy.tokens + 1
                ELSE copy.tokens]

\* A command that reads nothing begins the session anew.
Begins(command) == command \in {"run", "create"}

\* The put of the record and the answer, which may get lost.
Put(c, s, answered) ==
    /\ call[c].step = "put" /\ s \in call[c].targets
    /\ LET record == Record(call[c].command, call[c].copies[s], call[c].seen[s]) IN
         /\ Store(s, record)
         /\ told' = IF answered THEN [told EXCEPT ![s] = record] ELSE told
    /\ call' = [call EXCEPT ![c] =
                  IF @.targets = {s} THEN Idle
                  ELSE [@ EXCEPT !.targets = call[c].targets \ {s}]]
    /\ disturbed' = IF Begins(call[c].command) /\ s \notin Contended(c) /\ answered
                      THEN disturbed \ {s}
                    ELSE IF Begins(call[c].command) THEN disturbed \cup {s}
                    ELSE disturbed
    /\ UNCHANGED <<provider, vm, commands>>

\* A call fails, is refused or is not answered, or the process dies.
Fail(c) ==
    /\ Busy(c)
    /\ call' = [call EXCEPT ![c] = Idle]
    /\ UNCHANGED <<provider, vm, registry, versions, commands, told, disturbed>>

-----------------------------------------------------------------------------
(* The provider and the table on their own.                                 *)

Settling == {"pending", "suspending", "resuming", "terminating"}
Settle(v) ==
    /\ vm[v] \in Settling
    /\ \/ vm[v] = "pending" /\ vm' = [vm EXCEPT ![v] = "failed"]
       \/ vm' = [vm EXCEPT ![v] =
                   CASE @ \in {"pending", "resuming"} -> "running"
                     [] @ = "suspending" -> "suspended"
                     [] OTHER -> "terminated"]
    /\ UNCHANGED <<provider, registry, versions, call, commands, told, disturbed>>

\* The run's IdlePolicy and MaximumDurationSeconds.
Lapse(v) ==
    /\ vm[v] \in {"running", "suspended"}
    /\ \/ vm[v] = "running" /\ vm' = [vm EXCEPT ![v] = "suspending"]
       \/ vm' = [vm EXCEPT ![v] = "terminated"]
    /\ UNCHANGED <<provider, registry, versions, call, commands, told, disturbed>>

\* DynamoDB deletes a record after its ExpiresAt, or the product does.  A put
\* moves ExpiresAt only once it has passed, so the session may be in use.
Delete(s) ==
    /\ Exists(registry[s]) /\ Counts
    /\ Store(s, NoRecord)
    /\ disturbed' = disturbed \cup {s}
    /\ UNCHANGED <<provider, vm, call, told>>

Step(c) ==
    \/ Reconstruct(c)
    \/ Operate(c)
    \/ \E found \in SUBSET Sessions : Observe(c, found)
    \/ IssueToken(c)
    \/ \E s \in Sessions, answered \in BOOLEAN : Put(c, s, answered)

Next ==
    \/ \E c \in Callers :
         \/ \E s \in Sessions, v \in VMs : Run(c, s, v)
         \/ \E s \in Sessions : Create(c, s)
         \/ \E command \in Commands, s \in Sessions : Get(c, command, s) \/ GetStale(c, command, s)
         \/ ReadAll(c)
         \/ Step(c)
         \/ Fail(c)
    \/ \E v \in VMs : Settle(v) \/ Lapse(v)
    \/ \E s \in Sessions : Delete(s)

Spec == Init /\ [][Next]_vars

-----------------------------------------------------------------------------
(* Properties.                                                              *)

Ended(v) == vm[v] \in {"terminating", "terminated", "failed"}

\* Whatever commands overlap, fail halfway or write old observations back, a
\* record whose state is terminal, or that is to be terminated, is that of a
\* MicroVM that has ended: the controller never gives up a MicroVM that runs.
EndIsTrue ==
    provider =>
        \A s \in Sessions :
            /\ IsTerminalState(registry[s].state) => vm[registry[s].vm] \in {"terminated", "failed"}
            /\ registry[s].desired = "terminated" => Ended(registry[s].vm)

\* Commands on a session that do not overlap, each of which reads the record that
\* there is, lose nothing that a client was answered, whichever of their calls fail:
\* the record names the MicroVM of the last run, holds the tokens' metadata and has
\* at least the generation (RegistryVersion) of the answer.  (A command that reads
\* the record as it was puts back what it read: the registry does not refuse it.)
SerialCommandsKept ==
    \A s \in Sessions \ disturbed :
        Exists(told[s]) =>
            /\ registry[s].vm = told[s].vm
            /\ registry[s].tokens >= told[s].tokens
            /\ registry[s].generation >= told[s].generation

\* A session's record agrees in the end with its MicroVM, whatever was lost
\* before, once clients do no more than get its state.  (MCProgress says what is
\* fair.)
RecordsConverge ==
    \A s \in Sessions :
        <>[](provider /\ Exists(registry[s]) => registry[s].state = Seen(registry[s].vm))
=============================================================================

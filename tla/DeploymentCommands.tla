-------------------------- MODULE DeploymentCommands --------------------------
(***************************************************************************)
(* One deployment of a strategy on an exchange: its status, its connector, *)
(* the commands that users queue (deployment_commands) and the execution   *)
(* worker that runs them one at a time.  Users go on queueing, revoking    *)
(* and resolving while the worker waits for the exchange, and the worker   *)
(* may die at any step.                                                    *)
(*                                                                         *)
(* Abstractions.                                                           *)
(*  - A command is its type and its idempotency key: a request that finds  *)
(*    the key returns the command that is there, so it changes nothing.    *)
(*  - The limits of the safety policy, the memory policy and the age of    *)
(*    the projection are choices of Authorize; the policy is approved.     *)
(*  - The deployment is a demo: the extra gates of a live canary, and the  *)
(*    flags that a recovery drill sets for them, are left out.             *)
(*  - Events, audit rows, fills, memory and alerts change nothing here.    *)
(*  - Incidents are kept as "is a critical one open?", of all and not of    *)
(*    the 200 that the policy reads.  The queue is in the order of the     *)
(*    INSERTs; created_at is taken just before.                            *)
(***************************************************************************)
EXTENDS Naturals, Sequences, FiniteSets

CONSTANTS
    Keys,           \* idempotency keys
    Commands,       \* what may be asked for: a type of command and a key
    ReduceOnly,     \* the keys of orders that may only reduce a position
    NoCommand,      \* the local of a worker that runs no command
    MaxCommands,    \* bound: commands that are asked for
    MaxChanges,     \* bound: revocations and replacements of the connector
    MaxCrashes      \* bound: crashes of the worker

ASSUME BoundsAssumption == {MaxCommands, MaxChanges, MaxCrashes} \subseteq Nat

Types == {"start", "pause", "resume", "freeze", "emergency_freeze", "recovery_drill",
          "reconcile", "submit_order", "stop"}

ASSUME CommandsAssumption == Commands \subseteq Types \X Keys
ASSUME NoCommandAssumption == NoCommand \notin Commands

Freezes == {"emergency_freeze", "recovery_drill"}
Orders == {c \in Commands : c[1] = "submit_order"}
ReduceOrders == {c \in Orders : c[2] \in ReduceOnly}

Statuses == {"draft", "queued", "starting", "active", "paused", "frozen", "stopped"}

VARIABLES
    status,         \* of the row in strategy_deployments
    reconciled,     \* last_reconciled_at is set
    connector,      \* status of the row in exchange_connectors
    revoked,        \* the revocation: not asked for, between its statements, done
    command,        \* status of the rows in deployment_commands
    queue,          \* the queued commands in the order of created_at
    request,        \* enqueueDeploymentCommand: the request for each command
    worker,         \* locals of processNextExecutionWork
    critical,       \* is a critical incident open?
    open,           \* the orders that are open at the exchange
    placed,         \* history: how often an order reached the exchange
    held,           \* history: exchange frozen, and neither started nor resumed since
    changes,        \* revocations and replacements so far
    crashes         \* number of crashes so far

deployment == <<status, reconciled>>
connection == <<connector, revoked, changes>>
intake == <<command, queue, request>>
exchange == <<open, placed, held>>
vars == <<status, reconciled, connector, revoked, command, queue, request, worker,
          critical, open, placed, held, changes, crashes>>

Pcs == {"idle", "doctor", "start", "snapshot", "activate", "set", "authorize", "block",
        "submit", "emergency", "frozen", "report", "stop", "recorded",
        "complete", "fail", "close", "incident"}

\* copy: the status of the deployment that a snapshot writes back.
Locals == [pc : Pcs, cmd : Commands \cup {NoCommand}, copy : Statuses]

Idle == [pc |-> "idle", cmd |-> NoCommand, copy |-> "draft"]

\* The deployment was created with a healthy connector and an approved policy.
Init ==
    /\ status = "draft"
    /\ reconciled = FALSE
    /\ connector = "healthy"
    /\ revoked = "no"
    /\ command = [c \in Commands |-> "none"]
    /\ queue = <<>>
    /\ request = [c \in Commands |-> "none"]
    /\ worker = Idle
    /\ critical = FALSE
    /\ open = {}
    /\ placed = [c \in Orders |-> 0]
    /\ held = FALSE
    /\ changes = 0
    /\ crashes = 0

-----------------------------------------------------------------------------
(***************************************************************************)
(* Requests.                                                               *)
(***************************************************************************)

Allowed ==
    [draft    |-> {"start", "stop", "recovery_drill"},
     queued   |-> {"freeze", "emergency_freeze", "stop"},
     starting |-> {"freeze", "emergency_freeze", "stop"},
     active   |-> {"pause", "freeze", "emergency_freeze", "recovery_drill", "reconcile",
                   "submit_order", "stop"},
     paused   |-> {"resume", "emergency_freeze", "recovery_drill", "reconcile", "stop"},
     frozen   |-> {"recovery_drill", "reconcile", "resume", "stop"},
     stopped  |-> {"recovery_drill"}]

\* The status is checked before the command is inserted.  A request that dies between
\* two statements is one that takes no further step.
RequestCommand(c) ==
    /\ Cardinality({d \in Commands : command[d] # "none" \/ request[d] # "none"}) < MaxCommands
    /\ command[c] = "none" /\ request[c] = "none"
    /\ c[1] \in Allowed[status]
    /\ request' = [request EXCEPT ![c] = "insert"]
    /\ UNCHANGED <<deployment, connection, command, queue, worker, critical, exchange, crashes>>

InsertCommand(c) ==
    /\ request[c] = "insert"
    /\ command' = [command EXCEPT ![c] = "queued"]
    /\ queue' = Append(queue, c)
    /\ request' = [request EXCEPT ![c] = IF c[1] = "start" THEN "mark" ELSE "none"]
    /\ UNCHANGED <<deployment, connection, worker, critical, exchange, crashes>>

\* A start is visible to the worker before its request marks the deployment.
MarkQueued(c) ==
    /\ request[c] = "mark"
    /\ status' = "queued"
    /\ request' = [request EXCEPT ![c] = "none"]
    /\ UNCHANGED <<reconciled, connection, command, queue, worker, critical, exchange, crashes>>

RevokeConnector ==
    /\ revoked = "no"
    /\ changes < MaxChanges
    /\ changes' = changes + 1
    /\ connector' = "revoked"
    /\ revoked' = "half"
    /\ UNCHANGED <<deployment, intake, worker, critical, exchange, crashes>>

FreezeRevoked ==
    /\ revoked = "half"
    /\ revoked' = "done"
    /\ status' = IF status \in {"queued", "starting", "active", "paused"} THEN "frozen" ELSE status
    /\ UNCHANGED <<reconciled, connector, intake, worker, critical, exchange, changes, crashes>>

\* Nothing asks whether the connector is revoked.
ReplaceConnectorCredentials ==
    /\ changes < MaxChanges
    /\ changes' = changes + 1
    /\ connector' = "pending"
    /\ UNCHANGED <<deployment, revoked, intake, worker, critical, exchange, crashes>>

ResolveIncident ==
    /\ critical
    /\ critical' = FALSE
    /\ UNCHANGED <<deployment, connection, intake, worker, exchange, crashes>>

-----------------------------------------------------------------------------
(***************************************************************************)
(* The worker.                                                             *)
(***************************************************************************)

At(pc) == worker.pc = pc
\* No step after a snapshot looks at the copy.
Goto(pc) == worker' = [worker EXCEPT !.pc = pc, !.copy = "draft"]
Type == IF worker.cmd = NoCommand THEN "poll" ELSE worker.cmd[1]

\* A connector whose diagnosis comes before everything else.
DoctorDue == connector = "pending" /\ revoked = "no"

StartDoctor ==
    /\ At("idle") /\ DoctorDue
    /\ Goto("doctor")
    /\ UNCHANGED <<deployment, connection, intake, critical, exchange, crashes>>

\* Mutant: a connector that is not ready is degraded, which no row may be here.
UpdateConnectorDegraded ==
    /\ At("doctor")
    /\ connector' \in {"healthy", "degraded"}
    /\ worker' = Idle
    /\ UNCHANGED <<deployment, revoked, changes, intake, critical, exchange, crashes>>
\* The verdict is written whatever happened to the connector meanwhile.
UpdateConnectorDoctor ==
    /\ At("doctor")
    /\ connector' \in {"healthy", "blocked"}
    /\ worker' = Idle
    /\ UNCHANGED <<deployment, revoked, changes, intake, critical, exchange, crashes>>

FirstStep(type) ==
    CASE type = "start" -> "start"
      [] type \in {"pause", "freeze"} -> "set"
      [] type \in {"reconcile", "resume", "stop"} -> "snapshot"
      [] type = "submit_order" -> "authorize"
      [] type \in Freezes -> "emergency"

\* The row of the deployment that is read with the command is what a snapshot goes by.
Claimed(c) ==
    LET pc == FirstStep(c[1])
    IN  [pc |-> pc, cmd |-> c, copy |-> IF pc = "snapshot" THEN status ELSE "draft"]

\* Mutant: the lease of a command whose worker died is taken over.
ClaimCommandAgain ==
    /\ At("idle") /\ ~DoctorDue
    /\ \E c \in Commands :
          /\ command[c] = "processing" \/ (queue # <<>> /\ c = Head(queue))
          /\ command' = [command EXCEPT ![c] = "processing"]
          /\ queue' = IF command[c] = "queued" THEN Tail(queue) ELSE queue
          /\ worker' = Claimed(c)
    /\ UNCHANGED <<deployment, connection, request, critical, exchange, crashes>>
\* Only queued commands are claimed; the lease of a claimed one is never looked at.
ClaimCommand ==
    /\ At("idle") /\ ~DoctorDue /\ queue # <<>>
    /\ command' = [command EXCEPT ![Head(queue)] = "processing"]
    /\ queue' = Tail(queue)
    /\ worker' = Claimed(Head(queue))
    /\ UNCHANGED <<deployment, connection, request, critical, exchange, crashes>>

\* Without a command, an active deployment whose heartbeat is old is observed.
PollDeployment ==
    /\ At("idle") /\ ~DoctorDue /\ queue = <<>>
    /\ status \in {"active", "starting"}
    /\ worker' = [pc |-> "snapshot", cmd |-> NoCommand, copy |-> status]
    /\ UNCHANGED <<deployment, connection, intake, critical, exchange, crashes>>

SetStarting ==
    /\ At("start")
    /\ status' = "starting"
    /\ worker' = [worker EXCEPT !.pc = "snapshot", !.copy = "starting"]
    /\ UNCHANGED <<reconciled, connection, intake, critical, exchange, crashes>>

AfterSnapshot ==
    CASE Type \in {"start", "resume"} -> "activate"
      [] Type = "reconcile" -> "complete"
      [] Type = "stop" -> "stop"
      [] Type \in Freezes -> "report"
      [] Type = "poll" -> "recorded"

\* The exchange has answered: the status that was read before is written back with
\* the heartbeat.
WriteSnapshot ==
    /\ At("snapshot")
    /\ status' = worker.copy
    /\ reconciled' = (reconciled \/ Type \notin {"poll", "stop"})
    /\ Goto(AfterSnapshot)
    /\ UNCHANGED <<connection, intake, critical, exchange, crashes>>

\* The exchange does not answer.  A stop goes on without the snapshot.
SnapshotFails ==
    /\ At("snapshot") /\ Type # "poll"
    /\ Goto(IF Type = "stop" THEN "stop" ELSE "fail")
    /\ UNCHANGED <<deployment, connection, intake, critical, exchange, crashes>>

PollEnds ==
    /\ At("recorded")
    /\ worker' = Idle
    /\ UNCHANGED <<deployment, connection, intake, critical, exchange, crashes>>

\* Before or after the heartbeat is written.
PollFails ==
    /\ Type = "poll" /\ (At("snapshot") \/ At("recorded"))
    /\ status' = "frozen"
    /\ worker' = Idle
    /\ UNCHANGED <<reconciled, connection, intake, critical, exchange, crashes>>

Activate ==
    /\ At("activate")
    /\ status' = "active"
    /\ held' = FALSE
    /\ Goto("complete")
    /\ UNCHANGED <<reconciled, connection, intake, critical, open, placed, crashes>>

SetStatus ==
    /\ At("set")
    /\ status' = IF Type = "pause" THEN "paused" ELSE "frozen"
    /\ Goto("complete")
    /\ UNCHANGED <<reconciled, connection, intake, critical, exchange, crashes>>

SetStopped ==
    /\ At("stop")
    /\ status' = "stopped"
    /\ Goto("complete")
    /\ UNCHANGED <<reconciled, connection, intake, critical, exchange, crashes>>

\* Mutant: an open critical incident is not among the reasons.
AuthorizeIgnoringIncidents ==
    /\ At("authorize")
    /\ \E limits, unsafe \in BOOLEAN :
          LET freezing == unsafe \/ connector # "healthy"
              inactive == status # "active" /\ worker.cmd \notin ReduceOrders
              refused  == limits \/ freezing \/ ~reconciled \/ inactive
          IN  Goto(IF ~refused THEN "submit" ELSE IF freezing THEN "block" ELSE "complete")
    /\ UNCHANGED <<deployment, connection, intake, critical, exchange, crashes>>
\* Mutant: the status is not looked at again, it was checked when the order was queued.
AuthorizeInactive ==
    /\ At("authorize")
    /\ \E limits, unsafe \in BOOLEAN :
          LET freezing == unsafe \/ connector # "healthy" \/ critical
              refused  == limits \/ freezing \/ ~reconciled
          IN  Goto(IF ~refused THEN "submit" ELSE IF freezing THEN "block" ELSE "complete")
    /\ UNCHANGED <<deployment, connection, intake, critical, exchange, crashes>>
\* limits: of quantity, notional, symbols or open orders.  unsafe: a loss limit, a
\* block by the memory policy, a stale projection.
Authorize ==
    /\ At("authorize")
    /\ \E limits, unsafe \in BOOLEAN :
          LET freezing == unsafe \/ connector # "healthy" \/ critical
              inactive == status # "active" /\ worker.cmd \notin ReduceOrders
              refused  == limits \/ freezing \/ ~reconciled \/ inactive
          IN  Goto(IF ~refused THEN "submit" ELSE IF freezing THEN "block" ELSE "complete")
    /\ UNCHANGED <<deployment, connection, intake, critical, exchange, crashes>>

Block ==
    /\ At("block")
    /\ status' = "frozen"
    /\ Goto("report")
    /\ UNCHANGED <<reconciled, connection, intake, critical, exchange, crashes>>

\* The order reaches the exchange; the bridge may still fail to say so (StepFails).
SubmitOrder ==
    /\ At("submit")
    /\ open' = open \cup {worker.cmd}
    /\ placed' = [placed EXCEPT ![worker.cmd] = @ + 1]
    /\ Goto("complete")
    /\ UNCHANGED <<deployment, connection, intake, critical, held, crashes>>

CancelOrder ==
    /\ At("emergency")
    /\ \E c \in open : open' = open \ {c}
    /\ UNCHANGED <<deployment, connection, intake, worker, critical, placed, held, crashes>>

\* Mutant: the deployment is frozen at the exchange only.
EmergencyFreezeUnrecorded ==
    /\ At("emergency") /\ open = {}
    /\ Goto("report")
    /\ UNCHANGED <<deployment, connection, intake, critical, exchange, crashes>>
EmergencyFreeze ==
    /\ At("emergency") /\ open = {}
    /\ Goto("frozen")
    /\ UNCHANGED <<deployment, connection, intake, critical, exchange, crashes>>

WriteFrozen ==
    /\ At("frozen")
    /\ status' = "frozen"
    /\ held' = TRUE
    /\ worker' = [worker EXCEPT !.pc = "snapshot", !.copy = "frozen"]
    /\ UNCHANGED <<reconciled, connection, intake, critical, open, placed, crashes>>

OpenIncident ==
    /\ At("report")
    /\ critical' = (critical \/ Type # "recovery_drill")
    /\ Goto("complete")
    /\ UNCHANGED <<deployment, connection, intake, exchange, crashes>>

CompleteCommand ==
    /\ At("complete")
    /\ command' = [command EXCEPT ![worker.cmd] = "completed"]
    /\ worker' = Idle
    /\ UNCHANGED <<deployment, connection, queue, request, critical, exchange, crashes>>

\* A statement or the bridge throws.
StepFails ==
    /\ \E pc \in {"start", "activate", "set", "authorize", "block", "submit", "emergency",
                   "frozen", "report", "stop", "complete"} : At(pc)
    /\ Goto("fail")
    /\ UNCHANGED <<deployment, connection, intake, critical, exchange, crashes>>

\* Mutant: a failure leaves the status alone.
FreezeFailedQuietly ==
    /\ At("fail")
    /\ Goto("close")
    /\ UNCHANGED <<deployment, connection, intake, critical, exchange, crashes>>
FreezeFailed ==
    /\ At("fail")
    /\ status' = "frozen"
    /\ Goto("close")
    /\ UNCHANGED <<reconciled, connection, intake, critical, exchange, crashes>>

\* Mutant: a failed command is reported, but its row is not closed.
ForgetFailedCommand ==
    /\ At("close")
    /\ Goto("incident")
    /\ UNCHANGED <<deployment, connection, intake, critical, exchange, crashes>>
FailCommand ==
    /\ At("close")
    /\ command' = [command EXCEPT ![worker.cmd] = "failed"]
    /\ Goto("incident")
    /\ UNCHANGED <<deployment, connection, queue, request, critical, exchange, crashes>>

ReportFailure ==
    /\ At("incident")
    /\ critical' = TRUE
    /\ worker' = Idle
    /\ UNCHANGED <<deployment, connection, intake, exchange, crashes>>

\* The worker dies, or a statement of its error handling throws.
Crash ==
    /\ ~At("idle")
    /\ crashes < MaxCrashes
    /\ crashes' = crashes + 1
    /\ worker' = Idle
    /\ UNCHANGED <<deployment, connection, intake, critical, exchange>>

-----------------------------------------------------------------------------
WorkerStep ==
    \/ StartDoctor \/ UpdateConnectorDoctor
    \/ ClaimCommand \/ PollDeployment
    \/ SetStarting \/ WriteSnapshot \/ SnapshotFails \/ Activate
    \/ SetStatus \/ SetStopped
    \/ PollEnds \/ PollFails
    \/ Authorize \/ Block \/ SubmitOrder
    \/ CancelOrder \/ EmergencyFreeze \/ WriteFrozen \/ OpenIncident
    \/ CompleteCommand
    \/ StepFails \/ FreezeFailed \/ FailCommand \/ ReportFailure

Next ==
    \/ \E c \in Commands : RequestCommand(c) \/ InsertCommand(c) \/ MarkQueued(c)
    \/ RevokeConnector \/ FreezeRevoked \/ ReplaceConnectorCredentials \/ ResolveIncident
    \/ WorkerStep
    \/ Crash

Spec == Init /\ [][Next]_vars

\* The loop of the worker polls again after every piece of work, and processes restart.
FairSpec == Spec /\ WF_vars(WorkerStep)

-----------------------------------------------------------------------------
(***************************************************************************)
(* Properties.                                                             *)
(***************************************************************************)

\* The rows, the worker's locals and the exchange keep their types: every step leaves a
\* status that the handlers and the other steps know.
TypeOK ==
    /\ status \in Statuses
    /\ reconciled \in BOOLEAN
    /\ connector \in {"pending", "healthy", "blocked", "revoked"}
    /\ revoked \in {"no", "half", "done"}
    /\ command \in [Commands -> {"none", "queued", "processing", "completed", "failed"}]
    /\ queue \in Seq(Commands)
    /\ request \in [Commands -> {"none", "insert", "mark"}]
    /\ worker \in Locals
    /\ critical \in BOOLEAN
    /\ open \subseteq Orders
    /\ placed \in [Orders -> Nat]
    /\ held \in BOOLEAN
    /\ changes \in 0..MaxChanges
    /\ crashes \in 0..MaxCrashes

\* Whatever fails, crashes or is asked for twice, an order reaches the exchange at most
\* once: a claimed command is never claimed again (claimCommand).
OrderAtMostOnce == \A c \in Orders : placed[c] <= 1

\* The worker implements CommandExecution: whatever fails, crashes or is asked for
\* meanwhile, commands run one at a time in the order of their requests, none is claimed
\* again (claimCommand), each ends once, and its order reaches the exchange at most once,
\* while the command is processing.
Execution == INSTANCE CommandExecution WITH current <- worker.cmd
ExecutesInOrder == Execution!Spec

\* Once an emergency freeze or a drill has cancelled the orders and frozen the
\* deployment, nothing but orders that reduce a position reaches the exchange until it
\* is started or resumed - whatever was queued, polled or in flight before.
FreezeHolds == held => open \subseteq ReduceOrders

\* An active deployment was reconciled with the exchange (start and resume do it first).
ActiveReconciled == status = "active" => reconciled

\* No order reaches the exchange while a critical incident is open, though a command may
\* have been queued, and an incident resolved or opened, long before.
CriticalBlocksOrders == [][placed' # placed => ~critical]_vars

\* As long as nothing crashes, no command stays queued or processing for ever: once users
\* stop asking (MaxCommands), every one that was queued ends.
CommandsEnd ==
    <>[](\A c \in Commands : command[c] \notin {"queued", "processing"} \/ crashes > 0)

\* As long as nothing crashes, an emergency freeze that is queued freezes the deployment,
\* also when the exchange does not answer.
FreezeTakesEffect ==
    \A c \in {d \in Commands : d[1] = "emergency_freeze"} :
        command[c] = "queued" ~> (status = "frozen" /\ command[c] # "queued") \/ crashes > 0

\* The runbook's promise: once the worker has no work left, every emergency freeze that
\* was queued was executed or reported as failed.
EmergencyFreezeExecuted ==
    At("idle") /\ queue = <<>> /\ (\A c \in Commands : request[c] = "none")
        => \A c \in {d \in Commands : d[1] = "emergency_freeze"} :
              command[c] \in {"none", "completed", "failed"}
=============================================================================

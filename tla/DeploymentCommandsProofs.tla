----------------------- MODULE DeploymentCommandsProofs -----------------------
(***************************************************************************)
(* What holds of a deployment for every set of commands, keys and bounds.  *)
(* Located says which command the worker can be at which step with; the    *)
(* other invariants rest on it.  OnceInv ties an order that may still be   *)
(* placed to a command that was never claimed before; WaitInv says where a *)
(* freeze is until it is carried out; StepExecutes maps every step to one  *)
(* of CommandExecution; FrozenInv carries a freeze over everything that    *)
(* could make the deployment active again.                                 *)
(***************************************************************************)
EXTENDS DeploymentCommands, SequenceTheorems, TLAPS

Located ==
    /\ worker.pc \in {"idle", "doctor", "recorded"} => worker.cmd = NoCommand
    /\ worker.pc \notin {"idle", "doctor", "recorded", "snapshot"} => worker.cmd \in Commands
    /\ worker.pc = "start" => Type = "start"
    /\ worker.pc = "snapshot" =>
           Type \in {"start", "resume", "reconcile", "stop", "poll"} \cup Freezes
    /\ worker.pc \in {"emergency", "frozen"} => Type \in Freezes
    /\ worker.pc \in {"authorize", "block", "submit"} => worker.cmd \in Orders

TypeInv == TypeOK /\ Located

\* The types of the commands, and where the worker starts and goes on with each.
LEMMA CommandTypes ==
    ASSUME NEW c \in Commands
    PROVE  /\ c[1] \in Types
           /\ c # NoCommand
           /\ FirstStep(c[1]) \in Pcs
  <1>1. c[1] \in Types /\ c # NoCommand
    BY CommandsAssumption, NoCommandAssumption
  <1>2. QED
    BY <1>1 DEF FirstStep, Types, Freezes, Pcs

\* A command that is claimed is one of those that its first step knows.
LEMMA ClaimedLocated ==
    ASSUME NEW c \in Commands, status \in Statuses, worker' = Claimed(c)
    PROVE  worker' \in Locals /\ Located'
  <1>1. c[1] \in Types /\ c # NoCommand /\ FirstStep(c[1]) \in Pcs
    BY CommandTypes
  <1>2. worker'.pc = FirstStep(c[1]) /\ worker'.cmd = c /\ worker'.copy \in Statuses
    BY DEF Claimed, Statuses
  <1>3. worker' \in Locals
    BY <1>1, <1>2 DEF Claimed, Locals, Statuses
  <1>4. Type' = c[1]
    BY <1>1, <1>2 DEF Type
  <1>5. FirstStep(c[1]) \notin {"idle", "doctor", "recorded", "block", "submit", "frozen"}
    BY <1>1 DEF FirstStep, Types, Freezes
  <1>6. c[1] \in Types \ {"submit_order"} => FirstStep(c[1]) # "authorize"
    BY DEF FirstStep, Types, Freezes
  <1>7. FirstStep(c[1]) = "start" => c[1] = "start"
    BY <1>1 DEF FirstStep, Types, Freezes
  <1>8. FirstStep(c[1]) = "snapshot" => c[1] \in {"resume", "reconcile", "stop"}
    BY <1>1 DEF FirstStep, Types, Freezes
  <1>9. FirstStep(c[1]) = "emergency" => c[1] \in Freezes
    BY <1>1 DEF FirstStep, Types, Freezes
  <1>10. QED
    BY <1>1, <1>2, <1>3, <1>4, <1>5, <1>6, <1>7, <1>8, <1>9 DEF Located, Orders

\* Going on with the same command keeps the type of the locals.
LEMMA GotoType ==
    ASSUME TypeInv, NEW pc \in Pcs, Goto(pc)
    PROVE  /\ worker' \in Locals
           /\ worker'.pc = pc /\ worker'.cmd = worker.cmd /\ worker'.copy = "draft"
           /\ Type' = Type
  BY DEF TypeInv, TypeOK, Locals, Goto, Type, Statuses

\* An idle worker runs no command.
LEMMA IdleType == Idle \in Locals /\ Idle.pc = "idle" /\ Idle.cmd = NoCommand /\ Idle.copy = "draft"
  BY DEF Idle, Locals, Pcs, Statuses

\* After a snapshot the worker goes where its command wants it.
LEMMA AfterSnapshotTypes ==
    ASSUME TypeInv, At("snapshot")
    PROVE  /\ AfterSnapshot \in {"activate", "complete", "stop", "report", "recorded"}
           /\ AfterSnapshot = "recorded" => Type = "poll"
           /\ AfterSnapshot = "activate" => Type \in {"start", "resume"}
           /\ AfterSnapshot # "recorded" => worker.cmd \in Commands
  <1>1. Type \in {"start", "resume", "reconcile", "stop", "poll"} \cup Freezes
    BY DEF TypeInv, Located, At
  <1>2. worker.cmd \in Commands \cup {NoCommand}
    BY DEF TypeInv, TypeOK, Locals
  <1>3. Type # "poll" => worker.cmd \in Commands
    BY <1>2 DEF Type
  <1>4. QED
    BY <1>1, <1>3 DEF AfterSnapshot, Freezes

\* Only the poll runs without a command.
LEMMA PollTypes ==
    ASSUME TypeInv
    PROVE  /\ worker.cmd \in Commands => Type = worker.cmd[1] /\ Type # "poll"
           /\ Type = "poll" => worker.cmd = NoCommand
  <1>1. worker.cmd \in Commands \cup {NoCommand}
    BY DEF TypeInv, TypeOK, Locals
  <1>2. worker.cmd \in Commands => worker.cmd[1] \in Types /\ worker.cmd # NoCommand
    BY CommandTypes
  <1>3. QED
    BY <1>1, <1>2 DEF Type, Types

\* A new deployment with an idle worker is well typed.
LEMMA InitTypeInv == Init => TypeInv
  <1> SUFFICES ASSUME Init PROVE TypeInv
    OBVIOUS
  <1>1. worker \in Locals /\ worker.pc = "idle" /\ worker.cmd = NoCommand
    BY IdleType DEF Init
  <1>2. Located
    BY <1>1 DEF Located
  <1>3. queue \in Seq(Commands)
    BY DEF Init
  <1>4. changes \in 0..MaxChanges /\ crashes \in 0..MaxCrashes
    BY BoundsAssumption DEF Init
  <1>5. /\ command \in [Commands -> {"none", "queued", "processing", "completed", "failed"}]
        /\ request \in [Commands -> {"none", "insert", "mark"}]
        /\ placed \in [Orders -> Nat]
    BY DEF Init
  <1>6. open \subseteq Orders /\ critical \in BOOLEAN /\ held \in BOOLEAN /\ reconciled \in BOOLEAN
    BY DEF Init
  <1>7. /\ status \in Statuses /\ revoked \in {"no", "half", "done"}
        /\ connector \in {"pending", "healthy", "blocked", "revoked"}
    BY DEF Init, Statuses
  <1>8. TypeOK
    BY <1>1, <1>3, <1>4, <1>5, <1>6, <1>7 DEF TypeOK
  <1>9. QED
    BY <1>2, <1>8 DEF TypeInv

\* Every step of a user keeps the types: none of them touches the worker.
LEMMA UsersKeepTypes ==
    ASSUME TypeInv,
           \/ \E c \in Commands : RequestCommand(c) \/ InsertCommand(c) \/ MarkQueued(c)
           \/ RevokeConnector \/ FreezeRevoked \/ ReplaceConnectorCredentials
           \/ ResolveIncident
    PROVE  TypeInv'
  <1> USE DEF TypeInv, TypeOK
  <1>1. ASSUME worker' = worker, Located PROVE Located'
    BY <1>1 DEF Located, Type
  <1>2. ASSUME NEW c \in Commands, RequestCommand(c) PROVE TypeInv'
    BY <1>1, <1>2 DEF RequestCommand, deployment, connection, exchange
  <1>3. ASSUME NEW c \in Commands, InsertCommand(c) PROVE TypeInv'
    <2>1. queue' \in Seq(Commands)
      BY <1>3 DEF InsertCommand
    <2>2. request' \in [Commands -> {"none", "insert", "mark"}]
      BY <1>3 DEF InsertCommand
    <2>3. QED
      BY <1>1, <1>3, <2>1, <2>2 DEF InsertCommand, deployment, connection, exchange
  <1>4. ASSUME NEW c \in Commands, MarkQueued(c) PROVE TypeInv'
    BY <1>1, <1>4 DEF MarkQueued, connection, exchange, Statuses
  <1>5. ASSUME RevokeConnector PROVE TypeInv'
    <2>1. changes' \in 0..MaxChanges
      BY <1>5, BoundsAssumption DEF RevokeConnector
    <2>2. QED
      BY <1>1, <1>5, <2>1 DEF RevokeConnector, deployment, intake, exchange
  <1>6. ASSUME FreezeRevoked PROVE TypeInv'
    BY <1>1, <1>6 DEF FreezeRevoked, intake, exchange, Statuses
  <1>7. ASSUME ReplaceConnectorCredentials PROVE TypeInv'
    <2>1. changes' \in 0..MaxChanges
      BY <1>7, BoundsAssumption DEF ReplaceConnectorCredentials
    <2>2. QED
      BY <1>1, <1>7, <2>1 DEF ReplaceConnectorCredentials, deployment, intake, exchange
  <1>8. ASSUME ResolveIncident PROVE TypeInv'
    BY <1>1, <1>8 DEF ResolveIncident, deployment, connection, intake, exchange
  <1>9. QED
    BY <1>2, <1>3, <1>4, <1>5, <1>6, <1>7, <1>8

\* Every step of the worker, and its death, keeps the types.
LEMMA WorkerKeepsTypes == ASSUME TypeInv, WorkerStep \/ Crash PROVE TypeInv'
  <1> USE DEF deployment, connection, intake, exchange, At
  <1>t. TypeOK /\ Located
    BY DEF TypeInv
  <1>1. ASSUME NEW pc \in Pcs, Goto(pc), pc \notin {"start", "snapshot", "frozen"},
               pc \in {"idle", "doctor", "recorded"} => worker.cmd = NoCommand,
               pc \notin {"idle", "doctor", "recorded"} => worker.cmd \in Commands,
               pc = "emergency" => Type \in Freezes,
               pc \in {"authorize", "block", "submit"} => worker.cmd \in Orders
        PROVE  worker' \in Locals /\ Located'
    BY <1>1, GotoType DEF Located
  <1>2. ASSUME worker' = Idle PROVE worker' \in Locals /\ Located'
    BY <1>2, IdleType DEF Located, Type
  <1>3. ASSUME StartDoctor PROVE TypeInv'
    <2>1. worker' \in Locals /\ Located'
      BY <1>t, <1>3, <1>1 DEF StartDoctor, Located, Pcs
    <2>2. QED
      BY <1>t, <1>3, <2>1 DEF StartDoctor, TypeInv, TypeOK
  <1>4. ASSUME UpdateConnectorDoctor PROVE TypeInv'
    BY <1>t, <1>4, <1>2 DEF UpdateConnectorDoctor, TypeInv, TypeOK
  <1>5. ASSUME ClaimCommand PROVE TypeInv'
    <2>1. Head(queue) \in Commands /\ Tail(queue) \in Seq(Commands)
      BY <1>t, <1>5 DEF ClaimCommand, TypeOK
    <2>2. worker' \in Locals /\ Located'
      BY <1>t, <1>5, <2>1, ClaimedLocated DEF ClaimCommand, TypeOK
    <2>3. QED
      BY <1>t, <1>5, <2>1, <2>2 DEF ClaimCommand, TypeInv, TypeOK
  <1>6. ASSUME PollDeployment PROVE TypeInv'
    <2>1. worker' \in Locals /\ Located'
      BY <1>t, <1>6 DEF PollDeployment, TypeOK, Located, Locals, Pcs, Type
    <2>2. QED
      BY <1>t, <1>6, <2>1 DEF PollDeployment, TypeInv, TypeOK
  <1>7. ASSUME SetStarting PROVE TypeInv'
    <2>1. worker' = [worker EXCEPT !.pc = "snapshot", !.copy = "starting"] /\ worker \in Locals
      BY <1>t, <1>7 DEF SetStarting, TypeOK
    <2>2. /\ worker' \in Locals
          /\ worker'.pc = "snapshot" /\ worker'.cmd = worker.cmd
      BY <2>1 DEF Locals, Pcs, Statuses
    <2>3. Type' = "start"
      BY <1>t, <1>7, <2>2 DEF SetStarting, Located, Type
    <2>4. Located'
      BY <2>2, <2>3 DEF Located
    <2>5. QED
      BY <1>t, <1>7, <2>2, <2>4 DEF SetStarting, TypeInv, TypeOK, Statuses
  <1>8. ASSUME WriteSnapshot PROVE TypeInv'
    <2>1. AfterSnapshot \in Pcs
      BY <1>8, AfterSnapshotTypes DEF WriteSnapshot, Pcs
    <2>2. worker' \in Locals /\ Located'
      BY <1>8, <2>1, <1>1, AfterSnapshotTypes, PollTypes DEF WriteSnapshot
    <2>3. worker.copy \in Statuses
      BY <1>t DEF TypeOK, Locals
    <2>4. QED
      BY <1>t, <1>8, <2>2, <2>3 DEF WriteSnapshot, TypeInv, TypeOK
  <1>9. ASSUME SnapshotFails PROVE TypeInv'
    <2>1. worker.cmd \in Commands
      BY <1>t, <1>9 DEF SnapshotFails, TypeOK, Locals, Type
    <2>2. worker' \in Locals /\ Located'
      BY <1>9, <2>1, <1>1 DEF SnapshotFails, Pcs
    <2>3. QED
      BY <1>t, <1>9, <2>2 DEF SnapshotFails, TypeInv, TypeOK
  <1>10. ASSUME Activate \/ SetStatus \/ SetStopped \/ Block \/ FreezeFailed PROVE TypeInv'
    <2>1. worker.cmd \in Commands
      BY <1>t, <1>10 DEF Activate, SetStatus, SetStopped, Block, FreezeFailed, Located
    <2>2. worker' \in Locals /\ Located'
      BY <1>10, <2>1, <1>1 DEF Activate, SetStatus, SetStopped, Block, FreezeFailed, Pcs
    <2>3. QED
      BY <1>t, <1>10, <2>2
         DEF Activate, SetStatus, SetStopped, Block, FreezeFailed, TypeInv, TypeOK, Statuses
  <1>11. ASSUME PollEnds \/ PollFails PROVE TypeInv'
    BY <1>t, <1>11, <1>2 DEF PollEnds, PollFails, TypeInv, TypeOK, Statuses
  <1>12. ASSUME Authorize PROVE TypeInv'
    <2>1. worker.cmd \in Orders /\ worker.cmd \in Commands
      BY <1>t, <1>12 DEF Authorize, Located, Orders
    <2>2. PICK pc \in {"submit", "block", "complete"} : Goto(pc)
      BY <1>12 DEF Authorize
    <2>3. worker' \in Locals /\ Located'
      BY <2>1, <2>2, <1>1 DEF Pcs
    <2>4. QED
      BY <1>t, <1>12, <2>3 DEF Authorize, TypeInv, TypeOK
  <1>13. ASSUME SubmitOrder PROVE TypeInv'
    <2>1. worker.cmd \in Orders /\ worker.cmd \in Commands
      BY <1>t, <1>13 DEF SubmitOrder, Located, Orders
    <2>2. worker' \in Locals /\ Located'
      BY <1>13, <2>1, <1>1 DEF SubmitOrder, Pcs
    <2>3. open' \subseteq Orders /\ placed' \in [Orders -> Nat]
      BY <1>t, <1>13, <2>1 DEF SubmitOrder, TypeOK
    <2>4. QED
      BY <1>t, <1>13, <2>2, <2>3 DEF SubmitOrder, TypeInv, TypeOK
  <1>14. ASSUME CancelOrder PROVE TypeInv'
    BY <1>t, <1>14 DEF CancelOrder, TypeInv, TypeOK, Located, Type
  <1>15. ASSUME EmergencyFreeze PROVE TypeInv'
    <2>1. worker.cmd \in Commands /\ Type \in Freezes
      BY <1>t, <1>15 DEF EmergencyFreeze, Located
    <2>2. /\ worker' \in Locals /\ Type' = Type
          /\ worker'.pc = "frozen" /\ worker'.cmd = worker.cmd
      BY <1>15, GotoType DEF EmergencyFreeze, Pcs
    <2>3. Located'
      BY <2>1, <2>2 DEF Located
    <2>4. QED
      BY <1>t, <1>15, <2>2, <2>3 DEF EmergencyFreeze, TypeInv, TypeOK
  <1>16. ASSUME WriteFrozen PROVE TypeInv'
    <2>1. worker' = [worker EXCEPT !.pc = "snapshot", !.copy = "frozen"] /\ worker \in Locals
      BY <1>t, <1>16 DEF WriteFrozen, TypeOK
    <2>2. /\ worker' \in Locals
          /\ worker'.pc = "snapshot" /\ worker'.cmd = worker.cmd
      BY <2>1 DEF Locals, Pcs, Statuses
    <2>3. Type' \in Freezes
      BY <1>t, <1>16, <2>2 DEF WriteFrozen, Located, Type
    <2>4. Located'
      BY <2>2, <2>3 DEF Located
    <2>5. QED
      BY <1>t, <1>16, <2>2, <2>4 DEF WriteFrozen, TypeInv, TypeOK, Statuses
  <1>17. ASSUME OpenIncident PROVE TypeInv'
    <2>1. worker' \in Locals /\ Located'
      BY <1>t, <1>17, <1>1 DEF OpenIncident, Located, Pcs
    <2>2. QED
      BY <1>t, <1>17, <2>1 DEF OpenIncident, TypeInv, TypeOK
  <1>18. ASSUME CompleteCommand PROVE TypeInv'
    BY <1>t, <1>18, <1>2 DEF CompleteCommand, TypeInv, TypeOK
  <1>19. ASSUME StepFails PROVE TypeInv'
    <2>1. worker' \in Locals /\ Located'
      BY <1>t, <1>19, <1>1 DEF StepFails, Located, Pcs
    <2>2. QED
      BY <1>t, <1>19, <2>1 DEF StepFails, TypeInv, TypeOK
  <1>20. ASSUME FailCommand PROVE TypeInv'
    <2>1. worker' \in Locals /\ Located'
      BY <1>t, <1>20, <1>1 DEF FailCommand, Located, Pcs
    <2>2. QED
      BY <1>t, <1>20, <2>1 DEF FailCommand, TypeInv, TypeOK
  <1>21. ASSUME ReportFailure PROVE TypeInv'
    BY <1>t, <1>21, <1>2 DEF ReportFailure, TypeInv, TypeOK
  <1>22. ASSUME Crash PROVE TypeInv'
    <2>1. crashes' \in 0..MaxCrashes
      BY <1>t, <1>22, BoundsAssumption DEF Crash, TypeOK
    <2>2. QED
      BY <1>t, <1>22, <2>1, <1>2 DEF Crash, TypeInv, TypeOK
  <1>23. QED
    BY <1>3, <1>4, <1>5, <1>6, <1>7, <1>8, <1>9, <1>10, <1>11, <1>12, <1>13, <1>14, <1>15,
       <1>16, <1>17, <1>18, <1>19, <1>20, <1>21, <1>22 DEF WorkerStep

\* Every step keeps the types and the place of the worker.
LEMMA StepTypeInv == TypeInv /\ [Next]_vars => TypeInv'
  <1> SUFFICES ASSUME TypeInv, [Next]_vars PROVE TypeInv'
    OBVIOUS
  <1>1. CASE Next
    BY <1>1, UsersKeepTypes, WorkerKeepsTypes DEF Next
  <1>2. CASE UNCHANGED vars
    BY <1>2 DEF vars, TypeInv, TypeOK, Located, Type
  <1>3. QED
    BY <1>1, <1>2

\* The other proofs use the types through this one.
LEMMA TypeInvariance == Spec => []TypeInv
  BY InitTypeInv, StepTypeInv, PTL DEF Spec

\* The rows, the locals of the worker and the exchange keep their types.
THEOREM TypeCorrect == Spec => []TypeOK
  <1>1. TypeInv => TypeOK
    BY DEF TypeInv
  <1>2. QED
    BY <1>1, TypeInvariance, PTL

-----------------------------------------------------------------------------
\* What has not been claimed yet, or only just, was never placed.
OnceInv ==
    /\ \A i, j \in 1..Len(queue) : i # j => queue[i] # queue[j]
    /\ \A i \in 1..Len(queue) : command[queue[i]] = "queued"
    /\ \A c \in Commands : request[c] = "insert" => command[c] = "none"
    /\ worker.cmd \in Commands /\ worker.pc # "incident" => command[worker.cmd] = "processing"
    /\ \A c \in Orders : command[c] \in {"none", "queued"} => placed[c] = 0
    /\ worker.pc \in {"authorize", "submit"} => placed[worker.cmd] = 0
    /\ OrderAtMostOnce

\* A queued command is queued once and was not claimed before.
LEMMA InsertKeepsOnce ==
    ASSUME TypeInv, OnceInv, NEW c \in Commands, InsertCommand(c)
    PROVE  OnceInv'
  <1> USE DEF InsertCommand, TypeInv, TypeOK, OnceInv
  <1>1. command[c] = "none" /\ queue \in Seq(Commands)
    OBVIOUS
  <1>2. \A i \in 1..Len(queue) : queue[i] \in Commands /\ queue[i] # c
    BY <1>1
  <1>3. queue' = Append(queue, c) /\ Len(queue') = Len(queue) + 1
    BY <1>1
  <1>4. \A i \in 1..Len(queue') : queue'[i] = IF i = Len(queue) + 1 THEN c ELSE queue[i]
    BY <1>1, <1>3
  <1>5. \A i, j \in 1..Len(queue') : i # j => queue'[i] # queue'[j]
    BY <1>1, <1>2, <1>3, <1>4
  <1>6. \A i \in 1..Len(queue') : command'[queue'[i]] = "queued"
    BY <1>1, <1>2, <1>3, <1>4
  <1>7. QED
    BY <1>1, <1>5, <1>6 DEF deployment, connection, exchange, OrderAtMostOnce, Orders

\* Claiming takes the one place of a command in the queue.
LEMMA ClaimKeepsOnce == ASSUME TypeInv, OnceInv, ClaimCommand PROVE OnceInv'
  <1> DEFINE c == Head(queue)
  <1>1. /\ queue \in Seq(Commands) /\ queue # <<>>
        /\ command \in [Commands -> {"none", "queued", "processing", "completed", "failed"}]
    BY DEF ClaimCommand, TypeInv, TypeOK
  <1>2. /\ c \in Commands /\ c = queue[1] /\ Len(queue) \in Nat \ {0}
        /\ queue' = Tail(queue) /\ Len(queue') = Len(queue) - 1
        /\ \A i \in 1..Len(queue') : queue'[i] = queue[i + 1]
    BY <1>1 DEF ClaimCommand
  <1>3. command[c] = "queued"
    BY <1>2 DEF OnceInv
  <1>4. \A i \in 1..Len(queue') : queue'[i] # c /\ queue[i + 1] \in Commands
    BY <1>1, <1>2 DEF OnceInv
  <1>5. command' = [command EXCEPT ![c] = "processing"]
    BY DEF ClaimCommand
  <1>6. \A i, j \in 1..Len(queue') : i # j => queue'[i] # queue'[j]
    BY <1>2 DEF OnceInv
  <1>7. \A i \in 1..Len(queue') : command'[queue'[i]] = "queued"
    <2> TAKE i \in 1..Len(queue')
    <2>1. i + 1 \in 1..Len(queue) /\ command[queue[i + 1]] = "queued"
      BY <1>2 DEF OnceInv
    <2>2. QED
      BY <1>1, <1>2, <1>4, <1>5, <2>1
  <1>8. worker'.cmd = c
    BY DEF ClaimCommand, Claimed
  <1>9. c \in Orders => placed[c] = 0
    BY <1>3 DEF OnceInv
  <1>10. FirstStep(c[1]) \in {"authorize", "submit"} => c \in Orders
    BY <1>2, CommandTypes DEF FirstStep, Types, Freezes, Orders
  <1>11. worker'.pc = FirstStep(c[1]) /\ placed' = placed /\ request' = request
    BY DEF ClaimCommand, Claimed, exchange
  <1> HIDE DEF c
  <1>12. \A d \in Commands : request'[d] = "insert" => command'[d] = "none"
    BY <1>1, <1>2, <1>3, <1>5, <1>11 DEF OnceInv
  <1>13. \A d \in Orders : command'[d] \in {"none", "queued"} => placed'[d] = 0
    BY <1>1, <1>2, <1>5, <1>11 DEF OnceInv, Orders
  <1>14. QED
    BY <1>1, <1>2, <1>5, <1>6, <1>7, <1>8, <1>9, <1>10, <1>11, <1>12, <1>13
       DEF OnceInv, OrderAtMostOnce

\* A step of the worker about a claimed command, other than the submission.
LEMMA WorkerKeepsOnce ==
    ASSUME TypeInv, OnceInv,
           UNCHANGED <<command, queue, request, placed>>,
           worker'.pc \in {"authorize", "submit"} =>
               worker.pc = "authorize" /\ worker'.cmd = worker.cmd,
           \/ worker'.cmd = NoCommand
           \/ worker'.cmd = worker.cmd /\ worker.pc # "incident"
    PROVE  OnceInv'
  BY NoCommandAssumption DEF OnceInv, OrderAtMostOnce

\* Every step keeps the order of claims and submissions.
LEMMA StepOnceInv == TypeInv /\ OnceInv /\ [Next]_vars => OnceInv'
  <1> SUFFICES ASSUME TypeInv, OnceInv, [Next]_vars PROVE OnceInv'
    OBVIOUS
  <1> USE DEF deployment, connection, intake, exchange, At
  <1>1. ASSUME UNCHANGED <<command, queue, request, placed, worker>> PROVE OnceInv'
    BY <1>1 DEF OnceInv, OrderAtMostOnce
  <1>2. ASSUME NEW c \in Commands, RequestCommand(c) PROVE OnceInv'
    BY <1>2 DEF RequestCommand, OnceInv, OrderAtMostOnce, TypeInv, TypeOK
  <1>3. ASSUME NEW c \in Commands, InsertCommand(c) PROVE OnceInv'
    BY <1>3, InsertKeepsOnce
  <1>4. ASSUME NEW c \in Commands, MarkQueued(c) PROVE OnceInv'
    BY <1>4 DEF MarkQueued, OnceInv, OrderAtMostOnce, TypeInv, TypeOK
  <1>5. ASSUME RevokeConnector \/ FreezeRevoked \/ ReplaceConnectorCredentials
               \/ ResolveIncident \/ CancelOrder
        PROVE  OnceInv'
    BY <1>5, <1>1 DEF RevokeConnector, FreezeRevoked, ReplaceConnectorCredentials,
                      ResolveIncident, CancelOrder
  <1>6. ASSUME NEW pc \in Pcs, Goto(pc), pc \notin {"authorize", "submit"},
               worker.pc # "incident", UNCHANGED <<command, queue, request, placed>>
        PROVE  OnceInv'
    BY <1>6, GotoType, WorkerKeepsOnce
  <1>7. ASSUME worker' = Idle, UNCHANGED <<command, queue, request, placed>> PROVE OnceInv'
    BY <1>7, IdleType, WorkerKeepsOnce
  <1>8. ASSUME StartDoctor \/ SnapshotFails \/ Activate \/ SetStatus \/ SetStopped \/ Block
               \/ EmergencyFreeze \/ OpenIncident \/ StepFails \/ FreezeFailed
        PROVE  OnceInv'
    BY <1>8, <1>6 DEF StartDoctor, SnapshotFails, Activate, SetStatus, SetStopped, Block,
                      EmergencyFreeze, OpenIncident, StepFails, FreezeFailed, Pcs
  <1>9. ASSUME WriteSnapshot PROVE OnceInv'
    BY <1>9, <1>6, AfterSnapshotTypes DEF WriteSnapshot, Pcs
  <1>10. ASSUME UpdateConnectorDoctor \/ PollEnds \/ PollFails \/ ReportFailure \/ Crash
         PROVE  OnceInv'
    BY <1>10, <1>7 DEF UpdateConnectorDoctor, PollEnds, PollFails, ReportFailure, Crash
  <1>11. ASSUME ClaimCommand PROVE OnceInv'
    BY <1>11, ClaimKeepsOnce
  <1>12. ASSUME PollDeployment PROVE OnceInv'
    BY <1>12, WorkerKeepsOnce DEF PollDeployment
  <1>13. ASSUME SetStarting \/ WriteFrozen PROVE OnceInv'
    <2>1. worker \in Locals
      BY DEF TypeInv, TypeOK
    <2>2. worker'.pc = "snapshot" /\ worker'.cmd = worker.cmd
      BY <1>13, <2>1 DEF SetStarting, WriteFrozen, Locals
    <2>3. QED
      BY <1>13, <2>2, WorkerKeepsOnce DEF SetStarting, WriteFrozen
  <1>14. ASSUME Authorize PROVE OnceInv'
    <2>1. PICK pc \in {"submit", "block", "complete"} : Goto(pc)
      BY <1>14 DEF Authorize
    <2>2. worker'.pc = pc /\ worker'.cmd = worker.cmd
      BY <2>1, GotoType DEF Pcs
    <2>3. QED
      BY <1>14, <2>2, WorkerKeepsOnce DEF Authorize
  <1>15. ASSUME SubmitOrder PROVE OnceInv'
    <2>1. worker.cmd \in Orders /\ worker.cmd \in Commands /\ placed[worker.cmd] = 0
      BY <1>15 DEF SubmitOrder, TypeInv, Located, Orders, OnceInv
    <2>2. command[worker.cmd] = "processing"
      BY <1>15, <2>1 DEF SubmitOrder, OnceInv
    <2>3. worker'.pc = "complete" /\ worker'.cmd = worker.cmd
      BY <1>15, GotoType DEF SubmitOrder, Pcs
    <2>4. \A c \in Orders : placed'[c] = IF c = worker.cmd THEN 1 ELSE placed[c]
      BY <1>15, <2>1 DEF SubmitOrder, TypeInv, TypeOK
    <2>5. UNCHANGED <<command, queue, request>>
      BY <1>15 DEF SubmitOrder
    <2>6. QED
      BY <2>2, <2>3, <2>4, <2>5 DEF OnceInv, OrderAtMostOnce
  <1>16. ASSUME CompleteCommand \/ FailCommand PROVE OnceInv'
    <2>1. worker.cmd \in Commands /\ command[worker.cmd] = "processing"
      BY <1>16 DEF CompleteCommand, FailCommand, TypeInv, Located, OnceInv
    <2>2. /\ UNCHANGED <<queue, request, placed>>
          /\ \A c \in Commands \ {worker.cmd} : command'[c] = command[c]
          /\ command'[worker.cmd] \in {"completed", "failed"}
      BY <1>16, <2>1 DEF CompleteCommand, FailCommand, TypeInv, TypeOK
    <2>3. worker'.pc = "incident" \/ (worker'.pc = "idle" /\ worker'.cmd = NoCommand)
      BY <1>16, GotoType, IdleType DEF CompleteCommand, FailCommand, Pcs
    <2>4. \A i \in 1..Len(queue) : queue[i] \in Commands
      BY DEF TypeInv, TypeOK
    <2>5. QED
      BY <2>1, <2>2, <2>3, <2>4, NoCommandAssumption DEF OnceInv, OrderAtMostOnce, Orders
  <1>17. CASE UNCHANGED vars
    BY <1>17, <1>1 DEF vars
  <1>18. QED
    BY <1>2, <1>3, <1>4, <1>5, <1>8, <1>9, <1>10, <1>11, <1>12, <1>13, <1>14, <1>15, <1>16,
       <1>17 DEF Next, WorkerStep

\* The other proofs use the order of claims through this one.
LEMMA OnceInvariance == Spec => []OnceInv
  <1>1. Init => OnceInv
    BY IdleType, NoCommandAssumption DEF Init, OnceInv, OrderAtMostOnce, Orders
  <1>2. QED
    BY <1>1, StepOnceInv, TypeInvariance, PTL DEF Spec

\* An order reaches the exchange at most once, whatever crashes and fails.
THEOREM OrdersOnce == Spec => []OrderAtMostOnce
  <1>1. OnceInv => OrderAtMostOnce
    BY DEF OnceInv
  <1>2. QED
    BY <1>1, OnceInvariance, PTL

-----------------------------------------------------------------------------
(* Commands that wait for the worker.                                      *)

\* A queued command is in the queue; a command that is processing is the one the worker
\* runs, as long as the worker has not died.
WaitInv ==
    /\ \A c \in Commands : command[c] = "queued" => \E i \in 1..Len(queue) : queue[i] = c
    /\ worker.pc = "incident" => command[worker.cmd] # "processing"
    /\ crashes = 0 => \A c \in Commands : command[c] = "processing" => worker.cmd = c

\* The queue grows at its end and shrinks at its head.
LEMMA AppendFacts ==
    ASSUME TypeInv, NEW c \in Commands, queue' = Append(queue, c)
    PROVE  /\ Len(queue) \in Nat /\ Len(queue') = Len(queue) + 1
           /\ \A i \in 1..Len(queue) : queue'[i] = queue[i]
           /\ queue'[Len(queue) + 1] = c
  <1>1. queue \in Seq(Commands)
    BY DEF TypeInv, TypeOK
  <1>2. QED
    BY <1>1

\* Taking its head moves the others up.
LEMMA TailFacts ==
    ASSUME TypeInv, queue # <<>>, queue' = Tail(queue)
    PROVE  /\ Head(queue) = queue[1] /\ Head(queue) \in Commands
           /\ Len(queue) \in Nat /\ Len(queue') = Len(queue) - 1
           /\ \A i \in 1..(Len(queue) - 1) : queue'[i] = queue[i + 1]
  <1>1. queue \in Seq(Commands)
    BY DEF TypeInv, TypeOK
  <1>2. QED
    BY <1>1

\* Every step of the worker, and its death, keeps what waits.
LEMMA WorkerKeepsWaiting ==
    ASSUME TypeInv, OnceInv, WaitInv, WorkerStep \/ Crash
    PROVE  WaitInv'
  <1> USE DEF deployment, connection, intake, exchange, At
  <1>t. TypeOK /\ Located /\ crashes \in Nat
    BY BoundsAssumption DEF TypeInv, TypeOK
  <1>1. ASSUME NEW pc \in Pcs, Goto(pc), pc # "incident",
               UNCHANGED <<command, queue, crashes>>
        PROVE  WaitInv'
    BY <1>1, GotoType DEF WaitInv
  <1>2. ASSUME worker' = Idle, worker.cmd \notin Commands \/ worker.pc = "incident",
               UNCHANGED <<command, queue, crashes>>
        PROVE  WaitInv'
    BY <1>2, IdleType DEF WaitInv
  <1>3. ASSUME \/ StartDoctor \/ SnapshotFails \/ Activate \/ SetStatus \/ SetStopped \/ Block
               \/ SubmitOrder \/ EmergencyFreeze \/ OpenIncident \/ StepFails \/ FreezeFailed
        PROVE  WaitInv'
    BY <1>3, <1>1 DEF StartDoctor, SnapshotFails, Activate, SetStatus, SetStopped, Block,
                      SubmitOrder, EmergencyFreeze, OpenIncident, StepFails, FreezeFailed, Pcs
  <1>4. ASSUME Authorize \/ WriteSnapshot PROVE WaitInv'
    <2>1. \E pc \in Pcs \ {"incident"} : Goto(pc)
      BY <1>4, AfterSnapshotTypes DEF Authorize, WriteSnapshot, Pcs
    <2>2. QED
      BY <1>4, <1>1, <2>1 DEF Authorize, WriteSnapshot
  <1>5. ASSUME UpdateConnectorDoctor \/ PollEnds \/ PollFails \/ ReportFailure PROVE WaitInv'
    <2>1. worker.cmd = NoCommand \/ worker.pc = "incident"
      BY <1>5, <1>t, PollTypes
         DEF UpdateConnectorDoctor, PollEnds, PollFails, ReportFailure, Located
    <2>2. QED
      BY <1>5, <1>2, <2>1, NoCommandAssumption
         DEF UpdateConnectorDoctor, PollEnds, PollFails, ReportFailure
  <1>6. ASSUME SetStarting \/ WriteFrozen PROVE WaitInv'
    <2>1. worker'.pc = "snapshot" /\ worker'.cmd = worker.cmd
      BY <1>6, <1>t DEF SetStarting, WriteFrozen, TypeOK, Locals
    <2>2. QED
      BY <1>6, <2>1 DEF SetStarting, WriteFrozen, WaitInv
  <1>7. ASSUME PollDeployment PROVE WaitInv'
    <2>1. worker.cmd = NoCommand /\ worker'.cmd = NoCommand /\ worker'.pc = "snapshot"
      BY <1>7, <1>t DEF PollDeployment, Located
    <2>2. QED
      BY <1>7, <2>1 DEF PollDeployment, WaitInv
  <1>8. ASSUME CancelOrder PROVE WaitInv'
    BY <1>8 DEF CancelOrder, WaitInv
  <1>9. ASSUME ClaimCommand PROVE WaitInv'
    <2> DEFINE c == Head(queue)
    <2>1. /\ queue # <<>> /\ queue' = Tail(queue) /\ crashes' = crashes
          /\ command' = [command EXCEPT ![c] = "processing"]
          /\ worker'.cmd = c /\ worker'.pc = FirstStep(c[1])
      BY <1>9 DEF ClaimCommand, Claimed
    <2>2. c \in Commands /\ c = queue[1]
      BY <2>1, TailFacts
    <2> HIDE DEF c
    <2>3. /\ command'[c] = "processing"
          /\ \A d \in Commands : d # c => command'[d] = command[d]
      BY <1>t, <2>1, <2>2 DEF TypeOK
    <2>4. ASSUME NEW d \in Commands, command'[d] = "queued"
          PROVE  \E i \in 1..Len(queue') : queue'[i] = d
      <3>1. d # c /\ command[d] = "queued"
        BY <2>2, <2>3, <2>4
      <3>2. PICK i \in 1..Len(queue) : queue[i] = d
        BY <3>1 DEF WaitInv
      <3>3. i # 1
        BY <2>2, <3>1, <3>2
      <3>4. i - 1 \in 1..Len(queue') /\ queue'[i - 1] = queue[(i - 1) + 1]
        BY <2>1, <3>2, <3>3, TailFacts
      <3>5. QED
        BY <3>2, <3>4
    <2>5. FirstStep(c[1]) # "incident"
      BY <2>2, CommandTypes DEF FirstStep, Types, Freezes
    <2>6. worker.cmd = NoCommand
      BY <1>9, <1>t DEF ClaimCommand, Located
    <2>7. QED
      BY <2>1, <2>2, <2>3, <2>4, <2>5, <2>6, NoCommandAssumption DEF WaitInv
  <1>10. ASSUME CompleteCommand \/ FailCommand PROVE WaitInv'
    <2>1. worker.cmd \in Commands
      BY <1>10, <1>t DEF CompleteCommand, FailCommand, Located
    <2>2. /\ command'[worker.cmd] \in {"completed", "failed"}
          /\ \A c \in Commands \ {worker.cmd} : command'[c] = command[c]
          /\ UNCHANGED <<queue, crashes>>
      BY <1>10, <1>t, <2>1 DEF CompleteCommand, FailCommand, TypeOK
    <2>3. worker'.cmd = worker.cmd \/ (worker'.pc = "idle" /\ worker'.cmd = NoCommand)
      BY <1>10, GotoType, IdleType DEF CompleteCommand, FailCommand, Pcs
    <2>4. QED
      BY <2>1, <2>2, <2>3 DEF WaitInv
  <1>11. ASSUME Crash PROVE WaitInv'
    BY <1>11, <1>t, IdleType DEF Crash, WaitInv
  <1>12. QED
    BY <1>3, <1>4, <1>5, <1>6, <1>7, <1>8, <1>9, <1>10, <1>11 DEF WorkerStep

\* Every step keeps what waits.
LEMMA StepWaitInv == TypeInv /\ OnceInv /\ WaitInv /\ [Next]_vars => WaitInv'
  <1> SUFFICES ASSUME TypeInv, OnceInv, WaitInv, [Next]_vars PROVE WaitInv'
    OBVIOUS
  <1> USE DEF deployment, connection, intake, exchange
  <1>1. ASSUME UNCHANGED <<command, queue, worker, crashes>> PROVE WaitInv'
    BY <1>1 DEF WaitInv
  <1>2. ASSUME NEW c \in Commands, InsertCommand(c) PROVE WaitInv'
    <2>1. /\ \A d \in Commands : command'[d] = IF d = c THEN "queued" ELSE command[d]
          /\ command[c] = "none" /\ queue' = Append(queue, c)
          /\ UNCHANGED <<worker, crashes>>
      BY <1>2 DEF InsertCommand, TypeInv, TypeOK, OnceInv
    <2>2. \A d \in Commands : command'[d] = "queued" => \E i \in 1..Len(queue') : queue'[i] = d
      <3>1. /\ Len(queue) \in Nat /\ Len(queue') = Len(queue) + 1
            /\ \A i \in 1..Len(queue) : queue'[i] = queue[i]
            /\ queue'[Len(queue) + 1] = c
        BY <2>1, AppendFacts
      <3>2. QED
        BY <2>1, <3>1 DEF WaitInv
    <2>3. worker.pc = "incident" => worker.cmd \in Commands
      BY DEF TypeInv, Located
    <2>4. QED
      BY <2>1, <2>2, <2>3 DEF WaitInv
  <1>3. ASSUME NEW c \in Commands, RequestCommand(c) \/ MarkQueued(c) PROVE WaitInv'
    BY <1>3, <1>1 DEF RequestCommand, MarkQueued
  <1>4. ASSUME \/ RevokeConnector \/ FreezeRevoked \/ ReplaceConnectorCredentials
               \/ ResolveIncident
        PROVE  WaitInv'
    BY <1>4, <1>1 DEF RevokeConnector, FreezeRevoked, ReplaceConnectorCredentials,
                      ResolveIncident
  <1>5. CASE UNCHANGED vars
    BY <1>5, <1>1 DEF vars
  <1>6. QED
    BY <1>2, <1>3, <1>4, <1>5, WorkerKeepsWaiting DEF Next

\* As long as the worker has not died, an emergency freeze that was queued was executed, or
\* reported as failed, once the worker has no work left.  EmergencyFreezeExecuted fails
\* for this one reason: a claimed command whose worker died is nobody's.
THEOREM FreezesAreExecuted == Spec => [](crashes = 0 => EmergencyFreezeExecuted)
  <1>1. Init => WaitInv
    BY IdleType DEF Init, WaitInv
  <1>2. ASSUME TypeInv, WaitInv, crashes = 0, At("idle"), queue = <<>>, NEW c \in Commands
        PROVE  command[c] \in {"none", "completed", "failed"}
    <2>1. worker.cmd = NoCommand
      BY <1>2 DEF At, TypeInv, Located
    <2>2. command[c] # "processing"
      BY <1>2, <2>1, NoCommandAssumption DEF WaitInv
    <2>3. command[c] # "queued"
      BY <1>2 DEF WaitInv
    <2>4. QED
      BY <1>2, <2>2, <2>3 DEF TypeInv, TypeOK
  <1>3. TypeInv /\ WaitInv => (crashes = 0 => EmergencyFreezeExecuted)
    BY <1>2 DEF EmergencyFreezeExecuted
  <1>4. QED
    BY <1>1, <1>3, StepWaitInv, TypeInvariance, OnceInvariance, PTL DEF Spec

-----------------------------------------------------------------------------
(* The refinement of CommandExecution.                                     *)

\* A request is there for a command before it is asked for.
LEMMA InsertAsks ==
    ASSUME OnceInv, NEW c \in Commands, InsertCommand(c)
    PROVE  Execution!Ask(c)
  BY DEF InsertCommand, Execution!Ask, OnceInv, exchange

\* A claim takes the oldest command.
LEMMA ClaimTakes == ASSUME TypeInv, OnceInv, ClaimCommand PROVE Execution!Take
  <1>1. queue \in Seq(Commands) /\ queue # <<>>
    BY DEF ClaimCommand, TypeInv, TypeOK
  <1>2. Head(queue) = queue[1] /\ 1 \in 1..Len(queue)
    BY <1>1
  <1>3. command[Head(queue)] = "queued"
    BY <1>2 DEF OnceInv
  <1>4. worker.cmd = NoCommand /\ worker'.cmd = Head(queue)
    BY DEF ClaimCommand, At, TypeInv, Located, Claimed
  <1>5. QED
    BY <1>1, <1>3, <1>4 DEF ClaimCommand, Execution!Take, exchange

\* A submission places the order of the command that is processing.
LEMMA SubmissionPlaces == ASSUME TypeInv, OnceInv, SubmitOrder PROVE Execution!Place
  <1>1. worker.cmd \in Orders /\ worker.cmd \in Commands /\ worker.pc = "submit"
    BY DEF SubmitOrder, At, TypeInv, Located, Orders
  <1>2. command[worker.cmd] = "processing" /\ placed[worker.cmd] = 0
    BY <1>1 DEF OnceInv
  <1>3. worker'.cmd = worker.cmd
    BY GotoType DEF SubmitOrder, Pcs
  <1>4. placed' = [placed EXCEPT ![worker.cmd] = 1]
    BY <1>1, <1>2 DEF SubmitOrder, TypeInv, TypeOK
  <1>5. QED
    BY <1>1, <1>2, <1>3, <1>4 DEF SubmitOrder, Execution!Place, intake

\* A command ends as completed or failed while it is processing.
LEMMA CommandsAreEnded ==
    ASSUME TypeInv, OnceInv, CompleteCommand \/ FailCommand
    PROVE  Execution!End("completed") \/ Execution!End("failed")
  <1>1. worker.cmd \in Commands /\ command[worker.cmd] = "processing"
    BY DEF CompleteCommand, FailCommand, At, TypeInv, Located, OnceInv
  <1>2. CASE CompleteCommand
    BY <1>1, <1>2, IdleType DEF CompleteCommand, Execution!End, exchange
  <1>3. CASE FailCommand
    <2>1. worker'.cmd = worker.cmd
      BY <1>3, GotoType DEF FailCommand, Pcs
    <2>2. QED
      BY <1>1, <1>3, <2>1 DEF FailCommand, Execution!End, exchange
  <1>4. QED
    BY <1>2, <1>3

\* All other steps leave the command that runs alone, or let go of it.
LEMMA OtherStepsStutter ==
    ASSUME TypeInv, UNCHANGED <<command, queue, placed>>,
           \/ worker' = worker
           \/ worker' = Idle
           \/ \E pc \in Pcs : Goto(pc)
           \/ worker'.cmd = worker.cmd
    PROVE  [Execution!Next]_(Execution!vars)
  <1>1. worker'.cmd \in {worker.cmd, NoCommand}
    BY GotoType, IdleType
  <1>2. QED
    BY <1>1 DEF Execution!Next, Execution!LetGo, Execution!vars

\* Every step is a step of CommandExecution, or none.
LEMMA StepExecutes ==
    ASSUME TypeInv, OnceInv, [Next]_vars
    PROVE  [Execution!Next]_(Execution!vars)
  <1> USE DEF deployment, connection, intake, exchange
  <1>1. ASSUME NEW c \in Commands, RequestCommand(c) \/ InsertCommand(c) \/ MarkQueued(c)
        PROVE  [Execution!Next]_(Execution!vars)
    <2>1. CASE InsertCommand(c)
      BY <2>1, InsertAsks DEF Execution!Next
    <2>2. CASE RequestCommand(c) \/ MarkQueued(c)
      BY <2>2, OtherStepsStutter DEF RequestCommand, MarkQueued
    <2>3. QED
      BY <1>1, <2>1, <2>2
  <1>2. ASSUME \/ RevokeConnector \/ FreezeRevoked \/ ReplaceConnectorCredentials
               \/ ResolveIncident \/ CancelOrder
        PROVE  [Execution!Next]_(Execution!vars)
    BY <1>2, OtherStepsStutter DEF RevokeConnector, FreezeRevoked,
       ReplaceConnectorCredentials, ResolveIncident, CancelOrder
  <1>3. ASSUME StartDoctor \/ SnapshotFails \/ Activate \/ SetStatus \/ SetStopped \/ Block
               \/ EmergencyFreeze \/ OpenIncident \/ StepFails \/ FreezeFailed
        PROVE  [Execution!Next]_(Execution!vars)
    BY <1>3, OtherStepsStutter DEF StartDoctor, SnapshotFails, Activate, SetStatus, SetStopped,
       Block, EmergencyFreeze, OpenIncident, StepFails, FreezeFailed, Pcs
  <1>4. ASSUME Authorize \/ WriteSnapshot PROVE [Execution!Next]_(Execution!vars)
    <2>1. \E pc \in Pcs : Goto(pc)
      BY <1>4, AfterSnapshotTypes DEF Authorize, WriteSnapshot, Pcs
    <2>2. QED
      BY <1>4, <2>1, OtherStepsStutter DEF Authorize, WriteSnapshot
  <1>5. ASSUME UpdateConnectorDoctor \/ PollEnds \/ PollFails \/ ReportFailure \/ Crash
        PROVE  [Execution!Next]_(Execution!vars)
    BY <1>5, OtherStepsStutter DEF UpdateConnectorDoctor, PollEnds, PollFails,
       ReportFailure, Crash
  <1>6. ASSUME SetStarting \/ WriteFrozen PROVE [Execution!Next]_(Execution!vars)
    <2>1. worker \in Locals
      BY DEF TypeInv, TypeOK
    <2>2. worker'.cmd = worker.cmd
      BY <1>6, <2>1 DEF SetStarting, WriteFrozen, Locals
    <2>3. QED
      BY <1>6, <2>2, OtherStepsStutter DEF SetStarting, WriteFrozen
  <1>7. ASSUME PollDeployment PROVE [Execution!Next]_(Execution!vars)
    <2>1. worker.cmd = NoCommand
      BY <1>7 DEF PollDeployment, At, TypeInv, Located
    <2>2. worker'.cmd = NoCommand
      BY <1>7 DEF PollDeployment
    <2>3. QED
      BY <1>7, <2>1, <2>2, OtherStepsStutter DEF PollDeployment
  <1>8. ASSUME ClaimCommand \/ SubmitOrder \/ CompleteCommand \/ FailCommand
        PROVE  [Execution!Next]_(Execution!vars)
    BY <1>8, ClaimTakes, SubmissionPlaces, CommandsAreEnded DEF Execution!Next
  <1>9. CASE UNCHANGED vars
    BY <1>9 DEF vars, Execution!vars
  <1>10. QED
    BY <1>1, <1>2, <1>3, <1>4, <1>5, <1>6, <1>7, <1>8, <1>9 DEF Next, WorkerStep

\* The execution worker implements CommandExecution, for every set of commands and
\* every bound on requests, changes of the connector and deaths of the worker.
THEOREM CommandsExecuteInOrder == Spec => ExecutesInOrder
  <1>1. Init => Execution!Init
    BY IdleType DEF Init, Execution!Init
  <1>2. TypeInv /\ OnceInv /\ [Next]_vars => [Execution!Next]_(Execution!vars)
    BY StepExecutes
  <1>3. QED
    BY <1>1, <1>2, TypeInvariance, OnceInvariance, PTL
       DEF Spec, ExecutesInOrder, Execution!Spec

-----------------------------------------------------------------------------
\* While a freeze holds, neither the row nor a copy of it is active, and an order that
\* is let through reduces a position.
FrozenInv ==
    /\ held => /\ status # "active"
               /\ worker.copy # "active"
               /\ worker.pc = "submit" => worker.cmd \in ReduceOrders
    /\ worker.pc = "frozen" => open = {}
    /\ FreezeHolds

\* Whatever makes the deployment active, again or for the first time, comes after a
\* reconciliation.
ReconciledInv ==
    /\ worker.copy = "active" \/ worker.pc = "activate" => reconciled
    /\ ActiveReconciled

\* The worker is the only one to open incidents, and not between decision and submission.
DecisionInv == worker.pc = "submit" => ~critical

SafeInv == FrozenInv /\ ReconciledInv /\ DecisionInv

\* A draft is neither active nor frozen.
LEMMA InitSafeInv == Init => SafeInv
  BY IdleType
     DEF Init, SafeInv, FrozenInv, FreezeHolds, ReconciledInv, ActiveReconciled, DecisionInv

\* No request makes a deployment active or opens an incident.
LEMMA UsersKeepSafe ==
    ASSUME TypeInv, SafeInv,
           \/ \E c \in Commands : RequestCommand(c) \/ InsertCommand(c) \/ MarkQueued(c)
           \/ RevokeConnector \/ FreezeRevoked \/ ReplaceConnectorCredentials
           \/ ResolveIncident
    PROVE  SafeInv'
  <1>1. UNCHANGED <<reconciled, worker, open, placed, held>>
    BY DEF RequestCommand, InsertCommand, MarkQueued, RevokeConnector, FreezeRevoked,
           ReplaceConnectorCredentials, ResolveIncident, deployment, exchange
  <1>2. status' = status \/ status' \in {"queued", "frozen"}
    BY DEF RequestCommand, InsertCommand, MarkQueued, RevokeConnector, FreezeRevoked,
           ReplaceConnectorCredentials, ResolveIncident, deployment
  <1>3. critical' = critical \/ ~critical'
    BY DEF RequestCommand, InsertCommand, MarkQueued, RevokeConnector, FreezeRevoked,
           ReplaceConnectorCredentials, ResolveIncident
  <1>4. QED
    BY <1>1, <1>2, <1>3
       DEF SafeInv, FrozenInv, FreezeHolds, ReconciledInv, ActiveReconciled, DecisionInv

\* The worker activates only what it reconciled, and lifts a freeze when it does.
LEMMA WorkerKeepsSafe ==
    ASSUME TypeInv, SafeInv, WorkerStep \/ Crash PROVE SafeInv'
  <1> USE DEF deployment, connection, intake, exchange, At
  <1>t. worker \in Locals
    BY DEF TypeInv, TypeOK
  <1>q. ASSUME UNCHANGED <<reconciled, held, open>>,
               status' = status \/ status' # "active",
               worker'.copy \in {"draft", "starting"},
               worker'.pc \notin {"activate", "submit", "frozen"}
        PROVE  SafeInv'
    BY <1>q DEF SafeInv, FrozenInv, FreezeHolds, ReconciledInv, ActiveReconciled, DecisionInv
  <1>1. ASSUME UpdateConnectorDoctor \/ PollEnds \/ PollFails \/ CompleteCommand
               \/ ReportFailure \/ Crash
        PROVE  SafeInv'
    BY <1>1, <1>q, IdleType
       DEF UpdateConnectorDoctor, PollEnds, PollFails, CompleteCommand, ReportFailure, Crash
  <1>2. ASSUME NEW pc \in Pcs \ {"activate", "submit", "frozen"}, Goto(pc),
               UNCHANGED <<reconciled, held, open>>,
               status' = status \/ status' # "active"
        PROVE  SafeInv'
    BY <1>2, <1>q, GotoType
  <1>3. ASSUME StartDoctor \/ SnapshotFails \/ SetStatus \/ SetStopped \/ Block \/ OpenIncident
               \/ StepFails \/ FreezeFailed \/ FailCommand
        PROVE  SafeInv'
    BY <1>3, <1>2 DEF StartDoctor, SnapshotFails, SetStatus, SetStopped, Block, OpenIncident,
                      StepFails, FreezeFailed, FailCommand, Pcs
  <1>4. ASSUME ClaimCommand PROVE SafeInv'
    <2>1. Head(queue) \in Commands
      BY <1>4 DEF ClaimCommand, TypeInv, TypeOK
    <2>2. FirstStep(Head(queue)[1]) \notin {"activate", "submit", "frozen"}
      BY <2>1, CommandTypes DEF FirstStep, Types, Freezes
    <2>3. /\ worker'.pc = FirstStep(Head(queue)[1])
          /\ worker'.copy = status \/ worker'.copy = "draft"
      BY <1>4 DEF ClaimCommand, Claimed
    <2>4. QED
      BY <1>4, <2>2, <2>3
         DEF ClaimCommand, SafeInv, FrozenInv, FreezeHolds, ReconciledInv, ActiveReconciled,
             DecisionInv
  <1>5. ASSUME PollDeployment PROVE SafeInv'
    BY <1>5 DEF PollDeployment, SafeInv, FrozenInv, FreezeHolds, ReconciledInv,
                ActiveReconciled, DecisionInv
  <1>6. ASSUME SetStarting PROVE SafeInv'
    <2>1. worker'.pc = "snapshot" /\ worker'.copy = "starting"
      BY <1>t, <1>6 DEF SetStarting, Locals
    <2>2. QED
      BY <1>6, <2>1, <1>q DEF SetStarting
  <1>7. ASSUME WriteSnapshot PROVE SafeInv'
    <2>1. AfterSnapshot = "activate" => reconciled'
      BY <1>7, AfterSnapshotTypes DEF WriteSnapshot
    <2>2. worker'.pc = AfterSnapshot /\ worker'.copy = "draft" /\ AfterSnapshot \notin {"submit", "frozen"}
      BY <1>7, AfterSnapshotTypes, GotoType DEF WriteSnapshot, Pcs
    <2>3. status' = worker.copy /\ UNCHANGED <<held, open>> /\ (reconciled => reconciled')
      BY <1>7 DEF WriteSnapshot
    <2>4. QED
      BY <2>1, <2>2, <2>3
         DEF SafeInv, FrozenInv, FreezeHolds, ReconciledInv, ActiveReconciled, DecisionInv
  <1>8. ASSUME Activate PROVE SafeInv'
    <2>1. worker'.pc = "complete" /\ worker'.copy = "draft"
      BY <1>8, GotoType DEF Activate, Pcs
    <2>2. QED
      BY <1>8, <2>1 DEF Activate, SafeInv, FrozenInv, FreezeHolds, ReconciledInv,
                        ActiveReconciled, DecisionInv
  <1>9. ASSUME Authorize PROVE SafeInv'
    <2>1. PICK limits \in BOOLEAN, unsafe \in BOOLEAN :
            LET freezing == unsafe \/ connector # "healthy" \/ critical
                inactive == status # "active" /\ worker.cmd \notin ReduceOrders
                refused  == limits \/ freezing \/ ~reconciled \/ inactive
            IN  Goto(IF ~refused THEN "submit" ELSE IF freezing THEN "block" ELSE "complete")
      BY <1>9 DEF Authorize
    <2>2. PICK pc \in {"submit", "block", "complete"} :
            /\ Goto(pc)
            /\ pc = "submit" => ~critical /\ (status = "active" \/ worker.cmd \in ReduceOrders)
      BY <2>1
    <2>3. worker'.pc = pc /\ worker'.cmd = worker.cmd /\ worker'.copy = "draft"
      BY <2>2, GotoType DEF Pcs
    <2>4. UNCHANGED <<status, reconciled, critical, open, held>>
      BY <1>9 DEF Authorize
    <2>5. QED
      BY <2>2, <2>3, <2>4
         DEF SafeInv, FrozenInv, FreezeHolds, ReconciledInv, ActiveReconciled, DecisionInv
  <1>10. ASSUME SubmitOrder PROVE SafeInv'
    <2>1. worker'.pc = "complete" /\ worker'.copy = "draft"
      BY <1>10, GotoType DEF SubmitOrder, Pcs
    <2>2. QED
      BY <1>10, <2>1 DEF SubmitOrder, SafeInv, FrozenInv, FreezeHolds, ReconciledInv,
                         ActiveReconciled, DecisionInv
  <1>11. ASSUME CancelOrder PROVE SafeInv'
    BY <1>11 DEF CancelOrder, SafeInv, FrozenInv, FreezeHolds, ReconciledInv,
                 ActiveReconciled, DecisionInv
  <1>12. ASSUME EmergencyFreeze PROVE SafeInv'
    <2>1. worker'.pc = "frozen" /\ worker'.copy = "draft"
      BY <1>12, GotoType DEF EmergencyFreeze, Pcs
    <2>2. QED
      BY <1>12, <2>1 DEF EmergencyFreeze, SafeInv, FrozenInv, FreezeHolds, ReconciledInv,
                         ActiveReconciled, DecisionInv
  <1>13. ASSUME WriteFrozen PROVE SafeInv'
    <2>1. worker'.pc = "snapshot" /\ worker'.copy = "frozen"
      BY <1>t, <1>13 DEF WriteFrozen, Locals
    <2>2. QED
      BY <1>13, <2>1 DEF WriteFrozen, SafeInv, FrozenInv, FreezeHolds, ReconciledInv,
                         ActiveReconciled, DecisionInv
  <1>14. QED
    BY <1>1, <1>3, <1>4, <1>5, <1>6, <1>7, <1>8, <1>9, <1>10, <1>11, <1>12, <1>13 DEF WorkerStep

\* The three invariants hold together; the theorems below read them off.
LEMMA SafeInvariance == Spec => []SafeInv
  <1>1. TypeInv /\ SafeInv /\ [Next]_vars => SafeInv'
    <2> SUFFICES ASSUME TypeInv, SafeInv, [Next]_vars PROVE SafeInv'
      OBVIOUS
    <2>1. CASE Next
      BY <2>1, UsersKeepSafe, WorkerKeepsSafe DEF Next
    <2>2. CASE UNCHANGED vars
      BY <2>2 DEF vars, SafeInv, FrozenInv, FreezeHolds, ReconciledInv, ActiveReconciled,
                  DecisionInv
    <2>3. QED
      BY <2>1, <2>2
  <1>2. QED
    BY <1>1, InitSafeInv, TypeInvariance, PTL DEF Spec

\* After an emergency freeze or a drill nothing but an order that reduces a position
\* reaches the exchange until the deployment is started or resumed.
THEOREM FreezeKept == Spec => []FreezeHolds
  <1>1. SafeInv => FreezeHolds
    BY DEF SafeInv, FrozenInv
  <1>2. QED
    BY <1>1, SafeInvariance, PTL

\* An active deployment was reconciled with the exchange.
THEOREM ActiveIsReconciled == Spec => []ActiveReconciled
  <1>1. SafeInv => ActiveReconciled
    BY DEF SafeInv, ReconciledInv
  <1>2. QED
    BY <1>1, SafeInvariance, PTL

\* No order reaches the exchange while a critical incident is open.
THEOREM IncidentsBlockOrders == Spec => CriticalBlocksOrders
  <1>1. SafeInv /\ [Next]_vars => [placed' # placed => ~critical]_vars
    <2> SUFFICES ASSUME SafeInv, Next, placed' # placed PROVE ~critical
      BY DEF vars
    <2>1. SubmitOrder
      BY DEF Next, WorkerStep, RequestCommand, InsertCommand, MarkQueued, RevokeConnector,
             FreezeRevoked, ReplaceConnectorCredentials, ResolveIncident, StartDoctor,
             UpdateConnectorDoctor, ClaimCommand, PollDeployment, SetStarting, WriteSnapshot,
             SnapshotFails, Activate, SetStatus, SetStopped, PollEnds, PollFails, Authorize,
             Block, CancelOrder, EmergencyFreeze, WriteFrozen, OpenIncident, CompleteCommand,
             StepFails, FreezeFailed, FailCommand, ReportFailure, Crash, exchange
    <2>2. QED
      BY <2>1 DEF SubmitOrder, At, SafeInv, DecisionInv
  <1>2. QED
    BY <1>1, SafeInvariance, PTL DEF Spec, CriticalBlocksOrders
=============================================================================

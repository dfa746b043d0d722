-------------------------- MODULE ExportQueueProofs --------------------------
(***************************************************************************)
(* Theorems about ExportQueue, for every number of exports, workers and    *)
(* handlers, every assignment of keys to exports and runs of any length,   *)
(* unless a theorem says otherwise.                                        *)
(***************************************************************************)
EXTENDS ExportQueue, TLAPS

-----------------------------------------------------------------------------
(* Rows and locals.                                                        *)

\* A charged budget stays within its cap.
LEMMA BumpType == \A n \in 0..RetryBudget : Bump(n) \in 0..RetryBudget
BY BudgetAssumption DEF Bump

\* A busy process works on an export.
Placed == \A p \in Processes : proc[p].pc # "idle" => proc[p].on \in Exports

TypeInv == TypeOK /\ Placed

\* Workers and handlers are processes.
LEMMA ProcessTypes == Workers \subseteq Processes /\ Handlers \subseteq Processes
BY DEF Processes

\* Idle locals are well typed.
LEMMA IdleType == Idle \in Locals
<1>1. 0 \in 0..RetryBudget
  BY BudgetAssumption
<1>2. QED
  BY <1>1 DEF Idle, Locals

\* So are the absent job and the one a request saves.
LEMMA NoJobType == NoJob \in Job /\ [NoJob EXCEPT !.status = "queued", !.available = TRUE] \in Job
<1>1. 0 \in 0..RetryBudget
  BY BudgetAssumption
<1>2. QED
  BY <1>1 DEF NoJob, Job

\* Going to another step keeps the locals well typed and the process placed.
LEMMA GotoType ==
    ASSUME TypeInv, NEW p \in Processes, proc[p].pc # "idle",
           NEW pc \in WorkerPcs \cup HandlerPcs, Goto(p, pc)
    PROVE  proc' \in [Processes -> Locals] /\ Placed'
<1>1. proc \in [Processes -> Locals] /\ proc[p] \in Locals /\ proc[p].on \in Exports
  BY DEF TypeInv, TypeOK, Placed
<1> DEFINE l == [proc[p] EXCEPT !.pc = pc, !.rec = NoRow, !.row = NoRow]
<1>2. l \in Locals /\ l.on = proc[p].on
  BY <1>1 DEF Locals
<1>3. proc' = [proc EXCEPT ![p] = l]
  BY DEF Goto
<1> HIDE DEF l
<1>4. proc' \in [Processes -> Locals]
  BY <1>1, <1>2, <1>3
<1>5. ASSUME NEW q \in Processes, proc'[q].pc # "idle" PROVE proc'[q].on \in Exports
  BY <1>1, <1>2, <1>3, <1>5 DEF TypeInv, Placed
<1>6. QED
  BY <1>4, <1>5 DEF Placed

\* A process that ends is idle and well typed.
LEMMA ReturnType ==
    ASSUME TypeInv, NEW p \in Processes, Return(p)
    PROVE  proc' \in [Processes -> Locals] /\ Placed'
<1>1. proc \in [Processes -> Locals] /\ proc' = [proc EXCEPT ![p] = Idle]
  BY DEF TypeInv, TypeOK, Return
<1>2. proc' \in [Processes -> Locals]
  BY <1>1, IdleType
<1>3. ASSUME NEW q \in Processes, proc'[q].pc # "idle" PROVE proc'[q].on \in Exports
  BY <1>1, <1>3 DEF Idle, TypeInv, Placed
<1>4. QED
  BY <1>2, <1>3 DEF Placed

\* The row and the record that an update works on are well typed.
LEMMA ReadTypes ==
    ASSUME TypeInv, NEW p \in Processes, NEW pc, pc # "idle", At(p, pc)
    PROVE  /\ proc[p].on \in Exports
           /\ pc \in JobUpdates => Row(p) \in Job
           /\ pc \in RecordUpdates /\ Exists(proc[p].on) => Rec(p) \in Record
<1>1. proc[p] \in Locals /\ proc[p].on \in Exports /\ proc[p].pc = pc
  BY DEF TypeInv, TypeOK, Placed, At
<1>2. job[proc[p].on] \in Job /\ record[proc[p].on] \in Record
  BY <1>1 DEF TypeInv, TypeOK
<1>3. ASSUME pc \in JobUpdates PROVE Row(p) \in Job
  BY <1>1, <1>2, <1>3 DEF Row, At, Locals
<1>4. ASSUME pc \in RecordUpdates, Exists(proc[p].on) PROVE Rec(p) \in Record
  BY <1>1, <1>2, <1>4 DEF Rec, At, Locals
<1>5. QED
  BY <1>1, <1>3, <1>4

\* Writing a job row keeps the table of jobs.
LEMMA WriteRowType ==
    ASSUME TypeInv, NEW p \in Processes, NEW r \in Job, WriteRow(p, r)
    PROVE  job' \in [Exports -> Job]
BY DEF WriteRow, TypeInv, TypeOK

\* Writing a status keeps the table of exports.
LEMMA WriteStatusType ==
    ASSUME TypeInv, NEW p \in Processes, NEW s \in {"queued", "processing", "failed"},
           Exists(proc[p].on) => Rec(p) \in Record, WriteStatus(p, s)
    PROVE  /\ record' \in [Exports -> Record]
           /\ \A e \in Exports : record'[e].status = "completed" => record[e].status = "completed"
<1>1. record \in [Exports -> Record]
  BY DEF TypeInv, TypeOK
<1>2. CASE Exists(proc[p].on)
  <2> DEFINE r == [Rec(p) EXCEPT !.status = s]
  <2>1. r \in Record /\ r.status # "completed"
    BY <1>2 DEF Record
  <2>2. record' = [record EXCEPT ![proc[p].on] = r]
    BY <1>2 DEF WriteStatus
  <2> HIDE DEF r
  <2>3. QED
    BY <1>1, <2>1, <2>2
<1>3. CASE ~Exists(proc[p].on)
  BY <1>1, <1>3 DEF WriteStatus
<1>4. QED
  BY <1>2, <1>3
-----------------------------------------------------------------------------
(* Type correctness.                                                       *)

\* The empty tables are of their types.
LEMMA TypeInit == Init => TypeInv
<1> SUFFICES ASSUME Init PROVE TypeInv
  OBVIOUS
<1>1. proc = [p \in Processes |-> Idle] /\ Placed
  BY DEF Init, Placed, Idle
<1>2. 0 \in 0..MaxRetries /\ 0 \in 0..MaxCrashes
  BY BoundsAssumption
<1>3. QED
  BY <1>1, <1>2, IdleType, NoJobType DEF Init, TypeInv, TypeOK, Record

\* Every step keeps the types and gives busy processes an export.
LEMMA TypeStep == TypeInv /\ [Next]_vars => TypeInv'
<1> SUFFICES ASSUME TypeInv, [Next]_vars PROVE TypeInv'
  OBVIOUS
<1> USE DEF TypeInv
<1>t. /\ record \in [Exports -> Record]
      /\ job \in [Exports -> Job]
      /\ expired \in [Exports -> BOOLEAN]
      /\ objects \in SUBSET Keys
      /\ proc \in [Processes -> Locals]
      /\ sweep \in [Exports -> {"done", "object", "last", "row"}]
      /\ retried \in 0..MaxRetries
      /\ crashes \in 0..MaxCrashes
      /\ Placed
  BY DEF TypeOK
<1>p. Workers \subseteq Processes /\ Handlers \subseteq Processes
  BY ProcessTypes
<1>1. ASSUME NEW h \in Handlers, NEW e \in Exports, RequestExport(h, e) PROVE TypeInv'
  <2>1. record' \in [Exports -> Record]
    BY <1>1, <1>t DEF RequestExport, Record
  <2>2. [proc[h] EXCEPT !.pc = "save_job", !.on = e] \in Locals
    BY <1>t, <1>p DEF Locals, HandlerPcs
  <2>3. proc' = [proc EXCEPT ![h] = [proc[h] EXCEPT !.pc = "save_job", !.on = e]]
    BY <1>1 DEF RequestExport
  <2>4. proc' \in [Processes -> Locals] /\ proc'[h].on = e
    BY <1>t, <1>p, <2>2, <2>3 DEF Locals
  <2>5. Placed'
    BY <1>t, <1>p, <2>3, <2>4 DEF Placed
  <2>6. QED
    BY <1>1, <1>t, <2>1, <2>4, <2>5 DEF RequestExport, TypeOK
<1>2. ASSUME NEW h \in Handlers, NEW e \in Exports, RetryExport(h, e) PROVE TypeInv'
  <2> DEFINE n == Bump(job[e].retries)
  <2>1. n \in 0..RetryBudget
    BY <1>t, BumpType DEF Job
  <2> HIDE DEF n
  <2>2. [proc[h] EXCEPT !.pc = "check", !.on = e, !.count = n] \in Locals
    BY ZenonT(30), <1>t, <1>p, <2>1 DEF Locals, HandlerPcs
  <2>3. proc' = [proc EXCEPT ![h] = [proc[h] EXCEPT !.pc = "check", !.on = e, !.count = n]]
    BY <1>2 DEF RetryExport, n
  <2>4. proc' \in [Processes -> Locals] /\ proc'[h].on = e
    BY <1>t, <1>p, <2>2, <2>3 DEF Locals
  <2>5. Placed'
    BY <1>t, <1>p, <2>3, <2>4 DEF Placed
  <2>6. retried' \in 0..MaxRetries
    BY <1>2, <1>t, BoundsAssumption DEF RetryExport
  <2>7. QED
    BY <1>2, <1>t, <2>4, <2>5, <2>6 DEF RetryExport, TypeOK
<1>3. ASSUME NEW h \in Handlers, SaveJob(h) PROVE TypeInv'
  <2>1. job' \in [Exports -> Job]
    BY <1>3, <1>t, NoJobType DEF SaveJob
  <2>2. proc' \in [Processes -> Locals] /\ Placed'
    BY <1>3, <1>t, <1>p, GotoType DEF SaveJob, At, HandlerPcs
  <2>3. QED
    BY <1>3, <1>t, <2>1, <2>2 DEF SaveJob, TypeOK
<1>4. ASSUME NEW h \in Handlers, Enqueue(h) PROVE TypeInv'
  <2> DEFINE r == [Row(h) EXCEPT !.status = "queued", !.available = TRUE]
  <2>1. r \in Job
    BY <1>4, <1>p, ReadTypes DEF Enqueue, JobUpdates, Job
  <2> HIDE DEF r
  <2>2. job' \in [Exports -> Job]
    BY <1>4, <1>p, <2>1, WriteRowType DEF Enqueue, r
  <2>3. proc' \in [Processes -> Locals] /\ Placed'
    BY <1>4, <1>t, <1>p, ReturnType DEF Enqueue
  <2>4. QED
    BY <1>4, <1>t, <2>2, <2>3 DEF Enqueue, TypeOK
<1>5. ASSUME NEW h \in Handlers, Check(h) PROVE TypeInv'
  <2>1. proc' \in [Processes -> Locals] /\ Placed'
    BY <1>5, <1>t, <1>p, GotoType, ReturnType DEF Check, At, HandlerPcs
  <2>2. QED
    BY <1>5, <1>t, <2>1 DEF Check, TypeOK
<1>6. ASSUME NEW h \in Handlers, Reopen(h) PROVE TypeInv'
  <2>1. record' \in [Exports -> Record]
    BY <1>6, <1>p, ReadTypes, WriteStatusType DEF Reopen, RecordUpdates
  <2>2. proc' \in [Processes -> Locals] /\ Placed'
    BY <1>6, <1>t, <1>p, GotoType DEF Reopen, At, HandlerPcs
  <2>3. QED
    BY <1>6, <1>t, <2>1, <2>2 DEF Reopen, TypeOK
<1>7. ASSUME NEW h \in Handlers, Requeue(h) PROVE TypeInv'
  <2>1. proc[h].count \in 0..RetryBudget
    BY <1>t, <1>p DEF Locals
  <2>2. RetriedRow(Row(h), proc[h].count) \in Job
    BY <1>7, <1>p, <2>1, ReadTypes DEF Requeue, JobUpdates, Job, RetriedRow
  <2>3. job' \in [Exports -> Job]
    BY <1>7, <1>p, <2>2, WriteRowType DEF Requeue
  <2>4. proc' \in [Processes -> Locals] /\ Placed'
    BY <1>7, <1>t, <1>p, ReturnType DEF Requeue
  <2>5. QED
    BY <1>7, <1>t, <2>3, <2>4 DEF Requeue, TypeOK
<1>8. ASSUME NEW h \in Handlers, RegenerateRecord(h) PROVE TypeInv'
  <2>1. record' \in [Exports -> Record]
    BY <1>8, <1>t DEF RegenerateRecord, Record
  <2>2. proc' \in [Processes -> Locals] /\ Placed'
    BY <1>8, <1>t, <1>p, GotoType, ReturnType DEF RegenerateRecord, HandlerPcs
  <2>3. QED
    BY <1>8, <1>t, <2>1, <2>2 DEF RegenerateRecord, TypeOK
<1>9. ASSUME NEW h \in Handlers, RegenerateJob(h) PROVE TypeInv'
  <2>1. proc[h].count \in 0..RetryBudget /\ proc[h].on \in Exports
    BY <1>9, <1>t, <1>p DEF Locals, RegenerateJob, Placed
  <2>2. RetriedRow(job[proc[h].on], proc[h].count) \in Job
    BY ZenonT(30), <1>t, <2>1 DEF Job, RetriedRow
  <2>3. job' \in [Exports -> Job]
    BY <1>9, <1>p, <2>2, WriteRowType DEF RegenerateJob
  <2>4. proc' \in [Processes -> Locals] /\ Placed'
    BY <1>9, <1>t, <1>p, GotoType, ReturnType DEF RegenerateJob, HandlerPcs
  <2>5. QED
    BY <1>9, <1>t, <2>3, <2>4 DEF RegenerateJob, TypeOK
<1>10. ASSUME NEW w \in Workers, NEW e \in Exports, Claim(w, e) PROVE TypeInv'
  <2>1. job' \in [Exports -> Job]
    BY ZenonT(30), <1>10, <1>t DEF Claim, Job
  <2>2. [proc[w] EXCEPT !.pc = "load", !.on = e] \in Locals
    BY ZenonT(30), <1>t, <1>p DEF Locals, WorkerPcs
  <2>3. proc' = [proc EXCEPT ![w] = [proc[w] EXCEPT !.pc = "load", !.on = e]]
    BY <1>10 DEF Claim
  <2>4. proc' \in [Processes -> Locals] /\ proc'[w].on = e
    BY <1>t, <1>p, <2>2, <2>3 DEF Locals
  <2>5. Placed'
    BY <1>t, <1>p, <2>3, <2>4 DEF Placed
  <2>6. QED
    BY <1>10, <1>t, <2>1, <2>4, <2>5 DEF Claim, TypeOK
<1>11. ASSUME NEW w \in Workers, Load(w) PROVE TypeInv'
  <2>1. proc' \in [Processes -> Locals] /\ Placed'
    BY <1>11, <1>t, <1>p, GotoType, ReturnType DEF Load, At, WorkerPcs
  <2>2. QED
    BY <1>11, <1>t, <2>1 DEF Load, TypeOK
<1>12. ASSUME NEW w \in Workers, Begin(w) PROVE TypeInv'
  <2>1. record' \in [Exports -> Record]
    BY <1>12, <1>p, ReadTypes, WriteStatusType DEF Begin, RecordUpdates
  <2>2. proc' \in [Processes -> Locals] /\ Placed'
    BY <1>12, <1>t, <1>p, GotoType DEF Begin, At, WorkerPcs
  <2>3. QED
    BY <1>12, <1>t, <2>1, <2>2 DEF Begin, TypeOK
<1>13. ASSUME NEW w \in Workers, Render(w) PROVE TypeInv'
  <2>1. job' \in [Exports -> Job]
    BY <1>13, <1>p, ReadTypes, WriteRowType DEF Render, JobUpdates
  <2>2. proc' \in [Processes -> Locals] /\ Placed'
    BY <1>13, <1>t, <1>p, GotoType DEF Render, At, WorkerPcs
  <2>3. QED
    BY <1>13, <1>t, <2>1, <2>2 DEF Render, TypeOK
<1>14. ASSUME NEW w \in Workers, Persist(w) PROVE TypeInv'
  <2>1. job' \in [Exports -> Job]
    BY <1>14, <1>p, ReadTypes, WriteRowType DEF Persist, JobUpdates
  <2>2. proc' \in [Processes -> Locals] /\ Placed'
    BY <1>14, <1>t, <1>p, GotoType DEF Persist, At, WorkerPcs
  <2>3. QED
    BY <1>14, <1>t, <2>1, <2>2 DEF Persist, TypeOK
<1>15. ASSUME NEW w \in Workers, PutObject(w) PROVE TypeInv'
  <2>1. proc' \in [Processes -> Locals] /\ Placed'
    BY <1>15, <1>t, <1>p, GotoType DEF PutObject, At, WorkerPcs
  <2>2. KeyOf[proc[w].on] \in Keys
    BY <1>15, <1>t, <1>p, KeyAssumption DEF PutObject, At, Placed
  <2>3. QED
    BY <1>15, <1>t, <2>1, <2>2 DEF PutObject, TypeOK
<1>16. ASSUME NEW w \in Workers, CompleteRecord(w) PROVE TypeInv'
  <2>1. record' \in [Exports -> Record]
    BY <1>16, <1>t DEF CompleteRecord, Record
  <2>2. proc' \in [Processes -> Locals] /\ Placed'
    BY <1>16, <1>t, <1>p, GotoType DEF CompleteRecord, At, WorkerPcs
  <2>3. QED
    BY <1>16, <1>t, <2>1, <2>2 DEF CompleteRecord, TypeOK
<1>17. ASSUME NEW w \in Workers, CompleteJob(w) PROVE TypeInv'
  <2> DEFINE r == [Row(w) EXCEPT !.status = "completed"]
  <2>1. r \in Job
    BY <1>17, <1>p, ReadTypes DEF CompleteJob, JobUpdates, Job
  <2> HIDE DEF r
  <2>2. job' \in [Exports -> Job]
    BY <1>17, <1>p, <2>1, WriteRowType DEF CompleteJob, r
  <2>3. proc' \in [Processes -> Locals] /\ Placed'
    BY <1>17, <1>t, <1>p, GotoType DEF CompleteJob, At, WorkerPcs
  <2>4. QED
    BY <1>17, <1>t, <2>2, <2>3 DEF CompleteJob, TypeOK
<1>18. ASSUME NEW w \in Workers, RecordEvent(w) PROVE TypeInv'
  <2>1. proc' \in [Processes -> Locals] /\ Placed'
    BY <1>18, <1>p, ReturnType DEF RecordEvent
  <2>2. QED
    BY <1>18, <1>t, <2>1 DEF RecordEvent, TypeOK
<1>19. ASSUME NEW w \in Workers, RunFails(w) PROVE TypeInv'
  <2>1. proc' \in [Processes -> Locals] /\ Placed'
    BY <1>19, <1>p, GotoType DEF RunFails, WorkerPcs
  <2>2. QED
    BY <1>19, <1>t, <2>1 DEF RunFails, TypeOK
<1>20. ASSUME NEW w \in Workers, FailRecord(w) PROVE TypeInv'
  <2>1. record' \in [Exports -> Record]
    BY <1>20, <1>p, ReadTypes, WriteStatusType DEF FailRecord, RecordUpdates
  <2>2. proc' \in [Processes -> Locals] /\ Placed'
    BY <1>20, <1>t, <1>p, GotoType DEF FailRecord, At, WorkerPcs
  <2>3. QED
    BY <1>20, <1>t, <2>1, <2>2 DEF FailRecord, TypeOK
<1>21. ASSUME NEW w \in Workers, FailJob(w) PROVE TypeInv'
  <2> DEFINE r == [Row(w) EXCEPT !.status = "failed", !.old = FALSE]
  <2>1. r \in Job
    BY <1>21, <1>p, ReadTypes DEF FailJob, JobUpdates, Job
  <2> HIDE DEF r
  <2>2. job' \in [Exports -> Job]
    BY <1>21, <1>p, <2>1, WriteRowType DEF FailJob, r
  <2>3. proc' \in [Processes -> Locals] /\ Placed'
    BY <1>21, <1>p, ReturnType DEF FailJob
  <2>4. QED
    BY <1>21, <1>t, <2>2, <2>3 DEF FailJob, TypeOK
<1>22. ASSUME NEW p \in Processes, Read(p) PROVE TypeInv'
  <2>1. PICK l \in Locals : proc' = [proc EXCEPT ![p] = l] /\ l.on = proc[p].on /\ proc[p].pc # "idle"
    <3>1. CASE proc[p].pc \in JobUpdates /\ proc' = [proc EXCEPT ![p].row = job[proc[p].on]]
      <4>1. [proc[p] EXCEPT !.row = job[proc[p].on]] \in Locals
        BY <1>t, <3>1 DEF Placed, JobUpdates, Locals
      <4>2. QED
        BY <1>t, <3>1, <4>1 DEF JobUpdates, Locals
    <3>2. CASE proc[p].pc \in RecordUpdates /\ proc' = [proc EXCEPT ![p].rec = record[proc[p].on]]
      <4>1. [proc[p] EXCEPT !.rec = record[proc[p].on]] \in Locals
        BY <1>t, <3>2 DEF Placed, RecordUpdates, Locals
      <4>2. QED
        BY <1>t, <3>2, <4>1 DEF RecordUpdates, Locals
    <3>3. QED
      BY <1>22, <3>1, <3>2 DEF Read
  <2>2. proc' \in [Processes -> Locals] /\ Placed'
    BY <1>t, <2>1 DEF Placed
  <2>3. QED
    BY <1>22, <1>t, <2>2 DEF Read, TypeOK
<1>23. ASSUME NEW p \in Processes, Crash(p) PROVE TypeInv'
  <2>1. proc' \in [Processes -> Locals] /\ Placed'
    BY <1>23, ReturnType DEF Crash
  <2>2. crashes' \in 0..MaxCrashes
    BY <1>23, <1>t, BoundsAssumption DEF Crash
  <2>3. QED
    BY <1>23, <1>t, <2>1, <2>2 DEF Crash, TypeOK
<1>24. ASSUME ListExpired PROVE TypeInv'
  BY <1>24, <1>t DEF ListExpired, TypeOK, Placed
<1>25. ASSUME AbortSweep PROVE TypeInv'
  <2>1. crashes' \in 0..MaxCrashes
    BY <1>25, <1>t, BoundsAssumption DEF AbortSweep
  <2>2. QED
    BY <1>25, <1>t, <2>1 DEF AbortSweep, TypeOK, Placed
<1>26. ASSUME NEW e \in Exports, DeleteObject(e) PROVE TypeInv'
  BY <1>26, <1>t DEF DeleteObject, TypeOK, Placed
<1>27. ASSUME NEW e \in Exports, DeleteRecord(e) PROVE TypeInv'
  BY <1>27, <1>t DEF DeleteRecord, TypeOK, Placed, Record
<1>28. ASSUME RecoverStaleProcessingJobs PROVE TypeInv'
  <2>1. ASSUME NEW e \in Exports
        PROVE  [job[e] EXCEPT !.status = "queued", !.available = TRUE, !.retries = Bump(@)] \in Job
    <3> DEFINE n == Bump(job[e].retries)
    <3>1. n \in 0..RetryBudget
      BY <1>t, BumpType DEF Job
    <3> HIDE DEF n
    <3>2. [job[e] EXCEPT !.status = "queued", !.available = TRUE, !.retries = n] \in Job
      BY <1>t, <3>1 DEF Job
    <3>3. QED
      BY <3>2 DEF n
  <2>2. job' \in [Exports -> Job]
    BY <1>28, <1>t, <2>1 DEF RecoverStaleProcessingJobs
  <2>3. QED
    BY <1>28, <1>t, <2>2 DEF RecoverStaleProcessingJobs, TypeOK, Placed
<1>29. ASSUME CleanupStaleFailedJobs PROVE TypeInv'
  <2>1. job' \in [Exports -> Job]
    BY <1>29, <1>t, NoJobType DEF CleanupStaleFailedJobs
  <2>2. QED
    BY <1>29, <1>t, <2>1 DEF CleanupStaleFailedJobs, TypeOK, Placed
<1>30. ASSUME NEW e \in Exports, Age(e) PROVE TypeInv'
  <2>1. job' \in [Exports -> Job]
    <3> DEFINE r == [job[e] EXCEPT !.old = TRUE]
    <3>1. job' = [job EXCEPT ![e] = r]
      BY <1>30 DEF Age
    <3>2. r \in Job
      BY <1>t DEF Job
    <3> HIDE DEF r
    <3>3. QED
      BY <1>t, <3>1, <3>2
  <2>2. ASSUME NEW p \in Processes
        PROVE  proc'[p] \in Locals /\ proc'[p].pc = proc[p].pc /\ proc'[p].on = proc[p].on
    <3>1. CASE proc[p].on = e /\ proc[p].row # NoRow
      <4>1. proc'[p] = [proc[p] EXCEPT !.row = [proc[p].row EXCEPT !.old = TRUE]]
        BY <1>30, <1>t, <3>1 DEF Age
      <4>2. proc[p] \in Locals /\ proc[p].row \in Job
        BY <1>t, <3>1 DEF Locals
      <4>3. [proc[p].row EXCEPT !.old = TRUE] \in Job
        BY <4>2 DEF Job
      <4>4. QED
        BY <4>1, <4>2, <4>3 DEF Locals
    <3>2. CASE ~(proc[p].on = e /\ proc[p].row # NoRow)
      BY <1>30, <1>t, <3>2 DEF Age
    <3>3. QED
      BY <3>1, <3>2
  <2>3. proc' = [p \in Processes |-> proc'[p]]
    BY <1>30 DEF Age
  <2>4. proc' \in [Processes -> Locals] /\ Placed'
    BY <1>t, <2>2, <2>3 DEF Placed
  <2>5. QED
    BY <1>30, <1>t, <2>1, <2>4 DEF Age, TypeOK
<1>31. ASSUME NEW e \in Exports, BackoffElapses(e) PROVE TypeInv'
  BY <1>31, <1>t DEF BackoffElapses, TypeOK, Placed, Job
<1>32. ASSUME NEW e \in Exports, Expire(e) PROVE TypeInv'
  BY <1>32, <1>t DEF Expire, TypeOK, Placed
<1>33. ASSUME UNCHANGED vars PROVE TypeInv'
  BY <1>33, <1>t DEF vars, TypeOK, Placed
<1>34. QED
  BY <1>1, <1>2, <1>3, <1>4, <1>5, <1>6, <1>7, <1>8, <1>9, <1>10, <1>11, <1>12, <1>13, <1>14,
     <1>15, <1>16, <1>17, <1>18, <1>19, <1>20, <1>21, <1>22, <1>23, <1>24, <1>25, <1>26, <1>27,
     <1>28, <1>29, <1>30, <1>31, <1>32, <1>33
     DEF Next, HandlerStep, WorkerStep

\* Every reachable state is type correct.
THEOREM TypeCorrect == Spec => []TypeOK
<1>1. Init => TypeInv
  BY TypeInit
<1>2. TypeInv /\ [Next]_vars => TypeInv'
  BY TypeStep
<1>3. TypeInv => TypeOK
  BY DEF TypeInv
<1>4. QED
  BY <1>1, <1>2, <1>3, PTL DEF Spec
-----------------------------------------------------------------------------
(* Downloads.                                                              *)

\* The object of an export is there, or may have been deleted with an expired
\* export that shares it.
Kept(e) == KeyOf[e] \in objects \/ \E f \in Exports : KeyOf[f] = KeyOf[e] /\ expired[f]

\* The object is there not only when the record says so, but from its store on:
\* the worker that is about to complete the record relies on it; and the sweep
\* deletes the objects of expired exports only.
DownloadInv ==
    /\ \A e \in Exports : record[e].status = "completed" => Kept(e)
    /\ \A w \in Workers : proc[w].pc = "complete_record" => Kept(proc[w].on)
    /\ \A e \in Exports : sweep[e] = "object" => expired[e]

\* Nothing is downloadable at first.
LEMMA DownloadInit == Init => DownloadInv
BY ProcessTypes DEF Init, DownloadInv, Idle

\* A step that leaves objects, expired and sweep alone, completes no record and
\* sends no worker to complete_record preserves the invariant.
LEMMA DownloadFrame ==
    ASSUME TypeInv, TypeInv', DownloadInv, UNCHANGED <<objects, expired, sweep>>,
           \A e \in Exports : record'[e].status = "completed" => record[e].status = "completed",
           \A w \in Workers : proc'[w].pc = "complete_record"
                => proc[w].pc = "complete_record" /\ proc'[w].on = proc[w].on
    PROVE  DownloadInv'
<1>1. \A e \in Exports : Kept(e) => Kept(e)'
  BY DEF Kept
<1>2. \A w \in Workers : proc[w].pc = "complete_record" => proc[w].on \in Exports
  BY ProcessTypes DEF TypeInv, Placed
<1>3. \A e \in Exports : record'[e].status = "completed" => Kept(e)'
  BY <1>1 DEF DownloadInv
<1>4. ASSUME NEW w \in Workers, proc'[w].pc = "complete_record" PROVE Kept(proc[w].on)'
  <2>1. proc[w].pc = "complete_record" /\ proc'[w].on = proc[w].on
    BY <1>4
  <2>2. Kept(proc[w].on)
    BY <2>1 DEF DownloadInv
  <2>3. QED
    BY <2>1, <2>2 DEF Kept
<1>5. \A e \in Exports : sweep'[e] = "object" => expired'[e]
  BY DEF DownloadInv
<1>6. QED
  BY <1>3, <1>4, <1>5 DEF DownloadInv

\* Going on with an export changes nothing but the step.
LEMMA GotoPc ==
    ASSUME TypeInv, NEW p \in Processes, NEW pc, Goto(p, pc) \/ Return(p), pc # "complete_record"
    PROVE  \A w \in Workers : proc'[w].pc = "complete_record"
              => proc[w].pc = "complete_record" /\ proc'[w].on = proc[w].on
<1>1. proc \in [Processes -> Locals]
  BY DEF TypeInv, TypeOK
<1>2. CASE Goto(p, pc)
  BY <1>1, <1>2, ProcessTypes DEF Goto, Locals
<1>3. CASE Return(p)
  BY <1>1, <1>3, ProcessTypes DEF Return, Idle
<1>4. QED
  BY <1>2, <1>3

\* Every step keeps the objects of the downloadable exports.
LEMMA DownloadStep == TypeInv /\ TypeInv' /\ DownloadInv /\ [Next]_vars => DownloadInv'
<1> SUFFICES ASSUME TypeInv, TypeInv', DownloadInv, [Next]_vars PROVE DownloadInv'
  OBVIOUS
<1>t. /\ record \in [Exports -> Record]
      /\ proc \in [Processes -> Locals]
      /\ sweep \in [Exports -> {"done", "object", "last", "row"}]
      /\ expired \in [Exports -> BOOLEAN]
  BY DEF TypeInv, TypeOK
<1>p. Workers \subseteq Processes /\ Handlers \subseteq Processes
  BY ProcessTypes
<1>1. ASSUME NEW h \in Handlers, NEW e \in Exports, RequestExport(h, e) PROVE DownloadInv'
  <2>1. \A f \in Exports : record'[f].status = "completed" => record[f].status = "completed"
    BY <1>1, <1>t DEF RequestExport, Record
  <2>2. \A v \in Workers : proc'[v].pc = "complete_record"
                  => proc[v].pc = "complete_record" /\ proc'[v].on = proc[v].on
    BY <1>1, <1>t, <1>p DEF RequestExport, Locals
  <2>3. QED
    BY <1>1, <2>1, <2>2, DownloadFrame DEF RequestExport
<1>2. ASSUME NEW h \in Handlers, NEW e \in Exports, RetryExport(h, e) PROVE DownloadInv'
  <2>1. \A f \in Exports : record'[f].status = "completed" => record[f].status = "completed"
    BY <1>2 DEF RetryExport
  <2>2. \A v \in Workers : proc'[v].pc = "complete_record"
                  => proc[v].pc = "complete_record" /\ proc'[v].on = proc[v].on
    BY <1>2, <1>t, <1>p DEF RetryExport, Locals
  <2>3. QED
    BY <1>2, <2>1, <2>2, DownloadFrame DEF RetryExport
<1>3. ASSUME NEW h \in Handlers, SaveJob(h) PROVE DownloadInv'
  <2>1. \A f \in Exports : record'[f].status = "completed" => record[f].status = "completed"
    BY <1>3 DEF SaveJob
  <2>2. \A v \in Workers : proc'[v].pc = "complete_record"
                  => proc[v].pc = "complete_record" /\ proc'[v].on = proc[v].on
    BY <1>3, <1>p, GotoPc DEF SaveJob
  <2>3. QED
    BY <1>3, <2>1, <2>2, DownloadFrame DEF SaveJob
<1>4. ASSUME NEW h \in Handlers, Enqueue(h) PROVE DownloadInv'
  <2>1. \A f \in Exports : record'[f].status = "completed" => record[f].status = "completed"
    BY <1>4 DEF Enqueue
  <2>2. \A v \in Workers : proc'[v].pc = "complete_record"
                  => proc[v].pc = "complete_record" /\ proc'[v].on = proc[v].on
    BY <1>4, <1>p, GotoPc DEF Enqueue
  <2>3. QED
    BY <1>4, <2>1, <2>2, DownloadFrame DEF Enqueue
<1>5. ASSUME NEW h \in Handlers, Check(h) PROVE DownloadInv'
  <2>1. \A f \in Exports : record'[f].status = "completed" => record[f].status = "completed"
    BY <1>5 DEF Check
  <2>2. \A v \in Workers : proc'[v].pc = "complete_record"
                  => proc[v].pc = "complete_record" /\ proc'[v].on = proc[v].on
    BY <1>5, <1>p, GotoPc DEF Check
  <2>3. QED
    BY <1>5, <2>1, <2>2, DownloadFrame DEF Check
<1>6. ASSUME NEW h \in Handlers, Reopen(h) PROVE DownloadInv'
  <2>1. \A f \in Exports : record'[f].status = "completed" => record[f].status = "completed"
    BY <1>6, <1>p, ReadTypes, WriteStatusType DEF Reopen, RecordUpdates
  <2>2. \A v \in Workers : proc'[v].pc = "complete_record"
                  => proc[v].pc = "complete_record" /\ proc'[v].on = proc[v].on
    BY <1>6, <1>p, GotoPc DEF Reopen
  <2>3. QED
    BY <1>6, <2>1, <2>2, DownloadFrame DEF Reopen
<1>7. ASSUME NEW h \in Handlers, Requeue(h) PROVE DownloadInv'
  <2>1. \A f \in Exports : record'[f].status = "completed" => record[f].status = "completed"
    BY <1>7 DEF Requeue
  <2>2. \A v \in Workers : proc'[v].pc = "complete_record"
                  => proc[v].pc = "complete_record" /\ proc'[v].on = proc[v].on
    BY <1>7, <1>p, GotoPc DEF Requeue
  <2>3. QED
    BY <1>7, <2>1, <2>2, DownloadFrame DEF Requeue
<1>8. ASSUME NEW h \in Handlers, RegenerateRecord(h) PROVE DownloadInv'
  <2>1. \A f \in Exports : record'[f].status = "completed" => record[f].status = "completed"
    BY <1>8, <1>t DEF RegenerateRecord, Record
  <2>2. \A v \in Workers : proc'[v].pc = "complete_record"
                  => proc[v].pc = "complete_record" /\ proc'[v].on = proc[v].on
    BY <1>8, <1>p, GotoPc DEF RegenerateRecord
  <2>3. QED
    BY <1>8, <2>1, <2>2, DownloadFrame DEF RegenerateRecord
<1>9. ASSUME NEW h \in Handlers, RegenerateJob(h) PROVE DownloadInv'
  <2>1. \A f \in Exports : record'[f].status = "completed" => record[f].status = "completed"
    BY <1>9 DEF RegenerateJob
  <2>2. \A v \in Workers : proc'[v].pc = "complete_record"
                  => proc[v].pc = "complete_record" /\ proc'[v].on = proc[v].on
    BY <1>9, <1>p, GotoPc DEF RegenerateJob
  <2>3. QED
    BY <1>9, <2>1, <2>2, DownloadFrame DEF RegenerateJob
<1>10. ASSUME NEW w \in Workers, NEW e \in Exports, Claim(w, e) PROVE DownloadInv'
  <2>1. \A f \in Exports : record'[f].status = "completed" => record[f].status = "completed"
    BY <1>10 DEF Claim
  <2>2. \A v \in Workers : proc'[v].pc = "complete_record"
                  => proc[v].pc = "complete_record" /\ proc'[v].on = proc[v].on
    BY <1>10, <1>t, <1>p DEF Claim, Locals
  <2>3. QED
    BY <1>10, <2>1, <2>2, DownloadFrame DEF Claim
<1>11. ASSUME NEW w \in Workers, Load(w) PROVE DownloadInv'
  <2>1. \A f \in Exports : record'[f].status = "completed" => record[f].status = "completed"
    BY <1>11 DEF Load
  <2>2. \A v \in Workers : proc'[v].pc = "complete_record"
                  => proc[v].pc = "complete_record" /\ proc'[v].on = proc[v].on
    BY <1>11, <1>p, GotoPc DEF Load
  <2>3. QED
    BY <1>11, <2>1, <2>2, DownloadFrame DEF Load
<1>12. ASSUME NEW w \in Workers, Begin(w) PROVE DownloadInv'
  <2>1. \A f \in Exports : record'[f].status = "completed" => record[f].status = "completed"
    BY <1>12, <1>p, ReadTypes, WriteStatusType DEF Begin, RecordUpdates
  <2>2. \A v \in Workers : proc'[v].pc = "complete_record"
                  => proc[v].pc = "complete_record" /\ proc'[v].on = proc[v].on
    BY <1>12, <1>p, GotoPc DEF Begin
  <2>3. QED
    BY <1>12, <2>1, <2>2, DownloadFrame DEF Begin
<1>13. ASSUME NEW w \in Workers, Render(w) PROVE DownloadInv'
  <2>1. \A f \in Exports : record'[f].status = "completed" => record[f].status = "completed"
    BY <1>13 DEF Render
  <2>2. \A v \in Workers : proc'[v].pc = "complete_record"
                  => proc[v].pc = "complete_record" /\ proc'[v].on = proc[v].on
    BY <1>13, <1>p, GotoPc DEF Render
  <2>3. QED
    BY <1>13, <2>1, <2>2, DownloadFrame DEF Render
<1>14. ASSUME NEW w \in Workers, Persist(w) PROVE DownloadInv'
  <2>1. \A f \in Exports : record'[f].status = "completed" => record[f].status = "completed"
    BY <1>14 DEF Persist
  <2>2. \A v \in Workers : proc'[v].pc = "complete_record"
                  => proc[v].pc = "complete_record" /\ proc'[v].on = proc[v].on
    BY <1>14, <1>p, GotoPc DEF Persist
  <2>3. QED
    BY <1>14, <2>1, <2>2, DownloadFrame DEF Persist
<1>15. ASSUME NEW w \in Workers, PutObject(w) PROVE DownloadInv'
  <2>1. \A f \in Exports : Kept(f) => Kept(f)'
    BY <1>15 DEF PutObject, Kept
  <2>2. proc'[w].on = proc[w].on /\ KeyOf[proc[w].on] \in objects'
    BY <1>15, <1>t, <1>p DEF PutObject, Goto, Locals
  <2>3. ASSUME NEW v \in Workers, proc'[v].pc = "complete_record" PROVE Kept(proc[v].on)'
    <3>1. CASE v = w
      BY <2>2, <3>1 DEF Kept
    <3>2. CASE v # w
      <4>1. proc'[v] = proc[v]
        BY <1>15, <1>t, <1>p, <3>2 DEF PutObject, Goto
      <4>2. Kept(proc[v].on) /\ proc[v].on \in Exports
        BY <1>p, <2>3, <4>1 DEF DownloadInv, TypeInv, Placed
      <4>3. Kept(proc[v].on) => KeyOf[proc[v].on] \in objects'
                \/ \E f \in Exports : KeyOf[f] = KeyOf[proc[v].on] /\ expired'[f]
        BY <1>15 DEF PutObject, Kept
      <4>4. QED
        BY <4>1, <4>2, <4>3 DEF Kept
    <3>3. QED
      BY <3>1, <3>2
  <2>4. QED
    BY <1>15, <2>1, <2>3 DEF PutObject, DownloadInv
<1>16. ASSUME NEW w \in Workers, CompleteRecord(w) PROVE DownloadInv'
  <2>1. \A f \in Exports : Kept(f) => Kept(f)'
    BY <1>16 DEF CompleteRecord, Kept
  <2>2. proc[w].on \in Exports /\ Kept(proc[w].on)
    BY <1>16, <1>p DEF CompleteRecord, At, TypeInv, Placed, DownloadInv
  <2>3. ASSUME NEW e \in Exports, record'[e].status = "completed" PROVE Kept(e)'
    <3>1. record[e].status = "completed" \/ e = proc[w].on
      BY <1>16, <1>t, <2>3 DEF CompleteRecord
    <3>2. QED
      BY <2>1, <2>2, <3>1 DEF DownloadInv
  <2>4. \A v \in Workers : proc'[v].pc = "complete_record"
            => proc[v].pc = "complete_record" /\ proc'[v].on = proc[v].on
    BY <1>16, <1>p, GotoPc DEF CompleteRecord
  <2>5. ASSUME NEW v \in Workers, proc'[v].pc = "complete_record" PROVE Kept(proc[v].on)'
    <3>1. Kept(proc[v].on) /\ proc'[v].on = proc[v].on
      BY <2>4, <2>5 DEF DownloadInv
    <3>2. QED
      BY <1>16, <3>1 DEF CompleteRecord, Kept
  <2>6. QED
    BY <1>16, <2>3, <2>5 DEF CompleteRecord, DownloadInv
<1>17. ASSUME NEW w \in Workers, CompleteJob(w) PROVE DownloadInv'
  <2>1. \A f \in Exports : record'[f].status = "completed" => record[f].status = "completed"
    BY <1>17 DEF CompleteJob
  <2>2. \A v \in Workers : proc'[v].pc = "complete_record"
                  => proc[v].pc = "complete_record" /\ proc'[v].on = proc[v].on
    BY <1>17, <1>p, GotoPc DEF CompleteJob
  <2>3. QED
    BY <1>17, <2>1, <2>2, DownloadFrame DEF CompleteJob
<1>18. ASSUME NEW w \in Workers, RecordEvent(w) PROVE DownloadInv'
  <2>1. \A f \in Exports : record'[f].status = "completed" => record[f].status = "completed"
    BY <1>18 DEF RecordEvent
  <2>2. \A v \in Workers : proc'[v].pc = "complete_record"
                  => proc[v].pc = "complete_record" /\ proc'[v].on = proc[v].on
    BY <1>18, <1>p, GotoPc DEF RecordEvent
  <2>3. QED
    BY <1>18, <2>1, <2>2, DownloadFrame DEF RecordEvent
<1>19. ASSUME NEW w \in Workers, RunFails(w) PROVE DownloadInv'
  <2>1. \A f \in Exports : record'[f].status = "completed" => record[f].status = "completed"
    BY <1>19 DEF RunFails
  <2>2. \A v \in Workers : proc'[v].pc = "complete_record"
                  => proc[v].pc = "complete_record" /\ proc'[v].on = proc[v].on
    BY <1>19, <1>p, GotoPc DEF RunFails
  <2>3. QED
    BY <1>19, <2>1, <2>2, DownloadFrame DEF RunFails
<1>20. ASSUME NEW w \in Workers, FailRecord(w) PROVE DownloadInv'
  <2>1. \A f \in Exports : record'[f].status = "completed" => record[f].status = "completed"
    BY <1>20, <1>p, ReadTypes, WriteStatusType DEF FailRecord, RecordUpdates
  <2>2. \A v \in Workers : proc'[v].pc = "complete_record"
                  => proc[v].pc = "complete_record" /\ proc'[v].on = proc[v].on
    BY <1>20, <1>p, GotoPc DEF FailRecord
  <2>3. QED
    BY <1>20, <2>1, <2>2, DownloadFrame DEF FailRecord
<1>21. ASSUME NEW w \in Workers, FailJob(w) PROVE DownloadInv'
  <2>1. \A f \in Exports : record'[f].status = "completed" => record[f].status = "completed"
    BY <1>21 DEF FailJob
  <2>2. \A v \in Workers : proc'[v].pc = "complete_record"
                  => proc[v].pc = "complete_record" /\ proc'[v].on = proc[v].on
    BY <1>21, <1>p, GotoPc DEF FailJob
  <2>3. QED
    BY <1>21, <2>1, <2>2, DownloadFrame DEF FailJob
<1>22. ASSUME NEW p \in Processes, Read(p) PROVE DownloadInv'
  <2>1. \A f \in Exports : record'[f].status = "completed" => record[f].status = "completed"
    BY <1>22 DEF Read
  <2>2. \A v \in Workers : proc'[v].pc = "complete_record"
                  => proc[v].pc = "complete_record" /\ proc'[v].on = proc[v].on
    BY <1>22, <1>t, <1>p DEF Read, Locals
  <2>3. QED
    BY <1>22, <2>1, <2>2, DownloadFrame DEF Read
<1>23. ASSUME NEW p \in Processes, Crash(p) PROVE DownloadInv'
  <2>1. \A f \in Exports : record'[f].status = "completed" => record[f].status = "completed"
    BY <1>23 DEF Crash
  <2>2. \A v \in Workers : proc'[v].pc = "complete_record"
                  => proc[v].pc = "complete_record" /\ proc'[v].on = proc[v].on
    BY <1>23, GotoPc DEF Crash
  <2>3. QED
    BY <1>23, <2>1, <2>2, DownloadFrame DEF Crash
<1>24. ASSUME ListExpired PROVE DownloadInv'
  <2>1. \A e \in Exports : sweep'[e] = "object" => expired'[e]
    BY <1>24 DEF ListExpired
  <2>2. QED
    BY <1>24, <2>1 DEF ListExpired, DownloadInv, Kept
<1>25. ASSUME AbortSweep PROVE DownloadInv'
  BY <1>25 DEF AbortSweep, DownloadInv, Kept
<1>26. ASSUME NEW e \in Exports, DeleteObject(e) PROVE DownloadInv'
  <2>1. expired[e]
    BY <1>26 DEF DeleteObject, DownloadInv
  <2>2. ASSUME NEW f \in Exports, Kept(f) PROVE Kept(f)'
    BY <1>26, <2>1, <2>2 DEF DeleteObject, Kept
  <2>3. \A f \in Exports : sweep'[f] = "object" => expired'[f]
    BY <1>26, <1>t DEF DeleteObject, DownloadInv
  <2>4. ASSUME NEW w \in Workers, proc'[w].pc = "complete_record" PROVE Kept(proc[w].on)'
    <3>1. Kept(proc[w].on) /\ proc[w].on \in Exports /\ proc' = proc
      BY <1>26, <1>p, <2>4 DEF DeleteObject, DownloadInv, TypeInv, Placed
    <3>2. QED
      BY <1>26, <2>1, <3>1 DEF DeleteObject, Kept
  <2>5. QED
    BY <1>26, <2>2, <2>3, <2>4 DEF DeleteObject, DownloadInv
<1>27. ASSUME NEW e \in Exports, DeleteRecord(e) PROVE DownloadInv'
  <2>1. \A f \in Exports : record'[f].status = "completed" => record[f].status = "completed"
    BY <1>27, <1>t DEF DeleteRecord
  <2>2. \A f \in Exports : sweep'[f] = "object" => sweep[f] = "object"
    BY <1>27, <1>t DEF DeleteRecord
  <2>3. QED
    BY <1>27, <2>1, <2>2 DEF DeleteRecord, DownloadInv, Kept
<1>28. ASSUME RecoverStaleProcessingJobs PROVE DownloadInv'
  BY <1>28, DownloadFrame DEF RecoverStaleProcessingJobs
<1>29. ASSUME CleanupStaleFailedJobs PROVE DownloadInv'
  BY <1>29, DownloadFrame DEF CleanupStaleFailedJobs
<1>30. ASSUME NEW e \in Exports, Age(e) PROVE DownloadInv'
  <2>1. \A f \in Exports : record'[f].status = "completed" => record[f].status = "completed"
    BY <1>30 DEF Age
  <2>2. \A v \in Workers : proc'[v].pc = "complete_record"
                  => proc[v].pc = "complete_record" /\ proc'[v].on = proc[v].on
    BY <1>30, <1>t, <1>p DEF Age, Locals
  <2>3. QED
    BY <1>30, <2>1, <2>2, DownloadFrame DEF Age
<1>31. ASSUME NEW e \in Exports, BackoffElapses(e) PROVE DownloadInv'
  BY <1>31, DownloadFrame DEF BackoffElapses
<1>32. ASSUME NEW e \in Exports, Expire(e) PROVE DownloadInv'
  <2>1. \A f \in Exports : expired[f] => expired'[f]
    BY <1>32, <1>t DEF Expire
  <2>2. QED
    BY <1>32, <2>1 DEF Expire, DownloadInv, Kept
<1>33. ASSUME UNCHANGED vars PROVE DownloadInv'
  BY <1>33, DownloadFrame DEF vars
<1>34. QED
  BY <1>1, <1>2, <1>3, <1>4, <1>5, <1>6, <1>7, <1>8, <1>9, <1>10, <1>11, <1>12,
     <1>13, <1>14, <1>15, <1>16, <1>17, <1>18, <1>19, <1>20, <1>21, <1>22, <1>23, <1>24,
     <1>25, <1>26, <1>27, <1>28, <1>29, <1>30, <1>31, <1>32, <1>33
     DEF Next, HandlerStep, WorkerStep

\* A completed, unexpired export has its object whatever runs, retries, crashes
\* and sweeps did, unless an export that shares the object has expired.
THEOREM DownloadsServed == Spec => []DownloadServesUnlessShared
<1>1. Init => TypeInv /\ DownloadInv
  BY TypeInit, DownloadInit
<1>2. TypeInv /\ DownloadInv /\ [Next]_vars => (TypeInv /\ DownloadInv)'
  BY TypeStep, DownloadStep
<1>3. TypeInv /\ DownloadInv => DownloadServesUnlessShared
  BY DEF DownloadInv, DownloadServesUnlessShared, Downloadable, Kept
<1>4. QED
  BY <1>1, <1>2, <1>3, PTL DEF Spec

-----------------------------------------------------------------------------
(* Exports that wait for a worker.                                         *)

\* The default of a deployment (deploy/README.worker.md:363, export concurrency 1).
SingleSlot == \A v, w \in Workers : v = w

Waiting == {"queued", "processing"}

\* The steps of a run before its first write to the record, those at which the
\* record is open because of it, and those after its verdict.
Before == {"load", "begin"}
Opened == {"render", "persist", "put", "complete_record", "fail_record"}
After == {"complete_job", "event", "fail_job"}

\* Nobody retries.
OnlyRequests == \A h \in Handlers : proc[h].pc \in {"idle", "save_job", "enqueue"}

\* Before the request there is no job, and nobody works on the export.
Unrequested ==
    \A e \in Exports : record[e].status = "absent" =>
        /\ job[e].status = "absent"
        /\ \A p \in Processes : proc[p].on = e => proc[p].pc = "idle"

\* As long as the record is as it was requested no run has got beyond its start.
Untouched ==
    \A e \in Exports : record[e].status = "queued" =>
        /\ job[e].status \in Waiting \cup {"absent"}
        /\ \A w \in Workers : proc[w].on = e => proc[w].pc \notin Opened \cup After

\* As long as nothing has crashed a record in processing is that of a run, and so is a
\* job in processing of a record that is still as it was requested.
Attended ==
    \A e \in Exports :
        /\ record[e].status = "processing" =>
               \E w \in Workers : proc[w].on = e /\ proc[w].pc \in Opened
        /\ record[e].status = "queued" /\ job[e].status = "processing" =>
               \E w \in Workers : proc[w].on = e /\ proc[w].pc \in Before

\* With a single slot a record in processing has a job that will run: the worker finds
\* its own job so, and writes only such rows until the verdict is in the record.
JobWaits ==
    /\ \A e \in Exports : record[e].status = "processing" => job[e].status \in Waiting
    /\ \A w \in Workers : LET l == proc[w] IN
          /\ l.pc \in Before \cup (Opened \ {"fail_record"}) => job[l.on].status \in Waiting
          /\ l.pc \in {"render", "persist"} /\ l.row # NoRow => l.row.status \in Waiting
          /\ l.pc \in After => record[l.on].status # "processing"

\* All of this holds until somebody retries.
StrandInv ==
    retried = 0 =>
        /\ OnlyRequests
        /\ Unrequested
        /\ Untouched
        /\ crashes = 0 => Attended
        /\ SingleSlot => JobWaits

\* Going on with an export changes the step of one process; its copies are dropped.
LEMMA GotoFacts ==
    ASSUME TypeInv, NEW p \in Processes, NEW pc, Goto(p, pc)
    PROVE  /\ \A q \in Processes : q # p => proc'[q] = proc[q]
           /\ proc'[p].pc = pc /\ proc'[p].on = proc[p].on /\ proc'[p].row = NoRow
<1>1. proc \in [Processes -> Locals] /\ proc[p] \in Locals
  BY DEF TypeInv, TypeOK
<1>2. QED
  BY <1>1 DEF Goto, Locals

\* So does the end of a process.
LEMMA ReturnFacts ==
    ASSUME TypeInv, NEW p \in Processes, Return(p)
    PROVE  /\ \A q \in Processes : q # p => proc'[q] = proc[q]
           /\ proc'[p].pc = "idle"
<1>1. proc \in [Processes -> Locals]
  BY DEF TypeInv, TypeOK
<1>2. QED
  BY <1>1 DEF Return, Idle

\* An update of a row leaves the other jobs alone, and creates none.
LEMMA WriteRowFacts ==
    ASSUME TypeInv, NEW p \in Processes, NEW r, WriteRow(p, r)
    PROVE  \A e \in Exports :
              job'[e] = IF e = proc[p].on /\ job[e].status # "absent" THEN r ELSE job[e]
BY DEF WriteRow, TypeInv, TypeOK

\* A status that is written leaves the other records alone, and creates none.
LEMMA WriteStatusFacts ==
    ASSUME TypeInv, NEW p \in Processes, NEW s,
           Exists(proc[p].on) => Rec(p) \in Record, WriteStatus(p, s)
    PROVE  \A e \in Exports :
              record'[e].status = IF e = proc[p].on /\ Exists(e) THEN s ELSE record[e].status
<1>1. record \in [Exports -> Record]
  BY DEF TypeInv, TypeOK
<1>2. CASE Exists(proc[p].on)
  <2>1. [Rec(p) EXCEPT !.status = s].status = s
    BY <1>2 DEF Record
  <2>2. QED
    BY <1>1, <1>2, <2>1 DEF WriteStatus
<1>3. CASE ~Exists(proc[p].on)
  BY <1>1, <1>3 DEF WriteStatus
<1>4. QED
  BY <1>2, <1>3

\* No record, no run and no request at first.
LEMMA StrandInit == Init => StrandInv
BY ProcessTypes DEF Init, StrandInv, OnlyRequests, Unrequested, Untouched, Attended, JobWaits,
   SingleSlot, Idle,
   NoJob, Before, Opened, After, Waiting

\* Every step keeps what waits for a worker.
LEMMA StrandStep == TypeInv /\ TypeInv' /\ StrandInv /\ [Next]_vars => StrandInv'
<1> USE ProcessAssumption DEF StrandInv, OnlyRequests, Unrequested, Untouched, Attended, JobWaits,
        SingleSlot, Waiting, Before, Opened, After, Exists
<1> SUFFICES ASSUME TypeInv, TypeInv', StrandInv, [Next]_vars PROVE StrandInv'
  OBVIOUS
<1>t. /\ record \in [Exports -> Record]
      /\ job \in [Exports -> Job]
      /\ proc \in [Processes -> Locals]
      /\ retried \in Nat /\ crashes \in Nat
  BY BoundsAssumption DEF TypeInv, TypeOK
<1>p. /\ Workers \subseteq Processes /\ Handlers \subseteq Processes
      /\ \A q \in Processes : proc[q].pc # "idle" => proc[q].on \in Exports
  BY ProcessTypes DEF TypeInv, Placed
<1>1. ASSUME NEW h \in Handlers, NEW e \in Exports, RequestExport(h, e) PROVE StrandInv'
  <2>1. /\ proc'[h].pc = "save_job" /\ proc'[h].on = e
        /\ \A q \in Processes : q # h => proc'[q] = proc[q]
        /\ UNCHANGED <<job, retried, crashes>>
    BY <1>1, <1>t, <1>p DEF RequestExport, Locals
  <2>2. /\ record[e].status = "absent"
        /\ \A f \in Exports : record'[f].status = IF f = e THEN "queued" ELSE record[f].status
    BY <1>1, <1>t DEF RequestExport, Record
  <2>3. ASSUME retried = 0 PROVE (OnlyRequests /\ Unrequested /\ Untouched)'
    BY <1>p, <2>1, <2>2, <2>3
  <2>4. QED
    BY <1>p, <2>1, <2>2, <2>3
<1>2. ASSUME NEW h \in Handlers, NEW e \in Exports, RetryExport(h, e) PROVE StrandInv'
  BY <1>2, <1>t, <1>p DEF RetryExport, Locals
<1>3. ASSUME NEW h \in Handlers, SaveJob(h) PROVE StrandInv'
  BY <1>3, <1>t, <1>p, GotoFacts DEF SaveJob, At, RecordUpdates, JobUpdates, NoJob
<1>4. ASSUME NEW h \in Handlers, Enqueue(h) PROVE StrandInv'
  <2>1. /\ proc[h].pc = "enqueue" /\ proc[h].on \in Exports /\ proc'[h].pc = "idle"
        /\ \A q \in Processes : q # h => proc'[q] = proc[q]
        /\ UNCHANGED <<record, retried, crashes>>
    BY <1>4, <1>p, ReturnFacts DEF Enqueue, At
  <2> DEFINE r == [Row(h) EXCEPT !.status = "queued", !.available = TRUE]
  <2>2. Row(h) \in Job
    BY <1>4, <1>p, ReadTypes DEF Enqueue, JobUpdates
  <2>3. r.status = "queued"
    BY <2>2 DEF Job
  <2>4. WriteRow(h, r)
    BY <1>4 DEF Enqueue
  <2> HIDE DEF r
  <2>5. \A e \in Exports : job'[e] =
            IF e = proc[h].on /\ job[e].status # "absent" THEN r ELSE job[e]
    BY <1>p, <2>4, WriteRowFacts
  <2>6. QED
    BY <1>p, <2>1, <2>3, <2>5
<1>5. ASSUME NEW h \in Handlers, Check(h) PROVE StrandInv'
  BY <1>5, <1>t, <1>p, GotoFacts, ReturnFacts DEF Check, At, RecordUpdates, JobUpdates
<1>6. ASSUME NEW h \in Handlers, Reopen(h) PROVE StrandInv'
  BY <1>6, <1>t, <1>p, GotoFacts, WriteStatusFacts, ReadTypes
     DEF Reopen, At, RecordUpdates, JobUpdates
<1>7. ASSUME NEW h \in Handlers, Requeue(h) PROVE StrandInv'
  BY <1>7, <1>t, <1>p, ReturnFacts, WriteRowFacts
     DEF Requeue, At, RecordUpdates, JobUpdates, RetriedRow
<1>8. ASSUME NEW h \in Handlers, RegenerateRecord(h) PROVE StrandInv'
  BY <1>8, <1>t, <1>p, GotoFacts, ReturnFacts DEF RegenerateRecord, At, RecordUpdates, JobUpdates
<1>9. ASSUME NEW h \in Handlers, RegenerateJob(h) PROVE StrandInv'
  BY <1>9, <1>t, <1>p, GotoFacts, ReturnFacts, WriteRowFacts
     DEF RegenerateJob, At, RecordUpdates, JobUpdates, RetriedRow
<1>10. ASSUME NEW w \in Workers, NEW e \in Exports, Claim(w, e) PROVE StrandInv'
  <2>1. /\ proc[w].pc = "idle" /\ proc'[w].pc = "load" /\ proc'[w].on = e
        /\ \A q \in Processes : q # w => proc'[q] = proc[q]
        /\ UNCHANGED <<record, retried, crashes>>
    BY <1>10, <1>t, <1>p DEF Claim, Locals
  <2>2. /\ job[e].status = "queued" /\ job'[e].status = "processing"
        /\ \A f \in Exports : f # e => job'[f] = job[f]
    BY <1>10, <1>t DEF Claim, Claimable, Job
  <2>3. ASSUME retried = 0, crashes = 0 PROVE Attended'
    BY <1>p, <2>1, <2>2, <2>3
  <2>4. ASSUME retried = 0, SingleSlot PROVE JobWaits'
    BY <1>p, <2>1, <2>2, <2>4
  <2>5. ASSUME retried = 0 PROVE (OnlyRequests /\ Unrequested /\ Untouched)'
    BY <1>p, <2>1, <2>2, <2>5
  <2>6. QED
    BY <2>1, <2>3, <2>4, <2>5
<1>11. ASSUME NEW w \in Workers, Load(w) PROVE StrandInv'
  BY <1>11, <1>t, <1>p, GotoFacts, ReturnFacts DEF Load, At, RecordUpdates, JobUpdates
<1>12. ASSUME NEW w \in Workers, Begin(w) PROVE StrandInv'
  <2>1. /\ proc[w].pc = "begin" /\ proc[w].on \in Exports /\ proc'[w].pc = "render"
        /\ proc'[w].on = proc[w].on /\ proc'[w].row = NoRow
        /\ \A q \in Processes : q # w => proc'[q] = proc[q]
        /\ UNCHANGED <<job, retried, crashes>>
    BY <1>12, <1>p, GotoFacts DEF Begin, At
  <2>2. \A e \in Exports : record'[e].status =
            IF e = proc[w].on /\ Exists(e) THEN "processing" ELSE record[e].status
    BY <1>12, <1>p, ReadTypes, WriteStatusFacts DEF Begin, RecordUpdates
  <2>3. ASSUME retried = 0, crashes = 0 PROVE Attended'
    BY <1>p, <2>1, <2>2, <2>3
  <2>4. ASSUME retried = 0, SingleSlot PROVE JobWaits'
    BY <1>p, <2>1, <2>2, <2>4
  <2>5. ASSUME retried = 0 PROVE (OnlyRequests /\ Unrequested /\ Untouched)'
    BY <1>p, <2>1, <2>2, <2>5
  <2>6. QED
    BY <2>1, <2>3, <2>4, <2>5
<1>13. ASSUME NEW w \in Workers, Render(w) PROVE StrandInv'
  <2>1. /\ proc[w].pc = "render" /\ proc[w].on \in Exports /\ proc'[w].pc = "persist"
        /\ proc'[w].on = proc[w].on /\ proc'[w].row = NoRow
        /\ \A q \in Processes : q # w => proc'[q] = proc[q]
        /\ UNCHANGED <<record, retried, crashes>>
    BY <1>13, <1>p, GotoFacts DEF Render, At
  <2>2. \A e \in Exports : job'[e] =
            IF e = proc[w].on /\ job[e].status # "absent" THEN Row(w) ELSE job[e]
    BY <1>13, <1>p, WriteRowFacts DEF Render
  <2>3. retried = 0 /\ SingleSlot => Row(w).status \in Waiting
    BY <1>13, <2>1 DEF Render, At, Row, JobUpdates
  <2>4. QED
    BY <1>p, <2>1, <2>2, <2>3
<1>14. ASSUME NEW w \in Workers, Persist(w) PROVE StrandInv'
  <2>1. /\ proc[w].pc = "persist" /\ proc[w].on \in Exports /\ proc'[w].pc = "put"
        /\ proc'[w].on = proc[w].on /\ proc'[w].row = NoRow
        /\ \A q \in Processes : q # w => proc'[q] = proc[q]
        /\ UNCHANGED <<record, retried, crashes>>
    BY <1>14, <1>p, GotoFacts DEF Persist, At
  <2>2. \A e \in Exports : job'[e] =
            IF e = proc[w].on /\ job[e].status # "absent" THEN Row(w) ELSE job[e]
    BY <1>14, <1>p, WriteRowFacts DEF Persist
  <2>3. retried = 0 /\ SingleSlot => Row(w).status \in Waiting
    BY <1>14, <2>1 DEF Persist, At, Row, JobUpdates
  <2>4. QED
    BY <1>p, <2>1, <2>2, <2>3
<1>15. ASSUME NEW w \in Workers, PutObject(w) PROVE StrandInv'
  BY <1>15, <1>t, <1>p, GotoFacts DEF PutObject, At, RecordUpdates, JobUpdates
<1>16. ASSUME NEW w \in Workers, CompleteRecord(w) PROVE StrandInv'
  BY <1>16, <1>t, <1>p, GotoFacts DEF CompleteRecord, At, RecordUpdates, JobUpdates
<1>17. ASSUME NEW w \in Workers, CompleteJob(w) PROVE StrandInv'
  BY <1>17, <1>t, <1>p, GotoFacts, WriteRowFacts, ReadTypes
     DEF CompleteJob, At, RecordUpdates, JobUpdates
<1>18. ASSUME NEW w \in Workers, RecordEvent(w) PROVE StrandInv'
  BY <1>18, <1>t, <1>p, ReturnFacts DEF RecordEvent, At, RecordUpdates, JobUpdates
<1>19. ASSUME NEW w \in Workers, RunFails(w) PROVE StrandInv'
  BY <1>19, <1>t, <1>p, GotoFacts DEF RunFails
<1>20. ASSUME NEW w \in Workers, FailRecord(w) PROVE StrandInv'
  BY <1>20, <1>t, <1>p, GotoFacts, WriteStatusFacts, ReadTypes
     DEF FailRecord, At, RecordUpdates, JobUpdates
<1>21. ASSUME NEW w \in Workers, FailJob(w) PROVE StrandInv'
  BY <1>21, <1>t, <1>p, ReturnFacts, WriteRowFacts, ReadTypes
     DEF FailJob, At, RecordUpdates, JobUpdates
<1>22. ASSUME NEW p \in Processes, Read(p) PROVE StrandInv'
  <2>1. /\ \A q \in Processes : q # p => proc'[q] = proc[q]
        /\ proc'[p].pc = proc[p].pc /\ proc'[p].on = proc[p].on
        /\ UNCHANGED <<record, job, retried, crashes>>
    BY <1>22, <1>t DEF Read, Locals
  <2>2. proc[p].pc \in {"render", "persist"} =>
            proc'[p].row = proc[p].row \/ proc'[p].row = job[proc[p].on]
    BY <1>22, <1>t DEF Read, Locals
  <2>3. ASSUME retried = 0, crashes = 0 PROVE Attended'
    BY <1>p, <2>1, <2>3
  <2>4. ASSUME retried = 0, SingleSlot PROVE JobWaits'
    BY <1>p, <2>1, <2>2, <2>4
  <2>5. ASSUME retried = 0 PROVE (OnlyRequests /\ Unrequested /\ Untouched)'
    BY <1>p, <2>1, <2>5
  <2>6. QED
    BY <2>1, <2>3, <2>4, <2>5
<1>23. ASSUME NEW p \in Processes, Crash(p) PROVE StrandInv'
  BY <1>23, <1>t, <1>p, ReturnFacts DEF Crash
<1>24. ASSUME ListExpired PROVE StrandInv'
  BY <1>24, <1>t, <1>p DEF ListExpired
<1>25. ASSUME AbortSweep PROVE StrandInv'
  BY <1>25, <1>t, <1>p DEF AbortSweep
<1>26. ASSUME NEW e \in Exports, DeleteObject(e) PROVE StrandInv'
  BY <1>26, <1>t, <1>p DEF DeleteObject
<1>27. ASSUME NEW e \in Exports, DeleteRecord(e) PROVE StrandInv'
  BY <1>27, <1>t, <1>p DEF DeleteRecord
<1>28. ASSUME RecoverStaleProcessingJobs PROVE StrandInv'
  <2> DEFINE R(e) == [job[e] EXCEPT !.status = "queued", !.available = TRUE, !.retries = Bump(@)]
  <2>1. \A e \in Exports : R(e).status = "queued"
    BY <1>t DEF Job
  <2>2. /\ job' = [e \in Exports |-> IF Stale(e) THEN R(e) ELSE job[e]]
        /\ UNCHANGED <<record, proc, retried, crashes>>
    BY <1>28 DEF RecoverStaleProcessingJobs
  <2> HIDE DEF R
  <2>3. \A e \in Exports : job'[e] = IF Stale(e) THEN R(e) ELSE job[e]
    BY <2>2
  <2>4. QED
    BY <1>p, <2>1, <2>2, <2>3 DEF Stale
<1>29. ASSUME CleanupStaleFailedJobs PROVE StrandInv'
  BY <1>29, <1>t, <1>p DEF CleanupStaleFailedJobs, Abandoned, NoJob
<1>30. ASSUME NEW e \in Exports, Age(e) PROVE StrandInv'
  BY <1>30, <1>t, <1>p DEF Age, Job, Locals
<1>31. ASSUME NEW e \in Exports, BackoffElapses(e) PROVE StrandInv'
  BY <1>31, <1>t, <1>p DEF BackoffElapses, Job
<1>32. ASSUME NEW e \in Exports, Expire(e) PROVE StrandInv'
  BY <1>32, <1>t, <1>p DEF Expire
<1>33. CASE UNCHANGED vars
  BY <1>33 DEF vars
<1>34. QED
  BY <1>1, <1>2, <1>3, <1>4, <1>5, <1>6, <1>7, <1>8, <1>9, <1>10, <1>11, <1>12,
     <1>13, <1>14, <1>15, <1>16, <1>17, <1>18, <1>19, <1>20, <1>21, <1>22, <1>23, <1>24,
     <1>25, <1>26, <1>27, <1>28, <1>29, <1>30, <1>31, <1>32, <1>33
     DEF Next, HandlerStep, WorkerStep

\* Every reachable state satisfies the invariant.
LEMMA StrandInvariance == Spec => []StrandInv
<1>1. Init => TypeInv /\ StrandInv
  BY TypeInit, StrandInit
<1>2. TypeInv /\ StrandInv /\ [Next]_vars => (TypeInv /\ StrandInv)'
  BY TypeStep, StrandStep
<1>3. QED
  BY <1>1, <1>2, PTL DEF Spec

-----------------------------------------------------------------------------
(* The budget of the sweep.                                                *)

\* With one slot and runs shorter than 30 minutes the sweep charges only the jobs of
\* workers that have died.  So a job is never charged more often than something has
\* crashed, and a job that a dead worker left processing less often than that; a job that
\* runs is not old, nor is the copy that its run will write back; and no job is still
\* processing once its run has completed it.
Charged ==
    /\ \A e \in Exports : record[e].status # "deleted" =>
          /\ job[e].retries <= crashes
          /\ job[e].status = "processing" =>
                IF Running(e) THEN ~job[e].old ELSE job[e].retries < crashes
    /\ \A p \in Processes :
          /\ proc[p].pc = "idle" => proc[p].row = NoRow
          /\ proc[p].pc # "idle" /\ record[proc[p].on].status # "deleted" /\ proc[p].row # NoRow =>
                /\ proc[p].row.retries <= crashes
                /\ p \in Workers /\ proc[p].row.status = "processing" => ~proc[p].row.old
    /\ \A w \in Workers :
          proc[w].pc = "event" /\ record[proc[w].on].status # "deleted" =>
              job[proc[w].on].status # "processing"

ChargeInv == retried = 0 => Charged

\* Nobody takes a retry back.
LEMMA RetriesOnlyGrow ==
    ASSUME TypeInv, [Next]_vars, retried # 0
    PROVE  retried' # 0
<1>1. retried \in Nat
  BY BoundsAssumption DEF TypeInv, TypeOK
<1>2. CASE \E h \in Handlers, e \in Exports : RetryExport(h, e)
  BY <1>1, <1>2 DEF RetryExport
<1>3. CASE UNCHANGED retried
  BY <1>3
<1>4. QED
  BY <1>2, <1>3
     DEF Next, HandlerStep, WorkerStep, RequestExport, SaveJob, Enqueue, Check, Reopen, Requeue,
         RegenerateRecord, RegenerateJob, Claim, Load, Begin, Render, Persist, PutObject,
         CompleteRecord, CompleteJob, RecordEvent, RunFails, FailRecord, FailJob, Read, Crash,
         ListExpired, AbortSweep, DeleteObject, DeleteRecord, RecoverStaleProcessingJobs,
         CleanupStaleFailedJobs, Age, BackoffElapses, Expire, vars

\* The sweep adds one to the count at most.
LEMMA BumpStep == \A n \in 0..RetryBudget : Bump(n) \in Nat /\ Bump(n) <= n + 1
BY BudgetAssumption DEF Bump

\* Nothing is charged at first.
LEMMA ChargeInit == Init => ChargeInv
<1>1. ASSUME Init PROVE Charged
  <2>1. /\ \A e \in Exports : job[e].retries = 0 /\ job[e].status = "absent"
        /\ crashes = 0
        /\ \A p \in Processes : proc[p].pc = "idle" /\ proc[p].row = NoRow
    BY <1>1 DEF Init, NoJob, Idle
  <2>2. QED
    BY <2>1, ProcessTypes DEF Charged
<1>2. QED
  BY <1>1 DEF ChargeInv

\* Every step keeps the account: the steps of runs leave the count alone, a crash makes
\* room for the charge by which the sweep recovers the job.
LEMMA ChargeStep ==
    ASSUME SingleSlot, ~SlowRuns, TypeInv, TypeInv', StrandInv, Charged, [Next]_vars,
           retried = 0, retried' = 0
    PROVE  Charged'
<1>t. /\ record \in [Exports -> Record]
      /\ job \in [Exports -> Job]
      /\ proc \in [Processes -> Locals]
      /\ crashes \in Nat /\ RetryBudget \in Nat
      /\ \A e \in Exports : job[e].retries \in 0..RetryBudget /\ job[e].retries \in Nat
      /\ \A p \in Processes :
            proc[p].row # NoRow => proc[p].row \in Job /\ proc[p].row.retries \in Nat
  BY BoundsAssumption, BudgetAssumption DEF TypeInv, TypeOK, Job, Locals
<1>p. /\ Workers \subseteq Processes /\ Handlers \subseteq Processes
      /\ Processes = Workers \cup Handlers
      /\ \A h \in Handlers : h \notin Workers
      /\ \A v, w \in Workers : v = w
      /\ \A q \in Processes : proc[q].pc # "idle" => proc[q].on \in Exports
      /\ \A q \in Processes : proc'[q].pc # "idle" => proc'[q].on \in Exports
  BY ProcessTypes, ProcessAssumption DEF Processes, SingleSlot, TypeInv, Placed
\* A busy process goes on with its export, no job changes.
<1>f. ASSUME NEW p \in Processes, proc[p].pc # "idle",
             \A q \in Processes : q # p => proc'[q] = proc[q],
             proc'[p].pc # "idle", proc'[p].on = proc[p].on, proc'[p].row = NoRow,
             proc'[p].pc # "event", UNCHANGED <<job, crashes>>,
             \A e \in Exports : record[e].status = "deleted" => record'[e].status = "deleted"
      PROVE  Charged'
  <2>1. \A e \in Exports : Running(e)' = Running(e)
    BY <1>f, <1>p DEF Running
  <2>2. QED
    BY <1>f, <1>p, <2>1 DEF Charged
\* Nobody moves, no job changes.
<1>i. ASSUME UNCHANGED <<job, proc>>, crashes' \in Nat, crashes <= crashes',
             \A e \in Exports : record[e].status = "deleted" => record'[e].status = "deleted"
      PROVE  Charged'
  <2>1. \A e \in Exports : Running(e)' = Running(e)
    BY <1>i DEF Running
  <2>2. QED
    BY <1>i, <1>p, <1>t, <2>1 DEF Charged
\* The job of one busy process is written.
<1>w. ASSUME NEW p \in Processes, proc[p].pc # "idle", NEW r, WriteRow(p, r),
             \A q \in Processes : q # p => proc'[q] = proc[q],
             proc'[p].row = NoRow, UNCHANGED <<record, crashes>>,
             record[proc[p].on].status # "deleted" =>
                 /\ r.retries <= crashes
                 /\ r.status = "processing" => p \in Workers /\ ~r.old,
             \/ p \in Handlers
             \/ proc'[p].pc \notin {"idle", "event"} /\ proc'[p].on = proc[p].on
             \/ /\ r.status # "processing"
                /\ proc'[p].pc = "idle" \/ proc'[p].on = proc[p].on
      PROVE  Charged'
  <2>1. \A e \in Exports : job'[e] =
            IF e = proc[p].on /\ job[e].status # "absent" THEN r ELSE job[e]
    BY <1>w, WriteRowFacts
  <2>2. \A e \in Exports : e # proc[p].on => Running(e)' = Running(e)
    BY <1>w, <1>p DEF Running
  <2>3. ASSUME NEW e \in Exports, record'[e].status # "deleted"
        PROVE  /\ job'[e].retries <= crashes'
               /\ job'[e].status = "processing" =>
                     IF Running(e)' THEN ~job'[e].old ELSE job'[e].retries < crashes'
    <3>1. CASE e # proc[p].on
      BY <1>w, <2>1, <2>2, <2>3, <3>1 DEF Charged
    <3>2. CASE e = proc[p].on /\ job[e].status = "absent"
      BY <1>w, <2>1, <2>3, <3>2 DEF Charged
    <3>3. CASE e = proc[p].on /\ job[e].status # "absent"
      BY <1>w, <1>p, <2>1, <2>3, <3>3 DEF Running
    <3>4. QED
      BY <3>1, <3>2, <3>3
  <2>4. ASSUME NEW q \in Processes
        PROVE  /\ proc'[q].pc = "idle" => proc'[q].row = NoRow
               /\ proc'[q].pc # "idle" /\ record'[proc'[q].on].status # "deleted"
                        /\ proc'[q].row # NoRow =>
                     /\ proc'[q].row.retries <= crashes'
                     /\ q \in Workers /\ proc'[q].row.status = "processing" => ~proc'[q].row.old
    BY <1>w, <2>4 DEF Charged
  <2>5. ASSUME NEW w \in Workers, proc'[w].pc = "event",
               record'[proc'[w].on].status # "deleted"
        PROVE  job'[proc'[w].on].status # "processing"
    <3>1. CASE w = p
      BY <1>w, <1>p, <2>1, <2>5, <3>1
    <3>2. CASE w # p
      <4>1. proc'[w] = proc[w] /\ proc[w].on \in Exports
        BY <1>w, <1>p, <2>5, <3>2
      <4>2. job[proc[w].on].status # "processing" /\ p \in Handlers
        BY <1>w, <1>p, <2>5, <3>2, <4>1 DEF Charged
      <4>3. proc[p].on = proc[w].on => r.status # "processing"
        BY <1>w, <1>p, <2>5, <4>1, <4>2
      <4>4. QED
        BY <2>1, <4>1, <4>2, <4>3
    <3>3. QED
      BY <3>1, <3>2
  <2>6. QED
    BY <2>3, <2>4, <2>5 DEF Charged
<1>1. ASSUME NEW h \in Handlers, NEW e \in Exports, RequestExport(h, e) PROVE Charged'
  <2>1. /\ proc'[h].pc = "save_job" /\ proc'[h].row = NoRow
        /\ \A q \in Processes : q # h => proc'[q] = proc[q]
        /\ UNCHANGED <<job, crashes>>
    BY <1>1, <1>t, <1>p DEF RequestExport, Locals, Charged
  <2>2. \A f \in Exports : record[f].status = "deleted" => record'[f].status = "deleted"
    BY <1>1, <1>t DEF RequestExport, Record
  <2>3. \A f \in Exports : Running(f)' = Running(f)
    BY <1>p, <2>1 DEF Running
  <2>4. QED
    BY <1>p, <2>1, <2>2, <2>3 DEF Charged
<1>2. ASSUME NEW h \in Handlers, NEW e \in Exports, RetryExport(h, e) PROVE Charged'
  BY <1>2, BoundsAssumption DEF RetryExport
<1>3. ASSUME NEW h \in Handlers, SaveJob(h) PROVE Charged'
  <2>1. /\ proc[h].pc = "save_job" /\ proc[h].on \in Exports /\ proc'[h].pc = "enqueue"
        /\ proc'[h].row = NoRow
        /\ \A q \in Processes : q # h => proc'[q] = proc[q]
        /\ UNCHANGED <<record, crashes>>
    BY <1>3, <1>p, GotoFacts DEF SaveJob, At
  <2>2. \A e \in Exports : \/ job'[e] = job[e]
                           \/ job'[e].status = "queued" /\ job'[e].retries = 0
    BY <1>3, <1>t DEF SaveJob, NoJob
  <2>3. \A f \in Exports : Running(f)' = Running(f)
    BY <1>p, <2>1 DEF Running
  <2>4. QED
    BY <1>t, <1>p, <2>1, <2>2, <2>3 DEF Charged
<1>4. ASSUME NEW h \in Handlers, Enqueue(h) PROVE Charged'
  <2> DEFINE r == [Row(h) EXCEPT !.status = "queued", !.available = TRUE]
  <2>1. /\ proc[h].pc = "enqueue" /\ proc'[h].row = NoRow
        /\ \A q \in Processes : q # h => proc'[q] = proc[q]
        /\ UNCHANGED <<record, crashes>> /\ WriteRow(h, r)
    BY <1>4, <1>t, <1>p DEF Enqueue, At, Return, Idle
  <2>2. proc[h].row # NoRow /\ Row(h) \in Job
    BY <1>4, <1>p, ReadTypes DEF Enqueue, At, JobUpdates
  <2>3. r.status = "queued" /\ r.retries = proc[h].row.retries
    BY <2>2 DEF Job, Row
  <2> HIDE DEF r
  <2>4. record[proc[h].on].status # "deleted" => r.retries <= crashes
    BY <1>p, <2>1, <2>2, <2>3 DEF Charged
  <2>5. QED
    BY <1>p, <1>w, <2>1, <2>3, <2>4
<1>5. ASSUME NEW h \in Handlers,
             Check(h) \/ Reopen(h) \/ Requeue(h) \/ RegenerateRecord(h) \/ RegenerateJob(h)
      PROVE  Charged'
  BY <1>5 DEF Check, Reopen, Requeue, RegenerateRecord, RegenerateJob, At, StrandInv,
     OnlyRequests
<1>6. ASSUME NEW w \in Workers, NEW e \in Exports, Claim(w, e) PROVE Charged'
  <2>1. /\ proc[w].pc = "idle" /\ proc'[w].pc = "load" /\ proc'[w].on = e
        /\ proc'[w].row = NoRow
        /\ \A q \in Processes : q # w => proc'[q] = proc[q]
        /\ UNCHANGED <<record, crashes>>
    BY <1>6, <1>t, <1>p DEF Claim, Locals, Charged
  <2>2. \A f \in Exports : job'[f].retries = job[f].retries /\ (f # e => job'[f] = job[f])
    BY <1>6, <1>t DEF Claim, Job
  <2>3. ~job'[e].old
    BY <1>6, <1>t DEF Claim, Job
  <2>4. Running(e)' /\ \A f \in Exports : f # e => ~Running(f) /\ ~Running(f)'
    BY <1>p, <2>1 DEF Running
  <2>5. QED
    BY <1>p, <2>1, <2>2, <2>3, <2>4 DEF Charged
<1>7. ASSUME NEW w \in Workers, Load(w) PROVE Charged'
  <2>1. proc[w].pc = "load" /\ proc[w].on \in Exports
    BY <1>7, <1>p DEF Load, At
  <2>2. CASE Exists(proc[w].on)
    BY <1>7, <1>f, <1>p, <2>1, <2>2, GotoFacts DEF Load
  <2>3. CASE ~Exists(proc[w].on)
    <3>1. record[proc[w].on].status = "deleted"
      BY <1>p, <2>1, <2>3 DEF Exists, StrandInv, Unrequested
    <3>2. /\ proc'[w].pc = "idle" /\ proc'[w].row = NoRow
          /\ \A q \in Processes : q # w => proc'[q] = proc[q]
          /\ UNCHANGED <<record, job, crashes>>
      BY <1>7, <1>t, <1>p, <2>3 DEF Load, Return, Idle
    <3>3. \A e \in Exports : e # proc[w].on => Running(e)' = Running(e)
      BY <1>p, <2>1, <3>2 DEF Running
    <3>4. QED
      BY <1>p, <2>1, <3>1, <3>2, <3>3 DEF Charged
  <2>4. QED
    BY <2>2, <2>3
<1>8. ASSUME NEW w \in Workers, Begin(w) \/ FailRecord(w) PROVE Charged'
  <2>1. proc[w].pc \in {"begin", "fail_record"}
    BY <1>8 DEF Begin, FailRecord, At
  <2>2. PICK pc \in {"render", "fail_job"} : Goto(w, pc)
    BY <1>8 DEF Begin, FailRecord
  <2>3. PICK s : WriteStatus(w, s)
    BY <1>8 DEF Begin, FailRecord
  <2>4. \A e \in Exports : record[e].status = "deleted" => record'[e] = record[e]
    BY <1>t, <2>3 DEF WriteStatus, Exists
  <2>5. /\ \A q \in Processes : q # w => proc'[q] = proc[q]
        /\ proc'[w].pc = pc /\ proc'[w].on = proc[w].on /\ proc'[w].row = NoRow
    BY <1>p, <2>2, GotoFacts
  <2>6. UNCHANGED <<job, crashes>>
    BY <1>8 DEF Begin, FailRecord
  <2>7. QED
    BY <1>f, <1>p, <2>1, <2>4, <2>5, <2>6
<1>9. ASSUME NEW w \in Workers, Render(w) \/ Persist(w) PROVE Charged'
  <2>1. proc[w].pc \in {"render", "persist"} /\ WriteRow(w, Row(w))
        /\ UNCHANGED <<record, crashes>>
    BY <1>9 DEF Render, Persist, At
  <2>2. PICK pc \in {"persist", "put"} : Goto(w, pc)
    BY <1>9 DEF Render, Persist
  <2>3. /\ \A q \in Processes : q # w => proc'[q] = proc[q]
        /\ proc'[w].pc = pc /\ proc'[w].on = proc[w].on /\ proc'[w].row = NoRow
    BY <1>p, <2>2, GotoFacts
  <2>4. proc[w].row # NoRow
    BY <1>9 DEF Render, Persist, At, JobUpdates
  <2>5. record[proc[w].on].status # "deleted" =>
            /\ Row(w).retries <= crashes
            /\ Row(w).status = "processing" => ~Row(w).old
    BY <1>p, <2>1, <2>4 DEF Charged, Row
  <2>6. QED
    BY <1>p, <1>w, <2>1, <2>2, <2>3, <2>5
<1>10. ASSUME NEW w \in Workers, PutObject(w) \/ CompleteRecord(w) \/ RunFails(w) PROVE Charged'
  <2>1. proc[w].pc # "idle" /\ UNCHANGED <<job, crashes>>
    BY <1>10 DEF PutObject, CompleteRecord, RunFails, At
  <2>2. PICK pc \in {"complete_record", "complete_job", "fail_record"} : Goto(w, pc)
    BY <1>10 DEF PutObject, CompleteRecord, RunFails
  <2>3. \A e \in Exports : record[e].status = "deleted" => record'[e] = record[e]
    BY <1>10, <1>t DEF PutObject, CompleteRecord, RunFails, Exists
  <2>4. /\ \A q \in Processes : q # w => proc'[q] = proc[q]
        /\ proc'[w].pc = pc /\ proc'[w].on = proc[w].on /\ proc'[w].row = NoRow
    BY <1>p, <2>2, GotoFacts
  <2>5. QED
    BY <1>f, <1>p, <2>1, <2>2, <2>3, <2>4
<1>11. ASSUME NEW w \in Workers, CompleteJob(w) PROVE Charged'
  <2> DEFINE r == [Row(w) EXCEPT !.status = "completed"]
  <2>1. /\ proc[w].pc = "complete_job" /\ WriteRow(w, r) /\ UNCHANGED <<record, crashes>>
        /\ proc[w].row # NoRow /\ Row(w) \in Job
    BY <1>11, <1>p, ReadTypes DEF CompleteJob, At, JobUpdates
  <2>2. r.status = "completed" /\ r.retries = proc[w].row.retries
    BY <2>1 DEF Job, Row
  <2>3. /\ \A q \in Processes : q # w => proc'[q] = proc[q]
        /\ proc'[w].pc = "event" /\ proc'[w].on = proc[w].on /\ proc'[w].row = NoRow
    BY <1>11, <1>p, GotoFacts DEF CompleteJob
  <2> HIDE DEF r
  <2>4. record[proc[w].on].status # "deleted" => r.retries <= crashes
    BY <1>p, <2>1, <2>2 DEF Charged
  <2>5. QED
    BY <1>p, <1>w, <2>1, <2>2, <2>3, <2>4
<1>12. ASSUME NEW w \in Workers, RecordEvent(w) PROVE Charged'
  <2>1. /\ proc[w].pc = "event" /\ proc[w].on \in Exports
        /\ proc'[w].pc = "idle" /\ proc'[w].row = NoRow
        /\ \A q \in Processes : q # w => proc'[q] = proc[q]
        /\ UNCHANGED <<record, job, crashes>>
    BY <1>12, <1>t, <1>p DEF RecordEvent, At, Return, Idle
  <2>2. \A e \in Exports : e # proc[w].on => Running(e)' = Running(e)
    BY <1>p, <2>1 DEF Running
  <2>3. QED
    BY <1>p, <2>1, <2>2 DEF Charged
<1>13. ASSUME NEW w \in Workers, FailJob(w) PROVE Charged'
  <2> DEFINE r == [Row(w) EXCEPT !.status = "failed", !.old = FALSE]
  <2>1. /\ proc[w].pc = "fail_job" /\ WriteRow(w, r) /\ UNCHANGED <<record, crashes>>
        /\ proc[w].row # NoRow /\ Row(w) \in Job
    BY <1>13, <1>p, ReadTypes DEF FailJob, At, JobUpdates
  <2>2. r.status = "failed" /\ r.retries = proc[w].row.retries
    BY <2>1 DEF Job, Row
  <2>3. /\ \A q \in Processes : q # w => proc'[q] = proc[q]
        /\ proc'[w].pc = "idle" /\ proc'[w].row = NoRow
    BY <1>13, <1>t, <1>p DEF FailJob, Return, Idle
  <2> HIDE DEF r
  <2>4. record[proc[w].on].status # "deleted" => r.retries <= crashes
    BY <1>p, <2>1, <2>2 DEF Charged
  <2>5. QED
    BY <1>p, <1>w, <2>1, <2>2, <2>3, <2>4
<1>14. ASSUME NEW p \in Processes, Read(p) PROVE Charged'
  <2>1. /\ proc[p].pc # "idle" /\ proc[p].on \in Exports
        /\ \A q \in Processes : q # p => proc'[q] = proc[q]
        /\ proc'[p].pc = proc[p].pc /\ proc'[p].on = proc[p].on
        /\ proc'[p].row = proc[p].row \/ proc'[p].row = job[proc[p].on]
        /\ UNCHANGED <<record, job, crashes>>
    BY <1>14, <1>t, <1>p DEF Read, Locals, JobUpdates, RecordUpdates
  <2>2. \A f \in Exports : Running(f)' = Running(f)
    BY <1>p, <2>1 DEF Running
  <2>3. p \in Workers => Running(proc[p].on)
    BY <2>1 DEF Running
  <2>4. QED
    BY <1>p, <2>1, <2>2, <2>3 DEF Charged
<1>15. ASSUME NEW p \in Processes, Crash(p) PROVE Charged'
  <2>1. /\ proc[p].pc # "idle" /\ proc[p].on \in Exports
        /\ proc'[p].pc = "idle" /\ proc'[p].row = NoRow
        /\ \A q \in Processes : q # p => proc'[q] = proc[q]
        /\ UNCHANGED <<record, job>> /\ crashes' = crashes + 1
    BY <1>15, <1>t, <1>p DEF Crash, Return, Idle
  <2>2. \A e \in Exports : e # proc[p].on => Running(e)' = Running(e)
    BY <1>p, <2>1 DEF Running
  <2>3. \A e \in Exports : Running(e)' => Running(e)
    BY <1>p, <2>1 DEF Running
  <2>4. QED
    BY <1>t, <1>p, <2>1, <2>2, <2>3 DEF Charged
<1>16. ASSUME \/ ListExpired \/ AbortSweep
              \/ \E e \in Exports : DeleteObject(e) \/ Expire(e)
              \/ UNCHANGED vars
       PROVE  Charged'
  BY <1>16, <1>t, <1>i DEF ListExpired, AbortSweep, DeleteObject, Expire, vars
<1>17. ASSUME NEW e \in Exports, DeleteRecord(e) PROVE Charged'
  <2>1. \A f \in Exports : record[f].status = "deleted" => record'[f].status = "deleted"
    BY <1>17, <1>t DEF DeleteRecord
  <2>2. QED
    BY <1>17, <1>t, <1>i, <2>1 DEF DeleteRecord
<1>18. ASSUME RecoverStaleProcessingJobs PROVE Charged'
  <2> DEFINE R(e) == [job[e] EXCEPT !.status = "queued", !.available = TRUE, !.retries = Bump(@)]
  <2>1. \A e \in Exports : R(e).status = "queued" /\ R(e).retries = Bump(job[e].retries)
    BY <1>t DEF Job
  <2>2. /\ job' = [e \in Exports |-> IF Stale(e) THEN R(e) ELSE job[e]]
        /\ UNCHANGED <<record, proc, retried, crashes>>
    BY <1>18 DEF RecoverStaleProcessingJobs
  <2> HIDE DEF R
  <2>3. \A e \in Exports : job'[e] = IF Stale(e) THEN R(e) ELSE job[e]
    BY <2>2
  <2>4. \A e \in Exports : Running(e)' = Running(e)
    BY <2>2 DEF Running
  <2>5. ASSUME NEW e \in Exports, Stale(e), record[e].status # "deleted"
        PROVE  Bump(job[e].retries) <= crashes
    <3>1. job[e].retries < crashes
      BY <2>5 DEF Stale, Charged
    <3>2. QED
      BY <1>t, <3>1, BumpStep
  <2>6. QED
    BY <1>p, <2>1, <2>2, <2>3, <2>4, <2>5 DEF Charged
<1>19. ASSUME CleanupStaleFailedJobs PROVE Charged'
  <2>1. \A e \in Exports : \/ job'[e] = job[e]
                           \/ job'[e].status = "absent" /\ job'[e].retries = 0
    BY <1>19 DEF CleanupStaleFailedJobs, NoJob
  <2>2. UNCHANGED <<record, proc, crashes>>
    BY <1>19 DEF CleanupStaleFailedJobs
  <2>3. \A e \in Exports : Running(e)' = Running(e)
    BY <2>2 DEF Running
  <2>4. QED
    BY <1>t, <1>p, <2>1, <2>2, <2>3 DEF Charged
<1>20. ASSUME NEW e \in Exports, Age(e) PROVE Charged'
  <2>1. ~Running(e) /\ UNCHANGED <<record, crashes>>
    BY <1>20 DEF Age
  <2>2. \A f \in Exports : /\ job'[f].status = job[f].status
                           /\ job'[f].retries = job[f].retries
                           /\ f # e => job'[f] = job[f]
    BY <1>20, <1>t DEF Age, Job
  <2>3. ASSUME NEW p \in Processes
        PROVE  /\ proc'[p].pc = proc[p].pc /\ proc'[p].on = proc[p].on
               /\ proc[p].row = NoRow => proc'[p].row = NoRow
               /\ proc'[p].row # NoRow =>
                     /\ proc'[p].row.retries = proc[p].row.retries
                     /\ proc[p].on # e => proc'[p].row = proc[p].row
    <3>1. CASE proc[p].on = e /\ proc[p].row # NoRow
      <4>1. proc'[p] = [proc[p] EXCEPT !.row = [proc[p].row EXCEPT !.old = TRUE]]
        BY <1>20, <1>t, <3>1 DEF Age
      <4>2. proc[p] \in Locals /\ proc[p].row \in Job
        BY <1>t, <3>1 DEF Locals
      <4>3. proc'[p].row = [proc[p].row EXCEPT !.old = TRUE]
        BY <4>1, <4>2 DEF Locals
      <4>4. proc'[p].row.retries = proc[p].row.retries
        BY <4>2, <4>3 DEF Job
      <4>5. proc'[p].pc = proc[p].pc /\ proc'[p].on = proc[p].on
        BY <4>1, <4>2 DEF Locals
      <4>6. QED
        BY <3>1, <4>4, <4>5
    <3>2. CASE ~(proc[p].on = e /\ proc[p].row # NoRow)
      BY <1>20, <1>t, <3>2 DEF Age
    <3>3. QED
      BY <3>1, <3>2
  <2>4. \A f \in Exports : Running(f)' = Running(f)
    BY <1>p, <2>3 DEF Running
  <2>5. \A w \in Workers : proc[w].pc # "idle" => proc[w].on # e
    BY <2>1 DEF Running
  <2>6. QED
    BY <1>p, <2>1, <2>2, <2>3, <2>4, <2>5 DEF Charged
<1>21. ASSUME NEW e \in Exports, BackoffElapses(e) PROVE Charged'
  <2>1. \A f \in Exports : /\ job'[f].status = job[f].status
                           /\ job'[f].retries = job[f].retries
                           /\ job'[f].old = job[f].old
    BY <1>21, <1>t DEF BackoffElapses, Job
  <2>2. UNCHANGED <<record, proc, crashes>>
    BY <1>21 DEF BackoffElapses
  <2>3. \A f \in Exports : Running(f)' = Running(f)
    BY <2>2 DEF Running
  <2>4. QED
    BY <1>p, <2>1, <2>2, <2>3 DEF Charged
<1>22. QED
  BY <1>1, <1>2, <1>3, <1>4, <1>5, <1>6, <1>7, <1>8, <1>9, <1>10, <1>11, <1>12, <1>13,
     <1>14, <1>15, <1>16, <1>17, <1>18, <1>19, <1>20, <1>21 DEF Next, HandlerStep, WorkerStep

\* Every reachable state of a system with one slot and short runs keeps the account.
LEMMA ChargeInvariance == Spec => [](SingleSlot /\ ~SlowRuns => ChargeInv)
<1>1. Init => ChargeInv
  BY ChargeInit
<1>2. TypeInv /\ TypeInv' /\ StrandInv /\ (SingleSlot /\ ~SlowRuns => ChargeInv) /\ [Next]_vars
          => (SingleSlot /\ ~SlowRuns => ChargeInv')
  <2> SUFFICES ASSUME TypeInv, TypeInv', StrandInv, [Next]_vars, SingleSlot, ~SlowRuns,
                      ChargeInv, retried' = 0
               PROVE  Charged'
    BY DEF ChargeInv
  <2>1. retried = 0
    BY RetriesOnlyGrow
  <2>2. QED
    BY <2>1, ChargeStep DEF ChargeInv
<1>3. Init => TypeInv
  BY TypeInit
<1>4. TypeInv /\ [Next]_vars => TypeInv'
  BY TypeStep
<1>5. (SingleSlot /\ ~SlowRuns => ChargeInv)' <=> (SingleSlot /\ ~SlowRuns => ChargeInv')
  BY DEF SingleSlot
<1>6. QED
  BY <1>1, <1>2, <1>3, <1>4, <1>5, StrandInvariance, PTL DEF Spec

\* An accepted export without a verdict that nobody works on has a job that will run:
\* queued, or processing with budget left for the sweep unless workers have died more
\* often than the budget allows.  With any number of slots and runs of any length as long
\* as nothing has crashed, and with one slot and runs shorter than 30 minutes whatever
\* crashes.  With more slots and a crash it may not: the run that dies can have reopened
\* the record of one that failed.
THEOREM NoneStranded ==
    Spec => [](crashes = 0 \/ (SingleSlot /\ ~SlowRuns) => NothingStranded)
<1>1. ASSUME TypeInv, StrandInv, NEW e \in Exports, retried = 0, crashes = 0,
             Accepted(e), ~Running(e), record[e].status \in {"queued", "processing"}
      PROVE  job[e].status = "queued"
  <2>1. record[e].status = "queued"
    BY <1>1 DEF StrandInv, Attended, Running, Opened
  <2>2. job[e].status # "processing"
    BY <1>1, <2>1 DEF StrandInv, Attended, Running, Before
  <2>3. QED
    BY <1>1, <2>1, <2>2 DEF StrandInv, Untouched, Accepted, Waiting
<1>2. ASSUME TypeInv, StrandInv, SingleSlot /\ ~SlowRuns => ChargeInv, SingleSlot, ~SlowRuns,
             NEW e \in Exports, retried = 0,
             Accepted(e), ~Running(e), record[e].status \in {"queued", "processing"}
      PROVE  \/ job[e].status = "queued"
             \/ /\ job[e].status = "processing"
                /\ job[e].retries < RetryBudget \/ crashes > RetryBudget
  <2>1. job[e].status \in {"queued", "processing"}
    BY <1>2 DEF StrandInv, Untouched, JobWaits, Accepted, Waiting
  <2>2. job[e].status = "processing" => job[e].retries < crashes
    BY <1>2 DEF ChargeInv, Charged
  <2>3. job[e].retries \in Nat /\ crashes \in Nat /\ RetryBudget \in Nat
    BY <1>2, BudgetAssumption, BoundsAssumption DEF TypeInv, TypeOK, Job
  <2>4. QED
    BY <2>1, <2>2, <2>3
<1>3. TypeInv /\ StrandInv /\ (SingleSlot /\ ~SlowRuns => ChargeInv)
          => (crashes = 0 \/ (SingleSlot /\ ~SlowRuns) => NothingStranded)
  BY <1>1, <1>2 DEF NothingStranded
<1>4. Init => TypeInv
  BY TypeInit
<1>5. TypeInv /\ [Next]_vars => TypeInv'
  BY TypeStep
<1>6. QED
  BY StrandInvariance, ChargeInvariance, <1>3, <1>4, <1>5, PTL DEF Spec

-----------------------------------------------------------------------------
(* The storage keys, when updates of a record may interleave.              *)

\* A copy of a record that is about to be written back has its storage_key.
KeyInv ==
    retried = 0 =>
        \A w \in Workers :
            proc[w].pc \in RecordUpdates /\ proc[w].rec # NoRow /\ record[proc[w].on].stored
            => proc[w].rec.stored

\* With one slot and before the first retry only the worker writes old copies of records,
\* and only the worker gives a record its key: no copy it holds misses one.
LEMMA KeyStep ==
    ASSUME SingleSlot, TypeInv, StrandInv, KeyInv, [Next]_vars, retried = 0
    PROVE  /\ KeyInv'
           /\ \A e \in Exports :
                  record[e].stored => record'[e].stored \/ record'[e].status = "deleted"
<1> DEFINE Keeps ==
      \A e \in Exports : record[e].stored => record'[e].stored \/ record'[e].status = "deleted"
<1> SUFFICES KeyInv' /\ Keeps
  OBVIOUS
<1>t. /\ record \in [Exports -> Record]
      /\ job \in [Exports -> Job]
      /\ proc \in [Processes -> Locals]
  BY DEF TypeInv, TypeOK
<1>p. /\ Workers \subseteq Processes /\ Handlers \subseteq Processes
      /\ \A h \in Handlers : h \notin Workers
      /\ \A q \in Processes : proc[q].pc # "idle" => proc[q].on \in Exports
  BY ProcessTypes, ProcessAssumption DEF TypeInv, Placed
<1>1. ASSUME UNCHANGED <<record, retried>>,
             \A w \in Workers : \/ proc'[w] = proc[w]
                                \/ proc'[w].rec = NoRow
                                \/ proc'[w].pc \notin RecordUpdates
      PROVE  KeyInv' /\ Keeps
  BY <1>1 DEF KeyInv
<1>2. ASSUME NEW q \in Processes, UNCHANGED <<record, retried>>,
             Return(q) \/ \E pc : Goto(q, pc)
      PROVE  KeyInv' /\ Keeps
  <2>1. \A r \in Processes : proc'[r] = proc[r] \/ proc'[r].rec = NoRow
    <3>1. CASE Return(q)
      BY <1>2, <1>t, <3>1 DEF Return, Idle
    <3>2. ASSUME NEW pc, Goto(q, pc) PROVE \A r \in Processes : r # q => proc'[r] = proc[r]
      BY <1>2, <1>t, <3>2 DEF Goto
    <3>3. ASSUME NEW pc, Goto(q, pc) PROVE proc'[q].rec = NoRow
      <4>1. proc[q] \in Locals
        BY <1>2, <1>t
      <4>2. proc'[q] = [proc[q] EXCEPT !.pc = pc, !.rec = NoRow, !.row = NoRow]
        BY <1>2, <1>t, <3>3 DEF Goto
      <4>3. QED
        BY <4>1, <4>2 DEF Locals
    <3>4. QED
      BY <1>2, <3>1, <3>2, <3>3
  <2>2. QED
    BY <1>1, <1>2, <1>p, <2>1
\* The one worker writes a record, and drops its copy.
<1>3. ASSUME NEW w \in Workers, NEW pc, Goto(w, pc), Keeps, retried' = retried
      PROVE  KeyInv' /\ Keeps
  <2>1. proc'[w].rec = NoRow
    BY <1>3, <1>t, <1>p DEF Goto, Locals
  <2>2. \A v \in Workers : v = w
    BY DEF SingleSlot
  <2>3. QED
    BY <1>3, <2>1, <2>2 DEF KeyInv
<1>4. ASSUME NEW h \in Handlers, NEW e \in Exports, RequestExport(h, e) PROVE KeyInv' /\ Keeps
  <2>1. /\ \A w \in Workers : proc'[w] = proc[w]
        /\ retried' = retried
    BY <1>4, <1>t, <1>p DEF RequestExport
  <2>2. \A f \in Exports : record'[f].stored = record[f].stored
    BY <1>4, <1>t DEF RequestExport, Record
  <2>3. \A w \in Workers : proc[w].pc \in RecordUpdates => proc[w].on \in Exports
    BY <1>p DEF RecordUpdates
  <2>4. QED
    BY <2>1, <2>2, <2>3 DEF KeyInv
<1>5. ASSUME NEW h \in Handlers, NEW e \in Exports, RetryExport(h, e) PROVE KeyInv' /\ Keeps
  <2>1. \A w \in Workers : proc'[w] = proc[w]
    BY <1>5, <1>t, <1>p DEF RetryExport
  <2>2. retried' # 0 /\ record' = record
    BY <1>5 DEF RetryExport
  <2>3. QED
    BY <2>2 DEF KeyInv
<1>6. ASSUME NEW h \in Handlers, HandlerStep(h) PROVE KeyInv' /\ Keeps
  <2>1. proc[h].pc \in {"idle", "save_job", "enqueue"}
    BY DEF StrandInv, OnlyRequests
  <2>2. SaveJob(h) \/ Enqueue(h)
    BY <1>6, <2>1 DEF HandlerStep, Check, Reopen, Requeue, RegenerateRecord, RegenerateJob, At
  <2>3. QED
    BY <2>2, <1>p, <1>2 DEF SaveJob, Enqueue
<1>7. ASSUME NEW w \in Workers, NEW e \in Exports, Claim(w, e) PROVE KeyInv' /\ Keeps
  <2>1. \A v \in Workers : proc'[v] = proc[v] \/ proc'[v].pc \notin RecordUpdates
    BY <1>7, <1>t, <1>p DEF Claim, Locals, RecordUpdates
  <2>2. QED
    BY <1>1, <1>7, <2>1 DEF Claim
<1>8. ASSUME NEW w \in Workers,
             \/ Load(w) \/ Render(w) \/ Persist(w) \/ PutObject(w) \/ CompleteJob(w)
             \/ RecordEvent(w) \/ RunFails(w) \/ FailJob(w)
      PROVE  KeyInv' /\ Keeps
  BY <1>8, <1>p, <1>2 DEF Load, Render, Persist, PutObject, CompleteJob, RecordEvent, RunFails,
     FailJob
<1>9. ASSUME NEW w \in Workers, Begin(w) \/ FailRecord(w) PROVE KeyInv' /\ Keeps
  <2>1. proc[w].pc \in {"begin", "fail_record"} /\ proc[w].on \in Exports
    BY <1>9, <1>p DEF Begin, FailRecord, At
  <2>2. Exists(proc[w].on) /\ record[proc[w].on].stored => Rec(w).stored
    BY <1>9, <2>1 DEF Begin, FailRecord, At, Rec, KeyInv, RecordUpdates
  <2>3. Exists(proc[w].on) => Rec(w) \in Record
    BY <1>9, <2>1, <1>p, ReadTypes DEF Begin, FailRecord, RecordUpdates
  <2>4. \E s : WriteStatus(w, s)
    BY <1>9 DEF Begin, FailRecord
  <2>5. Keeps
    BY <1>t, <2>1, <2>2, <2>3, <2>4 DEF WriteStatus, Record
  <2>6. QED
    BY <1>9, <1>3, <2>5 DEF Begin, FailRecord
<1>10. ASSUME NEW w \in Workers, CompleteRecord(w) PROVE KeyInv' /\ Keeps
  <2>1. Keeps
    BY <1>10, <1>t DEF CompleteRecord
  <2>2. QED
    BY <1>10, <1>3, <2>1 DEF CompleteRecord
<1>11. ASSUME NEW p \in Processes, Read(p) PROVE KeyInv' /\ Keeps
  <2>1. UNCHANGED <<record, retried>>
    BY <1>11 DEF Read
  <2>2. ASSUME NEW w \in Workers, proc'[w].pc \in RecordUpdates, proc'[w].rec # NoRow,
               record[proc'[w].on].stored
        PROVE  proc'[w].rec.stored
    <3>1. CASE proc'[w] = proc[w]
      BY <2>2, <3>1 DEF KeyInv
    <3>2. CASE w = p
      <4>1. \/ proc'[w].rec = proc[w].rec /\ proc'[w].pc = proc[w].pc /\ proc'[w].on = proc[w].on
            \/ proc'[w].rec = record[proc[w].on] /\ proc'[w].on = proc[w].on
        BY <1>11, <1>t, <3>2 DEF Read, Locals
      <4>2. QED
        BY <2>2, <4>1 DEF KeyInv
    <3>3. QED
      BY <1>11, <1>t, <1>p, <3>1, <3>2 DEF Read
  <2>3. QED
    BY <2>1, <2>2 DEF KeyInv
<1>12. ASSUME NEW p \in Processes, Crash(p) PROVE KeyInv' /\ Keeps
  BY <1>12, <1>2 DEF Crash
<1>13. ASSUME \/ ListExpired \/ AbortSweep \/ RecoverStaleProcessingJobs
              \/ CleanupStaleFailedJobs
              \/ \E e \in Exports : DeleteObject(e) \/ BackoffElapses(e) \/ Expire(e)
              \/ UNCHANGED vars
       PROVE  KeyInv' /\ Keeps
  BY <1>13, <1>1 DEF ListExpired, AbortSweep, RecoverStaleProcessingJobs,
     CleanupStaleFailedJobs, DeleteObject, BackoffElapses, Expire, vars
<1>14. ASSUME NEW e \in Exports, DeleteRecord(e) PROVE KeyInv' /\ Keeps
  <2>1. /\ \A f \in Exports : \/ record'[f] = record[f]
                              \/ record'[f].status = "deleted" /\ ~record'[f].stored
        /\ UNCHANGED <<proc, retried>>
    BY <1>14, <1>t DEF DeleteRecord
  <2>2. \A w \in Workers : proc[w].pc \in RecordUpdates => proc[w].on \in Exports
    BY <1>p DEF RecordUpdates
  <2>3. QED
    BY <2>1, <2>2 DEF KeyInv
<1>15. ASSUME NEW e \in Exports, Age(e) PROVE KeyInv' /\ Keeps
  <2>1. \A w \in Workers : /\ proc'[w].pc = proc[w].pc
                           /\ proc'[w].on = proc[w].on
                           /\ proc'[w].rec = proc[w].rec
    BY <1>15, <1>t, <1>p DEF Age, Locals
  <2>2. QED
    BY <1>15, <2>1 DEF Age, KeyInv
<1>16. QED
  BY <1>4, <1>5, <1>6, <1>7, <1>8, <1>9, <1>10, <1>11, <1>12, <1>13, <1>14, <1>15
     DEF Next, WorkerStep

\* With a single slot no record loses its storage_key before it is deleted until somebody
\* retries, also when the updates interleave.  A second run, or the request that reopens
\* the record for a retry, can write back a copy from before its completion.
THEOREM OneSlotKeepsKeys == ASSUME SingleSlot PROVE Spec => KeyKept
<1>1. Init => KeyInv
  BY ProcessTypes DEF Init, KeyInv, Idle
<1>2. TypeInv /\ StrandInv /\ KeyInv /\ [Next]_vars => KeyInv'
  <2> SUFFICES ASSUME TypeInv, StrandInv, KeyInv, [Next]_vars PROVE KeyInv'
    OBVIOUS
  <2>1. CASE retried = 0
    BY <2>1, KeyStep
  <2>2. CASE retried # 0
    BY <2>2, RetriesOnlyGrow DEF KeyInv
  <2>3. QED
    BY <2>1, <2>2
<1>3. TypeInv /\ StrandInv /\ KeyInv /\ [Next]_vars =>
          (retried = 0 => \A e \in Exports :
              record[e].stored => record'[e].stored \/ record'[e].status = "deleted")
  BY KeyStep
<1>4. Init => TypeInv
  BY TypeInit
<1>5. TypeInv /\ [Next]_vars => TypeInv'
  BY TypeStep
<1>6. QED
  BY <1>1, <1>2, <1>3, <1>4, <1>5, StrandInvariance, PTL DEF Spec, KeyKept
=============================================================================

------------------------ MODULE AnalysisQueueProofs ------------------------
(***************************************************************************)
(* Theorems about AnalysisQueue, for every number of analyses, workers and *)
(* handlers, every retry budget, and every bound on retries and crashes.   *)
(***************************************************************************)
EXTENDS AnalysisQueue, TLAPS

USE DEF usageVars

-----------------------------------------------------------------------------
(* Rows.                                                                   *)

\* A charged budget stays within its cap.
LEMMA BumpType ==
    ASSUME NEW cap \in Nat, NEW n \in 0..cap
    PROVE  Bump(n, cap) \in 0..cap /\ Bump(n, cap) >= n
BY DEF Bump

\* Every update of a job row yields a job row.
LEMMA RowTypes ==
    ASSUME NEW r \in JobRow, NEW n \in 0..MaxAttempts
    PROVE  /\ EnqueuedRow(r) \in JobRow
           /\ ClaimedRow(r) \in JobRow
           /\ CompletedRow(r) \in JobRow
           /\ FailedRow(r) \in JobRow
           /\ RetriedRow(r, n) \in JobRow
           /\ RecoveredRow(r) \in JobRow
<1>1. EnqueuedRow(r) \in JobRow
  BY DEF EnqueuedRow, JobRow
<1>2. ClaimedRow(r) \in JobRow
  <2>1. [r EXCEPT !.status = "processing", !.leased = TRUE] \in JobRow
    BY DEF JobRow
  <2>2. \A s \in JobRow, n2 \in 0..3 : [s EXCEPT !.age = n2] \in JobRow
    BY DEF JobRow
  <2>3. ClaimedRow(r) = [[r EXCEPT !.status = "processing", !.leased = TRUE] EXCEPT !.age = 0]
    BY DEF ClaimedRow
  <2>4. 0 \in 0..3
    OBVIOUS
  <2>5. QED
    BY <2>1, <2>2, <2>3, <2>4, Zenon
<1>3. CompletedRow(r) \in JobRow
  BY DEF CompletedRow, JobRow
<1> DEFINE retryCount == Bump(r.retries, MaxAttempts)
<1>b. retryCount \in 0..MaxAttempts
  BY MaxAttemptsAssumption, BumpType DEF JobRow
<1> HIDE DEF retryCount
<1>4. FailedRow(r) \in JobRow
  <2>1. FailedRow(r) = [r EXCEPT !.status = IF retryCount >= MaxAttempts
                                            THEN "dead_letter" ELSE "failed",
                                 !.retries = retryCount,
                                 !.leased = FALSE]
    BY DEF FailedRow, retryCount
  <2>2. QED
    BY <1>b, <2>1 DEF JobRow
<1>5. RetriedRow(r, n) \in JobRow
  <2>1. MaxAttempts \in 0..MaxAttempts
    BY MaxAttemptsAssumption
  <2>2. DeadLetterRow(r) \in JobRow
    BY <2>1 DEF DeadLetterRow, JobRow
  <2>3. [r EXCEPT !.status = "queued", !.retries = n, !.available = FALSE, !.leased = FALSE]
          \in JobRow
    BY DEF JobRow
  <2>4. QED
    BY <2>2, <2>3 DEF RetriedRow
<1>6. RecoveredRow(r) \in JobRow
  <2>1. RecoveredRow(r) = [r EXCEPT !.status = "queued", !.available = TRUE,
                                    !.retries = retryCount]
    BY DEF RecoveredRow, retryCount
  <2>2. QED
    BY <1>b, <2>1 DEF JobRow
<1>7. QED
  BY <1>1, <1>2, <1>3, <1>4, <1>5, <1>6

\* The row that a new job is saved with.
LEMMA NewJobRow ==
    /\ NoJob \in JobRow
    /\ [NoJob EXCEPT !.status = "queued", !.available = TRUE] \in JobRow
<1>1. NoJob \in JobRow
  BY MaxAttemptsAssumption DEF NoJob, JobRow
<1>2. QED
  BY <1>1 DEF JobRow

\* Every update of a sound job row yields a sound one.
LEMMA RowsStaySound ==
    ASSUME NEW r \in JobRow, RowSound(r), NEW n \in 0..MaxAttempts
    PROVE  /\ RowSound(EnqueuedRow(r))
           /\ RowSound(ClaimedRow(r))
           /\ RowSound(CompletedRow(r))
           /\ RowSound(FailedRow(r))
           /\ RowSound(RetriedRow(r, n))
           /\ RowSound(RecoveredRow(r))
<1>1. RowSound(EnqueuedRow(r))
  BY DEF RowSound, EnqueuedRow, JobRow
<1>2. RowSound(ClaimedRow(r))
  BY DEF RowSound, ClaimedRow, JobRow
<1>3. RowSound(CompletedRow(r))
  BY DEF RowSound, CompletedRow, JobRow
<1>4. RowSound(FailedRow(r))
  BY MaxAttemptsAssumption DEF RowSound, FailedRow, JobRow, Bump
<1>5. RowSound(RetriedRow(r, n))
  BY MaxAttemptsAssumption DEF RowSound, RetriedRow, DeadLetterRow, JobRow
<1>6. RowSound(RecoveredRow(r))
  BY DEF RowSound, RecoveredRow, JobRow
<1>7. QED
  BY <1>1, <1>2, <1>3, <1>4, <1>5, <1>6

-----------------------------------------------------------------------------
(* Type correctness.                                                       *)

\* A busy process works on an analysis, and moveToStep is called Steps times.
Placed ==
    \A p \in Processes :
        /\ proc[p].pc # "idle" => proc[p].on \in Analyses
        /\ proc[p].pc \in {"idle", "begin", "step"} => proc[p].step < Steps

TypeInv == TypeOK /\ Placed

\* The empty tables are of their types.
LEMMA TypeInit == Init => TypeInv
<1> SUFFICES ASSUME Init PROVE TypeInv
  OBVIOUS
<1>1. NoJob \in JobRow
  BY NewJobRow
<1>2. Idle \in Locals /\ Idle.step < Steps /\ Idle.pc = "idle"
  BY StepsAssumption, MaxAttemptsAssumption DEF Idle, Locals, WorkerPcs, HandlerPcs
<1>3. /\ analysis \in [Analyses -> AnalysisRow] /\ job \in [Analyses -> JobRow]
      /\ proc \in [Processes -> Locals] /\ Placed
  BY <1>1, <1>2 DEF Init, Placed, AnalysisRow
<1>4. retried \in 0..MaxRetries /\ crashes \in 0..MaxCrashes
  BY BoundsAssumption DEF Init
<1>5. /\ usage \in SUBSET Analyses /\ increment \in (SUBSET Analyses) \cup {NoRow}
      /\ contended \in BOOLEAN
  BY Zenon DEF Init
<1>6. QED
  BY <1>3, <1>4, <1>5 DEF TypeInv, TypeOK

\* The row and the analysis that an update works on are well typed.
LEMMA ReadTypes ==
    ASSUME TypeInv, NEW p \in Processes, NEW pc, pc # "idle", At(p, pc)
    PROVE  /\ proc[p].on \in Analyses
           /\ pc \in JobUpdates => Row(p) \in JobRow
           /\ pc \in AnalysisUpdates => Doc(p) \in AnalysisRow
           /\ pc = "count_usage" => Counts(p) \in SUBSET Analyses
<1>1. proc[p] \in Locals /\ proc[p].on \in Analyses
  BY DEF TypeInv, TypeOK, Placed, At
<1>2. ASSUME pc \in JobUpdates PROVE Row(p) \in JobRow
  BY <1>1, <1>2, ModesAssumption DEF TypeInv, TypeOK, At, Row, Locals
<1>3. ASSUME pc \in AnalysisUpdates PROVE Doc(p) \in AnalysisRow
  BY <1>1, <1>3, ModesAssumption DEF TypeInv, TypeOK, At, Doc, Locals
<1>4. ASSUME pc = "count_usage" PROVE Counts(p) \in SUBSET Analyses
  BY <1>1, <1>4, ModesAssumption DEF TypeInv, TypeOK, At, Counts, Locals
<1>5. QED
  BY <1>1, <1>2, <1>3, <1>4

\* Writing a job row keeps the table of jobs.
LEMMA WriteRowType ==
    ASSUME TypeInv, NEW p \in Processes, proc[p].on \in Analyses,
           NEW r \in JobRow, WriteRow(p, r)
    PROVE  job' \in [Analyses -> JobRow]
BY DEF TypeInv, TypeOK, WriteRow

\* Writing an analysis keeps the table of analyses.
LEMMA WriteDocType ==
    ASSUME TypeInv, NEW p \in Processes, proc[p].on \in Analyses,
           NEW d \in AnalysisRow, WriteDoc(p, d)
    PROVE  analysis' \in [Analyses -> AnalysisRow]
BY DEF TypeInv, TypeOK, WriteDoc

\* Going to a program counter that is busy and needs no count of steps.
LEMMA GotoType ==
    ASSUME TypeInv, NEW p \in Processes, proc[p].on \in Analyses,
           NEW pc \in (WorkerPcs \cup HandlerPcs) \ {"idle"},
           pc \in {"begin", "step"} => proc[p].step < Steps,
           Goto(p, pc)
    PROVE  proc' \in [Processes -> Locals] /\ Placed'
<1>1. proc[p] \in Locals
  BY DEF TypeInv, TypeOK
<1>2. proc'[p] \in Locals
  BY <1>1 DEF Goto, TypeInv, TypeOK, Locals
<1>3. proc' \in [Processes -> Locals]
  BY <1>2 DEF Goto, TypeInv, TypeOK
<1>4. Placed'
  BY <1>1 DEF Goto, TypeInv, TypeOK, Placed, Locals
<1>5. QED
  BY <1>3, <1>4

\* A process that ends is idle and well typed.
LEMMA ReturnType ==
    ASSUME TypeInv, NEW p \in Processes, Return(p)
    PROVE  proc' \in [Processes -> Locals] /\ Placed'
<1>1. Idle \in Locals /\ Idle.step < Steps /\ Idle.pc = "idle"
  BY StepsAssumption, MaxAttemptsAssumption DEF Idle, Locals, WorkerPcs, HandlerPcs
<1>2. QED
  BY <1>1 DEF Return, TypeInv, TypeOK, Placed

\* One step of a handler.
LEMMA TypeHandlerStep ==
    ASSUME TypeInv, NEW h \in Handlers, HandlerStep(h)
    PROVE  TypeInv'
<1> h \in Processes
  BY DEF Processes
<1> USE DEF TypeInv, TypeOK
<1>1. CASE SaveJob(h)
  <2>1. proc[h].on \in Analyses
    BY <1>1 DEF SaveJob, At, Placed
  <2>2. [NoJob EXCEPT !.status = "queued", !.available = TRUE] \in JobRow
    BY NewJobRow
  <2>3. proc' \in [Processes -> Locals] /\ Placed'
    <3>1. "enqueue" \in (WorkerPcs \cup HandlerPcs) \ {"idle"} /\ Goto(h, "enqueue")
      BY <1>1 DEF SaveJob, HandlerPcs
    <3>2. QED
      BY <2>1, <3>1, GotoType
  <2>4. QED
    BY <1>1, <2>2, <2>3 DEF SaveJob
<1>2. CASE Enqueue(h)
  <2>1. proc[h].on \in Analyses /\ Row(h) \in JobRow
    BY <1>2, ReadTypes DEF Enqueue, JobUpdates
  <2>2. EnqueuedRow(Row(h)) \in JobRow
    BY <2>1 DEF EnqueuedRow, JobRow
  <2>3. job' \in [Analyses -> JobRow]
    BY <1>2, <2>1, <2>2, WriteRowType DEF Enqueue
  <2>4. proc' \in [Processes -> Locals] /\ Placed'
    BY <1>2, ReturnType DEF Enqueue
  <2>5. QED
    BY <1>2, <2>3, <2>4 DEF Enqueue
<1>3. CASE ReadJob(h)
  <2>1. proc[h].on \in Analyses /\ proc[h].pc = "read_job" /\ proc[h] \in Locals
    BY <1>3 DEF ReadJob, At, Placed
  <2>2. CASE job[proc[h].on].status = "absent"
    BY <1>3, <2>2, ReturnType DEF ReadJob
  <2>3. CASE job[proc[h].on].status # "absent"
    <3> DEFINE n == Bump(job[proc[h].on].retries, MaxAttempts)
    <3>1. n \in 0..MaxAttempts
      BY <2>1, BumpType, MaxAttemptsAssumption DEF JobRow
    <3> HIDE DEF n
    <3>2. proc' = [proc EXCEPT ![h].pc = "reopen", ![h].count = n]
      BY <1>3, <2>3 DEF ReadJob, n
    <3>3. proc'[h] \in Locals /\ proc'[h].on = proc[h].on /\ proc'[h].pc = "reopen"
      BY <2>1, <3>1, <3>2 DEF Locals, HandlerPcs
    <3>4. proc' \in [Processes -> Locals]
      BY <3>2, <3>3
    <3>5. Placed'
      BY <2>1, <3>2, <3>3 DEF Placed
    <3>6. QED
      BY <1>3, <3>4, <3>5 DEF ReadJob
  <2>4. QED
    BY <2>2, <2>3
<1>4. CASE Reopen(h)
  <2>1. proc[h].on \in Analyses /\ Doc(h) \in AnalysisRow
    BY <1>4, ReadTypes DEF Reopen, AnalysisUpdates
  <2>2. [Doc(h) EXCEPT !.status = "queued"] \in AnalysisRow
    BY <2>1 DEF AnalysisRow
  <2>3. analysis' \in [Analyses -> AnalysisRow]
    BY <1>4, <2>1, <2>2, WriteDocType DEF Reopen
  <2>4. proc' \in [Processes -> Locals] /\ Placed'
    BY <1>4, <2>1, GotoType DEF Reopen, HandlerPcs
  <2>5. QED
    BY <1>4, <2>3, <2>4 DEF Reopen
<1>5. CASE Requeue(h)
  <2>1. proc[h].on \in Analyses /\ Row(h) \in JobRow
    BY <1>5, ReadTypes DEF Requeue, JobUpdates
  <2>2. proc[h].count \in 0..MaxAttempts
    BY DEF Locals
  <2>3. RetriedRow(Row(h), proc[h].count) \in JobRow
    BY <2>1, <2>2, RowTypes
  <2>4. job' \in [Analyses -> JobRow]
    BY <1>5, <2>1, <2>3, WriteRowType DEF Requeue
  <2>5. proc' \in [Processes -> Locals] /\ Placed'
    BY <1>5, ReturnType DEF Requeue
  <2>6. QED
    BY <1>5, <2>4, <2>5 DEF Requeue
<1>6. QED
  BY <1>1, <1>2, <1>3, <1>4, <1>5 DEF HandlerStep

\* One step of a worker.
LEMMA TypeWorkerStep ==
    ASSUME TypeInv, NEW w \in Workers, WorkerStep(w)
    PROVE  TypeInv'
<1> w \in Processes
  BY DEF Processes
<1> USE DEF TypeInv, TypeOK
<1>1. ASSUME NEW a \in Analyses, Claim(w, a) PROVE TypeInv'
  <2>1. proc[w] \in Locals /\ proc[w].step < Steps
    BY <1>1 DEF Claim, Placed
  <2>2. ClaimedRow(job[a]) \in JobRow
    BY RowTypes, MaxAttemptsAssumption
  <2>3. proc' = [proc EXCEPT ![w].pc = "begin", ![w].on = a]
    BY <1>1 DEF Claim
  <2>4. proc'[w] \in Locals /\ proc'[w].on = a /\ proc'[w].step = proc[w].step
    BY <2>1, <2>3 DEF Locals, WorkerPcs
  <2>5. proc' \in [Processes -> Locals]
    BY <2>3, <2>4
  <2>6. Placed'
    BY <2>1, <2>3, <2>4 DEF Placed
  <2>7. job' \in [Analyses -> JobRow]
    BY <1>1, <2>2 DEF Claim
  <2>8. QED
    BY <1>1, <2>5, <2>6, <2>7 DEF Claim
<1>2. CASE LoadFails(w)
  <2>1. proc[w].on \in Analyses
    BY <1>2 DEF LoadFails, Placed
  <2>2. proc' \in [Processes -> Locals] /\ Placed'
    BY <1>2, <2>1, GotoType DEF LoadFails, WorkerPcs
  <2>3. QED
    BY <1>2, <2>2 DEF LoadFails
<1>3. CASE Begin(w)
  <2>1. proc[w].on \in Analyses /\ Doc(w) \in AnalysisRow /\ proc[w].step < Steps
    BY <1>3, ReadTypes DEF Begin, AnalysisUpdates, At, Placed
  <2>2. [Doc(w) EXCEPT !.status = "processing"] \in AnalysisRow
    BY <2>1 DEF AnalysisRow
  <2>3. analysis' \in [Analyses -> AnalysisRow]
    BY <1>3, <2>1, <2>2, WriteDocType DEF Begin
  <2>4. proc' \in [Processes -> Locals] /\ Placed'
    BY <1>3, <2>1, GotoType DEF Begin, WorkerPcs
  <2>5. QED
    BY <1>3, <2>3, <2>4 DEF Begin
<1>4. CASE MoveToStep(w)
  <2>1. proc[w].on \in Analyses /\ Row(w) \in JobRow /\ proc[w].step < Steps
    BY <1>4, ReadTypes DEF MoveToStep, JobUpdates, At, Placed
  <2>2. job' \in [Analyses -> JobRow]
    BY <1>4, <2>1, WriteRowType DEF MoveToStep
  <2>3. proc[w] \in Locals /\ proc[w].step + 1 \in 0..Steps
    BY <2>1, StepsAssumption DEF Locals
  <2> DEFINE done == proc[w].step + 1
             pc == IF done = Steps THEN "save_result" ELSE "step"
  <2>4. proc' = [proc EXCEPT ![w].pc = pc, ![w].step = done,
                             ![w].doc = NoRow, ![w].row = NoRow]
    BY <1>4 DEF MoveToStep
  <2>5. pc \in WorkerPcs /\ done \in 0..Steps /\ (pc = "step" => done < Steps)
          /\ pc \notin {"idle", "begin"}
    BY <2>3, StepsAssumption DEF WorkerPcs
  <2> HIDE DEF done, pc
  <2>6. proc'[w] = [pc |-> pc, on |-> proc[w].on, step |-> done, count |-> proc[w].count,
                    doc |-> NoRow, row |-> NoRow, counts |-> proc[w].counts]
    BY <2>3, <2>4 DEF Locals
  <2>7. proc'[w] \in Locals
    BY <2>3, <2>5, <2>6 DEF Locals
  <2>8. proc' \in [Processes -> Locals]
    BY <2>4, <2>7
  <2>9. Placed'
    BY <2>1, <2>4, <2>5, <2>6 DEF Placed
  <2>10. QED
    BY <1>4, <2>2, <2>8, <2>9 DEF MoveToStep
<1>5. CASE RunFails(w)
  <2>1. proc[w].on \in Analyses
    BY <1>5 DEF RunFails, Placed
  <2>2. proc' \in [Processes -> Locals] /\ Placed'
    BY <1>5, <2>1, GotoType DEF RunFails, WorkerPcs
  <2>3. QED
    BY <1>5, <2>2 DEF RunFails
<1>6. CASE SaveResult(w)
  <2>1. proc[w].on \in Analyses /\ Doc(w) \in AnalysisRow
    BY <1>6, ReadTypes DEF SaveResult, AnalysisUpdates
  <2>2. [Doc(w) EXCEPT !.status = "completed", !.result = TRUE] \in AnalysisRow
    BY <2>1 DEF AnalysisRow
  <2>3. analysis' \in [Analyses -> AnalysisRow]
    BY <1>6, <2>1, <2>2, WriteDocType DEF SaveResult
  <2>4. proc' \in [Processes -> Locals] /\ Placed'
    BY <1>6, <2>1, GotoType DEF SaveResult, WorkerPcs
  <2>5. QED
    BY <1>6, <2>3, <2>4 DEF SaveResult
<1>7. CASE CountUsage(w)
  <2>1. proc[w].on \in Analyses
    BY <1>7 DEF CountUsage, At, Placed
  <2>2. proc' \in [Processes -> Locals] /\ Placed'
    BY <1>7, <2>1, GotoType DEF CountUsage, WorkerPcs
  <2>3. usage' \in SUBSET Analyses
    BY <1>7, <2>1, ReadTypes DEF CountUsage
  <2>4. QED
    BY <1>7, <2>2, <2>3 DEF CountUsage
<1>8. CASE CompleteJob(w)
  <2>1. proc[w].on \in Analyses /\ Row(w) \in JobRow
    BY <1>8, ReadTypes DEF CompleteJob, JobUpdates
  <2>2. CompletedRow(Row(w)) \in JobRow
    BY <2>1 DEF CompletedRow, JobRow
  <2>3. job' \in [Analyses -> JobRow]
    BY <1>8, <2>1, <2>2, WriteRowType DEF CompleteJob
  <2>4. proc' \in [Processes -> Locals] /\ Placed'
    BY <1>8, ReturnType DEF CompleteJob
  <2>5. QED
    BY <1>8, <2>3, <2>4 DEF CompleteJob
<1>9. CASE FailAnalysis(w)
  <2>1. proc[w].on \in Analyses /\ Doc(w) \in AnalysisRow
    BY <1>9, ReadTypes DEF FailAnalysis, AnalysisUpdates
  <2>2. [Doc(w) EXCEPT !.status = "failed"] \in AnalysisRow
    BY <2>1 DEF AnalysisRow
  <2>3. analysis' \in [Analyses -> AnalysisRow]
    BY <1>9, <2>1, <2>2, WriteDocType DEF FailAnalysis
  <2>4. proc' \in [Processes -> Locals] /\ Placed'
    BY <1>9, <2>1, GotoType DEF FailAnalysis, WorkerPcs
  <2>5. QED
    BY <1>9, <2>3, <2>4 DEF FailAnalysis
<1>10. CASE FailJob(w)
  <2>1. proc[w].on \in Analyses /\ Row(w) \in JobRow
    BY <1>10, ReadTypes DEF FailJob, JobUpdates
  <2>2. FailedRow(Row(w)) \in JobRow
    BY <2>1, RowTypes, MaxAttemptsAssumption
  <2>3. job' \in [Analyses -> JobRow]
    BY <1>10, <2>1, <2>2, WriteRowType DEF FailJob
  <2>4. proc' \in [Processes -> Locals] /\ Placed'
    BY <1>10, ReturnType DEF FailJob
  <2>5. QED
    BY <1>10, <2>3, <2>4 DEF FailJob
<1>11. CASE ReadUsage(w)
  <2>1. proc[w] \in Locals /\ proc[w].on \in Analyses /\ proc[w].pc = "count_usage"
    BY <1>11 DEF ReadUsage, Placed
  <2>2. proc'[w] = [proc[w] EXCEPT !.counts = usage]
    BY <1>11 DEF ReadUsage
  <2>3. proc'[w] \in Locals /\ proc'[w].on = proc[w].on /\ proc'[w].pc = "count_usage"
    BY <2>1, <2>2 DEF Locals
  <2>4. proc' \in [Processes -> Locals] /\ Placed'
    BY <1>11, <2>1, <2>3 DEF ReadUsage, Placed
  <2>5. contended' \in BOOLEAN
    BY <1>11 DEF ReadUsage, Counting
  <2>6. QED
    BY <1>11, <2>4, <2>5 DEF ReadUsage
<1>12. QED
  BY <1>1, <1>2, <1>3, <1>4, <1>5, <1>6, <1>7, <1>8, <1>9, <1>10, <1>11 DEF WorkerStep

\* One step of anybody.
LEMMA TypeNext == TypeInv /\ [Next]_vars => TypeInv'
<1> SUFFICES ASSUME TypeInv, [Next]_vars PROVE TypeInv'
  OBVIOUS
<1> USE DEF TypeInv, TypeOK
<1>1. ASSUME NEW h \in Handlers, NEW a \in Analyses, CreateAnalysis(h, a) PROVE TypeInv'
  <2>0. h \in Processes
    BY DEF Processes
  <2>1. proc' = [proc EXCEPT ![h].pc = "save_job", ![h].on = a] /\ proc[h] \in Locals
    BY <1>1, <2>0 DEF CreateAnalysis
  <2>2. proc'[h] \in Locals /\ proc'[h].on = a /\ proc'[h].pc = "save_job"
    BY <2>0, <2>1 DEF Locals, HandlerPcs
  <2>3. proc' \in [Processes -> Locals] /\ Placed'
    BY <2>0, <2>1, <2>2 DEF Placed
  <2>4. analysis' \in [Analyses -> AnalysisRow]
    BY <1>1 DEF CreateAnalysis, AnalysisRow
  <2>5. QED
    BY <1>1, <2>3, <2>4 DEF CreateAnalysis
<1>2. ASSUME NEW h \in Handlers, NEW a \in Analyses, RetryAnalysis(h, a) PROVE TypeInv'
  <2>0. h \in Processes
    BY DEF Processes
  <2>1. proc' = [proc EXCEPT ![h].pc = "read_job", ![h].on = a] /\ proc[h] \in Locals
    BY <1>2, <2>0 DEF RetryAnalysis
  <2>2. proc'[h] \in Locals /\ proc'[h].on = a /\ proc'[h].pc = "read_job"
    BY <2>0, <2>1 DEF Locals, HandlerPcs
  <2>3. proc' \in [Processes -> Locals] /\ Placed'
    BY <2>0, <2>1, <2>2 DEF Placed
  <2>4. retried' \in 0..MaxRetries
    BY <1>2, BoundsAssumption DEF RetryAnalysis
  <2>5. QED
    BY <1>2, <2>3, <2>4 DEF RetryAnalysis
<1>3. ASSUME NEW h \in Handlers, HandlerStep(h) PROVE TypeInv'
  BY <1>3, TypeHandlerStep
<1>4. ASSUME NEW w \in Workers, WorkerStep(w) PROVE TypeInv'
  BY <1>4, TypeWorkerStep
<1>5. ASSUME NEW p \in Processes, Read(p) PROVE TypeInv'
  <2>1. proc[p] \in Locals /\ proc[p].pc # "idle" /\ proc[p].on \in Analyses
    BY <1>5 DEF Read, JobUpdates, AnalysisUpdates, Placed
  <2>2. PICK d \in AnalysisRow \cup {NoRow}, r \in JobRow \cup {NoRow} :
          proc' = [proc EXCEPT ![p].doc = d, ![p].row = r]
    <3>1. CASE proc' = [proc EXCEPT ![p].row = job[proc[p].on]]
      <4>1. proc' = [proc EXCEPT ![p].doc = proc[p].doc, ![p].row = job[proc[p].on]]
        BY <3>1, <2>1 DEF Locals
      <4>2. QED
        BY <4>1, <2>1 DEF Locals
    <3>2. CASE proc' = [proc EXCEPT ![p].doc = analysis[proc[p].on]]
      <4>1. proc' = [proc EXCEPT ![p].doc = analysis[proc[p].on], ![p].row = proc[p].row]
        BY <3>2, <2>1 DEF Locals
      <4>2. QED
        BY <4>1, <2>1 DEF Locals
    <3>3. QED
      BY <1>5, <3>1, <3>2 DEF Read
  <2>3. proc'[p] = [proc[p] EXCEPT !.doc = d, !.row = r]
    BY <2>2
  <2>4. proc'[p] \in Locals
    BY <2>1, <2>3 DEF Locals
  <2>5. proc' \in [Processes -> Locals]
    BY <2>2, <2>4
  <2>6. Placed'
    BY <2>1, <2>2, <2>3 DEF Placed, Locals
  <2>7. QED
    BY <1>5, <2>5, <2>6 DEF Read
<1>6. ASSUME NEW p \in Processes, Crash(p) PROVE TypeInv'
  <2>1. crashes' \in 0..MaxCrashes
    BY <1>6, BoundsAssumption DEF Crash
  <2>2. QED
    BY <1>6, <2>1, ReturnType DEF Crash
<1>7. ASSUME NEW a \in Analyses, Age(a) PROVE TypeInv'
  <2>1. job' \in [Analyses -> JobRow]
    <3>1. [job[a] EXCEPT !.age = @ + 1] \in JobRow
      BY <1>7 DEF Age, JobRow
    <3>2. QED
      BY <1>7, <3>1 DEF Age
  <2>2. ASSUME NEW p \in Processes
        PROVE  proc'[p] \in Locals /\ proc'[p].pc = proc[p].pc
                 /\ proc'[p].on = proc[p].on /\ proc'[p].step = proc[p].step
    <3>1. CASE proc[p].on = a /\ proc[p].row # NoRow
      <4>1. proc[p] \in Locals /\ proc[p].row \in JobRow
        BY <3>1 DEF Locals
      <4> DEFINE n == Bump(proc[p].row.age, 3)
      <4>2. n \in 0..3
        BY <4>1, BumpType DEF JobRow
      <4> HIDE DEF n
      <4>3. proc'[p] = [proc[p] EXCEPT !.row = [proc[p].row EXCEPT !.age = n]]
        BY <1>7, <3>1, <4>1 DEF Age, n, Locals
      <4>4. [proc[p].row EXCEPT !.age = n] \in JobRow
        BY <4>1, <4>2 DEF JobRow
      <4>5. QED
        BY <4>1, <4>3, <4>4 DEF Locals
    <3>2. CASE ~(proc[p].on = a /\ proc[p].row # NoRow)
      BY <1>7, <3>2 DEF Age
    <3>3. QED
      BY <3>1, <3>2
  <2>3. proc' \in [Processes -> Locals]
    BY <1>7, <2>2 DEF Age
  <2>4. Placed'
    BY <2>2 DEF Placed
  <2>5. QED
    BY <1>7, <2>1, <2>3, <2>4 DEF Age
<1>8. ASSUME NEW a \in Analyses, BackoffElapses(a) PROVE TypeInv'
  <2>1. [job[a] EXCEPT !.available = TRUE] \in JobRow
    BY DEF JobRow
  <2>2. QED
    BY <1>8, <2>1 DEF BackoffElapses, Placed
<1>9. CASE RecoverStaleProcessingJobs
  <2>1. \A a \in Analyses : RecoveredRow(job[a]) \in JobRow
    BY RowTypes, MaxAttemptsAssumption
  <2>2. QED
    BY <1>9, <2>1 DEF RecoverStaleProcessingJobs, Placed
<1>10. CASE CleanupStaleFailedJobs
  <2>1. NoJob \in JobRow
    BY NewJobRow
  <2>2. QED
    BY <1>10, <2>1 DEF CleanupStaleFailedJobs, Placed
<1>11. CASE ReadIncrement \/ WriteIncrement
  <2>1. contended' \in BOOLEAN
    BY <1>11 DEF ReadIncrement, WriteIncrement, Counting
  <2>2. usage' \in SUBSET Analyses /\ increment' \in (SUBSET Analyses) \cup {NoRow}
    BY <1>11 DEF ReadIncrement, WriteIncrement
  <2>3. QED
    BY <1>11, <2>1, <2>2 DEF ReadIncrement, WriteIncrement, Placed
<1>12. CASE UNCHANGED vars
  BY <1>12 DEF vars, usageVars, Placed
<1>13. QED
  BY <1>1, <1>2, <1>3, <1>4, <1>5, <1>6, <1>7, <1>8, <1>9, <1>10, <1>11, <1>12 DEF Next

\* The tables and the locals of the processes keep their types in every
\* behaviour of the pipeline.
THEOREM TypeCorrect == Spec => []TypeOK
<1>1. Init => TypeInv
  BY TypeInit
<1>2. TypeInv /\ [Next]_vars => TypeInv'
  BY TypeNext
<1>3. TypeInv => TypeOK
  BY DEF TypeInv
<1>4. QED
  BY <1>1, <1>2, <1>3, PTL DEF Spec

-----------------------------------------------------------------------------
(* No job is stranded: the rows of the table, and every copy of a row that *)
(* a process may still write back, are sound.                              *)

CopiesSound == \A p \in Processes : proc[p].row # NoRow => RowSound(proc[p].row)

SoundInv == TypeInv /\ JobsSound /\ CopiesSound

\* Writing a sound row leaves every row sound.
LEMMA WriteSound ==
    ASSUME SoundInv, NEW p \in Processes, proc[p].on \in Analyses,
           NEW r \in JobRow, RowSound(r), WriteRow(p, r)
    PROVE  JobsSound'
BY DEF SoundInv, TypeInv, TypeOK, JobsSound, WriteRow

\* The copy a process reads of a sound table is sound.
LEMMA ReadSound ==
    ASSUME SoundInv, NEW p \in Processes, NEW pc \in JobUpdates, At(p, pc)
    PROVE  proc[p].on \in Analyses /\ Row(p) \in JobRow /\ RowSound(Row(p))
<1>1. pc # "idle"
  BY DEF JobUpdates
<1>2. proc[p].on \in Analyses /\ Row(p) \in JobRow
  BY <1>1, ReadTypes DEF SoundInv
<1>3. RowSound(Row(p))
  BY <1>2, ModesAssumption DEF SoundInv, JobsSound, CopiesSound, Row, At
<1>4. QED
  BY <1>2, <1>3

\* A process that leaves its update keeps no copy.
LEMMA LeaveSound ==
    ASSUME SoundInv, NEW p \in Processes, NEW pc, Goto(p, pc) \/ Return(p)
    PROVE  CopiesSound'
<1>1. proc[p] \in Locals /\ proc \in [Processes -> Locals]
  BY DEF SoundInv, TypeInv, TypeOK
<1>2. proc'[p].row = NoRow /\ \A q \in Processes \ {p} : proc'[q] = proc[q]
  BY <1>1 DEF Goto, Return, Idle, Locals
<1>3. QED
  BY <1>2 DEF SoundInv, CopiesSound

\* A request keeps rows and copies sound.
LEMMA SoundHandlerStep ==
    ASSUME SoundInv, NEW h \in Handlers, HandlerStep(h)
    PROVE  JobsSound' /\ CopiesSound'
<1>0. h \in Processes /\ proc[h] \in Locals /\ proc \in [Processes -> Locals]
  BY DEF Processes, SoundInv, TypeInv, TypeOK
<1>1. CASE SaveJob(h)
  <2>1. RowSound([NoJob EXCEPT !.status = "queued", !.available = TRUE])
    BY DEF RowSound, NoJob
  <2>2. JobsSound'
    BY <1>1, <2>1 DEF SaveJob, SoundInv, TypeInv, TypeOK, JobsSound
  <2>3. QED
    BY <1>0, <1>1, <2>2, LeaveSound DEF SaveJob
<1>2. CASE Enqueue(h)
  <2>1. proc[h].on \in Analyses /\ Row(h) \in JobRow /\ RowSound(Row(h))
    BY <1>0, <1>2, ReadSound DEF Enqueue, JobUpdates
  <2>2. EnqueuedRow(Row(h)) \in JobRow /\ RowSound(EnqueuedRow(Row(h)))
    BY <2>1, RowTypes, RowsStaySound, MaxAttemptsAssumption
  <2>3. QED
    BY <1>0, <1>2, <2>1, <2>2, WriteSound, LeaveSound DEF Enqueue
<1>3. CASE ReadJob(h)
  <2>1. CopiesSound'
    <3>1. CASE Return(h)
      BY <1>0, <3>1, LeaveSound
    <3>2. CASE \E n : proc' = [proc EXCEPT ![h].pc = "reopen", ![h].count = n]
      <4>1. \A p \in Processes : proc'[p].row = proc[p].row
        BY <1>0, <3>2 DEF Locals
      <4>2. QED
        BY <4>1 DEF SoundInv, CopiesSound
    <3>3. QED
      BY <1>3, <3>1, <3>2 DEF ReadJob
  <2>2. QED
    BY <1>3, <2>1 DEF ReadJob, SoundInv, JobsSound
<1>4. CASE Reopen(h)
  BY <1>0, <1>4, LeaveSound DEF Reopen, SoundInv, JobsSound
<1>5. CASE Requeue(h)
  <2>1. proc[h].on \in Analyses /\ Row(h) \in JobRow /\ RowSound(Row(h))
    BY <1>0, <1>5, ReadSound DEF Requeue, JobUpdates
  <2>2. proc[h].count \in 0..MaxAttempts
    BY <1>0 DEF Locals
  <2>3. RetriedRow(Row(h), proc[h].count) \in JobRow
          /\ RowSound(RetriedRow(Row(h), proc[h].count))
    BY <2>1, <2>2, RowTypes, RowsStaySound
  <2>4. QED
    BY <1>0, <1>5, <2>1, <2>3, WriteSound, LeaveSound DEF Requeue
<1>6. QED
  BY <1>1, <1>2, <1>3, <1>4, <1>5 DEF HandlerStep

\* A step of a worker keeps rows and copies sound.
LEMMA SoundWorkerStep ==
    ASSUME SoundInv, NEW w \in Workers, WorkerStep(w)
    PROVE  JobsSound' /\ CopiesSound'
<1>0. w \in Processes /\ proc[w] \in Locals /\ proc \in [Processes -> Locals]
  BY DEF Processes, SoundInv, TypeInv, TypeOK
<1>1. ASSUME NEW a \in Analyses, Claim(w, a) PROVE JobsSound' /\ CopiesSound'
  <2>1. RowSound(ClaimedRow(job[a]))
    BY RowsStaySound, MaxAttemptsAssumption DEF SoundInv, TypeInv, TypeOK, JobsSound
  <2>2. JobsSound'
    BY <1>1, <2>1 DEF Claim, SoundInv, TypeInv, TypeOK, JobsSound
  <2>3. \A p \in Processes : proc'[p].row = proc[p].row
    BY <1>0, <1>1 DEF Claim, Locals
  <2>4. QED
    BY <2>2, <2>3 DEF SoundInv, CopiesSound
<1>2. CASE MoveToStep(w)
  <2>1. proc[w].on \in Analyses /\ Row(w) \in JobRow /\ RowSound(Row(w))
    BY <1>0, <1>2, ReadSound DEF MoveToStep, JobUpdates
  <2>2. JobsSound'
    BY <1>0, <1>2, <2>1, WriteSound DEF MoveToStep
  <2>3. proc'[w].row = NoRow /\ \A q \in Processes \ {w} : proc'[q] = proc[q]
    BY <1>0, <1>2 DEF MoveToStep, Locals
  <2>4. QED
    BY <2>2, <2>3 DEF SoundInv, CopiesSound
<1>3. CASE CompleteJob(w)
  <2>1. proc[w].on \in Analyses /\ Row(w) \in JobRow /\ RowSound(Row(w))
    BY <1>0, <1>3, ReadSound DEF CompleteJob, JobUpdates
  <2>2. CompletedRow(Row(w)) \in JobRow /\ RowSound(CompletedRow(Row(w)))
    BY <2>1, RowTypes, RowsStaySound, MaxAttemptsAssumption
  <2>3. QED
    BY <1>0, <1>3, <2>1, <2>2, WriteSound, LeaveSound DEF CompleteJob
<1>4. CASE FailJob(w)
  <2>1. proc[w].on \in Analyses /\ Row(w) \in JobRow /\ RowSound(Row(w))
    BY <1>0, <1>4, ReadSound DEF FailJob, JobUpdates
  <2>2. FailedRow(Row(w)) \in JobRow /\ RowSound(FailedRow(Row(w)))
    BY <2>1, RowTypes, RowsStaySound, MaxAttemptsAssumption
  <2>3. QED
    BY <1>0, <1>4, <2>1, <2>2, WriteSound, LeaveSound DEF FailJob
<1>5. CASE LoadFails(w) \/ Begin(w) \/ RunFails(w) \/ SaveResult(w) \/ CountUsage(w)
             \/ FailAnalysis(w)
  <2>1. UNCHANGED job /\ \E pc : Goto(w, pc)
    BY <1>5 DEF LoadFails, Begin, RunFails, SaveResult, CountUsage, FailAnalysis
  <2>2. QED
    BY <1>0, <2>1, LeaveSound DEF SoundInv, JobsSound
<1>6. CASE ReadUsage(w)
  <2>1. \A p \in Processes : proc'[p].row = proc[p].row
    BY <1>0, <1>6 DEF ReadUsage, Locals
  <2>2. QED
    BY <1>6, <2>1 DEF ReadUsage, SoundInv, JobsSound, CopiesSound
<1>7. QED
  BY <1>1, <1>2, <1>3, <1>4, <1>5, <1>6 DEF WorkerStep

\* So does every step of the system.
LEMMA SoundNext == SoundInv /\ [Next]_vars => SoundInv'
<1> SUFFICES ASSUME SoundInv, [Next]_vars PROVE JobsSound' /\ CopiesSound'
  BY TypeNext DEF SoundInv
<1>0. proc \in [Processes -> Locals] /\ job \in [Analyses -> JobRow]
  BY DEF SoundInv, TypeInv, TypeOK
<1>1. ASSUME NEW h \in Handlers, NEW a \in Analyses,
             CreateAnalysis(h, a) \/ RetryAnalysis(h, a)
      PROVE  JobsSound' /\ CopiesSound'
  <2>1. \A p \in Processes : proc'[p].row = proc[p].row
    BY <1>0, <1>1 DEF CreateAnalysis, RetryAnalysis, Locals
  <2>2. QED
    BY <1>1, <2>1 DEF CreateAnalysis, RetryAnalysis, SoundInv, JobsSound, CopiesSound
<1>2. ASSUME NEW h \in Handlers, HandlerStep(h) PROVE JobsSound' /\ CopiesSound'
  BY <1>2, SoundHandlerStep
<1>3. ASSUME NEW w \in Workers, WorkerStep(w) PROVE JobsSound' /\ CopiesSound'
  BY <1>3, SoundWorkerStep
<1>4. ASSUME NEW p \in Processes, Read(p) PROVE JobsSound' /\ CopiesSound'
  <2>1. proc[p].on \in Analyses
    BY <1>4 DEF Read, JobUpdates, AnalysisUpdates, SoundInv, TypeInv, Placed
  <2>2. \A q \in Processes : proc'[q].row = proc[q].row \/ proc'[q].row = job[proc[p].on]
    BY <1>0, <1>4 DEF Read, Locals
  <2>3. QED
    BY <1>4, <2>1, <2>2 DEF Read, SoundInv, JobsSound, CopiesSound
<1>5. ASSUME NEW p \in Processes, Crash(p) PROVE JobsSound' /\ CopiesSound'
  BY <1>5, LeaveSound DEF Crash, SoundInv, JobsSound
<1>6. ASSUME NEW a \in Analyses, Age(a) PROVE JobsSound' /\ CopiesSound'
  <2>1. RowSound([job[a] EXCEPT !.age = @ + 1])
    BY <1>0 DEF SoundInv, JobsSound, RowSound, JobRow
  <2>2. JobsSound'
    BY <1>0, <1>6, <2>1 DEF Age, SoundInv, JobsSound
  <2>3. ASSUME NEW p \in Processes, proc'[p].row # NoRow PROVE RowSound(proc'[p].row)
    <3>1. CASE proc[p].on = a /\ proc[p].row # NoRow
      <4>1. proc[p] \in Locals /\ proc[p].row \in JobRow /\ RowSound(proc[p].row)
        BY <1>0, <3>1 DEF Locals, SoundInv, CopiesSound
      <4>2. proc'[p].row = [proc[p].row EXCEPT !.age = Bump(@, 3)]
        BY <1>6, <3>1, <4>1 DEF Age, Locals
      <4>3. QED
        BY <4>1, <4>2 DEF RowSound, JobRow
    <3>2. CASE ~(proc[p].on = a /\ proc[p].row # NoRow)
      BY <1>6, <2>3, <3>2 DEF Age, SoundInv, CopiesSound
    <3>3. QED
      BY <3>1, <3>2
  <2>4. QED
    BY <2>2, <2>3 DEF CopiesSound
<1>7. ASSUME NEW a \in Analyses, BackoffElapses(a) PROVE JobsSound' /\ CopiesSound'
  <2>1. RowSound([job[a] EXCEPT !.available = TRUE])
    BY <1>0 DEF SoundInv, JobsSound, RowSound, JobRow
  <2>2. QED
    BY <1>0, <1>7, <2>1 DEF BackoffElapses, SoundInv, JobsSound, CopiesSound
<1>8. CASE RecoverStaleProcessingJobs
  <2>1. \A a \in Analyses : RowSound(RecoveredRow(job[a]))
    BY <1>0, RowsStaySound, MaxAttemptsAssumption DEF SoundInv, JobsSound
  <2>2. QED
    BY <1>8, <2>1 DEF RecoverStaleProcessingJobs, SoundInv, JobsSound, CopiesSound
<1>9. CASE CleanupStaleFailedJobs
  <2>1. RowSound(NoJob)
    BY DEF RowSound, NoJob
  <2>2. QED
    BY <1>9, <2>1 DEF CleanupStaleFailedJobs, SoundInv, JobsSound, CopiesSound
<1>10. CASE ReadIncrement \/ WriteIncrement \/ UNCHANGED vars
  BY <1>10 DEF ReadIncrement, WriteIncrement, vars, SoundInv, JobsSound, CopiesSound
<1>11. QED
  BY <1>1, <1>2, <1>3, <1>4, <1>5, <1>6, <1>7, <1>8, <1>9, <1>10 DEF Next

\* The empty tables are sound.
LEMMA SoundInit == Init => SoundInv
<1>1. RowSound(NoJob) /\ Idle.row = NoRow
  BY DEF RowSound, NoJob, Idle
<1>2. QED
  BY <1>1, TypeInit DEF Init, SoundInv, JobsSound, CopiesSound

\* In every behaviour, with any number of workers, overrun leases, crashes,
\* sweeps and stale copies written back, no job row is left in a status from
\* which claimNextQueued would never take it up again.
THEOREM JobsStaySound == Spec => []JobsSound
<1>1. Init => SoundInv
  BY SoundInit
<1>2. SoundInv /\ [Next]_vars => SoundInv'
  BY SoundNext
<1>3. SoundInv => JobsSound
  BY DEF SoundInv
<1>4. QED
  BY <1>1, <1>2, <1>3, PTL DEF Spec

-----------------------------------------------------------------------------
(* Reports, as long as no stale copy of an analysis is written back, which *)
(* holds while a single slot works and nobody retries.  Otherwise a result *)
(* can get lost: one run reads the analysis to set it to processing, the   *)
(* other stores the result and the first writes its copy back.             *)

\* No copy that is about to be written back differs from its row in what the delivery
\* of a report depends on.
Faithful ==
    \A p \in Processes :
        /\ \A pc \in AnalysisUpdates : At(p, pc) => Doc(p).result = analysis[proc[p].on].result
        /\ At(p, "step") => (Row(p).status = "completed" <=> job[proc[p].on].status = "completed")

\* Until increments of the row of the counters meet, one process at most holds a copy of
\* it, and the copy is the row.
UsageFresh ==
    /\ increment # NoRow => /\ SplitUpdates
                            /\ increment = usage
                            /\ \A w \in Workers : proc[w].counts = NoRow
    /\ \A w \in Workers : proc[w].counts # NoRow =>
          /\ proc[w].counts = usage
          /\ \A v \in Workers : proc[v].counts # NoRow => v = w

\* Why a worker that is about to complete a job has a counted report.
ReportInv ==
    /\ CompletedJobHasReport
    /\ contended \/ UsageFresh
    /\ \A p \in Processes :
          /\ proc[p].pc = "count_usage" => analysis[proc[p].on].result
          /\ proc[p].pc = "complete_job" =>
                analysis[proc[p].on].result /\ (proc[p].on \in usage \/ contended)

\* What no step but SaveResult, CountUsage and CompleteJob and those of the other
\* increments can do.
ReportsKept ==
    /\ usage' = usage /\ increment' = increment /\ contended' = contended
    /\ \A p \in Processes : proc'[p].counts \in {proc[p].counts, NoRow}
    /\ \A a \in Analyses : analysis'[a].result = analysis[a].result
    /\ \A p \in Processes : proc'[p].pc \in {"count_usage", "complete_job"} =>
          proc'[p].pc = proc[p].pc /\ proc'[p].on = proc[p].on

\* A step that leaves the analyses as they are reported, but perhaps one.
StatusKept(S) ==
    \A a \in Analyses \ S : (job'[a].status = "completed") = (job[a].status = "completed")
Withdrawn(S) ==
    \A a \in S : job'[a].status = "completed" => job[a].status = "completed"
KeptBut(S) == ReportsKept /\ StatusKept(S) /\ Withdrawn(S)

AtMostOneWithdrawn == \E S \in SUBSET Analyses : (\A a, b \in S : a = b) /\ KeptBut(S)

\* A step that keeps report, usage and completed jobs keeps the invariant.
LEMMA KeptPreserves ==
    ASSUME TypeInv, ReportInv, AtMostOneWithdrawn
    PROVE  ReportInv'
<1>1. ReportsKept /\ \A a \in Analyses : job'[a].status = "completed"
                                            => job[a].status = "completed"
  BY DEF AtMostOneWithdrawn, KeptBut, StatusKept, Withdrawn
<1>2. ASSUME NEW q \in Processes, proc[q].pc # "idle" PROVE proc[q].on \in Analyses
  BY <1>2 DEF TypeInv, Placed
<1>3. UsageFresh => UsageFresh'
  BY <1>1 DEF UsageFresh, ReportsKept, Processes
<1>4. QED
  BY <1>1, <1>2, <1>3 DEF ReportInv, CompletedJobHasReport, ReportsKept

\* Such a step leaves the stage of every report, or withdraws it.
LEMMA KeptStage ==
    ASSUME AtMostOneWithdrawn
    PROVE  [Delivery!Next]_[a \in Analyses |-> Stage(a)]
<1> DEFINE stage == [a \in Analyses |-> Stage(a)]
<1>1. PICK S \in SUBSET Analyses : (\A a, b \in S : a = b) /\ KeptBut(S)
  BY DEF AtMostOneWithdrawn
<1>2. \A a \in Analyses \ S : Stage(a)' = Stage(a)
  BY <1>1 DEF KeptBut, ReportsKept, StatusKept, Stage
<1>3. \A a \in S : Stage(a)' = Stage(a) \/ (Stage(a) = "delivered" /\ Stage(a)' = "stored")
  BY <1>1 DEF KeptBut, ReportsKept, Withdrawn, Stage
<1>4. CASE \E a \in S : Stage(a)' # Stage(a)
  <2>1. PICK a \in S : Stage(a) = "delivered" /\ Stage(a)' = "stored"
    BY <1>3, <1>4
  <2>2. \A b \in Analyses \ {a} : Stage(b)' = Stage(b)
    BY <1>1, <1>2
  <2>3. stage' = [stage EXCEPT ![a] = "stored"]
    BY <2>1, <2>2
  <2>4. Delivery!Withdraw(a)
    BY <2>1, <2>3 DEF Delivery!Withdraw
  <2>5. QED
    BY <2>4 DEF Delivery!Next
<1>5. CASE \A a \in S : Stage(a)' = Stage(a)
  <2>1. \A a \in Analyses : Stage(a)' = Stage(a)
    BY <1>2, <1>5
  <2>2. QED
    BY <2>1
<1>6. QED
  BY <1>4, <1>5

\* Writing a row of one analysis, without completing its job.
LEMMA WriteKeeps ==
    ASSUME TypeInv, NEW p \in Processes, proc[p].on \in Analyses, NEW r,
           WriteRow(p, r), r.status # "completed", ReportsKept
    PROVE  AtMostOneWithdrawn
<1>1. KeptBut({proc[p].on})
  BY DEF TypeInv, TypeOK, WriteRow, KeptBut, StatusKept, Withdrawn
<1>2. QED
  BY <1>1 DEF AtMostOneWithdrawn

\* Leaving the job rows as completed as they were.
LEMMA NothingWithdrawn ==
    ASSUME ReportsKept, StatusKept({})
    PROVE  AtMostOneWithdrawn
BY DEF AtMostOneWithdrawn, KeptBut, Withdrawn

\* A process that goes elsewhere than to the accounting of a report.
LEMMA LeaveKeeps ==
    ASSUME TypeInv, NEW p \in Processes,
           \/ Return(p)
           \/ \E pc : pc \notin {"count_usage", "complete_job"} /\ Goto(p, pc),
           UNCHANGED usageVars,
           \A a \in Analyses : analysis'[a].result = analysis[a].result
    PROVE  ReportsKept
<1>1. proc \in [Processes -> Locals] /\ proc[p] \in Locals
  BY DEF TypeInv, TypeOK
<1>2. proc'[p].pc \notin {"count_usage", "complete_job"}
  <2>1. CASE Return(p)
    BY <1>1, <2>1 DEF Return, Idle
  <2>2. ASSUME NEW pc, pc \notin {"count_usage", "complete_job"}, Goto(p, pc)
        PROVE  proc'[p].pc = pc
    BY <1>1, <2>2 DEF Goto, Locals
  <2>3. QED
    BY <2>1, <2>2
<1>3. \A q \in Processes \ {p} : proc'[q] = proc[q]
  BY <1>1 DEF Return, Goto
<1>4. proc'[p].counts = NoRow
  <2>1. CASE Return(p)
    BY <1>1, <2>1 DEF Return, Idle
  <2>2. ASSUME NEW pc, Goto(p, pc) PROVE proc'[p].counts = NoRow
    BY <1>1, <2>2 DEF Goto, Locals
  <2>3. QED
    BY <2>1, <2>2
<1>5. QED
  BY <1>2, <1>3, <1>4 DEF ReportsKept

\* No step of a request takes part in the delivery of a report.
LEMMA HandlerKeeps ==
    ASSUME Faithful, TypeInv, NEW h \in Handlers, HandlerStep(h)
    PROVE  AtMostOneWithdrawn
<1>0. h \in Processes /\ proc \in [Processes -> Locals] /\ proc[h] \in Locals
  BY DEF Processes, TypeInv, TypeOK
<1>1. CASE SaveJob(h)
  <2>1. ReportsKept
    BY <1>0, <1>1, LeaveKeeps DEF SaveJob
  <2>2. proc[h].on \in Analyses
    BY <1>0, <1>1 DEF SaveJob, At, TypeInv, Placed
  <2>3. KeptBut({proc[h].on})
    BY <1>1, <2>1, <2>2 DEF SaveJob, NoJob, KeptBut, StatusKept, Withdrawn, TypeInv, TypeOK
  <2>4. QED
    BY <2>2, <2>3 DEF AtMostOneWithdrawn
<1>2. CASE Enqueue(h)
  <2>1. proc[h].on \in Analyses /\ Row(h) \in JobRow
    BY <1>0, <1>2, ReadTypes DEF Enqueue, JobUpdates
  <2>2. ReportsKept
    BY <1>0, <1>2, LeaveKeeps DEF Enqueue
  <2>3. EnqueuedRow(Row(h)).status # "completed"
    BY <2>1 DEF EnqueuedRow, JobRow
  <2>4. QED
    BY <1>0, <1>2, <2>1, <2>2, <2>3, WriteKeeps DEF Enqueue
<1>3. CASE ReadJob(h)
  <2>1. ReportsKept
    <3>1. CASE Return(h)
      BY <1>0, <1>3, <3>1, LeaveKeeps DEF ReadJob
    <3>2. CASE \E n : proc' = [proc EXCEPT ![h].pc = "reopen", ![h].count = n]
      BY <1>0, <1>3, <3>2 DEF ReadJob, ReportsKept, Locals
    <3>3. QED
      BY <1>3, <3>1, <3>2 DEF ReadJob
  <2>2. QED
    BY <1>3, <2>1, NothingWithdrawn DEF ReadJob, StatusKept
<1>4. CASE Reopen(h)
  <2>1. /\ proc[h].on \in Analyses /\ Doc(h) \in AnalysisRow
        /\ Doc(h).result = analysis[proc[h].on].result
    BY <1>0, <1>4, ReadTypes DEF Reopen, AnalysisUpdates, Faithful
  <2>2. \A a \in Analyses : analysis'[a].result = analysis[a].result
    BY <1>4, <2>1 DEF Reopen, WriteDoc, TypeInv, TypeOK, AnalysisRow
  <2>3. ReportsKept
    BY <1>0, <1>4, <2>2, LeaveKeeps DEF Reopen
  <2>4. QED
    BY <1>4, <2>3, NothingWithdrawn DEF Reopen, StatusKept
<1>5. CASE Requeue(h)
  <2>1. proc[h].on \in Analyses /\ Row(h) \in JobRow
    BY <1>0, <1>5, ReadTypes DEF Requeue, JobUpdates
  <2>2. ReportsKept
    BY <1>0, <1>5, LeaveKeeps DEF Requeue
  <2>3. RetriedRow(Row(h), proc[h].count).status # "completed"
    BY <2>1 DEF RetriedRow, DeadLetterRow, JobRow
  <2>4. QED
    BY <1>0, <1>5, <2>1, <2>2, <2>3, WriteKeeps DEF Requeue
<1>6. QED
  BY <1>1, <1>2, <1>3, <1>4, <1>5 DEF HandlerStep

\* The steps of a worker that store, count or report nothing.
LEMMA WorkerKeeps ==
    ASSUME Faithful, TypeInv, NEW w \in Workers,
           \/ \E a \in Analyses : Claim(w, a)
           \/ LoadFails(w) \/ Begin(w) \/ MoveToStep(w) \/ RunFails(w)
           \/ FailAnalysis(w) \/ FailJob(w)
    PROVE  AtMostOneWithdrawn
<1>0. w \in Processes /\ proc \in [Processes -> Locals] /\ proc[w] \in Locals
  BY DEF Processes, TypeInv, TypeOK
<1>1. ASSUME NEW a \in Analyses, Claim(w, a) PROVE AtMostOneWithdrawn
  <2>1. ReportsKept
    BY <1>0, <1>1 DEF Claim, ReportsKept, Locals
  <2>2. job[a].status # "completed" /\ job'[a].status # "completed"
    BY <1>1 DEF Claim, Claimable, ClaimedRow, TypeInv, TypeOK, JobRow
  <2>3. StatusKept({})
    BY <1>1, <2>2 DEF Claim, StatusKept, TypeInv, TypeOK
  <2>4. QED
    BY <2>1, <2>3, NothingWithdrawn
<1>2. CASE LoadFails(w) \/ RunFails(w)
  <2>1. ReportsKept
    BY <1>0, <1>2, LeaveKeeps DEF LoadFails, RunFails
  <2>2. QED
    BY <1>2, <2>1, NothingWithdrawn DEF LoadFails, RunFails, StatusKept
<1>3. CASE Begin(w) \/ FailAnalysis(w)
  <2>1. /\ proc[w].on \in Analyses /\ Doc(w) \in AnalysisRow
        /\ Doc(w).result = analysis[proc[w].on].result
    BY <1>0, <1>3, ReadTypes DEF Begin, FailAnalysis, AnalysisUpdates, Faithful
  <2>2. \A a \in Analyses : analysis'[a].result = analysis[a].result
    BY <1>3, <2>1 DEF Begin, FailAnalysis, WriteDoc, TypeInv, TypeOK, AnalysisRow
  <2>3. ReportsKept
    BY <1>0, <1>3, <2>2, LeaveKeeps DEF Begin, FailAnalysis
  <2>4. QED
    BY <1>3, <2>3, NothingWithdrawn DEF Begin, FailAnalysis, StatusKept
<1>4. CASE MoveToStep(w)
  <2>1. /\ proc[w].on \in Analyses
        /\ Row(w).status = "completed" <=> job[proc[w].on].status = "completed"
    BY <1>0, <1>4, ReadTypes DEF MoveToStep, JobUpdates, Faithful
  <2>2. StatusKept({})
    BY <1>4, <2>1 DEF MoveToStep, WriteRow, StatusKept, TypeInv, TypeOK
  <2>3. /\ proc'[w].pc \in {"save_result", "step"} /\ proc'[w].counts = proc[w].counts
        /\ \A q \in Processes \ {w} : proc'[q] = proc[q]
    BY <1>0, <1>4 DEF MoveToStep, Locals
  <2>4. ReportsKept
    BY <1>4, <2>3 DEF MoveToStep, ReportsKept
  <2>5. QED
    BY <2>2, <2>4, NothingWithdrawn
<1>5. CASE FailJob(w)
  <2>1. proc[w].on \in Analyses /\ Row(w) \in JobRow
    BY <1>0, <1>5, ReadTypes DEF FailJob, JobUpdates
  <2>2. ReportsKept
    BY <1>0, <1>5, LeaveKeeps DEF FailJob
  <2>3. FailedRow(Row(w)).status # "completed"
    BY <2>1 DEF FailedRow, JobRow
  <2>4. QED
    BY <1>0, <1>5, <2>1, <2>2, <2>3, WriteKeeps DEF FailJob
<1>6. QED
  BY <1>1, <1>2, <1>3, <1>4, <1>5

\* The steps of the environment: time, sweeps, crashes, new requests.
LEMMA EnvironmentKeeps ==
    ASSUME Faithful, TypeInv,
           \/ \E h \in Handlers, a \in Analyses : CreateAnalysis(h, a) \/ RetryAnalysis(h, a)
           \/ \E p \in Processes : Read(p) \/ Crash(p)
           \/ \E a \in Analyses : Age(a) \/ BackoffElapses(a)
           \/ RecoverStaleProcessingJobs
           \/ CleanupStaleFailedJobs
           \/ UNCHANGED vars
    PROVE  AtMostOneWithdrawn
<1>0. /\ proc \in [Processes -> Locals]
      /\ analysis \in [Analyses -> AnalysisRow]
      /\ job \in [Analyses -> JobRow]
  BY DEF TypeInv, TypeOK
<1>1. ASSUME NEW h \in Handlers, NEW a \in Analyses,
             CreateAnalysis(h, a) \/ RetryAnalysis(h, a)
      PROVE  AtMostOneWithdrawn
  <2>1. h \in Processes /\ proc[h] \in Locals
    BY <1>0 DEF Processes
  <2>2. /\ proc'[h].pc \notin {"count_usage", "complete_job"}
        /\ proc'[h].counts = proc[h].counts
        /\ \A q \in Processes \ {h} : proc'[q] = proc[q]
    BY <1>0, <1>1, <2>1 DEF CreateAnalysis, RetryAnalysis, Locals
  <2>3. \A b \in Analyses : analysis'[b].result = analysis[b].result
    BY <1>0, <1>1 DEF CreateAnalysis, RetryAnalysis, AnalysisRow
  <2>4. ReportsKept
    BY <1>1, <2>2, <2>3 DEF CreateAnalysis, RetryAnalysis, ReportsKept
  <2>5. QED
    BY <1>1, <2>4, NothingWithdrawn DEF CreateAnalysis, RetryAnalysis, StatusKept
<1>2. ASSUME NEW p \in Processes, Read(p) PROVE AtMostOneWithdrawn
  <2>1. \A q \in Processes : /\ proc'[q].pc = proc[q].pc /\ proc'[q].on = proc[q].on
                             /\ proc'[q].counts = proc[q].counts
    BY <1>0, <1>2 DEF Read, Locals
  <2>2. QED
    BY <1>2, <2>1, NothingWithdrawn DEF Read, ReportsKept, StatusKept
<1>3. ASSUME NEW p \in Processes, Crash(p) PROVE AtMostOneWithdrawn
  BY <1>3, LeaveKeeps, NothingWithdrawn DEF Crash, StatusKept
<1>4. ASSUME NEW a \in Analyses, Age(a) PROVE AtMostOneWithdrawn
  <2>1. \A p \in Processes : /\ proc'[p].pc = proc[p].pc /\ proc'[p].on = proc[p].on
                             /\ proc'[p].counts = proc[p].counts
    BY <1>0, <1>4 DEF Age, Locals
  <2>2. \A b \in Analyses : job'[b].status = job[b].status
    BY <1>0, <1>4 DEF Age, JobRow
  <2>3. QED
    BY <1>4, <2>1, <2>2, NothingWithdrawn DEF Age, ReportsKept, StatusKept
<1>5. ASSUME NEW a \in Analyses, BackoffElapses(a) PROVE AtMostOneWithdrawn
  <2>1. \A b \in Analyses : job'[b].status = job[b].status
    BY <1>0, <1>5 DEF BackoffElapses, JobRow
  <2>2. QED
    BY <1>5, <2>1, NothingWithdrawn DEF BackoffElapses, ReportsKept, StatusKept
<1>6. CASE RecoverStaleProcessingJobs
  <2>1. \A a \in Analyses : job'[a].status = job[a].status
                              \/ (job[a].status = "processing" /\ job'[a].status = "queued")
    BY <1>0, <1>6 DEF RecoverStaleProcessingJobs, Stale, RecoveredRow, JobRow
  <2>2. QED
    BY <1>6, <2>1, NothingWithdrawn DEF RecoverStaleProcessingJobs, ReportsKept, StatusKept
<1>7. CASE CleanupStaleFailedJobs
  <2>1. \A a \in Analyses : job'[a].status = job[a].status
                              \/ (job[a].status = "failed" /\ job'[a].status = "absent")
    BY <1>0, <1>7 DEF CleanupStaleFailedJobs, Expired, NoJob
  <2>2. QED
    BY <1>7, <2>1, NothingWithdrawn DEF CleanupStaleFailedJobs, ReportsKept, StatusKept
<1>8. CASE UNCHANGED vars
  BY <1>8, NothingWithdrawn DEF vars, ReportsKept, StatusKept
<1>9. QED
  BY <1>1, <1>2, <1>3, <1>4, <1>5, <1>6, <1>7, <1>8

\* The three steps that store, count and report.
LEMMA SaveResultStep ==
    ASSUME Faithful, TypeInv, ReportInv, NEW w \in Workers, SaveResult(w)
    PROVE  ReportInv' /\ [Delivery!Next]_[a \in Analyses |-> Stage(a)]
<1>0. w \in Processes /\ proc \in [Processes -> Locals] /\ proc[w] \in Locals
  BY DEF Processes, TypeInv, TypeOK
<1>a. PICK a \in Analyses : a = proc[w].on
  BY <1>0 DEF SaveResult, At, TypeInv, Placed
<1>1. a \in Analyses /\ Doc(w) \in AnalysisRow /\ analysis \in [Analyses -> AnalysisRow]
  BY <1>0, <1>a, ReadTypes DEF SaveResult, AnalysisUpdates, TypeInv, TypeOK
<1>2. analysis'[a].result /\ \A b \in Analyses \ {a} : analysis'[b] = analysis[b]
  BY <1>1, <1>a DEF SaveResult, WriteDoc, AnalysisRow
<1>3. UNCHANGED <<job, usage, increment, contended>>
  BY DEF SaveResult
<1>4. proc'[w].pc = "count_usage" /\ proc'[w].on = a /\ proc'[w].counts = NoRow
        /\ \A q \in Processes \ {w} : proc'[q] = proc[q]
  BY <1>0, <1>a DEF SaveResult, Goto, Locals
<1>5. ASSUME NEW q \in Processes, proc[q].pc # "idle" PROVE proc[q].on \in Analyses
  BY <1>5 DEF TypeInv, Placed
<1>6. ReportInv'
  <2>1. \A v \in Workers : v \in Processes
    BY DEF Processes
  <2>2. UsageFresh => UsageFresh'
    BY <1>3, <1>4, <2>1 DEF UsageFresh
  <2>3. QED
    BY <1>1, <1>2, <1>3, <1>4, <1>5, <2>2 DEF ReportInv, CompletedJobHasReport
<1>7. \A b \in Analyses \ {a} : Stage(b)' = Stage(b)
  BY <1>2, <1>3 DEF Stage
<1>8. CASE analysis[a].result
  <2>1. Stage(a)' = Stage(a)
    BY <1>2, <1>3, <1>8 DEF Stage
  <2>2. QED
    BY <1>6, <1>7, <2>1
<1>9. CASE ~analysis[a].result
  <2>1. job[a].status # "completed"
    BY <1>1, <1>9 DEF ReportInv, CompletedJobHasReport
  <2>2. Stage(a) = "none" /\ Stage(a)' = "stored"
    BY <1>2, <1>3, <1>9, <2>1 DEF Stage
  <2>3. Delivery!Store(a)
    BY <1>1, <1>7, <2>2 DEF Delivery!Store
  <2>4. QED
    BY <1>1, <1>6, <2>3 DEF Delivery!Next
<1>10. QED
  BY <1>8, <1>9

\* Counting the analysis leaves the stages, and the analysis is counted, unless
\* increments have met.
LEMMA CountUsageStep ==
    ASSUME TypeInv, ReportInv, NEW w \in Workers, CountUsage(w)
    PROVE  ReportInv' /\ [Delivery!Next]_[a \in Analyses |-> Stage(a)]
<1>0. w \in Processes /\ proc \in [Processes -> Locals] /\ proc[w] \in Locals
  BY DEF Processes, TypeInv, TypeOK
<1>a. PICK a \in Analyses : a = proc[w].on
  BY <1>0 DEF CountUsage, At, TypeInv, Placed
<1>1. analysis[a].result
  BY <1>0, <1>a DEF CountUsage, At, ReportInv
<1>2. /\ usage' = Counts(w) \cup {a}
      /\ UNCHANGED <<analysis, job, increment, contended>>
  BY <1>a DEF CountUsage
<1>3. proc'[w].pc = "complete_job" /\ proc'[w].on = a /\ proc'[w].counts = NoRow
        /\ \A q \in Processes \ {w} : proc'[q] = proc[q]
  BY <1>0, <1>a DEF CountUsage, Goto, Locals
<1>4. ASSUME NEW q \in Processes, proc[q].pc # "idle" PROVE proc[q].on \in Analyses
  BY <1>4 DEF TypeInv, Placed
<1>5. \A v \in Workers : v \in Processes
  BY DEF Processes
<1>6. CASE contended
  BY <1>1, <1>2, <1>3, <1>4, <1>6 DEF ReportInv, CompletedJobHasReport, Stage
<1>7. CASE ~contended
  <2>1. UsageFresh /\ Counts(w) = usage
    <3>1. UsageFresh
      BY <1>7 DEF ReportInv
    <3>2. SplitUpdates => proc[w].counts # NoRow
      BY DEF CountUsage, At
    <3>3. QED
      BY <3>1, <3>2, ModesAssumption DEF UsageFresh, Counts
  <2>2. increment = NoRow /\ \A v \in Workers \ {w} : proc[v].counts = NoRow
    <3>1. CASE SplitUpdates
      <4>1. proc[w].counts # NoRow
        BY <3>1 DEF CountUsage, At
      <4>2. QED
        BY <2>1, <4>1 DEF UsageFresh
    <3>2. CASE ~SplitUpdates
      BY <2>1, <3>2, EmbeddedAssumption DEF UsageFresh
    <3>3. QED
      BY <3>1, <3>2
  <2>3. UsageFresh'
    BY <1>2, <1>3, <1>5, <2>2 DEF UsageFresh
  <2>4. QED
    BY <1>1, <1>2, <1>3, <1>4, <2>1, <2>3 DEF ReportInv, CompletedJobHasReport, Stage
<1>8. QED
  BY <1>6, <1>7

\* The steps of the other increments of the row, and the read of this one.
LEMMA IncrementStep ==
    ASSUME TypeInv, ReportInv,
           ReadIncrement \/ WriteIncrement \/ \E w \in Workers : ReadUsage(w)
    PROVE  ReportInv' /\ [Delivery!Next]_[a \in Analyses |-> Stage(a)]
<1>1. analysis' = analysis /\ job' = job
  BY DEF ReadIncrement, WriteIncrement, ReadUsage
<1>2. \A q \in Processes : proc'[q].pc = proc[q].pc /\ proc'[q].on = proc[q].on
  BY DEF ReadIncrement, WriteIncrement, ReadUsage, TypeInv, TypeOK, Locals
<1>3. /\ contended => contended'
      /\ contended \/ usage' = usage
      /\ contended' \/ UsageFresh'
  <2>0. /\ contended \in BOOLEAN /\ (contended \/ UsageFresh)
        /\ \A w \in Workers : w \in Processes
        /\ proc \in [Processes -> Locals]
    BY DEF ReportInv, TypeInv, TypeOK, Processes
  <2>1. CASE ReadIncrement
    BY <2>0, <2>1 DEF ReadIncrement, UsageFresh, Counting
  <2>2. CASE WriteIncrement
    BY <2>0, <2>2 DEF WriteIncrement, UsageFresh
  <2>3. ASSUME NEW w \in Workers, ReadUsage(w)
        PROVE  /\ contended => contended'
               /\ contended \/ usage' = usage
               /\ contended' \/ UsageFresh'
    <3>1. /\ proc'[w].counts = usage /\ \A q \in Processes \ {w} : proc'[q] = proc[q]
          /\ contended' = (contended \/ Counting)
          /\ usage' = usage /\ increment' = increment
      BY <2>0, <2>3 DEF ReadUsage, Locals
    <3>2. QED
      BY <2>0, <3>1 DEF UsageFresh, Counting
  <2>4. QED
    BY <2>1, <2>2, <2>3
<1>4. ASSUME NEW q \in Processes, proc[q].pc # "idle" PROVE proc[q].on \in Analyses
  BY <1>4 DEF TypeInv, Placed
<1>5. ReportInv'
  BY <1>1, <1>2, <1>3, <1>4 DEF ReportInv, CompletedJobHasReport
<1>6. QED
  BY <1>1, <1>5 DEF Stage

\* Completing the job is its Deliver.
LEMMA CompleteJobStep ==
    ASSUME Faithful, TypeInv, ReportInv, NEW w \in Workers, CompleteJob(w)
    PROVE  ReportInv' /\ [Delivery!Next]_[a \in Analyses |-> Stage(a)]
<1>0. w \in Processes /\ proc \in [Processes -> Locals] /\ proc[w] \in Locals
  BY DEF Processes, TypeInv, TypeOK
<1>a. PICK a \in Analyses : a = proc[w].on
  BY <1>0 DEF CompleteJob, At, TypeInv, Placed
<1>1. a \in Analyses /\ analysis[a].result /\ (a \in usage \/ contended)
  BY <1>0, <1>a DEF CompleteJob, At, ReportInv
<1>2. UNCHANGED <<analysis, usageVars>> /\ \A b \in Analyses \ {a} : job'[b] = job[b]
  BY <1>1, <1>a DEF CompleteJob, WriteRow, TypeInv, TypeOK
<1>3. proc'[w].pc = "idle" /\ proc'[w].counts = NoRow
        /\ \A q \in Processes \ {w} : proc'[q] = proc[q]
  BY <1>0 DEF CompleteJob, Return, Idle
<1>4. ASSUME NEW q \in Processes, proc[q].pc # "idle" PROVE proc[q].on \in Analyses
  BY <1>4 DEF TypeInv, Placed
<1>5. ReportInv'
  <2>1. \A v \in Workers : v \in Processes
    BY DEF Processes
  <2>2. UsageFresh => UsageFresh'
    BY <1>2, <1>3, <2>1 DEF UsageFresh
  <2>3. QED
    BY <1>1, <1>2, <1>3, <1>4, <2>2 DEF ReportInv, CompletedJobHasReport
<1>6. \A b \in Analyses \ {a} : Stage(b)' = Stage(b)
  BY <1>2 DEF Stage
<1>7. Stage(a) \in {"stored", "delivered"} /\ Stage(a)' \in {"stored", "delivered"}
  BY <1>1, <1>2 DEF Stage, TypeInv, TypeOK
<1>8. CASE Stage(a)' = Stage(a)
  BY <1>5, <1>6, <1>8
<1>9. CASE Stage(a) = "stored" /\ Stage(a)' = "delivered"
  <2>1. Delivery!Deliver(a)
    BY <1>1, <1>6, <1>9 DEF Delivery!Deliver
  <2>2. QED
    BY <1>1, <1>5, <2>1 DEF Delivery!Next
<1>10. CASE Stage(a) = "delivered" /\ Stage(a)' = "stored"
  <2>1. Delivery!Withdraw(a)
    BY <1>1, <1>6, <1>10 DEF Delivery!Withdraw
  <2>2. QED
    BY <1>1, <1>5, <2>1 DEF Delivery!Next
<1>11. QED
  BY <1>7, <1>8, <1>9, <1>10

\* Every step keeps the invariant and maps to a step of ReportDelivery or a stutter.
LEMMA ReportNext ==
    ASSUME Faithful, TypeInv, ReportInv, [Next]_vars
    PROVE  ReportInv' /\ [Delivery!Next]_[a \in Analyses |-> Stage(a)]
<1>1. CASE AtMostOneWithdrawn
  BY <1>1, KeptPreserves, KeptStage
<1>2. CASE \E h \in Handlers : HandlerStep(h)
  BY <1>1, <1>2, HandlerKeeps
<1>3. ASSUME NEW w \in Workers, WorkerStep(w)
      PROVE  ReportInv' /\ [Delivery!Next]_[a \in Analyses |-> Stage(a)]
  <2>1. CASE SaveResult(w)
    BY <2>1, SaveResultStep
  <2>2. CASE CountUsage(w)
    BY <2>2, CountUsageStep
  <2>3. CASE CompleteJob(w)
    BY <2>3, CompleteJobStep
  <2>4. CASE ReadUsage(w)
    BY <2>4, IncrementStep
  <2>5. CASE ~(SaveResult(w) \/ CountUsage(w) \/ CompleteJob(w) \/ ReadUsage(w))
    BY <1>1, <1>3, <2>5, WorkerKeeps DEF WorkerStep
  <2>6. QED
    BY <2>1, <2>2, <2>3, <2>4, <2>5
<1>4. CASE ReadIncrement \/ WriteIncrement
  BY <1>4, IncrementStep
<1>5. CASE ~(\/ \E h \in Handlers : HandlerStep(h)
             \/ \E w \in Workers : WorkerStep(w)
             \/ ReadIncrement \/ WriteIncrement)
  BY <1>1, <1>5, EnvironmentKeeps DEF Next
<1>6. QED
  BY <1>2, <1>3, <1>4, <1>5

\* The initial state maps to that of ReportDelivery.
LEMMA ReportInit == Init => ReportInv /\ Delivery!Init
<1> SUFFICES ASSUME Init PROVE ReportInv /\ Delivery!Init
  OBVIOUS
<1>1. Idle.pc = "idle" /\ NoJob.status = "absent"
  BY DEF Idle, NoJob
<1>2. ReportInv
  <2>1. \A p \in Processes : proc[p] = Idle
    BY DEF Init
  <2>2. Idle.counts = NoRow /\ \A w \in Workers : w \in Processes
    BY DEF Idle, Processes
  <2>3. QED
    BY <1>1, <2>1, <2>2 DEF Init, ReportInv, CompletedJobHasReport, UsageFresh
<1>3. \A a \in Analyses : Stage(a) = "none"
  BY DEF Init, Stage
<1>4. QED
  BY <1>2, <1>3 DEF Delivery!Init

-----------------------------------------------------------------------------
(* The two rows of an analysis agree, as long as nobody retries.  The      *)
(* invariant has three parts: what requests do, what a run does that is    *)
(* alone, and who carries an analysis on when no process dies.             *)

\* Until the first retry, the handlers only create analyses, each its own.
\* The job is saved after its analysis, and nobody works on an analysis that is
\* not there.
Created ==
    /\ \A p \in Processes : proc[p].pc = "idle" => proc[p].row = NoRow /\ proc[p].doc = NoRow
    /\ \A h \in Handlers : proc[h].pc \in {"idle", "save_job", "enqueue"}
    /\ \A h, g \in Handlers : h # g /\ proc[h].pc # "idle" /\ proc[g].pc # "idle"
                                => proc[h].on # proc[g].on
    /\ \A p \in Processes : proc[p].pc # "idle" => analysis[proc[p].on].status # "absent"
    /\ \A h \in Handlers : proc[h].pc = "save_job" => job[proc[h].on].status = "absent"
    /\ \A a \in Analyses : analysis[a].status = "absent" => job[a].status = "absent"

Pending == {"queued", "processing"}

\* One worker slot: the concurrency of the analysis worker in
\* deploy/README.worker.md:362.
SingleSlot == \A v, w \in Workers : v = w

\* While the only slot runs a job, the job has no outcome; nor has the copy that
\* the run writes back, its copy of the analysis is not stale, and the analysis
\* already has the status that the job is about to get.
RunAlone ==
    \A w \in Workers : proc[w].pc # "idle" =>
        /\ job[proc[w].on].status \in Pending
        /\ proc[w].row # NoRow => proc[w].row.status \in Pending
        /\ proc[w].doc # NoRow => proc[w].doc = analysis[proc[w].on]
        /\ proc[w].pc \in {"count_usage", "complete_job"} =>
              analysis[proc[w].on].status = "completed"
        /\ proc[w].pc = "fail_job" => analysis[proc[w].on].status = "failed"

RowsAgree ==
    \A a \in Analyses :
        /\ job[a].status = "completed" => analysis[a].status = "completed"
        /\ job[a].status \in {"failed", "dead_letter"} => analysis[a].status = "failed"

\* As long as no process dies, an analysis without a verdict was never run, and its
\* job is still to be claimed, or has a run that will give it one.
Carried ==
    \A a \in Analyses :
        /\ analysis[a].status = "queued" =>
              /\ job[a].status \in {"absent"} \cup Pending
              /\ \A w \in Workers : RunsOn(w, a) => proc[w].pc \in {"begin", "fail_analysis"}
        /\ analysis[a].status = "processing" =>
              \E w \in Workers :
                  RunsOn(w, a) /\ proc[w].pc \in {"step", "save_result", "fail_analysis"}

QuietInv ==
    /\ Created
    /\ SingleSlot => RunAlone /\ RowsAgree
    /\ crashes = 0 => Carried

\* What Goto leaves.
LEMMA GotoFacts ==
    ASSUME TypeInv, NEW p \in Processes, NEW pc, Goto(p, pc)
    PROVE  /\ proc'[p].pc = pc /\ proc'[p].on = proc[p].on
           /\ proc'[p].row = NoRow /\ proc'[p].doc = NoRow
           /\ \A q \in Processes \ {p} : proc'[q] = proc[q]
BY DEF TypeInv, TypeOK, Goto, Locals

\* What Return leaves.
LEMMA ReturnFacts ==
    ASSUME TypeInv, NEW p \in Processes, Return(p)
    PROVE  /\ proc'[p].pc = "idle" /\ proc'[p].row = NoRow /\ proc'[p].doc = NoRow
           /\ \A q \in Processes \ {p} : proc'[q] = proc[q]
BY DEF TypeInv, TypeOK, Return, Idle

\* A row is written over a row, and none is made.
LEMMA WriteRowFacts ==
    ASSUME TypeInv, NEW p \in Processes, proc[p].on \in Analyses, NEW r, WriteRow(p, r)
    PROVE  /\ \A b \in Analyses : b # proc[p].on => job'[b] = job[b]
           /\ job[proc[p].on].status = "absent" => job'[proc[p].on] = job[proc[p].on]
           /\ job[proc[p].on].status # "absent" => job'[proc[p].on] = r
BY DEF TypeInv, TypeOK, WriteRow

\* An analysis is written over that of the process.
LEMMA WriteDocFacts ==
    ASSUME TypeInv, NEW p \in Processes, proc[p].on \in Analyses, NEW d, WriteDoc(p, d)
    PROVE  /\ analysis'[proc[p].on] = d
           /\ \A b \in Analyses : b # proc[p].on => analysis'[b] = analysis[b]
BY DEF TypeInv, TypeOK, WriteDoc

\* A worker that makes no row keeps the first part of the invariant.
LEMMA CreatedByWorker ==
    ASSUME TypeInv, Created, NEW w \in Workers, NEW a \in Analyses,
           \A q \in Processes \ {w} : proc'[q] = proc[q],
           \A b \in Analyses \ {a} : /\ analysis'[b] = analysis[b]
                                     /\ job'[b].status = job[b].status,
           proc'[w].pc # "idle" => proc'[w].on = a,
           proc'[w].pc = "idle" => proc'[w].row = NoRow /\ proc'[w].doc = NoRow,
           analysis[a].status # "absent" /\ analysis'[a].status # "absent",
           job[a].status = "absent" => job'[a].status = "absent"
    PROVE  Created'
<1>1. \A h \in Handlers : h \in Processes /\ h # w /\ proc'[h] = proc[h]
  BY DisjointAssumption DEF Processes
<1>2. \A p \in Processes : proc[p].pc # "idle" => proc[p].on \in Analyses
  BY DEF TypeInv, Placed
<1>3. w \in Processes
  BY DEF Processes
<1>4. QED
  BY <1>1, <1>2, <1>3 DEF Created

\* One step of a worker, under the invariant.
LEMMA QuietWorkerStep ==
    ASSUME TypeInv, QuietInv, NEW w \in Workers, WorkerStep(w)
    PROVE  QuietInv'
<1>0. /\ w \in Processes /\ proc[w] \in Locals
      /\ job \in [Analyses -> JobRow] /\ analysis \in [Analyses -> AnalysisRow]
  BY DEF Processes, TypeInv, TypeOK
<1>p. \A v \in Workers : v \in Processes /\ (proc[v].pc # "idle" => proc[v].on \in Analyses)
  BY DEF Processes, TypeInv, Placed
<1>c. Created
  BY DEF QuietInv
<1>1. ASSUME NEW a \in Analyses, Claim(w, a) PROVE QuietInv'
  <2>1. /\ proc'[w].pc = "begin" /\ proc'[w].on = a
        /\ proc'[w].row = NoRow /\ proc'[w].doc = NoRow
        /\ proc[w].pc = "idle"
        /\ \A q \in Processes \ {w} : proc'[q] = proc[q]
    BY <1>0, <1>1, <1>c DEF Claim, Locals, TypeInv, TypeOK, Created
  <2>2. /\ job'[a].status = "processing"
        /\ job[a].status \in {"queued", "processing", "failed"}
        /\ \A b \in Analyses \ {a} : job'[b] = job[b]
        /\ analysis' = analysis /\ crashes' = crashes
    BY <1>0, <1>1 DEF Claim, Claimable, ClaimedRow, JobRow
  <2>3. Created'
    BY <1>c, <2>1, <2>2, CreatedByWorker DEF Created
  <2>4. SingleSlot => RunAlone' /\ RowsAgree'
    BY <1>p, <2>1, <2>2 DEF QuietInv, SingleSlot, RunAlone, RowsAgree, Pending
  <2>5. crashes' = 0 => Carried'
    BY <1>p, <2>1, <2>2 DEF QuietInv, Carried, RunsOn, Pending
  <2>6. QED
    BY <2>3, <2>4, <2>5 DEF QuietInv, SingleSlot
<1>2. CASE LoadFails(w)
  <2>a. PICK a \in Analyses : a = proc[w].on
    BY <1>0, <1>2 DEF LoadFails, At, TypeInv, Placed
  <2>1. proc[w].pc \in {"begin"} /\ analysis[a].status # "absent"
    BY <1>0, <1>2, <1>c, <2>a DEF LoadFails, At, Created
  <2>2. /\ proc'[w].pc = "fail_analysis" /\ proc'[w].on = a
        /\ proc'[w].row = NoRow /\ proc'[w].doc = NoRow
        /\ \A q \in Processes \ {w} : proc'[q] = proc[q]
    BY <1>0, <1>2, <2>a, GotoFacts DEF LoadFails
  <2>4. analysis' = analysis /\ job' = job /\ crashes' = crashes
    BY <1>2 DEF LoadFails
  <2>5. Created'
    BY <1>c, <2>1, <2>2, <2>4, CreatedByWorker
  <2>6. SingleSlot => RunAlone' /\ RowsAgree'
    BY <1>0, <1>p, <2>a, <2>1, <2>2, <2>4 DEF QuietInv, SingleSlot, RunAlone, RowsAgree, Pending
  <2>7. crashes' = 0 => Carried'
    BY <1>0, <1>p, <2>a, <2>1, <2>2, <2>4 DEF QuietInv, Carried, RunsOn, Pending
  <2>8. QED
    BY <2>5, <2>6, <2>7 DEF QuietInv, SingleSlot
<1>3. CASE Begin(w)
  <2>a. PICK a \in Analyses : a = proc[w].on
    BY <1>0, <1>3 DEF Begin, At, TypeInv, Placed
  <2>1. proc[w].pc \in {"begin"} /\ analysis[a].status # "absent"
    BY <1>0, <1>3, <1>c, <2>a DEF Begin, At, Created
  <2>2. /\ proc'[w].pc = "step" /\ proc'[w].on = a
        /\ proc'[w].row = NoRow /\ proc'[w].doc = NoRow
        /\ \A q \in Processes \ {w} : proc'[q] = proc[q]
    BY <1>0, <1>3, <2>a, GotoFacts DEF Begin
  <2>3. Doc(w) \in AnalysisRow
    BY <1>0, <1>3, <2>a, ReadTypes DEF Begin, AnalysisUpdates
  <2>4. /\ analysis'[a].status = "processing"
        /\ \A b \in Analyses \ {a} : analysis'[b] = analysis[b]
        /\ job' = job /\ crashes' = crashes
    BY <1>0, <1>3, <2>a, <2>3, WriteDocFacts DEF Begin, AnalysisRow
  <2>5. Created'
    BY <1>c, <2>1, <2>2, <2>4, CreatedByWorker
  <2>6. SingleSlot => RunAlone' /\ RowsAgree'
    BY <1>0, <1>p, <2>a, <2>1, <2>2, <2>4 DEF QuietInv, SingleSlot, RunAlone, RowsAgree, Pending
  <2>7. crashes' = 0 => Carried'
    BY <1>0, <1>p, <2>a, <2>1, <2>2, <2>4 DEF QuietInv, Carried, RunsOn, Pending
  <2>8. QED
    BY <2>5, <2>6, <2>7 DEF QuietInv, SingleSlot
<1>4. CASE MoveToStep(w)
  <2>a. PICK a \in Analyses : a = proc[w].on
    BY <1>0, <1>4 DEF MoveToStep, At, TypeInv, Placed
  <2>1. proc[w].pc \in {"step"} /\ analysis[a].status # "absent"
    BY <1>0, <1>4, <1>c, <2>a DEF MoveToStep, At, Created
  <2>2. /\ proc'[w].pc \in {"step", "save_result"} /\ proc'[w].on = a
        /\ proc'[w].row = NoRow /\ proc'[w].doc = NoRow
        /\ \A q \in Processes \ {w} : proc'[q] = proc[q]
    BY <1>0, <1>4, <2>a DEF MoveToStep, Locals, TypeInv, TypeOK
  <2>3. Row(w) \in JobRow
    BY <1>0, <1>4, <2>a, ReadTypes DEF MoveToStep, JobUpdates
  <2>4. /\ \A b \in Analyses \ {a} : job'[b] = job[b]
        /\ job'[a] = IF job[a].status = "absent" THEN job[a] ELSE Row(w)
        /\ analysis' = analysis /\ crashes' = crashes
    BY <1>0, <1>4, <2>a, WriteRowFacts DEF MoveToStep
  <2>r. SingleSlot => Row(w).status \in Pending
    BY <1>0, <1>4, <2>a, <2>1 DEF MoveToStep, At, JobUpdates, Row, QuietInv, RunAlone
  <2>5. Created'
    BY <1>c, <2>1, <2>2, <2>4, CreatedByWorker
  <2>6. SingleSlot => RunAlone' /\ RowsAgree'
    BY <1>0, <1>p, <2>a, <2>1, <2>2, <2>r, <2>4
       DEF QuietInv, SingleSlot, RunAlone, RowsAgree, Pending
  <2>7. crashes' = 0 => Carried'
    BY <1>0, <1>p, <2>a, <2>1, <2>2, <2>4 DEF QuietInv, Carried, RunsOn, Pending
  <2>8. QED
    BY <2>5, <2>6, <2>7 DEF QuietInv, SingleSlot
<1>5. CASE RunFails(w)
  <2>a. PICK a \in Analyses : a = proc[w].on
    BY <1>0, <1>5 DEF RunFails, At, TypeInv, Placed
  <2>1. /\ proc[w].pc \in {"step", "save_result", "count_usage", "complete_job"}
        /\ analysis[a].status # "absent"
    BY <1>0, <1>5, <1>c, <2>a DEF RunFails, At, Created
  <2>2. /\ proc'[w].pc = "fail_analysis" /\ proc'[w].on = a
        /\ proc'[w].row = NoRow /\ proc'[w].doc = NoRow
        /\ \A q \in Processes \ {w} : proc'[q] = proc[q]
    BY <1>0, <1>5, <2>a, GotoFacts DEF RunFails
  <2>4. analysis' = analysis /\ job' = job /\ crashes' = crashes
    BY <1>5 DEF RunFails
  <2>5. Created'
    BY <1>c, <2>1, <2>2, <2>4, CreatedByWorker
  <2>6. SingleSlot => RunAlone' /\ RowsAgree'
    BY <1>0, <1>p, <2>a, <2>1, <2>2, <2>4 DEF QuietInv, SingleSlot, RunAlone, RowsAgree, Pending
  <2>7. crashes' = 0 => Carried'
    BY <1>0, <1>p, <2>a, <2>1, <2>2, <2>4 DEF QuietInv, Carried, RunsOn, Pending
  <2>8. QED
    BY <2>5, <2>6, <2>7 DEF QuietInv, SingleSlot
<1>6. CASE SaveResult(w)
  <2>a. PICK a \in Analyses : a = proc[w].on
    BY <1>0, <1>6 DEF SaveResult, At, TypeInv, Placed
  <2>1. proc[w].pc \in {"save_result"} /\ analysis[a].status # "absent"
    BY <1>0, <1>6, <1>c, <2>a DEF SaveResult, At, Created
  <2>2. /\ proc'[w].pc = "count_usage" /\ proc'[w].on = a
        /\ proc'[w].row = NoRow /\ proc'[w].doc = NoRow
        /\ \A q \in Processes \ {w} : proc'[q] = proc[q]
    BY <1>0, <1>6, <2>a, GotoFacts DEF SaveResult
  <2>3. Doc(w) \in AnalysisRow
    BY <1>0, <1>6, <2>a, ReadTypes DEF SaveResult, AnalysisUpdates
  <2>d. [Doc(w) EXCEPT !.status = "completed", !.result = TRUE].status = "completed"
    BY <2>3 DEF AnalysisRow
  <2>4. /\ analysis'[a].status = "completed"
        /\ \A b \in Analyses \ {a} : analysis'[b] = analysis[b]
        /\ job' = job /\ crashes' = crashes
    BY <1>0, <1>6, <2>a, <2>d, WriteDocFacts DEF SaveResult
  <2>5. Created'
    BY <1>c, <2>1, <2>2, <2>4, CreatedByWorker
  <2>6. SingleSlot => RunAlone' /\ RowsAgree'
    BY <1>0, <1>p, <2>a, <2>1, <2>2, <2>4 DEF QuietInv, SingleSlot, RunAlone, RowsAgree, Pending
  <2>7. crashes' = 0 => Carried'
    BY <1>0, <1>p, <2>a, <2>1, <2>2, <2>4 DEF QuietInv, Carried, RunsOn, Pending
  <2>8. QED
    BY <2>5, <2>6, <2>7 DEF QuietInv, SingleSlot
<1>7. CASE CountUsage(w)
  <2>a. PICK a \in Analyses : a = proc[w].on
    BY <1>0, <1>7 DEF CountUsage, At, TypeInv, Placed
  <2>1. proc[w].pc \in {"count_usage"} /\ analysis[a].status # "absent"
    BY <1>0, <1>7, <1>c, <2>a DEF CountUsage, At, Created
  <2>2. /\ proc'[w].pc = "complete_job" /\ proc'[w].on = a
        /\ proc'[w].row = NoRow /\ proc'[w].doc = NoRow
        /\ \A q \in Processes \ {w} : proc'[q] = proc[q]
    BY <1>0, <1>7, <2>a, GotoFacts DEF CountUsage
  <2>4. analysis' = analysis /\ job' = job /\ crashes' = crashes
    BY <1>7 DEF CountUsage
  <2>5. Created'
    BY <1>c, <2>1, <2>2, <2>4, CreatedByWorker
  <2>6. SingleSlot => RunAlone' /\ RowsAgree'
    BY <1>0, <1>p, <2>a, <2>1, <2>2, <2>4 DEF QuietInv, SingleSlot, RunAlone, RowsAgree, Pending
  <2>7. crashes' = 0 => Carried'
    BY <1>0, <1>p, <2>a, <2>1, <2>2, <2>4 DEF QuietInv, Carried, RunsOn, Pending
  <2>8. QED
    BY <2>5, <2>6, <2>7 DEF QuietInv, SingleSlot
<1>8. CASE CompleteJob(w)
  <2>a. PICK a \in Analyses : a = proc[w].on
    BY <1>0, <1>8 DEF CompleteJob, At, TypeInv, Placed
  <2>1. proc[w].pc \in {"complete_job"} /\ analysis[a].status # "absent"
    BY <1>0, <1>8, <1>c, <2>a DEF CompleteJob, At, Created
  <2>2. /\ proc'[w].pc = "idle"
        /\ proc'[w].row = NoRow /\ proc'[w].doc = NoRow
        /\ \A q \in Processes \ {w} : proc'[q] = proc[q]
    BY <1>0, <1>8, ReturnFacts DEF CompleteJob
  <2>3. Row(w) \in JobRow
    BY <1>0, <1>8, <2>a, ReadTypes DEF CompleteJob, JobUpdates
  <2>r. CompletedRow(Row(w)).status \in {"completed"}
    BY <2>3 DEF CompletedRow, JobRow
  <2>4. /\ \A b \in Analyses \ {a} : job'[b] = job[b]
        /\ job[a].status = "absent" => job'[a] = job[a]
        /\ job[a].status # "absent" => job'[a].status \in {"completed"}
        /\ analysis' = analysis /\ crashes' = crashes
    BY <1>0, <1>8, <2>a, <2>r, WriteRowFacts DEF CompleteJob
  <2>5. Created'
    BY <1>c, <2>1, <2>2, <2>4, CreatedByWorker
  <2>6. SingleSlot => RunAlone' /\ RowsAgree'
    BY <1>0, <1>p, <2>a, <2>1, <2>2, <2>4 DEF QuietInv, SingleSlot, RunAlone, RowsAgree, Pending
  <2>7. crashes' = 0 => Carried'
    BY <1>0, <1>p, <2>a, <2>1, <2>2, <2>4 DEF QuietInv, Carried, RunsOn, Pending
  <2>8. QED
    BY <2>5, <2>6, <2>7 DEF QuietInv, SingleSlot
<1>9. CASE FailAnalysis(w)
  <2>a. PICK a \in Analyses : a = proc[w].on
    BY <1>0, <1>9 DEF FailAnalysis, At, TypeInv, Placed
  <2>1. proc[w].pc \in {"fail_analysis"} /\ analysis[a].status # "absent"
    BY <1>0, <1>9, <1>c, <2>a DEF FailAnalysis, At, Created
  <2>2. /\ proc'[w].pc = "fail_job" /\ proc'[w].on = a
        /\ proc'[w].row = NoRow /\ proc'[w].doc = NoRow
        /\ \A q \in Processes \ {w} : proc'[q] = proc[q]
    BY <1>0, <1>9, <2>a, GotoFacts DEF FailAnalysis
  <2>3. Doc(w) \in AnalysisRow
    BY <1>0, <1>9, <2>a, ReadTypes DEF FailAnalysis, AnalysisUpdates
  <2>4. /\ analysis'[a].status = "failed"
        /\ \A b \in Analyses \ {a} : analysis'[b] = analysis[b]
        /\ job' = job /\ crashes' = crashes
    BY <1>0, <1>9, <2>a, <2>3, WriteDocFacts DEF FailAnalysis, AnalysisRow
  <2>5. Created'
    BY <1>c, <2>1, <2>2, <2>4, CreatedByWorker
  <2>6. SingleSlot => RunAlone' /\ RowsAgree'
    BY <1>0, <1>p, <2>a, <2>1, <2>2, <2>4 DEF QuietInv, SingleSlot, RunAlone, RowsAgree, Pending
  <2>7. crashes' = 0 => Carried'
    BY <1>0, <1>p, <2>a, <2>1, <2>2, <2>4 DEF QuietInv, Carried, RunsOn, Pending
  <2>8. QED
    BY <2>5, <2>6, <2>7 DEF QuietInv, SingleSlot
<1>10. CASE FailJob(w)
  <2>a. PICK a \in Analyses : a = proc[w].on
    BY <1>0, <1>10 DEF FailJob, At, TypeInv, Placed
  <2>1. proc[w].pc \in {"fail_job"} /\ analysis[a].status # "absent"
    BY <1>0, <1>10, <1>c, <2>a DEF FailJob, At, Created
  <2>2. /\ proc'[w].pc = "idle"
        /\ proc'[w].row = NoRow /\ proc'[w].doc = NoRow
        /\ \A q \in Processes \ {w} : proc'[q] = proc[q]
    BY <1>0, <1>10, ReturnFacts DEF FailJob
  <2>3. Row(w) \in JobRow
    BY <1>0, <1>10, <2>a, ReadTypes DEF FailJob, JobUpdates
  <2>r. FailedRow(Row(w)).status \in {"failed", "dead_letter"}
    BY <2>3 DEF FailedRow, JobRow
  <2>4. /\ \A b \in Analyses \ {a} : job'[b] = job[b]
        /\ job[a].status = "absent" => job'[a] = job[a]
        /\ job[a].status # "absent" => job'[a].status \in {"failed", "dead_letter"}
        /\ analysis' = analysis /\ crashes' = crashes
    BY <1>0, <1>10, <2>a, <2>r, WriteRowFacts DEF FailJob
  <2>5. Created'
    BY <1>c, <2>1, <2>2, <2>4, CreatedByWorker
  <2>6. SingleSlot => RunAlone' /\ RowsAgree'
    BY <1>0, <1>p, <2>a, <2>1, <2>2, <2>4 DEF QuietInv, SingleSlot, RunAlone, RowsAgree, Pending
  <2>7. crashes' = 0 => Carried'
    BY <1>0, <1>p, <2>a, <2>1, <2>2, <2>4 DEF QuietInv, Carried, RunsOn, Pending
  <2>8. QED
    BY <2>5, <2>6, <2>7 DEF QuietInv, SingleSlot
<1>11. CASE ReadUsage(w)
  <2>1. \A q \in Processes : /\ proc'[q].pc = proc[q].pc /\ proc'[q].on = proc[q].on
                             /\ proc'[q].row = proc[q].row /\ proc'[q].doc = proc[q].doc
    BY <1>0, <1>11 DEF ReadUsage, Locals
  <2>2. analysis' = analysis /\ job' = job /\ crashes' = crashes
    BY <1>11 DEF ReadUsage
  <2>3. \A h \in Handlers : h \in Processes
    BY DEF Processes
  <2>4. Created'
    BY <1>c, <2>1, <2>2, <2>3 DEF Created
  <2>5. SingleSlot => RunAlone' /\ RowsAgree'
    BY <1>p, <2>1, <2>2 DEF QuietInv, RunAlone, RowsAgree
  <2>6. crashes' = 0 => Carried'
    BY <1>p, <2>1, <2>2 DEF QuietInv, Carried, RunsOn
  <2>7. QED
    BY <2>4, <2>5, <2>6 DEF QuietInv, SingleSlot
<1>12. QED
  BY <1>1, <1>2, <1>3, <1>4, <1>5, <1>6, <1>7, <1>8, <1>9, <1>10, <1>11 DEF WorkerStep

\* One step of a handler, under the invariant, as long as nobody has retried: the job
\* of an analysis is saved or enqueued.
LEMMA QuietHandlerStep ==
    ASSUME TypeInv, QuietInv, NEW h \in Handlers, HandlerStep(h)
    PROVE  QuietInv'
<1>0. /\ h \in Processes /\ proc[h] \in Locals
      /\ job \in [Analyses -> JobRow] /\ analysis \in [Analyses -> AnalysisRow]
  BY DEF Processes, TypeInv, TypeOK
<1>p. /\ \A p \in Processes : proc[p].pc # "idle" => proc[p].on \in Analyses
      /\ \A g \in Handlers : g \in Processes
      /\ \A w \in Workers : w \in Processes /\ w # h
  BY DisjointAssumption DEF Processes, TypeInv, Placed
<1>c. Created
  BY DEF QuietInv
<1>1. SaveJob(h) \/ Enqueue(h)
  BY <1>c DEF HandlerStep, SaveJob, Enqueue, ReadJob, Reopen, Requeue, At, Created
<1>a. PICK a \in Analyses : a = proc[h].on
  BY <1>0, <1>1 DEF SaveJob, Enqueue, At, TypeInv, Placed
<1>2. analysis[a].status # "absent" /\ analysis' = analysis /\ crashes' = crashes
  BY <1>0, <1>1, <1>a, <1>c DEF SaveJob, Enqueue, At, Created
<1>3. /\ proc'[h].pc \in {"idle", "enqueue"}
      /\ proc'[h].pc = "enqueue" => proc'[h].on = a
      /\ proc'[h].row = NoRow /\ proc'[h].doc = NoRow
      /\ \A q \in Processes \ {h} : proc'[q] = proc[q]
  <2>1. CASE SaveJob(h)
    BY <1>0, <1>a, <2>1, GotoFacts DEF SaveJob
  <2>2. CASE Enqueue(h)
    BY <1>0, <2>2, ReturnFacts DEF Enqueue
  <2>3. QED
    BY <1>1, <2>1, <2>2
<1>4. /\ \A b \in Analyses \ {a} : job'[b] = job[b]
      /\ job'[a].status = "queued" \/ job'[a] = job[a]
  <2>1. CASE SaveJob(h)
    <3>1. [NoJob EXCEPT !.status = "queued", !.available = TRUE].status = "queued"
      BY DEF NoJob
    <3>2. QED
      BY <1>0, <1>a, <2>1, <3>1 DEF SaveJob
  <2>2. CASE Enqueue(h)
    <3>1. Row(h) \in JobRow
      BY <1>0, <2>2, ReadTypes DEF Enqueue, JobUpdates
    <3>2. EnqueuedRow(Row(h)).status = "queued"
      BY <3>1 DEF EnqueuedRow, JobRow
    <3>3. QED
      BY <1>0, <1>a, <2>2, <3>2, WriteRowFacts DEF Enqueue
  <2>3. QED
    BY <1>1, <2>1, <2>2
<1>5. ASSUME NEW g \in Handlers, g # h, proc[g].pc # "idle" PROVE proc[g].on # a
  BY <1>a, <1>c, <1>1, <1>5 DEF Created, SaveJob, Enqueue, At
<1>6. Created'
  BY <1>0, <1>p, <1>c, <1>2, <1>3, <1>4, <1>5 DEF Created
<1>7. SingleSlot => RunAlone' /\ RowsAgree'
  BY <1>p, <1>2, <1>3, <1>4 DEF QuietInv, RunAlone, RowsAgree, Pending
<1>8. crashes' = 0 => Carried'
  BY <1>p, <1>2, <1>3, <1>4 DEF QuietInv, Carried, RunsOn, Pending
<1>9. QED
  BY <1>6, <1>7, <1>8 DEF QuietInv, SingleSlot

\* The number of retries never falls.
LEMMA RetriesOnlyGrow ==
    ASSUME TypeInv, [Next]_vars
    PROVE  retried' >= retried
<1>0. retried \in Nat
  BY BoundsAssumption DEF TypeInv, TypeOK
<1>1. CASE \E h \in Handlers, a \in Analyses : RetryAnalysis(h, a)
  BY <1>0, <1>1 DEF RetryAnalysis
<1>2. CASE \E h \in Handlers : HandlerStep(h)
  BY <1>0, <1>2 DEF HandlerStep, SaveJob, Enqueue, ReadJob, Reopen, Requeue
<1>3. CASE \E w \in Workers : WorkerStep(w)
  BY <1>0, <1>3 DEF WorkerStep, Claim, LoadFails, Begin, MoveToStep, RunFails, SaveResult,
                    ReadUsage, CountUsage, CompleteJob, FailAnalysis, FailJob
<1>4. CASE \/ \E h \in Handlers, a \in Analyses : CreateAnalysis(h, a)
           \/ \E p \in Processes : Read(p) \/ Crash(p)
           \/ ReadIncrement \/ WriteIncrement
           \/ \E a \in Analyses : Age(a) \/ BackoffElapses(a)
           \/ RecoverStaleProcessingJobs
           \/ CleanupStaleFailedJobs
           \/ UNCHANGED vars
  <2>1. retried' = retried
    BY <1>4 DEF CreateAnalysis, Read, Crash, ReadIncrement, WriteIncrement, Age, BackoffElapses,
                RecoverStaleProcessingJobs, CleanupStaleFailedJobs, vars
  <2>2. QED
    BY <1>0, <2>1
<1>5. QED
  BY <1>1, <1>2, <1>3, <1>4 DEF Next

\* One step of anybody, under the invariant, until the first retry.
LEMMA QuietNext ==
    ASSUME TypeInv, retried = 0 => QuietInv, [Next]_vars, retried' = 0
    PROVE  QuietInv'
<1>0. /\ proc \in [Processes -> Locals]
      /\ job \in [Analyses -> JobRow] /\ analysis \in [Analyses -> AnalysisRow]
      /\ retried \in Nat /\ crashes \in Nat
  BY BoundsAssumption DEF TypeInv, TypeOK
<1>p. /\ \A p \in Processes : proc[p].pc # "idle" => proc[p].on \in Analyses
      /\ \A g \in Handlers : g \in Processes
      /\ \A w \in Workers : w \in Processes /\ w \notin Handlers
  BY DisjointAssumption DEF Processes, TypeInv, Placed
<1>r. retried' >= retried
  BY RetriesOnlyGrow
<1>c. retried = 0 /\ QuietInv /\ Created
  BY <1>0, <1>r DEF QuietInv
<1>1. ASSUME NEW h \in Handlers, NEW a \in Analyses, CreateAnalysis(h, a) PROVE QuietInv'
  <2>1. /\ proc[h].pc = "idle" /\ proc'[h].pc = "save_job" /\ proc'[h].on = a
        /\ \A q \in Processes \ {h} : proc'[q] = proc[q]
        /\ analysis[a].status = "absent" /\ analysis'[a].status = "queued"
        /\ \A b \in Analyses \ {a} : analysis'[b] = analysis[b]
        /\ job' = job /\ crashes' = crashes
    BY <1>0, <1>1 DEF CreateAnalysis, Processes, AnalysisRow, Locals
  <2>2. job[a].status = "absent"
          /\ \A p \in Processes : proc[p].pc # "idle" => proc[p].on # a
    BY <1>c, <2>1 DEF Created
  <2>3. Created'
    BY <1>p, <1>c, <2>1, <2>2 DEF Created
  <2>4. SingleSlot => RunAlone' /\ RowsAgree'
    BY <1>p, <1>c, <2>1, <2>2 DEF QuietInv, RunAlone, RowsAgree, Pending
  <2>5. crashes' = 0 => Carried'
    BY <1>p, <1>c, <2>1, <2>2 DEF QuietInv, Carried, RunsOn, Pending
  <2>6. QED
    BY <2>3, <2>4, <2>5 DEF QuietInv, SingleSlot
<1>2. ASSUME NEW h \in Handlers, NEW a \in Analyses, RetryAnalysis(h, a) PROVE QuietInv'
  BY <1>0, <1>c, <1>2 DEF RetryAnalysis
<1>3. ASSUME NEW h \in Handlers, HandlerStep(h) PROVE QuietInv'
  BY <1>c, <1>3, QuietHandlerStep
<1>4. ASSUME NEW w \in Workers, WorkerStep(w) PROVE QuietInv'
  BY <1>c, <1>4, QuietWorkerStep
<1>5. ASSUME NEW p \in Processes, Read(p) PROVE QuietInv'
  <2>1. /\ proc[p].pc # "idle"
        /\ proc'[p].pc = proc[p].pc /\ proc'[p].on = proc[p].on
        /\ proc'[p].row = proc[p].row \/ proc'[p].row = job[proc[p].on]
        /\ proc'[p].doc = proc[p].doc \/ proc'[p].doc = analysis[proc[p].on]
        /\ \A q \in Processes \ {p} : proc'[q] = proc[q]
        /\ analysis' = analysis /\ job' = job /\ crashes' = crashes
    BY <1>0, <1>5 DEF Read, JobUpdates, AnalysisUpdates, Locals
  <2>2. \A q \in Processes : proc'[q].pc = proc[q].pc /\ proc'[q].on = proc[q].on
    BY <2>1
  <2>3. Created'
    BY <1>p, <1>c, <2>1, <2>2 DEF Created
  <2>4. SingleSlot => RunAlone' /\ RowsAgree'
    BY <1>p, <1>c, <2>1, <2>2 DEF QuietInv, RunAlone, RowsAgree, Pending
  <2>5. crashes' = 0 => Carried'
    BY <1>p, <1>c, <2>1, <2>2 DEF QuietInv, Carried, RunsOn, Pending
  <2>6. QED
    BY <2>3, <2>4, <2>5 DEF QuietInv, SingleSlot
<1>6. ASSUME NEW p \in Processes, Crash(p) PROVE QuietInv'
  <2>1. /\ proc'[p].pc = "idle" /\ proc'[p].row = NoRow /\ proc'[p].doc = NoRow
        /\ \A q \in Processes \ {p} : proc'[q] = proc[q]
    BY <1>6, ReturnFacts DEF Crash
  <2>2. analysis' = analysis /\ job' = job /\ crashes' # 0
    BY <1>0, <1>6 DEF Crash
  <2>3. Created'
    BY <1>p, <1>c, <2>1, <2>2 DEF Created
  <2>4. SingleSlot => RunAlone' /\ RowsAgree'
    BY <1>p, <1>c, <2>1, <2>2 DEF QuietInv, RunAlone, RowsAgree, Pending
  <2>5. QED
    BY <2>2, <2>3, <2>4 DEF QuietInv, SingleSlot
<1>7. ASSUME NEW a \in Analyses, Age(a) PROVE QuietInv'
  <2>1. \A q \in Processes : proc'[q].pc = proc[q].pc /\ proc'[q].on = proc[q].on
                               /\ (proc[q].row = NoRow => proc'[q].row = NoRow)
                               /\ proc'[q].doc = proc[q].doc
    BY <1>0, <1>7 DEF Age, Locals
  <2>2. ASSUME NEW q \in Processes, proc'[q].row # NoRow
        PROVE  proc[q].row # NoRow /\ proc'[q].row.status = proc[q].row.status
    <3>1. proc[q] \in Locals /\ proc[q].row # NoRow
      BY <1>0, <2>1, <2>2
    <3>2. proc[q].row \in JobRow
      BY <3>1 DEF Locals
    <3>3. CASE proc[q].on = a
      <4>1. proc'[q] = [proc[q] EXCEPT !.row.age = Bump(@, 3)]
        BY <1>7, <3>1, <3>3 DEF Age
      <4>2. QED
        BY <3>1, <3>2, <4>1 DEF Locals, JobRow
    <3>4. CASE proc[q].on # a
      BY <1>7, <3>1, <3>4 DEF Age
    <3>5. QED
      BY <3>3, <3>4
  <2>3. /\ \A b \in Analyses : job'[b].status = job[b].status
        /\ analysis' = analysis /\ crashes' = crashes
    BY <1>0, <1>7 DEF Age, JobRow
  <2>4. Created'
    BY <1>p, <1>c, <2>1, <2>3 DEF Created
  <2>5. SingleSlot => RunAlone' /\ RowsAgree'
    BY <1>p, <1>c, <2>1, <2>2, <2>3 DEF QuietInv, RunAlone, RowsAgree, Pending
  <2>6. crashes' = 0 => Carried'
    BY <1>p, <1>c, <2>1, <2>3 DEF QuietInv, Carried, RunsOn, Pending
  <2>7. QED
    BY <2>4, <2>5, <2>6 DEF QuietInv, SingleSlot
<1>8. CASE \/ \E a \in Analyses : BackoffElapses(a)
           \/ RecoverStaleProcessingJobs
           \/ CleanupStaleFailedJobs
           \/ ReadIncrement \/ WriteIncrement
           \/ UNCHANGED vars
  <2>1. proc' = proc /\ analysis' = analysis /\ crashes' = crashes
    BY <1>8 DEF BackoffElapses, RecoverStaleProcessingJobs, CleanupStaleFailedJobs,
                ReadIncrement, WriteIncrement, vars
  <2>2. \A b \in Analyses :
          \/ job'[b].status = job[b].status
          \/ job[b].status = "processing" /\ job'[b].status = "queued"
          \/ job[b].status = "failed" /\ job'[b].status = "absent"
    <3>1. CASE \E a \in Analyses : BackoffElapses(a)
      BY <1>0, <3>1 DEF BackoffElapses, JobRow
    <3>2. CASE RecoverStaleProcessingJobs
      <4>1. \A b \in Analyses : RecoveredRow(job[b]).status = "queued"
        BY <1>0 DEF RecoveredRow, JobRow
      <4>2. QED
        BY <1>0, <3>2, <4>1 DEF RecoverStaleProcessingJobs, Stale
    <3>3. CASE CleanupStaleFailedJobs
      BY <1>0, <3>3 DEF CleanupStaleFailedJobs, Expired, NoJob
    <3>4. CASE ReadIncrement \/ WriteIncrement \/ UNCHANGED vars
      BY <3>4 DEF ReadIncrement, WriteIncrement, vars
    <3>5. QED
      BY <1>8, <3>1, <3>2, <3>3, <3>4
  <2>3. Created'
    BY <1>p, <1>c, <2>1, <2>2 DEF Created
  <2>4. SingleSlot => RunAlone' /\ RowsAgree'
    BY <1>p, <1>c, <2>1, <2>2 DEF QuietInv, RunAlone, RowsAgree, Pending
  <2>5. crashes' = 0 => Carried'
    BY <1>p, <1>c, <2>1, <2>2 DEF QuietInv, Carried, RunsOn, Pending
  <2>6. QED
    BY <2>3, <2>4, <2>5 DEF QuietInv, SingleSlot
<1>9. QED
  BY <1>1, <1>2, <1>3, <1>4, <1>5, <1>6, <1>7, <1>8 DEF Next

\* Nothing is there at first.
LEMMA QuietInit == Init => QuietInv
<1>1. Idle.pc = "idle" /\ Idle.row = NoRow /\ Idle.doc = NoRow /\ NoJob.status = "absent"
  BY DEF Idle, NoJob
<1>2. \A w \in Workers : w \in Processes
  BY DEF Processes
<1>3. \A h \in Handlers : h \in Processes
  BY DEF Processes
<1>4. QED
  BY <1>1, <1>2, <1>3 DEF Init, QuietInv, Created, RunAlone, RowsAgree, Carried

QuietAlways == TypeInv /\ (retried = 0 => QuietInv)

\* The invariant of this section holds in every behaviour.
LEMMA QuietInvariance == Spec => []QuietAlways
<1>1. Init => QuietAlways
  BY TypeInit, QuietInit DEF QuietAlways
<1>2. QuietAlways /\ [Next]_vars => QuietAlways'
  BY TypeNext, QuietNext DEF QuietAlways
<1>3. QED
  BY <1>1, <1>2, PTL DEF Spec

\* With one worker slot and until the first retry, no order of claims, crashes, late
\* enqueues and sweeps makes the row of an analysis contradict the outcome of its
\* job: a completed job has a completed analysis, a failed one a failed analysis.
\* (Two overlapping runs of one job can: each writes its own verdict.)
THEOREM RowsAgreeAlways ==
    ASSUME SingleSlot
    PROVE  Spec => [](retried = 0 => RowsAgreeWhenQuiet)
<1>1. QuietAlways => (retried = 0 => RowsAgreeWhenQuiet)
  BY DEF QuietAlways, QuietInv, RowsAgree, RowsAgreeWhenQuiet
<1>2. QED
  BY <1>1, QuietInvariance, PTL

\* Until the first retry, an accepted analysis without a verdict has a job that a
\* worker will claim: with one worker slot whatever crashes, and with any number
\* of slots as long as none has crashed.
THEOREM NoAnalysisStranded ==
    Spec => [](retried = 0 /\ (SingleSlot \/ crashes = 0) => NothingStranded)
<1>1. QuietAlways /\ retried = 0 /\ (SingleSlot \/ crashes = 0) => NothingStranded
  <2> SUFFICES ASSUME TypeInv, QuietInv, SingleSlot \/ crashes = 0,
                      NEW a \in Analyses, Accepted(a), ~Running(a), ~Requested(a),
                      analysis[a].status \in {"queued", "processing"}
               PROVE  job[a].status \in {"queued", "processing"}
    BY DEF QuietAlways, NothingStranded
  <2>1. job[a].status \in {"queued", "processing", "completed", "failed", "dead_letter"}
    BY DEF Accepted, TypeInv, TypeOK, JobRow
  <2>2. CASE SingleSlot
    BY <2>1, <2>2 DEF QuietInv, RowsAgree
  <2>3. CASE crashes = 0
    BY <2>1, <2>3 DEF QuietInv, Carried, Running, Pending
  <2>4. QED
    BY <2>2, <2>3
<1>2. QED
  BY <1>1, QuietInvariance, PTL

\* With one slot and until the first retry no copy is stale when it is written back.
LEMMA QuietIsFaithful ==
    ASSUME TypeInv, QuietInv, SingleSlot
    PROVE  Faithful
<1>1. ASSUME NEW h \in Handlers
      PROVE  ~At(h, "step") /\ \A pc \in AnalysisUpdates : ~At(h, pc)
  BY DEF QuietInv, Created, At, AnalysisUpdates
<1>2. ASSUME NEW w \in Workers, NEW pc \in AnalysisUpdates, At(w, pc)
      PROVE  Doc(w).result = analysis[proc[w].on].result
  BY <1>2 DEF QuietInv, RunAlone, At, AnalysisUpdates, Doc
<1>3. ASSUME NEW w \in Workers, At(w, "step")
      PROVE  Row(w).status = "completed" <=> job[proc[w].on].status = "completed"
  BY <1>3 DEF QuietInv, RunAlone, Pending, At, JobUpdates, Row
<1>4. QED
  BY <1>1, <1>2, <1>3 DEF Faithful, Processes

ReportsAlways == TypeInv /\ (retried = 0 => QuietInv /\ ReportInv)

\* One step, with one slot: until the first retry it is a step of ReportDelivery.
LEMMA OneSlotNext ==
    ASSUME SingleSlot, ReportsAlways, [Next]_vars
    PROVE  /\ ReportsAlways'
           /\ retried' = 0 => [Delivery!Next]_[a \in Analyses |-> Stage(a)]
<1>1. TypeInv /\ TypeInv'
  BY TypeNext DEF ReportsAlways
<1>2. CASE retried' # 0
  BY <1>1, <1>2 DEF ReportsAlways
<1>3. CASE retried' = 0
  <2>1. retried \in Nat
    BY <1>1, BoundsAssumption DEF TypeInv, TypeOK
  <2>2. retried = 0
    BY <1>1, <1>3, <2>1, RetriesOnlyGrow
  <2>3. QuietInv /\ ReportInv
    BY <2>2 DEF ReportsAlways
  <2>4. QuietInv'
    BY <1>1, <1>3, <2>3, QuietNext
  <2>5. ReportInv' /\ [Delivery!Next]_[a \in Analyses |-> Stage(a)]
    BY <1>1, <2>3, QuietIsFaithful, ReportNext
  <2>6. QED
    BY <1>1, <2>4, <2>5 DEF ReportsAlways
<1>4. QED
  BY <1>2, <1>3

\* With one worker slot and until the first retry, a completed job has a stored report
\* although reads and writes of the tables are separate (the only run is the only writer
\* of the analysis), and it is counted unless two increments of the row of the counters
\* have met, of which one may be lost.
THEOREM OneSlotReports ==
    ASSUME SingleSlot
    PROVE  Spec => [](retried = 0 => CompletedJobHasReport)
<1>1. Init => ReportsAlways
  BY TypeInit, QuietInit, ReportInit DEF ReportsAlways
<1>2. ReportsAlways /\ [Next]_vars => ReportsAlways'
  BY OneSlotNext
<1>3. ReportsAlways => (retried = 0 => CompletedJobHasReport)
  BY DEF ReportsAlways, ReportInv
<1>4. QED
  BY <1>1, <1>2, <1>3, PTL DEF Spec

\* So far, every step of the pipeline is a step of ReportDelivery or a stutter: a report
\* is stored before it is delivered, and never lost.
THEOREM OneSlotDelivers ==
    ASSUME SingleSlot
    PROVE  Spec => /\ Delivery!Init
                   /\ [][retried' = 0 => [Delivery!Next]_[a \in Analyses |-> Stage(a)]]_vars
<1>1. Init => ReportsAlways /\ Delivery!Init
  BY TypeInit, QuietInit, ReportInit DEF ReportsAlways
<1>2. ReportsAlways /\ [Next]_vars =>
        /\ ReportsAlways'
        /\ [retried' = 0 => [Delivery!Next]_[a \in Analyses |-> Stage(a)]]_vars
  BY OneSlotNext
<1>3. QED
  BY <1>1, <1>2, PTL DEF Spec

\* A handler that writes the row of a is a request for a.
LEMMA HandlerLeavesDeadLetter ==
    ASSUME TypeInv, NEW a \in Analyses, ~Requested(a),
           NEW h \in Handlers, HandlerStep(h)
    PROVE  job'[a] = job[a]
<1>1. h \in Processes
  BY DEF Processes
<1>2. proc[h].on # a /\ proc[h].on \in Analyses
  BY <1>1 DEF HandlerStep, SaveJob, Enqueue, ReadJob, Reopen, Requeue, At,
              Requested, TypeInv, Placed
<1>3. CASE SaveJob(h) \/ ReadJob(h) \/ Reopen(h)
  BY <1>2, <1>3 DEF SaveJob, ReadJob, Reopen, TypeInv, TypeOK
<1>4. CASE Enqueue(h) \/ Requeue(h)
  BY <1>2, <1>4 DEF Enqueue, Requeue, WriteRow, TypeInv, TypeOK
<1>5. QED
  BY <1>3, <1>4 DEF HandlerStep

\* With one slot, a dead-lettered job stays so until somebody retries, although reads
\* and writes of the tables are separate: the run that could write a stale copy is over.
THEOREM OneSlotDeadLetters ==
    ASSUME SingleSlot
    PROVE  Spec => [][retried = 0 => \A a \in Analyses :
                        job[a].status = "dead_letter" /\ ~Requested(a)
                          => job'[a].status = "dead_letter"]_vars
<1>1. ASSUME TypeInv, QuietInv, Next, NEW a \in Analyses,
             job[a].status = "dead_letter", ~Requested(a)
      PROVE  job'[a].status = "dead_letter"
  <2>0. job \in [Analyses -> JobRow]
    BY <1>1 DEF TypeInv, TypeOK
  <2>1. CASE \E h \in Handlers : HandlerStep(h)
    BY <1>1, <2>1, HandlerLeavesDeadLetter
  <2>2. ASSUME NEW w \in Workers, WorkerStep(w) PROVE job'[a] = job[a]
    <3>1. w \in Processes /\ (proc[w].pc # "idle" => proc[w].on \in Analyses /\ proc[w].on # a)
      BY <1>1 DEF QuietInv, RunAlone, Pending, Processes, TypeInv, Placed
    <3>2. ASSUME NEW b \in Analyses, Claim(w, b) PROVE job'[a] = job[a]
      BY <1>1, <2>0, <3>2 DEF Claim, Claimable
    <3>3. CASE MoveToStep(w) \/ CompleteJob(w) \/ FailJob(w)
      BY <1>1, <3>1, <3>3, WriteRowFacts DEF MoveToStep, CompleteJob, FailJob, At
    <3>4. CASE LoadFails(w) \/ Begin(w) \/ RunFails(w) \/ SaveResult(w) \/ ReadUsage(w)
                 \/ CountUsage(w) \/ FailAnalysis(w)
      BY <3>4 DEF LoadFails, Begin, RunFails, SaveResult, ReadUsage, CountUsage, FailAnalysis
    <3>5. QED
      BY <2>2, <3>2, <3>3, <3>4 DEF WorkerStep
  <2>3. CASE \E b \in Analyses : Age(b) \/ BackoffElapses(b)
    BY <1>1, <2>0, <2>3 DEF Age, BackoffElapses, JobRow
  <2>4. CASE RecoverStaleProcessingJobs \/ CleanupStaleFailedJobs
    BY <1>1, <2>4 DEF RecoverStaleProcessingJobs, CleanupStaleFailedJobs, Stale, Expired
  <2>5. CASE \/ \E h \in Handlers, b \in Analyses : CreateAnalysis(h, b) \/ RetryAnalysis(h, b)
             \/ \E p \in Processes : Read(p) \/ Crash(p)
             \/ ReadIncrement \/ WriteIncrement
    BY <1>1, <2>5 DEF CreateAnalysis, RetryAnalysis, Read, Crash, ReadIncrement, WriteIncrement
  <2>6. QED
    BY <1>1, <2>1, <2>2, <2>3, <2>4, <2>5 DEF Next
<1>2. QuietAlways /\ [Next]_vars =>
        [retried = 0 => \A a \in Analyses :
            job[a].status = "dead_letter" /\ ~Requested(a) => job'[a].status = "dead_letter"]_vars
  BY <1>1 DEF QuietAlways
<1>3. QED
  BY <1>2, QuietInvariance, PTL DEF Spec
=============================================================================

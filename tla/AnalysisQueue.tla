--------------------------- MODULE AnalysisQueue ---------------------------
(***************************************************************************)
(* The analysis pipeline: the rows of the tables analyses and              *)
(* analysis_jobs, the web handlers that create and retry analyses, the     *)
(* worker slots that claim jobs and run the engine, and the maintenance    *)
(* sweep.                                                                  *)
(*                                                                         *)
(* Abstractions.                                                           *)
(*  - A timestamp is kept as what the code compares it with: available is  *)
(*    available_at <= now; age is the time since last_attempt_at: 0 within *)
(*    the lease, 1 past it, 2 past the 30 minutes of the sweep, 3 past the *)
(*    3 days of the cleanup.  leased_until is always last_attempt_at plus  *)
(*    the lease (no code path extends it), so it is NULL or ~leased, and   *)
(*    expired when age > 0.                                                *)
(*  - retry_count has no upper bound in the code, which only compares it   *)
(*    with max_attempts: retries saturates there.  Nothing compares        *)
(*    attempts, which is left out.                                         *)
(*  - usage stands for the counter of the account's month: the analyses    *)
(*    that are counted in it.  The row has further counters, which         *)
(*    requests increment by reading it and writing it back as a whole.     *)
(*    One such request at a time holds a copy (increment).                 *)
(*  - An exception that leaves processNextAnalysisJob or a request handler *)
(*    has the effect of a crash: the locals are gone, the rows stay.       *)
(***************************************************************************)
EXTENDS Naturals, FiniteSets

CONSTANTS
    Analyses,       \* analyses, numbered in the order of created_at
    Workers,        \* worker slots, over all processes
    Handlers,       \* web request handlers
    NoRow,          \* the local of a process that holds no row
    MaxAttempts,    \* max_attempts of every job (3 in the code)
    Steps,          \* calls of moveToStep in one run (5 in the code)
    MaxRetries,     \* bound: retry requests
    MaxCrashes,     \* bound: crashes of workers and handlers
    SlowRuns,       \* may a run outlast its lease?
    SplitUpdates    \* may others act between the SELECT and the UPDATE of
                    \* a repository update (Postgres, several processes)?

ASSUME AnalysesAssumption == Analyses \subseteq Nat
ASSUME MaxAttemptsAssumption == MaxAttempts \in Nat \ {0}
ASSUME StepsAssumption == Steps \in Nat \ {0}
ASSUME BoundsAssumption == MaxRetries \in Nat /\ MaxCrashes \in Nat
ASSUME ModesAssumption == SlowRuns \in BOOLEAN /\ SplitUpdates \in BOOLEAN
ASSUME DisjointAssumption == Workers \cap Handlers = {}

\* The worker of a web process (development, SQLite) has one loop; workers in processes of
\* their own require Postgres.
ASSUME EmbeddedAssumption == ~SplitUpdates => \A v, w \in Workers : v = w

VARIABLES
    analysis,   \* the table analyses
    job,        \* the table analysis_jobs, keyed by analysis_id
    usage,      \* the analyses counted in usage_snapshots
    increment,  \* the copy of that row held by a request that counts something else
    contended,  \* history: was the row read while somebody was about to write it?
    proc,       \* locals of the workers and the handlers
    retried,    \* number of retry requests so far
    crashes     \* number of crashes so far

usageVars == <<usage, increment, contended>>

vars == <<analysis, job, usageVars, proc, retried, crashes>>

Processes == Workers \cup Handlers

AnalysisRow == [status : {"absent", "queued", "processing", "completed", "failed"},
                result : BOOLEAN]

JobRow == [status : {"absent", "queued", "processing", "completed", "failed", "dead_letter"},
           retries : 0..MaxAttempts,
           available : BOOLEAN,
           leased : BOOLEAN,
           age : 0..3]

WorkerPcs == {"idle", "begin", "step", "save_result", "count_usage",
              "complete_job", "fail_analysis", "fail_job"}
HandlerPcs == {"idle", "save_job", "enqueue", "read_job", "reopen", "requeue"}

\* What a process is about to read and write back.
JobUpdates == {"step", "complete_job", "fail_job", "enqueue", "requeue"}
AnalysisUpdates == {"begin", "save_result", "fail_analysis", "reopen"}

Locals == [pc : WorkerPcs \cup HandlerPcs,
           on : Analyses \cup {NoRow},
           step : 0..Steps,
           count : 0..MaxAttempts,
           doc : AnalysisRow \cup {NoRow},
           row : JobRow \cup {NoRow},
           counts : (SUBSET Analyses) \cup {NoRow}]

Idle == [pc |-> "idle", on |-> NoRow, step |-> 0, count |-> 0,
         doc |-> NoRow, row |-> NoRow, counts |-> NoRow]

NoJob == [status |-> "absent", retries |-> 0,
          available |-> FALSE, leased |-> FALSE, age |-> 0]

Init ==
    /\ analysis = [a \in Analyses |-> [status |-> "absent", result |-> FALSE]]
    /\ job = [a \in Analyses |-> NoJob]
    /\ usage = {}
    /\ increment = NoRow
    /\ contended = FALSE
    /\ proc = [p \in Processes |-> Idle]
    /\ retried = 0
    /\ crashes = 0

Bump(n, cap) == IF n < cap THEN n + 1 ELSE cap

(***************************************************************************)
(* The updates of a job row, as functions of the row that was read.        *)
(***************************************************************************)

EnqueuedRow(r) == [r EXCEPT !.status = "queued", !.available = TRUE, !.leased = FALSE]

\* Mutant: the claim does not set leased_until.
ClaimedRowUnleased(r) == [r EXCEPT !.status = "processing", !.age = 0]
ClaimedRow(r) == [r EXCEPT !.status = "processing", !.leased = TRUE, !.age = 0]

CompletedRow(r) == [r EXCEPT !.status = "completed", !.leased = FALSE]

\* Mutant: the failed run is not charged to the retry budget.
FailedRowUncharged(r) ==
    [r EXCEPT !.status = IF Bump(r.retries, MaxAttempts) >= MaxAttempts
                         THEN "dead_letter" ELSE "failed",
              !.leased = FALSE]
FailedRow(r) ==
    LET retryCount == Bump(r.retries, MaxAttempts)
    IN  [r EXCEPT !.status = IF retryCount >= MaxAttempts
                             THEN "dead_letter" ELSE "failed",
                  !.retries = retryCount,
                  !.leased = FALSE]

DeadLetterRow(r) == [r EXCEPT !.status = "dead_letter", !.retries = MaxAttempts,
                              !.leased = FALSE]

RetriedRow(r, retryCount) ==
    IF retryCount >= MaxAttempts
    THEN DeadLetterRow(r)
    ELSE [r EXCEPT !.status = "queued", !.retries = retryCount,
                   !.available = FALSE, !.leased = FALSE]

RecoveredRow(r) == [r EXCEPT !.status = "queued", !.available = TRUE,
                             !.retries = Bump(@, MaxAttempts)]

(***************************************************************************)
(* The read-modify-write of the repositories.  With SplitUpdates the row   *)
(* is read by Read and written back by the action of the caller; without   *)
(* it the two are one step.  An UPDATE of a row that is gone does nothing. *)
(***************************************************************************)

Read(p) ==
    /\ SplitUpdates
    /\ \/ /\ proc[p].pc \in JobUpdates
          /\ proc[p].row = NoRow
          /\ proc' = [proc EXCEPT ![p].row = job[proc[p].on]]
       \/ /\ proc[p].pc \in AnalysisUpdates
          /\ proc[p].doc = NoRow
          /\ proc' = [proc EXCEPT ![p].doc = analysis[proc[p].on]]
    /\ UNCHANGED <<analysis, job, usageVars, retried, crashes>>

At(p, pc) ==
    /\ proc[p].pc = pc
    /\ SplitUpdates => /\ pc \in JobUpdates => proc[p].row # NoRow
                       /\ pc \in AnalysisUpdates => proc[p].doc # NoRow
                       /\ pc = "count_usage" => proc[p].counts # NoRow

Row(p) == IF SplitUpdates THEN proc[p].row ELSE job[proc[p].on]
Doc(p) == IF SplitUpdates THEN proc[p].doc ELSE analysis[proc[p].on]
Counts(p) == IF SplitUpdates THEN proc[p].counts ELSE usage

WriteRow(p, r) ==
    LET a == proc[p].on
    IN  job' = IF job[a].status = "absent" THEN job ELSE [job EXCEPT ![a] = r]

WriteDoc(p, d) == analysis' = [analysis EXCEPT ![proc[p].on] = d]

Goto(p, pc) ==
    proc' = [proc EXCEPT ![p].pc = pc, ![p].doc = NoRow, ![p].row = NoRow, ![p].counts = NoRow]
Return(p) == proc' = [proc EXCEPT ![p] = Idle]

(***************************************************************************)
(* Web handlers.                                                           *)
(***************************************************************************)

\* createAnalysisFromArtifact, up to the save of the analysis.
CreateAnalysis(h, a) ==
    /\ proc[h].pc = "idle"
    /\ analysis[a].status = "absent"
    /\ \A b \in Analyses : b < a => analysis[b].status # "absent"
    /\ analysis' = [analysis EXCEPT ![a].status = "queued"]
    /\ proc' = [proc EXCEPT ![h].pc = "save_job", ![h].on = a]
    /\ UNCHANGED <<job, usageVars, retried, crashes>>

SaveJob(h) ==
    /\ At(h, "save_job")
    /\ job' = [job EXCEPT ![proc[h].on] = [NoJob EXCEPT !.status = "queued", !.available = TRUE]]
    /\ Goto(h, "enqueue")
    /\ UNCHANGED <<analysis, usageVars, retried, crashes>>

\* scheduleAnalysisJob: the job, already visible to the workers, is set to
\* queued a second time.
Enqueue(h) ==
    /\ At(h, "enqueue")
    /\ WriteRow(h, EnqueuedRow(Row(h)))
    /\ Return(h)
    /\ UNCHANGED <<analysis, usageVars, retried, crashes>>

\* retryAnalysis and its admin form: read the analysis, read the job, reopen
\* the analysis, requeue the job with the retry count of the job as read.
RetryAnalysis(h, a) ==
    /\ proc[h].pc = "idle"
    /\ retried < MaxRetries
    /\ analysis[a].status = "failed"
    /\ proc' = [proc EXCEPT ![h].pc = "read_job", ![h].on = a]
    /\ retried' = retried + 1
    /\ UNCHANGED <<analysis, job, usageVars, crashes>>

ReadJob(h) ==
    /\ At(h, "read_job")
    /\ LET j == job[proc[h].on]
       IN  IF j.status = "absent"
           THEN Return(h)
           ELSE proc' = [proc EXCEPT ![h].pc = "reopen",
                                     ![h].count = Bump(j.retries, MaxAttempts)]
    /\ UNCHANGED <<analysis, job, usageVars, retried, crashes>>

Reopen(h) ==
    /\ At(h, "reopen")
    /\ WriteDoc(h, [Doc(h) EXCEPT !.status = "queued"])
    /\ Goto(h, "requeue")
    /\ UNCHANGED <<job, usageVars, retried, crashes>>

Requeue(h) ==
    /\ At(h, "requeue")
    /\ WriteRow(h, RetriedRow(Row(h), proc[h].count))
    /\ Return(h)
    /\ UNCHANGED <<analysis, usageVars, retried, crashes>>

(***************************************************************************)
(* Workers.                                                                *)
(***************************************************************************)

Claimable(a) ==
    /\ job[a].available
    /\ \/ job[a].status = "queued"
       \/ job[a].status = "processing" /\ job[a].leased /\ job[a].age > 0
       \/ job[a].status = "failed" /\ job[a].retries < MaxAttempts

\* claimNextQueued: one transaction, the oldest claimable job first.
Claim(w, a) ==
    /\ proc[w].pc = "idle"
    /\ Claimable(a)
    /\ \A b \in Analyses : b < a => ~Claimable(b)
    /\ job' = [job EXCEPT ![a] = ClaimedRow(@)]
    /\ proc' = [proc EXCEPT ![w].pc = "begin", ![w].on = a]
    /\ UNCHANGED <<analysis, usageVars, retried, crashes>>

\* Mutant: the worker returns without failing the analysis.
LoadFailsSilently(w) ==
    /\ proc[w].pc = "begin"
    /\ Return(w)
    /\ UNCHANGED <<analysis, job, usageVars, retried, crashes>>
\* The artifact is missing or unreadable, or no longer eligible.
LoadFails(w) ==
    /\ proc[w].pc = "begin"
    /\ Goto(w, "fail_analysis")
    /\ UNCHANGED <<analysis, job, usageVars, retried, crashes>>

\* Mutant: a run starts with an empty result.
BeginAfresh(w) ==
    /\ At(w, "begin")
    /\ WriteDoc(w, [status |-> "processing", result |-> FALSE])
    /\ Goto(w, "step")
    /\ UNCHANGED <<job, usageVars, retried, crashes>>
Begin(w) ==
    /\ At(w, "begin")
    /\ WriteDoc(w, [Doc(w) EXCEPT !.status = "processing"])
    /\ Goto(w, "step")
    /\ UNCHANGED <<job, usageVars, retried, crashes>>

\* moveToStep writes the whole row back, with another current_step.
MoveToStep(w) ==
    /\ At(w, "step")
    /\ WriteRow(w, Row(w))
    /\ LET done == proc[w].step + 1
       IN  proc' = [proc EXCEPT ![w].pc = IF done = Steps THEN "save_result" ELSE "step",
                                ![w].step = done,
                                ![w].doc = NoRow,
                                ![w].row = NoRow]
    /\ UNCHANGED <<analysis, usageVars, retried, crashes>>

\* Mutant: the failure is recorded on the job only.
RunFailsJobOnly(w) ==
    /\ proc[w].pc \in {"step", "save_result", "count_usage", "complete_job"}
    /\ Goto(w, "fail_job")
    /\ UNCHANGED <<analysis, job, usageVars, retried, crashes>>
\* The engine reports a failed run, or any call of the try block throws, be it
\* after the result is saved.
RunFails(w) ==
    /\ proc[w].pc \in {"step", "save_result", "count_usage", "complete_job"}
    /\ Goto(w, "fail_analysis")
    /\ UNCHANGED <<analysis, job, usageVars, retried, crashes>>

\* Mutant: the job is completed without counting the analysis.
SaveResultUncounted(w) ==
    /\ At(w, "save_result")
    /\ WriteDoc(w, [Doc(w) EXCEPT !.status = "completed", !.result = TRUE])
    /\ Goto(w, "complete_job")
    /\ UNCHANGED <<job, usageVars, retried, crashes>>
SaveResult(w) ==
    /\ At(w, "save_result")
    /\ WriteDoc(w, [Doc(w) EXCEPT !.status = "completed", !.result = TRUE])
    /\ Goto(w, "count_usage")
    /\ UNCHANGED <<job, usageVars, retried, crashes>>

\* Somebody has read the row of the counters and not yet written it back.
Counting == increment # NoRow \/ \E w \in Workers : proc[w].counts # NoRow

\* incrementUsage, first half.
ReadUsage(w) ==
    /\ SplitUpdates
    /\ proc[w].pc = "count_usage"
    /\ proc[w].counts = NoRow
    /\ proc' = [proc EXCEPT ![w].counts = usage]
    /\ contended' = (contended \/ Counting)
    /\ UNCHANGED <<analysis, job, usage, increment, retried, crashes>>

CountUsage(w) ==
    /\ At(w, "count_usage")
    /\ usage' = Counts(w) \cup {proc[w].on}
    /\ Goto(w, "complete_job")
    /\ UNCHANGED <<analysis, job, increment, contended, retried, crashes>>

\* Another request of the account counts an upload, an export, a link, ...
ReadIncrement ==
    /\ SplitUpdates
    /\ increment = NoRow
    /\ increment' = usage
    /\ contended' = (contended \/ Counting)
    /\ UNCHANGED <<analysis, job, usage, proc, retried, crashes>>

WriteIncrement ==
    /\ increment # NoRow
    /\ usage' = increment
    /\ increment' = NoRow
    /\ UNCHANGED <<analysis, job, contended, proc, retried, crashes>>

CompleteJob(w) ==
    /\ At(w, "complete_job")
    /\ WriteRow(w, CompletedRow(Row(w)))
    /\ Return(w)
    /\ UNCHANGED <<analysis, usageVars, retried, crashes>>

\* Mutant: markFailed leaves the status of the analysis.
FailAnalysisKept(w) ==
    /\ At(w, "fail_analysis")
    /\ Goto(w, "fail_job")
    /\ UNCHANGED <<analysis, job, usageVars, retried, crashes>>
\* Mutant: markFailed gives the analysis the status of its job.
FailAnalysisAsJob(w) ==
    /\ At(w, "fail_analysis")
    /\ WriteDoc(w, [Doc(w) EXCEPT !.status = FailedRow(job[proc[w].on]).status])
    /\ Goto(w, "fail_job")
    /\ UNCHANGED <<job, usageVars, retried, crashes>>
\* markFailed: first the analysis, then the job.
FailAnalysis(w) ==
    /\ At(w, "fail_analysis")
    /\ WriteDoc(w, [Doc(w) EXCEPT !.status = "failed"])
    /\ Goto(w, "fail_job")
    /\ UNCHANGED <<job, usageVars, retried, crashes>>

FailJob(w) ==
    /\ At(w, "fail_job")
    /\ WriteRow(w, FailedRow(Row(w)))
    /\ Return(w)
    /\ UNCHANGED <<analysis, usageVars, retried, crashes>>

(***************************************************************************)
(* Faults, time and maintenance.                                           *)
(***************************************************************************)

Crash(p) ==
    /\ proc[p].pc # "idle"
    /\ crashes < MaxCrashes
    /\ crashes' = crashes + 1
    /\ Return(p)
    /\ UNCHANGED <<analysis, job, usageVars, retried>>

RunsOn(w, a) == proc[w].pc # "idle" /\ proc[w].on = a
Running(a) == \E w \in Workers : RunsOn(w, a)
Requested(a) == \E h \in Handlers : proc[h].pc # "idle" /\ proc[h].on = a

\* Time passes for job a: for its row and for the copies of it.
Age(a) ==
    /\ job[a].status \in {"processing", "failed"}
    /\ job[a].age < 3
    /\ job[a].age = 0 /\ ~SlowRuns => ~Running(a)
    /\ job' = [job EXCEPT ![a].age = @ + 1]
    /\ proc' = [p \in Processes |->
                   IF proc[p].on = a /\ proc[p].row # NoRow
                   THEN [proc[p] EXCEPT !.row.age = Bump(@, 3)]
                   ELSE proc[p]]
    /\ UNCHANGED <<analysis, usageVars, retried, crashes>>

BackoffElapses(a) ==
    /\ job[a].status # "absent" /\ ~job[a].available
    /\ job' = [job EXCEPT ![a].available = TRUE]
    /\ UNCHANGED <<analysis, usageVars, proc, retried, crashes>>

Stale(a) == job[a].status = "processing" /\ job[a].age >= 2 /\ job[a].retries < MaxAttempts

RecoverStaleProcessingJobs ==
    /\ \E a \in Analyses : Stale(a)
    /\ job' = [a \in Analyses |-> IF Stale(a) THEN RecoveredRow(job[a]) ELSE job[a]]
    /\ UNCHANGED <<analysis, usageVars, proc, retried, crashes>>

Expired(a) == job[a].status = "failed" /\ job[a].age = 3

CleanupStaleFailedJobs ==
    /\ \E a \in Analyses : Expired(a)
    /\ job' = [a \in Analyses |-> IF Expired(a) THEN NoJob ELSE job[a]]
    /\ UNCHANGED <<analysis, usageVars, proc, retried, crashes>>

-----------------------------------------------------------------------------

HandlerStep(h) ==
    \/ SaveJob(h)
    \/ Enqueue(h)
    \/ ReadJob(h)
    \/ Reopen(h)
    \/ Requeue(h)

WorkerStep(w) ==
    \/ \E a \in Analyses : Claim(w, a)
    \/ LoadFails(w)
    \/ Begin(w)
    \/ MoveToStep(w)
    \/ RunFails(w)
    \/ SaveResult(w)
    \/ ReadUsage(w)
    \/ CountUsage(w)
    \/ CompleteJob(w)
    \/ FailAnalysis(w)
    \/ FailJob(w)

Next ==
    \/ \E h \in Handlers, a \in Analyses : CreateAnalysis(h, a) \/ RetryAnalysis(h, a)
    \/ \E h \in Handlers : HandlerStep(h)
    \/ \E w \in Workers : WorkerStep(w)
    \/ \E p \in Processes : Read(p) \/ Crash(p)
    \/ ReadIncrement
    \/ WriteIncrement
    \/ \E a \in Analyses : Age(a) \/ BackoffElapses(a)
    \/ RecoverStaleProcessingJobs
    \/ CleanupStaleFailedJobs

Spec == Init /\ [][Next]_vars

\* The worker loop polls and its calls return, requests are served, and time
\* passes.  Nothing obliges anybody to create, to retry, to crash or to sweep.
Fairness ==
    /\ \A w \in Workers : WF_vars(WorkerStep(w) \/ Read(w))
    /\ \A h \in Handlers : WF_vars(HandlerStep(h) \/ Read(h))
    /\ \A a \in Analyses : WF_vars(Age(a)) /\ WF_vars(BackoffElapses(a))

FairSpec == Spec /\ Fairness

-----------------------------------------------------------------------------
(***************************************************************************)
(* Properties.                                                             *)
(***************************************************************************)

\* The rows keep their types, stale copies included: in particular an analysis never
\* shows a status that only its job has.
TypeOK ==
    /\ analysis \in [Analyses -> AnalysisRow]
    /\ job \in [Analyses -> JobRow]
    /\ usage \in SUBSET Analyses
    /\ increment \in (SUBSET Analyses) \cup {NoRow}
    /\ contended \in BOOLEAN
    /\ proc \in [Processes -> Locals]
    /\ retried \in 0..MaxRetries
    /\ crashes \in 0..MaxCrashes

\* A row can make progress: a processing job has a lease to expire, a failed
\* job has budget left, so that claimNextQueued takes it up again, and only a
\* dead-lettered job has none.
RowSound(r) ==
    /\ r.status = "processing" => r.leased
    /\ r.status = "failed" => r.retries < MaxAttempts
    /\ r.status = "dead_letter" => r.retries = MaxAttempts

\* No job is stranded in a status from which claimNextQueued would never take
\* it again, whatever stale copy of the row a process writes back.
JobsSound == \A a \in Analyses : RowSound(job[a])

\* A job is completed only when the report of its analysis is stored, and counted in
\* the usage of the account unless increments of the row have met: one of them is then
\* lost.  (With a second slot, or after a retry, an old copy of the analysis may be
\* written over the report.)
CompletedJobHasReport ==
    \A a \in Analyses : job[a].status = "completed" =>
        analysis[a].result /\ (a \in usage \/ contended)

\* Once nobody works on an analysis, its row agrees with the terminal status of
\* its job: what getAnalysisStatus shows is not contradictory.  (Two overlapping runs
\* of one job can make it so, each with its own verdict: the late enqueue of the
\* request makes a job that is running claimable again.)
RowsAgreeWhenQuiet ==
    \A a \in Analyses : ~Running(a) /\ ~Requested(a) =>
        /\ job[a].status = "completed" => analysis[a].status = "completed"
        /\ job[a].status \in {"failed", "dead_letter"} => analysis[a].status = "failed"

Accepted(a) == analysis[a].status # "absent" /\ job[a].status # "absent"

\* An accepted analysis without a verdict always has a job that a worker will
\* claim: a crash between any two writes strands nothing.  (A request that dies
\* between the save of the analysis and that of the job does: see Accepted.  So does a
\* retry that spends the budget, and, with a second slot, a run that starts after another
\* has failed the job and then dies.)
NothingStranded ==
    \A a \in Analyses :
        Accepted(a) /\ ~Running(a) /\ ~Requested(a)
            /\ analysis[a].status \in {"queued", "processing"}
        => job[a].status \in {"queued", "processing"}

\* The refinement mapping to ReportDelivery.
Stage(a) ==
    IF ~analysis[a].result THEN "none"
    ELSE IF job[a].status = "completed" THEN "delivered"
    ELSE "stored"

Delivery == INSTANCE ReportDelivery WITH stage <- [a \in Analyses |-> Stage(a)]

\* The pipeline implements ReportDelivery: with one slot and without retries, no order of
\* the steps of the worker, handlers and sweeps, and no crash between two of them, loses a
\* report that was stored or completes a job before its report is.  (Of two runs that
\* overlap, one may write an old copy of the analysis over the report of the other.)
DeliversReports == Delivery!Spec

\* Every job ends: sooner or later it stays completed or dead-lettered (or is
\* removed by the cleanup), although a run may outlast its lease, the sweep may queue the
\* job under it, and a request or a crash may come between any two steps.  This is of one
\* slot: the old copies of the row that two overlapping runs write back can undo the
\* charge to the retry budget again and again.
JobsSettle ==
    \A a \in Analyses : <>[](job[a].status \in {"absent", "completed", "dead_letter"})

\* Every accepted analysis gets its verdict, and keeps it, whenever the worker dies,
\* unless a retry is made: one that spends the budget dead-letters the job of an analysis
\* that was reopened before.  Of one slot, as JobsSettle.
AnalysesSettle ==
    [](retried = 0) =>
        \A a \in Analyses : <>[](~Accepted(a) \/ analysis[a].status \in {"completed", "failed"})
=============================================================================

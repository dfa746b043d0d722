---------------------------- MODULE ExperimentJobs ----------------------------
(***************************************************************************)
(* The experiments of one account: the tables experiment_plans,            *)
(* experiment_plan_items and experiment_jobs, the request that queues a    *)
(* plan, the controls of a job by its user or an administrator, the        *)
(* experiment workers, the recovery and the cleanup of the maintenance.    *)
(*                                                                         *)
(* The workers need Postgres, so an update of a job is a SELECT and an     *)
(* UPDATE of every column, with others in between.                         *)
(*                                                                         *)
(* Abstractions.                                                           *)
(*  - leased_until is none, live or over.  updated_at and available_at are *)
(*    left to the scheduling: a backoff delays a claim, and the recovery   *)
(*    (30 minutes after the last update) comes after the lease (30         *)
(*    minutes after the claim).                                            *)
(*  - priority decides between the claimable jobs: any may come first.     *)
(*  - retry_count has no upper bound in the code (a retry of a failed job  *)
(*    stores one above max_attempts): retries saturates at MaxAttempts,    *)
(*    with which alone the code compares it.                               *)
(*  - An item asks for one unit of compute.  An event is written with the  *)
(*    update it reports, the memory of a verdict in one step.              *)
(*  - A call that throws outside the try block of the worker, or in a      *)
(*    request, has the effect of a crash.                                  *)
(***************************************************************************)
EXTENDS Naturals, FiniteSets

CONSTANTS
    Plans, Items, PlanOf,   \* experiment plans, their items, the plan of an item
    Jobs,                   \* job ids, in the order in which they are drawn
    Workers,                \* experiment workers (one slot in a process)
    Requests,               \* web handlers that queue plans
    Users,                  \* web handlers that control jobs
    NoRow,                  \* no row, no plan: the local of an idle process
    MaxAttempts,            \* max_attempts (3)
    QueueLimit,             \* queued_experiments_limit of the account
    ConcurrencyLimit,       \* concurrent_experiments_limit
    ComputeLimit,           \* monthly_experiment_compute_units
    MaxFaults               \* bound: controls, crashes, runs that outlast their lease,
                            \* requests that overlap

ASSUME JobsAssumption == Jobs \subseteq Nat /\ IsFiniteSet(Jobs)
ASSUME PlanAssumption == PlanOf \in [Items -> Plans]
ASSUME AttemptsAssumption == MaxAttempts \in Nat \ {0}
ASSUME FaultsAssumption == MaxFaults \in Nat
ASSUME ProcessAssumption == Workers \cap Users = {}
ASSUME NoRowAssumption == NoRow \notin Plans \cup Jobs

VARIABLES
    plan,       \* status of the rows of experiment_plans
    item,       \* status of the rows of experiment_plan_items
    job,        \* the table experiment_jobs
    logged,     \* the jobs that experiment_job_events refers to
    units,      \* experiment_compute_units used this month
    cards,      \* the card bundles stored under the key of a job
    memory,     \* the jobs whose verdict is in the research memory
    proc,       \* locals of workers and users
    request,    \* locals of the requests that queue a plan
    faults,     \* number of controls, crashes, overruns and overlaps so far
    overlapped  \* history: has a request to queue begun during another?

vars == <<plan, item, job, logged, units, cards, memory, proc, request,
          faults, overlapped>>
queueVars == <<plan, item, units, request, overlapped>>
runVars == <<cards, memory>>

Processes == Workers \cup Users

Job == [status : {"absent", "queued", "processing", "paused", "canceled", "completed", "failed"},
        item : Items \cup {NoRow},
        retries : 0..MaxAttempts,
        lease : {"none", "live", "over"}]

NoJob == [status |-> "absent", item |-> NoRow, retries |-> 0, lease |-> "none"]

Controls == {"pause", "cancel", "retry", "priority"}
Updates == {"begin", "load", "complete"} \cup Controls

\* count is the retry_count, lease the leased_until of the copy from the claim.
Locals == [pc : Updates \cup {"idle", "execute", "record", "cards", "requeue", "fail", "remember"},
           on : Jobs \cup {NoRow},
           count : 0..MaxAttempts,
           lease : {"none", "live", "over"},
           row : Job \cup {NoRow}]

Idle == [pc |-> "idle", on |-> NoRow, count |-> 0, lease |-> "none", row |-> NoRow]

RequestLocals == [pc : {"idle", "check", "plan", "items", "insert", "usage", "charge"},
                  on : Plans \cup {NoRow},
                  todo : SUBSET Items,
                  made : SUBSET Jobs,
                  used : Nat]

NoRequest == [pc |-> "idle", on |-> NoRow, todo |-> {}, made |-> {}, used |-> 0]

Init ==
    /\ plan = [p \in Plans |-> "draft"]
    /\ item = [i \in Items |-> "draft"]
    /\ job = [j \in Jobs |-> NoJob]
    /\ logged = {}
    /\ units = 0
    /\ cards = [j \in Jobs |-> {}]
    /\ memory = {}
    /\ proc = [p \in Processes |-> Idle]
    /\ request = [h \in Requests |-> NoRequest]
    /\ faults = 0
    /\ overlapped = FALSE

Created == {j \in Jobs : job[j].status # "absent"}
Active == {j \in Jobs : job[j].status \in {"queued", "paused", "processing"}}
Running(j) == \E w \in Workers : proc[w].on = j

\* One more attempt, up to the number that is told apart.
Bump(n) == IF n < MaxAttempts THEN n + 1 ELSE MaxAttempts

(***************************************************************************)
(* Queueing a plan.                                                        *)
(***************************************************************************)

\* The status of the plan is not looked at: a queued plan is approved again.
ApproveExperimentPlan(p) ==
    /\ plan' = [plan EXCEPT ![p] = "approved"]
    /\ UNCHANGED <<item, job, logged, units, cards, memory, proc, request,
                   faults, overlapped>>

DraftItems(p) == {i \in Items : PlanOf[i] = p /\ item[i] = "draft"}

At(h, pc) == request[h].pc = pc
Proceed(h, pc) == request' = [request EXCEPT ![h].pc = pc]

\* queueExperimentPlan: read the plan and its draft items.
QueueExperimentPlan(h, p) ==
    /\ At(h, "idle")
    /\ plan[p] = "approved"
    /\ DraftItems(p) # {}
    /\ request' = [request EXCEPT ![h] = [NoRequest EXCEPT
                       !.pc = "check", !.on = p, !.todo = DraftItems(p)]]
    /\ IF \A g \in Requests : At(g, "idle")
       THEN UNCHANGED <<overlapped, faults>>
       ELSE /\ faults < MaxFaults
            /\ faults' = faults + 1
            /\ overlapped' = TRUE
    /\ UNCHANGED <<plan, item, job, logged, units, proc>>
    /\ UNCHANGED runVars

\* assertExperimentQueueAllowed: the queue, the concurrency, the compute.
Check(h) ==
    /\ At(h, "check")
    /\ IF /\ Cardinality(Active) + Cardinality(request[h].todo) <= QueueLimit
          /\ Cardinality({j \in Jobs : job[j].status = "processing"}) < ConcurrencyLimit
          /\ units + Cardinality(request[h].todo) <= ComputeLimit
       THEN Proceed(h, "plan")
       ELSE request' = [request EXCEPT ![h] = NoRequest]
    /\ UNCHANGED <<plan, item, job, logged, units, proc, faults, overlapped>>
    /\ UNCHANGED runVars

MarkPlan(h) ==
    /\ At(h, "plan")
    /\ plan' = [plan EXCEPT ![request[h].on] = "queued"]
    /\ Proceed(h, "items")
    /\ UNCHANGED <<item, job, logged, units, proc, faults, overlapped>>
    /\ UNCHANGED runVars

\* Mutant: the jobs are queued and their items stay drafts.
MarkItemsNot(h) ==
    /\ At(h, "items")
    /\ Proceed(h, "insert")
    /\ UNCHANGED <<plan, item, job, logged, units, proc, faults, overlapped>>
    /\ UNCHANGED runVars
\* All draft items of the plan at the time of the UPDATE.
MarkItems(h) ==
    /\ At(h, "items")
    /\ item' = [i \in Items |-> IF i \in DraftItems(request[h].on) THEN "queued" ELSE item[i]]
    /\ Proceed(h, "insert")
    /\ UNCHANGED <<plan, job, logged, units, proc, faults, overlapped>>
    /\ UNCHANGED runVars

\* One INSERT for each job, under a fresh random id.
InsertJob(h, i, j) ==
    /\ At(h, "insert")
    /\ i \in request[h].todo
    /\ job[j].status = "absent"
    /\ \A k \in Jobs : k < j => job[k].status # "absent"
    /\ job' = [job EXCEPT ![j] = [NoJob EXCEPT !.status = "queued", !.item = i]]
    /\ request' = [request EXCEPT
           ![h].todo = @ \ {i},
           ![h].made = @ \cup {j},
           ![h].pc = IF request[h].todo = {i} THEN "usage" ELSE "insert"]
    /\ UNCHANGED <<plan, item, logged, units, proc, faults, overlapped>>
    /\ UNCHANGED runVars

\* The events of the jobs and of the program, then incrementUsage reads its row.
ReadUsage(h) ==
    /\ At(h, "usage")
    /\ logged' = logged \cup request[h].made
    /\ request' = [request EXCEPT ![h].pc = "charge", ![h].used = units]
    /\ UNCHANGED <<plan, item, job, units, proc, faults, overlapped>>
    /\ UNCHANGED runVars

\* Mutant: the compute of the request is not charged.
ChargeNot(h) ==
    /\ At(h, "charge")
    /\ request' = [request EXCEPT ![h] = NoRequest]
    /\ UNCHANGED <<plan, item, job, logged, units, proc, faults, overlapped>>
    /\ UNCHANGED runVars
\* incrementUsage writes back what it has read: of two at once one may be lost.
Charge(h) ==
    /\ At(h, "charge")
    /\ units' = request[h].used + Cardinality(request[h].made)
    /\ request' = [request EXCEPT ![h] = NoRequest]
    /\ UNCHANGED <<plan, item, job, logged, proc, faults, overlapped>>
    /\ UNCHANGED runVars

(***************************************************************************)
(* updateExperimentJob: the SELECT is Read, the UPDATE and the event are   *)
(* the action of the process.                                              *)
(***************************************************************************)

Read(p) ==
    /\ proc[p].pc \in Updates
    /\ proc[p].row = NoRow
    /\ proc' = [proc EXCEPT ![p].row = job[proc[p].on]]
    /\ UNCHANGED <<job, logged, faults>>
    /\ UNCHANGED queueVars
    /\ UNCHANGED runVars

\* A row that was read as missing is neither written nor reported.  The updates of
\* a failing run set all the columns kept here: their SELECT is no step.
Write(p, r) ==
    LET j == proc[p].on
        found == job[j].status # "absent"
    IN  /\ job' = IF found THEN [job EXCEPT ![j] = r] ELSE job
        /\ logged' = IF found THEN logged \cup {j} ELSE logged

Update(p, pc, r) ==
    /\ proc[p].pc = pc
    /\ proc[p].row # NoRow
    /\ Write(p, r)

Goto(p, pc) == proc' = [proc EXCEPT ![p].pc = pc, ![p].row = NoRow]
Return(p) == proc' = [proc EXCEPT ![p] = Idle]

(***************************************************************************)
(* Controls: by the user at any time, and the retry of an administrator.   *)
(***************************************************************************)

StartControl(u, j, action) ==
    /\ proc[u].pc = "idle"
    /\ faults < MaxFaults
    /\ faults' = faults + 1
    /\ proc' = [proc EXCEPT ![u] = [Idle EXCEPT
                   !.pc = action, !.on = j, !.count = Bump(job[j].retries)]]
    /\ UNCHANGED <<job, logged>>
    /\ UNCHANGED queueVars
    /\ UNCHANGED runVars

UpdateExperimentJobControl(u, j, action) ==
    /\ job[j].status # "absent"
    /\ StartControl(u, j, action)

RetryAdminJob(u, j) ==
    /\ job[j].status = "failed"
    /\ StartControl(u, j, "retry")

ControlRow(action, r, count) ==
    CASE action = "pause" -> [r EXCEPT !.status = "paused"]
      [] action = "cancel" -> [r EXCEPT !.status = "canceled"]
      [] action = "retry" -> [r EXCEPT !.status = "queued", !.retries = count]
      [] action = "priority" -> r

ApplyControl(u) ==
    /\ proc[u].pc \in Controls
    /\ Update(u, proc[u].pc, ControlRow(proc[u].pc, proc[u].row, proc[u].count))
    /\ Return(u)
    /\ UNCHANGED faults
    /\ UNCHANGED queueVars
    /\ UNCHANGED runVars

(***************************************************************************)
(* Workers.                                                                *)
(***************************************************************************)

Claimable(j) ==
    /\ \/ job[j].status = "queued"
       \/ job[j].status = "processing" /\ job[j].lease = "over"
    /\ job[j].retries < MaxAttempts

\* Mutant: the claim takes no lease.
ClaimUnleased(w, j) ==
    /\ proc[w].pc = "idle"
    /\ Claimable(j)
    /\ job' = [job EXCEPT ![j].status = "processing"]
    /\ proc' = [proc EXCEPT ![w] = [Idle EXCEPT
                   !.pc = "begin", !.on = j, !.count = job[j].retries, !.lease = "live"]]
    /\ UNCHANGED <<logged, faults>>
    /\ UNCHANGED queueVars
    /\ UNCHANGED runVars
\* claimNextExperimentJob: one statement.
Claim(w, j) ==
    /\ proc[w].pc = "idle"
    /\ Claimable(j)
    /\ job' = [job EXCEPT ![j].status = "processing", ![j].lease = "live"]
    /\ proc' = [proc EXCEPT ![w] = [Idle EXCEPT
                   !.pc = "begin", !.on = j, !.count = job[j].retries, !.lease = "live"]]
    /\ UNCHANGED <<logged, faults>>
    /\ UNCHANGED queueVars
    /\ UNCHANGED runVars

Begin(w) ==
    /\ Update(w, "begin", [proc[w].row EXCEPT !.status = "processing", !.lease = proc[w].lease])
    /\ Goto(w, "load")
    /\ UNCHANGED faults
    /\ UNCHANGED queueVars
    /\ UNCHANGED runVars

\* The progress of the loaded plan writes the whole row back.
Load(w) ==
    /\ Update(w, "load", proc[w].row)
    /\ Goto(w, "execute")
    /\ UNCHANGED faults
    /\ UNCHANGED queueVars
    /\ UNCHANGED runVars

\* Mutant: the artifacts are not stored.
ExecuteUnstored(w) ==
    /\ proc[w].pc = "execute"
    /\ Goto(w, "complete")
    /\ UNCHANGED <<job, logged, faults>>
    /\ UNCHANGED queueVars
    /\ UNCHANGED runVars
\* executeExperimentJob: the engine, then its files under the key of the job.
Execute(w) ==
    /\ proc[w].pc = "execute"
    /\ cards' = [cards EXCEPT ![proc[w].on] = @ \cup {"verdict"}]
    /\ Goto(w, "complete")
    /\ UNCHANGED <<job, logged, memory, faults>>
    /\ UNCHANGED queueVars

Complete(w) ==
    /\ Update(w, "complete", [proc[w].row EXCEPT !.status = "completed", !.lease = "none"])
    /\ Goto(w, "record")
    /\ UNCHANGED faults
    /\ UNCHANGED queueVars
    /\ UNCHANGED runVars

\* Mutant: the verdict is not remembered.
RecordNot(w) ==
    /\ proc[w].pc = "record"
    /\ Return(w)
    /\ UNCHANGED <<job, logged, faults>>
    /\ UNCHANGED queueVars
    /\ UNCHANGED runVars
\* recordEvent and recordAndIngestVerdictMemory.
Record(w) ==
    /\ proc[w].pc = "record"
    /\ memory' = memory \cup {proc[w].on}
    /\ Return(w)
    /\ UNCHANGED <<job, logged, cards, faults>>
    /\ UNCHANGED queueVars

Terminal(w) == proc[w].count + 1 >= MaxAttempts

\* Any call of the try block throws, those after the completion included.
RunFails(w) ==
    /\ proc[w].pc \in {"load", "execute", "complete", "record"}
    /\ Goto(w, IF Terminal(w) THEN "cards" ELSE "requeue")
    /\ UNCHANGED <<job, logged, faults>>
    /\ UNCHANGED queueVars
    /\ UNCHANGED runVars

\* uploadExperimentFailureCards: its own failure is only logged.
UploadFailureCards(w) ==
    /\ proc[w].pc = "cards"
    /\ \/ cards' = [cards EXCEPT ![proc[w].on] = @ \cup {"failure"}]
       \/ cards' = cards
    /\ Goto(w, "fail")
    /\ UNCHANGED <<job, logged, memory, faults>>
    /\ UNCHANGED queueVars

\* Mutant: a failed run is queued again uncharged.
RequeueUncharged(w) ==
    /\ proc[w].pc = "requeue"
    /\ Write(w, [job[proc[w].on] EXCEPT !.status = "queued", !.lease = "none"])
    /\ Return(w)
    /\ UNCHANGED faults
    /\ UNCHANGED queueVars
    /\ UNCHANGED runVars
Requeue(w) ==
    /\ proc[w].pc = "requeue"
    /\ Write(w, [job[proc[w].on] EXCEPT
           !.status = "queued", !.retries = proc[w].count + 1, !.lease = "none"])
    /\ Return(w)
    /\ UNCHANGED faults
    /\ UNCHANGED queueVars
    /\ UNCHANGED runVars

\* Mutant: the job gets the status with which the analysis queue ends a failed job.
FailAsDeadLetter(w) ==
    /\ proc[w].pc = "fail"
    /\ Write(w, [job[proc[w].on] EXCEPT
           !.status = "dead_letter", !.retries = proc[w].count + 1, !.lease = "none"])
    /\ Goto(w, "remember")
    /\ UNCHANGED faults
    /\ UNCHANGED queueVars
    /\ UNCHANGED runVars
Fail(w) ==
    /\ proc[w].pc = "fail"
    /\ Write(w, [job[proc[w].on] EXCEPT
           !.status = "failed", !.retries = proc[w].count + 1, !.lease = "none"])
    /\ Goto(w, "remember")
    /\ UNCHANGED faults
    /\ UNCHANGED queueVars
    /\ UNCHANGED runVars

\* The memory of the failure; when it throws the loop goes on all the same.
Remember(w) ==
    /\ proc[w].pc = "remember"
    /\ memory' \in {memory, memory \cup {proc[w].on}}
    /\ Return(w)
    /\ UNCHANGED <<job, logged, cards, faults>>
    /\ UNCHANGED queueVars

(***************************************************************************)
(* Failures and time.                                                      *)
(***************************************************************************)

Crash(p) ==
    /\ proc[p].pc # "idle"
    /\ faults < MaxFaults
    /\ faults' = faults + 1
    /\ Return(p)
    /\ UNCHANGED <<job, logged>>
    /\ UNCHANGED queueVars
    /\ UNCHANGED runVars

CrashRequest(h) ==
    /\ ~At(h, "idle")
    /\ faults < MaxFaults
    /\ faults' = faults + 1
    /\ request' = [request EXCEPT ![h] = NoRequest]
    /\ UNCHANGED <<plan, item, job, logged, units, proc, overlapped>>
    /\ UNCHANGED runVars

PastLease(lease) == IF lease = "live" THEN "over" ELSE lease
PastRow(r) == IF r = NoRow THEN NoRow ELSE [r EXCEPT !.lease = PastLease(r.lease)]

\* The lease passes in the row and in every copy of it.
LeasePasses(j) ==
    /\ job[j].status # "absent"
    /\ job[j].lease = "live"
    /\ job' = [job EXCEPT ![j].lease = "over"]
    /\ proc' = [p \in Processes |->
           IF proc[p].on # j THEN proc[p]
           ELSE [proc[p] EXCEPT !.lease = PastLease(proc[p].lease), !.row = PastRow(proc[p].row)]]

LeaseExpires(j) ==
    /\ ~Running(j)
    /\ LeasePasses(j)
    /\ UNCHANGED <<logged, faults>>
    /\ UNCHANGED queueVars
    /\ UNCHANGED runVars

\* Nothing extends the lease of a run that takes longer.
Overrun(j) ==
    /\ Running(j)
    /\ faults < MaxFaults
    /\ faults' = faults + 1
    /\ LeasePasses(j)
    /\ UNCHANGED logged
    /\ UNCHANGED queueVars
    /\ UNCHANGED runVars

(***************************************************************************)
(* Maintenance.                                                            *)
(***************************************************************************)

Stale(j) == job[j].status = "processing" /\ job[j].lease = "over" /\ job[j].retries < MaxAttempts

\* One UPDATE of the rows that are stale by now; the lease stays.
RecoverStaleProcessingJobs ==
    \E stale \in SUBSET {j \in Jobs : Stale(j)} :
        /\ stale # {}
        /\ job' = [j \in Jobs |->
               IF j \in stale
               THEN [job[j] EXCEPT !.status = "queued", !.retries = Bump(@)]
               ELSE job[j]]
        /\ UNCHANGED <<logged, proc, faults>>
        /\ UNCHANGED queueVars
        /\ UNCHANGED runVars

FailedJobs == {j \in Jobs : job[j].status = "failed"}

\* One DELETE of the failed rows that are old by now.  The events reference their
\* job without ON DELETE, so that one event of one old job fails the statement.
CleanupStaleFailedJobs ==
    \E old \in SUBSET FailedJobs :
        /\ job' = IF old \cap logged = {}
                  THEN [j \in Jobs |-> IF j \in old THEN NoJob ELSE job[j]]
                  ELSE job
        /\ UNCHANGED <<logged, proc, faults>>
        /\ UNCHANGED queueVars
        /\ UNCHANGED runVars

-----------------------------------------------------------------------------

RequestStep(h) ==
    \/ Check(h)
    \/ MarkPlan(h)
    \/ MarkItems(h)
    \/ \E i \in Items, j \in Jobs : InsertJob(h, i, j)
    \/ ReadUsage(h)
    \/ Charge(h)

WorkerStep(w) ==
    \/ Begin(w)
    \/ Load(w)
    \/ Execute(w)
    \/ Complete(w)
    \/ Record(w)
    \/ RunFails(w)
    \/ UploadFailureCards(w)
    \/ Requeue(w)
    \/ Fail(w)
    \/ Remember(w)

Next ==
    \/ \E p \in Plans : ApproveExperimentPlan(p)
    \/ \E h \in Requests, p \in Plans : QueueExperimentPlan(h, p)
    \/ \E h \in Requests : RequestStep(h) \/ CrashRequest(h)
    \/ \E u \in Users, j \in Jobs, action \in Controls : UpdateExperimentJobControl(u, j, action)
    \/ \E u \in Users, j \in Jobs : RetryAdminJob(u, j)
    \/ \E u \in Users : ApplyControl(u)
    \/ \E w \in Workers, j \in Jobs : Claim(w, j)
    \/ \E w \in Workers : WorkerStep(w)
    \/ \E p \in Processes : Read(p) \/ Crash(p)
    \/ \E j \in Jobs : LeaseExpires(j) \/ Overrun(j)
    \/ RecoverStaleProcessingJobs
    \/ CleanupStaleFailedJobs

Spec == Init /\ [][Next]_vars

\* The workers poll, their runs go on, and leases pass.  The claims of a worker are
\* not fair to every job, but end with the budgets.  Requests and controls may hang.
Fairness ==
    /\ \A w \in Workers : WF_vars(Read(w) \/ WorkerStep(w) \/ \E j \in Jobs : Claim(w, j))
    /\ WF_vars(\E j \in Jobs : LeaseExpires(j))

FairSpec == Spec /\ Fairness

-----------------------------------------------------------------------------
(***************************************************************************)
(* Properties.                                                             *)
(***************************************************************************)

\* The rows, and the copies that processes hold of them, keep their types.
TypeOK ==
    /\ plan \in [Plans -> {"draft", "approved", "queued"}]
    /\ item \in [Items -> {"draft", "queued"}]
    /\ job \in [Jobs -> Job]
    /\ logged \in SUBSET Jobs
    /\ units \in Nat
    /\ cards \in [Jobs -> SUBSET {"verdict", "failure"}]
    /\ memory \in SUBSET Jobs
    /\ proc \in [Processes -> Locals]
    /\ request \in [Requests -> RequestLocals]
    /\ faults \in 0..MaxFaults
    /\ overlapped \in BOOLEAN

\* Whatever runs at once, and however stale the row an update writes back: a job
\* in processing has a lease, so that it can be claimed again, and a failed job
\* has spent its budget, so that no retry of it will ever run.
RowSound(r) ==
    /\ r.status = "processing" => r.lease # "none"
    /\ r.status = "failed" => r.retries = MaxAttempts
JobsSound == \A j \in Jobs : RowSound(job[j])

\* A completed job has the artifacts of a run: neither the priority a user sets
\* with an old row nor a second run completes a job that nobody has executed.
CompletedHasVerdict == \A j \in Jobs : job[j].status = "completed" => "verdict" \in cards[j]

\* A plan is queued once although it may be approved again and its requests may
\* die: an item has two jobs only if two requests overlapped.
OneJobPerItem ==
    ~overlapped =>
        \A j, k \in Created : job[j].item = job[k].item => j = k

\* As long as nothing dies or overlaps, once the requests are done the items marked
\* as queued have their job, and the usage of the account counts each job once.
QueuedWorkAccounted ==
    faults = 0 /\ (\A h \in Requests : At(h, "idle")) =>
        /\ \A i \in Items : item[i] = "queued" <=> \E j \in Created : job[j].item = i
        /\ units = Cardinality(Created)

\* As long as no crash, control, overrun or overlap interferes, a completed job whose run is
\* over has a whole verdict, although every call of the run may throw: it is
\* remembered, and not overwritten by failure cards under the same key.
VerdictsUndisturbed ==
    \A j \in Jobs : faults = 0 /\ job[j].status = "completed" /\ ~Running(j)
        => j \in memory /\ cards[j] = {"verdict"}

\* Retention never removes a failed job, its events being in the way (docs/
\* full-implementation-dossier-source.md:668 says that it does).
FailedJobsKept ==
    [][\A j \in Jobs : job[j].status = "failed" => job'[j].status # "absent"]_vars

\* A job with budget left is not left alone: it is settled, put aside by its user
\* or spends its budget, whichever crashes, controls and overruns it meets.
Pending(j) == job[j].status \in {"queued", "processing"} /\ job[j].retries < MaxAttempts
JobsSettle == \A j \in Jobs : Pending(j) ~> ~Pending(j)

\* deploy/README.worker.md:320 and docs/admin-ops-console.md:34: a job that a
\* retry or the recovery has queued runs.
RequeuedRuns == \A j \in Jobs : job[j].status = "queued" ~> job[j].status # "queued"
=============================================================================

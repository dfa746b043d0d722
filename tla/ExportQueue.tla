----------------------------- MODULE ExportQueue -----------------------------
(***************************************************************************)
(* The export pipeline: the rows of the tables exports and export_jobs,    *)
(* the objects of the bucket reports, the handlers that request and retry  *)
(* exports, the export workers and the maintenance sweep.                  *)
(*                                                                         *)
(* Abstractions.                                                           *)
(*  - A timestamp is kept as what the code compares it with: available is  *)
(*    available_at <= now, expired is expires_at <= now (14 days), old is  *)
(*    last_attempt_at (30 minutes) or finished_at (3 days) beyond the      *)
(*    cutoff of the sweep.                                                 *)
(*  - retry_count has no upper bound in the code: retries saturates at     *)
(*    RetryBudget, with which the sweep compares it; nothing else does.    *)
(*  - The analysis is completed and its snapshot exists.  A lookup or a    *)
(*    rendering that fails is a run that fails.                            *)
(*  - An exception that leaves a handler or processNextExportJob has the   *)
(*    effect of a crash.                                                   *)
(***************************************************************************)
EXTENDS Naturals, FiniteSets

CONSTANTS
    Exports,        \* exports, numbered in the order of created_at
    Workers,        \* export workers (one slot in a process)
    Handlers,       \* web request handlers
    Keys,           \* storage keys
    KeyOf,          \* the key of an export: all it depends on is the
                    \* analysis, the snapshot and the format
    NoRow,          \* the local of a process that holds no row
    RetryBudget,    \* retry_count from which the sweep gives up (3)
    MaxRetries,     \* bound: retry requests
    MaxCrashes,     \* bound: crashes
    Crashing,       \* the processes that may crash
    SlowRuns        \* may a run last 30 minutes?

ASSUME ExportsAssumption == Exports \subseteq Nat
ASSUME KeyAssumption == KeyOf \in [Exports -> Keys]
ASSUME BudgetAssumption == RetryBudget \in Nat \ {0}
ASSUME BoundsAssumption == MaxRetries \in Nat /\ MaxCrashes \in Nat
ASSUME ModesAssumption == SlowRuns \in BOOLEAN
ASSUME ProcessAssumption ==
    Workers \cap Handlers = {} /\ Crashing \subseteq Workers \cup Handlers

VARIABLES
    record,     \* the table exports
    job,        \* the table export_jobs, keyed by export_id
    expired,    \* is expires_at of the export in the past?
    objects,    \* the keys at which the bucket holds an object
    proc,       \* locals of the workers and the handlers
    sweep,      \* what cleanupExpiredExports has still to do for an export
    retried,    \* number of retry requests so far
    crashes     \* number of crashes so far

vars == <<record, job, expired, objects, proc, sweep, retried, crashes>>

Processes == Workers \cup Handlers

\* stored: the record has a storage_key.  A deleted row is absent for good.
Record == [status : {"absent", "queued", "processing", "completed", "failed", "deleted"},
           stored : BOOLEAN]

Job == [status : {"absent", "queued", "processing", "completed", "failed"},
        retries : 0..RetryBudget,
        available : BOOLEAN,
        old : BOOLEAN]

WorkerPcs == {"load", "begin", "render", "persist", "put", "complete_record",
              "complete_job", "event", "fail_record", "fail_job"}
HandlerPcs == {"save_job", "enqueue", "check", "reopen", "requeue",
               "regenerate", "regenerate_record", "regenerate_job"}

RecordUpdates == {"begin", "complete_record", "fail_record", "reopen"}
JobUpdates == {"render", "persist", "complete_job", "fail_job", "enqueue", "requeue"}

Locals == [pc : {"idle"} \cup WorkerPcs \cup HandlerPcs,
           on : Exports \cup {NoRow},
           count : 0..RetryBudget,
           rec : Record \cup {NoRow},
           row : Job \cup {NoRow}]

Idle == [pc |-> "idle", on |-> NoRow, count |-> 0, rec |-> NoRow, row |-> NoRow]

NoJob == [status |-> "absent", retries |-> 0, available |-> FALSE, old |-> FALSE]

Init ==
    /\ record = [e \in Exports |-> [status |-> "absent", stored |-> FALSE]]
    /\ job = [e \in Exports |-> NoJob]
    /\ expired = [e \in Exports |-> FALSE]
    /\ objects = {}
    /\ proc = [p \in Processes |-> Idle]
    /\ sweep = [e \in Exports |-> "done"]
    /\ retried = 0
    /\ crashes = 0

Exists(e) == record[e].status \notin {"absent", "deleted"}

Bump(n) == IF n < RetryBudget THEN n + 1 ELSE RetryBudget

(***************************************************************************)
(* The read-modify-write of the repositories: the row is read by Read and  *)
(* written back by the action of the caller, others act in between.        *)
(***************************************************************************)

Read(p) ==
    /\ \/ /\ proc[p].pc \in JobUpdates
          /\ proc[p].row = NoRow
          /\ proc' = [proc EXCEPT ![p].row = job[proc[p].on]]
       \/ /\ proc[p].pc \in RecordUpdates
          /\ proc[p].rec = NoRow
          /\ Exists(proc[p].on)
          /\ proc' = [proc EXCEPT ![p].rec = record[proc[p].on]]
    /\ UNCHANGED <<record, job, expired, objects, sweep, retried, crashes>>

At(p, pc) ==
    /\ proc[p].pc = pc
    /\ pc \in JobUpdates => proc[p].row # NoRow
    /\ pc \in RecordUpdates => proc[p].rec # NoRow \/ ~Exists(proc[p].on)

Row(p) == proc[p].row
Rec(p) == proc[p].rec

WriteRow(p, r) ==
    LET e == proc[p].on
    IN  job' = IF job[e].status = "absent" THEN job ELSE [job EXCEPT ![e] = r]

\* An update of a row that is gone changes nothing.
WriteStatus(p, status) ==
    LET e == proc[p].on
    IN  record' = IF Exists(e) THEN [record EXCEPT ![e] = [Rec(p) EXCEPT !.status = status]]
                  ELSE record

Goto(p, pc) == proc' = [proc EXCEPT ![p].pc = pc, ![p].rec = NoRow, ![p].row = NoRow]
Return(p) == proc' = [proc EXCEPT ![p] = Idle]

(***************************************************************************)
(* Web handlers.                                                           *)
(***************************************************************************)

\* requestExport, up to the save of the record.
RequestExport(h, e) ==
    /\ proc[h].pc = "idle"
    /\ record[e].status = "absent"
    /\ \A f \in Exports : f < e => record[f].status # "absent"
    /\ record' = [record EXCEPT ![e].status = "queued"]
    /\ proc' = [proc EXCEPT ![h].pc = "save_job", ![h].on = e]
    /\ UNCHANGED <<job, expired, objects, sweep, retried, crashes>>

SaveJob(h) ==
    /\ At(h, "save_job")
    /\ job' = [job EXCEPT ![proc[h].on] = [NoJob EXCEPT !.status = "queued", !.available = TRUE]]
    /\ Goto(h, "enqueue")
    /\ UNCHANGED <<record, expired, objects, sweep, retried, crashes>>

\* enqueueRun, after the usage is counted and the event recorded.
Enqueue(h) ==
    /\ At(h, "enqueue")
    /\ WriteRow(h, [Row(h) EXCEPT !.status = "queued", !.available = TRUE])
    /\ Return(h)
    /\ UNCHANGED <<record, expired, objects, sweep, retried, crashes>>

\* retryAdminJob and retryAdminExport: read the job, then the record.
RetryExport(h, e) ==
    /\ proc[h].pc = "idle"
    /\ retried < MaxRetries
    /\ job[e].status # "absent"
    /\ proc' = [proc EXCEPT ![h].pc = "check", ![h].on = e, ![h].count = Bump(job[e].retries)]
    /\ retried' = retried + 1
    /\ UNCHANGED <<record, job, expired, objects, sweep, crashes>>

Check(h) ==
    /\ At(h, "check")
    /\ IF record[proc[h].on].status = "failed"
       THEN Goto(h, "reopen") \/ Goto(h, "regenerate")
       ELSE Return(h)
    /\ UNCHANGED <<record, job, expired, objects, sweep, retried, crashes>>

Reopen(h) ==
    /\ At(h, "reopen")
    /\ WriteStatus(h, "queued")
    /\ Goto(h, "requeue")
    /\ UNCHANGED <<job, expired, objects, sweep, retried, crashes>>

RetriedRow(r, retryCount) ==
    [r EXCEPT !.status = "queued", !.available = FALSE, !.retries = retryCount]

Requeue(h) ==
    /\ At(h, "requeue")
    /\ WriteRow(h, RetriedRow(Row(h), proc[h].count))
    /\ Return(h)
    /\ UNCHANGED <<record, expired, objects, sweep, retried, crashes>>

\* retryAdminExport on Postgres sends the two UPDATEs at once.
RegenerateRecord(h) ==
    /\ proc[h].pc \in {"regenerate", "regenerate_record"}
    /\ LET e == proc[h].on
       IN  record' = IF Exists(e) THEN [record EXCEPT ![e].status = "queued"] ELSE record
    /\ IF proc[h].pc = "regenerate" THEN Goto(h, "regenerate_job") ELSE Return(h)
    /\ UNCHANGED <<job, expired, objects, sweep, retried, crashes>>

RegenerateJob(h) ==
    /\ proc[h].pc \in {"regenerate", "regenerate_job"}
    /\ WriteRow(h, RetriedRow(job[proc[h].on], proc[h].count))
    /\ IF proc[h].pc = "regenerate" THEN Goto(h, "regenerate_record") ELSE Return(h)
    /\ UNCHANGED <<record, expired, objects, sweep, retried, crashes>>

(***************************************************************************)
(* Workers.                                                                *)
(***************************************************************************)

Claimable(e) == job[e].status = "queued" /\ job[e].available

\* claimNextQueued: one statement, the oldest queued job first.
Claim(w, e) ==
    /\ proc[w].pc = "idle"
    /\ Claimable(e)
    /\ \A f \in Exports : f < e => ~Claimable(f)
    /\ job' = [job EXCEPT ![e].status = "processing", ![e].old = FALSE]
    /\ proc' = [proc EXCEPT ![w].pc = "load", ![w].on = e]
    /\ UNCHANGED <<record, expired, objects, sweep, retried, crashes>>

\* When the record is gone the worker leaves the job in processing.
Load(w) ==
    /\ At(w, "load")
    /\ IF Exists(proc[w].on) THEN Goto(w, "begin") ELSE Return(w)
    /\ UNCHANGED <<record, job, expired, objects, sweep, retried, crashes>>

Begin(w) ==
    /\ At(w, "begin")
    /\ WriteStatus(w, "processing")
    /\ Goto(w, "render")
    /\ UNCHANGED <<job, expired, objects, sweep, retried, crashes>>

\* The two progress updates write the whole row back.
Render(w) ==
    /\ At(w, "render")
    /\ WriteRow(w, Row(w))
    /\ Goto(w, "persist")
    /\ UNCHANGED <<record, expired, objects, sweep, retried, crashes>>

\* Mutant: the record is completed before the object is stored.
PersistEarly(w) ==
    /\ At(w, "persist")
    /\ WriteRow(w, Row(w))
    /\ Goto(w, "complete_record")
    /\ UNCHANGED <<record, expired, objects, sweep, retried, crashes>>
Persist(w) ==
    /\ At(w, "persist")
    /\ WriteRow(w, Row(w))
    /\ Goto(w, "put")
    /\ UNCHANGED <<record, expired, objects, sweep, retried, crashes>>

PutObject(w) ==
    /\ At(w, "put")
    /\ objects' = objects \cup {KeyOf[proc[w].on]}
    /\ Goto(w, "complete_record")
    /\ UNCHANGED <<record, job, expired, sweep, retried, crashes>>

CompleteRecord(w) ==
    /\ At(w, "complete_record")
    /\ LET e == proc[w].on
       IN  record' = IF Exists(e) THEN [record EXCEPT ![e] = [status |-> "completed", stored |-> TRUE]]
                     ELSE record
    /\ Goto(w, "complete_job")
    /\ UNCHANGED <<job, expired, objects, sweep, retried, crashes>>

CompleteJob(w) ==
    /\ At(w, "complete_job")
    /\ WriteRow(w, [Row(w) EXCEPT !.status = "completed"])
    /\ Goto(w, "event")
    /\ UNCHANGED <<record, expired, objects, sweep, retried, crashes>>

RecordEvent(w) ==
    /\ At(w, "event")
    /\ Return(w)
    /\ UNCHANGED <<record, job, expired, objects, sweep, retried, crashes>>

\* Mutant: the failure is recorded on the job only.
RunFailsJobOnly(w) ==
    /\ proc[w].pc \in {"render", "persist", "put", "complete_record", "complete_job", "event"}
    /\ Goto(w, "fail_job")
    /\ UNCHANGED <<record, job, expired, objects, sweep, retried, crashes>>
\* Any call of the try block throws, the event of the completion included.
RunFails(w) ==
    /\ proc[w].pc \in {"render", "persist", "put", "complete_record", "complete_job", "event"}
    /\ Goto(w, "fail_record")
    /\ UNCHANGED <<record, job, expired, objects, sweep, retried, crashes>>

FailRecord(w) ==
    /\ At(w, "fail_record")
    /\ WriteStatus(w, "failed")
    /\ Goto(w, "fail_job")
    /\ UNCHANGED <<job, expired, objects, sweep, retried, crashes>>

\* Mutant: the job gets the status with which the analysis queue ends a failed job.
FailJobAsDeadLetter(w) ==
    /\ At(w, "fail_job")
    /\ WriteRow(w, [Row(w) EXCEPT !.status = "dead_letter", !.old = FALSE])
    /\ Return(w)
    /\ UNCHANGED <<record, expired, objects, sweep, retried, crashes>>
FailJob(w) ==
    /\ At(w, "fail_job")
    /\ WriteRow(w, [Row(w) EXCEPT !.status = "failed", !.old = FALSE])
    /\ Return(w)
    /\ UNCHANGED <<record, expired, objects, sweep, retried, crashes>>

(***************************************************************************)
(* Maintenance: one request of the sweep at a time.                        *)
(***************************************************************************)

\* listExpired: the exports to remove and whether they had a storage_key.
ListExpired ==
    /\ \A e \in Exports : sweep[e] = "done"
    /\ \E e \in Exports : Exists(e) /\ expired[e]
    /\ sweep' = [e \in Exports |->
                    IF ~(Exists(e) /\ expired[e]) THEN "done"
                    ELSE IF record[e].stored THEN "object" ELSE "row"]
    /\ UNCHANGED <<record, job, expired, objects, proc, retried, crashes>>

DeleteObject(e) ==
    /\ sweep[e] = "object"
    /\ \A f \in Exports : sweep[f] # "last"
    /\ objects' = objects \ {KeyOf[e]}
    /\ sweep' = [sweep EXCEPT ![e] = "last"]
    /\ UNCHANGED <<record, job, expired, proc, retried, crashes>>

DeleteRecord(e) ==
    /\ \/ sweep[e] = "last"
       \/ sweep[e] = "row" /\ \A f \in Exports : sweep[f] # "last"
    /\ record' = [record EXCEPT ![e] = [status |-> "deleted", stored |-> FALSE]]
    /\ sweep' = [sweep EXCEPT ![e] = "done"]
    /\ UNCHANGED <<job, expired, objects, proc, retried, crashes>>

Stale(e) == job[e].status = "processing" /\ job[e].old /\ job[e].retries < RetryBudget

RecoverStaleProcessingJobs ==
    /\ \E e \in Exports : Stale(e)
    /\ job' = [e \in Exports |->
                  IF Stale(e)
                  THEN [job[e] EXCEPT !.status = "queued", !.available = TRUE, !.retries = Bump(@)]
                  ELSE job[e]]
    /\ UNCHANGED <<record, expired, objects, proc, sweep, retried, crashes>>

Abandoned(e) == job[e].status = "failed" /\ job[e].old

CleanupStaleFailedJobs ==
    /\ \E e \in Exports : Abandoned(e)
    /\ job' = [e \in Exports |-> IF Abandoned(e) THEN NoJob ELSE job[e]]
    /\ UNCHANGED <<record, expired, objects, proc, sweep, retried, crashes>>

(***************************************************************************)
(* Faults and time.                                                        *)
(***************************************************************************)

Crash(p) ==
    /\ p \in Crashing
    /\ proc[p].pc # "idle"
    /\ crashes < MaxCrashes
    /\ crashes' = crashes + 1
    /\ Return(p)
    /\ UNCHANGED <<record, job, expired, objects, sweep, retried>>

\* The maintenance request dies between two exports or two deletions.
AbortSweep ==
    /\ \E e \in Exports : sweep[e] # "done"
    /\ crashes < MaxCrashes
    /\ crashes' = crashes + 1
    /\ sweep' = [e \in Exports |-> "done"]
    /\ UNCHANGED <<record, job, expired, objects, proc, retried>>

Running(e) == \E w \in Workers : proc[w].pc # "idle" /\ proc[w].on = e
Requested(e) == \E h \in Handlers : proc[h].pc # "idle" /\ proc[h].on = e

\* 30 minutes since the claim or 3 days since the failure.
Age(e) ==
    /\ job[e].status \in {"processing", "failed"}
    /\ ~job[e].old
    /\ ~SlowRuns => ~Running(e)
    /\ job' = [job EXCEPT ![e].old = TRUE]
    /\ proc' = [p \in Processes |->
                   IF proc[p].on = e /\ proc[p].row # NoRow
                   THEN [proc[p] EXCEPT !.row.old = TRUE]
                   ELSE proc[p]]
    /\ UNCHANGED <<record, expired, objects, sweep, retried, crashes>>

BackoffElapses(e) ==
    /\ job[e].status # "absent" /\ ~job[e].available
    /\ job' = [job EXCEPT ![e].available = TRUE]
    /\ UNCHANGED <<record, expired, objects, proc, sweep, retried, crashes>>

Expire(e) ==
    /\ Exists(e) /\ ~expired[e]
    /\ expired' = [expired EXCEPT ![e] = TRUE]
    /\ UNCHANGED <<record, job, objects, proc, sweep, retried, crashes>>

-----------------------------------------------------------------------------

HandlerStep(h) ==
    \/ SaveJob(h)
    \/ Enqueue(h)
    \/ Check(h)
    \/ Reopen(h)
    \/ Requeue(h)
    \/ RegenerateRecord(h)
    \/ RegenerateJob(h)

WorkerStep(w) ==
    \/ \E e \in Exports : Claim(w, e)
    \/ Load(w)
    \/ Begin(w)
    \/ Render(w)
    \/ Persist(w)
    \/ PutObject(w)
    \/ CompleteRecord(w)
    \/ CompleteJob(w)
    \/ RecordEvent(w)
    \/ RunFails(w)
    \/ FailRecord(w)
    \/ FailJob(w)

Next ==
    \/ \E h \in Handlers, e \in Exports : RequestExport(h, e) \/ RetryExport(h, e)
    \/ \E h \in Handlers : HandlerStep(h)
    \/ \E w \in Workers : WorkerStep(w)
    \/ \E p \in Processes : Read(p) \/ Crash(p)
    \/ ListExpired
    \/ AbortSweep
    \/ \E e \in Exports : DeleteObject(e) \/ DeleteRecord(e)
    \/ RecoverStaleProcessingJobs
    \/ CleanupStaleFailedJobs
    \/ \E e \in Exports : Age(e) \/ BackoffElapses(e) \/ Expire(e)

Spec == Init /\ [][Next]_vars

\* The loops of the workers poll, requests are served and delays elapse.
\* Nothing obliges anybody to request, to retry, to crash or to sweep.
Fairness ==
    /\ \A w \in Workers : WF_vars(WorkerStep(w) \/ Read(w))
    /\ \A h \in Handlers : WF_vars(HandlerStep(h) \/ Read(h))
    /\ \A e \in Exports : WF_vars(BackoffElapses(e))

FairSpec == Spec /\ Fairness

-----------------------------------------------------------------------------
(***************************************************************************)
(* Properties.                                                             *)
(***************************************************************************)

\* The rows, and the copies that processes hold of them, keep their types.
TypeOK ==
    /\ record \in [Exports -> Record]
    /\ job \in [Exports -> Job]
    /\ expired \in [Exports -> BOOLEAN]
    /\ objects \in SUBSET Keys
    /\ proc \in [Processes -> Locals]
    /\ sweep \in [Exports -> {"done", "object", "last", "row"}]
    /\ retried \in 0..MaxRetries
    /\ crashes \in 0..MaxCrashes

Downloadable(e) == record[e].status = "completed" /\ ~expired[e]

\* The download of a completed unexpired export is served whatever runs, retries,
\* crashes and sweeps did, unless an export that shares the object has expired: the
\* sweep deletes the object with the older one.
DownloadServesUnlessShared ==
    \A e \in Exports :
        Downloadable(e) /\ (\A f \in Exports : KeyOf[f] = KeyOf[e] => ~expired[f])
        => KeyOf[e] \in objects

Accepted(e) == Exists(e) /\ job[e].status # "absent"

\* An export without a verdict has a job that will run: queued, or left by a dead worker
\* to the sweep, which requeues it while its budget lasts.  So it takes more than
\* RetryBudget deaths of workers to strand an export: the next one leaves the job
\* processing for ever.  (As long as no run lasts 30 minutes, for the sweep charges those
\* too, and with one slot: of two runs of one export, one can die after the other has
\* failed.  A request that dies before its job is saved strands the export, see Accepted,
\* and so does a retry between the two writes of a failing run: the second undoes it.)
NothingStranded ==
    \A e \in Exports :
        retried = 0 /\ Accepted(e) /\ ~Running(e) /\ ~Requested(e)
            /\ record[e].status \in {"queued", "processing"}
        => \/ job[e].status = "queued"
           \/ /\ job[e].status = "processing"
              /\ job[e].retries < RetryBudget \/ crashes > RetryBudget

\* A record keeps its storage_key until it is deleted, so that the cleanup will find the
\* object: no failed or repeated run forgets it.  (With one slot and until somebody
\* retries: a second run, or the request that reopens the record, can write back a copy
\* from before the completion.)
KeyKept ==
    [][retried = 0 =>
          \A e \in Exports :
              record[e].stored => record'[e].stored \/ record'[e].status = "deleted"]_vars

\* Without crashes and retries every export is finally completed, failed or deleted, for
\* good, although the enqueue of the request and the sweep (a run may last 30 minutes) may
\* run a finished export again.  (With one slot: two runs of one export can write old
\* copies over the verdict and the status of each other, and the record stays processing.)
ExportsSettle ==
    [](retried = 0 /\ crashes = 0) =>
        \A e \in Exports :
            <>[](record[e].status \in {"absent", "completed", "failed", "deleted"})
=============================================================================

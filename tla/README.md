# Invariance Research: a TLA+ verification of the platform

Invariance Research is a Next.js application with a set of worker processes. Users upload trading
artifacts, the platform runs an analysis engine on them, and the results are turned into reports,
exports, share links, research programs, experiments and (demo or live) deployments. The parts
share one database (SQLite in development, Postgres in production) and one object store; there is
no message broker. Every queue is a table, every lock is a row, and the web handlers, the workers
and the maintenance sweep meet only there. That is what this project models: the rows, and every
order in which the processes can read and write them.

## Inventory

| Component | State | Operations | Hard behaviour | Correct when |
|---|---|---|---|---|
| Analysis pipeline (`services/analysis-service.ts`, `queue/*`, `workers/analysis-worker.ts`, `repositories/*analysis*`, `job-repository.ts`) | rows `analyses`, `analysis_jobs`, `usage_snapshots` | create, enqueue, claim, run, complete, fail, retry | lease expiry, two workers on one job, crash between writes, read-modify-write of rows | no analysis is stranded, completed jobs have a stored report, jobs and analyses settle |
| Maintenance (`maintenance/retention-service.ts`) | the same rows, exports, share events | recover stale jobs, clean up failed jobs and expired exports | runs beside workers and requests | never takes away what a process still needs |
| Worker runtime (`workers/worker-runtime.ts`) | slots of each process | poll, run, back off | crash and restart | every claimable job is taken up |
| Export pipeline (`exports/*`, `queue/export-queue.ts`, `workers/export-worker.ts`) | rows `exports`, `export_jobs`, objects | request, claim, render, store, complete, retry, download, expire | shared object keys, failures after completion, no lease | a completed unexpired export can be downloaded |
| Report snapshots (`exports/report-snapshot-service.ts`) | `report_snapshots` | ensure by checksum, supersede, mark active | check-then-act of concurrent requests | at most one active snapshot per analysis |
| Share links (`share/*`) | `share_tokens`, access events | create, revoke, resolve | revocation and supersession races | a revoked or stale link shows nothing |
| Billing (`billing/stripe-webhooks.ts`, `admin/webhooks-service.ts`) | `webhook_events`, subscriptions, accounts | receive, apply, mark, retry | duplicated, reordered and concurrent events, failures half way | events are applied once, the plan follows the subscription |
| Accounts, entitlements, usage (`accounts/*`, `entitlements/*`) | users, accounts, entitlements, usage | sign-up, plan changes, usage counts | check-then-act quotas | entitlements follow the plan |
| Authentication (`auth/*`) | tokens, session versions | issue, consume, reset | concurrent consumption | one use per token, reset ends sessions |
| Rate limits (`rate-limits.ts`) | windows in memory or Upstash | consume | window boundaries | limit per window |
| Research programs, experiments (`research-programs/*`, `workers/experiment-worker.ts`) | plans and their items, experiment jobs and events, usage, artifacts, memory | approve, queue, claim, run, pause, cancel, retry | limits read before the jobs are inserted, whole rows written back, throws after completion | an item runs once, a completed job has its verdict, jobs with budget settle |
| Deployments (`research-c3/*`, `workers/execution-worker.ts`, `research-execution/*`) | deployments, commands, projections | enqueue, claim, execute, freeze, heartbeat, revoke | commands queued against a status that has changed, snapshots that write an old status back, exchange calls that fail after the fact | an order is placed at most once, a freeze holds, a queued command ends |
| Research specs (`research-specs-v2/*`) | cards and their versions, bundles, tasks | create, revise, confirm, bundle, submit, approve | a task whose id is that of the card, approvals that write back old evidence | the bundles of a card say the same, approved tasks have passing evidence |
| Research desk (`research-desk/*`) | requests, addenda | request, review, edit, approve | two reviewers at once, an addendum read and written back whole | what is shown as approved was approved |
| Research copilot (`research-copilot/*`) | conversations, proposals, decisions | turns, decisions, cards made of proposals | a status read before the update | a proposal is decided once and has one card |
| Pine bridge, catalog, alerts (`research-c2/*`) | Pine exports, their jobs and comparisons, credentials, observations | export, compare, import, observe | the old export is superseded before the new one is saved | one ready export, verdicts are backed |
| Research memory, C4 assessment (`research-memory/*`, `research-c4/*`) | memory items, trade episodes, ledger of fills | ingest, assess | a death between an episode and the ledger of its fill | a fill counts once |
| Ingestion and engine adapters (`ingestion/*`, `adapters/*`, `prop-evaluation/*`, `llm/*`, `engine/*`) | none | parse, validate, map | data, not control | - |
| Storage, persistence, ops, admin views, UI | - | I/O, schema, pages | - | - |

Processes interact only through rows and objects. A web handler creates rows and sets them to
`queued`; a worker claims them by a status change and writes the outcome back; the sweep repairs or
deletes rows; the user's next request reads them. Two deployment modes matter. In development the
analysis worker is embedded in the web process, one loop of it, and SQLite is synchronous, so an update of
its rows is atomic. In production (`deploy/`) workers are processes of their own against Postgres (which
`analysis-worker.ts:96` requires), and every repository update is a SELECT followed by an UPDATE of
all columns: two updates of one row can interleave. The constant `SplitUpdates` of `AnalysisQueue` is that
difference: atomic updates only go with a single worker (`EmbeddedAssumption`), and the runs have split
ones. `ExportQueue` and `ExperimentJobs` always split (on SQLite, too, an export update awaits between its
read and its write, and experiments need Postgres), and the models of web requests take one statement at a time.

One slot or several: the launch defaults (`deploy/README.worker.md:355-366`) are one worker of each kind
with concurrency 1, to be scaled "only after staging proves duplicate leasing". What the queues of
analyses and exports promise about verdicts and reports is true of one slot and is stated and checked of it. With two,
overlapping runs write whole old rows over each other; see the limits below.

## Modules

Every module that models code says at its top what it abstracts. The module of a component is
instantiated for TLC by `MC<module>` and its configurations `<module>_<run>.cfg`; its theorems are in
`<module>Proofs`. Definitions whose comment begins with "Mutant" are faulty variants of the
definition that follows them: used in its place, they violate a property, which shows that the
property depends on that definition.

### AnalysisQueue (with ReportDelivery)

| In the model | In the code |
|---|---|
| `analysis[a]`, `job[a]`, `usage` | rows of `analyses` and `analysis_jobs`, the analyses counted in the row of `usage_snapshots` |
| `increment`, `contended` | an increment of the same row of counters by another part of the program (between its SELECT and its UPDATE), and whether it ever met one of this pipeline |
| `proc[p]` | the locals of a web handler or a worker slot: where it is, the copy of the row it will write back |
| `CreateAnalysis`, `SaveJob`, `Enqueue` | `createAnalysisFromArtifact` and `scheduleAnalysisJob`, one step per write |
| `RetryAnalysis`, `ReadJob`, `Reopen`, `Requeue` | `retryAnalysis` and its form in the admin console |
| `Claim` | `claimNextQueued`: oldest claimable job, with the lease and the retry budget |
| `LoadFails` ... `CompleteJob`, `FailAnalysis`, `FailJob` | `processNextAnalysisJob` and `markFailed`, one step per write |
| `RecoverStaleProcessingJobs`, `CleanupStaleFailedJobs` | the sweep of `retention-service.ts` |
| `Read`, `At`, `WriteRow`, `WriteDoc` | the SELECT and the UPDATE of a repository update |
| `ReadUsage`, `CountUsage`, `ReadIncrement`, `WriteIncrement` | `incrementUsage` on Postgres: the SELECT of the counters and the upsert of the whole row, here and elsewhere |
| `Age`, `BackoffElapses`, `Crash` | time, as far as the code compares it, and the death of a process |

The engine and the language model are a choice: a run succeeds or fails at any step.
`ReportDelivery` is the abstract specification: a report is stored, and only then delivered (the job is
completed); a rerun may withdraw the delivery but never the report. `AnalysisQueue`
implements it under the mapping `Stage` with one worker slot until the first retry. The count in the usage is not part of it: two increments at
once lose one, so that a delivered report is counted only unless increments met (`CompletedJobHasReport`).
`retry_count` has no upper bound in the code and saturates here at the budget it is compared with (in
the other queues as well): that is an abstraction, no property.

### ExportQueue

| In the model | In the code |
|---|---|
| `record[e]`, `job[e]`, `expired[e]` | rows of `exports` and `export_jobs`, `expires_at` |
| `objects`, `KeyOf` | the bucket, and the key built from account, analysis, snapshot and format: two exports may share it |
| `RequestExport`, `SaveJob`, `Enqueue` | `requestExport` and `enqueueRun` |
| `RetryExport`, `Check`, `Reopen`, `Requeue`, `RegenerateRecord`, `RegenerateJob` | `retryAdminJob`, `retryAdminExport` |
| `Claim` ... `RecordEvent`, `RunFails`, `FailRecord`, `FailJob` | `processNextExportJob` |
| `ListExpired`, `DeleteObject`, `DeleteRecord`, `AbortSweep` | `cleanupExpiredExports`, one deletion at a time |
| `RecoverStaleProcessingJobs`, `CleanupStaleFailedJobs` | the sweep of the jobs |

There is no lease here: a claimed job comes back only through the sweep after 30 minutes, and only
while `retry_count < 3`. A download
changes nothing, so it is a state predicate (`Downloadable`), not an action.

### StripeWebhooks

| In the model | In the code |
|---|---|
| `receipt[e]` | the row of the event in `webhook_events` |
| `subscription`, `account`, `entitlements` | the plan in the three rows of one account |
| `Deliver`, `FindReceipt`, `InsertReceipt`, `TouchReceipt`, `RereadReceipt` | the route of the webhook and `createReceived` |
| `IgnoreEvent`, `UpsertSubscription`, `UpdatePlan`, `SetEntitlements`, `MarkProcessed`, `MarkFailed` | `applyEvent`, `applySubscription`, `updatePlan`, the end of the handler |
| `Reprocess` | `reprocessAdminWebhook` |
| `Override`, `OverrideEntitlements` | `applyAdminPlanOverride` |
| `GetAccountState`, `ReadEntitlements`, `RepairEntitlements` | `getAccountState`, which repairs the entitlements |

`applied` and `plain` are history variables: the events whose effect was written to all three rows,
and whether requests came one by one. One assumption is in favour of the code: Stripe sends an event
for the first time after the events before it (duplicates and repetitions come at any time).

### DeploymentCommands (with CommandExecution)

| In the model | In the code |
|---|---|
| `status`, `reconciled` | the row of `strategy_deployments` (`last_reconciled_at`) |
| `connector`, `revoked` | `exchange_connectors`, a revocation being two statements |
| `command`, `queue`, `request` | the rows of `deployment_commands`, their order, the requests half way through `enqueueDeploymentCommand` |
| `critical` | is a critical incident open? |
| `open`, `placed` | what the exchange knows |
| `RequestCommand`, `InsertCommand`, `MarkQueued` | `enqueueDeploymentCommand` |
| `RevokeConnector`, `FreezeRevoked`, `ReplaceConnectorCredentials`, `ResolveIncident` | the other requests |
| the actions over `worker` | `processNextExecutionWork`: diagnosis of a connector, then a command, then the observation of an active deployment |

It is one demo deployment with one worker. The policies are choices (`limits`, `unsafe`) of
`Authorize`, whose reads are one step; a call of the bridge that timed out sends nothing later; a
request that dies is one that takes no further step. Left out are the gates of a live canary,
promotion, the delivery of alerts, and the pause of a whole queue.

`CommandExecution` is the abstract specification of what who asks for commands may count on: they
are taken up one at a time, in the order they were asked for and never again; an order is placed only
while its command runs, and once; a command ends once, for good, or is let go of without an end (the
worker died). `DeploymentCommands` implements it, the command that is executed being the local of
the worker.

### ExperimentJobs

| In the model | In the code |
|---|---|
| `plan[p]`, `item[i]`, `job[j]` | rows of `experiment_plans`, `experiment_plan_items`, `experiment_jobs` |
| `logged`, `units` | the jobs that `experiment_job_events` refers to, the compute units in the usage of the account |
| `cards[j]`, `memory` | the card bundles stored under the key of a job, the verdicts in the research memory |
| `ApproveExperimentPlan` | `approveExperimentPlan`, which does not look at the status |
| `QueueExperimentPlan`, `Check`, `MarkPlan`, `MarkItems`, `InsertJob`, `ReadUsage`, `Charge` over `request` | `queueExperimentPlan` with `assertExperimentQueueAllowed` and `incrementUsage` |
| `UpdateExperimentJobControl`, `RetryAdminJob`, `ApplyControl` | pause, cancel, retry, priority, and the retry of an administrator |
| `Claim` | `claimNextExperimentJob`, one statement |
| `Begin`, `Load`, `Execute`, `Complete`, `Record`, `RunFails`, `UploadFailureCards`, `Requeue`, `Fail`, `Remember` over `proc` | `processNextExperimentJob` and `executeExperimentJob` |
| `Read`, `Update`, `Write` | the SELECT and the UPDATE of `updateExperimentJob`, with its event |
| `RecoverStaleProcessingJobs`, `CleanupStaleFailedJobs`, `LeaseExpires`, `Overrun` | the sweep, and time as far as leases compare it |

`overlapped` is a history variable: has a request to queue begun during another? Five things the
model shows that are easily missed in the code: a change of priority writes back an old row and
so can undo a completion; a worker overwrites a pause or a cancel that came during its run; a throw
after the completion requeues a completed job, and on the last attempt overwrites its cards with
failure cards; `concurrent_experiments_limit` is compared only when a plan is queued; and the DELETE of old failed
jobs violates the foreign key of their events, which has no ON DELETE. The latter makes the
sweep throw before it recovers anything once an experiment failed more than three days ago
(`docs/full-implementation-dossier-source.md:668` says the sweep purges it). On SQLite the recovery
also binds its parameters in the wrong order (`retention-service.ts:100`); the model is of Postgres,
where experiments run.

### ReportSharing

| In the model | In the code |
|---|---|
| `result`, `snapshot[r]` | the result of the analysis, the status of the row of `report_snapshots` with its checksum |
| `token[t]` | rows of `share_tokens` |
| `desk[d]`, `addendum[d]` | rows of `research_desk_requests` and `report_reviewer_addenda` |
| `local[h]` | the locals of a request |
| `EnsureReportSnapshot`, `FindSnapshot`, `MarkActive`, `SaveSnapshot`, `Supersede` | `ensureReportSnapshotForAnalysis` |
| `CreateReportShare`, `CountShares`, `SaveToken`, `RevokeReportShare` | `share-service.ts` |
| `SaveRequest`, `UpdateResearchDeskRequest`, `SetRequestStatus`, `ReadAddendum`, `UpsertAddendum`, `ReportAddendum` | `research-desk-service.ts` |
| `Rerun` | a later run of the analysis stores another result |

Three components are in one module because they meet: a request to the desk ensures a snapshot, a
link needs an active one, and what a link shows includes the addenda of its snapshot. `overlap`,
`ensured`, `disturbed` and `vouched` are history variables. What a maintainer may want to know: a slow
request that holds an older result makes its snapshot active again; two requests that overlap can leave no
active snapshot, and one that dies between the two writes leaves two, until the next that runs alone;
`share_links_per_month` is compared with all links that are active, expired ones included, of all
months; an edit of the text of an approved addendum is published at once; an editor with an old
copy withdraws an approval, or restores the text it was given for.

### ResearchSpecs

| In the model | In the code |
|---|---|
| `proposal[p]`, `decided[p]` | rows of `research_proposals` and `research_decisions` |
| `source[c]`, `card[c][v]`, `bundle[c][v]`, `task[c]` | rows of `hypothesis_cards` by version, `research_spec_bundles`, `strategy_implementation_tasks` |
| `export[x]`, `job[x]`, `result[r]` | rows of `pine_exports`, `pine_export_jobs`, `pine_parity_results` |
| `local[h]` | the locals of a request |
| `DecideProposal`, `UpdateProposal`, `InsertDecision`, `CreateCardFromProposal`, `SaveCard` | `research-copilot` |
| `ReviseCard`, `ConfirmHypothesisCard`, `GenerateResearchSpecBundle`, `SaveTask`, `ApproveResearchSpecBundle`, `SubmitImplementationEvidence`, `WriteEvidence`, `ApproveImplementationTask`, `WriteApproval` | `research-specs-v2/service.ts` |
| `GeneratePineExport` to `AppendPineLifecycle`, `FailPineExportJob`, `ComparePineExport`, `SaveParity`, `UpdatePineParity` | `research-c2/service.ts` |

It is the way from an idea to a script that is exported, of one program. Where a unique key
makes check and INSERT one decision they are one step; everything else is one statement at a time.
`contested` and `met` are history variables. What a maintainer may want to know: confirming
a confirmed version makes another one, whose bundle finds the id of its task taken; a bundle that
is blocked stays blocked, and can be approved; a failure after the old export was superseded
leaves none that is ready, and a failure of the last event marks the job of a ready export as failed; a job
whose request died runs for ever; the hash of a comparison does not name the export, so that the same
comparison of another export is not stored although that export gets its verdict.

## Runs

| Run | Instance | States | Shows |
|---|---|---|---|
| `crash` | 1 analysis, 1 worker, 1 handler, runs that outlast lease and sweep, 2 crashes, budget 3, 2 progress steps | 324 k | no analysis is stranded, rows agree once nobody works on them, a completed job has its report, refinement of `ReportDelivery` |
| `overrun` | 1 analysis, 1 worker, 1 handler, runs that outlast lease and sweep, 1 retry, 1 crash, budget 2, fairness | 585 k | jobs and analyses settle |
| `export_crash` | 2 exports of one object, 1 worker, 1 handler, 3 crashes, 2 recoveries | 5.4 M | nothing stranded before the budget of the sweep is spent on the dead, downloads served |
| `export_overrun` | 1 export, 1 worker, 1 handler, runs that outlast 30 minutes, 1 retry, 1 crash, fairness | 185 k | exports settle |
| `billing` | checkout then cancellation (or an event without effect), 2 requests at a time, 1 failure or crash, fairness | 892 k | no event lost, mismatches visible, no duplicate brings an older plan back, every event takes effect |
| `billing_replay` | the same, 1 request at a time | - | finding 1 |
| `deployments` | any 3 of 9 commands, 1 change of the connector, 1 crash, fairness | 914 k | refinement of `CommandExecution`, freezes hold, commands end |
| `deployments_freeze` | any 2 of 9 commands, 1 crash | - | finding 2 |
| `experiments` | 1 plan of 1 item, 2 requests, 2 workers, 1 user, 2 jobs, budget 2, 1 fault (a control, a crash, an overlap or an overrun), fairness | 794 k | one job for an item, whole verdicts, charged work, jobs settle |
| `experiments_retry` | the same, 1 request, 1 worker | - | finding 3 |
| `sharing` | 5 requests of any kind, 2 at a time, 2 results, 3 links of which 1 is allowed, 1 death | 2.5 M (up to symmetry) | the active snapshot is unique and comes back, the quota is overrun by less than there are requests, approved texts were approved, desk and addenda agree |
| `specs` | 1 proposal, 2 cards of 3 versions, 2 exports, 2 comparisons of different verdict, 6 requests, 2 at a time, 1 death | 1.0 M (up to symmetry) | bundles of a card agree, decisions follow proposals, approved tasks passed, ready exports are unique, approved and honest |

Deadlock is not checked: every component may stop, when nobody asks for anything and the bounds
on requests, retries, crashes and commands are spent.

Why these bounds are enough for what the runs ask:

- A retry budget of 2 stands for 3: one charged failure with budget left and one without. `Steps` is
  1 or 2 instead of 5 because every `moveToStep` does the same to the rows.
- Two of a thing is the smallest number at which two can meet: two experiment workers on one row, two exports
  that share an object, two events, of which the older may come late, two requests that queue one
  plan, two results of which one is old. The safety theorems below hold for every number.
- One worker in the queues of analyses and exports is the default of a deployment, and the most of
  which their properties hold. What meets there is its run, the request that still enqueues, the
  sweep, the increments of the usage and the retries. Analyses meet only in the order of claims and
  in the counters, which the model of one analysis has as `increment`.
- One retry and one crash give every pair of "crash here, then the next process there"; a second
  crash in `crash` hits the repair of the first, and the third in `export_crash` comes when the two
  recoveries are spent, which is what strands a job (`NothingStranded`). Because a crash counts against a
  bound, liveness is asked for the time after it or for runs without.
- Three commands are a start, something that stops the deployment, and an order. An ordinary
  freeze is not among the commands of the runs: the worker does with it what it does with a pause.
- Five requests of `sharing` are two that ensure and one that finds what they left, or a request to
  the desk, a review and two edits that overlap, with one to spare. Three links exceed a quota of one by more than
  two requests at once may.
- The shortest way to a compared Pine export takes five requests that are not one step (decision,
  card, bundle, export, comparison); six leave room for a rival of any of them. The third version of a
  card is the one confirmed again. With two exports and two requests at once the bound of ready exports by
  the number of requests cannot be exceeded; it is the theorem that covers more (`PineExportsStaySound`).
- `SlowRuns` is off in `export_crash` because `NothingStranded` of exports is about runs shorter than 30
  minutes, and on in the other three runs of the queues. The theorems about `TypeOK`, `JobsSound` and
  `DownloadServesUnlessShared` hold with it, with split updates, and with any number of workers.

## Fairness

Weak fairness of a worker's steps: `worker-runtime.ts` starts a slot again after every piece of work,
catches what it throws and backs off for a bounded time, and processes are restarted
(`restart: unless-stopped` in `deploy/docker-compose.worker.yml`). Weak fairness of a request's steps
in the queues and billing: a handler that runs goes on or dies. Weak
fairness of `Age`, `BackoffElapses` and `LeaseExpires`: time passes. No claim is fair to a certain
job: an experiment may wait while others of higher priority are claimed, whose budgets end. Strong
fairness of the delivery of an event that is not acknowledged: Stripe sends it again, although the (few) handlers are busy in between. Nothing
obliges anybody to create, retry, reprocess, override, revoke or crash, or a sweep to run; users
of deployments and the requests and controls of experiments need no fairness, and may hang. For
`ReportSharing` and `ResearchSpecs` only safety is stated: nothing in them repeats by itself.

## Findings

1. `billing_replay`: an event that failed and is applied again after a newer one brings its plan back,
   with every receipt processed.
2. `deployments_freeze`: the worker dies between the claim and the execution of an emergency freeze:
   nothing takes the command up again and nothing reports it.
3. `experiments_retry`: a failed experiment has spent its budget; a retry queues it all the same, and no
   claim ever takes it. The recovery of a stale job that has one attempt left does the same.

Other limits of the code were met while modelling. Nothing in the repository promises more, they are part
of the models, and the properties are stated around them:

- A job whose worker dies is claimed again on every lease expiry, without end: a claim compares only
  `retry_count`, which a crash does not raise (crashes are bounded in the runs).
- A retry of an analysis that spends the budget dead-letters the job after it has reopened the
  analysis, which stays queued and can no longer be retried (`AnalysesSettle` leaves retries out).
- Two exports of one snapshot and format share their object, and the expiry of the older deletes
  the object of the newer (`DownloadServesUnlessShared`).
- With two slots a run that outlasts its lease, or that the request has queued again, meets a second
  run of its analysis, and each writes whole old rows. A stale update of the analysis erases a stored
  report, under a completed job too; a stale row of the job takes back the charge and the status
  of the other run, and two runs can do so to each other for ever. Exports are the same. So
  `RowsAgreeWhenQuiet`, `CompletedJobHasReport`, `DeliversReports`, `JobsSettle`, `AnalysesSettle` and
  `ExportsSettle` are of one slot; `JobsSound` and the downloads are of any number.
- Increments of the usage that meet lose one (`contended`), so that an analysis with a report may not
  be counted; a rerun after a crash or a throw counts it again (`usage` is a set and does not show it).
- The sweep recovers an export job only while `retry_count < 3` (`retention-service.ts:74`), and a claim takes
  only queued ones: an export whose worker dies once more is processing for ever (`NothingStranded`).
- A retry between the two writes of a failing export run is half undone by the second
  (`NothingStranded` of exports and `ExportsSettle` leave retried exports out).
- A request that dies between the save of a row and the save of its job leaves a row that nothing
  repairs (`Accepted` leaves it out).
- Two runs of one analysis may overlap even without retries, crashes and slow runs, because the
  request may set a job to queued that a worker has claimed already.
- With a second slot, a run that dies can have reopened what another has settled, which then
  strands (`NothingStranded` of analyses and exports is asked of one slot, or of no crash).
- A second run of an export, or its retry, can write back a copy of the record from before its
  completion; the storage_key is lost, and the expiry will not delete the object (`KeyKept`).
- Two Stripe events applied at once may leave the subscription of one with the account of the other
  (`plain` leaves that out).
- Requests at once exceed the quotas of links, of Pine exports and of experiments, and double the job of an
  item (`overlapped`, `met`, `QuotaOverrunBounded`).

## Proofs

Checked by TLAPS for all values of the constants that satisfy the named assumptions of the modules.
The assumptions are about the constants only: finite sets of processes, natural bounds, distinct
"no value" elements, and functions of the right type.

| Theorem | States | Argument |
|---|---|---|
| `AnalysisQueueProofs!TypeCorrect` | `TypeOK` | `TypeInv`: `TypeOK`, and a process that is not idle is on an analysis and within its steps |
| `JobsStaySound` | `JobsSound` | `SoundInv` adds that every copy a process holds is sound too (`CopiesSound`): a stale copy may be written back at any time |
| `RowsAgreeAlways` | `RowsAgreeWhenQuiet`, one slot, until the first retry | `QuietInv`: a request creates its rows before anybody works on them (`Created`), the one run finds its own writes (`RunAlone`), and a settled job has the verdict of its analysis |
| `NoAnalysisStranded` | `NothingStranded`, until the first retry, one slot or no crash | `QuietInv`: without crashes an open analysis is carried by a run, or its job waits (`Carried`); with one slot `RunAlone` says the same across crashes |
| `OneSlotReports` | `CompletedJobHasReport`, one slot, until the first retry | `QuietInv` and `ReportInv`: the one run writes back only copies that are still true (`Faithful`), and while no increments have met, what a run has counted stays counted (`UsageFresh`) |
| `OneSlotDelivers` | `DeliversReports`: refinement of `ReportDelivery`, one slot, until the first retry | the same invariants; every step but two keeps each stage or withdraws a delivery, and those two move one stage on, or leave it |
| `OneSlotDeadLetters` | dead letters stay, one slot, until the first retry | `QuietInv`: the run of a job is over when the job is settled |
| `ExportQueueProofs!TypeCorrect` | `TypeOK` | `TypeInv`: as above |
| `DownloadsServed` | `DownloadServesUnlessShared` | `DownloadInv`: the object is there from `PutObject` on unless an export with its key has expired; the sweep only holds expired exports |
| `NoneStranded` | `NothingStranded`, no crash, or one slot and no run of 30 minutes | `StrandInv`: without crashes an open record, and a job in processing, is attended to by a run (`Attended`); with one slot its job waits, whatever copy of the row is written back (`JobWaits`). `ChargeInv`: the sweep charges the dead only, so a job that a dead worker left was charged less often than something has crashed (`Charged`) |
| `OneSlotKeepsKeys` | `KeyKept`, one slot, until the first retry | `KeyInv`: a copy about to be written back has the key if the record has it |
| `StripeWebhooksProofs!TypeCorrect`, `EventsKept` | `TypeOK`, `NoEventLost` | `IndInv`: a request that has seen a processed receipt, or is at `processed`, is about an event that is applied |
| `MismatchesShow` | `MismatchIsVisible` | `PlainInv`: requests that come one by one have fresh locals, and while the rows disagree a request is about to write the next, or its receipt is open |
| `LatestWins` | `LatestEventWins` | `LatestInv`: without failures every open receipt is of the latest event and has its request, and the account has the plan of the latest event with an effect or that request is about to write it; `InOrder` says that receipts are opened in order |
| `DeploymentCommandsProofs!TypeCorrect` | `TypeOK` | `TypeInv`: at each step the worker runs a command of a type that has this step |
| `OrdersOnce` | `OrderAtMostOnce` | `OnceInv`: the queue has no duplicates and only queued commands, the worker's command is processing, and an order that is not claimed, or not yet submitted, is not placed |
| `CommandsExecuteInOrder` | `ExecutesInOrder`: refinement of `CommandExecution` | `OnceInv`; every step asks, takes, places or ends one command, or leaves the command that runs alone, or lets go of it |
| `FreezesAreExecuted` | `EmergencyFreezeExecuted`, as long as nothing has died | `WaitInv`: a queued command is in the queue, and one in processing is the worker's. Finding 2 needs its crash |
| `FreezeKept`, `ActiveIsReconciled` | `FreezeHolds`, `ActiveReconciled` | `SafeInv`: while a freeze is held neither the status nor the copy that a snapshot writes back is active, and only a reducing order is about to be submitted; an active copy was reconciled |
| `IncidentsBlockOrders` | `CriticalBlocksOrders` | `SafeInv`: only the worker opens incidents, and not between decision and submission |
| `ExperimentJobsProofs!TypeCorrect`, `JobsStaySound`, `CompletedJobsHaveVerdict` | `TypeOK`, `JobsSound`, `CompletedHasVerdict` | `Sound`: a row, and every copy that will be written back, fits (`Fit`): what it relies on (artifacts, events, the item of the job) is never taken back, so an old copy is as good as a new one |
| `FailedJobsStay` | `FailedJobsKept` | `Sound`: a failed job has an event, so the cleanup that would remove it throws |
| `OneJobForAnItem` | `OneJobPerItem` | `OneAtATime`: a request holds drafts until it has marked them, and inserts jobs only of items that are marked and have none |
| `QueuedWorkBalances` | `QueuedWorkAccounted` | `Accounts`: without faults the one request holds exactly the items that are marked and have no job, and the jobs it made are those not charged yet |
| `VerdictsStand` | `VerdictsUndisturbed` | `Undisturbed`: a run owns its job, so that all it reads and writes back is its own lease (`OwnRuns`), and a completed job is remembered or its run is about to (`VerdictFit`) |
| `QueuedJobsCanRun` | without faults a queued job has budget left | `Budgeted`: so has whatever a run writes back, and a job in processing has a run, so that nothing recovers it. Finding 3 needs a retry or a death |
| `ReportSharingProofs!TypeCorrect` | `TypeOK` | `Typed`: a request at each step holds what the step needs |
| `SnapshotsStaySound` | `SnapshotsSound` | `Shown`: of two active snapshots one belongs to a request about to supersede the other (`Paired`), and an ensure that is alone finds its own active until it returns |
| `QuotaOverrunIsBounded` | `QuotaOverrunBounded` | `Quota`: links and requests about to save one are together below the bound, since who passes the count is a request himself |
| `ApprovedTextsVouched` | `ApprovedTextVouched` | `Vouched`: so is the text of every approved row that a request will write |
| `DeskStaysAgreed` | `DeskAgrees` | `Agree`: undisturbed, one request updates at a time, and row and request agree or it is about to make them |
| `ResearchSpecsProofs!TypeCorrect` | `TypeOK` | `Typed`: as above |
| `OneStrategyKept` | `OneStrategyPerCard` | `Lineage`: versions have no gaps, and from the first confirmed one on all are confirmed with its body, because a revision needs the next version to be free |
| `DecisionsStaySound` | `DecisionsSound` | `Decided`: a confirmation is on record or about to be (`SaidOK`); an uncontested proposal has one request at a time that decides, or makes a card, and finds it as it left it (`Peace`) |
| `TasksStaySound` | `TasksSound` | `Reviewed`: who approves has looked at passing evidence and writes it back (`Passing`); a task that is needed is there or about to be saved (`Tasked`) |
| `PineExportsStaySound` | `PineExportsSound` | `Pined`: requests write exports of their own in order, and ready exports together with those about to be saved are never more than there are requests (`Room`), because each supersedes all before it saves one |

Unless a theorem says otherwise it holds of any number of workers and handlers, with split updates, runs of
any length, crashes and the sweep. Those marked "one slot" assume
`SingleSlot` (any two workers are the same), which is the default of a deployment
(`deploy/README.worker.md:355-364`) and what the runs `crash`, `overrun`, `export_crash` and
`export_overrun` have. "Until the first retry" is the hypothesis `retried = 0` of the
property, or part of the property as a run checks it. What goes wrong beyond these hypotheses is
listed under the limits above.

`OneSlotDeadLetters`, `OneSlotKeepsKeys`, `ActiveIsReconciled`, `OrdersOnce`, `FreezesAreExecuted`,
`QueuedJobsCanRun` and `FailedJobsStay` are proved and not among the properties of a run that passes.

Only model-checked: everything under fairness (`JobsSettle`, `AnalysesSettle`, `ExportsSettle`,
`EventsTakeEffect`, `CommandsEnd`, `FreezeTakesEffect`), because liveness and ENABLED are out of the
provers' reach, as are induction over data and recursive operators (the models use neither). Every
other property of a passing run is stated by a theorem. `NoAnalysisStranded`, `NoneStranded`, `FreezesAreExecuted` and `QueuedJobsCanRun` are the
safety under the liveness: a row that waits is one that somebody can take up.

## Not modelled, and why

- Data without interleaving: parsing of artifacts, the adapters and the mapping of engine records,
  prop-firm statistics, selection of experiments, queries of the catalog, rendering of reports and scripts.
  Their results are choices in the models (a run fails or not, a card is portable or not). What they
  compute are floating-point numbers and texts, of which no step of another process depends.
- I/O: object storage, Stripe calls, mail, the language model, the exchange beyond what it holds.
- Rows that one request writes and nothing else updates: programs, hypotheses, notes, conversations,
  imports, credentials of alerts, publications, the waitlist.
- Authentication and rate limits: a token is looked up and marked as used in two statements, so two
  requests at once may both use it, and a window is one counter. There is no order of several steps
  to state a promise about.
- The trade memory of C4 and the memory of the research as such: upserts by the one execution
  worker; a death between an episode and its ledger counts a fill twice (see the hazard).
- Schema, migrations, views, content and the user interface.

`PROJECT.json` gives the reason for each component. Hazards without a property have a note there.

## Plan

Most important behaviour first.

1. Done: `AnalysisQueue`, `ReportDelivery`, `AnalysisQueueProofs`.
2. Done: `ExportQueue`, `ExportQueueProofs`.
3. Done: `StripeWebhooks`, `StripeWebhooksProofs`.
4. Done: `DeploymentCommands`, `DeploymentCommandsProofs`.
5. Done: `ExperimentJobs`, `ExperimentJobsProofs`.
6. Done: `ReportSharing` (snapshots, links, research desk), `ReportSharingProofs`.
7. Done: `ResearchSpecs` (proposals, cards, bundles, tasks, Pine exports), `ResearchSpecsProofs`.
8. Done: the proofs about undisturbed histories of a row and its job (`QuietInv`, `StrandInv`,
   `PlainInv`, `LatestInv`, `Accounts`, `Undisturbed`, `Budgeted`) and the refinement of `CommandExecution`.
9. Abstract specifications still worth stating: an export is available from its completion to its
   expiry; an experiment is queued, run and remembered once. The former is a refinement only as long as
   no two exports share their object.
10. Next components: `TradeMemory` (fills, episodes, ledger: a fill counts at most once more for each
    death of the worker), then tokens and session versions.

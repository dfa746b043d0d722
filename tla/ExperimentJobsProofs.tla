------------------------- MODULE ExperimentJobsProofs -------------------------
(***************************************************************************)
(* Theorems about ExperimentJobs, for every number of plans, items, jobs,  *)
(* workers, users and requests, and whatever the limits are.               *)
(*                                                                         *)
(* The invariant (Fit) says what is true of a row of experiment_jobs and   *)
(* of every copy of it that a process will write back: a copy is as sound  *)
(* as the row was, and stays so, because what it relies on (the artifacts, *)
(* the events, the item of the job) is never taken back.                   *)
(***************************************************************************)
EXTENDS ExperimentJobs, FiniteSetTheorems, TLAPS

-----------------------------------------------------------------------------
(* Rows, copies and locals.                                                *)

\* r may stand in the row of job o: jb is the table, cd the stored bundles and lg
\* the jobs with events.
RowFit(r, o, jb, cd, lg) ==
    /\ r \in Job
    /\ r.status # "absent"
    /\ r.item = jb[o].item
    /\ RowSound(r)
    /\ r.status = "completed" => "verdict" \in cd[o]
    /\ r.status = "failed" => o \in lg

JobFit(j, jb, cd, lg) == jb[j].status # "absent" => RowFit(jb[j], j, jb, cd, lg)

Trying == {"begin", "load", "execute", "complete", "record"}

\* What a busy process knows of its job.
LocalFit(l, jb, cd, lg) ==
    /\ l \in Locals
    /\ l.pc # "idle" =>
        /\ l.on \in Jobs
        /\ jb[l.on].status # "absent"
        /\ l.row # NoRow => RowFit(l.row, l.on, jb, cd, lg)
        /\ l.pc = "begin" => l.lease # "none"
        /\ l.pc \in Trying => l.count < MaxAttempts
        /\ l.pc = "complete" => "verdict" \in cd[l.on]
        /\ l.pc \in {"cards", "fail"} => l.count + 1 = MaxAttempts
        /\ l.pc = "requeue" => l.count + 1 < MaxAttempts

Fit(pr, jb, cd, lg) ==
    /\ pr \in [Processes -> Locals]
    /\ jb \in [Jobs -> Job]
    /\ \A p \in Processes : LocalFit(pr[p], jb, cd, lg)
    /\ \A j \in Jobs : JobFit(j, jb, cd, lg)

\* Nothing a copy relies on is taken back.
Later(jb, jb2, cd, cd2, lg, lg2) ==
    \A j \in Jobs :
        /\ jb[j].status # "absent" => jb2[j].status # "absent" /\ jb2[j].item = jb[j].item
        /\ cd[j] \subseteq cd2[j]
        /\ j \in lg => j \in lg2

NothingAdded(jb, jb2) == \A j \in Jobs : jb[j].status = "absent" => jb2[j].status = "absent"

LEMMA ProcessTypes == Workers \subseteq Processes /\ Users \subseteq Processes
BY DEF Processes

LEMMA BumpType == \A n \in 0..MaxAttempts : Bump(n) \in 0..MaxAttempts
BY AttemptsAssumption DEF Bump

LEMMA NoJobType == NoJob \in Job /\ \A i \in Items : [NoJob EXCEPT !.status = "queued", !.item = i] \in Job
<1>1. 0 \in 0..MaxAttempts
  BY AttemptsAssumption
<1>2. QED
  BY <1>1 DEF NoJob, Job

\* An idle process knows nothing.
LEMMA IdleFit == \A jb, cd, lg : LocalFit(Idle, jb, cd, lg)
<1>1. 0 \in 0..MaxAttempts
  BY AttemptsAssumption
<1>2. QED
  BY <1>1 DEF Idle, LocalFit, Locals

\* A row or a copy that fits goes on to fit.
LEMMA RowKept ==
    ASSUME NEW r, NEW o \in Jobs, NEW jb, NEW jb2, NEW cd, NEW cd2, NEW lg, NEW lg2,
           Later(jb, jb2, cd, cd2, lg, lg2), jb[o].status # "absent",
           RowFit(r, o, jb, cd, lg)
    PROVE  RowFit(r, o, jb2, cd2, lg2)
BY DEF RowFit, Later

\* So do the locals of a process.
LEMMA LocalKept ==
    ASSUME NEW l, NEW jb, NEW jb2, NEW cd, NEW cd2, NEW lg, NEW lg2,
           Later(jb, jb2, cd, cd2, lg, lg2), LocalFit(l, jb, cd, lg)
    PROVE  LocalFit(l, jb2, cd2, lg2)
<1>1. CASE l.pc = "idle"
  BY <1>1 DEF LocalFit
<1>2. CASE l.pc # "idle"
  <2>1. l.on \in Jobs /\ jb[l.on].status # "absent" /\ jb2[l.on].status # "absent"
    BY <1>2 DEF LocalFit, Later
  <2>2. ASSUME l.row # NoRow PROVE RowFit(l.row, l.on, jb2, cd2, lg2)
    <3>1. RowFit(l.row, l.on, jb, cd, lg)
      BY <1>2, <2>2 DEF LocalFit
    <3>2. QED
      BY <2>1, <3>1, RowKept
  <2>3. l.pc = "complete" => "verdict" \in cd2[l.on]
    BY <1>2, <2>1 DEF LocalFit, Later
  <2>4. QED
    BY <1>2, <2>1, <2>2, <2>3 DEF LocalFit
<1>3. QED
  BY <1>1, <1>2

\* One process moves on and what the others rely on is kept.
LEMMA FitMove ==
    ASSUME NEW pr, NEW jb, NEW jb2, NEW cd, NEW cd2, NEW lg, NEW lg2,
           Fit(pr, jb, cd, lg), Later(jb, jb2, cd, cd2, lg, lg2),
           jb2 \in [Jobs -> Job], \A j \in Jobs : JobFit(j, jb2, cd2, lg2),
           NEW p \in Processes, NEW l, LocalFit(l, jb2, cd2, lg2)
    PROVE  Fit([pr EXCEPT ![p] = l], jb2, cd2, lg2)
<1> DEFINE pr2 == [pr EXCEPT ![p] = l]
<1>1. pr \in [Processes -> Locals] /\ l \in Locals
  BY DEF Fit, LocalFit
<1>2. pr2 \in [Processes -> Locals]
  BY <1>1
<1>3. ASSUME NEW q \in Processes PROVE LocalFit(pr2[q], jb2, cd2, lg2)
  <2>1. CASE q = p
    <3>1. pr2[q] = l
      BY <1>1, <2>1
    <3>2. QED
      BY <3>1
  <2>2. CASE q # p
    <3>1. pr2[q] = pr[q]
      BY <1>1, <2>2
    <3>2. LocalFit(pr[q], jb, cd, lg)
      BY DEF Fit
    <3>3. LocalFit(pr[q], jb2, cd2, lg2)
      BY <3>2, LocalKept
    <3>4. QED
      BY <3>1, <3>3
  <2>3. QED
    BY <2>1, <2>2
<1> HIDE DEF pr2
<1>4. Fit(pr2, jb2, cd2, lg2)
  BY <1>2, <1>3 DEF Fit
<1>5. QED
  BY <1>4 DEF pr2

\* The same, when the tables do not change.
LEMMA FitLocal ==
    ASSUME NEW pr, NEW jb, NEW cd, NEW lg, Fit(pr, jb, cd, lg),
           NEW p \in Processes, NEW l, LocalFit(l, jb, cd, lg)
    PROVE  Fit([pr EXCEPT ![p] = l], jb, cd, lg)
<1>1. Later(jb, jb, cd, cd, lg, lg)
  BY DEF Later
<1>2. jb \in [Jobs -> Job] /\ \A j \in Jobs : JobFit(j, jb, cd, lg)
  BY DEF Fit
<1>3. QED
  BY <1>1, <1>2, FitMove

\* The tables change under idle hands: the processes stand still.
LEMMA FitTables ==
    ASSUME NEW pr, NEW jb, NEW jb2, NEW cd, NEW cd2, NEW lg, NEW lg2,
           Fit(pr, jb, cd, lg), Later(jb, jb2, cd, cd2, lg, lg2),
           jb2 \in [Jobs -> Job], \A j \in Jobs : JobFit(j, jb2, cd2, lg2)
    PROVE  Fit(pr, jb2, cd2, lg2)
<1>1. ASSUME NEW q \in Processes PROVE LocalFit(pr[q], jb2, cd2, lg2)
  <2>1. LocalFit(pr[q], jb, cd, lg)
    BY DEF Fit
  <2>2. QED
    BY <2>1, LocalKept
<1>2. QED
  BY <1>1 DEF Fit

\* The tables are kept while more is stored or reported.
LEMMA JobsKept ==
    ASSUME NEW pr, NEW jb, NEW cd, NEW cd2, NEW lg, NEW lg2,
           Fit(pr, jb, cd, lg), Later(jb, jb, cd, cd2, lg, lg2)
    PROVE  jb \in [Jobs -> Job] /\ \A j \in Jobs : JobFit(j, jb, cd2, lg2)
<1>1. ASSUME NEW j \in Jobs PROVE JobFit(j, jb, cd2, lg2)
  <2>1. JobFit(j, jb, cd, lg)
    BY DEF Fit
  <2>2. CASE jb[j].status # "absent"
    <3>1. RowFit(jb[j], j, jb, cd, lg)
      BY <2>1, <2>2 DEF JobFit
    <3>2. QED
      BY <2>2, <3>1, RowKept DEF JobFit
  <2>3. QED
    BY <2>2 DEF JobFit
<1>2. QED
  BY <1>1 DEF Fit

\* A row is replaced by one that fits, and the update is reported.
LEMMA FitRow ==
    ASSUME NEW pr, NEW jb, NEW cd, NEW lg, Fit(pr, jb, cd, lg),
           NEW o \in Jobs, jb[o].status # "absent",
           NEW r, NEW lg2, lg \subseteq lg2, RowFit(r, o, jb, cd, lg2)
    PROVE  /\ [jb EXCEPT ![o] = r] \in [Jobs -> Job]
           /\ Later(jb, [jb EXCEPT ![o] = r], cd, cd, lg, lg2)
           /\ \A j \in Jobs : JobFit(j, [jb EXCEPT ![o] = r], cd, lg2)
<1> DEFINE jb2 == [jb EXCEPT ![o] = r]
<1>1. jb \in [Jobs -> Job] /\ r \in Job
  BY DEF Fit, RowFit
<1>2. jb2 \in [Jobs -> Job] /\ jb2[o] = r /\ \A j \in Jobs : j # o => jb2[j] = jb[j]
  BY <1>1
<1> HIDE DEF jb2
<1>3. Later(jb, jb2, cd, cd, lg, lg2)
  BY <1>2 DEF Later, RowFit
<1>4. ASSUME NEW j \in Jobs PROVE JobFit(j, jb2, cd, lg2)
  <2>1. CASE j = o
    BY <1>2, <2>1 DEF JobFit, RowFit
  <2>2. CASE j # o /\ jb[j].status # "absent"
    <3>1. RowFit(jb[j], j, jb, cd, lg)
      BY <2>2 DEF Fit, JobFit
    <3>2. RowFit(jb[j], j, jb2, cd, lg2)
      BY <1>3, <2>2, <3>1, RowKept
    <3>3. QED
      BY <1>2, <2>2, <3>2 DEF JobFit
  <2>3. CASE j # o /\ jb[j].status = "absent"
    BY <1>2, <2>3 DEF JobFit
  <2>4. QED
    BY <2>1, <2>2, <2>3
<1>5. QED
  BY <1>2, <1>3, <1>4 DEF jb2

\* A process updates the row of its job and moves on.
LEMMA FitUpdate ==
    ASSUME NEW pr, NEW jb, NEW cd, NEW lg, Fit(pr, jb, cd, lg),
           NEW p \in Processes, pr[p].pc # "idle",
           NEW r, RowFit(r, pr[p].on, jb, cd, lg \cup {pr[p].on}),
           NEW l, LocalFit(l, jb, cd, lg)
    PROVE  /\ Fit([pr EXCEPT ![p] = l], [jb EXCEPT ![pr[p].on] = r], cd, lg \cup {pr[p].on})
           /\ Later(jb, [jb EXCEPT ![pr[p].on] = r], cd, cd, lg, lg \cup {pr[p].on})
           /\ NothingAdded(jb, [jb EXCEPT ![pr[p].on] = r])
<1> DEFINE o == pr[p].on
           lg2 == lg \cup {o}
           jb2 == [jb EXCEPT ![o] = r]
<1>1. o \in Jobs /\ jb[o].status # "absent" /\ jb \in [Jobs -> Job]
  BY DEF Fit, LocalFit
<1>2. lg \subseteq lg2 /\ RowFit(r, o, jb, cd, lg2)
  OBVIOUS
<1>3. NothingAdded(jb, jb2)
  BY <1>1 DEF NothingAdded
<1> HIDE DEF o, lg2
<1>4. jb2 \in [Jobs -> Job] /\ Later(jb, jb2, cd, cd, lg, lg2) /\ \A j \in Jobs : JobFit(j, jb2, cd, lg2)
  BY <1>1, <1>2, FitRow
<1> HIDE DEF jb2
<1>5. LocalFit(l, jb2, cd, lg2)
  BY <1>4, LocalKept
<1>6. Fit([pr EXCEPT ![p] = l], jb2, cd, lg2)
  BY <1>4, <1>5, FitMove
<1>7. QED
  BY <1>3, <1>4, <1>6 DEF o, lg2, jb2

\* A busy process forgets its copy and goes to a step it may take.
LEMMA GotoFit ==
    ASSUME NEW l, NEW jb, NEW cd, NEW lg, LocalFit(l, jb, cd, lg), l.pc # "idle",
           NEW pc \in {"load", "execute", "complete", "record", "cards", "requeue", "fail", "remember"},
           pc \in Trying => l.count < MaxAttempts,
           pc = "complete" => "verdict" \in cd[l.on],
           pc \in {"cards", "fail"} => l.count + 1 = MaxAttempts,
           pc = "requeue" => l.count + 1 < MaxAttempts
    PROVE  LocalFit([l EXCEPT !.pc = pc, !.row = NoRow], jb, cd, lg)
<1> DEFINE m == [l EXCEPT !.pc = pc, !.row = NoRow]
<1>1. l \in Locals /\ l.on \in Jobs /\ jb[l.on].status # "absent"
  BY DEF LocalFit
<1>2. m \in Locals /\ m.pc = pc /\ m.row = NoRow /\ m.on = l.on /\ m.count = l.count
  BY <1>1 DEF Locals, Updates
<1> HIDE DEF m
<1>3. LocalFit(m, jb, cd, lg)
  BY <1>1, <1>2 DEF LocalFit
<1>4. QED
  BY <1>3 DEF m

-----------------------------------------------------------------------------
(* Steps of the jobs.                                                      *)

AllFit == Fit(proc, job, cards, logged)

\* What every step keeps, and what every step but the insertion of a job keeps.
Kept == AllFit' /\ Later(job, job', cards, cards', logged, logged')
NoneNew == NothingAdded(job, job')

\* A busy process has a job that exists and knows what LocalFit says.
LEMMA BusyFacts ==
    ASSUME AllFit, NEW p \in Processes, proc[p].pc # "idle"
    PROVE  /\ LocalFit(proc[p], job, cards, logged)
           /\ proc[p] \in Locals
           /\ proc[p].on \in Jobs
           /\ job[proc[p].on].status # "absent"
           /\ RowFit(job[proc[p].on], proc[p].on, job, cards, logged)
           /\ proc[p].row # NoRow => RowFit(proc[p].row, proc[p].on, job, cards, logged)
<1>1. LocalFit(proc[p], job, cards, logged)
  BY DEF AllFit, Fit
<1>2. proc[p].on \in Jobs /\ job[proc[p].on].status # "absent"
  BY <1>1 DEF LocalFit
<1>3. JobFit(proc[p].on, job, cards, logged)
  BY <1>2 DEF AllFit, Fit
<1>4. QED
  BY <1>1, <1>2, <1>3 DEF LocalFit, JobFit

\* An update through a copy or in place.
LEMMA WriteKeeps ==
    ASSUME AllFit, NEW p \in Processes, proc[p].pc # "idle",
           NEW r, RowFit(r, proc[p].on, job, cards, logged \cup {proc[p].on}), Write(p, r),
           NEW l, LocalFit(l, job, cards, logged), proc' = [proc EXCEPT ![p] = l],
           cards' = cards
    PROVE  Kept /\ NoneNew
<1>1. job[proc[p].on].status # "absent"
  BY BusyFacts
<1>2. job' = [job EXCEPT ![proc[p].on] = r] /\ logged' = logged \cup {proc[p].on}
  BY <1>1 DEF Write
<1>3. /\ Fit([proc EXCEPT ![p] = l], [job EXCEPT ![proc[p].on] = r], cards, logged \cup {proc[p].on})
      /\ Later(job, [job EXCEPT ![proc[p].on] = r], cards, cards, logged, logged \cup {proc[p].on})
      /\ NothingAdded(job, [job EXCEPT ![proc[p].on] = r])
  BY FitUpdate DEF AllFit
<1>4. QED
  BY <1>2, <1>3 DEF Kept, NoneNew, AllFit

\* A step of one process that changes no table.
LEMMA MoveKeeps ==
    ASSUME AllFit, NEW p \in Processes, NEW l, LocalFit(l, job, cards, logged),
           proc' = [proc EXCEPT ![p] = l], UNCHANGED <<job, cards, logged>>
    PROVE  Kept /\ NoneNew
<1>1. Fit(proc', job', cards', logged')
  BY FitLocal DEF AllFit
<1>2. Later(job, job', cards, cards', logged, logged')
  BY DEF Later
<1>3. QED
  BY <1>1, <1>2 DEF Kept, NoneNew, NothingAdded, AllFit

\* A process stores cards under the key of its job and moves on.
LEMMA StoreKeeps ==
    ASSUME AllFit, NEW p \in Processes, \A j \in Jobs : cards[j] \subseteq cards'[j],
           NEW l, LocalFit(l, job, cards', logged),
           proc' = [proc EXCEPT ![p] = l], UNCHANGED <<job, logged>>
    PROVE  Kept /\ NoneNew
<1>1. Later(job, job, cards, cards', logged, logged)
  BY DEF Later
<1>2. job \in [Jobs -> Job] /\ \A j \in Jobs : JobFit(j, job, cards', logged)
  BY <1>1, JobsKept DEF AllFit
<1>3. Fit(proc', job', cards', logged')
  BY <1>1, <1>2, FitMove DEF AllFit
<1>4. QED
  BY <1>1, <1>3 DEF Kept, NoneNew, NothingAdded, AllFit

\* The rows change while the processes stand still.
LEMMA TablesKeep ==
    ASSUME AllFit, job' \in [Jobs -> Job], UNCHANGED <<proc, cards>>,
           Later(job, job', cards, cards', logged, logged'),
           \A j \in Jobs : JobFit(j, job', cards', logged')
    PROVE  Kept
<1>1. Fit(proc, job', cards', logged')
  BY FitTables DEF AllFit
<1>2. QED
  BY <1>1 DEF Kept, AllFit

Sound == TypeOK /\ AllFit

\* Queueing inserts jobs that fit and reports them; nothing else of it shows.
LEMMA InsertKeeps ==
    ASSUME Sound, NEW h \in Requests, NEW i \in Items, NEW j \in Jobs, InsertJob(h, i, j)
    PROVE  Kept
<1> DEFINE r == [NoJob EXCEPT !.status = "queued", !.item = i]
<1>1. r \in Job /\ r.status = "queued" /\ r.item = i
  BY NoJobType DEF NoJob, Job
<1>2. job \in [Jobs -> Job] /\ job' = [job EXCEPT ![j] = r] /\ job[j].status = "absent"
  BY DEF Sound, TypeOK, InsertJob
<1> HIDE DEF r
<1>3. job' \in [Jobs -> Job] /\ job'[j] = r /\ \A k \in Jobs : k # j => job'[k] = job[k]
  BY <1>1, <1>2
<1>4. UNCHANGED <<proc, cards, logged>>
  BY DEF InsertJob, runVars
<1>5. Later(job, job', cards, cards', logged, logged')
  BY <1>2, <1>3, <1>4 DEF Later
<1>6. ASSUME NEW k \in Jobs PROVE JobFit(k, job', cards', logged')
  <2>1. CASE k = j
    BY <1>1, <1>3, <2>1 DEF JobFit, RowFit, RowSound
  <2>2. CASE k # j /\ job[k].status # "absent"
    <3>1. RowFit(job[k], k, job, cards, logged)
      BY <2>2 DEF Sound, AllFit, Fit, JobFit
    <3>2. RowFit(job[k], k, job', cards', logged')
      BY <1>5, <2>2, <3>1, RowKept
    <3>3. QED
      BY <1>3, <2>2, <3>2 DEF JobFit
  <2>3. CASE k # j /\ job[k].status = "absent"
    BY <1>3, <2>3 DEF JobFit
  <2>4. QED
    BY <2>1, <2>2, <2>3
<1>7. QED
  BY <1>3, <1>4, <1>5, <1>6, TablesKeep DEF Sound

\* A step that leaves rows, cards and processes alone, and may report jobs.
LEMMA ReportKeeps ==
    ASSUME Sound, UNCHANGED <<job, cards, proc>>, logged \subseteq logged'
    PROVE  Kept /\ NoneNew
<1>1. Later(job, job, cards, cards, logged, logged')
  BY DEF Later
<1>2. job \in [Jobs -> Job] /\ \A j \in Jobs : JobFit(j, job, cards, logged')
  BY <1>1, JobsKept DEF Sound, AllFit
<1>3. Kept
  BY <1>1, <1>2, TablesKeep DEF Sound
<1>4. QED
  BY <1>3 DEF NoneNew, NothingAdded

\* Reading the row of the job.
LEMMA ReadKeeps ==
    ASSUME Sound, NEW p \in Processes, Read(p) PROVE Kept /\ NoneNew
<1> DEFINE l == [proc[p] EXCEPT !.row = job[proc[p].on]]
<1>1. proc[p].pc # "idle"
  BY DEF Read, Updates, Controls
<1>2. /\ LocalFit(proc[p], job, cards, logged) /\ proc[p] \in Locals
      /\ RowFit(job[proc[p].on], proc[p].on, job, cards, logged)
  BY <1>1, BusyFacts DEF Sound
<1>3. job[proc[p].on] \in Job
  BY <1>2 DEF RowFit
<1>4. /\ l \in Locals /\ l.pc = proc[p].pc /\ l.on = proc[p].on /\ l.count = proc[p].count
      /\ l.lease = proc[p].lease /\ l.row = job[proc[p].on]
  BY <1>2, <1>3 DEF Locals
<1>5. proc' = [proc EXCEPT ![p] = l] /\ UNCHANGED <<job, cards, logged>>
  BY DEF Read, runVars
<1> HIDE DEF l
<1>6. LocalFit(l, job, cards, logged)
  BY <1>2, <1>4 DEF LocalFit
<1>7. QED
  BY <1>5, <1>6, MoveKeeps DEF Sound

\* A control begins.
LEMMA StartControlKeeps ==
    ASSUME Sound, NEW u \in Users, NEW j \in Jobs, NEW action \in Controls,
           job[j].status # "absent", StartControl(u, j, action)
    PROVE  Kept /\ NoneNew
<1> DEFINE l == [Idle EXCEPT !.pc = action, !.on = j, !.count = Bump(job[j].retries)]
<1>1. job[j].retries \in 0..MaxAttempts
  BY DEF Sound, TypeOK, Job
<1>2. Bump(job[j].retries) \in 0..MaxAttempts
  BY <1>1, BumpType
<1>3. Idle \in Locals
  BY IdleFit DEF LocalFit
<1>4. l \in Locals /\ l.pc = action /\ l.on = j /\ l.row = NoRow
  BY <1>2, <1>3 DEF Idle, Locals, Updates
<1>5. proc' = [proc EXCEPT ![u] = l] /\ UNCHANGED <<job, cards, logged>>
  BY DEF StartControl, runVars
<1> HIDE DEF l
<1>6. LocalFit(l, job, cards, logged)
  BY <1>4 DEF LocalFit, Controls, Trying
<1>7. QED
  BY <1>5, <1>6, MoveKeeps, ProcessTypes DEF Sound

\* A control writes back the row it has read, changed.
LEMMA ApplyControlKeeps ==
    ASSUME Sound, NEW u \in Users, ApplyControl(u) PROVE Kept /\ NoneNew
<1> DEFINE a == proc[u].pc
           r == ControlRow(a, proc[u].row, proc[u].count)
<1>1. u \in Processes /\ a \in Controls /\ a # "idle" /\ proc[u].row # NoRow
  BY ProcessTypes DEF ApplyControl, Update, Controls
<1>2. /\ proc[u] \in Locals
      /\ RowFit(proc[u].row, proc[u].on, job, cards, logged)
  BY <1>1, BusyFacts DEF Sound
<1>3. proc[u].row \in Job /\ proc[u].count \in 0..MaxAttempts
  BY <1>2 DEF RowFit, Locals
<1>4. RowFit(r, proc[u].on, job, cards, logged \cup {proc[u].on})
  <2>1. CASE a = "pause"
    BY <1>2, <1>3, <2>1 DEF ControlRow, RowFit, RowSound, Job
  <2>2. CASE a = "cancel"
    BY <1>2, <1>3, <2>2 DEF ControlRow, RowFit, RowSound, Job
  <2>3. CASE a = "retry"
    BY <1>2, <1>3, <2>3 DEF ControlRow, RowFit, RowSound, Job
  <2>4. CASE a = "priority"
    BY <1>2, <1>3, <2>4 DEF ControlRow, RowFit
  <2>5. QED
    BY <1>1, <2>1, <2>2, <2>3, <2>4 DEF Controls
<1>5. Write(u, r) /\ proc' = [proc EXCEPT ![u] = Idle] /\ cards' = cards
  BY DEF ApplyControl, Update, Return, runVars
<1> HIDE DEF r
<1>6. QED
  BY <1>1, <1>4, <1>5, IdleFit, WriteKeeps DEF Sound

\* A claim.
LEMMA ClaimKeeps ==
    ASSUME Sound, NEW w \in Workers, NEW j \in Jobs, Claim(w, j) PROVE Kept /\ NoneNew
<1> DEFINE r == [job[j] EXCEPT !.status = "processing", !.lease = "live"]
           l == [Idle EXCEPT !.pc = "begin", !.on = j, !.count = job[j].retries, !.lease = "live"]
<1>1. job \in [Jobs -> Job] /\ job[j] \in Job /\ job[j].status # "absent" /\ job[j].retries < MaxAttempts
  BY DEF Sound, TypeOK, Claim, Claimable
<1>2. job[j].retries \in 0..MaxAttempts /\ Idle \in Locals
  BY <1>1, IdleFit DEF LocalFit, Job
<1>3. /\ l \in Locals /\ l.pc = "begin" /\ l.on = j /\ l.count = job[j].retries
      /\ l.lease = "live" /\ l.row = NoRow
  BY <1>2 DEF Idle, Locals, Updates
<1>4. RowFit(r, j, job, cards, logged)
  BY <1>1 DEF RowFit, RowSound, Job
<1>5. job' = [job EXCEPT ![j] = r] /\ proc' = [proc EXCEPT ![w] = l] /\ UNCHANGED <<cards, logged>>
  BY <1>1 DEF Claim, runVars
<1> HIDE DEF l
<1>6. LocalFit(l, job, cards, logged)
  BY <1>1, <1>3 DEF LocalFit
<1> DEFINE jb2 == [job EXCEPT ![j] = r]
<1>n. NothingAdded(job, jb2)
  BY <1>1 DEF NothingAdded
<1> HIDE DEF r
<1>7. /\ jb2 \in [Jobs -> Job]
      /\ Later(job, jb2, cards, cards, logged, logged)
      /\ \A k \in Jobs : JobFit(k, jb2, cards, logged)
  BY <1>1, <1>4, FitRow DEF Sound, AllFit
<1> HIDE DEF jb2
<1>8. LocalFit(l, jb2, cards, logged)
  BY <1>6, <1>7, LocalKept
<1>9. Fit([proc EXCEPT ![w] = l], jb2, cards, logged)
  BY <1>7, <1>8, FitMove, ProcessTypes DEF Sound, AllFit
<1>10. QED
  BY <1>5, <1>7, <1>9, <1>n DEF jb2, Kept, NoneNew, AllFit

\* The updates of a run: begin, load, complete.
LEMMA RunUpdateKeeps ==
    ASSUME Sound, NEW w \in Workers, Begin(w) \/ Load(w) \/ Complete(w) PROVE Kept /\ NoneNew
<1>p. w \in Processes
  BY ProcessTypes
<1> DEFINE l(pc) == [proc[w] EXCEPT !.pc = pc, !.row = NoRow]
<1>1. proc[w].pc \in {"begin", "load", "complete"} /\ proc[w].row # NoRow
  BY DEF Begin, Load, Complete, Update
<1>2. /\ LocalFit(proc[w], job, cards, logged) /\ proc[w] \in Locals
      /\ RowFit(proc[w].row, proc[w].on, job, cards, logged)
      /\ proc[w].count < MaxAttempts
      /\ proc[w].pc = "begin" => proc[w].lease # "none"
      /\ proc[w].pc = "complete" => "verdict" \in cards[proc[w].on]
  BY <1>p, <1>1, BusyFacts DEF Sound, LocalFit, Trying
<1>3. proc[w].row \in Job /\ proc[w].lease \in {"none", "live", "over"}
  BY <1>2 DEF RowFit, Locals
<1>4. ASSUME Begin(w) PROVE Kept /\ NoneNew
  <2> DEFINE r == [proc[w].row EXCEPT !.status = "processing", !.lease = proc[w].lease]
  <2>1. proc[w].pc = "begin" /\ Write(w, r) /\ proc' = [proc EXCEPT ![w] = l("load")] /\ cards' = cards
    BY <1>4, <1>2, <1>p DEF Begin, Update, Goto, runVars, Sound, TypeOK
  <2>2. RowFit(r, proc[w].on, job, cards, logged \cup {proc[w].on})
    BY <1>2, <1>3, <2>1 DEF RowFit, RowSound, Job
  <2>3. LocalFit(l("load"), job, cards, logged)
    BY <1>1, <1>2, GotoFit
  <2> HIDE DEF r, l
  <2>4. QED
    BY <1>1, <1>p, <2>1, <2>2, <2>3, WriteKeeps DEF Sound
<1>5. ASSUME Load(w) PROVE Kept /\ NoneNew
  <2> DEFINE r == proc[w].row
  <2>1. proc[w].pc = "load" /\ Write(w, r) /\ proc' = [proc EXCEPT ![w] = l("execute")] /\ cards' = cards
    BY <1>5, <1>2, <1>p DEF Load, Update, Goto, runVars, Sound, TypeOK
  <2>2. RowFit(r, proc[w].on, job, cards, logged \cup {proc[w].on})
    BY <1>2 DEF RowFit
  <2>3. LocalFit(l("execute"), job, cards, logged)
    BY <1>1, <1>2, GotoFit
  <2> HIDE DEF r, l
  <2>4. QED
    BY <1>1, <1>p, <2>1, <2>2, <2>3, WriteKeeps DEF Sound
<1>6. ASSUME Complete(w) PROVE Kept /\ NoneNew
  <2> DEFINE r == [proc[w].row EXCEPT !.status = "completed", !.lease = "none"]
  <2>1. proc[w].pc = "complete" /\ Write(w, r) /\ proc' = [proc EXCEPT ![w] = l("record")] /\ cards' = cards
    BY <1>6, <1>2, <1>p DEF Complete, Update, Goto, runVars, Sound, TypeOK
  <2>2. RowFit(r, proc[w].on, job, cards, logged \cup {proc[w].on})
    BY <1>2, <1>3, <2>1 DEF RowFit, RowSound, Job
  <2>3. LocalFit(l("record"), job, cards, logged)
    BY <1>1, <1>2, GotoFit
  <2> HIDE DEF r, l
  <2>4. QED
    BY <1>1, <1>p, <2>1, <2>2, <2>3, WriteKeeps DEF Sound
<1>7. QED
  BY <1>4, <1>5, <1>6

\* A bundle is stored under the key of the job.
LEMMA StoreFacts ==
    ASSUME Sound, NEW o \in Jobs, NEW c \in {"verdict", "failure"},
           cards' = [cards EXCEPT ![o] = @ \cup {c}]
    PROVE  (\A j \in Jobs : cards[j] \subseteq cards'[j]) /\ c \in cards'[o]
BY DEF Sound, TypeOK

\* A step that stores cards keeps what the locals know.
LEMMA StoreLocal ==
    ASSUME NEW l, NEW jb, NEW cd, NEW cd2, NEW lg, LocalFit(l, jb, cd, lg),
           \A j \in Jobs : cd[j] \subseteq cd2[j]
    PROVE  LocalFit(l, jb, cd2, lg)
<1>1. Later(jb, jb, cd, cd2, lg, lg)
  BY DEF Later
<1>2. QED
  BY <1>1, LocalKept

\* The engine and the storage.
LEMMA ExecuteKeeps ==
    ASSUME Sound, NEW w \in Workers, Execute(w) PROVE Kept /\ NoneNew
<1> DEFINE l == [proc[w] EXCEPT !.pc = "complete", !.row = NoRow]
<1>1. w \in Processes /\ proc[w].pc = "execute"
  BY ProcessTypes DEF Execute
<1>2. /\ LocalFit(proc[w], job, cards, logged) /\ proc[w].on \in Jobs
      /\ proc[w].count < MaxAttempts /\ proc[w] \in Locals
  BY <1>1, BusyFacts DEF Sound, LocalFit, Trying
<1>3. (\A j \in Jobs : cards[j] \subseteq cards'[j]) /\ "verdict" \in cards'[proc[w].on]
  BY <1>2, StoreFacts DEF Execute
<1>4. LocalFit(proc[w], job, cards', logged)
  BY <1>2, <1>3, StoreLocal
<1>5. LocalFit(l, job, cards', logged)
  BY <1>1, <1>2, <1>3, <1>4, GotoFit
<1>6. proc' = [proc EXCEPT ![w] = l] /\ UNCHANGED <<job, logged>>
  BY <1>1 DEF Execute, Goto, Sound, TypeOK
<1> HIDE DEF l
<1>7. QED
  BY <1>1, <1>3, <1>5, <1>6, StoreKeeps DEF Sound

\* A run that fails: its cards, its requeue, its end.
LEMMA FailureKeeps ==
    ASSUME Sound, NEW w \in Workers, RunFails(w) \/ UploadFailureCards(w) \/ Requeue(w) \/ Fail(w)
    PROVE  Kept /\ NoneNew
<1>p. w \in Processes
  BY ProcessTypes
<1>1. proc[w].pc \in Trying \cup {"cards", "requeue", "fail"} /\ proc[w].pc # "idle"
  BY DEF RunFails, UploadFailureCards, Requeue, Fail, Trying
<1>2. /\ LocalFit(proc[w], job, cards, logged) /\ proc[w] \in Locals
      /\ proc[w].on \in Jobs
      /\ RowFit(job[proc[w].on], proc[w].on, job, cards, logged)
      /\ proc[w].pc \in Trying => proc[w].count < MaxAttempts
      /\ proc[w].pc \in {"cards", "fail"} => proc[w].count + 1 = MaxAttempts
      /\ proc[w].pc = "requeue" => proc[w].count + 1 < MaxAttempts
  BY <1>p, <1>1, BusyFacts DEF Sound, LocalFit
<1>3. proc[w].count \in 0..MaxAttempts /\ job[proc[w].on] \in Job /\ MaxAttempts \in Nat
  BY <1>2, AttemptsAssumption DEF RowFit, Locals
<1> DEFINE l(pc) == [proc[w] EXCEPT !.pc = pc, !.row = NoRow]
           n == proc[w].count + 1
           r(s) == [job[proc[w].on] EXCEPT !.status = s, !.retries = n, !.lease = "none"]
<1>4. ASSUME RunFails(w) PROVE Kept /\ NoneNew
  <2> DEFINE pc == IF Terminal(w) THEN "cards" ELSE "requeue"
  <2>1. proc[w].pc \in Trying
    BY <1>4 DEF RunFails, Trying
  <2>2. /\ pc \in {"cards", "requeue"}
        /\ pc = "cards" => proc[w].count + 1 = MaxAttempts
        /\ pc = "requeue" => proc[w].count + 1 < MaxAttempts
    BY <1>2, <1>3, <2>1 DEF Terminal
  <2>3. proc' = [proc EXCEPT ![w] = l(pc)] /\ UNCHANGED <<job, cards, logged>>
    BY <1>4, <1>p DEF RunFails, Goto, runVars, Sound, TypeOK
  <2> HIDE DEF pc
  <2>4. LocalFit(l(pc), job, cards, logged)
    BY <1>1, <1>2, <2>2, GotoFit DEF Trying
  <2> HIDE DEF l
  <2>5. QED
    BY <1>p, <2>3, <2>4, MoveKeeps DEF Sound
<1>5. ASSUME UploadFailureCards(w) PROVE Kept /\ NoneNew
  <2>1. \A j \in Jobs : cards[j] \subseteq cards'[j]
    BY <1>2, <1>5, StoreFacts DEF UploadFailureCards
  <2>2. LocalFit(proc[w], job, cards', logged)
    BY <1>2, <2>1, StoreLocal
  <2>3. proc[w].pc = "cards" /\ proc' = [proc EXCEPT ![w] = l("fail")] /\ UNCHANGED <<job, logged>>
    BY <1>5, <1>p DEF UploadFailureCards, Goto, Sound, TypeOK
  <2>4. LocalFit(l("fail"), job, cards', logged)
    BY <1>1, <1>2, <2>2, <2>3, GotoFit DEF Trying
  <2> HIDE DEF l
  <2>5. QED
    BY <1>p, <2>1, <2>3, <2>4, StoreKeeps DEF Sound
<1>6. ASSUME Requeue(w) PROVE Kept /\ NoneNew
  <2>1. /\ proc[w].pc = "requeue" /\ Write(w, r("queued")) /\ cards' = cards
        /\ proc' = [proc EXCEPT ![w] = Idle]
    BY <1>6 DEF Requeue, Return, runVars
  <2>n. n \in 0..MaxAttempts
    BY <1>2, <1>3, <2>1
  <2> HIDE DEF n
  <2>2. RowFit(r("queued"), proc[w].on, job, cards, logged \cup {proc[w].on})
    BY <1>2, <1>3, <2>n DEF RowFit, RowSound, Job
  <2> HIDE DEF r
  <2>3. QED
    BY <1>p, <1>1, <2>1, <2>2, IdleFit, WriteKeeps DEF Sound
<1>7. ASSUME Fail(w) PROVE Kept /\ NoneNew
  <2>1. /\ proc[w].pc = "fail" /\ Write(w, r("failed")) /\ cards' = cards
        /\ proc' = [proc EXCEPT ![w] = l("remember")]
    BY <1>7, <1>p DEF Fail, Goto, runVars, Sound, TypeOK
  <2>n. n \in 0..MaxAttempts /\ n = MaxAttempts
    BY <1>2, <1>3, <2>1
  <2> HIDE DEF n
  <2>2. RowFit(r("failed"), proc[w].on, job, cards, logged \cup {proc[w].on})
    BY <1>2, <1>3, <2>n DEF RowFit, RowSound, Job
  <2>3. LocalFit(l("remember"), job, cards, logged)
    BY <1>1, <1>2, GotoFit DEF Trying
  <2> HIDE DEF r, l
  <2>4. QED
    BY <1>p, <1>1, <2>1, <2>2, <2>3, WriteKeeps DEF Sound
<1>8. QED
  BY <1>4, <1>5, <1>6, <1>7

\* The end of a run, of a request to change a job, of a life.
LEMMA EndKeeps ==
    ASSUME Sound, NEW p \in Processes, Return(p), UNCHANGED <<job, cards, logged>>
    PROVE  Kept /\ NoneNew
BY IdleFit, MoveKeeps DEF Return, Sound

PastJobs(jb, o) == [jb EXCEPT ![o].lease = "over"]
PastLocals(pr, o) ==
    [p \in Processes |->
        IF pr[p].on # o THEN pr[p]
        ELSE [pr[p] EXCEPT !.lease = PastLease(pr[p].lease), !.row = PastRow(pr[p].row)]]

\* A lease that is over is over in every copy too, and a copy remains sound.
LEMMA LeaseFit ==
    ASSUME NEW pr, NEW jb, NEW cd, NEW lg, Fit(pr, jb, cd, lg),
           NEW o \in Jobs, jb[o].status # "absent", jb[o].lease = "live"
    PROVE  /\ Fit(PastLocals(pr, o), PastJobs(jb, o), cd, lg)
           /\ Later(jb, PastJobs(jb, o), cd, cd, lg, lg)
           /\ NothingAdded(jb, PastJobs(jb, o))
<1> DEFINE pr2 == PastLocals(pr, o)
           jb2 == PastJobs(jb, o)
<1> DEFINE r == [jb[o] EXCEPT !.lease = "over"]
<1>1. jb \in [Jobs -> Job] /\ jb[o] \in Job /\ RowFit(jb[o], o, jb, cd, lg)
  BY DEF Fit, JobFit
<1>2. RowFit(r, o, jb, cd, lg)
  BY <1>1 DEF RowFit, RowSound, Job
<1>3. jb2 = [jb EXCEPT ![o] = r] /\ NothingAdded(jb, jb2)
  BY <1>1 DEF NothingAdded, PastJobs
<1>f. pr2 = [p \in Processes |-> pr2[p]]
  BY DEF PastLocals
<1>g. ASSUME NEW p \in Processes
      PROVE  pr2[p] = IF pr[p].on # o THEN pr[p]
                      ELSE [pr[p] EXCEPT !.lease = PastLease(pr[p].lease), !.row = PastRow(pr[p].row)]
  BY DEF PastLocals
<1> HIDE DEF r, pr2, jb2
<1> DEFINE jb3 == [jb EXCEPT ![o] = r]
<1>0. /\ jb3 \in [Jobs -> Job] /\ Later(jb, jb3, cd, cd, lg, lg)
      /\ \A j \in Jobs : JobFit(j, jb3, cd, lg)
  BY <1>2, FitRow
<1>4. /\ jb2 \in [Jobs -> Job] /\ Later(jb, jb2, cd, cd, lg, lg)
      /\ \A j \in Jobs : JobFit(j, jb2, cd, lg)
  BY <1>3, <1>0
<1>5. ASSUME NEW p \in Processes PROVE LocalFit(pr2[p], jb2, cd, lg)
  <2>1. LocalFit(pr[p], jb, cd, lg)
    BY DEF Fit
  <2>2. LocalFit(pr[p], jb2, cd, lg)
    BY <1>4, <2>1, LocalKept
  <2>3. CASE pr[p].on # o
    BY <1>g, <2>2, <2>3
  <2>4. CASE pr[p].on = o
    <3> DEFINE row2 == PastRow(pr[p].row)
               l == [pr[p] EXCEPT !.lease = PastLease(pr[p].lease), !.row = row2]
    <3>1. pr2[p] = l
      BY <1>g, <2>4
    <3>2. pr[p] \in Locals /\ pr[p].row \in Job \cup {NoRow} /\ pr[p].lease \in {"none", "live", "over"}
      BY <2>1 DEF LocalFit, Locals
    <3>3. row2 \in Job \cup {NoRow} /\ (row2 # NoRow => pr[p].row # NoRow)
      BY <3>2 DEF Job, PastRow, PastLease
    <3>4. ASSUME pr[p].pc # "idle", row2 # NoRow PROVE RowFit(row2, o, jb2, cd, lg)
      <4>1. RowFit(pr[p].row, o, jb2, cd, lg) /\ pr[p].row # NoRow
        BY <2>2, <2>4, <3>3, <3>4 DEF LocalFit
      <4>2. row2 = [pr[p].row EXCEPT !.lease = PastLease(pr[p].row.lease)] /\ pr[p].row \in Job
        BY <4>1, <2>1, <2>4, <3>4 DEF RowFit, PastRow
      <4> HIDE DEF row2
      <4>3. QED
        BY <4>1, <4>2 DEF RowFit, RowSound, Job, PastLease
    <3> HIDE DEF row2
    <3>5. /\ l \in Locals /\ l.pc = pr[p].pc /\ l.on = o /\ l.count = pr[p].count /\ l.row = row2
          /\ pr[p].lease # "none" => l.lease # "none"
      BY <2>4, <3>2, <3>3 DEF Locals, PastLease
    <3> HIDE DEF l
    <3>6. LocalFit(l, jb2, cd, lg)
      BY <2>2, <2>4, <3>4, <3>5 DEF LocalFit
    <3>7. QED
      BY <3>1, <3>6
  <2>5. QED
    BY <2>3, <2>4
<1>6. pr2 \in [Processes -> Locals]
  BY <1>f, <1>5 DEF LocalFit
<1>7. Fit(pr2, jb2, cd, lg)
  BY <1>4, <1>5, <1>6 DEF Fit
<1>8. QED
  BY <1>3, <1>4, <1>7 DEF pr2, jb2

LEMMA LeaseKeeps ==
    ASSUME Sound, NEW j \in Jobs, LeasePasses(j), UNCHANGED <<logged, cards>>
    PROVE  Kept /\ NoneNew
<1>1. job' = [job EXCEPT ![j].lease = "over"] /\ job[j].status # "absent" /\ job[j].lease = "live"
  BY DEF LeasePasses
<1>a. Fit(PastLocals(proc, j), PastJobs(job, j), cards, logged)
      /\ Later(job, PastJobs(job, j), cards, cards, logged, logged) /\ NothingAdded(job, PastJobs(job, j))
  BY <1>1, LeaseFit DEF Sound, AllFit
<1>b. proc' = PastLocals(proc, j) /\ job' = PastJobs(job, j)
  BY DEF LeasePasses, PastLocals, PastJobs
<1>2. Fit(proc', job', cards, logged) /\ Later(job, job', cards, cards, logged, logged)
      /\ NothingAdded(job, job')
  BY <1>a, <1>b
<1>3. QED
  BY <1>2 DEF Kept, NoneNew, AllFit

\* The recovery queues again what nobody seems to run.
LEMMA RecoverKeeps ==
    ASSUME Sound, RecoverStaleProcessingJobs PROVE Kept /\ NoneNew
<1> DEFINE r(j) == [job[j] EXCEPT !.status = "queued", !.retries = Bump(@)]
<1>1. PICK stale \in SUBSET {j \in Jobs : Stale(j)} :
          job' = [j \in Jobs |-> IF j \in stale THEN r(j) ELSE job[j]]
  BY DEF RecoverStaleProcessingJobs
<1>2. job \in [Jobs -> Job]
  BY DEF Sound, TypeOK
<1>3. ASSUME NEW j \in stale
      PROVE  /\ j \in Jobs /\ r(j) \in Job /\ r(j).status = "queued" /\ r(j).item = job[j].item
             /\ job[j].status # "absent"
  <2>1. j \in Jobs /\ job[j] \in Job /\ job[j].status = "processing" /\ job[j].retries \in 0..MaxAttempts
    BY <1>2 DEF Stale, Job
  <2>2. Bump(job[j].retries) \in 0..MaxAttempts
    BY <2>1, BumpType
  <2>3. QED
    BY <2>1, <2>2 DEF Job
<1> HIDE DEF r
<1>4. job' \in [Jobs -> Job] /\ \A j \in Jobs : job'[j] = IF j \in stale THEN r(j) ELSE job[j]
  BY <1>1, <1>2, <1>3
<1>5. UNCHANGED <<proc, cards, logged>>
  BY DEF RecoverStaleProcessingJobs, runVars
<1>6. Later(job, job', cards, cards', logged, logged')
  BY <1>3, <1>4, <1>5 DEF Later
<1>7. ASSUME NEW j \in Jobs PROVE JobFit(j, job', cards', logged')
  <2>1. CASE j \in stale
    BY <1>3, <1>4, <2>1 DEF JobFit, RowFit, RowSound
  <2>2. CASE j \notin stale /\ job[j].status # "absent"
    <3>1. RowFit(job[j], j, job, cards, logged)
      BY <2>2 DEF Sound, AllFit, Fit, JobFit
    <3>2. RowFit(job[j], j, job', cards', logged')
      BY <1>6, <2>2, <3>1, RowKept
    <3>3. QED
      BY <1>4, <2>2, <3>2 DEF JobFit
  <2>3. CASE j \notin stale /\ job[j].status = "absent"
    BY <1>4, <2>3 DEF JobFit
  <2>4. QED
    BY <2>1, <2>2, <2>3
<1>8. NoneNew
  BY <1>3, <1>4 DEF NoneNew, NothingAdded
<1>9. QED
  BY <1>4, <1>5, <1>6, <1>7, <1>8, TablesKeep DEF Sound

\* The cleanup deletes nothing: every failed job has an event.
LEMMA CleanupKeeps ==
    ASSUME Sound, CleanupStaleFailedJobs PROVE Kept /\ NoneNew
<1>1. PICK old \in SUBSET FailedJobs :
          job' = IF old \cap logged = {} THEN [j \in Jobs |-> IF j \in old THEN NoJob ELSE job[j]] ELSE job
  BY DEF CleanupStaleFailedJobs
<1>2. job \in [Jobs -> Job]
  BY DEF Sound, TypeOK
<1>3. ASSUME NEW j \in FailedJobs PROVE j \in logged
  BY DEF FailedJobs, Sound, AllFit, Fit, JobFit, RowFit
<1>4. job' = job
  BY <1>1, <1>2, <1>3
<1>5. UNCHANGED <<proc, cards, logged>>
  BY DEF CleanupStaleFailedJobs, runVars
<1>6. QED
  BY <1>4, <1>5, ReportKeeps

Inserts == \E h \in Requests, i \in Items, j \in Jobs : InsertJob(h, i, j)

\* Every step keeps what rows and copies rely on, and only an insertion adds a job.
LEMMA JobStep == Sound /\ [Next]_vars => Kept /\ (NoneNew \/ Inserts)
<1> SUFFICES ASSUME Sound, [Next]_vars PROVE Kept /\ (NoneNew \/ Inserts)
  OBVIOUS
<1>p. Workers \subseteq Processes /\ Users \subseteq Processes
  BY ProcessTypes
<1>1. ASSUME NEW p \in Plans, ApproveExperimentPlan(p) PROVE Kept /\ NoneNew
  BY <1>1, ReportKeeps DEF ApproveExperimentPlan
<1>2. ASSUME NEW h \in Requests, NEW p \in Plans, QueueExperimentPlan(h, p) PROVE Kept /\ NoneNew
  BY <1>2, ReportKeeps DEF QueueExperimentPlan, runVars
<1>3. ASSUME NEW h \in Requests, Check(h) \/ MarkPlan(h) \/ MarkItems(h) \/ ReadUsage(h) \/ Charge(h) \/ CrashRequest(h)
      PROVE  Kept /\ NoneNew
  BY <1>3, ReportKeeps DEF Check, MarkPlan, MarkItems, ReadUsage, Charge, CrashRequest, runVars
<1>4. ASSUME NEW h \in Requests, NEW i \in Items, NEW j \in Jobs, InsertJob(h, i, j) PROVE Kept /\ Inserts
  BY <1>4, InsertKeeps DEF Inserts
<1>5. ASSUME NEW u \in Users, NEW j \in Jobs, NEW action \in Controls, UpdateExperimentJobControl(u, j, action)
      PROVE  Kept /\ NoneNew
  BY <1>5, StartControlKeeps DEF UpdateExperimentJobControl
<1>6. ASSUME NEW u \in Users, NEW j \in Jobs, RetryAdminJob(u, j) PROVE Kept /\ NoneNew
  BY <1>6, StartControlKeeps DEF RetryAdminJob, Controls
<1>7. ASSUME NEW u \in Users, ApplyControl(u) PROVE Kept /\ NoneNew
  BY <1>7, ApplyControlKeeps
<1>8. ASSUME NEW w \in Workers, NEW j \in Jobs, Claim(w, j) PROVE Kept /\ NoneNew
  BY <1>8, ClaimKeeps
<1>9. ASSUME NEW w \in Workers, WorkerStep(w) PROVE Kept /\ NoneNew
  <2>1. CASE Begin(w) \/ Load(w) \/ Complete(w)
    BY <2>1, RunUpdateKeeps
  <2>2. CASE Execute(w)
    BY <2>2, ExecuteKeeps
  <2>3. CASE RunFails(w) \/ UploadFailureCards(w) \/ Requeue(w) \/ Fail(w)
    BY <2>3, FailureKeeps
  <2>4. CASE Record(w) \/ Remember(w)
    BY <1>p, <2>4, EndKeeps DEF Record, Remember
  <2>5. QED
    BY <1>9, <2>1, <2>2, <2>3, <2>4 DEF WorkerStep
<1>10. ASSUME NEW p \in Processes, Read(p) PROVE Kept /\ NoneNew
  BY <1>10, ReadKeeps
<1>11. ASSUME NEW p \in Processes, Crash(p) PROVE Kept /\ NoneNew
  BY <1>11, EndKeeps DEF Crash, runVars
<1>12. ASSUME NEW j \in Jobs, LeaseExpires(j) \/ Overrun(j) PROVE Kept /\ NoneNew
  BY <1>12, LeaseKeeps DEF LeaseExpires, Overrun, runVars
<1>13. ASSUME RecoverStaleProcessingJobs PROVE Kept /\ NoneNew
  BY <1>13, RecoverKeeps
<1>14. ASSUME CleanupStaleFailedJobs PROVE Kept /\ NoneNew
  BY <1>14, CleanupKeeps
<1>15. ASSUME UNCHANGED vars PROVE Kept /\ NoneNew
  BY <1>15, ReportKeeps DEF vars
<1>16. QED
  BY <1>1, <1>2, <1>3, <1>4, <1>5, <1>6, <1>7, <1>8, <1>9, <1>10, <1>11, <1>12, <1>13, <1>14, <1>15
     DEF Next, RequestStep

-----------------------------------------------------------------------------
(* Type correctness.                                                       *)

LEMMA SoundInit == Init => Sound
<1> SUFFICES ASSUME Init PROVE Sound
  OBVIOUS
<1>1. proc = [p \in Processes |-> Idle] /\ job = [j \in Jobs |-> NoJob]
  BY DEF Init
<1>2. Idle \in Locals /\ NoJob \in Job /\ NoJob.status = "absent"
  BY IdleFit, NoJobType DEF LocalFit, NoJob
<1>3. proc \in [Processes -> Locals] /\ job \in [Jobs -> Job]
  BY <1>1, <1>2
<1>4. \A p \in Processes : proc[p] = Idle
  BY <1>1
<1>5. \A j \in Jobs : job[j].status = "absent"
  BY <1>1, <1>2
<1>6. AllFit
  BY <1>3, <1>4, <1>5, IdleFit DEF AllFit, Fit, JobFit
<1>7. NoRequest \in RequestLocals /\ 0 \in 0..MaxFaults
  BY FaultsAssumption DEF NoRequest, RequestLocals
<1>8. TypeOK
  BY <1>3, <1>7 DEF Init, TypeOK
<1>9. QED
  BY <1>6, <1>8 DEF Sound

\* The number of jobs a request has made is a number.
LEMMA MadeCounted == \A S \in SUBSET Jobs : Cardinality(S) \in Nat
BY JobsAssumption, FS_Subset, FS_CardinalityType

\* The steps of the requests keep the types of what they use.
LEMMA RequestTypes ==
    ASSUME Sound, [Next]_vars
    PROVE  /\ plan' \in [Plans -> {"draft", "approved", "queued"}]
           /\ item' \in [Items -> {"draft", "queued"}]
           /\ logged' \in SUBSET Jobs
           /\ units' \in Nat
           /\ request' \in [Requests -> RequestLocals]
           /\ overlapped' \in BOOLEAN
<1> DEFINE Typed == /\ plan' \in [Plans -> {"draft", "approved", "queued"}]
                    /\ item' \in [Items -> {"draft", "queued"}]
                    /\ logged' \in SUBSET Jobs
                    /\ units' \in Nat
                    /\ request' \in [Requests -> RequestLocals]
                    /\ overlapped' \in BOOLEAN
<1>t. /\ plan \in [Plans -> {"draft", "approved", "queued"}]
      /\ item \in [Items -> {"draft", "queued"}]
      /\ logged \in SUBSET Jobs
      /\ units \in Nat
      /\ request \in [Requests -> RequestLocals]
      /\ overlapped \in BOOLEAN
  BY DEF Sound, TypeOK
<1>n. NoRequest \in RequestLocals
  BY DEF NoRequest, RequestLocals
<1>1. ASSUME NEW p \in Plans, ApproveExperimentPlan(p) PROVE Typed
  BY <1>1, <1>t DEF ApproveExperimentPlan
<1>2. ASSUME NEW h \in Requests, NEW p \in Plans, QueueExperimentPlan(h, p) PROVE Typed
  <2>1. [NoRequest EXCEPT !.pc = "check", !.on = p, !.todo = DraftItems(p)] \in RequestLocals
    BY <1>n DEF RequestLocals, DraftItems
  <2>2. request' \in [Requests -> RequestLocals]
    BY <1>2, <1>t, <2>1 DEF QueueExperimentPlan
  <2>3. QED
    BY <1>2, <1>t, <2>2 DEF QueueExperimentPlan
<1>3. ASSUME NEW h \in Requests, NEW pc \in {"plan", "items", "insert"}, Proceed(h, pc)
      PROVE  request' \in [Requests -> RequestLocals]
  BY <1>3, <1>t DEF Proceed, RequestLocals
<1>4. ASSUME NEW h \in Requests, request' = [request EXCEPT ![h] = NoRequest]
      PROVE  request' \in [Requests -> RequestLocals]
  BY <1>4, <1>n, <1>t
<1>5. ASSUME NEW h \in Requests, Check(h) PROVE Typed
  BY <1>5, <1>3, <1>4, <1>t DEF Check
<1>6. ASSUME NEW h \in Requests, MarkPlan(h) PROVE Typed
  <2>1. plan' \in [Plans -> {"draft", "approved", "queued"}]
    BY <1>6, <1>t DEF MarkPlan
  <2>2. QED
    BY <1>6, <1>3, <1>t, <2>1 DEF MarkPlan
<1>7. ASSUME NEW h \in Requests, MarkItems(h) PROVE Typed
  <2>1. item' \in [Items -> {"draft", "queued"}]
    BY <1>7, <1>t DEF MarkItems
  <2>2. QED
    BY <1>7, <1>3, <1>t, <2>1 DEF MarkItems
<1>8. ASSUME NEW h \in Requests, NEW i \in Items, NEW j \in Jobs, InsertJob(h, i, j) PROVE Typed
  <2> DEFINE pc == IF request[h].todo = {i} THEN "usage" ELSE "insert"
             l == [request[h] EXCEPT !.todo = request[h].todo \ {i},
                                     !.made = request[h].made \cup {j}, !.pc = pc]
  <2>1. request[h] \in RequestLocals /\ pc \in {"usage", "insert"}
    BY <1>t
  <2>2. request' = [request EXCEPT ![h] = l]
    BY <1>8, <1>t DEF InsertJob
  <2> HIDE DEF pc
  <2>3. l \in RequestLocals
    BY <2>1 DEF RequestLocals
  <2> HIDE DEF l
  <2>4. request' \in [Requests -> RequestLocals]
    BY <1>t, <2>2, <2>3
  <2>5. QED
    BY <1>8, <1>t, <2>4 DEF InsertJob
<1>9. ASSUME NEW h \in Requests, ReadUsage(h) PROVE Typed
  <2>1. request' \in [Requests -> RequestLocals]
    BY ZenonT(30), <1>9, <1>t DEF ReadUsage, RequestLocals
  <2>2. request[h].made \in SUBSET Jobs
    BY <1>t DEF RequestLocals
  <2>3. QED
    BY <1>9, <1>t, <2>1, <2>2 DEF ReadUsage
<1>10. ASSUME NEW h \in Requests, Charge(h) PROVE Typed
  <2>1. request[h].used \in Nat /\ request[h].made \in SUBSET Jobs
    BY <1>t DEF RequestLocals
  <2>2. Cardinality(request[h].made) \in Nat
    BY <2>1, MadeCounted
  <2>3. units' \in Nat
    BY <1>10, <2>1, <2>2 DEF Charge
  <2>4. QED
    BY <1>10, <1>4, <1>t, <2>3 DEF Charge
<1>11. ASSUME NEW h \in Requests, CrashRequest(h) PROVE Typed
  BY <1>11, <1>4, <1>t DEF CrashRequest
<1>12. ASSUME NEW p \in Processes, NEW r, proc[p].pc # "idle", Write(p, r) PROVE logged' \in SUBSET Jobs
  <2>1. proc[p].on \in Jobs
    BY <1>12, BusyFacts DEF Sound
  <2>2. QED
    BY <1>12, <1>t, <2>1 DEF Write
<1>13. ASSUME UNCHANGED queueVars, logged' \in SUBSET Jobs PROVE Typed
  BY <1>13, <1>t DEF queueVars
<1>14. ASSUME NEW u \in Users, ApplyControl(u) PROVE Typed
  <2>1. u \in Processes /\ proc[u].pc # "idle"
    BY <1>14, ProcessTypes DEF ApplyControl, Controls
  <2>2. logged' \in SUBSET Jobs
    BY <1>14, <1>12, <2>1 DEF ApplyControl, Update
  <2>3. QED
    BY <1>14, <1>13, <2>2 DEF ApplyControl
<1>15. ASSUME NEW w \in Workers, WorkerStep(w) PROVE Typed
  <2>p. w \in Processes
    BY ProcessTypes
  <2>1. CASE Begin(w) \/ Load(w) \/ Complete(w)
    <3>1. proc[w].pc # "idle"
      BY <2>1 DEF Begin, Load, Complete, Update
    <3>2. logged' \in SUBSET Jobs
      BY <1>12, <2>p, <2>1, <3>1 DEF Begin, Load, Complete, Update
    <3>3. QED
      BY <1>13, <2>1, <3>2 DEF Begin, Load, Complete
  <2>2. CASE Requeue(w) \/ Fail(w)
    <3>1. proc[w].pc # "idle"
      BY <2>2 DEF Requeue, Fail
    <3>2. logged' \in SUBSET Jobs
      BY <1>12, <2>p, <2>2, <3>1 DEF Requeue, Fail
    <3>3. QED
      BY <1>13, <2>2, <3>2 DEF Requeue, Fail
  <2>3. CASE Execute(w) \/ RunFails(w) \/ UploadFailureCards(w) \/ Record(w) \/ Remember(w)
    <3>1. UNCHANGED queueVars /\ logged' = logged
      BY <2>3 DEF Execute, RunFails, UploadFailureCards, Record, Remember
    <3>2. QED
      BY <1>13, <1>t, <3>1
  <2>4. QED
    BY <1>15, <2>1, <2>2, <2>3 DEF WorkerStep
<1>16. ASSUME UNCHANGED <<queueVars, logged>> PROVE Typed
  BY <1>13, <1>16, <1>t
<1>17. ASSUME NEW u \in Users, NEW j \in Jobs, NEW action \in Controls, StartControl(u, j, action) PROVE Typed
  BY <1>16, <1>17 DEF StartControl
<1>18. ASSUME \/ \E w \in Workers, j \in Jobs : Claim(w, j)
              \/ \E p \in Processes : Read(p) \/ Crash(p)
              \/ \E j \in Jobs : LeaseExpires(j) \/ Overrun(j)
              \/ RecoverStaleProcessingJobs
              \/ CleanupStaleFailedJobs
              \/ UNCHANGED vars
       PROVE  Typed
  BY <1>16, <1>18
     DEF Claim, Read, Crash, LeaseExpires, Overrun, RecoverStaleProcessingJobs,
         CleanupStaleFailedJobs, vars, queueVars
<1> HIDE DEF Typed
<1>19. Typed
  BY <1>1, <1>2, <1>5, <1>6, <1>7, <1>8, <1>9, <1>10, <1>11, <1>14, <1>15, <1>17, <1>18
     DEF Next, RequestStep, UpdateExperimentJobControl, RetryAdminJob, Controls
<1>20. QED
  BY <1>19 DEF Typed

\* So do the steps of the runs.
LEMMA RunTypes ==
    ASSUME Sound, [Next]_vars
    PROVE  /\ cards' \in [Jobs -> SUBSET {"verdict", "failure"}]
           /\ memory' \in SUBSET Jobs
           /\ faults' \in 0..MaxFaults
<1> DEFINE Typed == /\ cards' \in [Jobs -> SUBSET {"verdict", "failure"}]
                    /\ memory' \in SUBSET Jobs
<1>t. /\ cards \in [Jobs -> SUBSET {"verdict", "failure"}]
      /\ memory \in SUBSET Jobs
      /\ faults \in 0..MaxFaults
  BY DEF Sound, TypeOK
<1>1. ASSUME UNCHANGED runVars PROVE Typed
  BY <1>1, <1>t DEF runVars
<1>2. ASSUME NEW w \in Workers, Execute(w) \/ UploadFailureCards(w) PROVE Typed
  <2>1. w \in Processes /\ proc[w].pc # "idle"
    BY <1>2, ProcessTypes DEF Execute, UploadFailureCards
  <2>2. proc[w].on \in Jobs
    BY <2>1, BusyFacts DEF Sound
  <2>3. QED
    BY <1>2, <1>t, <2>2 DEF Execute, UploadFailureCards
<1>3. ASSUME NEW w \in Workers, Record(w) \/ Remember(w) PROVE Typed
  <2>1. w \in Processes /\ proc[w].pc # "idle"
    BY <1>3, ProcessTypes DEF Record, Remember
  <2>2. proc[w].on \in Jobs
    BY <2>1, BusyFacts DEF Sound
  <2>3. QED
    BY <1>3, <1>t, <2>2 DEF Record, Remember
<1>4. ASSUME NEW w \in Workers, WorkerStep(w) PROVE Typed
  BY <1>1, <1>2, <1>3, <1>4 DEF WorkerStep, Begin, Load, Complete, RunFails, Requeue, Fail
<1>5. ASSUME NEW h \in Requests, RequestStep(h) \/ CrashRequest(h) PROVE UNCHANGED runVars
  BY <1>5 DEF RequestStep, CrashRequest, Check, MarkPlan, MarkItems, InsertJob, ReadUsage, Charge
<1>6. ASSUME \/ \E p \in Plans : ApproveExperimentPlan(p)
             \/ \E h \in Requests, p \in Plans : QueueExperimentPlan(h, p)
             \/ \E u \in Users, j \in Jobs, action \in Controls : StartControl(u, j, action)
             \/ \E u \in Users : ApplyControl(u)
             \/ \E w \in Workers, j \in Jobs : Claim(w, j)
             \/ \E p \in Processes : Read(p) \/ Crash(p)
             \/ \E j \in Jobs : LeaseExpires(j) \/ Overrun(j)
             \/ RecoverStaleProcessingJobs
             \/ CleanupStaleFailedJobs
             \/ UNCHANGED vars
      PROVE  UNCHANGED runVars
  BY <1>6 DEF ApproveExperimentPlan, QueueExperimentPlan, StartControl, ApplyControl, Claim,
     Read, Crash,
     LeaseExpires, Overrun, RecoverStaleProcessingJobs, CleanupStaleFailedJobs, vars, runVars
<1> HIDE DEF Typed
<1>7. Typed
  BY <1>1, <1>4, <1>5, <1>6
     DEF Next, UpdateExperimentJobControl, RetryAdminJob, Controls
<1>8. faults' \in 0..MaxFaults
  <2>1. \/ faults' = faults
        \/ /\ faults < MaxFaults
           /\ faults' = faults + 1
    <3>1. ASSUME NEW w \in Workers, WorkerStep(w) PROVE faults' = faults
      BY <3>1 DEF WorkerStep, Begin, Load, Execute, Complete, Record, RunFails, UploadFailureCards,
         Requeue, Fail, Remember
    <3>2. ASSUME NEW h \in Requests, RequestStep(h) PROVE faults' = faults
      BY <3>2 DEF RequestStep, Check, MarkPlan, MarkItems, InsertJob, ReadUsage, Charge
    <3>3. QED
      BY <3>1, <3>2 DEF Next, ApproveExperimentPlan, QueueExperimentPlan, CrashRequest,
         UpdateExperimentJobControl, RetryAdminJob, StartControl, ApplyControl, Claim, Read, Crash,
         LeaseExpires, Overrun, RecoverStaleProcessingJobs, CleanupStaleFailedJobs, vars
  <2>2. QED
    BY <1>t, <2>1, FaultsAssumption
<1>9. QED
  BY <1>7, <1>8 DEF Typed

LEMMA SoundStep == Sound /\ [Next]_vars => Sound'
<1> SUFFICES ASSUME Sound, [Next]_vars PROVE Sound'
  OBVIOUS
<1>1. AllFit'
  BY JobStep DEF Kept
<1>2. proc' \in [Processes -> Locals] /\ job' \in [Jobs -> Job]
  BY <1>1 DEF AllFit, Fit
<1>3. TypeOK'
  BY <1>2, RequestTypes, RunTypes DEF TypeOK
<1>4. QED
  BY <1>1, <1>3 DEF Sound

LEMMA SoundAlways == Spec => []Sound
BY SoundInit, SoundStep, PTL DEF Spec

-----------------------------------------------------------------------------
(* The theorems.                                                           *)

\* The rows, the copies that processes hold of them and the locals keep their types.
THEOREM TypeCorrect == Spec => []TypeOK
<1>1. Sound => TypeOK
  BY DEF Sound
<1>2. QED
  BY <1>1, SoundAlways, PTL

\* Whatever runs at once and however old the rows that updates write back, a job
\* in processing has a lease and a failed job has spent its budget.
THEOREM JobsStaySound == Spec => []JobsSound
<1>1. Sound => JobsSound
  <2> SUFFICES ASSUME Sound, NEW j \in Jobs PROVE RowSound(job[j])
    BY DEF JobsSound
  <2>1. CASE job[j].status = "absent"
    BY <2>1 DEF RowSound
  <2>2. CASE job[j].status # "absent"
    BY <2>2 DEF Sound, AllFit, Fit, JobFit, RowFit
  <2>3. QED
    BY <2>1, <2>2
<1>2. QED
  BY <1>1, SoundAlways, PTL

\* A job that is completed has the artifacts of a run, though a priority change
\* writes back an old row and two workers may run one job.
THEOREM CompletedJobsHaveVerdict == Spec => []CompletedHasVerdict
<1>1. Sound => CompletedHasVerdict
  BY DEF Sound, AllFit, Fit, JobFit, RowFit, CompletedHasVerdict
<1>2. QED
  BY <1>1, SoundAlways, PTL

\* The cleanup never removes a failed job: each has an event that refers to it.
THEOREM FailedJobsStay == Spec => FailedJobsKept
<1>1. Sound /\ [Next]_vars => [\A j \in Jobs : job[j].status = "failed" => job'[j].status # "absent"]_vars
  BY JobStep DEF Kept, Later
<1>2. QED
  BY <1>1, SoundAlways, PTL DEF Spec, FailedJobsKept

-----------------------------------------------------------------------------
(* One job for an item, as long as requests to queue do not overlap.       *)

\* A request that has read its items holds only drafts until it has marked them;
\* when it inserts, its items are marked and have no job yet.
RequestFit(l, it, jb) ==
    /\ l.pc \in {"check", "plan", "items"} => \A i \in l.todo : PlanOf[i] = l.on /\ it[i] = "draft"
    /\ l.pc = "insert" =>
        \A i \in l.todo : it[i] = "queued" /\ \A j \in Jobs : jb[j].status # "absent" => jb[j].item # i

\* One request at a time, and no two jobs of an item.
QueueFit(rq, it, jb) ==
    /\ \A g, h \in Requests : rq[g].pc # "idle" /\ rq[h].pc # "idle" => g = h
    /\ \A h \in Requests : RequestFit(rq[h], it, jb)
    /\ \A j \in Jobs : jb[j].status # "absent" => jb[j].item \in Items /\ it[jb[j].item] = "queued"
    /\ \A j, k \in Jobs :
        jb[j].status # "absent" /\ jb[k].status # "absent" /\ jb[j].item = jb[k].item => j = k

OneAtATime == ~overlapped => QueueFit(request, item, job)

\* Jobs of which none is added, lost or given another item.
SameJobs(jb, jb2) ==
    \A j \in Jobs :
        /\ jb2[j].status = "absent" <=> jb[j].status = "absent"
        /\ jb[j].status # "absent" => jb2[j].item = jb[j].item

LEMMA QueueJobs ==
    ASSUME NEW rq, NEW it, NEW jb, NEW jb2, QueueFit(rq, it, jb), SameJobs(jb, jb2)
    PROVE  QueueFit(rq, it, jb2)
<1>1. ASSUME NEW h \in Requests PROVE RequestFit(rq[h], it, jb2)
  BY DEF QueueFit, RequestFit, SameJobs
<1>2. QED
  BY <1>1 DEF QueueFit, SameJobs

\* A request moves on, or another takes its place.
LEMMA QueueMove ==
    ASSUME NEW rq \in [Requests -> RequestLocals], NEW it, NEW jb, QueueFit(rq, it, jb),
           NEW h \in Requests, NEW l, RequestFit(l, it, jb),
           \/ l.pc = "idle"
           \/ rq[h].pc # "idle"
           \/ \A g \in Requests : rq[g].pc = "idle"
    PROVE  QueueFit([rq EXCEPT ![h] = l], it, jb)
<1> DEFINE rq2 == [rq EXCEPT ![h] = l]
<1>1. rq2[h] = l /\ \A g \in Requests : g # h => rq2[g] = rq[g]
  OBVIOUS
<1> HIDE DEF rq2
<1>2. \A g, k \in Requests : rq2[g].pc # "idle" /\ rq2[k].pc # "idle" => g = k
  BY <1>1 DEF QueueFit
<1>3. \A g \in Requests : RequestFit(rq2[g], it, jb)
  BY <1>1 DEF QueueFit
<1>4. QueueFit(rq2, it, jb)
  BY <1>2, <1>3 DEF QueueFit
<1>5. QED
  BY <1>4 DEF rq2

\* The insertion of a job.
LEMMA QueueInsert ==
    ASSUME Sound, QueueFit(request, item, job),
           NEW h \in Requests, NEW i \in Items, NEW j \in Jobs, InsertJob(h, i, j)
    PROVE  QueueFit(request', item', job')
<1> DEFINE r == [NoJob EXCEPT !.status = "queued", !.item = i]
           pc == IF request[h].todo = {i} THEN "usage" ELSE "insert"
           l == [request[h] EXCEPT !.todo = request[h].todo \ {i},
                                   !.made = request[h].made \cup {j}, !.pc = pc]
<1>1. r.status = "queued" /\ r.item = i
  BY DEF NoJob
<1>2. job \in [Jobs -> Job] /\ request \in [Requests -> RequestLocals]
  BY DEF Sound, TypeOK
<1>3. request' = [request EXCEPT ![h] = l] /\ request[h] \in RequestLocals
  BY <1>2 DEF InsertJob
<1>4. l.todo = request[h].todo \ {i} /\ l.pc \in {"usage", "insert"}
  BY <1>3 DEF RequestLocals
<1> HIDE DEF r, l
<1>5. job'[j] = r /\ \A k \in Jobs : k # j => job'[k] = job[k]
  BY <1>2 DEF InsertJob, r
<1>6. request'[h] = l /\ \A g \in Requests : g # h => request'[g] = request[g]
  BY <1>2, <1>3
<1>7. request[h].pc = "insert" /\ i \in request[h].todo /\ item' = item /\ job[j].status = "absent"
  BY DEF InsertJob, At
<1>8. /\ \A k \in request[h].todo : item[k] = "queued"
      /\ \A k \in request[h].todo, o \in Jobs : job[o].status # "absent" => job[o].item # k
  BY <1>7 DEF QueueFit, RequestFit
<1>9. RequestFit(l, item, job')
  BY <1>1, <1>4, <1>5, <1>8 DEF RequestFit
<1>10. ASSUME NEW g \in Requests, g # h PROVE request'[g].pc = "idle"
  BY <1>6, <1>7, <1>10 DEF QueueFit
<1>11. \A g \in Requests : RequestFit(request'[g], item', job')
  BY <1>6, <1>7, <1>9, <1>10 DEF RequestFit
<1>12. \A g, k \in Requests : request'[g].pc # "idle" /\ request'[k].pc # "idle" => g = k
  BY <1>10
<1>13. \A o \in Jobs : job'[o].status # "absent" => job'[o].item \in Items /\ item'[job'[o].item] = "queued"
  BY <1>1, <1>5, <1>7, <1>8 DEF QueueFit
<1>14. \A o, k \in Jobs :
          job'[o].status # "absent" /\ job'[k].status # "absent" /\ job'[o].item = job'[k].item => o = k
  BY <1>1, <1>5, <1>7, <1>8 DEF QueueFit
<1>15. QED
  BY <1>11, <1>12, <1>13, <1>14 DEF QueueFit

\* The items of the plan are marked: those of the request, and it is the only one.
LEMMA QueueMark ==
    ASSUME Sound, QueueFit(request, item, job), NEW h \in Requests, MarkItems(h)
    PROVE  QueueFit(request', item', job')
<1> DEFINE l == [request[h] EXCEPT !.pc = "insert"]
<1>1. /\ request \in [Requests -> RequestLocals] /\ request[h] \in RequestLocals
      /\ item \in [Items -> {"draft", "queued"}]
  BY DEF Sound, TypeOK
<1>2. request' = [request EXCEPT ![h] = l] /\ l.pc = "insert" /\ l.todo = request[h].todo
  BY <1>1 DEF MarkItems, Proceed, RequestLocals
<1> HIDE DEF l
<1>3. request'[h] = l /\ \A g \in Requests : g # h => request'[g] = request[g]
  BY <1>1, <1>2
<1>4. /\ request[h].pc = "items" /\ job' = job
      /\ item' = [i \in Items |-> IF i \in DraftItems(request[h].on) THEN "queued" ELSE item[i]]
  BY DEF MarkItems, At
<1>5. \A i \in Items : item'[i] = IF i \in DraftItems(request[h].on) THEN "queued" ELSE item[i]
  BY <1>4
<1>6. \A i \in request[h].todo : i \in Items /\ PlanOf[i] = request[h].on /\ item[i] = "draft"
  BY <1>1, <1>4 DEF QueueFit, RequestFit, RequestLocals
<1>7. \A j \in Jobs : job[j].status # "absent" => job[j].item \in Items /\ item[job[j].item] = "queued"
  BY DEF QueueFit
<1>8. RequestFit(l, item', job')
  <2>1. \A i \in l.todo : item'[i] = "queued"
    BY <1>2, <1>5, <1>6 DEF DraftItems
  <2>2. \A i \in l.todo : \A j \in Jobs : job[j].status # "absent" => job[j].item # i
    BY <1>2, <1>6, <1>7
  <2>3. QED
    BY <1>2, <1>4, <2>1, <2>2 DEF RequestFit
<1>9. ASSUME NEW g \in Requests, g # h PROVE request'[g].pc = "idle"
  BY <1>3, <1>4, <1>9 DEF QueueFit
<1>10. \A g \in Requests : RequestFit(request'[g], item', job')
  BY <1>3, <1>8, <1>9 DEF RequestFit
<1>11. \A j \in Jobs : job'[j].status # "absent" => job'[j].item \in Items /\ item'[job'[j].item] = "queued"
  BY <1>4, <1>5, <1>7
<1>12. QED
  BY <1>4, <1>9, <1>10, <1>11 DEF QueueFit

LEMMA OneAtATimeStep == Sound /\ OneAtATime /\ [Next]_vars => OneAtATime'
<1> SUFFICES ASSUME Sound, OneAtATime, [Next]_vars, ~overlapped' PROVE QueueFit(request', item', job')
  BY DEF OneAtATime
<1>o. ~overlapped
  <2>1. overlapped \in BOOLEAN
    BY DEF Sound, TypeOK
  <2>2. ASSUME NEW w \in Workers, WorkerStep(w) PROVE overlapped' = overlapped
    BY <2>2 DEF WorkerStep, Begin, Load, Execute, Complete, Record, RunFails, UploadFailureCards,
       Requeue, Fail, Remember, queueVars
  <2>3. ASSUME NEW h \in Requests, RequestStep(h) PROVE overlapped' = overlapped
    BY <2>3 DEF RequestStep, Check, MarkPlan, MarkItems, InsertJob, ReadUsage, Charge
  <2>4. overlapped' = overlapped \/ overlapped' = TRUE
    BY <2>2, <2>3 DEF Next, ApproveExperimentPlan, QueueExperimentPlan, CrashRequest,
       UpdateExperimentJobControl, RetryAdminJob, StartControl, ApplyControl, Claim, Read, Crash,
       LeaseExpires, Overrun, RecoverStaleProcessingJobs, CleanupStaleFailedJobs, vars, queueVars
  <2>5. QED
    BY <2>1, <2>4
<1>q. QueueFit(request, item, job) /\ request \in [Requests -> RequestLocals]
  BY <1>o DEF OneAtATime, Sound, TypeOK
<1>s. NoneNew => SameJobs(job, job')
  BY JobStep DEF Kept, Later, NoneNew, NothingAdded, SameJobs
<1>1. ASSUME UNCHANGED <<request, item>>, NoneNew PROVE QueueFit(request', item', job')
  BY <1>1, <1>q, <1>s, QueueJobs
<1>2. ASSUME NEW h \in Requests, request' = [request EXCEPT ![h] = NoRequest], UNCHANGED <<item, job>>
      PROVE  QueueFit(request', item', job')
  <2>1. RequestFit(NoRequest, item, job) /\ NoRequest.pc = "idle"
    BY DEF NoRequest, RequestFit
  <2>2. QED
    BY <1>2, <1>q, <2>1, QueueMove
<1>3. ASSUME NEW h \in Requests, NEW pc \in {"plan", "items"}, Proceed(h, pc),
             request[h].pc \in {"check", "plan"}, UNCHANGED <<item, job>>
      PROVE  QueueFit(request', item', job')
  <2> DEFINE l == [request[h] EXCEPT !.pc = pc]
  <2>1. request' = [request EXCEPT ![h] = l]
    BY <1>q, <1>3 DEF Proceed
  <2>2. l.pc = pc /\ l.todo = request[h].todo /\ l.on = request[h].on /\ request[h].pc # "idle"
    BY <1>q, <1>3 DEF RequestLocals
  <2> HIDE DEF l
  <2>3. RequestFit(request[h], item, job)
    BY <1>q DEF QueueFit
  <2>4. RequestFit(l, item, job)
    BY <1>3, <2>2, <2>3 DEF RequestFit
  <2>5. QED
    BY <1>3, <1>q, <2>1, <2>2, <2>4, QueueMove
<1>4. ASSUME NEW h \in Requests, NEW p \in Plans, QueueExperimentPlan(h, p)
      PROVE  QueueFit(request', item', job')
  <2> DEFINE l == [NoRequest EXCEPT !.pc = "check", !.on = p, !.todo = DraftItems(p)]
  <2>1. request' = [request EXCEPT ![h] = l] /\ UNCHANGED <<item, job>>
    BY <1>4 DEF QueueExperimentPlan
  <2>2. \A g \in Requests : request[g].pc = "idle"
    BY <1>4, <1>o DEF QueueExperimentPlan, At
  <2>3. l.pc = "check" /\ l.on = p /\ l.todo = DraftItems(p)
    BY DEF NoRequest
  <2> HIDE DEF l
  <2>4. RequestFit(l, item, job)
    BY <2>3 DEF RequestFit, DraftItems
  <2>5. QED
    BY <1>q, <2>1, <2>2, <2>4, QueueMove
<1>5. ASSUME NEW h \in Requests, ReadUsage(h) PROVE QueueFit(request', item', job')
  <2> DEFINE l == [request[h] EXCEPT !.pc = "charge", !.used = units]
  <2>1. request' = [request EXCEPT ![h] = l] /\ UNCHANGED <<item, job>> /\ request[h].pc # "idle"
    BY <1>q, <1>5 DEF ReadUsage, At
  <2>2. l.pc = "charge"
    BY <1>q DEF RequestLocals
  <2> HIDE DEF l
  <2>3. RequestFit(l, item, job)
    BY <2>2 DEF RequestFit
  <2>4. QED
    BY <1>q, <2>1, <2>3, QueueMove
<1>6. ASSUME NEW h \in Requests, RequestStep(h) PROVE QueueFit(request', item', job')
  <2>1. CASE Check(h)
    BY <1>2, <1>3, <2>1 DEF Check, At
  <2>2. CASE MarkPlan(h)
    BY <1>3, <2>2 DEF MarkPlan, At
  <2>3. CASE MarkItems(h)
    BY <1>q, <2>3, QueueMark
  <2>4. CASE \E i \in Items, j \in Jobs : InsertJob(h, i, j)
    BY <1>q, <2>4, QueueInsert
  <2>5. CASE ReadUsage(h)
    BY <1>5, <2>5
  <2>6. CASE Charge(h)
    BY <1>2, <2>6 DEF Charge
  <2>7. QED
    BY <1>6, <2>1, <2>2, <2>3, <2>4, <2>5, <2>6 DEF RequestStep
<1>7. ASSUME NEW h \in Requests, CrashRequest(h) PROVE QueueFit(request', item', job')
  BY <1>2, <1>7 DEF CrashRequest
<1>8. CASE NoneNew
  <2>1. ASSUME NEW w \in Workers, WorkerStep(w) PROVE UNCHANGED <<request, item>>
    BY <2>1 DEF WorkerStep, Begin, Load, Execute, Complete, Record, RunFails, UploadFailureCards,
       Requeue, Fail, Remember, queueVars
  <2>2. \/ UNCHANGED <<request, item>>
        \/ \E h \in Requests, p \in Plans : QueueExperimentPlan(h, p)
        \/ \E h \in Requests : RequestStep(h) \/ CrashRequest(h)
    BY <2>1
       DEF Next, ApproveExperimentPlan, UpdateExperimentJobControl, RetryAdminJob, StartControl,
       ApplyControl, Claim, Read, Crash, LeaseExpires, Overrun, RecoverStaleProcessingJobs,
       CleanupStaleFailedJobs, vars, queueVars
  <2>3. QED
    BY <1>1, <1>4, <1>6, <1>7, <1>8, <2>2
<1>9. CASE Inserts
  BY <1>6, <1>9 DEF Inserts, RequestStep
<1>10. QED
  BY <1>8, <1>9, JobStep

LEMMA OneAtATimeAlways == Spec => []OneAtATime
<1>1. Init => OneAtATime
  BY DEF Init, OneAtATime, QueueFit, RequestFit, NoRequest, NoJob
<1>2. QED
  BY <1>1, OneAtATimeStep, SoundAlways, PTL DEF Spec

\* A plan may be approved again and a request may die anywhere: an item gets a
\* second job only if two requests to queue overlap.
THEOREM OneJobForAnItem == Spec => []OneJobPerItem
<1>1. OneAtATime => OneJobPerItem
  BY DEF OneAtATime, QueueFit, OneJobPerItem, Created
<1>2. QED
  BY <1>1, OneAtATimeAlways, PTL
-----------------------------------------------------------------------------
(* The items that are marked and the compute that is charged, as long as no *)
(* request dies or overlaps.                                               *)

CreatedIn(jb) == {j \in Jobs : jb[j].status # "absent"}

Reading == {"check", "plan", "items"}

\* What a request that runs alone has read is what there is, and what it has made is
\* what it will charge.
ChargeFit(l, it, jb, un) ==
    /\ l.pc \in Reading => l.made = {} /\ l.todo = {i \in Items : PlanOf[i] = l.on /\ it[i] = "draft"}
    /\ l.pc \in {"usage", "charge"} => l.todo = {}
    /\ l.pc = "charge" => l.used = un
    /\ l.pc # "idle" => l.made \subseteq CreatedIn(jb)
                        /\ un + Cardinality(l.made) = Cardinality(CreatedIn(jb))

\* Every item that is marked has its job, or is about to get it from the request.
AccountFit(rq, it, jb, un) ==
    /\ \A h \in Requests : ChargeFit(rq[h], it, jb, un)
    /\ (\A h \in Requests : rq[h].pc = "idle") => un = Cardinality(CreatedIn(jb))
    /\ \A i \in Items : it[i] = "queued" =>
          \/ \E j \in CreatedIn(jb) : jb[j].item = i
          \/ \E h \in Requests : rq[h].pc = "insert" /\ i \in rq[h].todo

Accounts == faults = 0 => ~overlapped /\ AccountFit(request, item, job, units)

\* The jobs that exist are finitely many.
LEMMA CreatedCounted ==
    ASSUME NEW jb, NEW S \in SUBSET CreatedIn(jb)
    PROVE  IsFiniteSet(S) /\ Cardinality(S) \in Nat
<1>1. S \subseteq Jobs
  BY DEF CreatedIn
<1>2. QED
  BY <1>1, JobsAssumption, FS_Subset, FS_CardinalityType

LEMMA SameCreated ==
    ASSUME NEW jb, NEW jb2, SameJobs(jb, jb2)
    PROVE  CreatedIn(jb2) = CreatedIn(jb) /\ \A j \in CreatedIn(jb) : jb2[j].item = jb[j].item
BY DEF SameJobs, CreatedIn

\* No job is added, lost or given another item.
LEMMA AccountJobs ==
    ASSUME NEW rq, NEW it, NEW jb, NEW jb2, NEW un, AccountFit(rq, it, jb, un), SameJobs(jb, jb2)
    PROVE  AccountFit(rq, it, jb2, un)
BY SameCreated DEF AccountFit, ChargeFit

\* A request that holds no item without a job moves on.
LEMMA AccountMove ==
    ASSUME NEW rq \in [Requests -> RequestLocals], NEW it, NEW jb, NEW un, AccountFit(rq, it, jb, un),
           NEW h \in Requests, rq[h].pc # "insert", NEW l, ChargeFit(l, it, jb, un),
           l.pc = "idle" => un = Cardinality(CreatedIn(jb))
    PROVE  AccountFit([rq EXCEPT ![h] = l], it, jb, un)
<1> DEFINE rq2 == [rq EXCEPT ![h] = l]
<1>1. rq2[h] = l /\ \A g \in Requests : g # h => rq2[g] = rq[g]
  OBVIOUS
<1> HIDE DEF rq2
<1>2. \A g \in Requests : ChargeFit(rq2[g], it, jb, un)
  BY <1>1 DEF AccountFit
<1>3. (\A g \in Requests : rq2[g].pc = "idle") => un = Cardinality(CreatedIn(jb))
  BY <1>1
<1>4. ASSUME NEW i \in Items, it[i] = "queued"
      PROVE  \/ \E j \in CreatedIn(jb) : jb[j].item = i
             \/ \E g \in Requests : rq2[g].pc = "insert" /\ i \in rq2[g].todo
  BY <1>1, <1>4 DEF AccountFit
<1>5. AccountFit(rq2, it, jb, un)
  BY <1>2, <1>3, <1>4 DEF AccountFit
<1>6. QED
  BY <1>5 DEF rq2

\* An item gets its job, and the request one more to charge.
LEMMA AccountInsert ==
    ASSUME Sound, QueueFit(request, item, job), AccountFit(request, item, job, units),
           NEW h \in Requests, NEW i \in Items, NEW j \in Jobs, InsertJob(h, i, j)
    PROVE  AccountFit(request', item', job', units')
<1> DEFINE r == [NoJob EXCEPT !.status = "queued", !.item = i]
           pc == IF request[h].todo = {i} THEN "usage" ELSE "insert"
           l == [request[h] EXCEPT !.todo = request[h].todo \ {i},
                                   !.made = request[h].made \cup {j}, !.pc = pc]
<1>1. r.status = "queued" /\ r.item = i
  BY DEF NoJob
<1>2. job \in [Jobs -> Job] /\ request \in [Requests -> RequestLocals] /\ units \in Nat
  BY DEF Sound, TypeOK
<1>3. request' = [request EXCEPT ![h] = l] /\ request[h] \in RequestLocals
  BY <1>2 DEF InsertJob
<1>4. l.todo = request[h].todo \ {i} /\ l.made = request[h].made \cup {j} /\ l.pc = pc
  BY <1>3 DEF RequestLocals
<1>5. job' = [job EXCEPT ![j] = r]
  BY DEF InsertJob
<1> HIDE DEF r, l
<1>6. job'[j] = r /\ \A k \in Jobs : k # j => job'[k] = job[k]
  BY <1>2, <1>5
<1>7. request'[h] = l /\ \A g \in Requests : g # h => request'[g] = request[g]
  BY <1>2, <1>3
<1>8. /\ request[h].pc = "insert" /\ job[j].status = "absent"
      /\ item' = item /\ units' = units
  BY DEF InsertJob, At
<1>9. \A g \in Requests : g # h => request[g].pc = "idle"
  BY <1>8 DEF QueueFit
<1>10. CreatedIn(job') = CreatedIn(job) \cup {j} /\ j \notin CreatedIn(job)
  BY <1>1, <1>6, <1>8 DEF CreatedIn
<1>11. request[h].made \subseteq CreatedIn(job)
       /\ units + Cardinality(request[h].made) = Cardinality(CreatedIn(job))
  BY <1>8 DEF AccountFit, ChargeFit
<1>12. units + Cardinality(l.made) = Cardinality(CreatedIn(job'))
  <2>1. IsFiniteSet(request[h].made) /\ IsFiniteSet(CreatedIn(job))
    BY <1>11, CreatedCounted
  <2>2. Cardinality(request[h].made) \in Nat /\ Cardinality(CreatedIn(job)) \in Nat
    BY <1>11, CreatedCounted
  <2>3. Cardinality(l.made) = Cardinality(request[h].made) + 1
    BY <1>4, <1>10, <1>11, <2>1, FS_AddElement
  <2>4. Cardinality(CreatedIn(job')) = Cardinality(CreatedIn(job)) + 1
    BY <1>10, <2>1, FS_AddElement
  <2>5. QED
    BY <1>2, <1>11, <2>2, <2>3, <2>4
<1>13. ChargeFit(l, item, job', units)
  <2>1. l.made \subseteq CreatedIn(job')
    BY <1>4, <1>10, <1>11
  <2>2. l.pc = "usage" => l.todo = {}
    BY <1>4
  <2>3. l.pc \in {"usage", "insert"}
    BY <1>4
  <2>4. QED
    BY <1>12, <2>1, <2>2, <2>3 DEF ChargeFit, Reading
<1>14. \A g \in Requests : ChargeFit(request'[g], item', job', units')
  <2>1. ASSUME NEW g \in Requests, g # h PROVE request'[g].pc = "idle"
    BY <1>7, <1>9, <2>1
  <2>2. QED
    BY <1>7, <1>8, <1>13, <2>1 DEF ChargeFit, Reading
<1>15. l.pc # "idle"
  BY <1>4
<1>16. ASSUME NEW k \in Items, item'[k] = "queued"
       PROVE  \/ \E o \in CreatedIn(job') : job'[o].item = k
              \/ \E g \in Requests : request'[g].pc = "insert" /\ k \in request'[g].todo
  <2>1. CASE k = i
    BY <1>1, <1>6, <1>10, <2>1
  <2>2. CASE \E o \in CreatedIn(job) : job[o].item = k
    <3>1. PICK o \in CreatedIn(job) : job[o].item = k
      BY <2>2
    <3>2. job'[o] = job[o] /\ o \in CreatedIn(job')
      BY <1>6, <1>10 DEF CreatedIn
    <3>3. QED
      BY <3>1, <3>2
  <2>3. CASE k # i /\ \E g \in Requests : request[g].pc = "insert" /\ k \in request[g].todo
    <3>1. k \in request[h].todo
      BY <1>9, <2>3
    <3>2. k \in l.todo /\ l.pc = "insert"
      BY <1>4, <2>3, <3>1
    <3>3. QED
      BY <1>7, <3>2
  <2>4. QED
    BY <1>8, <1>16, <2>1, <2>2, <2>3 DEF AccountFit
<1>17. QED
  BY <1>7, <1>14, <1>15, <1>16 DEF AccountFit

\* The items that are marked are those that the request has read.
LEMMA AccountMark ==
    ASSUME Sound, QueueFit(request, item, job), AccountFit(request, item, job, units),
           NEW h \in Requests, MarkItems(h)
    PROVE  AccountFit(request', item', job', units')
<1> DEFINE l == [request[h] EXCEPT !.pc = "insert"]
<1>1. /\ request \in [Requests -> RequestLocals] /\ request[h] \in RequestLocals
      /\ item \in [Items -> {"draft", "queued"}]
  BY DEF Sound, TypeOK
<1>2. /\ request' = [request EXCEPT ![h] = l] /\ l.pc = "insert"
      /\ l.todo = request[h].todo /\ l.made = request[h].made
  BY <1>1 DEF MarkItems, Proceed, RequestLocals
<1> HIDE DEF l
<1>3. request'[h] = l /\ \A g \in Requests : g # h => request'[g] = request[g]
  BY <1>1, <1>2
<1>4. /\ request[h].pc = "items" /\ job' = job /\ units' = units
      /\ \A i \in Items : item'[i] = IF i \in DraftItems(request[h].on) THEN "queued" ELSE item[i]
  BY DEF MarkItems, At
<1>5. request[h].todo = DraftItems(request[h].on)
  BY <1>4 DEF AccountFit, ChargeFit, Reading, DraftItems
<1>6. \A g \in Requests : g # h => request'[g].pc = "idle"
  BY <1>3, <1>4 DEF QueueFit
<1>7. \A g \in Requests : ChargeFit(request'[g], item', job', units')
  <2>1. ChargeFit(request[h], item, job, units)
    BY DEF AccountFit
  <2>2. ChargeFit(l, item', job', units')
    BY <1>2, <1>4, <2>1 DEF ChargeFit, Reading
  <2>3. QED
    BY <1>3, <1>6, <2>2 DEF ChargeFit, Reading
<1>8. ASSUME NEW k \in Items, item'[k] = "queued"
      PROVE  \/ \E o \in CreatedIn(job') : job'[o].item = k
             \/ \E g \in Requests : request'[g].pc = "insert" /\ k \in request'[g].todo
  <2>1. CASE k \in DraftItems(request[h].on)
    BY <1>2, <1>3, <1>5, <2>1
  <2>2. CASE k \notin DraftItems(request[h].on)
    <3>1. item[k] = "queued"
      BY <1>4, <1>8, <2>2
    <3>2. ~ \E g \in Requests : request[g].pc = "insert"
      BY <1>4 DEF QueueFit
    <3>3. QED
      BY <1>4, <3>1, <3>2 DEF AccountFit
  <2>3. QED
    BY <2>1, <2>2
<1>9. QED
  BY <1>2, <1>3, <1>7, <1>8 DEF AccountFit

\* A fault is counted, and so is a request that overlaps another.
LEMMA FaultsCounted ==
    Sound /\ [Next]_vars /\ faults' = 0
    => /\ faults = 0 /\ overlapped' = overlapped
       /\ UNCHANGED <<request, item, units>>
          \/ (\E h \in Requests, p \in Plans : QueueExperimentPlan(h, p))
          \/ (\E h \in Requests : RequestStep(h))
<1> SUFFICES ASSUME Sound, [Next]_vars, faults' = 0
             PROVE  /\ faults = 0 /\ overlapped' = overlapped
                    /\ UNCHANGED <<request, item, units>>
                       \/ (\E h \in Requests, p \in Plans : QueueExperimentPlan(h, p))
                       \/ (\E h \in Requests : RequestStep(h))
  OBVIOUS
<1>1. faults \in Nat
  BY FaultsAssumption DEF Sound, TypeOK
<1>2. ASSUME NEW w \in Workers, WorkerStep(w)
      PROVE  UNCHANGED <<request, item, units, overlapped, faults>>
  BY <1>2 DEF WorkerStep, Begin, Load, Execute, Complete, Record, RunFails, UploadFailureCards,
     Requeue, Fail, Remember, queueVars
<1>3. ASSUME NEW h \in Requests, RequestStep(h) PROVE UNCHANGED <<overlapped, faults>>
  BY <1>3 DEF RequestStep, Check, MarkPlan, MarkItems, InsertJob, ReadUsage, Charge
<1>4. ASSUME NEW h \in Requests, NEW p \in Plans, QueueExperimentPlan(h, p)
      PROVE  UNCHANGED <<overlapped, faults>> \/ faults' = faults + 1
  BY <1>4 DEF QueueExperimentPlan
<1>5. ASSUME NEW h \in Requests, CrashRequest(h) PROVE faults' = faults + 1
  BY <1>5 DEF CrashRequest
<1>6. \/ \E w \in Workers : WorkerStep(w)
      \/ \E h \in Requests : RequestStep(h)
      \/ \E h \in Requests, p \in Plans : QueueExperimentPlan(h, p)
      \/ \E h \in Requests : CrashRequest(h)
      \/ UNCHANGED <<request, item, units, overlapped>> /\ (faults' = faults \/ faults' = faults + 1)
  BY DEF Next, ApproveExperimentPlan, UpdateExperimentJobControl, RetryAdminJob, StartControl,
     ApplyControl, Claim, Read, Crash, LeaseExpires, Overrun, RecoverStaleProcessingJobs,
     CleanupStaleFailedJobs, vars, queueVars
<1>7. QED
  BY <1>1, <1>2, <1>3, <1>4, <1>5, <1>6

\* Every step of an undisturbed account keeps it in balance.
LEMMA AccountsStep == Sound /\ OneAtATime /\ Accounts /\ [Next]_vars => Accounts'
<1> SUFFICES ASSUME Sound, OneAtATime, Accounts, [Next]_vars, faults' = 0 PROVE Accounts'
  BY DEF Accounts
<1>f. faults = 0 /\ ~overlapped /\ ~overlapped'
  BY FaultsCounted DEF Accounts
<1>q. /\ QueueFit(request, item, job) /\ AccountFit(request, item, job, units)
      /\ request \in [Requests -> RequestLocals] /\ units \in Nat
  BY <1>f DEF OneAtATime, Accounts, Sound, TypeOK
<1> SUFFICES AccountFit(request', item', job', units')
  BY <1>f DEF Accounts
<1>s. NoneNew => SameJobs(job, job')
  BY JobStep DEF Kept, Later, NoneNew, NothingAdded, SameJobs
<1>1. CASE UNCHANGED <<request, item, units>> /\ NoneNew
  BY <1>1, <1>q, <1>s, AccountJobs
<1>2. ASSUME NEW h \in Requests, NEW pc \in {"plan", "items"}, Proceed(h, pc),
             request[h].pc \in {"check", "plan"}, UNCHANGED <<item, job, units>>
      PROVE  AccountFit(request', item', job', units')
  <2> DEFINE l == [request[h] EXCEPT !.pc = pc]
  <2>1. request' = [request EXCEPT ![h] = l]
    BY <1>q, <1>2 DEF Proceed
  <2>2. /\ l.pc = pc /\ l.todo = request[h].todo /\ l.on = request[h].on
        /\ l.made = request[h].made
    BY <1>q, <1>2 DEF RequestLocals
  <2> HIDE DEF l
  <2>3. ChargeFit(request[h], item, job, units)
    BY <1>q DEF AccountFit
  <2>4. ChargeFit(l, item, job, units) /\ l.pc # "idle"
    BY <1>2, <2>2, <2>3 DEF ChargeFit, Reading
  <2>5. QED
    BY <1>2, <1>q, <2>1, <2>4, AccountMove
<1>3. ASSUME NEW h \in Requests, Check(h) PROVE AccountFit(request', item', job', units')
  <2>1. CASE Proceed(h, "plan")
    BY <1>2, <1>3, <2>1 DEF Check, At
  <2>2. CASE request' = [request EXCEPT ![h] = NoRequest]
    <3>1. request[h].pc = "check" /\ request[h].made = {} /\ UNCHANGED <<item, job, units>>
      BY <1>3, <1>q DEF Check, At, AccountFit, ChargeFit, Reading
    <3>2. units = Cardinality(CreatedIn(job))
      <4>1. units + Cardinality({}) = Cardinality(CreatedIn(job))
        BY <1>q, <3>1 DEF AccountFit, ChargeFit
      <4>2. QED
        BY <1>q, <4>1, FS_EmptySet
    <3>3. ChargeFit(NoRequest, item, job, units)
      BY DEF NoRequest, ChargeFit, Reading
    <3>4. QED
      BY <1>q, <2>2, <3>1, <3>2, <3>3, AccountMove
  <2>3. QED
    BY <1>3, <2>1, <2>2 DEF Check
<1>4. ASSUME NEW h \in Requests, NEW p \in Plans, QueueExperimentPlan(h, p)
      PROVE  AccountFit(request', item', job', units')
  <2> DEFINE l == [NoRequest EXCEPT !.pc = "check", !.on = p, !.todo = DraftItems(p)]
  <2>1. request' = [request EXCEPT ![h] = l] /\ UNCHANGED <<item, job, units>>
    BY <1>4 DEF QueueExperimentPlan
  <2>2. \A g \in Requests : request[g].pc = "idle"
    BY <1>4, <1>f DEF QueueExperimentPlan, At
  <2>3. l.pc = "check" /\ l.on = p /\ l.todo = DraftItems(p) /\ l.made = {}
    BY DEF NoRequest
  <2> HIDE DEF l
  <2>4. units + Cardinality({}) = Cardinality(CreatedIn(job))
    BY <1>q, <2>2, FS_EmptySet DEF AccountFit
  <2>5. ChargeFit(l, item, job, units)
    BY <2>3, <2>4 DEF ChargeFit, Reading, DraftItems
  <2>6. QED
    BY <1>q, <2>1, <2>2, <2>3, <2>5, AccountMove
<1>5. ASSUME NEW h \in Requests, ReadUsage(h) PROVE AccountFit(request', item', job', units')
  <2> DEFINE l == [request[h] EXCEPT !.pc = "charge", !.used = units]
  <2>1. /\ request' = [request EXCEPT ![h] = l] /\ UNCHANGED <<item, job, units>>
        /\ request[h].pc = "usage"
    BY <1>q, <1>5 DEF ReadUsage, At
  <2>2. l.pc = "charge" /\ l.used = units /\ l.todo = request[h].todo /\ l.made = request[h].made
    BY <1>q DEF RequestLocals
  <2> HIDE DEF l
  <2>3. ChargeFit(request[h], item, job, units)
    BY <1>q DEF AccountFit
  <2>4. ChargeFit(l, item, job, units)
    BY <2>1, <2>2, <2>3 DEF ChargeFit, Reading
  <2>5. QED
    BY <1>q, <2>1, <2>2, <2>4, AccountMove
<1>6. ASSUME NEW h \in Requests, Charge(h) PROVE AccountFit(request', item', job', units')
  <2>1. /\ request[h].pc = "charge" /\ request' = [request EXCEPT ![h] = NoRequest]
        /\ units' = request[h].used + Cardinality(request[h].made) /\ UNCHANGED <<item, job>>
    BY <1>6 DEF Charge, At
  <2>2. units' = Cardinality(CreatedIn(job))
    BY <1>q, <2>1 DEF AccountFit, ChargeFit
  <2>3. \A g \in Requests : request'[g].pc = "idle"
    BY <1>q, <2>1 DEF QueueFit, NoRequest
  <2>4. \A g \in Requests : request[g].pc # "insert"
    BY <1>q, <2>1 DEF QueueFit
  <2>5. \A g \in Requests : ChargeFit(request'[g], item', job', units')
    BY <2>3 DEF ChargeFit, Reading
  <2>6. QED
    BY <1>q, <2>1, <2>2, <2>4, <2>5 DEF AccountFit
<1>7. ASSUME NEW h \in Requests, RequestStep(h) PROVE AccountFit(request', item', job', units')
  <2>1. CASE MarkPlan(h)
    BY <1>2, <2>1 DEF MarkPlan, At
  <2>2. CASE MarkItems(h)
    BY <1>q, <2>2, AccountMark
  <2>3. CASE \E i \in Items, j \in Jobs : InsertJob(h, i, j)
    BY <1>q, <2>3, AccountInsert
  <2>4. QED
    BY <1>3, <1>5, <1>6, <1>7, <2>1, <2>2, <2>3 DEF RequestStep
<1>8. CASE Inserts
  BY <1>7, <1>8 DEF Inserts, RequestStep
<1>9. QED
  BY <1>1, <1>4, <1>7, <1>8, JobStep, FaultsCounted

\* As long as nothing dies or overlaps, the items marked as queued have their job, and
\* the usage of the account counts each job once, whatever the workers do meanwhile.
THEOREM QueuedWorkBalances == Spec => []QueuedWorkAccounted
<1>1. Init => Accounts
  <2> SUFFICES ASSUME Init PROVE AccountFit(request, item, job, units) /\ ~overlapped
    BY DEF Accounts
  <2>1. /\ \A h \in Requests : request[h].pc = "idle"
        /\ \A j \in Jobs : job[j].status = "absent"
        /\ \A i \in Items : item[i] = "draft"
        /\ units = 0 /\ ~overlapped
    BY DEF Init, NoRequest, NoJob
  <2>2. CreatedIn(job) = {}
    BY <2>1 DEF CreatedIn
  <2>3. Cardinality(CreatedIn(job)) = 0
    BY <2>2, FS_EmptySet
  <2>4. \A h \in Requests : ChargeFit(request[h], item, job, units)
    BY <2>1 DEF ChargeFit, Reading
  <2>5. QED
    BY <2>1, <2>3, <2>4 DEF AccountFit
<1>2. ASSUME OneAtATime, Accounts, faults = 0, \A h \in Requests : At(h, "idle")
      PROVE  /\ \A i \in Items : item[i] = "queued" <=> \E j \in Created : job[j].item = i
             /\ units = Cardinality(Created)
  <2>1. Created = CreatedIn(job)
    BY DEF Created, CreatedIn
  <2>2. QueueFit(request, item, job) /\ AccountFit(request, item, job, units)
    BY <1>2 DEF OneAtATime, Accounts
  <2>3. \A h \in Requests : request[h].pc = "idle"
    BY <1>2 DEF At
  <2>4. \A i \in Items : item[i] = "queued" => \E j \in Created : job[j].item = i
    BY <2>1, <2>2, <2>3 DEF AccountFit
  <2>5. \A j \in Created : item[job[j].item] = "queued"
    BY <2>2 DEF QueueFit, Created
  <2>6. QED
    BY <2>1, <2>2, <2>3, <2>4, <2>5 DEF AccountFit
<1>3. OneAtATime /\ Accounts => QueuedWorkAccounted
  BY <1>2 DEF QueuedWorkAccounted
<1>4. QED
  BY <1>1, <1>3, OneAtATimeAlways, AccountsStep, SoundAlways, PTL DEF Spec
-----------------------------------------------------------------------------
(* Runs that nothing disturbs.                                             *)

Live(r) == r.status = "processing" /\ r.lease = "live"

\* A run owns its job: what it reads, and what it writes back, is its own lease.
RunFit(l, jb) ==
    /\ l.pc \notin Controls
    /\ l.row # NoRow => Live(l.row)
    /\ l.pc = "begin" => l.lease = "live"
    /\ l.pc \in {"begin", "load", "execute", "complete"} => Live(jb[l.on])
    /\ l.pc = "record" => jb[l.on].status = "completed"
    /\ l.pc \in {"requeue", "cards", "fail"} => Live(jb[l.on]) \/ jb[l.on].status = "completed"
    /\ l.pc = "remember" => jb[l.on].status = "failed"

\* The steps of a run that has completed its job or may have.
Closing == {"record", "requeue", "cards", "fail"}

\* A completed job is remembered, or its run is about to: to remember or to undo it.
\* Failure cards are those of a job that has failed, or is about to.
VerdictFit(pr, jb, cd, mm) ==
    \A j \in Jobs :
        /\ jb[j].status = "completed" =>
              j \in mm \/ \E w \in Workers : pr[w].on = j /\ pr[w].pc \in Closing
        /\ "failure" \in cd[j] =>
              jb[j].status = "failed" \/ \E w \in Workers : pr[w].on = j /\ pr[w].pc = "fail"

OwnRuns(pr, jb) ==
    /\ \A u \in Users : pr[u].pc = "idle"
    /\ \A v, w \in Workers : pr[v].pc # "idle" /\ pr[w].pc # "idle" /\ pr[v].on = pr[w].on => v = w
    /\ \A w \in Workers : RunFit(pr[w], jb)

Undisturbed == faults = 0 => OwnRuns(proc, job) /\ VerdictFit(proc, job, cards, memory)

Own == OwnRuns(proc, job) /\ VerdictFit(proc, job, cards, memory)

\* One worker moves on, and only its job changes.
LEMMA OwnMove ==
    ASSUME Own, NEW w \in Workers, NEW o \in Jobs,
           \A q \in Processes : q # w => proc'[q] = proc[q],
           \A j \in Jobs : j # o => job'[j] = job[j] /\ cards'[j] = cards[j],
           memory \subseteq memory',
           \A v \in Workers : v # w /\ proc[v].pc # "idle" => proc[v].on \in Jobs /\ proc[v].on # o,
           proc[w].pc # "idle" => proc[w].on = o,
           proc'[w].pc # "idle" => proc'[w].on = o,
           RunFit(proc'[w], job'),
           job'[o].status = "completed" => o \in memory' \/ proc'[w].pc \in Closing,
           "failure" \in cards'[o] => job'[o].status = "failed" \/ proc'[w].pc = "fail"
    PROVE  Own'
<1>1. \A v \in Workers : v # w => proc'[v] = proc[v]
  BY ProcessTypes
<1>2. \A u \in Users : proc'[u].pc = "idle"
  BY ProcessTypes, ProcessAssumption DEF Own, OwnRuns
<1>3. \A v \in Workers : RunFit(proc'[v], job')
  <2> SUFFICES ASSUME NEW v \in Workers, v # w PROVE RunFit(proc[v], job')
    BY <1>1
  <2>1. RunFit(proc[v], job)
    BY DEF Own, OwnRuns
  <2>2. CASE proc[v].pc = "idle"
    BY <2>1, <2>2 DEF RunFit
  <2>3. CASE proc[v].pc # "idle"
    <3>1. job'[proc[v].on] = job[proc[v].on]
      BY <2>3
    <3>2. QED
      BY <2>1, <3>1 DEF RunFit
  <2>4. QED
    BY <2>2, <2>3
<1>4. \A u, v \in Workers :
          proc'[u].pc # "idle" /\ proc'[v].pc # "idle" /\ proc'[u].on = proc'[v].on => u = v
  BY <1>1 DEF Own, OwnRuns
<1>5. ASSUME NEW j \in Jobs
      PROVE  /\ job'[j].status = "completed" =>
                  j \in memory' \/ \E v \in Workers : proc'[v].on = j /\ proc'[v].pc \in Closing
             /\ "failure" \in cards'[j] =>
                  job'[j].status = "failed"
                  \/ \E v \in Workers : proc'[v].on = j /\ proc'[v].pc = "fail"
  <2>1. CASE j = o
    BY <2>1 DEF Closing
  <2>2. CASE j # o
    <3>1. /\ job[j].status = "completed" =>
                j \in memory \/ \E v \in Workers : proc[v].on = j /\ proc[v].pc \in Closing
          /\ "failure" \in cards[j] =>
                job[j].status = "failed" \/ \E v \in Workers : proc[v].on = j /\ proc[v].pc = "fail"
      BY DEF Own, VerdictFit
    <3>2. \A v \in Workers : proc[v].on = j /\ proc[v].pc # "idle" => proc'[v] = proc[v]
      BY <1>1, <2>2
    <3>3. QED
      BY <2>2, <3>1, <3>2 DEF Closing
  <2>3. QED
    BY <2>1, <2>2
<1>6. OwnRuns(proc', job')
  BY <1>2, <1>3, <1>4 DEF OwnRuns
<1>7. VerdictFit(proc', job', cards', memory')
  BY <1>5 DEF VerdictFit
<1>8. QED
  BY <1>6, <1>7 DEF Own

\* No worker moves, and only jobs change that no worker is on.
LEMMA OwnTables ==
    ASSUME Own, UNCHANGED <<cards, memory>>,
           \A v \in Workers : proc'[v] = proc[v],
           \A u \in Users : proc'[u].pc = "idle",
           \A v \in Workers : proc[v].pc # "idle" => job'[proc[v].on] = job[proc[v].on],
           \A j \in Jobs : job'[j].status = "completed" => job[j].status = "completed",
           \A j \in Jobs : job[j].status = "failed" => job'[j].status = "failed"
    PROVE  Own'
<1>1. ASSUME NEW v \in Workers PROVE RunFit(proc'[v], job')
  <2>1. RunFit(proc[v], job)
    BY DEF Own, OwnRuns
  <2>2. QED
    BY <2>1 DEF RunFit
<1>2. OwnRuns(proc', job')
  BY <1>1 DEF Own, OwnRuns
<1>3. VerdictFit(proc', job', cards', memory')
  BY DEF Own, VerdictFit
<1>4. QED
  BY <1>2, <1>3 DEF Own

\* What a busy worker may count on while nothing disturbs it.
LEMMA OwnFacts ==
    ASSUME Sound, Own, NEW w \in Workers, proc[w].pc # "idle"
    PROVE  /\ w \in Processes /\ proc[w] \in Locals
           /\ proc[w].on \in Jobs /\ job[proc[w].on] \in Job /\ job[proc[w].on].status # "absent"
           /\ proc[w].row # NoRow => proc[w].row \in Job
           /\ RunFit(proc[w], job)
           /\ \A v \in Workers : v # w /\ proc[v].pc # "idle" =>
                 proc[v].on \in Jobs /\ proc[v].on # proc[w].on
           /\ "failure" \in cards[proc[w].on] => proc[w].pc \in {"fail", "remember"}
<1>1. /\ w \in Processes /\ proc[w] \in Locals /\ job \in [Jobs -> Job]
      /\ LocalFit(proc[w], job, cards, logged)
  BY ProcessTypes DEF Sound, TypeOK, AllFit, Fit
<1>2. proc[w].on \in Jobs /\ job[proc[w].on].status # "absent"
      /\ (proc[w].row # NoRow => proc[w].row \in Job)
  BY <1>1 DEF LocalFit, RowFit
<1>3. RunFit(proc[w], job)
  BY DEF Own, OwnRuns
<1>4. ASSUME NEW v \in Workers, v # w, proc[v].pc # "idle"
      PROVE  proc[v].on \in Jobs /\ proc[v].on # proc[w].on
  BY <1>4, ProcessTypes DEF Own, OwnRuns, Sound, AllFit, Fit, LocalFit
<1>5. ASSUME "failure" \in cards[proc[w].on] PROVE proc[w].pc \in {"fail", "remember"}
  <2>1. CASE job[proc[w].on].status = "failed"
    BY <1>1, <1>3, <2>1 DEF RunFit, Live, Locals, Updates
  <2>2. CASE \E v \in Workers : proc[v].on = proc[w].on /\ proc[v].pc = "fail"
    BY <2>2 DEF Own, OwnRuns
  <2>3. QED
    BY <1>2, <1>5, <2>1, <2>2 DEF Own, VerdictFit
<1>6. QED
  BY <1>1, <1>2, <1>3, <1>4, <1>5

\* A row that a worker writes is the row of its job, and the others stay.
LEMMA OwnWrite ==
    ASSUME Sound, NEW w \in Workers, proc[w].on \in Jobs, job[proc[w].on].status # "absent",
           NEW r, Write(w, r)
    PROVE  job'[proc[w].on] = r /\ \A j \in Jobs : j # proc[w].on => job'[j] = job[j]
<1>1. job \in [Jobs -> Job] /\ job' = [job EXCEPT ![proc[w].on] = r]
  BY DEF Sound, TypeOK, Write
<1>2. QED
  BY <1>1

\* A busy worker moves on, or ends.
LEMMA OwnWorker ==
    ASSUME Sound, Own, NEW w \in Workers, proc[w].pc # "idle",
           NEW l, proc' = [proc EXCEPT ![w] = l],
           l.pc # "idle" => l.on = proc[w].on,
           RunFit(l, job'),
           \A j \in Jobs : j # proc[w].on => job'[j] = job[j] /\ cards'[j] = cards[j],
           memory \subseteq memory',
           job'[proc[w].on].status = "completed" => proc[w].on \in memory' \/ l.pc \in Closing,
           "failure" \in cards'[proc[w].on] => job'[proc[w].on].status = "failed" \/ l.pc = "fail"
    PROVE  Own'
<1>1. w \in Processes /\ proc \in [Processes -> Locals]
  BY ProcessTypes DEF Sound, TypeOK
<1>2. proc'[w] = l /\ \A q \in Processes : q # w => proc'[q] = proc[q]
  BY <1>1
<1>3. /\ proc[w].on \in Jobs
      /\ \A v \in Workers : v # w /\ proc[v].pc # "idle" =>
            proc[v].on \in Jobs /\ proc[v].on # proc[w].on
  BY OwnFacts
<1>4. QED
  BY <1>2, <1>3, OwnMove

\* The updates of a run: each writes the lease that the worker holds.
LEMMA OwnUpdates ==
    ASSUME Sound, Own, NEW w \in Workers, Begin(w) \/ Load(w) \/ Complete(w)
    PROVE  Own'
<1> DEFINE o == proc[w].on
<1>1. proc[w].pc \in {"begin", "load", "complete"} /\ proc[w].row # NoRow
      /\ UNCHANGED <<cards, memory>>
  BY DEF Begin, Load, Complete, Update, runVars
<1>2. /\ w \in Processes /\ proc[w] \in Locals /\ o \in Jobs /\ job[o].status # "absent"
      /\ proc[w].row \in Job /\ Live(proc[w].row) /\ RunFit(proc[w], job)
      /\ "failure" \notin cards[o]
  BY <1>1, OwnFacts DEF RunFit
<1>3. ASSUME NEW pc \in {"load", "execute", "record"}, Goto(w, pc), NEW r, Write(w, r),
             pc = "record" => r.status = "completed",
             pc # "record" => Live(r)
      PROVE  Own'
  <2> DEFINE l == [proc[w] EXCEPT !.pc = pc, !.row = NoRow]
  <2>1. proc' = [proc EXCEPT ![w] = l] /\ l.pc = pc /\ l.on = o /\ l.row = NoRow
    BY <1>2, <1>3 DEF Goto, Locals
  <2> HIDE DEF l
  <2>2. job'[o] = r /\ \A j \in Jobs : j # o => job'[j] = job[j]
    BY <1>2, <1>3, OwnWrite
  <2>3. RunFit(l, job')
    BY <1>3, <2>1, <2>2 DEF RunFit, Controls
  <2>4. job'[o].status = "completed" => l.pc \in Closing
    BY <1>3, <2>1, <2>2 DEF Live, Closing
  <2>5. QED
    BY <1>1, <1>2, <2>1, <2>2, <2>3, <2>4, OwnWorker
<1>4. CASE Begin(w)
  <2> DEFINE r == [proc[w].row EXCEPT !.status = "processing", !.lease = proc[w].lease]
  <2>1. Write(w, r) /\ Goto(w, "load") /\ proc[w].pc = "begin"
    BY <1>4 DEF Begin, Update
  <2>2. proc[w].lease = "live"
    BY <1>2, <2>1 DEF RunFit
  <2>3. Live(r)
    BY <1>2, <2>2 DEF Live, Job
  <2> HIDE DEF r
  <2>4. QED
    BY <1>3, <2>1, <2>3
<1>5. CASE Load(w)
  BY <1>2, <1>3, <1>5 DEF Load, Update
<1>6. CASE Complete(w)
  <2> DEFINE r == [proc[w].row EXCEPT !.status = "completed", !.lease = "none"]
  <2>1. Write(w, r) /\ Goto(w, "record")
    BY <1>6 DEF Complete, Update
  <2>2. r.status = "completed"
    BY <1>2 DEF Job
  <2> HIDE DEF r
  <2>3. QED
    BY <1>3, <2>1, <2>2
<1>7. QED
  BY <1>4, <1>5, <1>6

\* The steps that leave the jobs alone.
LEMMA OwnMoves ==
    ASSUME Sound, Own, NEW w \in Workers, Execute(w) \/ RunFails(w) \/ UploadFailureCards(w)
    PROVE  Own'
<1> DEFINE o == proc[w].on
<1>1. proc[w].pc \in {"load", "execute", "complete", "record", "cards"} /\ UNCHANGED <<job, memory>>
  BY DEF Execute, RunFails, UploadFailureCards, runVars
<1>2. /\ w \in Processes /\ proc[w] \in Locals /\ o \in Jobs /\ RunFit(proc[w], job)
      /\ "failure" \notin cards[o]
  BY <1>1, OwnFacts
<1>3. ASSUME NEW pc \in {"complete", "cards", "requeue", "fail"}, Goto(w, pc),
             \A j \in Jobs : j # o => cards'[j] = cards[j],
             "failure" \in cards'[o] => pc = "fail",
             pc = "complete" => proc[w].pc = "execute"
      PROVE  Own'
  <2> DEFINE l == [proc[w] EXCEPT !.pc = pc, !.row = NoRow]
  <2>1. proc' = [proc EXCEPT ![w] = l] /\ l.pc = pc /\ l.on = o /\ l.row = NoRow
    BY <1>2, <1>3 DEF Goto, Locals
  <2> HIDE DEF l
  <2>2. RunFit(l, job')
    BY <1>1, <1>2, <1>3, <2>1 DEF RunFit, Controls
  <2>3. job'[o].status = "completed" => l.pc \in Closing
    BY <1>1, <1>2, <1>3, <2>1 DEF RunFit, Live, Closing
  <2>4. QED
    BY <1>1, <1>2, <1>3, <2>1, <2>2, <2>3, OwnWorker
<1>4. cards \in [Jobs -> SUBSET {"verdict", "failure"}]
  BY DEF Sound, TypeOK
<1>5. CASE Execute(w)
  <2>1. cards' = [cards EXCEPT ![o] = @ \cup {"verdict"}] /\ Goto(w, "complete")
        /\ proc[w].pc = "execute"
    BY <1>5 DEF Execute
  <2>2. QED
    BY <1>2, <1>3, <1>4, <2>1
<1>6. CASE RunFails(w)
  BY <1>2, <1>3, <1>6 DEF RunFails, runVars
<1>7. CASE UploadFailureCards(w)
  <2>1. Goto(w, "fail") /\ \A j \in Jobs : j # o => cards'[j] = cards[j]
    BY <1>4, <1>7 DEF UploadFailureCards
  <2>2. QED
    BY <1>3, <2>1
<1>8. QED
  BY <1>5, <1>6, <1>7

\* The ends of a run: the job is remembered, queued again or failed.
LEMMA OwnEnds ==
    ASSUME Sound, Own, NEW w \in Workers, Record(w) \/ Requeue(w) \/ Fail(w) \/ Remember(w)
    PROVE  Own'
<1> DEFINE o == proc[w].on
<1>1. proc[w].pc \in {"record", "requeue", "fail", "remember"} /\ UNCHANGED cards
  BY DEF Record, Requeue, Fail, Remember, runVars
<1>2. /\ w \in Processes /\ proc[w] \in Locals /\ o \in Jobs /\ RunFit(proc[w], job)
      /\ job[o] \in Job /\ job[o].status # "absent"
      /\ "failure" \in cards[o] => proc[w].pc \in {"fail", "remember"}
  BY <1>1, OwnFacts
<1>3. Idle.pc = "idle" /\ RunFit(Idle, job')
  BY DEF Idle, RunFit, Controls
<1>4. CASE Record(w)
  <2>1. /\ proc' = [proc EXCEPT ![w] = Idle] /\ job' = job /\ memory' = memory \cup {o}
        /\ proc[w].pc = "record"
    BY <1>4 DEF Record, Return
  <2>2. QED
    BY <1>1, <1>2, <1>3, <2>1, OwnWorker
<1>5. CASE Remember(w)
  <2>1. /\ proc' = [proc EXCEPT ![w] = Idle] /\ job' = job /\ memory \subseteq memory'
        /\ proc[w].pc = "remember"
    BY <1>5 DEF Remember, Return
  <2>2. job[o].status = "failed"
    BY <1>2, <2>1 DEF RunFit
  <2>3. QED
    BY <1>1, <1>2, <1>3, <2>1, <2>2, OwnWorker
<1>6. CASE Requeue(w)
  <2> DEFINE r == [job[o] EXCEPT !.status = "queued", !.retries = proc[w].count + 1, !.lease = "none"]
  <2>1. /\ proc' = [proc EXCEPT ![w] = Idle] /\ memory' = memory /\ Write(w, r)
        /\ proc[w].pc = "requeue"
    BY <1>6 DEF Requeue, Return, runVars
  <2>2. r.status = "queued"
    BY <1>2 DEF Job
  <2> HIDE DEF r
  <2>3. job'[o] = r /\ \A j \in Jobs : j # o => job'[j] = job[j]
    BY <1>2, <2>1, OwnWrite
  <2>4. QED
    BY <1>1, <1>2, <1>3, <2>1, <2>2, <2>3, OwnWorker
<1>7. CASE Fail(w)
  <2> DEFINE r == [job[o] EXCEPT !.status = "failed", !.retries = proc[w].count + 1, !.lease = "none"]
             l == [proc[w] EXCEPT !.pc = "remember", !.row = NoRow]
  <2>1. proc' = [proc EXCEPT ![w] = l] /\ memory' = memory /\ Write(w, r)
    BY <1>7 DEF Fail, Goto, runVars
  <2>2. r.status = "failed" /\ l.pc = "remember" /\ l.on = o /\ l.row = NoRow
    BY <1>2 DEF Job, Locals
  <2> HIDE DEF r, l
  <2>3. job'[o] = r /\ \A j \in Jobs : j # o => job'[j] = job[j]
    BY <1>2, <2>1, OwnWrite
  <2>4. RunFit(l, job')
    BY <2>2, <2>3 DEF RunFit, Controls
  <2>5. QED
    BY <1>1, <1>2, <2>1, <2>2, <2>3, <2>4, OwnWorker
<1>8. QED
  BY <1>4, <1>5, <1>6, <1>7

\* The SELECT of an update reads the lease of the worker.
LEMMA OwnRead ==
    ASSUME Sound, Own, NEW p \in Processes, Read(p)
    PROVE  Own'
<1>1. proc[p].pc # "idle" /\ proc[p].pc \in Updates
  BY DEF Read, Updates, Controls
<1>2. p \in Workers
  BY <1>1 DEF Processes, Own, OwnRuns
<1> DEFINE o == proc[p].on
           l == [proc[p] EXCEPT !.row = job[o]]
<1>3. /\ proc[p] \in Locals /\ o \in Jobs /\ RunFit(proc[p], job)
      /\ "failure" \in cards[o] => proc[p].pc \in {"fail", "remember"}
  BY <1>1, <1>2, OwnFacts
<1>4. /\ proc' = [proc EXCEPT ![p] = l] /\ UNCHANGED <<job, cards, memory>>
      /\ l.pc = proc[p].pc /\ l.on = o /\ l.row = job[o] /\ l.lease = proc[p].lease
  BY <1>3 DEF Read, runVars, Locals
<1> HIDE DEF l
<1>5. proc[p].pc \in {"begin", "load", "complete"}
  BY <1>1, <1>3 DEF RunFit, Updates
<1>6. Live(job[o])
  BY <1>3, <1>5 DEF RunFit
<1>7. RunFit(l, job')
  BY <1>3, <1>4, <1>6 DEF RunFit
<1>8. QED
  BY <1>1, <1>2, <1>3, <1>4, <1>5, <1>6, <1>7, OwnWorker DEF Live

\* A job that is claimed has no worker yet.
LEMMA OwnClaim ==
    ASSUME Sound, Own, NEW w \in Workers, NEW j \in Jobs, Claim(w, j)
    PROVE  Own'
<1> DEFINE r == [job[j] EXCEPT !.status = "processing", !.lease = "live"]
           l == [Idle EXCEPT !.pc = "begin", !.on = j, !.count = job[j].retries, !.lease = "live"]
<1>1. proc \in [Processes -> Locals] /\ job \in [Jobs -> Job] /\ job[j] \in Job
  BY DEF Sound, TypeOK
<1>2. /\ proc' = [proc EXCEPT ![w] = l] /\ job' = [job EXCEPT ![j] = r] /\ UNCHANGED <<cards, memory>>
      /\ proc[w].pc = "idle" /\ Claimable(j)
  BY <1>1 DEF Claim, runVars
<1>3. Live(r) /\ l.pc = "begin" /\ l.on = j /\ l.lease = "live" /\ l.row = NoRow
  BY <1>1 DEF Live, Job, Idle
<1> HIDE DEF r, l
<1>4. job'[j] = r /\ \A k \in Jobs : k # j => job'[k] = job[k]
  BY <1>1, <1>2
<1>5. ASSUME NEW v \in Workers, proc[v].pc # "idle" PROVE proc[v].on \in Jobs /\ proc[v].on # j
  <2>1. proc[v] \in Locals /\ proc[v].on \in Jobs /\ RunFit(proc[v], job)
    BY <1>5, OwnFacts
  <2>2. QED
    BY <1>2, <1>5, <2>1 DEF RunFit, Live, Claimable, Locals, Updates
<1>6. RunFit(l, job')
  BY <1>3, <1>4 DEF RunFit, Controls
<1>7. "failure" \notin cards[j]
  <2>1. job[j].status # "failed"
    BY <1>2 DEF Claimable
  <2>2. QED
    BY <1>5, <2>1 DEF Own, VerdictFit
<1>8. job'[j].status # "completed"
  BY <1>3, <1>4 DEF Live
<1>9. proc'[w] = l /\ \A q \in Processes : q # w => proc'[q] = proc[q]
  BY <1>1, <1>2, ProcessTypes
<1>10. QED
  BY <1>2, <1>3, <1>4, <1>5, <1>6, <1>7, <1>8, <1>9, OwnMove

\* Insertion, recovery and cleanup change no job that a worker is on.
LEMMA OwnOthers ==
    ASSUME Sound, Own, UNCHANGED <<proc, cards, memory>>,
           Inserts \/ RecoverStaleProcessingJobs \/ CleanupStaleFailedJobs
    PROVE  Own'
<1>1. job \in [Jobs -> Job] /\ \A u \in Users : proc[u].pc = "idle"
  BY DEF Sound, TypeOK, Own, OwnRuns
<1>2. ASSUME NEW v \in Workers, proc[v].pc # "idle"
      PROVE  /\ proc[v] \in Locals /\ proc[v].on \in Jobs /\ RunFit(proc[v], job)
             /\ job[proc[v].on].status # "absent" /\ ~Stale(proc[v].on)
  <2>1. /\ proc[v] \in Locals /\ proc[v].on \in Jobs /\ RunFit(proc[v], job)
        /\ job[proc[v].on].status # "absent"
    BY <1>2, OwnFacts
  <2>2. QED
    BY <1>2, <2>1 DEF RunFit, Live, Stale, Locals, Updates
<1>3. CASE Inserts
  <2>1. PICK h \in Requests, i \in Items, j \in Jobs : InsertJob(h, i, j)
    BY <1>3 DEF Inserts
  <2> DEFINE r == [NoJob EXCEPT !.status = "queued", !.item = i]
  <2>2. r.status = "queued" /\ job' = [job EXCEPT ![j] = r] /\ job[j].status = "absent"
    BY <2>1 DEF InsertJob, NoJob
  <2> HIDE DEF r
  <2>3. job'[j] = r /\ \A k \in Jobs : k # j => job'[k] = job[k]
    BY <1>1, <2>2
  <2>4. QED
    BY <1>1, <1>2, <2>2, <2>3, OwnTables
<1>4. CASE RecoverStaleProcessingJobs
  <2>1. PICK stale \in SUBSET {j \in Jobs : Stale(j)} :
            job' = [j \in Jobs |->
                      IF j \in stale
                      THEN [job[j] EXCEPT !.status = "queued", !.retries = Bump(job[j].retries)]
                      ELSE job[j]]
    BY <1>4 DEF RecoverStaleProcessingJobs
  <2>2. ASSUME NEW j \in Jobs
        PROVE  \/ job'[j] = job[j]
               \/ Stale(j) /\ job'[j].status = "queued"
    BY <1>1, <2>1 DEF Job
  <2>3. \A j \in Jobs : Stale(j) => job[j].status = "processing"
    BY DEF Stale
  <2>4. QED
    BY <1>1, <1>2, <2>2, <2>3, OwnTables
<1>5. CASE CleanupStaleFailedJobs
  <2>1. \A j \in FailedJobs : j \in logged
    BY DEF FailedJobs, Sound, AllFit, Fit, JobFit, RowFit
  <2>2. job' = job
    <3>1. PICK old \in SUBSET FailedJobs :
              job' = IF old \cap logged = {}
                     THEN [j \in Jobs |-> IF j \in old THEN NoJob ELSE job[j]]
                     ELSE job
      BY <1>5 DEF CleanupStaleFailedJobs
    <3>2. CASE old = {}
      BY <1>1, <3>1, <3>2
    <3>3. CASE old # {}
      BY <2>1, <3>1, <3>3
    <3>4. QED
      BY <3>2, <3>3
  <2>3. QED
    BY <2>2 DEF Own
<1>6. QED
  BY <1>3, <1>4, <1>5

\* A lease that passes is that of a job without a worker.
LEMMA OwnLease ==
    ASSUME Sound, Own, NEW j \in Jobs, LeaseExpires(j)
    PROVE  Own'
<1>1. proc \in [Processes -> Locals] /\ job \in [Jobs -> Job]
  BY DEF Sound, TypeOK
<1>2. /\ \A w \in Workers : proc[w].on # j
      /\ job' = [job EXCEPT ![j].lease = "over"] /\ UNCHANGED <<cards, memory>>
  BY DEF LeaseExpires, LeasePasses, Running, runVars
<1>3. \A w \in Workers : proc'[w] = proc[w]
  BY <1>2, ProcessTypes DEF LeaseExpires, LeasePasses
<1>4. \A u \in Users : proc'[u].pc = "idle"
  <2> SUFFICES ASSUME NEW u \in Users PROVE proc'[u].pc = "idle"
    OBVIOUS
  <2>1. proc[u] \in Locals /\ proc[u].pc = "idle" /\ u \in Processes
    BY <1>1, ProcessTypes DEF Own, OwnRuns
  <2>2. proc'[u] = IF proc[u].on # j THEN proc[u]
                   ELSE [proc[u] EXCEPT !.lease = PastLease(proc[u].lease), !.row = PastRow(proc[u].row)]
    BY <2>1 DEF LeaseExpires, LeasePasses
  <2>3. QED
    BY <2>1, <2>2 DEF Locals
<1>5. job'[j].status = job[j].status /\ \A k \in Jobs : k # j => job'[k] = job[k]
  BY <1>1, <1>2 DEF Job
<1>6. \A v \in Workers : proc[v].pc # "idle" => job'[proc[v].on] = job[proc[v].on]
  BY <1>2, <1>5, OwnFacts
<1>7. QED
  BY <1>2, <1>3, <1>4, <1>5, <1>6, OwnTables

\* Every step of undisturbed runs.
LEMMA UndisturbedStep == Sound /\ Undisturbed /\ [Next]_vars => Undisturbed'
<1> SUFFICES ASSUME Sound, Undisturbed, [Next]_vars, faults' = 0 PROVE Own'
  BY DEF Undisturbed, Own
<1>f. faults = 0 /\ Own /\ faults + 1 # 0
  BY FaultsCounted, FaultsAssumption DEF Undisturbed, Own, Sound, TypeOK
<1>1. ASSUME UNCHANGED <<proc, job, cards, memory>> PROVE Own'
  BY <1>f, <1>1 DEF Own
<1>2. ASSUME NEW h \in Requests, RequestStep(h) PROVE Own'
  <2>1. CASE \E i \in Items, j \in Jobs : InsertJob(h, i, j)
    <3>1. UNCHANGED <<proc, cards, memory>>
      BY <2>1 DEF InsertJob, runVars
    <3>2. QED
      BY <1>f, <2>1, <3>1, OwnOthers DEF Inserts
  <2>2. CASE Check(h) \/ MarkPlan(h) \/ MarkItems(h) \/ ReadUsage(h) \/ Charge(h)
    BY <1>1, <2>2 DEF Check, MarkPlan, MarkItems, ReadUsage, Charge, runVars
  <2>3. QED
    BY <1>2, <2>1, <2>2 DEF RequestStep
<1>3. ASSUME NEW w \in Workers, WorkerStep(w) PROVE Own'
  BY <1>f, <1>3, OwnUpdates, OwnMoves, OwnEnds DEF WorkerStep
<1>4. ASSUME NEW u \in Users PROVE ~ApplyControl(u)
  <2>1. proc[u].pc = "idle"
    BY <1>f DEF Own, OwnRuns
  <2>2. QED
    BY <2>1 DEF ApplyControl, Controls
<1>5. ASSUME RecoverStaleProcessingJobs \/ CleanupStaleFailedJobs PROVE Own'
  <2>1. UNCHANGED <<proc, cards, memory>>
    BY <1>5 DEF RecoverStaleProcessingJobs, CleanupStaleFailedJobs, runVars
  <2>2. QED
    BY <1>f, <1>5, <2>1, OwnOthers
<1>6. ASSUME NEW u \in Users, NEW j \in Jobs, NEW action \in Controls
      PROVE  ~UpdateExperimentJobControl(u, j, action) /\ ~RetryAdminJob(u, j)
  BY <1>f DEF UpdateExperimentJobControl, RetryAdminJob, StartControl
<1>7. ASSUME NEW u \in Users, NEW j \in Jobs PROVE ~RetryAdminJob(u, j)
  BY <1>f DEF RetryAdminJob, StartControl
<1>8. \A p \in Processes : ~Crash(p)
  BY <1>f DEF Crash
<1>9. \A h \in Requests : ~CrashRequest(h)
  BY <1>f DEF CrashRequest
<1>10. \A j \in Jobs : ~Overrun(j)
  BY <1>f DEF Overrun
<1>11. ASSUME NEW p \in Plans, ApproveExperimentPlan(p) PROVE Own'
  BY <1>1, <1>11 DEF ApproveExperimentPlan
<1>12. ASSUME NEW h \in Requests, NEW p \in Plans, QueueExperimentPlan(h, p) PROVE Own'
  BY <1>1, <1>12 DEF QueueExperimentPlan, runVars
<1>13. CASE UNCHANGED vars
  BY <1>1, <1>13 DEF vars
<1>14. QED
  BY <1>f, <1>2, <1>3, <1>4, <1>5, <1>6, <1>7, <1>8, <1>9, <1>10, <1>11, <1>12, <1>13,
     OwnClaim, OwnRead, OwnLease DEF Next

\* As long as no crash, control, overrun or overlap interferes, a completed job whose
\* run is over is remembered and has its verdict alone, whichever calls of it threw.
THEOREM VerdictsStand == Spec => []VerdictsUndisturbed
<1>1. Init => Undisturbed
  BY ProcessTypes DEF Init, Undisturbed, OwnRuns, VerdictFit, RunFit, Idle, NoJob, Controls
<1>2. ASSUME Sound, Undisturbed, NEW j \in Jobs, faults = 0, job[j].status = "completed", ~Running(j)
      PROVE  j \in memory /\ cards[j] = {"verdict"}
  <2>1. "verdict" \in cards[j] /\ cards[j] \subseteq {"verdict", "failure"}
    BY <1>2 DEF Sound, TypeOK, AllFit, Fit, JobFit, RowFit
  <2>2. j \in memory /\ "failure" \notin cards[j]
    BY <1>2 DEF Undisturbed, VerdictFit, Running
  <2>3. QED
    BY <2>1, <2>2
<1>3. Sound /\ Undisturbed => VerdictsUndisturbed
  BY <1>2 DEF VerdictsUndisturbed
<1>4. QED
  BY <1>1, <1>3, UndisturbedStep, SoundAlways, PTL DEF Spec

-----------------------------------------------------------------------------
(* The budget of the jobs that wait.                                       *)

Pended(r) == r.status \in {"queued", "processing"}

\* A job that waits or runs can be tried again, and so can what a run writes back; who
\* queues it again has an attempt left.  A job in processing has a run.
BudgetFit(pr, jb) ==
    /\ \A j \in Jobs : Pended(jb[j]) => jb[j].retries < MaxAttempts
    /\ \A w \in Workers :
          /\ pr[w].row # NoRow => pr[w].row.retries < MaxAttempts
          /\ pr[w].pc = "requeue" => pr[w].count + 1 < MaxAttempts
    /\ \A j \in Jobs : jb[j].status = "processing" =>
          \E w \in Workers : pr[w].pc # "idle" /\ pr[w].on = j

Budgeted == faults = 0 => BudgetFit(proc, job)

\* A worker goes on with its job, or with one it has claimed, or ends; the other jobs stay.
LEMMA BudgetMove ==
    ASSUME Sound, BudgetFit(proc, job), NEW w \in Workers, NEW o \in Jobs,
           NEW l, proc' = [proc EXCEPT ![w] = l],
           \A j \in Jobs : j # o => job'[j] = job[j],
           proc[w].pc # "idle" => proc[w].on = o,
           Pended(job'[o]) => job'[o].retries < MaxAttempts,
           job'[o].status = "processing" => l.pc # "idle" /\ l.on = o,
           l.row # NoRow => l.row.retries < MaxAttempts,
           l.pc = "requeue" => l.count + 1 < MaxAttempts
    PROVE  BudgetFit(proc', job')
<1>1. proc'[w] = l /\ \A v \in Workers : v # w => proc'[v] = proc[v]
  BY ProcessTypes DEF Sound, TypeOK
<1>2. \A j \in Jobs : Pended(job'[j]) => job'[j].retries < MaxAttempts
  BY DEF BudgetFit
<1>3. ASSUME NEW v \in Workers
      PROVE  /\ proc'[v].row # NoRow => proc'[v].row.retries < MaxAttempts
             /\ proc'[v].pc = "requeue" => proc'[v].count + 1 < MaxAttempts
  BY <1>1 DEF BudgetFit
<1>4. ASSUME NEW j \in Jobs, job'[j].status = "processing"
      PROVE  \E v \in Workers : proc'[v].pc # "idle" /\ proc'[v].on = j
  <2>1. CASE j = o
    BY <1>1, <1>4, <2>1
  <2>2. CASE j # o
    <3>1. PICK v \in Workers : proc[v].pc # "idle" /\ proc[v].on = j
      BY <1>4, <2>2 DEF BudgetFit
    <3>2. QED
      BY <1>1, <2>2, <3>1
  <2>3. QED
    BY <2>1, <2>2
<1>5. QED
  BY <1>2, <1>3, <1>4 DEF BudgetFit

\* No worker moves, and the jobs that change do not start to wait or run.
LEMMA BudgetTables ==
    ASSUME BudgetFit(proc, job),
           \A w \in Workers : proc'[w] = proc[w],
           \A j \in Jobs : \/ job'[j] = job[j]
                           \/ ~Pended(job'[j])
                           \/ job'[j].status = "queued" /\ job'[j].retries < MaxAttempts
    PROVE  BudgetFit(proc', job')
<1>1. \A j \in Jobs : job'[j].status = "processing" => job'[j] = job[j]
  BY DEF Pended
<1>2. QED
  BY <1>1 DEF BudgetFit, Pended

\* A run leaves its job with budget, or settled.
LEMMA BudgetWorker ==
    ASSUME Sound, Own, BudgetFit(proc, job), NEW w \in Workers, WorkerStep(w)
    PROVE  BudgetFit(proc', job')
<1> DEFINE o == proc[w].on
<1>1. proc[w].pc # "idle"
  BY DEF WorkerStep, Begin, Load, Execute, Complete, Record, RunFails, UploadFailureCards,
     Requeue, Fail, Remember, Update
<1>2. /\ w \in Processes /\ proc[w] \in Locals /\ o \in Jobs
      /\ job[o] \in Job /\ job[o].status # "absent"
      /\ proc[w].row # NoRow => proc[w].row \in Job
      /\ RunFit(proc[w], job)
  BY <1>1, OwnFacts
<1>3. /\ Pended(job[o]) => job[o].retries < MaxAttempts
      /\ proc[w].row # NoRow => proc[w].row.retries < MaxAttempts
      /\ proc[w].pc = "requeue" => proc[w].count + 1 < MaxAttempts
  BY <1>2 DEF BudgetFit
\* The run goes on.
<1>4. ASSUME NEW pc, Goto(w, pc), pc # "idle", \A j \in Jobs : j # o => job'[j] = job[j],
             Pended(job'[o]) => job'[o].retries < MaxAttempts,
             pc = "requeue" => proc[w].count + 1 < MaxAttempts
      PROVE  BudgetFit(proc', job')
  <2> DEFINE l == [proc[w] EXCEPT !.pc = pc, !.row = NoRow]
  <2>1. /\ proc' = [proc EXCEPT ![w] = l] /\ l.pc = pc /\ l.on = o /\ l.row = NoRow
        /\ l.count = proc[w].count
    BY <1>2, <1>4 DEF Goto, Locals
  <2> HIDE DEF l
  <2>2. QED
    BY <1>2, <1>4, <2>1, BudgetMove
\* The run ends.
<1>5. ASSUME Return(w), \A j \in Jobs : j # o => job'[j] = job[j],
             job'[o].status # "processing",
             Pended(job'[o]) => job'[o].retries < MaxAttempts
      PROVE  BudgetFit(proc', job')
  <2>1. proc' = [proc EXCEPT ![w] = Idle] /\ Idle.row = NoRow /\ Idle.pc = "idle"
    BY <1>5 DEF Return, Idle
  <2>2. QED
    BY <1>2, <1>5, <2>1, BudgetMove
<1>6. CASE Begin(w)
  <2> DEFINE r == [proc[w].row EXCEPT !.status = "processing", !.lease = proc[w].lease]
  <2>1. Write(w, r) /\ Goto(w, "load") /\ proc[w].row # NoRow
    BY <1>6 DEF Begin, Update
  <2>2. r.retries = proc[w].row.retries
    BY <1>2, <2>1 DEF Job
  <2> HIDE DEF r
  <2>3. job'[o] = r /\ \A j \in Jobs : j # o => job'[j] = job[j]
    BY <1>2, <2>1, OwnWrite
  <2>4. QED
    BY <1>3, <1>4, <2>1, <2>2, <2>3
<1>7. CASE Load(w)
  <2>1. Write(w, proc[w].row) /\ Goto(w, "execute") /\ proc[w].row # NoRow
    BY <1>7 DEF Load, Update
  <2>2. job'[o] = proc[w].row /\ \A j \in Jobs : j # o => job'[j] = job[j]
    BY <1>2, <2>1, OwnWrite
  <2>3. QED
    BY <1>3, <1>4, <2>1, <2>2
<1>8. CASE Complete(w)
  <2> DEFINE r == [proc[w].row EXCEPT !.status = "completed", !.lease = "none"]
  <2>1. Write(w, r) /\ Goto(w, "record") /\ proc[w].row # NoRow
    BY <1>8 DEF Complete, Update
  <2>2. r.status = "completed"
    BY <1>2, <2>1 DEF Job
  <2> HIDE DEF r
  <2>3. job'[o] = r /\ \A j \in Jobs : j # o => job'[j] = job[j]
    BY <1>2, <2>1, OwnWrite
  <2>4. QED
    BY <1>4, <2>1, <2>2, <2>3 DEF Pended
<1>9. CASE Execute(w) \/ UploadFailureCards(w)
  <2>1. job' = job /\ \E pc \in {"complete", "fail"} : Goto(w, pc)
    BY <1>9 DEF Execute, UploadFailureCards
  <2>2. QED
    BY <1>3, <1>4, <2>1
<1>10. CASE RunFails(w)
  <2>1. job' = job /\ Goto(w, IF Terminal(w) THEN "cards" ELSE "requeue")
    BY <1>10 DEF RunFails
  <2>2. CASE Terminal(w)
    BY <1>3, <1>4, <2>1, <2>2
  <2>3. CASE ~Terminal(w)
    <3>1. proc[w].count + 1 < MaxAttempts
      BY <1>2, <2>3, AttemptsAssumption DEF Terminal, Locals
    <3>2. QED
      BY <1>3, <1>4, <2>1, <2>3, <3>1
  <2>4. QED
    BY <2>2, <2>3
<1>11. CASE Record(w) \/ Remember(w)
  <2>1. job' = job /\ Return(w) /\ proc[w].pc \in {"record", "remember"}
    BY <1>11 DEF Record, Remember
  <2>2. job[o].status \in {"completed", "failed"}
    BY <1>2, <2>1 DEF RunFit
  <2>3. QED
    BY <1>5, <2>1, <2>2 DEF Pended
<1>12. CASE Requeue(w)
  <2> DEFINE r == [job[o] EXCEPT !.status = "queued", !.retries = proc[w].count + 1, !.lease = "none"]
  <2>1. Write(w, r) /\ Return(w) /\ proc[w].pc = "requeue"
    BY <1>12 DEF Requeue
  <2>2. r.status = "queued" /\ r.retries = proc[w].count + 1
    BY <1>2 DEF Job
  <2> HIDE DEF r
  <2>3. job'[o] = r /\ \A j \in Jobs : j # o => job'[j] = job[j]
    BY <1>2, <2>1, OwnWrite
  <2>4. QED
    BY <1>3, <1>5, <2>1, <2>2, <2>3
<1>13. CASE Fail(w)
  <2> DEFINE r == [job[o] EXCEPT !.status = "failed", !.retries = proc[w].count + 1, !.lease = "none"]
  <2>1. Write(w, r) /\ Goto(w, "remember")
    BY <1>13 DEF Fail
  <2>2. r.status = "failed"
    BY <1>2 DEF Job
  <2> HIDE DEF r
  <2>3. job'[o] = r /\ \A j \in Jobs : j # o => job'[j] = job[j]
    BY <1>2, <2>1, OwnWrite
  <2>4. QED
    BY <1>4, <2>1, <2>2, <2>3 DEF Pended
<1>14. QED
  BY <1>6, <1>7, <1>8, <1>9, <1>10, <1>11, <1>12, <1>13 DEF WorkerStep

\* A job in processing has a live lease, so nothing recovers it.
LEMMA NothingStale ==
    ASSUME Sound, Own, BudgetFit(proc, job), NEW j \in Jobs, job[j].status = "processing"
    PROVE  Running(j) /\ ~Stale(j)
<1>1. PICK w \in Workers : proc[w].pc # "idle" /\ proc[w].on = j
  BY DEF BudgetFit
<1>2. proc[w] \in Locals /\ RunFit(proc[w], job)
  BY <1>1, OwnFacts
<1>3. Live(job[j])
  BY <1>1, <1>2 DEF RunFit, Live, Locals, Updates
<1>4. QED
  BY <1>1, <1>3 DEF Running, Stale, Live

\* The SELECT and the claim of a worker see a job with budget.
LEMMA BudgetReads ==
    ASSUME Sound, Own, BudgetFit(proc, job), NEW p \in Processes,
           Read(p) \/ (p \in Workers /\ \E j \in Jobs : Claim(p, j))
    PROVE  BudgetFit(proc', job')
<1>1. job \in [Jobs -> Job]
  BY DEF Sound, TypeOK
<1>2. CASE Read(p)
  <2> DEFINE o == proc[p].on
             l == [proc[p] EXCEPT !.row = job[o]]
  <2>1. proc[p].pc \in Updates /\ job' = job
    BY <1>2 DEF Read
  <2>2. p \in Workers /\ proc[p].pc # "idle"
    BY <2>1 DEF Updates, Controls, Processes, Own, OwnRuns
  <2>3. proc[p] \in Locals /\ o \in Jobs /\ RunFit(proc[p], job)
    BY <2>2, OwnFacts
  <2>4. /\ proc' = [proc EXCEPT ![p] = l] /\ l.pc = proc[p].pc /\ l.on = o /\ l.row = job[o]
    BY <1>2, <2>3 DEF Read, Locals
  <2> HIDE DEF l
  <2>5. job[o].status = "processing" /\ l.pc # "requeue"
    BY <2>1, <2>3, <2>4 DEF RunFit, Live, Updates
  <2>6. job[o].retries < MaxAttempts
    BY <2>3, <2>5 DEF BudgetFit, Pended
  <2>7. QED
    BY <2>1, <2>2, <2>3, <2>4, <2>5, <2>6, BudgetMove
<1>3. ASSUME NEW j \in Jobs, p \in Workers, Claim(p, j) PROVE BudgetFit(proc', job')
  <2> DEFINE l == [Idle EXCEPT !.pc = "begin", !.on = j, !.count = job[j].retries, !.lease = "live"]
  <2>1. proc' = [proc EXCEPT ![p] = l] /\ proc[p].pc = "idle"
    BY <1>3 DEF Claim
  <2>2. l.pc = "begin" /\ l.on = j /\ l.row = NoRow
    BY DEF Idle
  <2> HIDE DEF l
  <2>3. /\ job'[j].retries = job[j].retries /\ job[j].retries < MaxAttempts
        /\ \A k \in Jobs : k # j => job'[k] = job[k]
    BY <1>1, <1>3 DEF Claim, Claimable, Job
  <2>4. QED
    BY <1>3, <2>1, <2>2, <2>3, BudgetMove
<1>4. QED
  BY <1>2, <1>3

\* Requests insert jobs with their whole budget; maintenance and time touch none.
LEMMA BudgetOthers ==
    ASSUME Sound, Own, BudgetFit(proc, job),
           \/ Inserts
           \/ RecoverStaleProcessingJobs
           \/ CleanupStaleFailedJobs
           \/ \E j \in Jobs : LeaseExpires(j)
    PROVE  BudgetFit(proc', job')
<1>1. job \in [Jobs -> Job] /\ proc \in [Processes -> Locals]
  BY DEF Sound, TypeOK
<1>2. CASE Inserts
  <2>1. PICK h \in Requests, i \in Items, j \in Jobs : InsertJob(h, i, j)
    BY <1>2 DEF Inserts
  <2> DEFINE r == [NoJob EXCEPT !.status = "queued", !.item = i]
  <2>2. r.status = "queued" /\ r.retries < MaxAttempts
    BY AttemptsAssumption DEF NoJob
  <2>3. job' = [job EXCEPT ![j] = r] /\ proc' = proc
    BY <2>1 DEF InsertJob
  <2> HIDE DEF r
  <2>4. QED
    BY <1>1, <2>2, <2>3, BudgetTables
<1>3. CASE RecoverStaleProcessingJobs
  <2>1. \A j \in Jobs : ~Stale(j)
    BY NothingStale DEF Stale
  <2>2. QED
    BY <1>3, <2>1 DEF RecoverStaleProcessingJobs
<1>4. CASE CleanupStaleFailedJobs
  <2>1. /\ \A j \in Jobs : job'[j] = job[j] \/ job'[j] = NoJob
        /\ proc' = proc
    BY <1>1, <1>4 DEF CleanupStaleFailedJobs
  <2>2. ~Pended(NoJob)
    BY DEF NoJob, Pended
  <2>3. QED
    BY <2>1, <2>2, BudgetTables
<1>5. ASSUME NEW j \in Jobs, LeaseExpires(j) PROVE BudgetFit(proc', job')
  <2>1. /\ ~Running(j) /\ job' = [job EXCEPT ![j].lease = "over"]
        /\ \A w \in Workers : proc'[w] = proc[w]
    BY <1>5, ProcessTypes DEF LeaseExpires, LeasePasses, Running
  <2>2. job[j].status # "processing"
    BY <2>1, NothingStale
  <2>3. /\ job'[j].status = job[j].status /\ job'[j].retries = job[j].retries
        /\ \A k \in Jobs : k # j => job'[k] = job[k]
    BY <1>1, <2>1 DEF Job
  <2>4. Pended(job[j]) => job[j].status = "queued" /\ job[j].retries < MaxAttempts
    BY <2>2 DEF BudgetFit, Pended
  <2>5. QED
    BY <2>1, <2>3, <2>4, BudgetTables DEF Pended
<1>6. QED
  BY <1>2, <1>3, <1>4, <1>5

\* Every step of undisturbed runs keeps the budgets.
LEMMA BudgetedStep == Sound /\ Undisturbed /\ Budgeted /\ [Next]_vars => Budgeted'
<1> SUFFICES ASSUME Sound, Undisturbed, Budgeted, [Next]_vars, faults' = 0
             PROVE  BudgetFit(proc', job')
  BY DEF Budgeted
<1>f. faults = 0 /\ Own /\ BudgetFit(proc, job) /\ faults + 1 # 0
  BY FaultsCounted, FaultsAssumption DEF Undisturbed, Own, Budgeted, Sound, TypeOK
<1>1. ASSUME UNCHANGED <<proc, job>> PROVE BudgetFit(proc', job')
  BY <1>f, <1>1
<1>2. ASSUME NEW h \in Requests, RequestStep(h) PROVE BudgetFit(proc', job')
  <2>1. CASE \E i \in Items, j \in Jobs : InsertJob(h, i, j)
    BY <1>f, <2>1, BudgetOthers DEF Inserts
  <2>2. CASE Check(h) \/ MarkPlan(h) \/ MarkItems(h) \/ ReadUsage(h) \/ Charge(h)
    BY <1>1, <2>2 DEF Check, MarkPlan, MarkItems, ReadUsage, Charge
  <2>3. QED
    BY <1>2, <2>1, <2>2 DEF RequestStep
<1>3. ASSUME NEW w \in Workers, WorkerStep(w) PROVE BudgetFit(proc', job')
  BY <1>f, <1>3, BudgetWorker
<1>4. ASSUME NEW u \in Users PROVE ~ApplyControl(u)
  <2>1. proc[u].pc = "idle"
    BY <1>f DEF Own, OwnRuns
  <2>2. QED
    BY <2>1 DEF ApplyControl, Controls
<1>5. /\ \A p \in Processes : ~Crash(p)
      /\ \A h \in Requests : ~CrashRequest(h)
      /\ \A j \in Jobs : ~Overrun(j)
      /\ \A u \in Users, j \in Jobs : ~RetryAdminJob(u, j)
      /\ \A u \in Users, j \in Jobs, action \in Controls : ~UpdateExperimentJobControl(u, j, action)
  BY <1>f DEF Crash, CrashRequest, Overrun, RetryAdminJob, UpdateExperimentJobControl, StartControl
<1>6. ASSUME NEW w \in Workers, NEW j \in Jobs, Claim(w, j) PROVE BudgetFit(proc', job')
  BY <1>f, <1>6, ProcessTypes, BudgetReads
<1>7. ASSUME \/ \E p \in Plans : ApproveExperimentPlan(p)
             \/ \E h \in Requests, p \in Plans : QueueExperimentPlan(h, p)
             \/ UNCHANGED vars
      PROVE  BudgetFit(proc', job')
  BY <1>1, <1>7 DEF ApproveExperimentPlan, QueueExperimentPlan, vars
<1>8. QED
  BY <1>f, <1>2, <1>3, <1>4, <1>5, <1>6, <1>7, BudgetReads, BudgetOthers DEF Next

\* As long as no crash, control, overrun or overlap interferes, every queued job can be
\* claimed, whatever its runs threw.  RequeuedRuns fails for the two that queue a job
\* without asking for its budget alone: the retry, and the recovery after a death.
THEOREM QueuedJobsCanRun ==
    Spec => [](faults = 0 =>
        \A j \in Jobs : job[j].status = "queued" => job[j].retries < MaxAttempts)
<1>1. Init => Undisturbed
  BY ProcessTypes DEF Init, Undisturbed, OwnRuns, VerdictFit, RunFit, Idle, NoJob, Controls
<1>2. Init => Budgeted
  BY ProcessTypes DEF Init, Budgeted, BudgetFit, Idle, NoJob, Pended
<1>3. Budgeted => (faults = 0 =>
          \A j \in Jobs : job[j].status = "queued" => job[j].retries < MaxAttempts)
  BY DEF Budgeted, BudgetFit, Pended
<1>4. QED
  BY <1>1, <1>2, <1>3, UndisturbedStep, BudgetedStep, SoundAlways, PTL DEF Spec
=============================================================================

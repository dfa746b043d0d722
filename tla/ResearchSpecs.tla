---------------------------- MODULE ResearchSpecs ----------------------------
(***************************************************************************)
(* From a proposal of the research copilot to a strategy that is exported: *)
(* the decision about the proposal, the hypothesis card made of it and its *)
(* versions, the bundle of specifications compiled from a confirmed        *)
(* version, the task to implement a strategy that is not portable, and the *)
(* Pine exports of an approved bundle with their comparisons.  All of it   *)
(* belongs to one program, and a web request runs its statements one by    *)
(* one, with those of the others in between.                               *)
(*                                                                         *)
(* Abstractions.                                                           *)
(*  - A card is valid, and its body says whether the compiler can carry it *)
(*    out (portable) or asks for an implementation (custom).               *)
(*  - Rows of cards and bundles are inserted under unique keys and a card  *)
(*    is never updated.  Where a check can only be undone by a row that    *)
(*    the INSERT would collide with, the two are one step, and a request   *)
(*    that throws on the key is one that does nothing.                     *)
(*  - Proposals are candidate hypotheses: others leave a note instead.     *)
(*  - The quota of Pine exports counts 30 days: none gets old.             *)
(*  - A statement that throws outside of a try block has the effect of a   *)
(*    crash.  The lifecycle events and files that requests add are left    *)
(*    out, except that adding them may throw.                              *)
(***************************************************************************)
EXTENDS Naturals, FiniteSets

CONSTANTS
    Handlers,       \* web requests at work at once
    Proposals,      \* proposals of hypotheses
    Cards,          \* card ids
    Exports,        \* ids of Pine exports and of their jobs
    Reports,        \* hashes of comparisons with TradingView
    VerdictOf,      \* the verdict of a comparison
    None,           \* no row, nothing given
    PineLimit,      \* Pine exports of a program in 30 days (25)
    MaxVersion,     \* bound: versions of a card
    MaxRequests,    \* bound: requests that are not one step
    MaxCrashes      \* bound: requests that die

ASSUME HandlersAssumption == IsFiniteSet(Handlers) /\ Handlers # {}
ASSUME ExportsAssumption == IsFiniteSet(Exports)
ASSUME VerdictAssumption == VerdictOf \in [Reports -> {"verified", "divergent"}]
ASSUME BoundsAssumption ==
    PineLimit \in Nat /\ MaxVersion \in Nat \ {0} /\ MaxRequests \in Nat /\ MaxCrashes \in Nat

VARIABLES
    proposal,   \* status of the rows of research_proposals
    decided,    \* the decisions about a proposal in research_decisions
    source,     \* the proposal a card was made of
    card,       \* the rows of hypothesis_cards, by id and version
    bundle,     \* the rows of research_spec_bundles, by card and version
    task,       \* the rows of strategy_implementation_tasks, one for a card id
    export,     \* the rows of pine_exports
    job,        \* status of the rows of pine_export_jobs
    result,     \* the export in the rows of pine_parity_results
    local,      \* locals of the requests
    requests,   \* number of requests begun
    crashes,    \* number of requests that have died
    contested,  \* history: proposals with two decisions, or two cards, under way at once
    met         \* history: have two Pine exports been under way at once?

proposalVars == <<proposal, decided, source, contested>>
specVars == <<card, bundle, task>>
pineVars == <<export, job, result, met>>
vars == <<proposalVars, specVars, pineVars, local, requests, crashes>>

Versions == 1..MaxVersion
Bodies == {"portable", "custom"}
Evidence == {"none", "failing", "passing"}

Card == [status : {"draft", "confirmed"}, body : Bodies]
Bundle == [status : {"generated", "approved"}, compile : {"ready", "task", "blocked"}]
Task == [status : {"draft", "in_review", "approved"}, evidence : Evidence]
Export == [status : {"ready", "superseded"}, card : Cards, version : Versions,
           parity : {"provisional", "verified", "divergent"}]

ASSUME NoneAssumption ==
    /\ None \notin Proposals \cup Cards \cup Exports \cup Reports
    /\ None \notin Card \cup Bundle \cup Task \cup Export

Exporting == {"quota", "supersede", "save", "finish", "event"}

Locals == [pc : Exporting \cup {"idle", "decide", "log", "create", "task", "submit", "approve",
                                "result", "parity"},
           proposal : Proposals \cup {None},
           decision : {"confirmed", "rejected", None},
           card : Cards \cup {None},
           version : Versions \cup {0},
           evidence : Evidence,
           export : Exports \cup {None},
           report : Reports \cup {None}]

Idle == [pc |-> "idle", proposal |-> None, decision |-> None, card |-> None, version |-> 0,
         evidence |-> "none", export |-> None, report |-> None]

Init ==
    /\ proposal = [p \in Proposals |-> "proposed"]
    /\ decided = [p \in Proposals |-> {}]
    /\ source = [c \in Cards |-> None]
    /\ card = [c \in Cards |-> [v \in Versions |-> None]]
    /\ bundle = [c \in Cards |-> [v \in Versions |-> None]]
    /\ task = [c \in Cards |-> None]
    /\ export = [x \in Exports |-> None]
    /\ job = [x \in Exports |-> "absent"]
    /\ result = [r \in Reports |-> None]
    /\ local = [h \in Handlers |-> Idle]
    /\ requests = 0
    /\ crashes = 0
    /\ contested = {}
    /\ met = FALSE

At(h, pc) == local[h].pc = pc
Goto(h, pc) == local' = [local EXCEPT ![h].pc = pc]
Return(h) == local' = [local EXCEPT ![h] = Idle]

Begin(h, l) ==
    /\ At(h, "idle")
    /\ requests < MaxRequests
    /\ requests' = requests + 1
    /\ local' = [local EXCEPT ![h] = l]

Working(pcs) == {h \in Handlers : local[h].pc \in pcs}

(***************************************************************************)
(* Proposals.                                                              *)
(***************************************************************************)

Contest(pcs, p) ==
    contested' = IF \E g \in Working(pcs) : local[g].proposal = p
                 THEN contested \cup {p} ELSE contested

\* Mutant: the decision is not passed on.
DecideNothing(h, p, d) ==
    /\ proposal[p] = "proposed"
    /\ Begin(h, [Idle EXCEPT !.pc = "decide", !.proposal = p])
    /\ Contest({"decide", "log"}, p)
    /\ UNCHANGED <<proposal, decided, source, crashes>>
    /\ UNCHANGED specVars
    /\ UNCHANGED pineVars
\* Mutant: a decision replaces another.
DecideAgain(h, p, d) ==
    /\ Begin(h, [Idle EXCEPT !.pc = "decide", !.proposal = p, !.decision = d])
    /\ Contest({"decide", "log"}, p)
    /\ UNCHANGED <<proposal, decided, source, crashes>>
    /\ UNCHANGED specVars
    /\ UNCHANGED pineVars
\* decideProposal reads the row, updates it and inserts the decision.
DecideProposal(h, p, d) ==
    /\ proposal[p] = "proposed"
    /\ Begin(h, [Idle EXCEPT !.pc = "decide", !.proposal = p, !.decision = d])
    /\ Contest({"decide", "log"}, p)
    /\ UNCHANGED <<proposal, decided, source, crashes>>
    /\ UNCHANGED specVars
    /\ UNCHANGED pineVars

UpdateProposal(h) ==
    /\ At(h, "decide")
    /\ proposal' = [proposal EXCEPT ![local[h].proposal] = local[h].decision]
    /\ Goto(h, "log")
    /\ UNCHANGED <<decided, source, contested, requests, crashes>>
    /\ UNCHANGED specVars
    /\ UNCHANGED pineVars

InsertDecision(h) ==
    /\ At(h, "log")
    /\ decided' = [decided EXCEPT ![local[h].proposal] = @ \cup {local[h].decision}]
    /\ Return(h)
    /\ UNCHANGED <<proposal, source, contested, requests, crashes>>
    /\ UNCHANGED specVars
    /\ UNCHANGED pineVars

\* The proposal must be confirmed and not have a card, which no key ensures.
CreateCardFromProposal(h, p) ==
    /\ proposal[p] = "confirmed"
    /\ \A c \in Cards : source[c] # p
    /\ Begin(h, [Idle EXCEPT !.pc = "create", !.proposal = p])
    /\ Contest({"create"}, p)
    /\ UNCHANGED <<proposal, decided, source, crashes>>
    /\ UNCHANGED specVars
    /\ UNCHANGED pineVars

(***************************************************************************)
(* Cards: UNIQUE(card_id, version).                                        *)
(***************************************************************************)

\* Mutant: the row replaces one of the same version.
UpsertCard(c, v, row) ==
    /\ v \in Versions
    /\ card' = [card EXCEPT ![c][v] = row]
InsertCard(c, v, row) ==
    /\ v \in Versions
    /\ card[c][v] = None
    /\ card' = [card EXCEPT ![c][v] = row]

\* The id of the card is new, or given by the proposal.
SaveCard(h, c, body) ==
    /\ At(h, "create")
    /\ \/ /\ InsertCard(c, 1, [status |-> "draft", body |-> body])
          /\ source' = [source EXCEPT ![c] = local[h].proposal]
       \/ /\ card[c][1] # None
          /\ UNCHANGED <<card, source>>
    /\ Return(h)
    /\ UNCHANGED <<proposal, decided, contested, requests, crashes, bundle, task>>
    /\ UNCHANGED pineVars

ReviseCard(c, v, body) ==
    /\ card[c][v] # None
    /\ card[c][v].status # "confirmed"
    /\ InsertCard(c, v + 1, [status |-> "draft", body |-> body])
    /\ UNCHANGED <<bundle, task, local, requests, crashes>>
    /\ UNCHANGED proposalVars
    /\ UNCHANGED pineVars

\* The status is not looked at: a confirmed version can be confirmed again.
ConfirmHypothesisCard(c, v) ==
    /\ card[c][v] # None
    /\ InsertCard(c, v + 1, [card[c][v] EXCEPT !.status = "confirmed"])
    /\ UNCHANGED <<bundle, task, local, requests, crashes>>
    /\ UNCHANGED proposalVars
    /\ UNCHANGED pineVars

(***************************************************************************)
(* Bundles and tasks.                                                      *)
(***************************************************************************)

\* A data set that the card needs may be missing.
Compiled(body) == {"blocked", IF body = "portable" THEN "ready" ELSE "task"}

\* UNIQUE(card_record_id, version): one bundle of a card record, which is version 1.
GenerateResearchSpecBundle(h, c, v, compile) ==
    /\ card[c][v] # None
    /\ card[c][v].status = "confirmed"
    /\ bundle[c][v] = None
    /\ compile \in Compiled(card[c][v].body)
    /\ Begin(h, IF compile = "task" THEN [Idle EXCEPT !.pc = "task", !.card = c] ELSE Idle)
    /\ bundle' = [bundle EXCEPT ![c][v] = [status |-> "generated", compile |-> compile]]
    /\ UNCHANGED <<card, task, crashes>>
    /\ UNCHANGED proposalVars
    /\ UNCHANGED pineVars

\* The id of a task is made of the id of the card: that of a second bundle throws.
SaveTask(h) ==
    /\ At(h, "task")
    /\ task' = IF task[local[h].card] = None
               THEN [task EXCEPT ![local[h].card] = [status |-> "draft", evidence |-> "none"]]
               ELSE task
    /\ Return(h)
    /\ UNCHANGED <<card, bundle, requests, crashes>>
    /\ UNCHANGED proposalVars
    /\ UNCHANGED pineVars

\* Whatever it is compiled to: a bundle that is blocked can be approved.
ApproveResearchSpecBundle(c, v) ==
    /\ bundle[c][v] # None
    /\ bundle[c][v].status = "generated"
    /\ bundle' = [bundle EXCEPT ![c][v].status = "approved"]
    /\ UNCHANGED <<card, task, local, requests, crashes>>
    /\ UNCHANGED proposalVars
    /\ UNCHANGED pineVars

SubmitImplementationEvidence(h, c, evidence) ==
    /\ task[c] # None
    /\ task[c].status \in {"draft", "in_review"}
    /\ Begin(h, [Idle EXCEPT !.pc = "submit", !.card = c, !.evidence = evidence])
    /\ UNCHANGED crashes
    /\ UNCHANGED proposalVars
    /\ UNCHANGED specVars
    /\ UNCHANGED pineVars

WriteEvidence(h) ==
    /\ At(h, "submit")
    /\ task' = [task EXCEPT ![local[h].card] = [status |-> "in_review", evidence |-> local[h].evidence]]
    /\ Return(h)
    /\ UNCHANGED <<card, bundle, requests, crashes>>
    /\ UNCHANGED proposalVars
    /\ UNCHANGED pineVars

ApproveImplementationTask(h, c) ==
    /\ task[c] # None
    /\ task[c].status = "in_review"
    /\ task[c].evidence = "passing"
    /\ Begin(h, [Idle EXCEPT !.pc = "approve", !.card = c, !.evidence = task[c].evidence])
    /\ UNCHANGED crashes
    /\ UNCHANGED proposalVars
    /\ UNCHANGED specVars
    /\ UNCHANGED pineVars

\* Mutant: the evidence is left as it is by now.
WriteApprovalOnly(h) ==
    /\ At(h, "approve")
    /\ task' = [task EXCEPT ![local[h].card].status = "approved"]
    /\ Return(h)
    /\ UNCHANGED <<card, bundle, requests, crashes>>
    /\ UNCHANGED proposalVars
    /\ UNCHANGED pineVars
\* The approval writes back the evidence that was checked.
WriteApproval(h) ==
    /\ At(h, "approve")
    /\ task' = [task EXCEPT ![local[h].card] = [status |-> "approved", evidence |-> local[h].evidence]]
    /\ Return(h)
    /\ UNCHANGED <<card, bundle, requests, crashes>>
    /\ UNCHANGED proposalVars
    /\ UNCHANGED pineVars

(***************************************************************************)
(* Pine exports.                                                           *)
(***************************************************************************)

Saved == {x \in Exports : export[x] # None}
Ready == {x \in Saved : export[x].status = "ready"}
New(x) == job[x] = "absent" /\ \A g \in Handlers : local[g].export # x

\* generatePineExport: the quota is read here, the bundle in the next step.
GeneratePineExport(h, c, v, x) ==
    /\ Cardinality(Saved) < PineLimit
    /\ New(x)
    /\ Begin(h, [Idle EXCEPT !.pc = "quota", !.card = c, !.version = v, !.export = x])
    /\ met' = (met \/ Working(Exporting) # {})
    /\ UNCHANGED <<export, job, result, crashes>>
    /\ UNCHANGED proposalVars
    /\ UNCHANGED specVars

SavePineExportJob(h) ==
    LET b == bundle[local[h].card][local[h].version] IN
    /\ At(h, "quota")
    /\ IF b # None /\ b.status = "approved"
       THEN /\ job' = [job EXCEPT ![local[h].export] = "running"]
            /\ Goto(h, "supersede")
       ELSE /\ Return(h)
            /\ UNCHANGED job
    /\ UNCHANGED <<export, result, met, requests, crashes>>
    /\ UNCHANGED proposalVars
    /\ UNCHANGED specVars

\* Mutant: the ready exports stay.
SupersedeNone(h) ==
    /\ At(h, "supersede")
    /\ Goto(h, "save")
    /\ UNCHANGED <<export, job, result, met, requests, crashes>>
    /\ UNCHANGED proposalVars
    /\ UNCHANGED specVars
\* One UPDATE of every export of the program that is ready.
SupersedePineExports(h) ==
    /\ At(h, "supersede")
    /\ export' = [x \in Exports |->
           IF x \in Ready THEN [export[x] EXCEPT !.status = "superseded"] ELSE export[x]]
    /\ Goto(h, "save")
    /\ UNCHANGED <<job, result, met, requests, crashes>>
    /\ UNCHANGED proposalVars
    /\ UNCHANGED specVars

SavePineExport(h) ==
    /\ At(h, "save")
    /\ export' = [export EXCEPT ![local[h].export] =
           [status |-> "ready", card |-> local[h].card, version |-> local[h].version,
            parity |-> "provisional"]]
    /\ Goto(h, "finish")
    /\ UNCHANGED <<job, result, met, requests, crashes>>
    /\ UNCHANGED proposalVars
    /\ UNCHANGED specVars

FinishPineExportJob(h) ==
    /\ At(h, "finish")
    /\ job' = [job EXCEPT ![local[h].export] = "ready"]
    /\ Goto(h, "event")
    /\ UNCHANGED <<export, result, met, requests, crashes>>
    /\ UNCHANGED proposalVars
    /\ UNCHANGED specVars

AppendPineLifecycle(h) ==
    /\ At(h, "event")
    /\ Return(h)
    /\ UNCHANGED <<requests, crashes>>
    /\ UNCHANGED proposalVars
    /\ UNCHANGED specVars
    /\ UNCHANGED pineVars

\* The compiler, the storage or a statement throws: nothing is put back.
FailPineExportJob(h) ==
    /\ local[h].pc \in {"supersede", "save", "finish", "event"}
    /\ job' = [job EXCEPT ![local[h].export] = "failed"]
    /\ Return(h)
    /\ UNCHANGED <<export, result, met, requests, crashes>>
    /\ UNCHANGED proposalVars
    /\ UNCHANGED specVars

ComparePineExport(h, x, r) ==
    /\ x \in Saved
    /\ Begin(h, [Idle EXCEPT !.pc = "result", !.export = x, !.report = r])
    /\ UNCHANGED crashes
    /\ UNCHANGED proposalVars
    /\ UNCHANGED specVars
    /\ UNCHANGED pineVars

\* The hash does not name the export: the same comparison of another one is dropped.
SaveParity(h) ==
    /\ At(h, "result")
    /\ result' = IF result[local[h].report] = None
                 THEN [result EXCEPT ![local[h].report] = local[h].export]
                 ELSE result
    /\ Goto(h, "parity")
    /\ UNCHANGED <<export, job, met, requests, crashes>>
    /\ UNCHANGED proposalVars
    /\ UNCHANGED specVars

UpdatePineParity(h) ==
    /\ At(h, "parity")
    /\ export' = [export EXCEPT ![local[h].export].parity = VerdictOf[local[h].report]]
    /\ Return(h)
    /\ UNCHANGED <<job, result, met, requests, crashes>>
    /\ UNCHANGED proposalVars
    /\ UNCHANGED specVars

-----------------------------------------------------------------------------

Crash(h) ==
    /\ ~At(h, "idle")
    /\ crashes < MaxCrashes
    /\ crashes' = crashes + 1
    /\ Return(h)
    /\ UNCHANGED requests
    /\ UNCHANGED proposalVars
    /\ UNCHANGED specVars
    /\ UNCHANGED pineVars

ProposalStep(h) ==
    \/ \E p \in Proposals, d \in {"confirmed", "rejected"} : DecideProposal(h, p, d)
    \/ UpdateProposal(h)
    \/ InsertDecision(h)
    \/ \E p \in Proposals : CreateCardFromProposal(h, p)
    \/ \E c \in Cards, body \in Bodies : SaveCard(h, c, body)

CardStep(c, v) ==
    \/ \E body \in Bodies : ReviseCard(c, v, body)
    \/ ConfirmHypothesisCard(c, v)
    \/ ApproveResearchSpecBundle(c, v)

SpecStep(h, c) ==
    \/ \E v \in Versions, compile \in {"ready", "task", "blocked"} :
           GenerateResearchSpecBundle(h, c, v, compile)
    \/ \E evidence \in Evidence : SubmitImplementationEvidence(h, c, evidence)
    \/ ApproveImplementationTask(h, c)

TaskStep(h) ==
    \/ SaveTask(h)
    \/ WriteEvidence(h)
    \/ WriteApproval(h)

PineStep(h) ==
    \/ \E c \in Cards, v \in Versions, x \in Exports : GeneratePineExport(h, c, v, x)
    \/ SavePineExportJob(h)
    \/ SupersedePineExports(h)
    \/ SavePineExport(h)
    \/ FinishPineExportJob(h)
    \/ AppendPineLifecycle(h)
    \/ FailPineExportJob(h)
    \/ \E x \in Exports, r \in Reports : ComparePineExport(h, x, r)
    \/ SaveParity(h)
    \/ UpdatePineParity(h)

Next ==
    \/ \E h \in Handlers : ProposalStep(h) \/ TaskStep(h) \/ PineStep(h) \/ Crash(h)
    \/ \E h \in Handlers, c \in Cards : SpecStep(h, c)
    \/ \E c \in Cards, v \in Versions : CardStep(c, v)

Spec == Init /\ [][Next]_vars

-----------------------------------------------------------------------------
(***************************************************************************)
(* Properties.                                                             *)
(***************************************************************************)

TypeOK ==
    /\ proposal \in [Proposals -> {"proposed", "confirmed", "rejected"}]
    /\ decided \in [Proposals -> SUBSET {"confirmed", "rejected"}]
    /\ source \in [Cards -> Proposals \cup {None}]
    /\ card \in [Cards -> [Versions -> Card \cup {None}]]
    /\ bundle \in [Cards -> [Versions -> Bundle \cup {None}]]
    /\ task \in [Cards -> Task \cup {None}]
    /\ export \in [Exports -> Export \cup {None}]
    /\ job \in [Exports -> {"absent", "running", "ready", "failed"}]
    /\ result \in [Reports -> Exports \cup {None}]
    /\ local \in [Handlers -> Locals]
    /\ requests \in 0..MaxRequests
    /\ crashes \in 0..MaxCrashes
    /\ contested \in SUBSET Proposals
    /\ met \in BOOLEAN

\* A bundle is compiled from a confirmed version, and all the bundles of a card,
\* which share the ids of their strategy and of their task, say the same: nobody
\* can still revise a version from before the confirmation.
Confirmed(c, v) == card[c][v] # None /\ card[c][v].status = "confirmed"
OneStrategyPerCard ==
    \A c \in Cards, v, w \in Versions :
        /\ bundle[c][v] # None => Confirmed(c, v)
        /\ bundle[c][v] # None /\ bundle[c][w] # None => card[c][v].body = card[c][w].body

\* A card has a proposal that somebody confirmed, as long as no request has died
\* before it could say so.  Two requests at once may confirm and reject a proposal,
\* or make two cards of it; otherwise it has one decision, which is its status, and
\* one card.
Logging(p, d) == \E h \in Handlers : At(h, "log") /\ local[h].proposal = p /\ local[h].decision = d
DecisionsSound ==
    /\ crashes = 0 => \A c \in Cards : source[c] # None =>
           "confirmed" \in decided[source[c]] \/ Logging(source[c], "confirmed")
    /\ \A p \in Proposals \ contested :
           /\ decided[p] \subseteq {proposal[p]}
           /\ \A c, d \in Cards : source[c] = p /\ source[d] = p => c = d

\* Submissions and approvals overwrite each other, but an approved task holds the
\* passing evidence that was looked at; and as long as no request has died a bundle
\* that needs a task has one, although the task of a second bundle is refused.
TasksSound ==
    \A c \in Cards :
        /\ task[c] # None /\ task[c].status = "approved" => task[c].evidence = "passing"
        /\ \A v \in Versions :
               crashes = 0 /\ bundle[c][v] # None /\ bundle[c][v].compile = "task" =>
                   task[c] # None \/ \E h \in Handlers : At(h, "task") /\ local[h].card = c

\* An export is of an approved bundle and has a verdict only if one like it was
\* stored; a job that is ready has its export.  The program has at most one ready
\* export unless two were under way at once, and never more than can be.
OneReady ==
    /\ Cardinality(Ready) <= Cardinality(Handlers)
    /\ ~met => \A x, y \in Ready : x = y
ExportsBacked ==
    \A x \in Saved :
        /\ bundle[export[x].card][export[x].version] # None
        /\ bundle[export[x].card][export[x].version].status = "approved"
        /\ export[x].parity # "provisional" =>
               \E r \in Reports : result[r] # None /\ VerdictOf[r] = export[x].parity
JobsFinished ==
    \A x \in Exports :
        /\ job[x] = "ready" => x \in Saved
        /\ crashes = 0 /\ job[x] = "running" =>
               \E h \in Handlers : local[h].export = x /\ local[h].pc \in Exporting
PineExportsSound == OneReady /\ ExportsBacked /\ JobsFinished
=============================================================================

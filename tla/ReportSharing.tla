---------------------------- MODULE ReportSharing ----------------------------
(***************************************************************************)
(* What is published of one analysis: the snapshots of its report, the     *)
(* links that share them, and the addenda that reviewers of the research   *)
(* desk attach to them.  Every web request runs its statements one by one, *)
(* with those of the others in between.                                    *)
(*                                                                         *)
(* Abstractions.                                                           *)
(*  - A result of the analysis is its number; its checksum is its own, so  *)
(*    that a number names a result, its checksum and its snapshot.         *)
(*  - The analysis is completed whenever it is read.  A request may work   *)
(*    on a result that a later run has replaced.                           *)
(*  - A text is what the public addendum says.  An internal note is an     *)
(*    edit that gives neither a status nor a text.                         *)
(*  - Of the statuses a reviewer may set, "closed" stands for those that   *)
(*    no other step writes.                                                *)
(*  - Opening a link writes only its access log, and expires_at is looked  *)
(*    at only then: an expired link stays active.                          *)
(*  - A statement that throws has the effect of a crash.                   *)
(***************************************************************************)
EXTENDS Naturals, FiniteSets

CONSTANTS
    Handlers,       \* web requests and export workers at work at once
    Tokens,         \* share links
    Desk,           \* requests to the research desk
    Texts,          \* public addenda
    NoText,         \* no public addendum
    None,           \* nothing given, no row
    ShareLimit,     \* share_links_per_month of the account
    MaxResults,     \* bound: results of the analysis
    MaxRequests,    \* bound: requests begun
    MaxCrashes      \* bound: requests that die

ASSUME HandlersAssumption == IsFiniteSet(Handlers) /\ Handlers # {}
ASSUME TokensAssumption == IsFiniteSet(Tokens)
ASSUME TextsAssumption == NoText \notin Texts
ASSUME NoneAssumption == None \notin Texts \cup {NoText} \cup Desk
ASSUME BoundsAssumption ==
    ShareLimit \in Nat /\ MaxResults \in Nat \ {0} /\ MaxRequests \in Nat /\ MaxCrashes \in Nat

VARIABLES
    result,     \* the result of the analysis
    snapshot,   \* status of the snapshot of a result in report_snapshots
    token,      \* status of the rows of share_tokens
    desk,       \* status of the rows of research_desk_requests
    addendum,   \* the rows of report_reviewer_addenda, one for a request
    local,      \* locals of the requests
    requests,   \* number of requests begun
    crashes,    \* number of requests that have died
    overlap,    \* history: has an ensure met another since one last ran alone?
    ensured,    \* history: the result of the last ensure if it ran alone, or 0
    disturbed,  \* history: updates overlapped, died or set the status of a request
    vouched     \* history: the texts that a reviewer approved, or saw approved

vars == <<result, snapshot, token, desk, addendum, local, requests, crashes,
          overlap, ensured, disturbed, vouched>>
snapshotVars == <<result, snapshot, overlap, ensured>>
deskVars == <<desk, addendum, disturbed, vouched>>

Results == 1..MaxResults

Addendum == [status : {"draft", "approved"}, text : Texts \cup {NoText}]

ASSUME RowAssumption == None \notin Addendum

Ensuring == {"find", "mark", "save", "supersede"}
Updating == {"ask", "read", "upsert", "report"}

Locals == [pc : Ensuring \cup Updating \cup {"idle", "file", "count", "token"},
           of : Results \cup {0},       \* ensure: the result of the analysis it has read
           files : BOOLEAN,             \* ensure: for a request to the research desk
           on : Desk \cup {None},       \* update: the request, and what is given for it
           ask : {None, "approved", "closed"},
           edits : BOOLEAN,
           status : {None, "draft", "approved"},
           text : Texts \cup {None},
           row : Addendum \cup {None}]  \* update: the addendum to be written

Idle == [pc |-> "idle", of |-> 0, files |-> FALSE, on |-> None, ask |-> None,
         edits |-> FALSE, status |-> None, text |-> None, row |-> None]

Init ==
    /\ result = 1
    /\ snapshot = [r \in Results |-> "absent"]
    /\ token = [t \in Tokens |-> "absent"]
    /\ desk = [d \in Desk |-> "absent"]
    /\ addendum = [d \in Desk |-> None]
    /\ local = [h \in Handlers |-> Idle]
    /\ requests = 0
    /\ crashes = 0
    /\ overlap = FALSE
    /\ ensured = 0
    /\ disturbed = FALSE
    /\ vouched = [d \in Desk |-> {}]

At(h, pc) == local[h].pc = pc
Goto(h, pc) == local' = [local EXCEPT ![h].pc = pc]
Return(h) == local' = [local EXCEPT ![h] = Idle]

Begin(h, l) ==
    /\ At(h, "idle")
    /\ requests < MaxRequests
    /\ requests' = requests + 1
    /\ local' = [local EXCEPT ![h] = l]

Active == {r \in Results : snapshot[r] = "active"}
Live == {t \in Tokens : token[t] = "active"}
Busy(pcs) == {h \in Handlers : local[h].pc \in pcs}

(***************************************************************************)
(* Snapshots.                                                              *)
(***************************************************************************)

\* The analysis runs again and stores another result.
Rerun ==
    /\ result < MaxResults
    /\ result' = result + 1
    /\ UNCHANGED <<snapshot, token, local, requests, crashes, overlap, ensured>>
    /\ UNCHANGED deskVars

\* The caller reads the analysis and asks for the snapshot of its result: the page
\* of the report, an export, its worker, or a request to the research desk (files).
EnsureReportSnapshot(h, files) ==
    /\ Begin(h, [Idle EXCEPT !.pc = "find", !.of = result, !.files = files])
    /\ overlap' = (Busy(Ensuring) # {})
    /\ ensured' = 0
    /\ UNCHANGED <<result, snapshot, token, crashes>>
    /\ UNCHANGED deskVars

\* The snapshot is ensured: the caller goes on.
Ensured(h) ==
    /\ ensured' = IF overlap THEN 0 ELSE local[h].of
    /\ IF local[h].files THEN Goto(h, "file") ELSE Return(h)

FindSnapshot(h) ==
    /\ At(h, "find")
    /\ \/ /\ snapshot[local[h].of] = "active"
          /\ Ensured(h)
       \/ /\ snapshot[local[h].of] = "superseded"
          /\ Goto(h, "mark")
          /\ UNCHANGED ensured
       \/ /\ snapshot[local[h].of] = "absent"
          /\ Goto(h, "save")
          /\ UNCHANGED ensured
    /\ UNCHANGED <<result, snapshot, token, requests, crashes, overlap>>
    /\ UNCHANGED deskVars

\* An older result comes back when a slow request still holds it.
MarkActive(h) ==
    /\ At(h, "mark")
    /\ snapshot' = [snapshot EXCEPT ![local[h].of] = "active"]
    /\ Goto(h, "supersede")
    /\ UNCHANGED <<result, token, requests, crashes, overlap, ensured>>
    /\ UNCHANGED deskVars

\* The checksum of an analysis is unique: a second INSERT throws.
SaveSnapshot(h) ==
    /\ At(h, "save")
    /\ IF snapshot[local[h].of] = "absent"
       THEN /\ snapshot' = [snapshot EXCEPT ![local[h].of] = "active"]
            /\ Goto(h, "supersede")
       ELSE /\ snapshot' = snapshot
            /\ Return(h)
    /\ UNCHANGED <<result, token, requests, crashes, overlap, ensured>>
    /\ UNCHANGED deskVars

\* Mutant: only the snapshot that was active at first is superseded.
SupersedeOlder(h) ==
    /\ At(h, "supersede")
    /\ snapshot' = [r \in Results |->
           IF r < local[h].of /\ snapshot[r] = "active" THEN "superseded" ELSE snapshot[r]]
    /\ Ensured(h)
    /\ UNCHANGED <<result, token, requests, crashes, overlap>>
    /\ UNCHANGED deskVars
\* supersedeActiveForAnalysis: one UPDATE of the other active rows.
Supersede(h) ==
    /\ At(h, "supersede")
    /\ snapshot' = [r \in Results |->
           IF r # local[h].of /\ snapshot[r] = "active" THEN "superseded" ELSE snapshot[r]]
    /\ Ensured(h)
    /\ UNCHANGED <<result, token, requests, crashes, overlap>>
    /\ UNCHANGED deskVars

(***************************************************************************)
(* Share links.                                                            *)
(***************************************************************************)

\* createReportShare reads the snapshot, counts the links, saves one more.
CreateReportShare(h, r) ==
    /\ snapshot[r] = "active"
    /\ Begin(h, [Idle EXCEPT !.pc = "count"])
    /\ UNCHANGED <<token, crashes>>
    /\ UNCHANGED snapshotVars
    /\ UNCHANGED deskVars

\* Mutant: one link more than the plan allows.
CountSharesLoosely(h) ==
    /\ At(h, "count")
    /\ IF Cardinality(Live) > ShareLimit THEN Return(h) ELSE Goto(h, "token")
    /\ UNCHANGED <<token, requests, crashes>>
    /\ UNCHANGED snapshotVars
    /\ UNCHANGED deskVars
CountShares(h) ==
    /\ At(h, "count")
    /\ IF Cardinality(Live) >= ShareLimit THEN Return(h) ELSE Goto(h, "token")
    /\ UNCHANGED <<token, requests, crashes>>
    /\ UNCHANGED snapshotVars
    /\ UNCHANGED deskVars

SaveToken(h, t) ==
    /\ At(h, "token")
    /\ token[t] = "absent"
    /\ token' = [token EXCEPT ![t] = "active"]
    /\ Return(h)
    /\ UNCHANGED <<requests, crashes>>
    /\ UNCHANGED snapshotVars
    /\ UNCHANGED deskVars

\* The UPDATE of a row that nothing else updates.
RevokeReportShare(t) ==
    /\ token[t] = "active"
    /\ token' = [token EXCEPT ![t] = "revoked"]
    /\ UNCHANGED <<local, requests, crashes>>
    /\ UNCHANGED snapshotVars
    /\ UNCHANGED deskVars

(***************************************************************************)
(* The research desk.                                                      *)
(***************************************************************************)

\* createResearchDeskRequest, once the snapshot is ensured.
SaveRequest(h, d) ==
    /\ At(h, "file")
    /\ desk[d] = "absent"
    /\ desk' = [desk EXCEPT ![d] = "received"]
    /\ Return(h)
    /\ UNCHANGED <<token, requests, crashes, addendum, disturbed, vouched>>
    /\ UNCHANGED snapshotVars

\* A reviewer gives a status of the request, a status of the addendum, a text or a
\* note, and any of them together.
UpdateResearchDeskRequest(h, d, ask, edits, status, text) ==
    /\ desk[d] # "absent"
    /\ ask # None \/ edits
    /\ status # None \/ text # None => edits
    /\ Begin(h, [Idle EXCEPT !.pc = IF ask = None THEN "read" ELSE "ask", !.on = d,
                     !.ask = ask, !.edits = edits, !.status = status, !.text = text])
    /\ disturbed' = (disturbed \/ ask # None \/ Busy(Updating) # {})
    /\ UNCHANGED <<token, crashes, desk, addendum, vouched>>
    /\ UNCHANGED snapshotVars

SetRequestStatus(h) ==
    /\ At(h, "ask")
    /\ desk' = [desk EXCEPT ![local[h].on] = local[h].ask]
    /\ IF local[h].edits THEN Goto(h, "read") ELSE Return(h)
    /\ UNCHANGED <<token, requests, crashes, addendum, disturbed, vouched>>
    /\ UNCHANGED snapshotVars

\* Mutant: a new row has no status unless it is given.
GivenUndrafted(l, row) ==
    [status |-> IF l.status = None /\ row # None THEN row.status ELSE l.status,
     text |-> IF l.text # None THEN l.text
              ELSE IF row # None THEN row.text ELSE NoText]
\* What is not given is taken from the row, or is a draft without a text.
Given(l, row) ==
    [status |-> IF l.status # None THEN l.status
                ELSE IF row # None THEN row.status ELSE "draft",
     text |-> IF l.text # None THEN l.text
              ELSE IF row # None THEN row.text ELSE NoText]

ReadAddendum(h) ==
    /\ At(h, "read")
    /\ LET row == Given(local[h], addendum[local[h].on])
       IN  /\ local' = [local EXCEPT ![h].pc = "upsert", ![h].row = row]
           /\ vouched' = IF row.status = "approved"
                         THEN [vouched EXCEPT ![local[h].on] = @ \cup {row.text}]
                         ELSE vouched
    /\ UNCHANGED <<token, requests, crashes, desk, addendum, disturbed>>
    /\ UNCHANGED snapshotVars

\* With a status of the request of its own, only an approval changes it again.
Reports(l) == l.row.status = "approved" \/ l.ask = None

\* Mutant: the statement sets only the columns that are given.
UpsertGiven(h) ==
    /\ At(h, "upsert")
    /\ addendum' = [addendum EXCEPT ![local[h].on] = Given(local[h], @)]
    /\ IF Reports(local[h]) THEN Goto(h, "report") ELSE Return(h)
    /\ UNCHANGED <<token, requests, crashes, desk, disturbed, vouched>>
    /\ UNCHANGED snapshotVars
\* upsertAddendum: the whole row, whatever was written since it was read.
UpsertAddendum(h) ==
    /\ At(h, "upsert")
    /\ addendum' = [addendum EXCEPT ![local[h].on] = local[h].row]
    /\ IF Reports(local[h]) THEN Goto(h, "report") ELSE Return(h)
    /\ UNCHANGED <<token, requests, crashes, desk, disturbed, vouched>>
    /\ UNCHANGED snapshotVars

\* Mutant: a draft is reported only for a request that has just come in.
ReportFirstDraft(h) ==
    /\ At(h, "report")
    /\ desk' = [desk EXCEPT ![local[h].on] =
           IF local[h].row.status = "approved" THEN "approved"
           ELSE IF @ = "received" THEN "addendum_draft" ELSE @]
    /\ Return(h)
    /\ UNCHANGED <<token, requests, crashes, addendum, disturbed, vouched>>
    /\ UNCHANGED snapshotVars
ReportAddendum(h) ==
    /\ At(h, "report")
    /\ desk' = [desk EXCEPT ![local[h].on] =
           IF local[h].row.status = "approved" THEN "approved" ELSE "addendum_draft"]
    /\ Return(h)
    /\ UNCHANGED <<token, requests, crashes, addendum, disturbed, vouched>>
    /\ UNCHANGED snapshotVars

-----------------------------------------------------------------------------

Crash(h) ==
    /\ ~At(h, "idle")
    /\ crashes < MaxCrashes
    /\ crashes' = crashes + 1
    /\ disturbed' = (disturbed \/ local[h].pc \in Updating)
    /\ Return(h)
    /\ UNCHANGED <<token, requests, desk, addendum, vouched>>
    /\ UNCHANGED snapshotVars

RequestStep(h) ==
    \/ FindSnapshot(h)
    \/ MarkActive(h)
    \/ SaveSnapshot(h)
    \/ Supersede(h)
    \/ CountShares(h)
    \/ \E t \in Tokens : SaveToken(h, t)
    \/ \E d \in Desk : SaveRequest(h, d)
    \/ SetRequestStatus(h)
    \/ ReadAddendum(h)
    \/ UpsertAddendum(h)
    \/ ReportAddendum(h)
    \/ Crash(h)

Next ==
    \/ Rerun
    \/ \E h \in Handlers, files \in BOOLEAN : EnsureReportSnapshot(h, files)
    \/ \E h \in Handlers, r \in Results : CreateReportShare(h, r)
    \/ \E t \in Tokens : RevokeReportShare(t)
    \/ \E h \in Handlers, d \in Desk, ask \in {None, "approved", "closed"}, edits \in BOOLEAN,
          status \in {None, "draft", "approved"}, text \in Texts \cup {None} :
              UpdateResearchDeskRequest(h, d, ask, edits, status, text)
    \/ \E h \in Handlers : RequestStep(h)

Spec == Init /\ [][Next]_vars

-----------------------------------------------------------------------------
(***************************************************************************)
(* Properties.                                                             *)
(***************************************************************************)

TypeOK ==
    /\ result \in Results
    /\ snapshot \in [Results -> {"absent", "active", "superseded"}]
    /\ token \in [Tokens -> {"absent", "active", "revoked"}]
    /\ desk \in [Desk -> {"absent", "received", "addendum_draft", "approved", "closed"}]
    /\ addendum \in [Desk -> Addendum \cup {None}]
    /\ local \in [Handlers -> Locals]
    /\ requests \in 0..MaxRequests
    /\ crashes \in 0..MaxCrashes
    /\ overlap \in BOOLEAN
    /\ ensured \in Results \cup {0}
    /\ disturbed \in BOOLEAN
    /\ vouched \in [Desk -> SUBSET (Texts \cup {NoText})]

\* However many requests ensure a report at once, and however old the results they
\* hold: as long as none dies it has at most one active snapshot once nobody is
\* about to supersede the others.
OneActive == crashes = 0 /\ Busy({"supersede"}) = {} => \A r, s \in Active : r = s

\* Two of them may supersede each other and leave no active snapshot; the next that
\* runs alone, whatever died before it, returns one that can be shared.
EnsuredIsActive == ensured # 0 => snapshot[ensured] = "active"

\* The active snapshot of a report is unique, and comes back when it was lost.
SnapshotsSound == OneActive /\ EnsuredIsActive

\* The links are counted before one is saved: requests at once exceed the quota,
\* by less than there are requests.  (Of the active links of one analysis, as the code
\* counts them: a link that was revoked makes room, and the month is not looked at.)
QuotaOverrunBounded == Cardinality(Live) < ShareLimit + Cardinality(Handlers)

\* Reviewers overwrite each other's addenda, but what is shown as approved is a text in
\* the row that the request which approved it, or left it approved, had read or was given.
ApprovedTextVouched ==
    \A d \in Desk : addendum[d] # None /\ addendum[d].status = "approved"
        => addendum[d].text \in vouched[d]

\* The reviewed request and its addendum agree as long as updates come one by one,
\* none dies between the two rows, and no reviewer sets the status himself.
DeskAgrees ==
    ~disturbed /\ Busy(Updating) = {} =>
        \A d \in Desk : desk[d] = "approved" <=>
            addendum[d] # None /\ addendum[d].status = "approved"
=============================================================================

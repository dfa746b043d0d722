-------------------------- MODULE ReportSharingProofs --------------------------
(***************************************************************************)
(* Theorems about ReportSharing, for every number of requests at once, of  *)
(* results, links, requests to the desk and texts.                         *)
(***************************************************************************)
EXTENDS ReportSharing, FiniteSetTheorems, TLAPS

-----------------------------------------------------------------------------
(* Types, and what a busy request knows.                                   *)

LocalOK(l, dk) ==
    /\ l.pc \in Ensuring => l.of \in Results
    /\ l.pc \in Updating => l.on \in Desk /\ dk[l.on] # "absent"
    /\ l.pc = "ask" => l.ask # None
    /\ l.pc \in {"upsert", "report"} => l.row \in Addendum

Typed == TypeOK /\ \A h \in Handlers : LocalOK(local[h], desk)

\* A request that moves on keeps what it holds, and the others stand still.
LEMMA GotoFacts ==
    ASSUME Typed, NEW h \in Handlers,
           NEW pc \in Ensuring \cup Updating \cup {"idle", "file", "count", "token"}, Goto(h, pc)
    PROVE  /\ local' \in [Handlers -> Locals]
           /\ \A g \in Handlers : g # h => local'[g] = local[g]
           /\ local'[h].pc = pc /\ local'[h].of = local[h].of /\ local'[h].on = local[h].on
           /\ local'[h].ask = local[h].ask /\ local'[h].row = local[h].row
           /\ local'[h].edits = local[h].edits
<1> DEFINE l == [local[h] EXCEPT !.pc = pc]
<1>1. local \in [Handlers -> Locals] /\ local[h] \in Locals
  BY DEF Typed, TypeOK
<1>2. /\ l \in Locals /\ l.pc = pc /\ l.of = local[h].of /\ l.on = local[h].on
      /\ l.ask = local[h].ask /\ l.row = local[h].row /\ l.edits = local[h].edits
  BY <1>1 DEF Locals
<1>3. local' = [local EXCEPT ![h] = l]
  BY <1>1 DEF Goto
<1> HIDE DEF l
<1>4. QED
  BY <1>1, <1>2, <1>3

LEMMA IdleLocal == Idle \in Locals /\ Idle.pc = "idle"
BY DEF Idle, Locals

\* A request that ends, or that begins, has the locals l.
LEMMA PutFacts ==
    ASSUME Typed, NEW h \in Handlers, NEW l \in Locals, local' = [local EXCEPT ![h] = l]
    PROVE  /\ local' \in [Handlers -> Locals]
           /\ \A g \in Handlers : g # h => local'[g] = local[g]
           /\ local'[h] = l
BY DEF Typed, TypeOK

LEMMA ReturnFacts ==
    ASSUME Typed, NEW h \in Handlers, Return(h)
    PROVE  /\ local' \in [Handlers -> Locals]
           /\ \A g \in Handlers : g # h => local'[g] = local[g]
           /\ local'[h] = Idle /\ local'[h].pc = "idle"
BY IdleLocal, PutFacts DEF Return

\* The locals with which requests begin.
LEMMA BeginLocals ==
    /\ \A r \in Results, files \in BOOLEAN :
        LET l == [Idle EXCEPT !.pc = "find", !.of = r, !.files = files]
        IN  l \in Locals /\ l.pc = "find" /\ l.of = r
    /\ LET l == [Idle EXCEPT !.pc = "count"] IN l \in Locals /\ l.pc = "count"
BY IdleLocal DEF Idle, Locals, Ensuring

UpdateLocal(d, ask, edits, status, text) ==
    [Idle EXCEPT !.pc = IF ask = None THEN "read" ELSE "ask", !.on = d,
                 !.ask = ask, !.edits = edits, !.status = status, !.text = text]

LEMMA UpdateLocals ==
    ASSUME NEW d \in Desk, NEW ask \in {None, "approved", "closed"}, NEW edits \in BOOLEAN,
           NEW status \in {None, "draft", "approved"}, NEW text \in Texts \cup {None}
    PROVE  LET l == UpdateLocal(d, ask, edits, status, text)
           IN  /\ l \in Locals /\ l.on = d /\ l.ask = ask
               /\ l.pc = IF ask = None THEN "read" ELSE "ask"
<1> DEFINE pc == IF ask = None THEN "read" ELSE "ask"
<1>1. pc \in {"read", "ask"}
  OBVIOUS
<1> HIDE DEF pc
<1>2. LET l == [Idle EXCEPT !.pc = pc, !.on = d, !.ask = ask, !.edits = edits, !.status = status, !.text = text]
      IN  l \in Locals /\ l.on = d /\ l.ask = ask /\ l.pc = pc
  BY <1>1 DEF Idle, Locals, Updating
<1>3. QED
  BY <1>2 DEF pc, UpdateLocal

\* The row to be written is a row.
LEMMA GivenType ==
    ASSUME NEW l \in Locals, NEW row \in Addendum \cup {None}
    PROVE  Given(l, row) \in Addendum
BY NoneAssumption DEF Given, Addendum, Locals

\* A request that reads the addendum holds the row that it will write.
LEMMA ReadFacts ==
    ASSUME Typed, NEW h \in Handlers, ReadAddendum(h)
    PROVE  LET row == Given(local[h], addendum[local[h].on])
           IN  /\ row \in Addendum
               /\ local' \in [Handlers -> Locals]
               /\ \A g \in Handlers : g # h => local'[g] = local[g]
               /\ local'[h].pc = "upsert" /\ local'[h].of = local[h].of /\ local'[h].on = local[h].on
               /\ local'[h].ask = local[h].ask /\ local'[h].row = row
               /\ vouched' = IF row.status = "approved"
                             THEN [vouched EXCEPT ![local[h].on] = vouched[local[h].on] \cup {row.text}]
                             ELSE vouched
<1> DEFINE row == Given(local[h], addendum[local[h].on])
           l == [local[h] EXCEPT !.pc = "upsert", !.row = row]
<1>1. local \in [Handlers -> Locals] /\ local[h] \in Locals /\ local[h].on \in Desk
  BY DEF Typed, TypeOK, LocalOK, ReadAddendum, At, Updating
<1>2. row \in Addendum
  BY <1>1, GivenType DEF Typed, TypeOK
<1>3. /\ local' = [local EXCEPT ![h] = l]
      /\ vouched' = IF row.status = "approved"
                    THEN [vouched EXCEPT ![local[h].on] = vouched[local[h].on] \cup {row.text}]
                    ELSE vouched
  BY <1>1 DEF ReadAddendum
<1> HIDE DEF row
<1>4. /\ l \in Locals /\ l.pc = "upsert" /\ l.of = local[h].of /\ l.on = local[h].on
      /\ l.ask = local[h].ask /\ l.row = row
  BY <1>1, <1>2 DEF Locals, Updating
<1> HIDE DEF l
<1>5. QED
  BY <1>1, <1>2, <1>3, <1>4 DEF row

\* The others still know what they knew.
LEMMA OthersOK ==
    ASSUME Typed, NEW h \in Handlers, \A g \in Handlers : g # h => local'[g] = local[g],
           \A d \in Desk : desk[d] # "absent" => desk'[d] # "absent",
           LocalOK(local'[h], desk')
    PROVE  \A g \in Handlers : LocalOK(local'[g], desk')
<1>1. ASSUME NEW g \in Handlers, g # h PROVE LocalOK(local[g], desk')
  <2>1. LocalOK(local[g], desk)
    BY DEF Typed
  <2>2. QED
    BY <2>1 DEF LocalOK
<1>2. QED
  BY <1>1

\* Types of the steps of one request that ensures a snapshot.
LEMMA EnsureTyped ==
    ASSUME Typed, NEW h \in Handlers,
           FindSnapshot(h) \/ MarkActive(h) \/ SaveSnapshot(h) \/ Supersede(h)
    PROVE  Typed'
<1>1. local[h].of \in Results /\ local[h].pc \in Ensuring
  BY DEF Typed, LocalOK, FindSnapshot, MarkActive, SaveSnapshot, Supersede, At, Ensuring
<1>2. UNCHANGED <<result, token, desk, addendum, requests, crashes, overlap, disturbed, vouched>>
  BY DEF FindSnapshot, MarkActive, SaveSnapshot, Supersede, deskVars
<1>3. \/ \E pc \in {"file", "mark", "save", "supersede"} : Goto(h, pc)
      \/ Return(h)
  BY DEF FindSnapshot, MarkActive, SaveSnapshot, Supersede, Ensured
<1>4. local' \in [Handlers -> Locals] /\ (\A g \in Handlers : g # h => local'[g] = local[g])
      /\ LocalOK(local'[h], desk')
  <2>1. ASSUME NEW pc \in {"file", "mark", "save", "supersede"}, Goto(h, pc)
        PROVE  /\ local' \in [Handlers -> Locals] /\ \A g \in Handlers : g # h => local'[g] = local[g]
               /\ LocalOK(local'[h], desk')
    <3>1. pc \in Ensuring \cup Updating \cup {"idle", "file", "count", "token"}
      BY DEF Ensuring
    <3>2. QED
      BY <1>1, <2>1, <3>1, GotoFacts DEF LocalOK, Updating
  <2>2. CASE Return(h)
    BY <2>2, ReturnFacts DEF LocalOK, Ensuring, Updating
  <2>3. QED
    BY <1>3, <2>1, <2>2
<1>5. snapshot' \in [Results -> {"absent", "active", "superseded"}]
  BY <1>1 DEF Typed, TypeOK, FindSnapshot, MarkActive, SaveSnapshot, Supersede
<1>6. ensured' \in Results \cup {0}
  BY <1>1 DEF Typed, TypeOK, FindSnapshot, MarkActive, SaveSnapshot, Supersede, Ensured
<1>7. \A g \in Handlers : LocalOK(local'[g], desk')
  BY <1>2, <1>4, OthersOK
<1>8. QED
  BY <1>2, <1>4, <1>5, <1>6, <1>7 DEF Typed, TypeOK

\* Of the steps that share a report.
LEMMA ShareTyped ==
    ASSUME Typed, NEW h \in Handlers, CountShares(h) \/ \E t \in Tokens : SaveToken(h, t)
    PROVE  Typed'
<1>1. UNCHANGED <<result, snapshot, desk, addendum, requests, crashes, overlap, ensured, disturbed, vouched>>
  BY DEF CountShares, SaveToken, snapshotVars, deskVars
<1>2. Goto(h, "token") \/ Return(h)
  BY DEF CountShares, SaveToken
<1>3. local' \in [Handlers -> Locals] /\ (\A g \in Handlers : g # h => local'[g] = local[g])
      /\ LocalOK(local'[h], desk')
  BY <1>2, GotoFacts, ReturnFacts DEF LocalOK, Updating, Ensuring
<1>4. token' \in [Tokens -> {"absent", "active", "revoked"}]
  BY DEF Typed, TypeOK, CountShares, SaveToken
<1>5. \A g \in Handlers : LocalOK(local'[g], desk')
  BY <1>1, <1>3, OthersOK
<1>6. QED
  BY <1>1, <1>3, <1>4, <1>5 DEF Typed, TypeOK

\* Of the steps at the desk.
LEMMA DeskTyped ==
    ASSUME Typed, NEW h \in Handlers,
           \/ \E d \in Desk : SaveRequest(h, d)
           \/ SetRequestStatus(h)
           \/ ReadAddendum(h)
           \/ UpsertAddendum(h)
           \/ ReportAddendum(h)
    PROVE  Typed'
<1>t. TypeOK /\ LocalOK(local[h], desk) /\ local[h] \in Locals
  BY DEF Typed, TypeOK
<1>1. UNCHANGED <<result, snapshot, token, requests, crashes, overlap, ensured, disturbed>>
  BY DEF SaveRequest, SetRequestStatus, ReadAddendum, UpsertAddendum, ReportAddendum, snapshotVars
<1>2. ASSUME NEW d \in Desk, SaveRequest(h, d) PROVE Typed'
  <2>1. local' \in [Handlers -> Locals] /\ (\A g \in Handlers : g # h => local'[g] = local[g])
        /\ LocalOK(local'[h], desk')
    BY <1>2, ReturnFacts DEF SaveRequest, LocalOK, Updating, Ensuring
  <2>2. /\ desk' \in [Desk -> {"absent", "received", "addendum_draft", "approved", "closed"}]
        /\ \A e \in Desk : desk[e] # "absent" => desk'[e] # "absent"
    BY <1>2, <1>t DEF SaveRequest, TypeOK
  <2>3. \A g \in Handlers : LocalOK(local'[g], desk')
    BY <2>1, <2>2, OthersOK
  <2>4. QED
    BY <1>1, <1>2, <1>t, <2>1, <2>2, <2>3 DEF Typed, TypeOK, SaveRequest
<1>3. ASSUME SetRequestStatus(h) PROVE Typed'
  <2>1. local[h].on \in Desk /\ local[h].ask \in {"approved", "closed"}
    BY <1>3, <1>t DEF SetRequestStatus, At, LocalOK, Updating, Locals
  <2>2. /\ desk' \in [Desk -> {"absent", "received", "addendum_draft", "approved", "closed"}]
        /\ desk'[local[h].on] # "absent"
        /\ \A e \in Desk : desk[e] # "absent" => desk'[e] # "absent"
    BY <1>3, <1>t, <2>1 DEF SetRequestStatus, TypeOK
  <2>3. Goto(h, "read") \/ Return(h)
    BY <1>3 DEF SetRequestStatus
  <2>4. local' \in [Handlers -> Locals] /\ (\A g \in Handlers : g # h => local'[g] = local[g])
        /\ LocalOK(local'[h], desk')
    BY <2>1, <2>2, <2>3, GotoFacts, ReturnFacts DEF LocalOK, Updating, Ensuring
  <2>5. \A g \in Handlers : LocalOK(local'[g], desk')
    BY <2>2, <2>4, OthersOK
  <2>6. QED
    BY <1>1, <1>3, <1>t, <2>2, <2>4, <2>5 DEF Typed, TypeOK, SetRequestStatus
<1>4. ASSUME ReadAddendum(h) PROVE Typed'
  <2> DEFINE row == Given(local[h], addendum[local[h].on])
  <2>1. /\ row \in Addendum
        /\ local' \in [Handlers -> Locals]
        /\ \A g \in Handlers : g # h => local'[g] = local[g]
        /\ local'[h].pc = "upsert" /\ local'[h].on = local[h].on /\ local'[h].row = row
        /\ vouched' = IF row.status = "approved"
                      THEN [vouched EXCEPT ![local[h].on] = vouched[local[h].on] \cup {row.text}]
                      ELSE vouched
    BY <1>4, ReadFacts
  <2> HIDE DEF row
  <2>2. local[h].on \in Desk /\ desk[local[h].on] # "absent" /\ UNCHANGED <<desk, addendum>>
    BY <1>4, <1>t DEF ReadAddendum, At, LocalOK, Updating
  <2>3. LocalOK(local'[h], desk')
    BY <2>1, <2>2 DEF LocalOK, Updating, Ensuring
  <2>4. \A g \in Handlers : LocalOK(local'[g], desk')
    BY <2>1, <2>2, <2>3, OthersOK
  <2>5. row.text \in Texts \cup {NoText}
    BY <2>1 DEF Addendum
  <2>6. vouched' \in [Desk -> SUBSET (Texts \cup {NoText})]
    BY <1>t, <2>1, <2>2, <2>5 DEF TypeOK
  <2>7. QED
    BY <1>1, <1>t, <2>1, <2>2, <2>4, <2>6 DEF Typed, TypeOK
<1>5. ASSUME UpsertAddendum(h) PROVE Typed'
  <2>1. local[h].on \in Desk /\ desk[local[h].on] # "absent" /\ local[h].row \in Addendum
    BY <1>5, <1>t DEF UpsertAddendum, At, LocalOK, Updating
  <2>2. UNCHANGED <<desk, vouched>> /\ (Goto(h, "report") \/ Return(h))
    BY <1>5 DEF UpsertAddendum
  <2>3. addendum' \in [Desk -> Addendum \cup {None}]
    BY <1>5, <1>t, <2>1 DEF UpsertAddendum, TypeOK
  <2>4. local' \in [Handlers -> Locals] /\ (\A g \in Handlers : g # h => local'[g] = local[g])
        /\ LocalOK(local'[h], desk')
    BY <2>1, <2>2, GotoFacts, ReturnFacts DEF LocalOK, Updating, Ensuring
  <2>5. \A g \in Handlers : LocalOK(local'[g], desk')
    BY <2>2, <2>4, OthersOK
  <2>6. QED
    BY <1>1, <1>t, <2>2, <2>3, <2>4, <2>5 DEF Typed, TypeOK
<1>6. ASSUME ReportAddendum(h) PROVE Typed'
  <2>1. local' \in [Handlers -> Locals] /\ (\A g \in Handlers : g # h => local'[g] = local[g])
        /\ LocalOK(local'[h], desk')
    BY <1>6, ReturnFacts DEF ReportAddendum, LocalOK, Updating, Ensuring
  <2>2. /\ desk' \in [Desk -> {"absent", "received", "addendum_draft", "approved", "closed"}]
        /\ \A e \in Desk : desk[e] # "absent" => desk'[e] # "absent"
    BY <1>6, <1>t DEF ReportAddendum, TypeOK
  <2>3. \A g \in Handlers : LocalOK(local'[g], desk')
    BY <2>1, <2>2, OthersOK
  <2>4. QED
    BY <1>1, <1>6, <1>t, <2>1, <2>2, <2>3 DEF Typed, TypeOK, ReportAddendum
<1>7. QED
  BY <1>2, <1>3, <1>4, <1>5, <1>6

\* Of the first step of a request.
LEMMA BeginTyped ==
    ASSUME Typed, NEW h \in Handlers, NEW l \in Locals, Begin(h, l), LocalOK(l, desk),
           UNCHANGED <<result, snapshot, token, desk, addendum, crashes, vouched>>,
           overlap' \in BOOLEAN, ensured' \in Results \cup {0}, disturbed' \in BOOLEAN
    PROVE  Typed'
<1>1. local' = [local EXCEPT ![h] = l]
  BY DEF Begin
<1>2. local' \in [Handlers -> Locals] /\ (\A g \in Handlers : g # h => local'[g] = local[g])
      /\ LocalOK(local'[h], desk')
  BY <1>1, PutFacts
<1>3. \A g \in Handlers : LocalOK(local'[g], desk')
  BY <1>2, OthersOK
<1>4. requests' \in 0..MaxRequests
  BY BoundsAssumption DEF Begin, Typed, TypeOK
<1>5. QED
  BY <1>2, <1>3, <1>4 DEF Typed, TypeOK

LEMMA TypedStep == Typed /\ [Next]_vars => Typed'
<1> SUFFICES ASSUME Typed, [Next]_vars PROVE Typed'
  OBVIOUS
<1>t. TypeOK
  BY DEF Typed
<1>1. CASE Rerun
  <2>1. result' \in Results /\ UNCHANGED <<snapshot, token, local, requests, crashes, overlap, ensured>>
        /\ UNCHANGED deskVars
    BY <1>1, <1>t, BoundsAssumption DEF Rerun, TypeOK, Results
  <2>2. QED
    BY <2>1 DEF Typed, TypeOK, deskVars
<1>2. ASSUME NEW h \in Handlers, NEW files \in BOOLEAN, EnsureReportSnapshot(h, files) PROVE Typed'
  <2> DEFINE l == [Idle EXCEPT !.pc = "find", !.of = result, !.files = files]
  <2>1. l \in Locals /\ l.pc = "find" /\ l.of = result
    BY <1>t, BeginLocals DEF TypeOK
  <2>2. Begin(h, l)
    BY <1>2 DEF EnsureReportSnapshot
  <2> HIDE DEF l
  <2>3. LocalOK(l, desk)
    BY <1>t, <2>1 DEF LocalOK, Updating, TypeOK
  <2>4. QED
    BY <1>2, <1>t, <2>1, <2>2, <2>3, BeginTyped DEF EnsureReportSnapshot, deskVars, TypeOK
<1>3. ASSUME NEW h \in Handlers, NEW r \in Results, CreateReportShare(h, r) PROVE Typed'
  <2> DEFINE l == [Idle EXCEPT !.pc = "count"]
  <2>1. l \in Locals /\ l.pc = "count"
    BY BeginLocals
  <2>2. Begin(h, l)
    BY <1>3 DEF CreateReportShare
  <2> HIDE DEF l
  <2>3. LocalOK(l, desk)
    BY <2>1 DEF LocalOK, Updating, Ensuring
  <2>4. QED
    BY <1>3, <1>t, <2>1, <2>2, <2>3, BeginTyped
       DEF CreateReportShare, deskVars, snapshotVars, TypeOK
<1>4. ASSUME NEW t \in Tokens, RevokeReportShare(t) PROVE Typed'
  <2>1. token' \in [Tokens -> {"absent", "active", "revoked"}]
        /\ UNCHANGED <<local, requests, crashes, snapshotVars, deskVars>>
    BY <1>4, <1>t DEF RevokeReportShare, TypeOK
  <2>2. QED
    BY <2>1 DEF Typed, TypeOK, deskVars, snapshotVars
<1>5. ASSUME NEW h \in Handlers, NEW d \in Desk, NEW ask \in {None, "approved", "closed"},
             NEW edits \in BOOLEAN, NEW status \in {None, "draft", "approved"},
             NEW text \in Texts \cup {None}, UpdateResearchDeskRequest(h, d, ask, edits, status, text)
      PROVE  Typed'
  <2> DEFINE l == UpdateLocal(d, ask, edits, status, text)
  <2>1. l \in Locals /\ l.on = d /\ l.ask = ask /\ l.pc = IF ask = None THEN "read" ELSE "ask"
    BY UpdateLocals
  <2>2. Begin(h, l) /\ desk[d] # "absent"
    BY <1>5 DEF UpdateResearchDeskRequest, UpdateLocal
  <2> HIDE DEF l
  <2>3. LocalOK(l, desk)
    BY <2>1, <2>2 DEF LocalOK, Ensuring
  <2>4. QED
    BY <1>5, <1>t, <2>1, <2>2, <2>3, BeginTyped DEF UpdateResearchDeskRequest, snapshotVars, TypeOK
<1>6. ASSUME NEW h \in Handlers, Crash(h) PROVE Typed'
  <2>1. local' \in [Handlers -> Locals] /\ (\A g \in Handlers : g # h => local'[g] = local[g])
        /\ LocalOK(local'[h], desk')
    BY <1>6, ReturnFacts DEF Crash, LocalOK, Updating, Ensuring
  <2>2. \A g \in Handlers : LocalOK(local'[g], desk')
    BY <1>6, <2>1, OthersOK DEF Crash
  <2>3. crashes' \in 0..MaxCrashes /\ disturbed' \in BOOLEAN
    BY <1>6, <1>t, BoundsAssumption DEF Crash, TypeOK
  <2>4. QED
    BY <1>6, <1>t, <2>1, <2>2, <2>3 DEF Crash, Typed, TypeOK, snapshotVars
<1>7. ASSUME NEW h \in Handlers, RequestStep(h) PROVE Typed'
  BY <1>6, <1>7, EnsureTyped, ShareTyped, DeskTyped DEF RequestStep
<1>8. CASE UNCHANGED vars
  BY <1>8 DEF vars, Typed, TypeOK
<1>9. QED
  BY <1>1, <1>2, <1>3, <1>4, <1>5, <1>7, <1>8 DEF Next

LEMMA TypedInit == Init => Typed
<1> SUFFICES ASSUME Init PROVE Typed
  OBVIOUS
<1>1. 1 \in Results /\ 0 \in 0..MaxRequests /\ 0 \in 0..MaxCrashes
  BY BoundsAssumption DEF Results
<1>2. TypeOK
  BY <1>1, IdleLocal DEF Init, TypeOK
<1>3. \A h \in Handlers : LocalOK(local[h], desk)
  BY IdleLocal DEF Init, LocalOK, Ensuring, Updating
<1>4. QED
  BY <1>2, <1>3 DEF Typed

LEMMA TypedAlways == Spec => []Typed
BY TypedInit, TypedStep, PTL DEF Spec

\* The rows and the locals of the requests keep their types: a row of addenda is
\* always complete (research-desk-service.ts updateResearchDeskRequest).
THEOREM TypeCorrect == Spec => []TypeOK
<1>1. Typed => TypeOK
  BY DEF Typed
<1>2. QED
  BY <1>1, TypedAlways, PTL

-----------------------------------------------------------------------------
(* Snapshots.                                                              *)

\* Of two active snapshots one belongs to a request about to supersede the other.
Paired == crashes = 0 =>
    \A r, s \in Active : \/ r = s
                         \/ \E h \in Handlers : At(h, "supersede") /\ local[h].of \in {r, s}

OneEnsures == ~overlap =>
    \A g, h \in Handlers : local[g].pc \in Ensuring /\ local[h].pc \in Ensuring => g = h

HeldActive == ~overlap =>
    \A h \in Handlers : At(h, "supersede") => snapshot[local[h].of] = "active"

EnsuredAlone == ensured # 0 =>
    snapshot[ensured] = "active" /\ \A h \in Handlers : local[h].pc \notin Ensuring

Shown == Paired /\ OneEnsures /\ HeldActive /\ EnsuredAlone

\* Steps of requests that do not ensure a snapshot, and deaths, disturb nothing.
LEMMA ShownElsewhere ==
    ASSUME Typed, Shown, UNCHANGED snapshotVars, crashes' \in Nat, crashes' >= crashes,
           NEW h \in Handlers, \A g \in Handlers : g # h => local'[g] = local[g],
           local'[h].pc \notin Ensuring,
           At(h, "supersede") => crashes' # 0
    PROVE  Shown'
<1>0. /\ UNCHANGED <<snapshot, overlap, ensured>> /\ Active' = Active
      /\ crashes \in Nat
  BY DEF snapshotVars, Active, Typed, TypeOK
<1>1. Paired'
  <2> SUFFICES ASSUME crashes' = 0, NEW r \in Active, NEW s \in Active, r # s
               PROVE  \E k \in Handlers : local'[k].pc = "supersede" /\ local'[k].of \in {r, s}
    BY <1>0 DEF Paired, At
  <2>1. crashes = 0
    BY <1>0
  <2>2. PICK k \in Handlers : At(k, "supersede") /\ local[k].of \in {r, s}
    BY <2>1 DEF Shown, Paired
  <2>3. k # h
    BY <2>2
  <2>4. QED
    BY <2>2, <2>3 DEF At
<1>2. OneEnsures'
  BY <1>0 DEF Shown, OneEnsures
<1>3. HeldActive'
  BY <1>0 DEF Shown, HeldActive, At, Ensuring
<1>4. EnsuredAlone'
  BY <1>0 DEF Shown, EnsuredAlone
<1>5. QED
  BY <1>1, <1>2, <1>3, <1>4 DEF Shown

\* A request that has ensured its snapshot ran alone, or ensured is 0.
LEMMA EnsuredFacts ==
    ASSUME Typed, Shown, NEW h \in Handlers, local[h].pc \in Ensuring, Ensured(h),
           UNCHANGED overlap, snapshot'[local[h].of] = "active" \/ overlap
    PROVE  /\ OneEnsures' /\ EnsuredAlone'
           /\ local'[h].pc \notin Ensuring
           /\ \A g \in Handlers : g # h => local'[g] = local[g]
<1>1. local'[h].pc \notin Ensuring /\ \A g \in Handlers : g # h => local'[g] = local[g]
  <2>1. Goto(h, "file") \/ Return(h)
    BY DEF Ensured
  <2>2. QED
    BY <2>1, GotoFacts, ReturnFacts DEF Ensuring
<1>2. OneEnsures'
  BY <1>1 DEF Shown, OneEnsures
<1>3. EnsuredAlone'
  <2> SUFFICES ASSUME ensured' # 0 PROVE EnsuredAlone'
    BY DEF EnsuredAlone
  <2>1. ~overlap /\ ensured' = local[h].of
    BY DEF Ensured
  <2>2. \A g \in Handlers : g # h => local[g].pc \notin Ensuring
    BY <2>1 DEF Shown, OneEnsures
  <2>3. QED
    BY <1>1, <2>1, <2>2 DEF EnsuredAlone
<1>4. QED
  BY <1>1, <1>2, <1>3

LEMMA ShownFind == ASSUME Typed, Shown, NEW h \in Handlers, FindSnapshot(h) PROVE Shown'
<1>0. /\ local[h].pc = "find" /\ UNCHANGED <<snapshot, crashes, overlap>>
      /\ local[h].pc \in Ensuring /\ Active' = Active
  BY DEF FindSnapshot, At, Ensuring, Active
<1>1. \/ snapshot[local[h].of] = "active" /\ Ensured(h)
      \/ (Goto(h, "mark") \/ Goto(h, "save")) /\ UNCHANGED ensured
  BY DEF FindSnapshot
<1>2. /\ \A g \in Handlers : g # h => local'[g] = local[g]
      /\ local'[h].pc # "supersede" /\ OneEnsures' /\ EnsuredAlone'
  <2>1. CASE snapshot[local[h].of] = "active" /\ Ensured(h)
    BY <1>0, <2>1, EnsuredFacts DEF Ensuring
  <2>2. CASE (Goto(h, "mark") \/ Goto(h, "save")) /\ UNCHANGED ensured
    <3>1. /\ \A g \in Handlers : g # h => local'[g] = local[g]
          /\ local'[h].pc \in {"mark", "save"}
      BY <2>2, GotoFacts DEF Ensuring
    <3>2. QED
      BY <1>0, <2>2, <3>1 DEF Shown, OneEnsures, EnsuredAlone
  <2>3. QED
    BY <1>1, <2>1, <2>2
<1>3. HeldActive'
  BY <1>0, <1>2 DEF Shown, HeldActive, At
<1>4. Paired'
  <2> SUFFICES ASSUME crashes = 0, NEW r \in Active, NEW s \in Active, r # s
               PROVE  \E k \in Handlers : local'[k].pc = "supersede" /\ local'[k].of \in {r, s}
    BY <1>0 DEF Paired, At
  <2>1. PICK k \in Handlers : At(k, "supersede") /\ local[k].of \in {r, s}
    BY DEF Shown, Paired
  <2>2. k # h
    BY <1>0, <2>1 DEF At
  <2>3. QED
    BY <1>2, <2>1, <2>2 DEF At
<1>5. QED
  BY <1>2, <1>3, <1>4 DEF Shown

\* The snapshot that a request makes active is the one that it holds.
LEMMA ShownWrite ==
    ASSUME Typed, Shown, NEW h \in Handlers, MarkActive(h) \/ SaveSnapshot(h)
    PROVE  Shown'
<1>0. /\ local[h].pc \in {"mark", "save"} /\ local[h].pc \in Ensuring
      /\ local[h].of \in Results
      /\ UNCHANGED <<crashes, overlap, ensured>>
  BY DEF MarkActive, SaveSnapshot, At, Ensuring, Typed, LocalOK
<1>1. \/ /\ snapshot' = [snapshot EXCEPT ![local[h].of] = "active"]
         /\ Goto(h, "supersede")
      \/ snapshot' = snapshot /\ Return(h)
  BY DEF MarkActive, SaveSnapshot
<1>2. \A g \in Handlers : g # h => local'[g] = local[g]
  BY <1>1, GotoFacts, ReturnFacts DEF Ensuring
<1>3. ensured = 0
  BY <1>0 DEF Shown, EnsuredAlone
<1>4. CASE snapshot' = [snapshot EXCEPT ![local[h].of] = "active"] /\ Goto(h, "supersede")
  <2>1. /\ local'[h].pc = "supersede" /\ local'[h].of = local[h].of
        /\ snapshot'[local[h].of] = "active"
        /\ \A r \in Results : r # local[h].of => snapshot'[r] = snapshot[r]
    BY <1>0, <1>4, GotoFacts DEF Ensuring, Typed, TypeOK
  <2>2. Paired'
    <3> SUFFICES ASSUME crashes = 0, NEW r \in Active', NEW s \in Active', r # s
                 PROVE  \E k \in Handlers : local'[k].pc = "supersede" /\ local'[k].of \in {r, s}
      BY <1>0 DEF Paired, At
    <3>1. CASE local[h].of \in {r, s}
      BY <2>1, <3>1
    <3>2. CASE local[h].of \notin {r, s}
      <4>1. r \in Active /\ s \in Active
        BY <2>1, <3>2 DEF Active
      <4>2. PICK k \in Handlers : At(k, "supersede") /\ local[k].of \in {r, s}
        BY <4>1 DEF Shown, Paired
      <4>3. k # h
        BY <1>0, <4>2 DEF At
      <4>4. QED
        BY <1>2, <4>2, <4>3 DEF At
    <3>3. QED
      BY <3>1, <3>2
  <2>3. OneEnsures'
    BY <1>0, <1>2 DEF Shown, OneEnsures
  <2>4. HeldActive'
    BY <1>0, <1>2, <2>1 DEF Shown, HeldActive, OneEnsures, At, Ensuring
  <2>5. QED
    BY <1>0, <1>3, <2>2, <2>3, <2>4 DEF Shown, EnsuredAlone
<1>5. CASE snapshot' = snapshot /\ Return(h)
  <2>1. local'[h].pc \notin Ensuring
    BY <1>5, ReturnFacts DEF Ensuring
  <2>2. UNCHANGED snapshotVars /\ crashes' \in Nat /\ crashes' >= crashes /\ ~At(h, "supersede")
    BY <1>0, <1>5 DEF MarkActive, SaveSnapshot, snapshotVars, Typed, TypeOK, At
  <2>3. QED
    BY <1>2, <2>1, <2>2, ShownElsewhere
<1>6. QED
  BY <1>1, <1>4, <1>5

LEMMA ShownSupersede == ASSUME Typed, Shown, NEW h \in Handlers, Supersede(h) PROVE Shown'
<1>0. /\ At(h, "supersede") /\ local[h].pc \in Ensuring /\ local[h].of \in Results
      /\ UNCHANGED <<crashes, overlap>> /\ Ensured(h)
  BY DEF Supersede, At, Ensuring, Typed, LocalOK
<1>1. snapshot' = [r \in Results |->
          IF r # local[h].of /\ snapshot[r] = "active" THEN "superseded" ELSE snapshot[r]]
  BY DEF Supersede
<1>2. /\ snapshot'[local[h].of] = snapshot[local[h].of]
      /\ \A r \in Results : r # local[h].of => snapshot'[r] # "active"
  BY <1>0, <1>1
<1>3. snapshot'[local[h].of] = "active" \/ overlap
  BY <1>0, <1>2 DEF Shown, HeldActive
<1>4. /\ OneEnsures' /\ EnsuredAlone' /\ local'[h].pc \notin Ensuring
      /\ \A g \in Handlers : g # h => local'[g] = local[g]
  BY <1>0, <1>3, EnsuredFacts
<1>5. Paired'
  BY <1>2 DEF Paired, Active
<1>6. HeldActive'
  BY <1>0, <1>4 DEF Shown, HeldActive, OneEnsures, At, Ensuring
<1>7. QED
  BY <1>4, <1>5, <1>6 DEF Shown

LEMMA ShownStep == Typed /\ Shown /\ [Next]_vars => Shown'
<1> SUFFICES ASSUME Typed, Shown, [Next]_vars PROVE Shown'
  OBVIOUS
<1>t. TypeOK /\ crashes \in Nat
  BY DEF Typed, TypeOK
<1>1. CASE Rerun \/ (\E t \in Tokens : RevokeReportShare(t)) \/ UNCHANGED vars
  <2>1. UNCHANGED <<snapshot, local, crashes, overlap, ensured>>
    BY <1>1 DEF Rerun, RevokeReportShare, vars, snapshotVars
  <2>2. QED
    BY <2>1 DEF Shown, Paired, OneEnsures, HeldActive, EnsuredAlone, Active, At
<1>2. ASSUME NEW h \in Handlers, NEW files \in BOOLEAN, EnsureReportSnapshot(h, files) PROVE Shown'
  <2> DEFINE l == [Idle EXCEPT !.pc = "find", !.of = result, !.files = files]
  <2>1. l \in Locals /\ l.pc = "find"
    BY <1>t, BeginLocals DEF TypeOK
  <2>2. Begin(h, l)
    BY <1>2 DEF EnsureReportSnapshot
  <2> HIDE DEF l
  <2>3. /\ \A g \in Handlers : g # h => local'[g] = local[g]
        /\ local'[h].pc = "find" /\ local[h].pc = "idle"
    BY <2>1, <2>2, PutFacts DEF Begin, At
  <2>4. UNCHANGED <<snapshot, crashes>> /\ ensured' = 0 /\ overlap' = (Busy(Ensuring) # {})
    BY <1>2 DEF EnsureReportSnapshot
  <2>5. Paired'
    <3> SUFFICES ASSUME crashes = 0, NEW r \in Active, NEW s \in Active, r # s
                 PROVE  \E k \in Handlers : local'[k].pc = "supersede" /\ local'[k].of \in {r, s}
      BY <2>4 DEF Paired, At, Active
    <3>1. PICK k \in Handlers : At(k, "supersede") /\ local[k].of \in {r, s}
      BY DEF Shown, Paired
    <3>2. k # h
      BY <2>3, <3>1 DEF At
    <3>3. QED
      BY <2>3, <3>1, <3>2 DEF At
  <2>6. OneEnsures' /\ HeldActive'
    BY <2>3, <2>4 DEF OneEnsures, HeldActive, Busy, At, Ensuring
  <2>7. QED
    BY <2>4, <2>5, <2>6 DEF Shown, EnsuredAlone
<1>3. ASSUME NEW h \in Handlers, NEW r \in Results, CreateReportShare(h, r) PROVE Shown'
  <2> DEFINE l == [Idle EXCEPT !.pc = "count"]
  <2>1. l \in Locals /\ l.pc = "count"
    BY BeginLocals
  <2>2. Begin(h, l)
    BY <1>3 DEF CreateReportShare
  <2> HIDE DEF l
  <2>3. /\ \A g \in Handlers : g # h => local'[g] = local[g]
        /\ local'[h].pc \notin Ensuring /\ ~At(h, "supersede")
    BY <2>1, <2>2, PutFacts DEF Begin, At, Ensuring
  <2>4. QED
    BY <1>3, <1>t, <2>3, ShownElsewhere DEF CreateReportShare
<1>4. ASSUME NEW h \in Handlers, NEW d \in Desk, NEW ask \in {None, "approved", "closed"},
             NEW edits \in BOOLEAN, NEW status \in {None, "draft", "approved"},
             NEW text \in Texts \cup {None}, UpdateResearchDeskRequest(h, d, ask, edits, status, text)
      PROVE  Shown'
  <2> DEFINE l == UpdateLocal(d, ask, edits, status, text)
  <2>1. l \in Locals /\ l.pc = IF ask = None THEN "read" ELSE "ask"
    BY UpdateLocals
  <2>2. Begin(h, l)
    BY <1>4 DEF UpdateResearchDeskRequest, UpdateLocal
  <2> HIDE DEF l
  <2>3. /\ \A g \in Handlers : g # h => local'[g] = local[g]
        /\ local'[h].pc \notin Ensuring /\ ~At(h, "supersede")
    BY <2>1, <2>2, PutFacts DEF Begin, At, Ensuring
  <2>4. QED
    BY <1>4, <1>t, <2>3, ShownElsewhere DEF UpdateResearchDeskRequest
<1>5. ASSUME NEW h \in Handlers,
             \/ CountShares(h) \/ \E t \in Tokens : SaveToken(h, t)
             \/ \E d \in Desk : SaveRequest(h, d)
             \/ SetRequestStatus(h) \/ ReadAddendum(h) \/ UpsertAddendum(h) \/ ReportAddendum(h)
      PROVE  Shown'
  <2>1. UNCHANGED snapshotVars /\ UNCHANGED crashes /\ ~At(h, "supersede")
    BY <1>5 DEF CountShares, SaveToken, SaveRequest, SetRequestStatus, ReadAddendum,
                UpsertAddendum, ReportAddendum, At
  <2>2. \/ Return(h) \/ ReadAddendum(h)
        \/ \E pc \in {"token", "read", "report"} : Goto(h, pc)
    BY <1>5
       DEF CountShares, SaveToken, SaveRequest, SetRequestStatus, UpsertAddendum, ReportAddendum
  <2>3. (\A g \in Handlers : g # h => local'[g] = local[g]) /\ local'[h].pc \notin Ensuring
    <3>1. CASE Return(h)
      BY <3>1, ReturnFacts DEF Ensuring
    <3>2. CASE ReadAddendum(h)
      BY <3>2, ReadFacts DEF Ensuring
    <3>3. ASSUME NEW pc \in {"token", "read", "report"}, Goto(h, pc)
          PROVE (\A g \in Handlers : g # h => local'[g] = local[g]) /\ local'[h].pc \notin Ensuring
      <4>1. pc \in Ensuring \cup Updating \cup {"idle", "file", "count", "token"} /\ pc \notin Ensuring
        BY DEF Updating, Ensuring
      <4>2. QED
        BY <3>3, <4>1, GotoFacts
    <3>4. QED
      BY <2>2, <3>1, <3>2, <3>3
  <2>4. QED
    BY <1>t, <2>1, <2>3, ShownElsewhere
<1>6. ASSUME NEW h \in Handlers, Crash(h) PROVE Shown'
  <2>1. UNCHANGED snapshotVars /\ crashes' = crashes + 1 /\ Return(h)
    BY <1>6 DEF Crash
  <2>2. (\A g \in Handlers : g # h => local'[g] = local[g]) /\ local'[h].pc \notin Ensuring
    BY <2>1, ReturnFacts DEF Ensuring
  <2>3. crashes' \in Nat /\ crashes' >= crashes /\ crashes' # 0
    BY <1>t, <2>1
  <2>4. QED
    BY <2>1, <2>2, <2>3, ShownElsewhere
<1>7. ASSUME NEW h \in Handlers, RequestStep(h) PROVE Shown'
  BY <1>5, <1>6, <1>7, ShownFind, ShownWrite, ShownSupersede DEF RequestStep
<1>8. QED
  BY <1>1, <1>2, <1>3, <1>4, <1>7 DEF Next

\* However many requests ensure the report at once, and whatever results they hold,
\* it has one active snapshot when they are done if none died, and the one that ran
\* alone has returned it (report-snapshot-service.ts ensureReportSnapshot).
THEOREM SnapshotsStaySound == Spec => []SnapshotsSound
<1>1. Init => Shown
  BY IdleLocal DEF Init, Shown, Paired, OneEnsures, HeldActive, EnsuredAlone, Active, At, Ensuring
<1>2. Shown => SnapshotsSound
  BY DEF Shown, Paired, EnsuredAlone, SnapshotsSound, OneActive, EnsuredIsActive, Busy, At
<1>3. QED
  BY <1>1, <1>2, TypedAlways, ShownStep, PTL DEF Spec

-----------------------------------------------------------------------------
(* What the other steps write.                                             *)

\* Steps that neither begin an update nor take one further.
Aside ==
    \/ Rerun
    \/ \E h \in Handlers, files \in BOOLEAN : EnsureReportSnapshot(h, files)
    \/ \E h \in Handlers, r \in Results : CreateReportShare(h, r)
    \/ \E t \in Tokens : RevokeReportShare(t)
    \/ \E h \in Handlers : \/ FindSnapshot(h) \/ MarkActive(h) \/ SaveSnapshot(h) \/ Supersede(h)
                           \/ CountShares(h) \/ \E t \in Tokens : SaveToken(h, t)
    \/ UNCHANGED vars

\* A request that stands still, or that is not at an update.
Apart(g) == local'[g] = local[g] \/ (local[g].pc \notin Updating /\ local'[g].pc \notin Updating)

\* They leave the desk alone.
LEMMA AsideFacts ==
    ASSUME Typed, Aside
    PROVE  /\ UNCHANGED deskVars
           /\ \A g \in Handlers : Apart(g)
<1>1. UNCHANGED deskVars
  BY DEF Aside, Rerun, EnsureReportSnapshot, CreateReportShare, RevokeReportShare, FindSnapshot,
         MarkActive, SaveSnapshot, Supersede, CountShares, SaveToken, deskVars, vars
<1>2. CASE UNCHANGED local
  BY <1>1, <1>2 DEF Apart
<1>3. ASSUME NEW h \in Handlers, local[h].pc \notin Updating, local'[h].pc \notin Updating,
             \A g \in Handlers : g # h => local'[g] = local[g]
      PROVE  \A g \in Handlers : Apart(g)
  <2> TAKE g \in Handlers
  <2>1. CASE g = h
    BY <1>3, <2>1 DEF Apart
  <2>2. CASE g # h
    BY <1>3, <2>2 DEF Apart
  <2>3. QED
    BY <2>1, <2>2
<1>4. ASSUME NEW h \in Handlers, NEW files \in BOOLEAN, EnsureReportSnapshot(h, files)
      PROVE  /\ local[h].pc \notin Updating /\ local'[h].pc \notin Updating
             /\ \A g \in Handlers : g # h => local'[g] = local[g]
  <2> DEFINE l == [Idle EXCEPT !.pc = "find", !.of = result, !.files = files]
  <2>1. l \in Locals /\ l.pc = "find"
    BY BeginLocals DEF Typed, TypeOK
  <2>2. Begin(h, l)
    BY <1>4 DEF EnsureReportSnapshot
  <2> HIDE DEF l
  <2>3. QED
    BY <2>1, <2>2, PutFacts DEF Begin, At, Updating
<1>5. ASSUME NEW h \in Handlers, NEW r \in Results, CreateReportShare(h, r)
      PROVE  /\ local[h].pc \notin Updating /\ local'[h].pc \notin Updating
             /\ \A g \in Handlers : g # h => local'[g] = local[g]
  <2> DEFINE l == [Idle EXCEPT !.pc = "count"]
  <2>1. l \in Locals /\ l.pc = "count"
    BY BeginLocals
  <2>2. Begin(h, l)
    BY <1>5 DEF CreateReportShare
  <2> HIDE DEF l
  <2>3. QED
    BY <2>1, <2>2, PutFacts DEF Begin, At, Updating
<1>6. ASSUME NEW h \in Handlers,
             \/ FindSnapshot(h) \/ MarkActive(h) \/ SaveSnapshot(h) \/ Supersede(h)
             \/ CountShares(h) \/ \E t \in Tokens : SaveToken(h, t)
      PROVE  /\ local[h].pc \notin Updating /\ local'[h].pc \notin Updating
             /\ \A g \in Handlers : g # h => local'[g] = local[g]
  <2>1. local[h].pc \notin Updating
    BY <1>6
       DEF FindSnapshot, MarkActive, SaveSnapshot, Supersede, CountShares, SaveToken, At, Updating
  <2>2. Return(h) \/ \E pc \in {"mark", "save", "supersede", "file", "token"} : Goto(h, pc)
    BY <1>6 DEF FindSnapshot, MarkActive, SaveSnapshot, Supersede, CountShares, SaveToken, Ensured
  <2>3. CASE Return(h)
    BY <2>1, <2>3, ReturnFacts DEF Updating
  <2>4. ASSUME NEW pc \in {"mark", "save", "supersede", "file", "token"}, Goto(h, pc)
        PROVE  local'[h].pc \notin Updating /\ \A g \in Handlers : g # h => local'[g] = local[g]
    <3>1. pc \in Ensuring \cup Updating \cup {"idle", "file", "count", "token"} /\ pc \notin Updating
      BY DEF Ensuring, Updating
    <3>2. QED
      BY <2>4, <3>1, GotoFacts
  <2>5. QED
    BY <2>1, <2>2, <2>3, <2>4
<1>7. Rerun \/ (\E t \in Tokens : RevokeReportShare(t)) \/ UNCHANGED vars => UNCHANGED local
  BY DEF Rerun, RevokeReportShare, vars
<1>8. QED
  BY <1>1, <1>2, <1>3, <1>4, <1>5, <1>6, <1>7 DEF Aside

\* The steps of an update, and the others.
LEMMA StepKinds ==
    ASSUME [Next]_vars
    PROVE  \/ Aside
           \/ \E h \in Handlers, d \in Desk, ask \in {None, "approved", "closed"},
                 edits \in BOOLEAN, status \in {None, "draft", "approved"}, text \in Texts \cup {None} :
                     UpdateResearchDeskRequest(h, d, ask, edits, status, text)
           \/ \E h \in Handlers, d \in Desk : SaveRequest(h, d)
           \/ \E h \in Handlers : \/ SetRequestStatus(h) \/ ReadAddendum(h)
                                  \/ UpsertAddendum(h) \/ ReportAddendum(h) \/ Crash(h)
BY DEF Next, RequestStep, Aside

\* How an update begins.
LEMMA UpdateFacts ==
    ASSUME Typed, NEW h \in Handlers, NEW d \in Desk, NEW ask \in {None, "approved", "closed"},
           NEW edits \in BOOLEAN, NEW status \in {None, "draft", "approved"},
           NEW text \in Texts \cup {None}, UpdateResearchDeskRequest(h, d, ask, edits, status, text)
    PROVE  /\ UNCHANGED <<desk, addendum, vouched>>
           /\ local[h].pc = "idle" /\ local'[h].pc \in {"ask", "read"}
           /\ local'[h].ask = ask /\ (ask = None => local'[h].pc = "read")
           /\ \A g \in Handlers : g # h => local'[g] = local[g]
           /\ disturbed' = (disturbed \/ ask # None \/ Busy(Updating) # {})
<1> DEFINE l == UpdateLocal(d, ask, edits, status, text)
<1>1. l \in Locals /\ l.ask = ask /\ l.pc = IF ask = None THEN "read" ELSE "ask"
  BY UpdateLocals
<1>2. Begin(h, l) /\ UNCHANGED <<desk, addendum, vouched>>
      /\ disturbed' = (disturbed \/ ask # None \/ Busy(Updating) # {})
  BY DEF UpdateResearchDeskRequest, UpdateLocal
<1> HIDE DEF l
<1>3. QED
  BY <1>1, <1>2, PutFacts DEF Begin, At

-----------------------------------------------------------------------------
(* Addenda.                                                                *)

HeldVouched ==
    \A h \in Handlers : At(h, "upsert") /\ local[h].row.status = "approved"
        => local[h].row.text \in vouched[local[h].on]

Vouched == ApprovedTextVouched /\ HeldVouched

LEMMA VouchedElsewhere ==
    ASSUME Vouched, UNCHANGED <<addendum, vouched>>,
           \A g \in Handlers : local'[g] = local[g] \/ local'[g].pc # "upsert"
    PROVE  Vouched'
BY DEF Vouched, ApprovedTextVouched, HeldVouched, At

LEMMA VouchedStep == Typed /\ Vouched /\ [Next]_vars => Vouched'
<1> SUFFICES ASSUME Typed, Vouched, [Next]_vars PROVE Vouched'
  OBVIOUS
<1>t. TypeOK
  BY DEF Typed
<1>1. CASE Aside
  BY <1>1, AsideFacts, VouchedElsewhere DEF deskVars, Updating, Apart
<1>2. ASSUME NEW h \in Handlers, NEW d \in Desk, NEW ask \in {None, "approved", "closed"},
             NEW edits \in BOOLEAN, NEW status \in {None, "draft", "approved"},
             NEW text \in Texts \cup {None}, UpdateResearchDeskRequest(h, d, ask, edits, status, text)
      PROVE  Vouched'
  <2>1. /\ UNCHANGED <<addendum, vouched>> /\ local'[h].pc \in {"ask", "read"}
        /\ \A g \in Handlers : g # h => local'[g] = local[g]
    BY <1>2, UpdateFacts
  <2>2. QED
    BY <2>1, VouchedElsewhere
<1>3. ASSUME NEW h \in Handlers,
             \/ \E d \in Desk : SaveRequest(h, d)
             \/ SetRequestStatus(h) \/ ReportAddendum(h) \/ Crash(h)
      PROVE  Vouched'
  <2>1. UNCHANGED <<addendum, vouched>> /\ (Return(h) \/ Goto(h, "read"))
    BY <1>3 DEF SaveRequest, SetRequestStatus, ReportAddendum, Crash
  <2>2. local'[h].pc # "upsert" /\ \A g \in Handlers : g # h => local'[g] = local[g]
    BY <2>1, ReturnFacts, GotoFacts DEF Updating
  <2>3. QED
    BY <2>1, <2>2, VouchedElsewhere
<1>4. ASSUME NEW h \in Handlers, ReadAddendum(h) PROVE Vouched'
  <2> DEFINE row == Given(local[h], addendum[local[h].on])
  <2>1. /\ row \in Addendum
        /\ \A g \in Handlers : g # h => local'[g] = local[g]
        /\ local'[h].on = local[h].on /\ local'[h].row = row
        /\ vouched' = IF row.status = "approved"
                      THEN [vouched EXCEPT ![local[h].on] = vouched[local[h].on] \cup {row.text}]
                      ELSE vouched
    BY <1>4, ReadFacts
  <2> HIDE DEF row
  <2>2. local[h].on \in Desk /\ UNCHANGED addendum
    BY <1>4 DEF ReadAddendum, At, Typed, LocalOK, Updating
  <2>3. /\ \A d \in Desk : vouched[d] \subseteq vouched'[d]
        /\ row.status = "approved" => row.text \in vouched'[local[h].on]
    BY <1>t, <2>1, <2>2 DEF TypeOK
  <2>4. ApprovedTextVouched'
    BY <2>2, <2>3 DEF Vouched, ApprovedTextVouched
  <2>5. HeldVouched'
    <3> SUFFICES ASSUME NEW g \in Handlers, local'[g].pc = "upsert", local'[g].row.status = "approved"
                 PROVE  local'[g].row.text \in vouched'[local'[g].on]
      BY DEF HeldVouched, At
    <3>1. CASE g = h
      BY <2>1, <2>3, <3>1
    <3>2. CASE g # h
      <4>1. local'[g] = local[g] /\ local[g].on \in Desk /\ local[g].row.text \in vouched[local[g].on]
        BY <2>1, <3>2 DEF Vouched, HeldVouched, At, Typed, LocalOK, Updating
      <4>2. QED
        BY <2>3, <4>1
    <3>3. QED
      BY <3>1, <3>2
  <2>6. QED
    BY <2>4, <2>5 DEF Vouched
<1>5. ASSUME NEW h \in Handlers, UpsertAddendum(h) PROVE Vouched'
  <2>1. local[h].on \in Desk /\ local[h].row \in Addendum /\ local[h].pc = "upsert"
    BY <1>5 DEF UpsertAddendum, At, Typed, LocalOK, Updating
  <2>2. /\ addendum' = [addendum EXCEPT ![local[h].on] = local[h].row]
        /\ UNCHANGED vouched /\ (Goto(h, "report") \/ Return(h))
    BY <1>5 DEF UpsertAddendum
  <2>3. local'[h].pc # "upsert" /\ \A g \in Handlers : g # h => local'[g] = local[g]
    BY <2>2, ReturnFacts, GotoFacts DEF Updating
  <2>4. local[h].row.status = "approved" => local[h].row.text \in vouched[local[h].on]
    BY <2>1 DEF Vouched, HeldVouched, At
  <2>5. ApprovedTextVouched'
    BY <1>t, <2>1, <2>2, <2>4 DEF Vouched, ApprovedTextVouched, TypeOK
  <2>6. HeldVouched'
    BY <2>2, <2>3 DEF Vouched, HeldVouched, At
  <2>7. QED
    BY <2>5, <2>6 DEF Vouched
<1>6. QED
  BY <1>1, <1>2, <1>3, <1>4, <1>5, StepKinds

\* However reviewers overwrite each other, the text shown as approved is one that
\* the reviewer who wrote the row had before him (updateResearchDeskRequest reads
\* the row once and writes it whole).
THEOREM ApprovedTextsVouched == Spec => []ApprovedTextVouched
<1>1. Init => Vouched
  BY IdleLocal DEF Init, Vouched, ApprovedTextVouched, HeldVouched, At
<1>2. Vouched => ApprovedTextVouched
  BY DEF Vouched
<1>3. QED
  BY <1>1, <1>2, TypedAlways, VouchedStep, PTL DEF Spec

-----------------------------------------------------------------------------
(* The request and its addendum.                                           *)

Approved(row) == row # None /\ row.status = "approved"

OneUpdates ==
    \A g, h \in Handlers : local[g].pc \in Updating /\ local[h].pc \in Updating => g = h

NoneAsks == \A h \in Handlers : local[h].pc \in Updating => local[h].ask = None /\ local[h].pc # "ask"

ReportsRow == \A h \in Handlers : At(h, "report") => addendum[local[h].on] = local[h].row

AgreeOrReport ==
    \A d \in Desk : \/ desk[d] = "approved" <=> Approved(addendum[d])
                    \/ \E h \in Handlers : At(h, "report") /\ local[h].on = d

Agree == ~disturbed => OneUpdates /\ NoneAsks /\ ReportsRow /\ AgreeOrReport

LEMMA AgreeElsewhere ==
    ASSUME Agree, UNCHANGED addendum, ~disturbed' => ~disturbed,
           \A d \in Desk : desk'[d] = desk[d] \/ (desk[d] # "approved" /\ desk'[d] # "approved"),
           \A g \in Handlers : Apart(g)
    PROVE  Agree'
<1> SUFFICES ASSUME ~disturbed' PROVE (OneUpdates /\ NoneAsks /\ ReportsRow /\ AgreeOrReport)'
  BY DEF Agree
<1>1. OneUpdates /\ NoneAsks /\ ReportsRow /\ AgreeOrReport
  BY DEF Agree
<1>2. OneUpdates' /\ NoneAsks'
  BY <1>1 DEF OneUpdates, NoneAsks, Apart
<1>3. ReportsRow'
  BY <1>1 DEF ReportsRow, At, Updating, Apart
<1>4. AgreeOrReport'
  <2> SUFFICES ASSUME NEW d \in Desk, ~(desk'[d] = "approved" <=> Approved(addendum[d]))
               PROVE  \E h \in Handlers : local'[h].pc = "report" /\ local'[h].on = d
    BY DEF AgreeOrReport, At, Approved
  <2>1. PICK h \in Handlers : local[h].pc = "report" /\ local[h].on = d
    BY <1>1 DEF AgreeOrReport, At
  <2>2. local'[h] = local[h]
    BY <2>1 DEF Updating, Apart
  <2>3. QED
    BY <2>1, <2>2
<1>5. QED
  BY <1>2, <1>3, <1>4

LEMMA AgreeUpdate ==
    ASSUME Typed, Agree, NEW h \in Handlers, NEW d \in Desk, NEW ask \in {None, "approved", "closed"},
           NEW edits \in BOOLEAN, NEW status \in {None, "draft", "approved"},
           NEW text \in Texts \cup {None}, UpdateResearchDeskRequest(h, d, ask, edits, status, text)
    PROVE  Agree'
<1> SUFFICES ASSUME ~disturbed' PROVE (OneUpdates /\ NoneAsks /\ ReportsRow /\ AgreeOrReport)'
  BY DEF Agree
<1>1. /\ UNCHANGED <<desk, addendum>> /\ local'[h].pc \in {"ask", "read"}
      /\ local'[h].ask = ask /\ (ask = None => local'[h].pc = "read")
      /\ \A g \in Handlers : g # h => local'[g] = local[g]
      /\ disturbed' = (disturbed \/ ask # None \/ Busy(Updating) # {})
  BY UpdateFacts
<1>2. ~disturbed /\ ask = None /\ \A g \in Handlers : local[g].pc \notin Updating
  BY <1>1 DEF Busy
<1>3. AgreeOrReport
  BY <1>2 DEF Agree
<1>4. \A d2 \in Desk : desk[d2] = "approved" <=> Approved(addendum[d2])
  BY <1>2, <1>3 DEF AgreeOrReport, At, Updating
<1>5. AgreeOrReport'
  BY <1>1, <1>4 DEF AgreeOrReport, Approved
<1>6. OneUpdates' /\ NoneAsks' /\ ReportsRow'
  BY <1>1, <1>2 DEF OneUpdates, NoneAsks, ReportsRow, At, Updating
<1>7. QED
  BY <1>5, <1>6

LEMMA AgreeUpsert == ASSUME Typed, Agree, NEW h \in Handlers, UpsertAddendum(h) PROVE Agree'
<1> SUFFICES ASSUME ~disturbed' PROVE (OneUpdates /\ NoneAsks /\ ReportsRow /\ AgreeOrReport)'
  BY DEF Agree
<1>1. ~disturbed /\ UNCHANGED desk /\ local[h].pc = "upsert" /\ local[h].pc \in Updating
  BY DEF UpsertAddendum, At, Updating
<1>2. OneUpdates /\ NoneAsks /\ ReportsRow /\ AgreeOrReport
  BY <1>1 DEF Agree
<1>3. /\ addendum' = [addendum EXCEPT ![local[h].on] = local[h].row] /\ local[h].on \in Desk
      /\ addendum \in [Desk -> Addendum \cup {None}]
  BY <1>1 DEF UpsertAddendum, Typed, LocalOK, TypeOK
<1>4. local[h].ask = None /\ Goto(h, "report")
  BY <1>1, <1>2 DEF UpsertAddendum, NoneAsks, Reports
<1>5. /\ local'[h].pc = "report" /\ local'[h].on = local[h].on /\ local'[h].row = local[h].row
      /\ local'[h].ask = None /\ \A g \in Handlers : g # h => local'[g] = local[g]
  BY <1>4, GotoFacts DEF Updating
<1>6. \A g \in Handlers : g # h => local[g].pc \notin Updating
  BY <1>1, <1>2 DEF OneUpdates
<1>7. OneUpdates' /\ NoneAsks' /\ ReportsRow'
  BY <1>3, <1>5, <1>6 DEF OneUpdates, NoneAsks, ReportsRow, At, Updating
<1>8. \A d \in Desk : desk[d] = "approved" <=> Approved(addendum[d])
  BY <1>1, <1>2, <1>6 DEF AgreeOrReport, At, Updating
<1>9. AgreeOrReport'
  <2> SUFFICES ASSUME NEW d \in Desk, d # local[h].on
               PROVE  desk'[d] = "approved" <=> Approved(addendum'[d])
    BY <1>5 DEF AgreeOrReport, At, Approved
  <2>1. desk'[d] = desk[d] /\ addendum'[d] = addendum[d]
    BY <1>1, <1>3
  <2>2. QED
    BY <1>8, <2>1
<1>10. QED
  BY <1>7, <1>9

LEMMA AgreeReport == ASSUME Typed, Agree, NEW h \in Handlers, ReportAddendum(h) PROVE Agree'
<1> SUFFICES ASSUME ~disturbed' PROVE (OneUpdates /\ NoneAsks /\ ReportsRow /\ AgreeOrReport)'
  BY DEF Agree
<1>1. /\ ~disturbed /\ UNCHANGED addendum /\ local[h].pc = "report" /\ local[h].pc \in Updating
      /\ Return(h)
  BY DEF ReportAddendum, At, Updating
<1>2. OneUpdates /\ NoneAsks /\ ReportsRow /\ AgreeOrReport
  BY <1>1 DEF Agree
<1>3. /\ local[h].on \in Desk /\ local[h].row \in Addendum /\ local[h].row # None
      /\ desk' = [desk EXCEPT ![local[h].on] =
             IF local[h].row.status = "approved" THEN "approved" ELSE "addendum_draft"]
      /\ desk \in [Desk -> {"absent", "received", "addendum_draft", "approved", "closed"}]
      /\ addendum[local[h].on] = local[h].row
  BY <1>1, <1>2, RowAssumption DEF ReportAddendum, Typed, LocalOK, TypeOK, ReportsRow, At
<1>4. (\A g \in Handlers : g # h => local'[g] = local[g]) /\ local'[h].pc \notin Updating
  BY <1>1, ReturnFacts DEF Updating
<1>5. \A g \in Handlers : g # h => local[g].pc \notin Updating
  BY <1>1, <1>2 DEF OneUpdates
<1>6. OneUpdates' /\ NoneAsks' /\ ReportsRow'
  BY <1>4, <1>5 DEF OneUpdates, NoneAsks, ReportsRow, At, Updating
<1>7. \A d \in Desk : d # local[h].on => (desk[d] = "approved" <=> Approved(addendum[d]))
  BY <1>2, <1>5 DEF AgreeOrReport, At, Updating
<1>8. \A d \in Desk : d # local[h].on => desk'[d] = desk[d]
  BY <1>3
<1>9. desk'[local[h].on] = "approved" <=> Approved(addendum[local[h].on])
  BY <1>3 DEF Approved
<1>10. AgreeOrReport'
  BY <1>1, <1>7, <1>8, <1>9 DEF AgreeOrReport, Approved
<1>11. QED
  BY <1>6, <1>10

LEMMA AgreeStep == Typed /\ Agree /\ [Next]_vars => Agree'
<1> SUFFICES ASSUME Typed, Agree, [Next]_vars PROVE Agree'
  OBVIOUS
<1>t. TypeOK
  BY DEF Typed
<1>1. CASE Aside
  <2>1. UNCHANGED deskVars
    BY <1>1, AsideFacts
  <2>2. desk' = desk /\ addendum' = addendum /\ disturbed' = disturbed
    BY <2>1 DEF deskVars
  <2>3. /\ ~disturbed' => ~disturbed
        /\ \A d \in Desk : desk'[d] = desk[d] \/ (desk[d] # "approved" /\ desk'[d] # "approved")
    BY <2>2
  <2>4. QED
    BY <1>1, <2>2, <2>3, AsideFacts, AgreeElsewhere
<1>2. ASSUME NEW h \in Handlers, NEW d \in Desk, SaveRequest(h, d) PROVE Agree'
  <2>1. /\ UNCHANGED <<addendum, disturbed>> /\ Return(h) /\ local[h].pc \notin Updating
        /\ \A e \in Desk : desk'[e] = desk[e] \/ (desk[e] # "approved" /\ desk'[e] # "approved")
    BY <1>2, <1>t DEF SaveRequest, At, Updating, TypeOK
  <2>2. (\A g \in Handlers : g # h => local'[g] = local[g]) /\ local'[h].pc \notin Updating
    BY <2>1, ReturnFacts DEF Updating
  <2>3. addendum' = addendum /\ (~disturbed' => ~disturbed)
    BY <2>1
  <2>4. \A g \in Handlers : Apart(g)
    BY <2>1, <2>2 DEF Apart
  <2>5. QED
    BY <2>1, <2>3, <2>4, AgreeElsewhere
<1>3. ASSUME NEW h \in Handlers, SetRequestStatus(h) PROVE Agree'
  BY <1>3 DEF SetRequestStatus, Agree, NoneAsks, At, Updating
<1>4. ASSUME NEW h \in Handlers, ReadAddendum(h) PROVE Agree'
  <2>1. /\ UNCHANGED <<desk, addendum, disturbed>> /\ local[h].pc = "read"
        /\ local'[h].pc = "upsert" /\ local'[h].ask = local[h].ask /\ local'[h].on = local[h].on
        /\ \A g \in Handlers : g # h => local'[g] = local[g]
    BY <1>4, ReadFacts DEF ReadAddendum, At
  <2>2. ASSUME ~disturbed PROVE OneUpdates' /\ NoneAsks' /\ ReportsRow' /\ AgreeOrReport'
    <3>1. OneUpdates /\ NoneAsks /\ ReportsRow /\ AgreeOrReport
      BY <2>2 DEF Agree
    <3>2. OneUpdates' /\ NoneAsks' /\ ReportsRow'
      BY <2>1, <3>1 DEF OneUpdates, NoneAsks, ReportsRow, At, Updating
    <3>3. \A d \in Desk : desk[d] = "approved" <=> Approved(addendum[d])
      BY <2>1, <3>1 DEF AgreeOrReport, OneUpdates, At, Updating
    <3>4. QED
      BY <2>1, <3>2, <3>3 DEF AgreeOrReport, Approved
  <2>3. QED
    BY <2>1, <2>2 DEF Agree
<1>5. ASSUME NEW h \in Handlers, Crash(h) PROVE Agree'
  <2>1. /\ UNCHANGED <<desk, addendum>> /\ Return(h)
        /\ disturbed' = (disturbed \/ local[h].pc \in Updating)
    BY <1>5 DEF Crash
  <2>2. (\A g \in Handlers : g # h => local'[g] = local[g]) /\ local'[h].pc \notin Updating
    BY <2>1, ReturnFacts DEF Updating
  <2>3. CASE local[h].pc \in Updating
    BY <2>1, <2>3 DEF Agree
  <2>4. CASE local[h].pc \notin Updating
    <3>1. addendum' = addendum /\ (~disturbed' => ~disturbed)
          /\ \A d \in Desk : desk'[d] = desk[d] \/ (desk[d] # "approved" /\ desk'[d] # "approved")
      BY <2>1
    <3>2. \A g \in Handlers : Apart(g)
      BY <2>2, <2>4 DEF Apart
    <3>3. QED
      BY <3>1, <3>2, AgreeElsewhere
  <2>5. QED
    BY <2>3, <2>4
<1>6. QED
  BY <1>1, <1>2, <1>3, <1>4, <1>5, AgreeUpdate, AgreeUpsert, AgreeReport, StepKinds

\* A request is shown as approved exactly when its addendum is, as long as updates
\* come one by one and none dies between the two rows or sets the status itself.
THEOREM DeskStaysAgreed == Spec => []DeskAgrees
<1>1. Init => Agree
  BY IdleLocal
     DEF Init, Agree, OneUpdates, NoneAsks, ReportsRow, AgreeOrReport, Approved, At, Updating
<1>2. Agree => DeskAgrees
  <2> SUFFICES ASSUME Agree, ~disturbed, Busy(Updating) = {}, NEW d \in Desk
               PROVE  desk[d] = "approved" <=> addendum[d] # None /\ addendum[d].status = "approved"
    BY DEF DeskAgrees
  <2>1. AgreeOrReport /\ \A h \in Handlers : local[h].pc \notin Updating
    BY DEF Agree, Busy
  <2>2. QED
    BY <2>1 DEF AgreeOrReport, Approved, At, Updating
<1>3. QED
  BY <1>1, <1>2, TypedAlways, AgreeStep, PTL DEF Spec

-----------------------------------------------------------------------------
(* Share links.                                                            *)

Saving == Busy({"token"})

\* The links there are, and those that are about to be saved.
Quota == Cardinality(Live) + Cardinality(Saving) < ShareLimit + Cardinality(Handlers)

LEMMA LinkSets ==
    /\ IsFiniteSet(Live) /\ IsFiniteSet(Saving)
    /\ Cardinality(Live) \in Nat /\ Cardinality(Saving) \in Nat
    /\ Cardinality(Handlers) \in Nat /\ Cardinality(Handlers) > 0
    /\ ShareLimit \in Nat
<1>1. Live \subseteq Tokens /\ Saving \subseteq Handlers
  BY DEF Live, Saving, Busy
<1>2. IsFiniteSet(Live) /\ IsFiniteSet(Saving)
  BY <1>1, FS_Subset, HandlersAssumption, TokensAssumption
<1>3. Cardinality(Handlers) \in Nat /\ Cardinality(Handlers) # 0
  BY FS_CardinalityType, FS_EmptySet, HandlersAssumption
<1>4. Cardinality(Live) \in Nat /\ Cardinality(Saving) \in Nat
  BY <1>2, FS_CardinalityType
<1>5. QED
  BY <1>2, <1>3, <1>4, BoundsAssumption

\* The same sets after the step.
LEMMA LinkSetsNext ==
    /\ IsFiniteSet(Live') /\ IsFiniteSet(Saving')
    /\ Cardinality(Live') \in Nat /\ Cardinality(Saving') \in Nat
<1>1. Live' \subseteq Tokens /\ Saving' \subseteq Handlers
  BY DEF Live, Saving, Busy
<1>2. IsFiniteSet(Live') /\ IsFiniteSet(Saving')
  BY <1>1, FS_Subset, HandlersAssumption, TokensAssumption
<1>3. QED
  BY <1>2, FS_CardinalityType

\* Fewer links, or fewer requests about to save one.
LEMMA QuotaLess ==
    ASSUME Quota, Live' \subseteq Live, Saving' \subseteq Saving
    PROVE  Quota'
<1>1. Cardinality(Live') <= Cardinality(Live)
  BY LinkSets, FS_Subset
<1>2. Cardinality(Saving') <= Cardinality(Saving)
  BY LinkSets, FS_Subset
<1>3. QED
  BY <1>1, <1>2, LinkSets, LinkSetsNext DEF Quota

LEMMA QuotaCount == ASSUME Typed, Quota, NEW h \in Handlers, CountShares(h) PROVE Quota'
<1>1. Live' = Live /\ At(h, "count")
  BY DEF CountShares, Live
<1>2. CASE Cardinality(Live) < ShareLimit
  <2>1. Saving' \subseteq Handlers
    BY DEF Saving, Busy
  <2>2. Cardinality(Saving') <= Cardinality(Handlers)
    BY <2>1, FS_Subset, HandlersAssumption
  <2>3. Cardinality(Live') < ShareLimit
    BY <1>1, <1>2
  <2>4. QED
    BY <2>2, <2>3, LinkSets, LinkSetsNext DEF Quota
<1>3. CASE ~(Cardinality(Live) < ShareLimit)
  <2>1. Cardinality(Live) >= ShareLimit
    BY <1>3, LinkSets
  <2>2. Return(h)
    BY <2>1 DEF CountShares
  <2>3. Saving' \subseteq Saving
    BY <2>2, ReturnFacts DEF Saving, Busy
  <2>4. QED
    BY <1>1, <2>3, QuotaLess
<1>4. QED
  BY <1>2, <1>3

LEMMA QuotaSave ==
    ASSUME Typed, Quota, NEW h \in Handlers, NEW t \in Tokens, SaveToken(h, t)
    PROVE  Quota'
<1>1. /\ token[t] = "absent" /\ token' = [token EXCEPT ![t] = "active"] /\ token \in [Tokens -> {"absent", "active", "revoked"}]
      /\ At(h, "token") /\ Return(h)
  BY DEF SaveToken, Typed, TypeOK
<1>2. Live' = Live \cup {t} /\ t \notin Live
  BY <1>1 DEF Live
<1>3. Saving' = Saving \ {h} /\ h \in Saving
  BY <1>1, ReturnFacts DEF Saving, Busy, At
<1>4. Cardinality(Live') = Cardinality(Live) + 1
  BY <1>2, LinkSets, FS_AddElement
<1>5. Cardinality(Saving') = Cardinality(Saving) - 1
  BY <1>3, LinkSets, FS_RemoveElement
<1>6. QED
  BY <1>4, <1>5, LinkSets DEF Quota

LEMMA QuotaStep == Typed /\ Quota /\ [Next]_vars => Quota'
<1> SUFFICES ASSUME Typed, Quota, [Next]_vars PROVE Quota'
  OBVIOUS
<1>t. TypeOK
  BY DEF Typed
<1>1. CASE Rerun \/ UNCHANGED vars
  <2>1. UNCHANGED <<token, local>>
    BY <1>1 DEF Rerun, vars
  <2>2. Live' \subseteq Live /\ Saving' \subseteq Saving
    BY <2>1 DEF Live, Saving, Busy
  <2>3. QED
    BY <2>2, QuotaLess
<1>2. ASSUME NEW t \in Tokens, RevokeReportShare(t) PROVE Quota'
  <2>1. UNCHANGED local /\ token' = [token EXCEPT ![t] = "revoked"]
    BY <1>2 DEF RevokeReportShare
  <2>2. Live' \subseteq Live /\ Saving' \subseteq Saving
    BY <2>1, <1>t DEF Live, Saving, Busy, TypeOK
  <2>3. QED
    BY <2>2, QuotaLess
<1>3. ASSUME NEW h \in Handlers, UNCHANGED token, local'[h].pc # "token",
             \A g \in Handlers : g # h => local'[g] = local[g]
      PROVE  Quota'
  <2>1. Live' \subseteq Live /\ Saving' \subseteq Saving
    BY <1>3 DEF Live, Saving, Busy
  <2>2. QED
    BY <2>1, QuotaLess
<1>4. ASSUME NEW h \in Handlers, NEW files \in BOOLEAN, EnsureReportSnapshot(h, files) PROVE Quota'
  <2> DEFINE l == [Idle EXCEPT !.pc = "find", !.of = result, !.files = files]
  <2>1. l \in Locals /\ l.pc = "find"
    BY <1>t, BeginLocals DEF TypeOK
  <2>2. Begin(h, l) /\ UNCHANGED token
    BY <1>4 DEF EnsureReportSnapshot
  <2> HIDE DEF l
  <2>3. QED
    BY <1>3, <2>1, <2>2, PutFacts DEF Begin
<1>5. ASSUME NEW h \in Handlers, NEW r \in Results, CreateReportShare(h, r) PROVE Quota'
  <2> DEFINE l == [Idle EXCEPT !.pc = "count"]
  <2>1. l \in Locals /\ l.pc = "count"
    BY BeginLocals
  <2>2. Begin(h, l) /\ UNCHANGED token
    BY <1>5 DEF CreateReportShare
  <2> HIDE DEF l
  <2>3. QED
    BY <1>3, <2>1, <2>2, PutFacts DEF Begin
<1>6. ASSUME NEW h \in Handlers, NEW d \in Desk, NEW ask \in {None, "approved", "closed"},
             NEW edits \in BOOLEAN, NEW status \in {None, "draft", "approved"},
             NEW text \in Texts \cup {None}, UpdateResearchDeskRequest(h, d, ask, edits, status, text)
      PROVE  Quota'
  <2>1. UNCHANGED token
    BY <1>6 DEF UpdateResearchDeskRequest
  <2>2. QED
    BY <1>3, <1>6, <2>1, UpdateFacts
<1>7. ASSUME NEW h \in Handlers, RequestStep(h) PROVE Quota'
  <2>1. CASE CountShares(h) \/ \E t \in Tokens : SaveToken(h, t)
    BY <2>1, QuotaCount, QuotaSave
  <2>2. CASE ReadAddendum(h)
    BY <1>3, <2>2, ReadFacts DEF ReadAddendum
  <2>3. CASE \/ FindSnapshot(h) \/ MarkActive(h) \/ SaveSnapshot(h) \/ Supersede(h)
             \/ \E d \in Desk : SaveRequest(h, d)
             \/ SetRequestStatus(h) \/ UpsertAddendum(h) \/ ReportAddendum(h) \/ Crash(h)
    <3>1. UNCHANGED token
      BY <2>3 DEF FindSnapshot, MarkActive, SaveSnapshot, Supersede, SaveRequest, SetRequestStatus,
                  UpsertAddendum, ReportAddendum, Crash
    <3>2. Return(h) \/ \E pc \in {"mark", "save", "supersede", "file", "read", "report"} : Goto(h, pc)
      BY <2>3 DEF FindSnapshot, MarkActive, SaveSnapshot, Supersede, Ensured, SaveRequest,
                  SetRequestStatus, UpsertAddendum, ReportAddendum, Crash
    <3>3. CASE Return(h)
      BY <1>3, <3>1, <3>3, ReturnFacts
    <3>4. ASSUME NEW pc \in {"mark", "save", "supersede", "file", "read", "report"}, Goto(h, pc)
          PROVE  Quota'
      <4>1. pc \in Ensuring \cup Updating \cup {"idle", "file", "count", "token"} /\ pc # "token"
        BY DEF Ensuring, Updating
      <4>2. QED
        BY <1>3, <3>1, <3>4, <4>1, GotoFacts
    <3>5. QED
      BY <3>2, <3>3, <3>4
  <2>4. QED
    BY <1>7, <2>1, <2>2, <2>3 DEF RequestStep
<1>8. QED
  BY <1>1, <1>2, <1>4, <1>5, <1>6, <1>7 DEF Next

\* Requests at once exceed the quota of links by less than there are requests
\* (share-service.ts createReportShare counts the links before it saves one).
THEOREM QuotaOverrunIsBounded == Spec => []QuotaOverrunBounded
<1>1. Init => Quota
  <2> SUFFICES ASSUME Init PROVE Quota
    OBVIOUS
  <2>1. Live = {} /\ Saving = {}
    BY IdleLocal DEF Init, Live, Saving, Busy
  <2>2. QED
    BY <2>1, FS_EmptySet, LinkSets DEF Quota
<1>2. Quota => QuotaOverrunBounded
  BY LinkSets DEF Quota, QuotaOverrunBounded
<1>3. QED
  BY <1>1, <1>2, TypedAlways, QuotaStep, PTL DEF Spec

=============================================================================

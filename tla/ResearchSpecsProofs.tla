-------------------------- MODULE ResearchSpecsProofs --------------------------
(***************************************************************************)
(* Theorems about ResearchSpecs, for every number of requests at once, of  *)
(* proposals, cards, versions, exports and comparisons.                    *)
(***************************************************************************)
EXTENDS ResearchSpecs, FiniteSetTheorems, TLAPS

-----------------------------------------------------------------------------
(* Types, and what a busy request knows.                                   *)

Deciding == {"decide", "log", "create"}
Tasking == {"task", "submit", "approve"}
Comparing == {"result", "parity"}

LocalOK(l, ex) ==
    /\ l.pc \in Deciding => l.proposal \in Proposals
    /\ l.pc \in {"decide", "log"} => l.decision \in {"confirmed", "rejected"}
    /\ l.pc \in Tasking => l.card \in Cards
    /\ l.pc \in Exporting => l.card \in Cards /\ l.version \in Versions /\ l.export \in Exports
    /\ l.pc \in Comparing => l.export \in Exports /\ ex[l.export] # None /\ l.report \in Reports

Typed == TypeOK /\ \A h \in Handlers : LocalOK(local[h], export)

Pcs == Exporting \cup Deciding \cup Tasking \cup Comparing \cup {"idle"}

\* The request h comes to the locals l, and the others stand still.
Puts(h, l) ==
    /\ local' \in [Handlers -> Locals]
    /\ \A g \in Handlers : g # h => local'[g] = local[g]
    /\ local'[h] = l

LEMMA PutFacts ==
    ASSUME Typed, NEW h \in Handlers, NEW l \in Locals, local' = [local EXCEPT ![h] = l]
    PROVE  Puts(h, l)
BY DEF Typed, TypeOK, Puts

\* A request that moves on keeps what it holds.
Kept(l, m, pc) ==
    /\ l \in Locals /\ l.pc = pc /\ l.proposal = m.proposal /\ l.decision = m.decision
    /\ l.card = m.card /\ l.version = m.version /\ l.evidence = m.evidence
    /\ l.export = m.export /\ l.report = m.report

LEMMA GotoFacts ==
    ASSUME Typed, NEW h \in Handlers, NEW pc \in Pcs, Goto(h, pc)
    PROVE  Puts(h, local'[h]) /\ Kept(local'[h], local[h], pc)
<1> DEFINE l == [local[h] EXCEPT !.pc = pc]
<1>1. local \in [Handlers -> Locals] /\ local[h] \in Locals
  BY DEF Typed, TypeOK
<1>2. Kept(l, local[h], pc)
  BY <1>1 DEF Locals, Kept, Pcs, Deciding, Tasking, Comparing
<1>3. local' = [local EXCEPT ![h] = l]
  BY <1>1 DEF Goto
<1> HIDE DEF l
<1>4. l \in Locals
  BY <1>2 DEF Kept
<1>5. QED
  BY <1>2, <1>3, <1>4, PutFacts DEF Puts

LEMMA IdleLocal == Idle \in Locals /\ Idle.pc = "idle" /\ \A ex : LocalOK(Idle, ex)
<1>1. Idle \in Locals /\ Idle.pc = "idle"
  BY DEF Idle, Locals, Evidence
<1>2. \A ex : LocalOK(Idle, ex)
  BY <1>1 DEF LocalOK, Deciding, Tasking, Comparing, Exporting
<1>3. QED
  BY <1>1, <1>2

LEMMA ReturnFacts ==
    ASSUME Typed, NEW h \in Handlers, Return(h)
    PROVE  Puts(h, Idle) /\ local'[h].pc = "idle" /\ LocalOK(local'[h], export')
BY IdleLocal, PutFacts DEF Return, Puts

\* The locals with which requests begin.
LEMMA ProposalLocals ==
    ASSUME NEW p \in Proposals, NEW d \in {"confirmed", "rejected"}
    PROVE  /\ LET l == [Idle EXCEPT !.pc = "decide", !.proposal = p, !.decision = d]
              IN  l \in Locals /\ l.pc = "decide" /\ l.proposal = p /\ l.decision = d
           /\ LET l == [Idle EXCEPT !.pc = "create", !.proposal = p]
              IN  l \in Locals /\ l.pc = "create" /\ l.proposal = p
BY DEF Idle, Locals, Evidence

LEMMA TaskLocals ==
    ASSUME NEW c \in Cards
    PROVE  LET l == [Idle EXCEPT !.pc = "task", !.card = c]
           IN  l \in Locals /\ l.pc = "task" /\ l.card = c
BY DEF Idle, Locals, Evidence

EvidenceLocal(pc, c, ev) == [Idle EXCEPT !.pc = pc, !.card = c, !.evidence = ev]

LEMMA EvidenceLocals ==
    ASSUME NEW c \in Cards, NEW ev \in Evidence, NEW pc \in {"submit", "approve"}
    PROVE  LET l == EvidenceLocal(pc, c, ev)
           IN  l \in Locals /\ l.pc = pc /\ l.card = c /\ l.evidence = ev
BY DEF Idle, Locals, EvidenceLocal

QuotaLocal(c, v, x) == [Idle EXCEPT !.pc = "quota", !.card = c, !.version = v, !.export = x]
CompareLocal(x, r) == [Idle EXCEPT !.pc = "result", !.export = x, !.report = r]

LEMMA PineLocals ==
    ASSUME NEW x \in Exports
    PROVE  /\ \A c \in Cards, v \in Versions :
                LET l == QuotaLocal(c, v, x)
                IN  l \in Locals /\ l.pc = "quota" /\ l.card = c /\ l.version = v /\ l.export = x
           /\ \A r \in Reports :
                LET l == CompareLocal(x, r)
                IN  l \in Locals /\ l.pc = "result" /\ l.export = x /\ l.report = r
BY DEF Idle, Locals, Exporting, Evidence, QuotaLocal, CompareLocal

\* The locals of all requests are in order if those of h are.
LEMMA LocalsOK ==
    ASSUME Typed, NEW h \in Handlers, Puts(h, local'[h]), LocalOK(local'[h], export'),
           \A x \in Exports : export[x] # None => export'[x] # None
    PROVE  local' \in [Handlers -> Locals] /\ \A g \in Handlers : LocalOK(local'[g], export')
<1>1. ASSUME NEW g \in Handlers, g # h PROVE LocalOK(local[g], export')
  <2>1. LocalOK(local[g], export)
    BY DEF Typed
  <2>2. QED
    BY <2>1 DEF LocalOK
<1>2. QED
  BY <1>1 DEF Puts

LEMMA BeginFacts ==
    ASSUME Typed, NEW h \in Handlers, NEW l \in Locals, Begin(h, l), LocalOK(l, export),
           UNCHANGED export
    PROVE  /\ Puts(h, l) /\ local[h].pc = "idle" /\ requests' \in 0..MaxRequests
           /\ local' \in [Handlers -> Locals] /\ \A g \in Handlers : LocalOK(local'[g], export')
<1>1. Puts(h, l) /\ local'[h] = l
  BY PutFacts DEF Begin, Puts
<1>2. requests' \in 0..MaxRequests /\ local[h].pc = "idle"
  BY BoundsAssumption DEF Begin, At, Typed, TypeOK
<1>3. QED
  BY <1>1, <1>2, LocalsOK

LEMMA BeginPuts ==
    ASSUME Typed, NEW h \in Handlers, NEW l \in Locals, Begin(h, l)
    PROVE  Puts(h, l) /\ local'[h] = l /\ local[h].pc = "idle"
BY PutFacts DEF Begin, At, Puts

\* Types by part of the state.
ProposalType ==
    /\ proposal \in [Proposals -> {"proposed", "confirmed", "rejected"}]
    /\ decided \in [Proposals -> SUBSET {"confirmed", "rejected"}]
    /\ source \in [Cards -> Proposals \cup {None}]
    /\ contested \in SUBSET Proposals
SpecType ==
    /\ card \in [Cards -> [Versions -> Card \cup {None}]]
    /\ bundle \in [Cards -> [Versions -> Bundle \cup {None}]]
    /\ task \in [Cards -> Task \cup {None}]
PineType ==
    /\ export \in [Exports -> Export \cup {None}]
    /\ job \in [Exports -> {"absent", "running", "ready", "failed"}]
    /\ result \in [Reports -> Exports \cup {None}]
    /\ met \in BOOLEAN
CountType == requests \in 0..MaxRequests /\ crashes \in 0..MaxCrashes
LocalType == local \in [Handlers -> Locals] /\ \A h \in Handlers : LocalOK(local[h], export)

LEMMA Parts == Typed <=> ProposalType /\ SpecType /\ PineType /\ CountType /\ LocalType
BY DEF Typed, TypeOK, ProposalType, SpecType, PineType, CountType, LocalType

LEMMA Whole ==
    ProposalType' /\ SpecType' /\ PineType' /\ CountType' /\ LocalType' => Typed'
BY DEF Typed, TypeOK, ProposalType, SpecType, PineType, CountType, LocalType

LEMMA PartsKept ==
    ASSUME Typed
    PROVE  /\ UNCHANGED proposalVars => ProposalType'
           /\ UNCHANGED specVars => SpecType'
           /\ UNCHANGED pineVars => PineType'
           /\ UNCHANGED <<requests, crashes>> => CountType'
           /\ UNCHANGED <<local, export>> => LocalType'
BY Parts
   DEF ProposalType, SpecType, PineType, CountType, LocalType, proposalVars, specVars, pineVars

\* A row of a card, or of its bundles, is one.
LEMMA CardType ==
    ASSUME Typed, NEW c \in Cards, NEW v \in Versions
    PROVE  /\ card[c][v] \in Card \cup {None} /\ (card[c][v] # None => card[c][v] \in Card)
           /\ bundle[c][v] \in Bundle \cup {None} /\ (bundle[c][v] # None => bundle[c][v] \in Bundle)
BY DEF Typed, TypeOK

LEMMA InsertTyped ==
    ASSUME Typed, NEW c \in Cards, NEW v, NEW row \in Card, InsertCard(c, v, row)
    PROVE  card' \in [Cards -> [Versions -> Card \cup {None}]]
BY DEF Typed, TypeOK, InsertCard

LEMMA ProposalTyped ==
    ASSUME Typed, NEW h \in Handlers, ProposalStep(h)
    PROVE  Typed'
<1>t. /\ ProposalType /\ SpecType /\ PineType /\ CountType /\ LocalType
      /\ LocalOK(local[h], export) /\ local[h] \in Locals
  BY Parts DEF LocalType
<1>1. ASSUME NEW p \in Proposals, NEW d \in {"confirmed", "rejected"}, DecideProposal(h, p, d)
      PROVE  Typed'
  <2> DEFINE l == [Idle EXCEPT !.pc = "decide", !.proposal = p, !.decision = d]
  <2>1. l \in Locals /\ l.pc = "decide" /\ l.proposal = p /\ l.decision = d /\ Begin(h, l)
    BY ZenonT(30), <1>1, ProposalLocals DEF DecideProposal
  <2> HIDE DEF l
  <2>2. LocalOK(l, export) /\ UNCHANGED <<proposal, decided, source, specVars, pineVars, export, crashes>>
    BY <1>1, <2>1 DEF LocalOK, Deciding, Tasking, Comparing, Exporting, DecideProposal, pineVars
  <2>3. LocalType' /\ CountType'
    BY <1>t, <2>1, <2>2, BeginFacts DEF LocalType, CountType
  <2>4. contested' \in SUBSET Proposals
    BY <1>1, <1>t DEF DecideProposal, Contest, ProposalType
  <2>5. ProposalType'
    BY <1>t, <2>2, <2>4 DEF ProposalType
  <2>6. QED
    BY <2>2, <2>3, <2>5, PartsKept, Whole
<1>2. ASSUME UpdateProposal(h) PROVE Typed'
  <2>1. local[h].proposal \in Proposals /\ local[h].decision \in {"confirmed", "rejected"}
    BY <1>2, <1>t DEF UpdateProposal, At, LocalOK, Deciding
  <2>2. Puts(h, local'[h]) /\ Kept(local'[h], local[h], "log")
    BY <1>2, GotoFacts DEF UpdateProposal, Pcs, Deciding
  <2>3. LocalOK(local'[h], export')
    BY <2>1, <2>2 DEF Kept, LocalOK, Deciding, Tasking, Comparing, Exporting
  <2>4. UNCHANGED <<specVars, pineVars, export, requests, crashes>>
    BY <1>2 DEF UpdateProposal, pineVars
  <2>5. LocalType'
    BY <2>2, <2>3, <2>4, LocalsOK DEF LocalType
  <2>6. ProposalType'
    BY <1>2, <1>t, <2>1 DEF UpdateProposal, ProposalType
  <2>7. QED
    BY <2>4, <2>5, <2>6, PartsKept, Whole
<1>3. ASSUME InsertDecision(h) PROVE Typed'
  <2>1. local[h].proposal \in Proposals /\ local[h].decision \in {"confirmed", "rejected"}
    BY <1>3, <1>t DEF InsertDecision, At, LocalOK, Deciding
  <2>2. UNCHANGED <<specVars, pineVars, export, requests, crashes>> /\ Return(h)
    BY <1>3 DEF InsertDecision, pineVars
  <2>3. LocalType'
    BY <2>2, ReturnFacts, LocalsOK DEF LocalType, Puts
  <2>4. ProposalType'
    BY <1>3, <1>t, <2>1 DEF InsertDecision, ProposalType
  <2>5. QED
    BY <2>2, <2>3, <2>4, PartsKept, Whole
<1>4. ASSUME NEW p \in Proposals, CreateCardFromProposal(h, p) PROVE Typed'
  <2> DEFINE l == [Idle EXCEPT !.pc = "create", !.proposal = p]
  <2>1. l \in Locals /\ l.pc = "create" /\ l.proposal = p /\ Begin(h, l)
    BY <1>4, ProposalLocals DEF CreateCardFromProposal
  <2> HIDE DEF l
  <2>2. LocalOK(l, export) /\ UNCHANGED <<proposal, decided, source, specVars, pineVars, export, crashes>>
    BY <1>4, <2>1
       DEF LocalOK, Deciding, Tasking, Comparing, Exporting, CreateCardFromProposal, pineVars
  <2>3. LocalType' /\ CountType'
    BY <1>t, <2>1, <2>2, BeginFacts DEF LocalType, CountType
  <2>4. contested' \in SUBSET Proposals
    BY <1>4, <1>t DEF CreateCardFromProposal, Contest, ProposalType
  <2>5. ProposalType'
    BY <1>t, <2>2, <2>4 DEF ProposalType
  <2>6. QED
    BY <2>2, <2>3, <2>5, PartsKept, Whole
<1>5. ASSUME NEW c \in Cards, NEW body \in Bodies, SaveCard(h, c, body) PROVE Typed'
  <2>1. local[h].proposal \in Proposals
    BY <1>5, <1>t DEF SaveCard, At, LocalOK, Deciding
  <2>2. UNCHANGED <<pineVars, export, requests, crashes>> /\ Return(h)
    BY <1>5 DEF SaveCard, pineVars
  <2>3. LocalType'
    BY <2>2, ReturnFacts, LocalsOK DEF LocalType, Puts
  <2>4. [status |-> "draft", body |-> body] \in Card
    BY DEF Card, Bodies
  <2>5. SpecType'
    BY <1>5, <1>t, <2>4, InsertTyped DEF SaveCard, SpecType
  <2>6. ProposalType'
    BY <1>5, <1>t, <2>1 DEF SaveCard, ProposalType
  <2>7. QED
    BY <2>2, <2>3, <2>5, <2>6, PartsKept, Whole
<1>6. QED
  BY <1>1, <1>2, <1>3, <1>4, <1>5 DEF ProposalStep

LEMMA CardTyped ==
    ASSUME Typed, NEW c \in Cards, NEW v \in Versions, CardStep(c, v)
    PROVE  Typed'
<1>1. UNCHANGED <<local, export, requests, crashes, proposalVars, pineVars, task>>
  BY DEF CardStep, ReviseCard, ConfirmHypothesisCard, ApproveResearchSpecBundle, pineVars
<1>2. SpecType'
  <2>1. ASSUME NEW body \in Bodies, ReviseCard(c, v, body) PROVE SpecType'
    <3>1. [status |-> "draft", body |-> body] \in Card
      BY DEF Card, Bodies
    <3>2. card' \in [Cards -> [Versions -> Card \cup {None}]]
      BY <2>1, <3>1, InsertTyped DEF ReviseCard
    <3>3. QED
      BY <1>1, <2>1, <3>2, Parts DEF ReviseCard, SpecType
  <2>2. CASE ConfirmHypothesisCard(c, v)
    <3>1. [card[c][v] EXCEPT !.status = "confirmed"] \in Card
      BY <2>2, CardType DEF ConfirmHypothesisCard, Card
    <3>2. card' \in [Cards -> [Versions -> Card \cup {None}]]
      BY <2>2, <3>1, InsertTyped DEF ConfirmHypothesisCard
    <3>3. QED
      BY <1>1, <2>2, <3>2, Parts DEF ConfirmHypothesisCard, SpecType
  <2>3. CASE ApproveResearchSpecBundle(c, v)
    <3> DEFINE b == [bundle[c][v] EXCEPT !.status = "approved"]
    <3>1. b \in Bundle
      BY <2>3, CardType DEF ApproveResearchSpecBundle, Bundle
    <3>2. bundle' = [bundle EXCEPT ![c][v] = b]
      BY <2>3, Parts DEF ApproveResearchSpecBundle, SpecType
    <3> HIDE DEF b
    <3>3. bundle' \in [Cards -> [Versions -> Bundle \cup {None}]]
      BY <3>1, <3>2, Parts DEF SpecType
    <3>4. QED
      BY <1>1, <2>3, <3>3, Parts DEF ApproveResearchSpecBundle, SpecType
  <2>4. QED
    BY <2>1, <2>2, <2>3 DEF CardStep
<1>3. QED
  BY <1>1, <1>2, PartsKept, Whole

LEMMA SpecTyped ==
    ASSUME Typed, NEW h \in Handlers, NEW c \in Cards, SpecStep(h, c)
    PROVE  Typed'
<1>t. ProposalType /\ SpecType /\ PineType /\ CountType /\ LocalType
  BY Parts
<1>1. ASSUME NEW v \in Versions, NEW compile \in {"ready", "task", "blocked"},
             GenerateResearchSpecBundle(h, c, v, compile)
      PROVE  Typed'
  <2> DEFINE l == IF compile = "task" THEN [Idle EXCEPT !.pc = "task", !.card = c] ELSE Idle
  <2>1. l \in Locals /\ LocalOK(l, export)
    <3>1. CASE compile = "task"
      <4>1. l \in Locals /\ l.pc = "task" /\ l.card = c
        BY <3>1, TaskLocals
      <4> HIDE DEF l
      <4>2. QED
        BY <4>1 DEF LocalOK, Deciding, Tasking, Comparing, Exporting
    <3>2. CASE compile # "task"
      BY <3>2, IdleLocal
    <3>3. QED
      BY <3>1, <3>2
  <2>2. Begin(h, l) /\ UNCHANGED <<card, task, crashes, proposalVars, pineVars, export>>
    BY <1>1 DEF GenerateResearchSpecBundle, pineVars
  <2> HIDE DEF l
  <2>3. LocalType' /\ CountType'
    BY <1>t, <2>1, <2>2, BeginFacts DEF LocalType, CountType
  <2> DEFINE b == [status |-> "generated", compile |-> compile]
  <2>4. b \in Bundle
    BY DEF Bundle
  <2>5. bundle' = [bundle EXCEPT ![c][v] = b]
    BY <1>1 DEF GenerateResearchSpecBundle
  <2> HIDE DEF b
  <2>6. SpecType'
    BY <1>t, <2>2, <2>4, <2>5 DEF SpecType
  <2>7. QED
    BY <2>2, <2>3, <2>6, PartsKept, Whole
<1>2. ASSUME NEW evidence \in Evidence, SubmitImplementationEvidence(h, c, evidence) PROVE Typed'
  <2> DEFINE l == EvidenceLocal("submit", c, evidence)
  <2>0. l \in Locals /\ l.pc = "submit" /\ l.card = c
    BY EvidenceLocals
  <2>2. Begin(h, l) /\ UNCHANGED <<crashes, specVars, proposalVars, pineVars, export>>
    BY <1>2 DEF SubmitImplementationEvidence, pineVars, EvidenceLocal
  <2> HIDE DEF l
  <2>1. l \in Locals /\ LocalOK(l, export)
    BY <2>0 DEF LocalOK, Deciding, Tasking, Comparing, Exporting
  <2>3. LocalType' /\ CountType'
    BY <1>t, <2>1, <2>2, BeginFacts DEF LocalType, CountType
  <2>4. QED
    BY <2>2, <2>3, PartsKept, Whole
<1>3. ASSUME ApproveImplementationTask(h, c) PROVE Typed'
  <2> DEFINE l == EvidenceLocal("approve", c, task[c].evidence)
  <2>1. task[c].evidence \in Evidence
    BY <1>3, <1>t DEF ApproveImplementationTask, SpecType, Task
  <2>0. l \in Locals /\ l.pc = "approve" /\ l.card = c
    BY <2>1, EvidenceLocals
  <2>3. Begin(h, l) /\ UNCHANGED <<crashes, specVars, proposalVars, pineVars, export>>
    BY <1>3 DEF ApproveImplementationTask, pineVars, EvidenceLocal
  <2> HIDE DEF l
  <2>2. l \in Locals /\ LocalOK(l, export)
    BY <2>0 DEF LocalOK, Deciding, Tasking, Comparing, Exporting
  <2>4. LocalType' /\ CountType'
    BY <1>t, <2>2, <2>3, BeginFacts DEF LocalType, CountType
  <2>5. QED
    BY <2>3, <2>4, PartsKept, Whole
<1>4. QED
  BY <1>1, <1>2, <1>3 DEF SpecStep

LEMMA TaskTyped ==
    ASSUME Typed, NEW h \in Handlers, TaskStep(h)
    PROVE  Typed'
<1>1. local[h].card \in Cards /\ local[h] \in Locals
  BY DEF Typed, TypeOK, LocalOK, TaskStep, SaveTask, WriteEvidence, WriteApproval, At, Tasking
<1>2. /\ UNCHANGED <<card, bundle, requests, crashes, proposalVars, pineVars, export>>
      /\ Return(h)
  BY DEF TaskStep, SaveTask, WriteEvidence, WriteApproval, pineVars
<1>3. LocalType'
  BY <1>2, ReturnFacts, LocalsOK DEF LocalType, Puts
<1>4. /\ [status |-> "draft", evidence |-> "none"] \in Task
      /\ [status |-> "in_review", evidence |-> local[h].evidence] \in Task
      /\ [status |-> "approved", evidence |-> local[h].evidence] \in Task
  BY <1>1 DEF Task, Evidence, Locals
<1>5. task' \in [Cards -> Task \cup {None}]
  BY <1>1, <1>4, Parts DEF TaskStep, SaveTask, WriteEvidence, WriteApproval, SpecType
<1>6. SpecType'
  BY <1>2, <1>5, Parts DEF SpecType
<1>7. QED
  BY <1>2, <1>3, <1>6, PartsKept, Whole

\* The row that a request saves as the new export.
Row(l) == [status |-> "ready", card |-> l.card, version |-> l.version, parity |-> "provisional"]
Superseded(x) == [export[x] EXCEPT !.status = "superseded"]
Compared(x, verdict) == [export[x] EXCEPT !.parity = verdict]

LEMMA RowFacts ==
    ASSUME NEW l, l.card \in Cards, l.version \in Versions
    PROVE  /\ Row(l) \in Export /\ Row(l) # None /\ Row(l).status = "ready"
           /\ Row(l).card = l.card /\ Row(l).version = l.version /\ Row(l).parity = "provisional"
BY NoneAssumption DEF Row, Export

LEMMA RowChanges ==
    ASSUME NEW x \in Exports, export[x] \in Export, NEW verdict \in {"verified", "divergent"}
    PROVE  /\ Superseded(x) \in Export /\ Superseded(x) # None /\ Superseded(x).status = "superseded"
           /\ Superseded(x).card = export[x].card /\ Superseded(x).version = export[x].version
           /\ Superseded(x).parity = export[x].parity
           /\ Compared(x, verdict) \in Export /\ Compared(x, verdict) # None
           /\ Compared(x, verdict).status = export[x].status
           /\ Compared(x, verdict).card = export[x].card
           /\ Compared(x, verdict).version = export[x].version
           /\ Compared(x, verdict).parity = verdict
BY NoneAssumption DEF Superseded, Compared, Export

\* What the steps of a Pine export and of a comparison write.
LEMMA SupersedeFacts ==
    ASSUME Typed, NEW h \in Handlers, SupersedePineExports(h)
    PROVE  /\ export' = [x \in Exports |-> IF x \in Ready THEN Superseded(x) ELSE export[x]]
           /\ \A x \in Ready : x \in Exports /\ export[x] \in Export
           /\ export' \in [Exports -> Export \cup {None}]
           /\ \A x \in Exports : export'[x] = None <=> export[x] = None
<1>1. /\ export' = [x \in Exports |-> IF x \in Ready THEN Superseded(x) ELSE export[x]]
      /\ \A x \in Ready : x \in Exports /\ export[x] \in Export
  BY DEF SupersedePineExports, Superseded, Typed, TypeOK, Ready, Saved
<1>2. \A x \in Ready : Superseded(x) \in Export /\ Superseded(x) # None
  BY <1>1, RowChanges
<1>3. \A x \in Ready : export[x] # None
  BY DEF Ready, Saved
<1>4. QED
  BY <1>1, <1>2, <1>3 DEF Typed, TypeOK

LEMMA SaveFacts ==
    ASSUME Typed, NEW h \in Handlers, SavePineExport(h)
    PROVE  /\ local[h].export \in Exports /\ local[h].card \in Cards /\ local[h].version \in Versions
           /\ export' = [export EXCEPT ![local[h].export] = Row(local[h])]
           /\ export' \in [Exports -> Export \cup {None}]
           /\ \A x \in Exports : export[x] # None => export'[x] # None
<1>1. local[h].export \in Exports /\ local[h].card \in Cards /\ local[h].version \in Versions
  BY DEF Typed, LocalOK, SavePineExport, At, Exporting
<1>2. export' = [export EXCEPT ![local[h].export] = Row(local[h])]
  BY DEF SavePineExport, Row
<1>3. QED
  BY <1>1, <1>2, RowFacts DEF Typed, TypeOK

LEMMA ParityFacts ==
    ASSUME Typed, NEW h \in Handlers, UpdatePineParity(h)
    PROVE  /\ local[h].export \in Exports /\ local[h].report \in Reports
           /\ export[local[h].export] \in Export
           /\ VerdictOf[local[h].report] \in {"verified", "divergent"}
           /\ export' = [export EXCEPT ![local[h].export] =
                             Compared(local[h].export, VerdictOf[local[h].report])]
           /\ export' \in [Exports -> Export \cup {None}]
           /\ \A x \in Exports : export'[x] = None <=> export[x] = None
<1>1. local[h].export \in Exports /\ local[h].report \in Reports /\ export[local[h].export] \in Export
  BY DEF Typed, TypeOK, LocalOK, UpdatePineParity, At, Comparing
<1>2. VerdictOf[local[h].report] \in {"verified", "divergent"}
  BY <1>1, VerdictAssumption
<1>3. export' = [export EXCEPT ![local[h].export] =
                     Compared(local[h].export, VerdictOf[local[h].report])]
  BY <1>1 DEF UpdatePineParity, Compared, Typed, TypeOK
<1>4. QED
  BY <1>1, <1>2, <1>3, RowChanges, NoneAssumption DEF Typed, TypeOK

LEMMA PineTyped ==
    ASSUME Typed, NEW h \in Handlers, PineStep(h)
    PROVE  Typed'
<1>t. /\ ProposalType /\ SpecType /\ PineType /\ CountType /\ LocalType
      /\ LocalOK(local[h], export) /\ local[h] \in Locals
  BY Parts DEF LocalType
<1>1. ASSUME NEW c \in Cards, NEW v \in Versions, NEW x \in Exports, GeneratePineExport(h, c, v, x)
      PROVE  Typed'
  <2> DEFINE l == QuotaLocal(c, v, x)
  <2>1. l \in Locals /\ l.pc = "quota" /\ l.card = c /\ l.version = v /\ l.export = x
    BY PineLocals
  <2>2. Begin(h, l) /\ UNCHANGED <<export, job, result, crashes, proposalVars, specVars>>
    BY <1>1 DEF GeneratePineExport, QuotaLocal
  <2> HIDE DEF l
  <2>3. LocalOK(l, export)
    BY <2>1 DEF LocalOK, Deciding, Tasking, Comparing, Exporting
  <2>4. LocalType' /\ CountType'
    BY <1>t, <2>1, <2>2, <2>3, BeginFacts DEF LocalType, CountType
  <2>5. met' \in BOOLEAN
    BY <1>1, <1>t DEF GeneratePineExport, PineType
  <2>6. PineType'
    BY <1>t, <2>2, <2>5 DEF PineType
  <2>7. QED
    BY <2>2, <2>4, <2>6, PartsKept, Whole
<1>2. ASSUME NEW x \in Exports, NEW r \in Reports, ComparePineExport(h, x, r) PROVE Typed'
  <2> DEFINE l == CompareLocal(x, r)
  <2>1. l \in Locals /\ l.pc = "result" /\ l.export = x /\ l.report = r /\ export[x] # None
    BY <1>2, PineLocals DEF ComparePineExport, Saved
  <2>2. Begin(h, l) /\ UNCHANGED <<export, crashes, proposalVars, specVars, pineVars>>
    BY <1>2 DEF ComparePineExport, pineVars, CompareLocal
  <2> HIDE DEF l
  <2>3. LocalOK(l, export)
    BY <2>1 DEF LocalOK, Deciding, Tasking, Comparing, Exporting
  <2>4. LocalType' /\ CountType'
    BY <1>t, <2>1, <2>2, <2>3, BeginFacts DEF LocalType, CountType
  <2>5. QED
    BY <2>2, <2>4, PartsKept, Whole
<1>3. ASSUME \/ SavePineExportJob(h) \/ SupersedePineExports(h) \/ SavePineExport(h)
             \/ FinishPineExportJob(h) \/ AppendPineLifecycle(h) \/ FailPineExportJob(h)
      PROVE  Typed'
  <2>1. /\ local[h].pc \in Exporting
        /\ local[h].export \in Exports /\ local[h].card \in Cards /\ local[h].version \in Versions
    BY <1>3, <1>t DEF LocalOK, SavePineExportJob, SupersedePineExports, SavePineExport,
       FinishPineExportJob, AppendPineLifecycle, FailPineExportJob, At, Exporting
  <2>2. UNCHANGED <<result, met, requests, crashes, proposalVars, specVars>>
    BY <1>3 DEF SavePineExportJob, SupersedePineExports, SavePineExport,
       FinishPineExportJob, AppendPineLifecycle, FailPineExportJob, pineVars
  <2>3. Return(h) \/ \E pc \in Exporting : Goto(h, pc)
    BY <1>3 DEF SavePineExportJob, SupersedePineExports, SavePineExport,
       FinishPineExportJob, AppendPineLifecycle, FailPineExportJob, Exporting
  <2>4. Puts(h, local'[h]) /\ LocalOK(local'[h], export')
    <3>1. CASE Return(h)
      BY <3>1, ReturnFacts DEF Puts
    <3>2. ASSUME NEW pc \in Exporting, Goto(h, pc)
          PROVE  Puts(h, local'[h]) /\ LocalOK(local'[h], export')
      <4>1. Puts(h, local'[h]) /\ Kept(local'[h], local[h], pc)
        BY <3>2, GotoFacts DEF Pcs
      <4>2. QED
        BY <2>1, <4>1 DEF Kept, LocalOK, Deciding, Tasking, Comparing, Exporting
    <3>3. QED
      BY <2>3, <3>1, <3>2
  <2>5. /\ export' \in [Exports -> Export \cup {None}]
        /\ \A x \in Exports : export[x] # None => export'[x] # None
    BY <1>3, <1>t, SupersedeFacts, SaveFacts DEF SavePineExportJob, FinishPineExportJob,
       AppendPineLifecycle, FailPineExportJob, pineVars, PineType
  <2>6. job' \in [Exports -> {"absent", "running", "ready", "failed"}]
    BY <1>3, <1>t, <2>1 DEF SavePineExportJob, SupersedePineExports, SavePineExport,
       FinishPineExportJob, AppendPineLifecycle, FailPineExportJob, pineVars, PineType
  <2>7. LocalType'
    BY <2>4, <2>5, LocalsOK DEF LocalType
  <2>8. PineType'
    BY <1>t, <2>2, <2>5, <2>6 DEF PineType
  <2>9. QED
    BY <2>2, <2>7, <2>8, PartsKept, Whole
<1>4. CASE SaveParity(h)
  <2>1. local[h].export \in Exports /\ export[local[h].export] # None /\ local[h].report \in Reports
    BY <1>4, <1>t DEF SaveParity, At, LocalOK, Comparing
  <2>2. UNCHANGED <<export, job, met, requests, crashes, proposalVars, specVars>>
    BY <1>4 DEF SaveParity
  <2>3. Puts(h, local'[h]) /\ Kept(local'[h], local[h], "parity")
    BY <1>4, GotoFacts DEF SaveParity, Pcs, Comparing
  <2>4. LocalOK(local'[h], export')
    BY <2>1, <2>2, <2>3 DEF Kept, LocalOK, Deciding, Tasking, Comparing, Exporting
  <2>5. LocalType'
    BY <2>2, <2>3, <2>4, LocalsOK DEF LocalType
  <2>6. PineType'
    BY <1>4, <1>t, <2>1, <2>2 DEF SaveParity, PineType
  <2>7. QED
    BY <2>2, <2>5, <2>6, PartsKept, Whole
<1>5. CASE UpdatePineParity(h)
  <2>1. UNCHANGED <<job, result, met, requests, crashes, proposalVars, specVars>> /\ Return(h)
    BY <1>5 DEF UpdatePineParity
  <2>2. /\ export' \in [Exports -> Export \cup {None}]
        /\ \A x \in Exports : export[x] # None => export'[x] # None
    BY <1>5, ParityFacts
  <2>3. LocalType'
    BY <2>1, <2>2, ReturnFacts, LocalsOK DEF LocalType, Puts
  <2>4. PineType'
    BY <1>t, <2>1, <2>2 DEF PineType
  <2>5. QED
    BY <2>1, <2>3, <2>4, PartsKept, Whole
<1>6. QED
  BY <1>1, <1>2, <1>3, <1>4, <1>5 DEF PineStep

LEMMA CrashTyped ==
    ASSUME Typed, NEW h \in Handlers, Crash(h)
    PROVE  Typed'
<1>1. Return(h) /\ UNCHANGED <<requests, export, proposalVars, specVars, pineVars>>
  BY DEF Crash, pineVars
<1>2. LocalType'
  BY <1>1, ReturnFacts, LocalsOK DEF LocalType, Puts
<1>3. CountType'
  BY <1>1, BoundsAssumption, Parts DEF Crash, CountType
<1>4. QED
  BY <1>1, <1>2, <1>3, PartsKept, Whole

LEMMA TypedStep == Typed /\ [Next]_vars => Typed'
<1> SUFFICES ASSUME Typed, [Next]_vars PROVE Typed'
  OBVIOUS
<1>1. CASE UNCHANGED vars
  BY <1>1, PartsKept, Whole DEF vars, pineVars
<1>2. QED
  BY <1>1, ProposalTyped, TaskTyped, PineTyped, CrashTyped, SpecTyped, CardTyped DEF Next

LEMMA TypedInit == Init => Typed
<1> SUFFICES ASSUME Init PROVE Typed
  OBVIOUS
<1>1. 0 \in 0..MaxRequests /\ 0 \in 0..MaxCrashes
  BY BoundsAssumption
<1>2. TypeOK
  BY <1>1, IdleLocal DEF Init, TypeOK
<1>3. \A h \in Handlers : LocalOK(local[h], export)
  BY IdleLocal DEF Init
<1>4. QED
  BY <1>2, <1>3 DEF Typed

LEMMA TypedAlways == Spec => []Typed
BY TypedInit, TypedStep, PTL DEF Spec

\* Rows and locals keep their types: a request that decides about a proposal has a
\* decision, one that compares an export has an export that was saved.
THEOREM TypeCorrect == Spec => []TypeOK
<1>1. Typed => TypeOK
  BY DEF Typed
<1>2. QED
  BY <1>1, TypedAlways, PTL

-----------------------------------------------------------------------------
(* Who moves.                                                              *)

\* A step of h, a request of the kind that runs through pcs.
Moves(h, pcs) ==
    /\ \A g \in Handlers : g # h => local'[g] = local[g]
    /\ local[h].pc \in pcs \cup {"idle"}
    /\ local'[h].pc \in pcs \cup {"idle"}

LEMMA PutMoves ==
    ASSUME Typed, NEW h \in Handlers, NEW pcs \in SUBSET Pcs
    PROVE  /\ \A l \in Locals : Begin(h, l) /\ l.pc \in pcs \cup {"idle"} => Moves(h, pcs)
           /\ \A pc \in pcs : Goto(h, pc) /\ local[h].pc \in pcs => Moves(h, pcs)
           /\ Return(h) /\ local[h].pc \in pcs => Moves(h, pcs)
<1>1. ASSUME NEW l \in Locals, Begin(h, l), l.pc \in pcs \cup {"idle"} PROVE Moves(h, pcs)
  BY <1>1, BeginPuts DEF Moves, Puts
<1>2. ASSUME NEW pc \in pcs, Goto(h, pc), local[h].pc \in pcs PROVE Moves(h, pcs)
  BY <1>2, GotoFacts DEF Moves, Puts, Kept
<1>3. ASSUME Return(h), local[h].pc \in pcs PROVE Moves(h, pcs)
  BY <1>3, ReturnFacts DEF Moves, Puts
<1>4. QED
  BY <1>1, <1>2, <1>3

LEMMA ProposalMoves ==
    ASSUME Typed, NEW h \in Handlers, ProposalStep(h)
    PROVE  Moves(h, Deciding) /\ UNCHANGED <<bundle, task, pineVars, crashes>>
<1>p. Deciding \in SUBSET Pcs
  BY DEF Pcs
<1>1. ASSUME NEW p \in Proposals, NEW d \in {"confirmed", "rejected"}, DecideProposal(h, p, d)
      PROVE  Moves(h, Deciding)
  <2> DEFINE l == [Idle EXCEPT !.pc = "decide", !.proposal = p, !.decision = d]
  <2>1. l \in Locals /\ l.pc = "decide"
    BY ZenonT(30), ProposalLocals
  <2>2. Begin(h, l)
    BY <1>1 DEF DecideProposal
  <2> HIDE DEF l
  <2>3. QED
    BY <1>p, <2>1, <2>2, PutMoves DEF Deciding
<1>2. ASSUME UpdateProposal(h) PROVE Moves(h, Deciding)
  BY <1>2, <1>p, PutMoves DEF UpdateProposal, Deciding, At
<1>3. ASSUME NEW p \in Proposals, CreateCardFromProposal(h, p) PROVE Moves(h, Deciding)
  <2> DEFINE l == [Idle EXCEPT !.pc = "create", !.proposal = p]
  <2>1. l \in Locals /\ l.pc \in Deciding /\ Begin(h, l)
    BY <1>3, ProposalLocals DEF CreateCardFromProposal, Deciding
  <2> HIDE DEF l
  <2>2. QED
    BY <1>p, <2>1, PutMoves
<1>4. ASSUME InsertDecision(h) \/ \E c \in Cards, body \in Bodies : SaveCard(h, c, body)
      PROVE  Moves(h, Deciding)
  BY <1>4, <1>p, PutMoves DEF InsertDecision, SaveCard, Deciding, At
<1>5. UNCHANGED <<bundle, task, pineVars, crashes>>
  BY DEF ProposalStep, DecideProposal, UpdateProposal, InsertDecision, CreateCardFromProposal,
     SaveCard, specVars
<1>6. QED
  BY <1>1, <1>2, <1>3, <1>4, <1>5 DEF ProposalStep

LEMMA TaskMoves ==
    ASSUME Typed, NEW h \in Handlers, TaskStep(h) \/ \E c \in Cards : SpecStep(h, c)
    PROVE  Moves(h, Tasking) /\ UNCHANGED <<proposalVars, pineVars, crashes>>
<1>p. Tasking \in SUBSET Pcs
  BY DEF Pcs
<1>1. ASSUME TaskStep(h) PROVE Moves(h, Tasking)
  BY <1>1, <1>p, PutMoves DEF TaskStep, SaveTask, WriteEvidence, WriteApproval, At, Tasking
<1>2. ASSUME NEW c \in Cards, NEW v \in Versions, NEW compile, GenerateResearchSpecBundle(h, c, v, compile)
      PROVE  Moves(h, Tasking)
  <2>1. CASE compile = "task"
    BY <1>2, <1>p, <2>1, TaskLocals, PutMoves DEF GenerateResearchSpecBundle, Tasking
  <2>2. CASE compile # "task"
    BY <1>2, <1>p, <2>2, IdleLocal, PutMoves DEF GenerateResearchSpecBundle
  <2>3. QED
    BY <2>1, <2>2
<1>3. ASSUME NEW c \in Cards, NEW ev \in Evidence, SubmitImplementationEvidence(h, c, ev)
      PROVE  Moves(h, Tasking)
  <2> DEFINE l == EvidenceLocal("submit", c, ev)
  <2>1. l \in Locals /\ l.pc \in Tasking
    BY EvidenceLocals DEF Tasking
  <2>2. Begin(h, l)
    BY <1>3 DEF SubmitImplementationEvidence, EvidenceLocal
  <2> HIDE DEF l
  <2>3. QED
    BY <1>p, <2>1, <2>2, PutMoves
<1>4. ASSUME NEW c \in Cards, ApproveImplementationTask(h, c) PROVE Moves(h, Tasking)
  <2> DEFINE l == EvidenceLocal("approve", c, task[c].evidence)
  <2>1. task[c].evidence \in Evidence
    BY <1>4, Parts DEF ApproveImplementationTask, SpecType, Task
  <2>2. l \in Locals /\ l.pc \in Tasking
    BY <2>1, EvidenceLocals DEF Tasking
  <2>3. Begin(h, l)
    BY <1>4 DEF ApproveImplementationTask, EvidenceLocal
  <2> HIDE DEF l
  <2>4. QED
    BY <1>p, <2>2, <2>3, PutMoves
<1>5. UNCHANGED <<proposalVars, pineVars, crashes>>
  BY DEF TaskStep, SaveTask, WriteEvidence, WriteApproval, SpecStep, GenerateResearchSpecBundle,
     SubmitImplementationEvidence, ApproveImplementationTask
<1>6. QED
  BY <1>1, <1>2, <1>3, <1>4, <1>5 DEF SpecStep

LEMMA PineMoves ==
    ASSUME Typed, NEW h \in Handlers, PineStep(h)
    PROVE  Moves(h, Exporting \cup Comparing) /\ UNCHANGED <<proposalVars, specVars, crashes>>
<1> DEFINE Pine == Exporting \cup Comparing
<1>p. Pine \in SUBSET Pcs
  BY DEF Pcs
<1>1. ASSUME NEW c \in Cards, NEW v \in Versions, NEW x \in Exports, GeneratePineExport(h, c, v, x)
      PROVE  Moves(h, Pine)
  <2> DEFINE l == QuotaLocal(c, v, x)
  <2>1. l \in Locals /\ l.pc \in Pine
    BY PineLocals DEF Exporting
  <2>2. Begin(h, l)
    BY <1>1 DEF GeneratePineExport, QuotaLocal
  <2> HIDE DEF l
  <2>3. QED
    BY <1>p, <2>1, <2>2, PutMoves
<1>2. ASSUME NEW x \in Exports, NEW r \in Reports, ComparePineExport(h, x, r) PROVE Moves(h, Pine)
  <2> DEFINE l == CompareLocal(x, r)
  <2>1. l \in Locals /\ l.pc \in Pine
    BY PineLocals DEF Comparing
  <2>2. Begin(h, l)
    BY <1>2 DEF ComparePineExport, CompareLocal
  <2> HIDE DEF l
  <2>3. QED
    BY <1>p, <2>1, <2>2, PutMoves
<1>3. ASSUME \/ SavePineExportJob(h) \/ SupersedePineExports(h) \/ SavePineExport(h)
             \/ FinishPineExportJob(h) \/ AppendPineLifecycle(h) \/ FailPineExportJob(h)
             \/ SaveParity(h) \/ UpdatePineParity(h)
      PROVE  Moves(h, Pine)
  <2>1. (Return(h) \/ \E pc \in Pine : Goto(h, pc)) /\ local[h].pc \in Pine
    BY <1>3 DEF SavePineExportJob, SupersedePineExports, SavePineExport, FinishPineExportJob,
       AppendPineLifecycle, FailPineExportJob, SaveParity, UpdatePineParity, At, Exporting, Comparing
  <2>2. QED
    BY <1>p, <2>1, PutMoves
<1>4. UNCHANGED <<proposalVars, specVars, crashes>>
  BY DEF PineStep, GeneratePineExport, SavePineExportJob, SupersedePineExports, SavePineExport,
     FinishPineExportJob, AppendPineLifecycle, FailPineExportJob, ComparePineExport, SaveParity,
     UpdatePineParity
<1>5. QED
  BY <1>1, <1>2, <1>3, <1>4 DEF PineStep

LEMMA CrashMoves ==
    ASSUME Typed, NEW h \in Handlers, Crash(h)
    PROVE  /\ \A g \in Handlers : g # h => local'[g] = local[g]
           /\ local'[h].pc = "idle" /\ local[h].pc # "idle" /\ crashes' # 0
           /\ UNCHANGED <<proposalVars, specVars, pineVars>>
BY ReturnFacts, BoundsAssumption DEF Crash, Puts, At, Typed, TypeOK

-----------------------------------------------------------------------------
(* Cards and bundles.                                                      *)

\* The versions of a card have no gaps, and from a confirmed version on all are
\* confirmed and have its body.
NoGaps ==
    \A c \in Cards, v, w \in Versions : v <= w /\ card[c][w] # None => card[c][v] # None
Settled ==
    \A c \in Cards, v, w \in Versions :
        v <= w /\ Confirmed(c, v) /\ card[c][w] # None =>
            Confirmed(c, w) /\ card[c][w].body = card[c][v].body
BundlesConfirmed == \A c \in Cards, v \in Versions : bundle[c][v] # None => Confirmed(c, v)

Lineage == NoGaps /\ Settled /\ BundlesConfirmed

\* A version can be inserted only after all others, and repeats the one before if
\* that is confirmed.
LEMMA InsertKeepsLineage ==
    ASSUME Typed, Lineage, NEW c \in Cards, NEW u \in Versions, NEW row \in Card,
           InsertCard(c, u, row), UNCHANGED bundle,
           u = 1 \/ \E v \in Versions :
                       /\ u = v + 1
                       /\ card[c][v] # None
                       /\ Confirmed(c, v) => row.status = "confirmed" /\ row.body = card[c][v].body
    PROVE  Lineage'
<1>1. /\ \A d \in Cards, v \in Versions : ~(d = c /\ v = u) => card'[d][v] = card[d][v]
      /\ card'[c][u] = row /\ card[c][u] = None /\ row # None
  BY NoneAssumption DEF InsertCard, Typed, TypeOK
<1>2. \A v \in Versions : v >= u => card[c][v] = None
  BY <1>1 DEF Lineage, NoGaps
<1>3. \A v \in Versions : v < u => card[c][v] # None
  <2>1. CASE u = 1
    BY <2>1 DEF Versions
  <2>2. ASSUME NEW v \in Versions, u = v + 1, card[c][v] # None
        PROVE  \A w \in Versions : w < u => card[c][w] # None
    <3>1. \A w \in Versions : w < u => w <= v
      BY <2>2 DEF Versions
    <3>2. QED
      BY <2>2, <3>1 DEF Lineage, NoGaps
  <2>3. QED
    BY <2>1, <2>2
<1>4. \A d \in Cards, v \in Versions : card[d][v] # None => card'[d][v] = card[d][v]
  BY <1>1
<1>5. NoGaps'
  <2> SUFFICES ASSUME NEW d \in Cards, NEW v \in Versions, NEW w \in Versions,
                      v <= w, card'[d][w] # None
               PROVE  card'[d][v] # None
    BY DEF NoGaps
  <2>1. CASE d = c /\ w = u
    <3>1. v < u \/ v = u
      BY <2>1 DEF Versions
    <3>2. QED
      BY <1>1, <1>3, <1>4, <2>1, <3>1
  <2>2. CASE ~(d = c /\ w = u)
    BY <1>1, <1>4, <2>2 DEF Lineage, NoGaps
  <2>3. QED
    BY <2>1, <2>2
<1>6. \A d \in Cards, v \in Versions : Confirmed(d, v) => Confirmed(d, v)'
  BY <1>4 DEF Confirmed
<1>7. Settled'
  <2> SUFFICES ASSUME NEW d \in Cards, NEW v \in Versions, NEW w \in Versions,
                      v <= w, Confirmed(d, v)', card'[d][w] # None
               PROVE  Confirmed(d, w)' /\ card'[d][w].body = card'[d][v].body
    BY DEF Settled
  <2>1. CASE d = c /\ v = u
    <3>1. w = u
      BY <1>1, <1>2, <2>1 DEF Versions
    <3>2. QED
      BY <2>1, <3>1
  <2>2. CASE d = c /\ v # u /\ w = u
    <3>1. v < u /\ u # 1
      BY <2>2 DEF Versions
    <3>2. PICK p \in Versions : /\ u = p + 1
                                /\ card[c][p] # None
                                /\ Confirmed(c, p) => row.status = "confirmed" /\ row.body = card[c][p].body
      BY <3>1
    <3>3. v <= p
      BY <3>1, <3>2 DEF Versions
    <3>4. Confirmed(c, v) /\ card'[c][v] = card[c][v]
      BY <1>1, <2>2 DEF Confirmed
    <3>5. Confirmed(c, p) /\ card[c][p].body = card[c][v].body
      BY <3>2, <3>3, <3>4 DEF Lineage, Settled
    <3>6. QED
      BY <1>1, <2>2, <3>2, <3>4, <3>5 DEF Confirmed
  <2>3. CASE ~(d = c /\ v = u) /\ ~(d = c /\ w = u)
    <3>1. card'[d][v] = card[d][v] /\ card'[d][w] = card[d][w]
      BY <1>1, <2>3
    <3>2. QED
      BY <3>1 DEF Confirmed, Lineage, Settled
  <2>4. QED
    BY <2>1, <2>2, <2>3
<1>8. BundlesConfirmed'
  BY <1>6 DEF Lineage, BundlesConfirmed
<1>9. QED
  BY <1>5, <1>7, <1>8 DEF Lineage

LEMMA LineageStep == Typed /\ Lineage /\ [Next]_vars => Lineage'
<1> SUFFICES ASSUME Typed, Lineage, [Next]_vars PROVE Lineage'
  OBVIOUS
<1>1. ASSUME UNCHANGED <<card, bundle>> PROVE Lineage'
  BY <1>1 DEF Lineage, NoGaps, Settled, BundlesConfirmed, Confirmed
<1>2. ASSUME NEW h \in Handlers, NEW c \in Cards, NEW body \in Bodies, SaveCard(h, c, body)
      PROVE  Lineage'
  <2>1. CASE UNCHANGED <<card, source>>
    BY <1>1, <1>2, <2>1 DEF SaveCard
  <2>2. CASE InsertCard(c, 1, [status |-> "draft", body |-> body])
    <3>1. 1 \in Versions /\ [status |-> "draft", body |-> body] \in Card
      BY BoundsAssumption DEF Versions, Card, Bodies
    <3>2. QED
      BY <1>2, <2>2, <3>1, InsertKeepsLineage DEF SaveCard
  <2>3. QED
    BY <1>2, <2>1, <2>2 DEF SaveCard
<1>3. ASSUME NEW c \in Cards, NEW v \in Versions, NEW body \in Bodies, ReviseCard(c, v, body)
      PROVE  Lineage'
  <2> DEFINE row == [status |-> "draft", body |-> body]
  <2>1. row \in Card
    BY DEF Card, Bodies
  <2>2. /\ InsertCard(c, v + 1, row) /\ card[c][v] # None /\ ~Confirmed(c, v) /\ UNCHANGED bundle
        /\ v + 1 \in Versions
    BY <1>3 DEF ReviseCard, Confirmed, InsertCard
  <2> HIDE DEF row
  <2>3. QED
    BY <2>1, <2>2, InsertKeepsLineage
<1>4. ASSUME NEW c \in Cards, NEW v \in Versions, ConfirmHypothesisCard(c, v) PROVE Lineage'
  <2> DEFINE row == [card[c][v] EXCEPT !.status = "confirmed"]
  <2>1. row \in Card /\ row.status = "confirmed" /\ row.body = card[c][v].body
    BY <1>4, CardType DEF ConfirmHypothesisCard, Card
  <2>2. /\ InsertCard(c, v + 1, row) /\ card[c][v] # None /\ UNCHANGED bundle
        /\ v + 1 \in Versions
    BY <1>4 DEF ConfirmHypothesisCard, InsertCard
  <2> HIDE DEF row
  <2>3. QED
    BY <2>1, <2>2, InsertKeepsLineage
<1>5. ASSUME NEW c \in Cards, NEW v \in Versions, ApproveResearchSpecBundle(c, v) PROVE Lineage'
  <2>1. \A d \in Cards, w \in Versions : bundle'[d][w] # None => bundle[d][w] # None
    BY <1>5 DEF ApproveResearchSpecBundle, Typed, TypeOK
  <2>2. UNCHANGED card
    BY <1>5 DEF ApproveResearchSpecBundle
  <2>3. QED
    BY <2>1, <2>2 DEF Lineage, NoGaps, Settled, BundlesConfirmed, Confirmed
<1>6. ASSUME NEW h \in Handlers, NEW c \in Cards, NEW v \in Versions,
             NEW compile \in {"ready", "task", "blocked"}, GenerateResearchSpecBundle(h, c, v, compile)
      PROVE  Lineage'
  <2>1. Confirmed(c, v) /\ UNCHANGED card
    BY <1>6 DEF GenerateResearchSpecBundle, Confirmed
  <2>2. \A d \in Cards, w \in Versions : ~(d = c /\ w = v) => bundle'[d][w] = bundle[d][w]
    BY <1>6 DEF GenerateResearchSpecBundle, Typed, TypeOK
  <2>3. QED
    BY <2>1, <2>2 DEF Lineage, NoGaps, Settled, BundlesConfirmed, Confirmed
<1>7. ASSUME NEW h \in Handlers, ProposalStep(h) PROVE Lineage'
  BY <1>1, <1>2, <1>7 DEF ProposalStep, DecideProposal, UpdateProposal, InsertDecision,
     CreateCardFromProposal, specVars
<1>8. ASSUME NEW h \in Handlers, TaskStep(h) \/ PineStep(h) \/ Crash(h) PROVE Lineage'
  BY <1>1, <1>8 DEF TaskStep, SaveTask, WriteEvidence, WriteApproval, PineStep, GeneratePineExport,
     SavePineExportJob, SupersedePineExports, SavePineExport, FinishPineExportJob, AppendPineLifecycle,
     FailPineExportJob, ComparePineExport, SaveParity, UpdatePineParity, Crash, specVars
<1>9. ASSUME NEW h \in Handlers, NEW c \in Cards, SpecStep(h, c) PROVE Lineage'
  BY <1>1, <1>6, <1>9
     DEF SpecStep, SubmitImplementationEvidence, ApproveImplementationTask, specVars
<1>10. ASSUME NEW c \in Cards, NEW v \in Versions, CardStep(c, v) PROVE Lineage'
  BY <1>3, <1>4, <1>5, <1>10 DEF CardStep
<1>11. CASE UNCHANGED vars
  BY <1>1, <1>11 DEF vars, specVars
<1>12. QED
  BY <1>7, <1>8, <1>9, <1>10, <1>11 DEF Next

LEMMA LineageAlways == Spec => []Lineage
<1>1. Init => Lineage
  BY NoneAssumption DEF Init, Lineage, NoGaps, Settled, BundlesConfirmed, Confirmed
<1>2. QED
  BY <1>1, LineageStep, TypedAlways, PTL DEF Spec

\* The bundles of a card are compiled from confirmed versions and carry one body: a
\* card that was confirmed is never revised from an older version, whoever still has
\* that one open (research-specs-v2/service.ts reviseCard, UNIQUE(card_id, version)).
THEOREM OneStrategyKept == Spec => []OneStrategyPerCard
<1>1. Lineage => OneStrategyPerCard
  <2> SUFFICES ASSUME Lineage, NEW c \in Cards, NEW v \in Versions, NEW w \in Versions,
                      bundle[c][v] # None, bundle[c][w] # None
               PROVE  card[c][v].body = card[c][w].body
    BY DEF OneStrategyPerCard, Lineage, BundlesConfirmed
  <2>1. Confirmed(c, v) /\ Confirmed(c, w)
    BY DEF Lineage, BundlesConfirmed
  <2>2. v <= w \/ w <= v
    BY DEF Versions
  <2>3. QED
    BY <2>1, <2>2 DEF Lineage, Settled, Confirmed
<1>2. QED
  BY <1>1, LineageAlways, PTL

-----------------------------------------------------------------------------
(* Decisions.                                                              *)

On(h, pcs, p) == local[h].pc \in pcs /\ local[h].proposal = p

\* Confirmation shows in the decisions, or will at the next step of its request.
Said(p) == "confirmed" \in decided[p] \/ Logging(p, "confirmed")
Claimed(p) ==
    \/ proposal[p] = "confirmed"
    \/ \E h \in Handlers : On(h, {"create"}, p)
    \/ \E c \in Cards : source[c] = p
SaidOK == crashes = 0 => \A p \in Proposals : Claimed(p) => Said(p)

\* A proposal that is not contested has one request at work that decides, and one that
\* makes a card, and these find it as they left it.
Alone(p) ==
    /\ \A g, h \in Handlers : On(g, {"decide", "log"}, p) /\ On(h, {"decide", "log"}, p) => g = h
    /\ \A g, h \in Handlers : On(g, {"create"}, p) /\ On(h, {"create"}, p) => g = h
Undecided(p) ==
    /\ \A h \in Handlers : On(h, {"decide"}, p) => proposal[p] = "proposed"
    /\ \A h \in Handlers : On(h, {"log"}, p) => decided[p] = {} /\ proposal[p] = local[h].decision
    /\ proposal[p] = "proposed" => decided[p] = {}
    /\ decided[p] \subseteq {proposal[p]}
Cardless(p) ==
    /\ \A h \in Handlers : On(h, {"create"}, p) => \A c \in Cards : source[c] # p
    /\ \A c, d \in Cards : source[c] = p /\ source[d] = p => c = d

Peace == \A p \in Proposals \ contested : Alone(p) /\ Undecided(p) /\ Cardless(p)

Decided == SaidOK /\ Peace

\* Steps of requests that neither decide nor make a card, and deaths.
LEMMA DecidedElsewhere ==
    ASSUME Typed, Decided, UNCHANGED proposalVars, crashes' = 0 => crashes = 0,
           NEW h \in Handlers, \A g \in Handlers : g # h => local'[g] = local[g],
           local'[h].pc \notin Deciding, local[h].pc \in Deciding => crashes' # 0
    PROVE  Decided'
<1>1. UNCHANGED <<proposal, decided, source, contested>>
  BY DEF proposalVars
<1>2. ASSUME NEW g \in Handlers, NEW p, NEW pcs \in SUBSET Deciding, On(g, pcs, p)'
      PROVE  On(g, pcs, p) /\ local'[g] = local[g]
  BY <1>2 DEF On
<1>p. {"decide", "log"} \in SUBSET Deciding /\ {"create"} \in SUBSET Deciding
      /\ {"decide"} \in SUBSET Deciding /\ {"log"} \in SUBSET Deciding
  BY DEF Deciding
<1>3. SaidOK'
  <2> SUFFICES ASSUME crashes' = 0, NEW p \in Proposals, Claimed(p)' PROVE Said(p)'
    BY DEF SaidOK
  <2>1. Claimed(p)
    BY <1>1, <1>2, <1>p DEF Claimed
  <2>2. crashes = 0 /\ Said(p)
    BY <2>1 DEF Decided, SaidOK
  <2>3. ASSUME NEW g \in Handlers, At(g, "log") PROVE local'[g] = local[g]
    BY <2>3 DEF At, Deciding
  <2>4. QED
    BY <1>1, <2>2, <2>3 DEF Said, Logging, At
<1>4. Peace'
  <2> SUFFICES ASSUME NEW p \in Proposals \ contested
               PROVE  Alone(p)' /\ Undecided(p)' /\ Cardless(p)'
    BY <1>1 DEF Peace
  <2>1. Alone(p) /\ Undecided(p) /\ Cardless(p)
    BY DEF Decided, Peace
  <2>2. Alone(p)'
    BY <1>2, <1>p, <2>1 DEF Alone
  <2>3. Undecided(p)'
    BY <1>1, <1>2, <1>p, <2>1 DEF Undecided
  <2>4. Cardless(p)'
    BY <1>1, <1>2, <1>p, <2>1 DEF Cardless
  <2>5. QED
    BY <2>2, <2>3, <2>4
<1>5. QED
  BY <1>3, <1>4 DEF Decided

LEMMA DecideDecided ==
    ASSUME Typed, Decided, NEW h \in Handlers, NEW q \in Proposals,
           NEW d \in {"confirmed", "rejected"}, DecideProposal(h, q, d)
    PROVE  Decided'
<1> DEFINE l == [Idle EXCEPT !.pc = "decide", !.proposal = q, !.decision = d]
<1>1. l \in Locals /\ l.pc = "decide" /\ l.proposal = q /\ l.decision = d
  BY DEF Idle, Locals, Evidence
<1>2. Begin(h, l) /\ proposal[q] = "proposed" /\ UNCHANGED <<proposal, decided, source, crashes>>
  BY DEF DecideProposal
<1> HIDE DEF l
<1>3. /\ \A g \in Handlers : g # h => local'[g] = local[g]
      /\ local'[h] = l /\ local[h].pc = "idle"
  BY <1>1, <1>2, PutFacts DEF Begin, At, Puts
<1>4. /\ contested \subseteq contested'
      /\ q \notin contested' => \A g \in Handlers : ~On(g, {"decide", "log"}, q)
  BY DEF DecideProposal, Contest, Working, On
<1>5. ASSUME NEW g \in Handlers, NEW p, NEW pcs \in SUBSET {"log", "create"}, On(g, pcs, p)'
      PROVE  On(g, pcs, p) /\ local'[g] = local[g]
  BY <1>1, <1>3, <1>5 DEF On
<1>p. {"create"} \in SUBSET {"log", "create"} /\ {"log"} \in SUBSET {"log", "create"}
  OBVIOUS
<1>6. SaidOK'
  <2> SUFFICES ASSUME crashes' = 0, NEW p \in Proposals, Claimed(p)' PROVE Said(p)'
    BY DEF SaidOK
  <2>1. Claimed(p)
    BY <1>2, <1>5, <1>p DEF Claimed
  <2>2. Said(p)
    BY <1>2, <2>1 DEF Decided, SaidOK
  <2>3. ASSUME NEW g \in Handlers, At(g, "log") PROVE local'[g] = local[g]
    BY <1>3, <2>3 DEF At
  <2>4. QED
    BY <1>2, <2>2, <2>3 DEF Said, Logging, At
<1>7. Peace'
  <2> SUFFICES ASSUME NEW p \in Proposals \ contested'
               PROVE  Alone(p)' /\ Undecided(p)' /\ Cardless(p)'
    BY DEF Peace
  <2>1. Alone(p) /\ Undecided(p) /\ Cardless(p)
    BY <1>4 DEF Decided, Peace
  <2>2. \A g \in Handlers : On(g, {"decide", "log"}, p)' =>
            \/ g = h /\ p = q
            \/ p # q /\ On(g, {"decide", "log"}, p)
    BY <1>1, <1>3, <1>4 DEF On
  <2>3. Alone(p)'
    BY <1>5, <1>p, <2>1, <2>2 DEF Alone
  <2>4. Undecided(p)'
    <3>1. \A g \in Handlers : On(g, {"decide"}, p)' => proposal'[p] = "proposed"
      BY <1>1, <1>2, <1>3, <2>1 DEF On, Undecided
    <3>2. QED
      BY <1>2, <1>5, <1>p, <2>1, <3>1 DEF Undecided
  <2>5. Cardless(p)'
    BY <1>2, <1>5, <1>p, <2>1 DEF Cardless
  <2>6. QED
    BY <2>3, <2>4, <2>5
<1>8. QED
  BY <1>6, <1>7 DEF Decided

LEMMA UpdateDecided ==
    ASSUME Typed, Decided, NEW h \in Handlers, UpdateProposal(h)
    PROVE  Decided'
<1> DEFINE q == local[h].proposal
           d == local[h].decision
<1>1. /\ q \in Proposals /\ d \in {"confirmed", "rejected"} /\ On(h, {"decide"}, q)
      /\ On(h, {"decide", "log"}, q)
  BY DEF Typed, LocalOK, UpdateProposal, At, Deciding, On
<1>2. /\ proposal' = [proposal EXCEPT ![q] = d] /\ UNCHANGED <<decided, source, contested, crashes>>
      /\ \A p \in Proposals : proposal'[p] = IF p = q THEN d ELSE proposal[p]
  BY DEF UpdateProposal, Typed, TypeOK
<1>3. /\ \A g \in Handlers : g # h => local'[g] = local[g]
      /\ local'[h].pc = "log" /\ local'[h].proposal = q /\ local'[h].decision = d
  BY GotoFacts DEF UpdateProposal, Pcs, Deciding, Puts, Kept
<1> HIDE DEF q, d
<1>4. ASSUME NEW g \in Handlers, NEW p, On(g, {"create"}, p)' PROVE On(g, {"create"}, p)
  BY <1>3, <1>4 DEF On
<1>5. SaidOK'
  <2> SUFFICES ASSUME crashes' = 0, NEW p \in Proposals, Claimed(p)' PROVE Said(p)'
    BY DEF SaidOK
  <2>1. CASE Claimed(p)
    <3>1. Said(p)
      BY <1>2, <2>1 DEF Decided, SaidOK
    <3>2. ASSUME NEW g \in Handlers, At(g, "log") PROVE local'[g] = local[g]
      BY <1>1, <1>3, <3>2 DEF At, On
    <3>3. QED
      BY <1>2, <3>1, <3>2 DEF Said, Logging, At
  <2>2. CASE ~Claimed(p)
    <3>1. proposal'[p] = "confirmed" /\ proposal[p] # "confirmed"
      BY <1>2, <1>4, <2>2 DEF Claimed
    <3>2. p = q /\ d = "confirmed"
      BY <1>2, <3>1
    <3>3. QED
      BY <1>3, <3>2 DEF Said, Logging, At
  <2>3. QED
    BY <2>1, <2>2
<1>6. Peace'
  <2> SUFFICES ASSUME NEW p \in Proposals \ contested
               PROVE  Alone(p)' /\ Undecided(p)' /\ Cardless(p)'
    BY <1>2 DEF Peace
  <2>1. Alone(p) /\ Undecided(p) /\ Cardless(p)
    BY DEF Decided, Peace
  <2>2. \A g \in Handlers : On(g, {"decide", "log"}, p)' => On(g, {"decide", "log"}, p)
    BY <1>1, <1>3 DEF On
  <2>3. Alone(p)'
    BY <1>4, <2>1, <2>2 DEF Alone
  <2>4. Cardless(p)'
    BY <1>2, <1>4, <2>1 DEF Cardless
  <2>5. Undecided(p)'
    <3>1. CASE p = q
      <4>1. \A g \in Handlers : On(g, {"decide", "log"}, p)' => g = h
        BY <1>1, <2>1, <2>2, <3>1 DEF Alone
      <4>2. \A g \in Handlers : ~On(g, {"decide"}, p)'
        BY <1>3, <4>1 DEF On
      <4>3. decided'[p] = {} /\ proposal'[p] = d /\ d # "proposed"
        BY <1>1, <1>2, <2>1, <3>1 DEF Undecided
      <4>4. \A g \in Handlers : On(g, {"log"}, p)' => proposal'[p] = local'[g].decision
        BY <1>3, <4>1, <4>3 DEF On
      <4>5. QED
        BY <4>2, <4>3, <4>4 DEF Undecided
    <3>2. CASE p # q
      <4>1. \A g \in Handlers : On(g, {"decide"}, p)' \/ On(g, {"log"}, p)' => local'[g] = local[g]
        BY <1>3, <3>2 DEF On
      <4>2. proposal'[p] = proposal[p] /\ decided'[p] = decided[p]
        BY <1>2, <3>2
      <4>3. QED
        BY <2>1, <4>1, <4>2 DEF Undecided, On
    <3>3. QED
      BY <3>1, <3>2
  <2>6. QED
    BY <2>3, <2>4, <2>5
<1>7. QED
  BY <1>5, <1>6 DEF Decided

LEMMA InsertDecided ==
    ASSUME Typed, Decided, NEW h \in Handlers, InsertDecision(h)
    PROVE  Decided'
<1> DEFINE q == local[h].proposal
           d == local[h].decision
<1>1. /\ q \in Proposals /\ d \in {"confirmed", "rejected"} /\ On(h, {"log"}, q)
      /\ On(h, {"decide", "log"}, q)
  BY DEF Typed, LocalOK, InsertDecision, At, Deciding, On
<1>2. /\ decided' = [decided EXCEPT ![q] = decided[q] \cup {d}]
      /\ UNCHANGED <<proposal, source, contested, crashes>>
      /\ \A p \in Proposals : decided'[p] = IF p = q THEN decided[p] \cup {d} ELSE decided[p]
  BY DEF InsertDecision, Typed, TypeOK
<1>3. (\A g \in Handlers : g # h => local'[g] = local[g]) /\ local'[h].pc = "idle"
  BY ReturnFacts DEF InsertDecision, Puts
<1> HIDE DEF q, d
<1>4. ASSUME NEW g \in Handlers, NEW p, NEW pcs \in SUBSET Deciding, On(g, pcs, p)'
      PROVE  On(g, pcs, p) /\ local'[g] = local[g] /\ g # h
  BY <1>3, <1>4 DEF On, Deciding
<1>p. {"decide", "log"} \in SUBSET Deciding /\ {"create"} \in SUBSET Deciding
      /\ {"decide"} \in SUBSET Deciding /\ {"log"} \in SUBSET Deciding
  BY DEF Deciding
<1>5. SaidOK'
  <2> SUFFICES ASSUME crashes' = 0, NEW p \in Proposals, Claimed(p)' PROVE Said(p)'
    BY DEF SaidOK
  <2>1. Claimed(p)
    BY <1>2, <1>4, <1>p DEF Claimed
  <2>2. Said(p)
    BY <1>2, <2>1 DEF Decided, SaidOK
  <2>3. CASE "confirmed" \in decided[p]
    BY <1>2, <2>3 DEF Said
  <2>4. ASSUME NEW g \in Handlers, At(g, "log"), local[g].proposal = p, local[g].decision = "confirmed"
        PROVE  Said(p)'
    <3>1. CASE g = h
      BY <1>2, <2>4, <3>1 DEF Said, q, d
    <3>2. CASE g # h
      BY <1>3, <2>4, <3>2 DEF Said, Logging, At
    <3>3. QED
      BY <3>1, <3>2
  <2>5. QED
    BY <2>2, <2>3, <2>4 DEF Said, Logging
<1>6. Peace'
  <2> SUFFICES ASSUME NEW p \in Proposals \ contested
               PROVE  Alone(p)' /\ Undecided(p)' /\ Cardless(p)'
    BY <1>2 DEF Peace
  <2>1. Alone(p) /\ Undecided(p) /\ Cardless(p)
    BY DEF Decided, Peace
  <2>2. Alone(p)'
    BY <1>4, <1>p, <2>1 DEF Alone
  <2>3. Cardless(p)'
    BY <1>2, <1>4, <1>p, <2>1 DEF Cardless
  <2>4. Undecided(p)'
    <3>1. CASE p = q
      <4>1. decided[p] = {} /\ proposal[p] = d /\ d # "proposed"
        BY <1>1, <2>1, <3>1 DEF Undecided, d
      <4>2. \A g \in Handlers : ~On(g, {"decide", "log"}, p)'
        BY <1>1, <1>4, <1>p, <2>1, <3>1 DEF Alone
      <4>3. \A g \in Handlers : ~On(g, {"decide"}, p)' /\ ~On(g, {"log"}, p)'
        BY <4>2 DEF On
      <4>4. decided'[p] = {d} /\ proposal'[p] = d
        BY <1>2, <3>1, <4>1
      <4>5. QED
        BY <4>1, <4>3, <4>4 DEF Undecided
    <3>2. CASE p # q
      BY <1>2, <1>4, <1>p, <2>1, <3>2 DEF Undecided
    <3>3. QED
      BY <3>1, <3>2
  <2>5. QED
    BY <2>2, <2>3, <2>4
<1>7. QED
  BY <1>5, <1>6 DEF Decided

LEMMA CreateDecided ==
    ASSUME Typed, Decided, NEW h \in Handlers, NEW q \in Proposals, CreateCardFromProposal(h, q)
    PROVE  Decided'
<1> DEFINE l == [Idle EXCEPT !.pc = "create", !.proposal = q]
<1>1. l \in Locals /\ l.pc = "create" /\ l.proposal = q
  BY DEF Idle, Locals, Evidence
<1>2. /\ Begin(h, l) /\ proposal[q] = "confirmed" /\ UNCHANGED <<proposal, decided, source, crashes>>
      /\ \A c \in Cards : source[c] # q
  BY DEF CreateCardFromProposal
<1> HIDE DEF l
<1>3. /\ \A g \in Handlers : g # h => local'[g] = local[g]
      /\ local'[h] = l /\ local[h].pc = "idle"
  BY <1>1, <1>2, PutFacts DEF Begin, At, Puts
<1>4. /\ contested \subseteq contested'
      /\ q \notin contested' => \A g \in Handlers : ~On(g, {"create"}, q)
  BY DEF CreateCardFromProposal, Contest, Working, On
<1>5. ASSUME NEW g \in Handlers, NEW p, NEW pcs \in SUBSET {"decide", "log"}, On(g, pcs, p)'
      PROVE  On(g, pcs, p) /\ local'[g] = local[g]
  BY <1>1, <1>3, <1>5 DEF On
<1>p. /\ {"decide", "log"} \in SUBSET {"decide", "log"} /\ {"log"} \in SUBSET {"decide", "log"}
      /\ {"decide"} \in SUBSET {"decide", "log"}
  OBVIOUS
<1>6. \A g \in Handlers, p \in Proposals :
          On(g, {"create"}, p)' => (g = h /\ p = q) \/ (g # h /\ On(g, {"create"}, p))
  BY <1>1, <1>3 DEF On
<1>7. SaidOK'
  <2> SUFFICES ASSUME crashes' = 0, NEW p \in Proposals, Claimed(p)' PROVE Said(p)'
    BY DEF SaidOK
  <2>1. Claimed(p)
    BY <1>2, <1>6 DEF Claimed
  <2>2. Said(p)
    BY <1>2, <2>1 DEF Decided, SaidOK
  <2>3. ASSUME NEW g \in Handlers, At(g, "log") PROVE local'[g] = local[g]
    BY <1>3, <2>3 DEF At
  <2>4. QED
    BY <1>2, <2>2, <2>3 DEF Said, Logging, At
<1>8. Peace'
  <2> SUFFICES ASSUME NEW p \in Proposals \ contested'
               PROVE  Alone(p)' /\ Undecided(p)' /\ Cardless(p)'
    BY DEF Peace
  <2>1. Alone(p) /\ Undecided(p) /\ Cardless(p)
    BY <1>4 DEF Decided, Peace
  <2>2. Alone(p)'
    BY <1>4, <1>5, <1>6, <1>p, <2>1 DEF Alone
  <2>3. Undecided(p)'
    BY <1>2, <1>5, <1>p, <2>1 DEF Undecided
  <2>4. Cardless(p)'
    BY <1>2, <1>6, <2>1 DEF Cardless
  <2>5. QED
    BY <2>2, <2>3, <2>4
<1>9. QED
  BY <1>7, <1>8 DEF Decided

LEMMA SaveCardDecided ==
    ASSUME Typed, Decided, NEW h \in Handlers, NEW e \in Cards, NEW body \in Bodies,
           SaveCard(h, e, body)
    PROVE  Decided'
<1> DEFINE q == local[h].proposal
<1>1. q \in Proposals /\ On(h, {"create"}, q)
  BY DEF Typed, LocalOK, SaveCard, At, Deciding, On
<1>2. UNCHANGED <<proposal, decided, contested, crashes>>
  BY DEF SaveCard
<1>3. (\A g \in Handlers : g # h => local'[g] = local[g]) /\ local'[h].pc = "idle"
  BY ReturnFacts DEF SaveCard, Puts
<1>4. \A c \in Cards : source'[c] = source[c] \/ (c = e /\ source'[c] = q)
  <2>1. source' = [source EXCEPT ![e] = q] \/ source' = source
    BY DEF SaveCard
  <2>2. DOMAIN source = Cards
    BY DEF Typed, TypeOK
  <2>3. QED
    BY <2>1, <2>2
<1> HIDE DEF q
<1>5. ASSUME NEW g \in Handlers, NEW p, NEW pcs \in SUBSET Deciding, On(g, pcs, p)'
      PROVE  On(g, pcs, p) /\ local'[g] = local[g] /\ g # h
  BY <1>3, <1>5 DEF On, Deciding
<1>p. {"decide", "log"} \in SUBSET Deciding /\ {"create"} \in SUBSET Deciding
      /\ {"decide"} \in SUBSET Deciding /\ {"log"} \in SUBSET Deciding
  BY DEF Deciding
<1>6. SaidOK'
  <2> SUFFICES ASSUME crashes' = 0, NEW p \in Proposals, Claimed(p)' PROVE Said(p)'
    BY DEF SaidOK
  <2>1. Claimed(p)
    BY <1>1, <1>2, <1>4, <1>5, <1>p DEF Claimed
  <2>2. Said(p)
    BY <1>2, <2>1 DEF Decided, SaidOK
  <2>3. ASSUME NEW g \in Handlers, At(g, "log") PROVE local'[g] = local[g]
    BY <1>1, <1>3, <2>3 DEF At, On
  <2>4. QED
    BY <1>2, <2>2, <2>3 DEF Said, Logging, At
<1>7. Peace'
  <2> SUFFICES ASSUME NEW p \in Proposals \ contested
               PROVE  Alone(p)' /\ Undecided(p)' /\ Cardless(p)'
    BY <1>2 DEF Peace
  <2>1. Alone(p) /\ Undecided(p) /\ Cardless(p)
    BY DEF Decided, Peace
  <2>2. Alone(p)'
    BY <1>5, <1>p, <2>1 DEF Alone
  <2>3. Undecided(p)'
    BY <1>2, <1>5, <1>p, <2>1 DEF Undecided
  <2>4. Cardless(p)'
    <3>1. CASE p = q
      <4>1. \A g \in Handlers : ~On(g, {"create"}, p)'
        BY <1>1, <1>5, <1>p, <2>1, <3>1 DEF Alone
      <4>2. \A c \in Cards : source[c] # p
        BY <1>1, <2>1, <3>1 DEF Cardless
      <4>3. QED
        BY <1>4, <4>1, <4>2 DEF Cardless
    <3>2. CASE p # q
      BY <1>4, <1>5, <1>p, <2>1, <3>2 DEF Cardless
    <3>3. QED
      BY <3>1, <3>2
  <2>5. QED
    BY <2>2, <2>3, <2>4
<1>8. QED
  BY <1>6, <1>7 DEF Decided

LEMMA DecidedStep == Typed /\ Decided /\ [Next]_vars => Decided'
<1> SUFFICES ASSUME Typed, Decided, [Next]_vars PROVE Decided'
  OBVIOUS
<1>1. ASSUME UNCHANGED <<proposalVars, local, crashes>> PROVE Decided'
  BY <1>1 DEF Decided, SaidOK, Peace, Claimed, Said, Logging, Alone, Undecided, Cardless, On, At,
     proposalVars
<1>2. ASSUME NEW h \in Handlers, ProposalStep(h) PROVE Decided'
  BY <1>2, DecideDecided, UpdateDecided, InsertDecided, CreateDecided, SaveCardDecided
     DEF ProposalStep
<1>3. ASSUME NEW h \in Handlers, TaskStep(h) \/ PineStep(h) \/ \E c \in Cards : SpecStep(h, c)
      PROVE  Decided'
  <2>1. /\ UNCHANGED <<proposalVars, crashes>>
        /\ Moves(h, Tasking) \/ Moves(h, Exporting \cup Comparing)
    BY <1>3, TaskMoves, PineMoves
  <2>2. /\ \A g \in Handlers : g # h => local'[g] = local[g]
        /\ local[h].pc \notin Deciding /\ local'[h].pc \notin Deciding
    BY <2>1 DEF Moves, Deciding, Tasking, Exporting, Comparing
  <2>3. QED
    BY <2>1, <2>2, DecidedElsewhere
<1>4. ASSUME NEW h \in Handlers, Crash(h) PROVE Decided'
  BY <1>4, CrashMoves, DecidedElsewhere DEF Deciding
<1>5. ASSUME NEW c \in Cards, NEW v \in Versions, CardStep(c, v) PROVE Decided'
  BY <1>1, <1>5 DEF CardStep, ReviseCard, ConfirmHypothesisCard, ApproveResearchSpecBundle
<1>6. CASE UNCHANGED vars
  BY <1>1, <1>6 DEF vars
<1>7. QED
  BY <1>2, <1>3, <1>4, <1>5, <1>6 DEF Next

LEMMA DecidedAlways == Spec => []Decided
<1>1. Init => Decided
  <2> SUFFICES ASSUME Init PROVE Decided
    OBVIOUS
  <2>1. \A h \in Handlers : \A p, pcs : "idle" \notin pcs => ~On(h, pcs, p)
    BY IdleLocal DEF Init, On
  <2>2. \A h \in Handlers : \A p : ~On(h, {"decide", "log"}, p) /\ ~On(h, {"create"}, p)
                                /\ ~On(h, {"decide"}, p) /\ ~On(h, {"log"}, p)
    BY <2>1
  <2>3. \A p \in Proposals : ~Claimed(p) /\ Alone(p) /\ Undecided(p) /\ Cardless(p)
    BY <2>2, NoneAssumption DEF Init, Claimed, Alone, Undecided, Cardless
  <2>4. QED
    BY <2>3 DEF Decided, SaidOK, Peace
<1>2. QED
  BY <1>1, DecidedStep, TypedAlways, PTL DEF Spec

\* As long as no request has died, a card has a proposal that somebody is on record as
\* having confirmed; and unless two requests worked on a proposal at once, it has one
\* decision, its status, and one card (copilot/service.ts decideProposal, and
\* createCardFromProposal, whose checks no key backs).
THEOREM DecisionsStaySound == Spec => []DecisionsSound
<1>1. Typed /\ Decided => DecisionsSound
  <2> SUFFICES ASSUME Typed, Decided PROVE DecisionsSound
    OBVIOUS
  <2>1. ASSUME crashes = 0, NEW c \in Cards, source[c] # None
        PROVE  "confirmed" \in decided[source[c]] \/ Logging(source[c], "confirmed")
    <3>1. source[c] \in Proposals
      BY <2>1 DEF Typed, TypeOK
    <3>2. QED
      BY <2>1, <3>1 DEF Decided, SaidOK, Claimed, Said
  <2>2. QED
    BY <2>1 DEF DecisionsSound, Decided, Peace, Undecided, Cardless
<1>2. QED
  BY <1>1, DecidedAlways, TypedAlways, PTL

-----------------------------------------------------------------------------
(* Tasks.                                                                  *)

\* Whoever approves a task has looked at passing evidence; a task that is needed is
\* there, or is about to be saved.
Needs(b) == b # None /\ b.compile = "task"
Saving(c) == \E h \in Handlers : At(h, "task") /\ local[h].card = c
Passing ==
    /\ \A h \in Handlers : At(h, "approve") => local[h].evidence = "passing"
    /\ \A c \in Cards : task[c] # None /\ task[c].status = "approved" => task[c].evidence = "passing"
Tasked == crashes = 0 => \A c \in Cards, v \in Versions : Needs(bundle[c][v]) => task[c] # None \/ Saving(c)

Reviewed == Passing /\ Tasked

\* Steps that neither save tasks nor begin approvals, and deaths.
LEMMA ReviewedElsewhere ==
    ASSUME Reviewed, UNCHANGED <<bundle, task>>, NEW h \in Handlers,
           \A g \in Handlers : g # h => local'[g] = local[g],
           local'[h].pc # "approve" \/ local'[h].evidence = "passing",
           crashes' = 0 => crashes = 0 /\ local[h].pc # "task"
    PROVE  Reviewed'
<1>1. Passing'
  BY DEF Reviewed, Passing, At
<1>2. ASSUME crashes' = 0, NEW c \in Cards, Saving(c) PROVE Saving(c)'
  BY <1>2 DEF Saving, At
<1>3. Tasked'
  BY <1>2 DEF Reviewed, Tasked
<1>4. QED
  BY <1>1, <1>3 DEF Reviewed

LEMMA GenerateReviewed ==
    ASSUME Typed, Reviewed, NEW h \in Handlers, NEW e \in Cards, NEW u \in Versions, NEW compile,
           GenerateResearchSpecBundle(h, e, u, compile)
    PROVE  Reviewed'
<1> DEFINE l == IF compile = "task" THEN [Idle EXCEPT !.pc = "task", !.card = e] ELSE Idle
           b == [status |-> "generated", compile |-> compile]
<1>1. l \in Locals /\ l.pc # "approve" /\ (compile = "task" => l.pc = "task" /\ l.card = e)
  BY TaskLocals, IdleLocal
<1>2. Begin(h, l) /\ UNCHANGED <<task, crashes>>
  BY DEF GenerateResearchSpecBundle
<1> HIDE DEF l
<1>3. (\A g \in Handlers : g # h => local'[g] = local[g]) /\ local'[h] = l /\ local[h].pc = "idle"
  BY <1>1, <1>2, BeginPuts DEF Puts
<1>4. bundle' = [bundle EXCEPT ![e][u] = b] /\ b.compile = compile
  BY DEF GenerateResearchSpecBundle
<1> HIDE DEF b
<1>5. \A c \in Cards, v \in Versions : bundle'[c][v] = bundle[c][v] \/ (c = e /\ bundle'[c][v] = b)
  BY <1>4 DEF Typed, TypeOK
<1>6. Passing'
  BY <1>1, <1>2, <1>3 DEF Reviewed, Passing, At
<1>7. Tasked'
  <2> SUFFICES ASSUME crashes' = 0, NEW c \in Cards, NEW v \in Versions, Needs(bundle'[c][v])
               PROVE  task'[c] # None \/ Saving(c)'
    BY DEF Tasked
  <2>1. CASE bundle'[c][v] = bundle[c][v]
    BY <1>2, <1>3, <2>1 DEF Reviewed, Tasked, Saving, At
  <2>2. CASE c = e /\ bundle'[c][v] = b
    BY <1>1, <1>3, <1>4, <2>2 DEF Needs, Saving, At
  <2>3. QED
    BY <1>5, <2>1, <2>2
<1>8. QED
  BY <1>6, <1>7 DEF Reviewed

LEMMA TaskReviewed ==
    ASSUME Typed, Reviewed, NEW h \in Handlers, TaskStep(h)
    PROVE  Reviewed'
<1>1. local[h].card \in Cards /\ UNCHANGED <<bundle, crashes>>
  BY DEF Typed, LocalOK, TaskStep, SaveTask, WriteEvidence, WriteApproval, At, Tasking
<1>2. (\A g \in Handlers : g # h => local'[g] = local[g]) /\ local'[h].pc = "idle"
  BY ReturnFacts DEF TaskStep, SaveTask, WriteEvidence, WriteApproval, Puts
<1>t. task \in [Cards -> Task \cup {None}] /\ local[h].evidence \in Evidence
  BY DEF Typed, TypeOK, Locals
<1>3. /\ \A c \in Cards : c # local[h].card => task'[c] = task[c]
      /\ task'[local[h].card] # None
      /\ LET row == task'[local[h].card]
         IN  row.status = "approved" => row.evidence = "passing"
  <2>1. CASE SaveTask(h) /\ task[local[h].card] # None
    BY <1>1, <2>1 DEF SaveTask, Reviewed, Passing
  <2>2. CASE SaveTask(h) /\ task[local[h].card] = None
    <3> DEFINE row == [status |-> "draft", evidence |-> "none"]
    <3>1. row \in Task /\ row.status = "draft"
      BY DEF Task, Evidence
    <3>2. task' = [task EXCEPT ![local[h].card] = row]
      BY <2>2 DEF SaveTask
    <3> HIDE DEF row
    <3>3. QED
      BY <1>1, <1>t, <3>1, <3>2, NoneAssumption
  <2>3. CASE WriteEvidence(h) \/ WriteApproval(h)
    <3>1. PICK st \in {"in_review", "approved"} :
             /\ task' = [task EXCEPT ![local[h].card] = [status |-> st, evidence |-> local[h].evidence]]
             /\ st = "approved" => local[h].evidence = "passing"
      BY <2>3 DEF WriteEvidence, WriteApproval, Reviewed, Passing, At
    <3> DEFINE row == [status |-> st, evidence |-> local[h].evidence]
    <3>2. row \in Task /\ (row.status = "approved" => row.evidence = "passing")
      BY <1>t, <3>1 DEF Task
    <3>3. task' = [task EXCEPT ![local[h].card] = row]
      BY <3>1
    <3> HIDE DEF row
    <3>4. QED
      BY <1>1, <1>t, <3>2, <3>3, NoneAssumption
  <2>4. QED
    BY <2>1, <2>2, <2>3 DEF TaskStep
<1>4. Passing'
  BY <1>2, <1>3 DEF Reviewed, Passing, At
<1>5. Tasked'
  <2> SUFFICES ASSUME crashes' = 0, NEW c \in Cards, NEW v \in Versions, Needs(bundle[c][v])
               PROVE  task'[c] # None \/ Saving(c)'
    BY <1>1 DEF Tasked
  <2>1. task[c] # None \/ Saving(c)
    BY <1>1 DEF Reviewed, Tasked
  <2>2. CASE c = local[h].card
    BY <1>3, <2>2
  <2>3. CASE c # local[h].card
    BY <1>2, <1>3, <2>1, <2>3 DEF Saving, At
  <2>4. QED
    BY <2>2, <2>3
<1>6. QED
  BY <1>4, <1>5 DEF Reviewed

LEMMA ReviewedStep == Typed /\ Reviewed /\ [Next]_vars => Reviewed'
<1> SUFFICES ASSUME Typed, Reviewed, [Next]_vars PROVE Reviewed'
  OBVIOUS
<1>1. ASSUME NEW h \in Handlers, ProposalStep(h) \/ PineStep(h) PROVE Reviewed'
  <2>1. /\ UNCHANGED <<bundle, task, crashes>>
        /\ Moves(h, Deciding) \/ Moves(h, Exporting \cup Comparing)
    BY <1>1, ProposalMoves, PineMoves DEF specVars
  <2>2. /\ \A g \in Handlers : g # h => local'[g] = local[g]
        /\ local[h].pc \notin Tasking /\ local'[h].pc \notin Tasking
    BY <2>1 DEF Moves, Deciding, Tasking, Exporting, Comparing
  <2>3. local[h].pc # "task" /\ local'[h].pc # "approve"
    BY <2>2 DEF Tasking
  <2>4. QED
    BY <2>1, <2>2, <2>3, ReviewedElsewhere
<1>2. ASSUME NEW h \in Handlers, Crash(h) PROVE Reviewed'
  <2>1. UNCHANGED <<bundle, task>>
    BY <1>2 DEF Crash, specVars
  <2>2. QED
    BY <1>2, <2>1, CrashMoves, ReviewedElsewhere
<1>3. ASSUME NEW h \in Handlers, NEW c \in Cards, NEW ev \in Evidence,
             SubmitImplementationEvidence(h, c, ev)
      PROVE  Reviewed'
  <2> DEFINE l == EvidenceLocal("submit", c, ev)
  <2>1. l \in Locals /\ l.pc = "submit"
    BY EvidenceLocals
  <2>2. Begin(h, l) /\ UNCHANGED <<bundle, task, crashes>>
    BY <1>3 DEF SubmitImplementationEvidence, EvidenceLocal, specVars
  <2> HIDE DEF l
  <2>3. Puts(h, l) /\ local'[h] = l /\ local[h].pc = "idle"
    BY <2>1, <2>2, BeginPuts
  <2>4. QED
    BY <2>1, <2>2, <2>3, ReviewedElsewhere DEF Puts
<1>4. ASSUME NEW h \in Handlers, NEW c \in Cards, ApproveImplementationTask(h, c) PROVE Reviewed'
  <2> DEFINE l == EvidenceLocal("approve", c, task[c].evidence)
  <2>1. task[c].evidence = "passing" /\ "passing" \in Evidence
    BY <1>4 DEF ApproveImplementationTask, Evidence
  <2>2. l \in Locals /\ l.evidence = "passing"
    BY <2>1, EvidenceLocals
  <2>3. Begin(h, l) /\ UNCHANGED <<bundle, task, crashes>>
    BY <1>4 DEF ApproveImplementationTask, EvidenceLocal, specVars
  <2> HIDE DEF l
  <2>4. Puts(h, l) /\ local'[h] = l /\ local[h].pc = "idle"
    BY <2>2, <2>3, BeginPuts
  <2>5. QED
    BY <2>2, <2>3, <2>4, ReviewedElsewhere DEF Puts
<1>5. ASSUME NEW h \in Handlers, NEW c \in Cards, SpecStep(h, c) PROVE Reviewed'
  BY <1>3, <1>4, <1>5, GenerateReviewed DEF SpecStep
<1>6. ASSUME NEW c \in Cards, NEW v \in Versions, CardStep(c, v) PROVE Reviewed'
  <2>1. UNCHANGED <<task, local, crashes>>
    BY <1>6 DEF CardStep, ReviseCard, ConfirmHypothesisCard, ApproveResearchSpecBundle
  <2>2. \A e \in Cards, w \in Versions : Needs(bundle'[e][w]) => Needs(bundle[e][w])
    <3>1. CASE UNCHANGED bundle
      BY <3>1
    <3>2. CASE ApproveResearchSpecBundle(c, v)
      <4> DEFINE b == [bundle[c][v] EXCEPT !.status = "approved"]
      <4>1. bundle[c][v] # None /\ bundle[c][v] \in Bundle
        BY <3>2, CardType DEF ApproveResearchSpecBundle
      <4>2. b.compile = bundle[c][v].compile
        BY <4>1 DEF Bundle
      <4>3. bundle' = [bundle EXCEPT ![c][v] = b]
        BY <3>2, Parts DEF ApproveResearchSpecBundle, SpecType
      <4> HIDE DEF b
      <4>4. \A e \in Cards, w \in Versions :
                bundle'[e][w] = bundle[e][w] \/ (e = c /\ w = v /\ bundle'[e][w] = b)
        BY <4>3 DEF Typed, TypeOK
      <4>5. QED
        BY <4>1, <4>2, <4>4 DEF Needs
    <3>3. QED
      BY <1>6, <3>1, <3>2 DEF CardStep, ReviseCard, ConfirmHypothesisCard
  <2>3. QED
    BY <2>1, <2>2 DEF Reviewed, Passing, Tasked, Saving, At
<1>7. CASE UNCHANGED vars
  BY <1>7 DEF vars, specVars, Reviewed, Passing, Tasked, Saving, At
<1>8. QED
  BY <1>1, <1>2, <1>5, <1>6, <1>7, TaskReviewed DEF Next

\* An approved task has passing evidence, although others may have submitted theirs
\* between the check and the approval; and a bundle that needs a task has one, as long as
\* no request has died (research-specs-v2/service.ts approveImplementationTask,
\* generateResearchSpecBundle).
THEOREM TasksStaySound == Spec => []TasksSound
<1>1. Init => Reviewed
  BY IdleLocal, NoneAssumption DEF Init, Reviewed, Passing, Tasked, Needs, At
<1>2. Spec => []Reviewed
  BY <1>1, ReviewedStep, TypedAlways, PTL DEF Spec
<1>3. Reviewed => TasksSound
  BY DEF Reviewed, Passing, Tasked, Needs, Saving, TasksSound
<1>4. QED
  BY <1>2, <1>3, PTL

-----------------------------------------------------------------------------
(* Pine exports.                                                           *)

Approved(c, v) == bundle[c][v] # None /\ bundle[c][v].status = "approved"
AtSave == Working({"save"})
Writing == {"supersede", "save", "finish", "event"}

\* Two requests never write the same export.
Held ==
    \A g, h \in Handlers :
        /\ local[g].pc \in Exporting /\ local[h].pc \in Exporting
        /\ local[g].export = local[h].export
        => g = h

\* What the request h has written, and found, by now.
InOrder(h) ==
    /\ local[h].pc = "quota" => job[local[h].export] = "absent"
    /\ local[h].pc \in {"supersede", "save", "finish"} => job[local[h].export] = "running"
    /\ local[h].pc = "event" => job[local[h].export] = "ready"
    /\ local[h].pc \in Writing => Approved(local[h].card, local[h].version)
    /\ local[h].pc \in {"finish", "event"} => export[local[h].export] # None
    /\ local[h].pc = "parity" => result[local[h].report] # None

\* A request supersedes all ready exports before it saves one: those that are ready,
\* and those about to be, are never more than there are requests.
Room == Cardinality(Ready) + Cardinality(AtSave) <= Cardinality(Handlers)
Quiet ==
    ~met =>
        /\ \A g, h \in Handlers : local[g].pc \in Exporting /\ local[h].pc \in Exporting => g = h
        /\ AtSave # {} => Ready = {}
        /\ \A x, y \in Ready : x = y

Ordered == \A h \in Handlers : InOrder(h)
Pined == Held /\ Ordered /\ Room /\ Quiet /\ ExportsBacked /\ JobsFinished

\* Everyone but h.
Still(h) == \A g \in Handlers : g # h => local'[g] = local[g]

LEMMA Sizes ==
    ASSUME NEW R \in SUBSET Exports, NEW S \in SUBSET Handlers
    PROVE  /\ IsFiniteSet(R) /\ Cardinality(R) \in Nat
           /\ IsFiniteSet(S) /\ Cardinality(S) \in Nat /\ Cardinality(S) <= Cardinality(Handlers)
           /\ \A Q \in SUBSET R : Cardinality(Q) <= Cardinality(R)
           /\ \A T \in SUBSET S : Cardinality(T) <= Cardinality(S)
           /\ Cardinality(Handlers) \in Nat
<1>1. IsFiniteSet(R) /\ IsFiniteSet(S)
  BY HandlersAssumption, ExportsAssumption, FS_Subset
<1>2. /\ Cardinality(S) <= Cardinality(Handlers)
      /\ \A Q \in SUBSET R : Cardinality(Q) <= Cardinality(R)
      /\ \A T \in SUBSET S : Cardinality(T) <= Cardinality(S)
  BY <1>1, HandlersAssumption, FS_Subset
<1>3. QED
  BY <1>1, <1>2, HandlersAssumption, FS_CardinalityType

\* Steps that take nobody into the last step before a save, and make no export ready.
LEMMA LullKept ==
    ASSUME Held, Room, Quiet, NEW h \in Handlers, Still(h),
           local'[h].pc \in Exporting => local[h].pc \in Exporting /\ local'[h].export = local[h].export,
           local'[h].pc # "save", UNCHANGED met, Ready' \subseteq Ready
    PROVE  Held' /\ Room' /\ Quiet'
<1>1. \A g \in Handlers :
          local'[g].pc \in Exporting => local[g].pc \in Exporting /\ local'[g].export = local[g].export
  BY DEF Still
<1>2. Held'
  BY <1>1 DEF Held
<1>3. AtSave' \subseteq AtSave /\ AtSave \subseteq Handlers /\ Ready \subseteq Exports
  BY DEF AtSave, Working, Still, Ready, Saved
<1>4. Room'
  <2>1. /\ Cardinality(Ready) \in Nat /\ Cardinality(AtSave) \in Nat /\ Cardinality(Handlers) \in Nat
        /\ Cardinality(Ready') <= Cardinality(Ready) /\ Cardinality(AtSave') <= Cardinality(AtSave)
    BY <1>3, Sizes
  <2>2. Cardinality(Ready') \in Nat /\ Cardinality(AtSave') \in Nat
    <3>1. Ready' \in SUBSET Exports /\ AtSave' \in SUBSET Handlers
      BY <1>3
    <3>2. QED
      BY <3>1, Sizes
  <2>3. QED
    BY <2>1, <2>2 DEF Room
<1>5. Quiet'
  BY <1>1, <1>3 DEF Quiet
<1>6. QED
  BY <1>2, <1>4, <1>5

\* The others find what they wrote: jobs change only under those who hold them.
LEMMA OthersInOrder ==
    ASSUME Typed, Held, Ordered, NEW h \in Handlers, Still(h),
           \A c \in Cards, v \in Versions : Approved(c, v) => Approved(c, v)',
           \A x \in Exports : export[x] # None => export'[x] # None,
           \A r \in Reports : result[r] # None => result'[r] # None,
           UNCHANGED job \/ (/\ local[h].pc \in Exporting
                             /\ \A x \in Exports : x # local[h].export => job'[x] = job[x]),
           NEW g \in Handlers, g # h
    PROVE  InOrder(g)'
<1>1. local'[g] = local[g] /\ InOrder(g) /\ LocalOK(local[g], export)
  BY DEF Still, Ordered, Typed
<1>2. local[g].pc \in Exporting => local[g].export \in Exports /\ job'[local[g].export] = job[local[g].export]
  BY <1>1 DEF Held, LocalOK
<1>3. \A pc \in {"quota", "supersede", "save", "finish", "event"} : pc \in Exporting
  BY DEF Exporting
<1>4. local[g].pc \in Writing => local[g].card \in Cards /\ local[g].version \in Versions
  BY <1>1 DEF LocalOK, Writing, Exporting
<1>5. local[g].pc = "parity" => local[g].report \in Reports
  BY <1>1 DEF LocalOK, Comparing
<1>6. QED
  BY <1>1, <1>2, <1>3, <1>4, <1>5 DEF InOrder

BackedRow(x) ==
    /\ Approved(export[x].card, export[x].version)
    /\ export[x].parity # "provisional" =>
           \E r \in Reports : result[r] # None /\ VerdictOf[r] = export[x].parity

\* Exports that keep what they are of, and their verdict, stay backed.
LEMMA BackedKept ==
    ASSUME Typed, ExportsBacked,
           \A c \in Cards, v \in Versions : Approved(c, v) => Approved(c, v)',
           \A r \in Reports : result[r] # None => result'[r] # None,
           \A x \in Exports : export'[x] # None =>
               \/ BackedRow(x)'
               \/ /\ export[x] # None
                  /\ export'[x].card = export[x].card /\ export'[x].version = export[x].version
                  /\ export'[x].parity = export[x].parity
    PROVE  ExportsBacked'
<1> SUFFICES ASSUME NEW x \in Exports, export'[x] # None, ~BackedRow(x)' PROVE BackedRow(x)'
  BY DEF ExportsBacked, Saved, Approved, BackedRow
<1>1. /\ x \in Saved /\ export[x] \in Export
      /\ export'[x].card = export[x].card /\ export'[x].version = export[x].version
      /\ export'[x].parity = export[x].parity
  BY DEF Saved, Typed, TypeOK
<1>2. BackedRow(x)
  BY <1>1 DEF ExportsBacked, Approved, BackedRow
<1>3. export[x].card \in Cards /\ export[x].version \in Versions
  BY <1>1 DEF Export
<1>4. /\ bundle'[export'[x].card][export'[x].version] # None
      /\ bundle'[export'[x].card][export'[x].version].status = "approved"
  BY <1>1, <1>2, <1>3 DEF BackedRow, Approved
<1>5. QED
  BY <1>1, <1>2, <1>4 DEF BackedRow, Approved

\* Steps of other requests, steps that only end a request, and deaths.
LEMMA PinedElsewhere ==
    ASSUME Typed, Pined, NEW h \in Handlers, Still(h), UNCHANGED pineVars,
           \A c \in Cards, v \in Versions : Approved(c, v) => Approved(c, v)',
           local'[h].pc \notin Exporting \cup {"parity"} \/ local'[h] = local[h],
           crashes' = 0 =>
               /\ crashes = 0
               /\ local[h].pc \in Exporting /\ local'[h] # local[h] => job[local[h].export] # "running"
    PROVE  Pined'
<1>1. UNCHANGED <<export, job, result, met>>
  BY DEF pineVars
<1>2. Ready' = Ready /\ Saved' = Saved
  BY <1>1 DEF Ready, Saved
<1>3. \A c \in Cards, v \in Versions : Approved(c, v) => Approved(c, v)'
  OBVIOUS
<1>4. Ordered'
  <2>1. \A g \in Handlers : g # h => InOrder(g)'
    BY <1>1, <1>3, OthersInOrder DEF Pined
  <2>2. CASE local'[h] = local[h]
    <3>1. InOrder(h) /\ LocalOK(local[h], export)
      BY DEF Pined, Ordered, Typed
    <3>2. local[h].pc \in Writing => local[h].card \in Cards /\ local[h].version \in Versions
      BY <3>1 DEF LocalOK, Writing, Exporting
    <3>3. InOrder(h)'
      BY <1>1, <1>3, <2>2, <3>1, <3>2 DEF InOrder
    <3>4. QED
      BY <2>1, <3>3 DEF Ordered
  <2>3. CASE local'[h].pc \notin Exporting \cup {"parity"}
    <3>1. InOrder(h)'
      BY <2>3 DEF InOrder, Exporting, Writing
    <3>2. QED
      BY <2>1, <3>1 DEF Ordered
  <2>4. QED
    BY <2>2, <2>3
<1>5. Held' /\ Room' /\ Quiet'
  <2>1. CASE local'[h].pc \notin Exporting
    <3>1. local'[h].pc # "save"
      BY <2>1 DEF Exporting
    <3>2. QED
      BY <1>1, <1>2, <2>1, <3>1, LullKept DEF Pined
  <2>2. CASE local'[h] = local[h]
    <3>1. \A g \in Handlers : local'[g] = local[g]
      BY <2>2 DEF Still
    <3>2. AtSave' = AtSave
      BY <3>1 DEF AtSave, Working
    <3>3. QED
      BY <1>1, <1>2, <3>1, <3>2 DEF Pined, Held, Room, Quiet
  <2>3. QED
    BY <2>1, <2>2
<1>6. ExportsBacked'
  BY <1>1, <1>3, BackedKept DEF Pined
<1>7. JobsFinished'
  BY <1>1, <1>2 DEF Pined, JobsFinished, Still
<1>8. QED
  BY <1>4, <1>5, <1>6, <1>7 DEF Pined

\* The job of the export that h writes goes on with h; the other jobs are as they were.
LEMMA JobsKept ==
    ASSUME JobsFinished, NEW h \in Handlers, Still(h), UNCHANGED crashes,
           \A x \in Exports : x # local[h].export => job'[x] = job[x],
           \A x \in Exports : export[x] # None => export'[x] # None,
           job'[local[h].export] = "ready" => export'[local[h].export] # None,
           job'[local[h].export] = "running" =>
               local'[h].export = local[h].export /\ local'[h].pc \in Exporting
    PROVE  JobsFinished'
<1> SUFFICES ASSUME NEW x \in Exports
             PROVE  /\ job'[x] = "ready" => export'[x] # None
                    /\ crashes' = 0 /\ job'[x] = "running" =>
                           \E g \in Handlers : local'[g].export = x /\ local'[g].pc \in Exporting
  BY DEF JobsFinished, Saved
<1>1. CASE x = local[h].export
  BY <1>1
<1>2. CASE x # local[h].export
  BY <1>2 DEF JobsFinished, Saved, Still
<1>3. QED
  BY <1>1, <1>2

LEMMA ExportingFacts ==
    ASSUME Typed, Pined, NEW h \in Handlers, local[h].pc \in Exporting
    PROVE  /\ local[h].export \in Exports /\ local[h].card \in Cards /\ local[h].version \in Versions
           /\ InOrder(h)
BY DEF Typed, LocalOK, Pined, Ordered

LEMMA GeneratePined ==
    ASSUME Typed, Pined, NEW h \in Handlers, NEW c \in Cards, NEW v \in Versions, NEW x \in Exports,
           GeneratePineExport(h, c, v, x)
    PROVE  Pined'
<1> DEFINE l == QuotaLocal(c, v, x)
<1>1. l \in Locals /\ l.pc = "quota" /\ l.export = x
  BY PineLocals
<1>2. /\ Begin(h, l) /\ New(x) /\ UNCHANGED <<export, job, result, crashes, bundle>>
      /\ met' = (met \/ Working(Exporting) # {})
  BY DEF GeneratePineExport, QuotaLocal, specVars
<1> HIDE DEF l
<1>3. Still(h) /\ local'[h] = l /\ local[h].pc = "idle"
  BY <1>1, <1>2, BeginPuts DEF Puts, Still
<1>4. \A a \in Cards, b \in Versions : Approved(a, b) => Approved(a, b)'
  BY <1>2 DEF Approved
<1>5. Ready' = Ready /\ AtSave' = AtSave
  BY <1>1, <1>2, <1>3 DEF Ready, Saved, AtSave, Working, Still
<1>6. Held'
  BY <1>1, <1>2, <1>3 DEF Pined, Held, New, Still
<1>7. Ordered'
  <2>1. \A g \in Handlers : g # h => InOrder(g)'
    BY <1>2, <1>3, <1>4, OthersInOrder DEF Pined
  <2>2. InOrder(h)'
    BY <1>1, <1>2, <1>3 DEF InOrder, New, Writing
  <2>3. QED
    BY <2>1, <2>2 DEF Ordered
<1>8. Room'
  BY <1>5 DEF Pined, Room
<1>9. Quiet'
  <2> SUFFICES ASSUME ~met'
               PROVE  /\ \A g, k \in Handlers :
                             local'[g].pc \in Exporting /\ local'[k].pc \in Exporting => g = k
                      /\ AtSave' = {}
                      /\ \A y, z \in Ready' : y = z
    BY DEF Quiet
  <2>1. ~met /\ Working(Exporting) = {}
    BY <1>2
  <2>2. \A g \in Handlers : local'[g].pc \in Exporting => g = h
    BY <1>3, <2>1 DEF Still, Working
  <2>3. AtSave = {}
    BY <2>1 DEF AtSave, Working, Exporting
  <2>4. QED
    BY <1>5, <2>1, <2>2, <2>3 DEF Pined, Quiet
<1>10. ExportsBacked'
  BY <1>2, <1>4, BackedKept DEF Pined
<1>11. JobsFinished'
  <2>1. local[h].pc \notin Exporting
    BY <1>3 DEF Exporting
  <2>2. QED
    BY <1>2, <1>3, <2>1 DEF Pined, JobsFinished, Still, Saved
<1>12. QED
  BY <1>6, <1>7, <1>8, <1>9, <1>10, <1>11 DEF Pined

\* What all steps of a request that writes an export have in common.
LEMMA WriterKeeps ==
    ASSUME Typed, Pined, NEW h \in Handlers, Still(h), UNCHANGED <<bundle, result, crashes>>,
           local[h].pc \in Exporting,
           \A x \in Exports : x # local[h].export => job'[x] = job[x],
           \A x \in Exports : export[x] # None => export'[x] # None,
           InOrder(h)',
           job'[local[h].export] = "ready" => export'[local[h].export] # None,
           job'[local[h].export] = "running" =>
               local'[h].export = local[h].export /\ local'[h].pc \in Exporting
    PROVE  /\ Ordered' /\ JobsFinished'
           /\ \A c \in Cards, v \in Versions : Approved(c, v) => Approved(c, v)'
<1>1. \A c \in Cards, v \in Versions : Approved(c, v) => Approved(c, v)'
  BY DEF Approved
<1>2. \A g \in Handlers : g # h => InOrder(g)'
  BY <1>1, OthersInOrder DEF Pined
<1>3. Ordered'
  BY <1>2 DEF Ordered
<1>4. JobsFinished'
  BY JobsKept DEF Pined
<1>5. QED
  BY <1>1, <1>3, <1>4

\* Steps that write only the job.
LEMMA JobStepPined ==
    ASSUME Typed, Pined, NEW h \in Handlers, UNCHANGED <<bundle, result, crashes, export, met>>,
           local[h].pc \in Exporting, Still(h), local'[h].pc # "save",
           local'[h].pc \in Exporting => local'[h].export = local[h].export,
           NEW status, status # "absent", job' = [job EXCEPT ![local[h].export] = status],
           InOrder(h)', status = "ready" => export[local[h].export] # None,
           status = "running" => local'[h].pc \in Exporting
    PROVE  Pined'
<1>1. /\ local[h].export \in Exports
      /\ \A x \in Exports : job'[x] = IF x = local[h].export THEN status ELSE job[x]
  BY ExportingFacts DEF Typed, TypeOK
<1>2. /\ Ordered' /\ JobsFinished'
      /\ \A c \in Cards, v \in Versions : Approved(c, v) => Approved(c, v)'
  BY <1>1, WriterKeeps
<1>3. Ready' = Ready
  BY DEF Ready, Saved
<1>4. Held' /\ Room' /\ Quiet'
  BY <1>3, LullKept DEF Pined
<1>5. ExportsBacked'
  BY <1>2, BackedKept DEF Pined
<1>6. QED
  BY <1>2, <1>4, <1>5 DEF Pined

LEMMA JobPined ==
    ASSUME Typed, Pined, NEW h \in Handlers,
           SavePineExportJob(h) \/ FinishPineExportJob(h) \/ FailPineExportJob(h)
    PROVE  Pined'
<1>1. /\ local[h].pc \in Exporting
      /\ UNCHANGED <<bundle, result, crashes, export, met>>
  BY DEF SavePineExportJob, FinishPineExportJob, FailPineExportJob, At, Exporting, specVars
<1>2. local[h].export \in Exports /\ local[h].card \in Cards /\ local[h].version \in Versions /\ InOrder(h)
  BY <1>1, ExportingFacts
<1>j. \A st : job' = [job EXCEPT ![local[h].export] = st] => job'[local[h].export] = st
  BY <1>2 DEF Typed, TypeOK
<1>3. ASSUME NEW pc \in Pcs, Goto(h, pc)
      PROVE  /\ Still(h) /\ local'[h].pc = pc /\ local'[h].export = local[h].export
             /\ local'[h].card = local[h].card /\ local'[h].version = local[h].version
  BY <1>3, GotoFacts DEF Puts, Kept, Still
<1>4. CASE SavePineExportJob(h) /\ ~Approved(local[h].card, local[h].version)
  <2>0. Return(h) /\ UNCHANGED <<pineVars, crashes>> /\ local[h].pc = "quota"
    BY <1>4 DEF SavePineExportJob, At, pineVars, Approved
  <2>1. Still(h) /\ local'[h].pc = "idle" /\ job[local[h].export] = "absent"
    BY <1>2, <2>0, ReturnFacts DEF Puts, Still, InOrder
  <2>2. QED
    <3>1. \A c \in Cards, v \in Versions : Approved(c, v) => Approved(c, v)'
      BY <1>1 DEF Approved
    <3>2. local'[h].pc \notin Exporting \cup {"parity"}
      BY <2>1 DEF Exporting
    <3>3. QED
      BY <2>0, <2>1, <3>1, <3>2, PinedElsewhere
<1>5. CASE SavePineExportJob(h) /\ Approved(local[h].card, local[h].version)
  <2>0. "supersede" \in Pcs
    BY DEF Pcs, Exporting
  <2>1. Goto(h, "supersede") /\ job' = [job EXCEPT ![local[h].export] = "running"]
    BY <1>5 DEF SavePineExportJob, Approved
  <2>2. /\ Still(h) /\ local'[h].pc = "supersede" /\ local'[h].export = local[h].export
        /\ local'[h].card = local[h].card /\ local'[h].version = local[h].version
    BY <1>3, <2>0, <2>1
  <2>5. InOrder(h)'
    BY <1>1, <1>2, <1>j, <1>5, <2>1, <2>2 DEF InOrder, Approved
  <2>6. "supersede" \in Exporting
    BY DEF Exporting
  <2>7. QED
    BY <1>1, <2>1, <2>2, <2>5, <2>6, JobStepPined
<1>6. CASE FinishPineExportJob(h)
  <2>0. "event" \in Pcs
    BY DEF Pcs, Exporting
  <2>1. /\ Still(h) /\ local'[h].pc = "event" /\ local'[h].export = local[h].export
        /\ local'[h].card = local[h].card /\ local'[h].version = local[h].version
    BY <1>3, <1>6, <2>0 DEF FinishPineExportJob
  <2>2. /\ job' = [job EXCEPT ![local[h].export] = "ready"] /\ local[h].pc = "finish"
    BY <1>6 DEF FinishPineExportJob, At
  <2>3. Approved(local[h].card, local[h].version) /\ export[local[h].export] # None
    BY <1>2, <2>2 DEF InOrder, Writing
  <2>4. InOrder(h)'
    BY <1>1, <1>2, <1>j, <2>1, <2>2, <2>3 DEF InOrder, Approved
  <2>5. QED
    BY <1>1, <2>1, <2>2, <2>3, <2>4, JobStepPined
<1>7. CASE FailPineExportJob(h)
  <2>1. /\ Still(h) /\ local'[h].pc = "idle" /\ job' = [job EXCEPT ![local[h].export] = "failed"]
    BY <1>7, ReturnFacts DEF FailPineExportJob, Puts, Still
  <2>2. InOrder(h)' /\ local'[h].pc \notin Exporting
    BY <2>1 DEF InOrder, Writing, Exporting
  <2>3. QED
    BY <1>1, <2>1, <2>2, JobStepPined
<1>8. QED
  BY <1>4, <1>5, <1>6, <1>7

LEMMA SupersedePined ==
    ASSUME Typed, Pined, NEW h \in Handlers, SupersedePineExports(h)
    PROVE  Pined'
<1>1. /\ local[h].pc = "supersede" /\ local[h].pc \in Exporting /\ "save" \in Pcs /\ "save" \in Exporting
      /\ Goto(h, "save") /\ UNCHANGED <<bundle, job, result, met, crashes>>
  BY DEF SupersedePineExports, At, Exporting, Pcs, specVars
<1>2. /\ local[h].export \in Exports /\ InOrder(h)
      /\ job[local[h].export] = "running" /\ Approved(local[h].card, local[h].version)
  BY <1>1, ExportingFacts DEF InOrder, Writing
<1>3. /\ Still(h) /\ local'[h].pc = "save" /\ local'[h].export = local[h].export
      /\ local'[h].card = local[h].card /\ local'[h].version = local[h].version
  BY <1>1, GotoFacts DEF Puts, Kept, Still
<1>4. \A x \in Exports : export'[x] = None <=> export[x] = None
  BY SupersedeFacts
<1>5. InOrder(h)'
  BY <1>1, <1>2, <1>3 DEF InOrder, Approved
<1>6. /\ Ordered' /\ JobsFinished'
      /\ \A c \in Cards, v \in Versions : Approved(c, v) => Approved(c, v)'
  BY <1>1, <1>2, <1>3, <1>4, <1>5, WriterKeeps
<1>7. \A x \in Exports : export'[x] # None =>
          /\ export[x] # None /\ export'[x].status # "ready"
          /\ export'[x].card = export[x].card /\ export'[x].version = export[x].version
          /\ export'[x].parity = export[x].parity
  <2> SUFFICES ASSUME NEW x \in Exports, export'[x] # None
               PROVE  /\ export[x] # None /\ export'[x].status # "ready"
                      /\ export'[x].card = export[x].card /\ export'[x].version = export[x].version
                      /\ export'[x].parity = export[x].parity
    OBVIOUS
  <2>1. CASE x \in Ready
    BY <2>1, SupersedeFacts, RowChanges, NoneAssumption
  <2>2. CASE x \notin Ready
    BY <2>2, SupersedeFacts DEF Ready, Saved
  <2>3. QED
    BY <2>1, <2>2
<1>8. Ready' = {}
  BY <1>7 DEF Ready, Saved
<1>9. Held'
  <2>1. \A g \in Handlers :
            local'[g].pc \in Exporting => local[g].pc \in Exporting /\ local'[g].export = local[g].export
    BY <1>1, <1>3 DEF Still
  <2>2. QED
    BY <2>1 DEF Pined, Held
<1>10. Room'
  <2>1. AtSave' \in SUBSET Handlers
    BY DEF AtSave, Working
  <2>2. Cardinality(AtSave') \in Nat /\ Cardinality(AtSave') <= Cardinality(Handlers)
    BY <2>1, Sizes
  <2>3. Cardinality(Ready') = 0
    BY <1>8, FS_EmptySet
  <2>4. QED
    BY <2>2, <2>3 DEF Room
<1>11. Quiet'
  <2>1. \A g \in Handlers : local'[g].pc \in Exporting => local[g].pc \in Exporting
    BY <1>1, <1>3 DEF Still
  <2>2. QED
    BY <1>1, <1>8, <2>1 DEF Pined, Quiet
<1>12. ExportsBacked'
  BY <1>1, <1>6, <1>7, BackedKept DEF Pined
<1>13. QED
  BY <1>6, <1>9, <1>10, <1>11, <1>12 DEF Pined

LEMMA SavePined ==
    ASSUME Typed, Pined, NEW h \in Handlers, SavePineExport(h)
    PROVE  Pined'
<1>x. PICK x \in Exports : x = local[h].export
  BY SaveFacts
<1> DEFINE row == Row(local[h])
<1>1. /\ local[h].pc = "save" /\ local[h].pc \in Exporting /\ "finish" \in Pcs /\ "finish" \in Exporting
      /\ Goto(h, "finish") /\ UNCHANGED <<bundle, job, result, met, crashes>>
  BY DEF SavePineExport, At, Exporting, Pcs, specVars
<1>2. /\ x \in Exports /\ InOrder(h)
      /\ job[x] = "running" /\ Approved(local[h].card, local[h].version)
  BY <1>x, <1>1, ExportingFacts DEF InOrder, Writing
<1>3. /\ Still(h) /\ local'[h].pc = "finish" /\ local'[h].export = x
      /\ local'[h].card = local[h].card /\ local'[h].version = local[h].version
  BY <1>x, <1>1, GotoFacts DEF Puts, Kept, Still
<1>4. /\ \A y \in Exports : export'[y] = IF y = x THEN row ELSE export[y]
      /\ row # None /\ row.status = "ready" /\ row.parity = "provisional"
      /\ row.card = local[h].card /\ row.version = local[h].version
  BY <1>x, SaveFacts, RowFacts DEF Typed, TypeOK
<1> HIDE DEF row
<1>5. InOrder(h)'
  BY <1>x, <1>1, <1>2, <1>3, <1>4 DEF InOrder, Approved
<1>6. /\ Ordered' /\ JobsFinished'
      /\ \A c \in Cards, v \in Versions : Approved(c, v) => Approved(c, v)'
  BY <1>1, <1>2, <1>3, <1>4, <1>5, <1>x, WriterKeeps
<1>7. Ready' \subseteq Ready \cup {x} /\ Ready \subseteq Exports
  BY <1>4 DEF Ready, Saved
<1>8. AtSave' = AtSave \ {h} /\ h \in AtSave /\ AtSave \subseteq Handlers
  BY <1>1, <1>3 DEF AtSave, Working, Still
<1>9. Held'
  <2>1. \A g \in Handlers :
            local'[g].pc \in Exporting => local[g].pc \in Exporting /\ local'[g].export = local[g].export
    BY <1>x, <1>1, <1>3 DEF Still
  <2>2. QED
    BY <2>1 DEF Pined, Held
<1>10. Room'
  <2>1. /\ IsFiniteSet(Ready) /\ IsFiniteSet(AtSave) /\ Cardinality(Ready) \in Nat
        /\ Cardinality(AtSave) \in Nat /\ Cardinality(Handlers) \in Nat
    BY <1>7, <1>8, Sizes
  <2>2. Cardinality(AtSave') = Cardinality(AtSave) - 1
    <3>1. Cardinality(AtSave \ {h}) = Cardinality(AtSave) - 1
      BY <1>8, <2>1, FS_RemoveElement
    <3>2. QED
      BY <1>8, <3>1
  <2>3. Cardinality(Ready \cup {x}) <= Cardinality(Ready) + 1 /\ IsFiniteSet(Ready \cup {x})
    <3>1. /\ Cardinality(Ready \cup {x}) \in {Cardinality(Ready), Cardinality(Ready) + 1}
          /\ IsFiniteSet(Ready \cup {x})
      BY <2>1, FS_AddElement
    <3>2. QED
      BY <2>1, <3>1
  <2>4. Cardinality(Ready') <= Cardinality(Ready \cup {x}) /\ Cardinality(Ready') \in Nat
        /\ Cardinality(Ready \cup {x}) \in Nat
    BY <1>7, <2>3, FS_Subset, FS_CardinalityType
  <2>5. QED
    BY <2>1, <2>2, <2>3, <2>4 DEF Pined, Room
<1>11. Quiet'
  <2> SUFFICES ASSUME ~met'
               PROVE  /\ \A g, k \in Handlers :
                             local'[g].pc \in Exporting /\ local'[k].pc \in Exporting => g = k
                      /\ AtSave' = {}
                      /\ \A y, z \in Ready' : y = z
    BY DEF Quiet
  <2>1. \A g, k \in Handlers : local[g].pc \in Exporting /\ local[k].pc \in Exporting => g = k
    BY <1>1 DEF Pined, Quiet
  <2>2. \A g \in Handlers : local'[g].pc \in Exporting => local[g].pc \in Exporting
    BY <1>x, <1>1, <1>3 DEF Still
  <2>3. Ready = {}
    BY <1>1, <1>8 DEF Pined, Quiet
  <2>4. AtSave' = {}
    BY <1>1, <1>8, <2>1 DEF AtSave, Working, Exporting
  <2>5. QED
    BY <1>7, <2>1, <2>2, <2>3, <2>4
<1>12. ExportsBacked'
  <2>1. BackedRow(x)'
    BY <1>1, <1>2, <1>4 DEF BackedRow, Approved
  <2>2. \A y \in Exports : y # x => export'[y] = export[y]
    BY <1>4
  <2>3. QED
    BY <1>1, <1>6, <2>1, <2>2, BackedKept DEF Pined
<1>13. QED
  BY <1>6, <1>9, <1>10, <1>11, <1>12 DEF Pined

LEMMA ParityPined ==
    ASSUME Typed, Pined, NEW h \in Handlers, SaveParity(h) \/ UpdatePineParity(h)
    PROVE  Pined'
<1>t. /\ local[h].pc \in Comparing /\ local[h].pc \notin Exporting
      /\ local[h].export \in Exports /\ local[h].report \in Reports
      /\ UNCHANGED <<bundle, job, met, crashes>>
  <2>1. local[h].pc \in Comparing /\ UNCHANGED <<bundle, job, met, crashes>>
    BY DEF SaveParity, UpdatePineParity, At, Comparing, specVars
  <2>2. QED
    BY <2>1 DEF Typed, LocalOK, Comparing, Exporting
<1>1. \A c \in Cards, v \in Versions : Approved(c, v) => Approved(c, v)'
  BY <1>t DEF Approved
<1>2. /\ Still(h) /\ local'[h].pc \in {"parity", "idle"}
      /\ SaveParity(h) => local'[h].pc = "parity" /\ local'[h].report = local[h].report
      /\ UpdatePineParity(h) => local'[h].pc = "idle"
  <2>1. CASE SaveParity(h)
    <3>1. "parity" \in Pcs /\ Goto(h, "parity") /\ At(h, "result")
      BY <2>1 DEF SaveParity, Pcs, Comparing
    <3>2. QED
      BY <3>1, GotoFacts DEF Puts, Kept, Still, UpdatePineParity, At
  <2>2. CASE UpdatePineParity(h)
    <3>1. Return(h) /\ At(h, "parity")
      BY <2>2 DEF UpdatePineParity
    <3>2. QED
      BY <3>1, ReturnFacts DEF Puts, Still, SaveParity, At
  <2>3. QED
    BY <2>1, <2>2
<1>3. \A r \in Reports : result[r] # None => result'[r] # None
  BY DEF SaveParity, UpdatePineParity, Typed, TypeOK
<1>4. /\ \A x \in Exports : export'[x] = None <=> export[x] = None
      /\ Ready' = Ready
      /\ \A x \in Exports : x # local[h].export \/ SaveParity(h) => export'[x] = export[x]
  <2>1. CASE SaveParity(h)
    BY <2>1 DEF SaveParity, Ready, Saved
  <2>2. CASE UpdatePineParity(h)
    <3> DEFINE row == Compared(local[h].export, VerdictOf[local[h].report])
    <3>1. /\ export' = [export EXCEPT ![local[h].export] = row]
          /\ export[local[h].export] \in Export /\ export[local[h].export] # None
      BY <2>2, ParityFacts, NoneAssumption
    <3>2. row # None /\ row.status = export[local[h].export].status
      BY <2>2, ParityFacts, RowChanges
    <3> HIDE DEF row
    <3>3. \A x \in Exports : export'[x] = IF x = local[h].export THEN row ELSE export[x]
      BY <3>1 DEF Typed, TypeOK
    <3>4. At(h, "parity")
      BY <2>2 DEF UpdatePineParity
    <3>5. QED
      BY <1>t, <3>1, <3>2, <3>3, <3>4 DEF Ready, Saved, SaveParity, At
  <2>3. QED
    BY <2>1, <2>2
<1>5. Held' /\ Room' /\ Quiet'
  <2>1. local'[h].pc \notin Exporting /\ local'[h].pc # "save"
    BY <1>2 DEF Exporting
  <2>2. QED
    BY <1>t, <1>2, <1>4, <2>1, LullKept DEF Pined
<1>6. Ordered'
  <2>1. \A g \in Handlers : g # h => InOrder(g)'
    BY <1>t, <1>1, <1>2, <1>3, <1>4, OthersInOrder DEF Pined
  <2>2. InOrder(h)'
    <3>1. CASE SaveParity(h)
      <4>1. result'[local[h].report] # None
        BY <1>t, <3>1, NoneAssumption DEF SaveParity, Typed, TypeOK
      <4>2. QED
        BY <1>2, <3>1, <4>1 DEF InOrder, Writing
    <3>2. CASE UpdatePineParity(h)
      BY <1>2, <3>2 DEF InOrder, Writing
    <3>3. QED
      BY <3>1, <3>2
  <2>3. QED
    BY <2>1, <2>2 DEF Ordered
<1>7. ExportsBacked'
  <2>1. CASE SaveParity(h)
    BY <1>1, <1>3, <1>4, <2>1, BackedKept DEF Pined
  <2>2. CASE UpdatePineParity(h)
    <3>x. PICK x \in Exports : x = local[h].export
      BY <1>t
    <3> DEFINE row == Compared(x, VerdictOf[local[h].report])
    <3>1. /\ export' = [export EXCEPT ![x] = row]
          /\ row.card = export[x].card /\ row.version = export[x].version
          /\ row.parity = VerdictOf[local[h].report]
          /\ export[x] \in Export /\ export[x] # None
      BY <2>2, <3>x, ParityFacts, RowChanges, NoneAssumption
    <3> HIDE DEF row
    <3>2. export'[x] = row
      BY <1>t, <3>1 DEF Typed, TypeOK
    <3>3. result[local[h].report] # None /\ UNCHANGED result
      BY <2>2 DEF UpdatePineParity, At, Pined, Ordered, InOrder
    <3>4. Approved(export[x].card, export[x].version)
      BY <1>t, <3>1 DEF Pined, ExportsBacked, Saved, Approved
    <3>5. BackedRow(x)'
      BY <1>t, <3>1, <3>2, <3>3, <3>4 DEF BackedRow, Approved
    <3>6. QED
      BY <1>1, <1>3, <1>4, <3>x, <3>5, BackedKept DEF Pined
  <2>3. QED
    BY <2>1, <2>2
<1>8. JobsFinished'
  BY <1>t, <1>2, <1>4 DEF Pined, JobsFinished, Saved, Still
<1>9. QED
  BY <1>5, <1>6, <1>7, <1>8 DEF Pined

LEMMA PinedStep == Typed /\ Pined /\ [Next]_vars => Pined'
<1> SUFFICES ASSUME Typed, Pined, [Next]_vars PROVE Pined'
  OBVIOUS
<1>1. ASSUME NEW c \in Cards, NEW v \in Versions,
             NEW h \in Handlers, NEW compile, GenerateResearchSpecBundle(h, c, v, compile)
      PROVE  \A e \in Cards, w \in Versions : Approved(e, w) => Approved(e, w)'
  <2>1. bundle[c][v] = None /\ \A e \in Cards, w \in Versions :
            ~(e = c /\ w = v) => bundle'[e][w] = bundle[e][w]
    BY <1>1 DEF GenerateResearchSpecBundle, Typed, TypeOK
  <2>2. QED
    BY <2>1 DEF Approved
<1>2. ASSUME NEW c \in Cards, NEW v \in Versions, ApproveResearchSpecBundle(c, v)
      PROVE  \A e \in Cards, w \in Versions : Approved(e, w) => Approved(e, w)'
  <2>1. \A e \in Cards, w \in Versions : ~(e = c /\ w = v) => bundle'[e][w] = bundle[e][w]
    BY <1>2 DEF ApproveResearchSpecBundle, Typed, TypeOK
  <2>2. bundle[c][v].status = "generated"
    BY <1>2 DEF ApproveResearchSpecBundle
  <2>3. QED
    BY <2>1, <2>2 DEF Approved
<1>3. ASSUME UNCHANGED bundle PROVE \A c \in Cards, v \in Versions : Approved(c, v) => Approved(c, v)'
  BY <1>3 DEF Approved
<1>4. ASSUME NEW h \in Handlers, ProposalStep(h) \/ TaskStep(h) \/ \E c \in Cards : SpecStep(h, c)
      PROVE  Pined'
  <2>1. UNCHANGED <<pineVars, crashes>> /\ (Moves(h, Deciding) \/ Moves(h, Tasking))
    BY <1>4, ProposalMoves, TaskMoves
  <2>2. Still(h) /\ local'[h].pc \notin Exporting \cup {"parity"} /\ local[h].pc \notin Exporting
    BY <2>1 DEF Moves, Still, Deciding, Tasking, Exporting
  <2>3. \A c \in Cards, v \in Versions : Approved(c, v) => Approved(c, v)'
    <3>1. CASE ProposalStep(h)
      BY <1>3, <3>1, ProposalMoves
    <3>2. CASE TaskStep(h)
      BY <1>3, <3>2 DEF TaskStep, SaveTask, WriteEvidence, WriteApproval
    <3>3. CASE \E c \in Cards : SpecStep(h, c)
      BY <1>1, <1>3, <3>3
         DEF SpecStep, SubmitImplementationEvidence, ApproveImplementationTask, specVars
    <3>4. QED
      BY <1>4, <3>1, <3>2, <3>3
  <2>4. QED
    BY <2>1, <2>2, <2>3, PinedElsewhere
<1>5. ASSUME NEW h \in Handlers, Crash(h) PROVE Pined'
  <2>1. /\ Still(h) /\ local'[h].pc \notin Exporting \cup {"parity"} /\ crashes' # 0
        /\ UNCHANGED <<pineVars, bundle>>
    BY <1>5, CrashMoves DEF Still, Exporting, specVars
  <2>2. QED
    BY <1>3, <2>1, PinedElsewhere
<1>6. ASSUME NEW h \in Handlers, NEW x \in Exports, NEW r \in Reports, ComparePineExport(h, x, r)
      PROVE  Pined'
  <2> DEFINE l == CompareLocal(x, r)
  <2>1. l \in Locals /\ l.pc = "result"
    BY PineLocals
  <2>2. Begin(h, l) /\ UNCHANGED <<pineVars, bundle, crashes>>
    BY <1>6 DEF ComparePineExport, CompareLocal, specVars
  <2> HIDE DEF l
  <2>3. Still(h) /\ local'[h].pc \notin Exporting \cup {"parity"} /\ local[h].pc \notin Exporting
    BY <2>1, <2>2, BeginPuts DEF Puts, Still, Exporting
  <2>4. QED
    BY <1>3, <2>2, <2>3, PinedElsewhere
<1>7. ASSUME NEW h \in Handlers, AppendPineLifecycle(h) PROVE Pined'
  <2>1. Return(h) /\ UNCHANGED <<pineVars, bundle, crashes>> /\ local[h].pc = "event"
    BY <1>7 DEF AppendPineLifecycle, At, specVars
  <2>2. job[local[h].export] = "ready"
    BY <2>1 DEF Pined, Ordered, InOrder
  <2>3. Still(h) /\ local'[h].pc \notin Exporting \cup {"parity"}
    BY <2>1, ReturnFacts DEF Puts, Still, Exporting
  <2>4. QED
    BY <1>3, <2>1, <2>2, <2>3, PinedElsewhere
<1>8. ASSUME NEW h \in Handlers, PineStep(h) PROVE Pined'
  BY <1>6, <1>7, <1>8, GeneratePined, JobPined, SupersedePined, SavePined, ParityPined DEF PineStep
<1>9. ASSUME NEW c \in Cards, NEW v \in Versions, CardStep(c, v) PROVE Pined'
  <2>1. UNCHANGED <<local, crashes, pineVars>>
    BY <1>9 DEF CardStep, ReviseCard, ConfirmHypothesisCard, ApproveResearchSpecBundle
  <2>2. \A e \in Cards, w \in Versions : Approved(e, w) => Approved(e, w)'
    BY <1>2, <1>3, <1>9 DEF CardStep, ReviseCard, ConfirmHypothesisCard
  <2>3. PICK h \in Handlers : TRUE
    BY HandlersAssumption
  <2>4. Still(h) /\ local'[h] = local[h]
    BY <2>1 DEF Still
  <2>5. QED
    BY <2>1, <2>2, <2>4, PinedElsewhere
<1>10. CASE UNCHANGED vars
  <2>1. UNCHANGED <<local, crashes, pineVars, bundle>>
    BY <1>10 DEF vars, specVars
  <2>2. PICK h \in Handlers : TRUE
    BY HandlersAssumption
  <2>3. Still(h) /\ local'[h] = local[h]
    BY <2>1 DEF Still
  <2>4. QED
    BY <1>3, <2>1, <2>3, PinedElsewhere
<1>11. QED
  BY <1>4, <1>5, <1>8, <1>9, <1>10 DEF Next

LEMMA PinedInit == Init => Pined
<1> SUFFICES ASSUME Init PROVE Pined
  OBVIOUS
<1>1. \A h \in Handlers : local[h].pc = "idle"
  BY IdleLocal DEF Init
<1>2. Saved = {} /\ Ready = {} /\ AtSave = {}
  BY <1>1 DEF Init, Saved, Ready, AtSave, Working
<1>3. Room
  <2>1. {} \in SUBSET Exports /\ {} \in SUBSET Handlers
    OBVIOUS
  <2>2. Cardinality({}) = 0 /\ Cardinality(Handlers) \in Nat
    BY <2>1, FS_EmptySet, Sizes
  <2>3. QED
    BY <1>2, <2>2 DEF Room
<1>4. Held /\ Ordered
  BY <1>1 DEF Held, Ordered, InOrder, Exporting, Writing
<1>5. Quiet /\ ExportsBacked
  BY <1>1, <1>2 DEF Quiet, ExportsBacked, Exporting
<1>6. JobsFinished
  BY DEF Init, JobsFinished
<1>7. QED
  BY <1>3, <1>4, <1>5, <1>6 DEF Pined

\* A program has at most one ready export unless two were under way at once, and never
\* more than requests at once; each is of an approved bundle and has a verdict only if
\* one like it was stored; a job that is ready has its export, and one that runs is at
\* work unless a request has died (research-c2/service.ts generatePineExport,
\* comparePineExport).
THEOREM PineExportsStaySound == Spec => []PineExportsSound
<1>1. Spec => []Pined
  BY PinedInit, PinedStep, TypedAlways, PTL DEF Spec
<1>2. Pined => PineExportsSound
  <2> SUFFICES ASSUME Pined PROVE PineExportsSound
    OBVIOUS
  <2>1. Ready \in SUBSET Exports /\ AtSave \in SUBSET Handlers
    BY DEF Ready, Saved, AtSave, Working
  <2>2. Cardinality(Ready) \in Nat /\ Cardinality(AtSave) \in Nat /\ Cardinality(Handlers) \in Nat
    BY <2>1, Sizes
  <2>3. Cardinality(Ready) <= Cardinality(Handlers)
    BY <2>2 DEF Pined, Room
  <2>4. QED
    BY <2>3 DEF Pined, Quiet, OneReady, PineExportsSound
<1>3. QED
  BY <1>1, <1>2, PTL
=============================================================================

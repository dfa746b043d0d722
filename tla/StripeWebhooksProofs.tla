------------------------- MODULE StripeWebhooksProofs -------------------------
(***************************************************************************)
(* The properties of StripeWebhooks for every set of events, requests and  *)
(* plans and any number of failures.  IndInv holds however the requests    *)
(* overlap; OneByOneInv is about those that come one by one.               *)
(***************************************************************************)
EXTENDS StripeWebhooks, TLAPS

\* The steps of a request that is about an event.
EventPcs == {"find", "insert", "touch", "reread", "apply", "processed", "failed"}

\* The locals of a request are of their types, and a request at a step that is
\* about an event has one.
LocalsOK == \A h \in Handlers : proc[h].pc \in EventPcs => proc[h].event \in Events

\* What a request holds about its event is true of it: the copy of a processed
\* receipt, or the step that closes the receipt, means that the event was applied.
RequestsSound ==
    \A h \in Handlers :
        proc[h].seen = "processed" \/ proc[h].pc = "processed" => proc[h].event \in applied

IndInv == TypeOK /\ LocalsOK /\ NoEventLost /\ RequestsSound

\* Initially no receipt exists and no request runs.
LEMMA InitIndInv == Init => IndInv
  BY EventsAssumption, PlansAssumption, FailuresAssumption
     DEF Init, Idle, IndInv, TypeOK, Locals, Pcs, Receipts, LocalsOK, EventPcs,
         NoEventLost, RequestsSound

\* Every step of every request keeps the invariant.
LEMMA StepIndInv == IndInv /\ [Next]_vars => IndInv'
  <1> USE EventsAssumption, PlansAssumption, FailuresAssumption
      DEF IndInv, TypeOK, Locals, Pcs, Receipts, LocalsOK, EventPcs, NoEventLost,
          RequestsSound, At, Goto, Return, Idle
  <1> SUFFICES ASSUME IndInv, [Next]_vars PROVE IndInv'
      OBVIOUS
  <1>1. ASSUME NEW h \in Handlers, NEW e \in Events, Deliver(h, e) PROVE IndInv'
      BY <1>1 DEF Deliver, Begin, Quiet
  <1>2. ASSUME NEW h \in Handlers, NEW e \in Events, Reprocess(h, e) PROVE IndInv'
      BY <1>2 DEF Reprocess, Begin, Quiet
  <1>3. ASSUME NEW h \in Handlers, Override(h) PROVE IndInv'
      BY <1>3 DEF Override, Begin, Quiet
  <1>4. ASSUME NEW h \in Handlers, GetAccountState(h) PROVE IndInv'
      BY <1>4 DEF GetAccountState, Begin, Quiet
  <1>5. ASSUME NEW h \in Handlers, FindReceipt(h) PROVE IndInv'
    <2> DEFINE seen == receipt[proc[h].event]
               pc == IF seen = "none" THEN "insert" ELSE "touch"
               l == [proc[h] EXCEPT !.seen = seen, !.pc = pc]
    <2>1. proc[h] \in Locals /\ proc[h].event \in Events /\ seen \in Receipts
        BY <1>5 DEF FindReceipt
    <2>2. l \in Locals /\ l.event = proc[h].event /\ l.seen = seen /\ l.pc = pc
        BY <2>1
    <2>3. proc' = [proc EXCEPT ![h] = l]
        BY <1>5, <2>1 DEF FindReceipt
    <2>4. UNCHANGED <<ignored, receipt, subscription, account, entitlements,
                      acknowledged, applied, plain, failures>>
        BY <1>5 DEF FindReceipt
    <2>5. (TypeOK /\ NoEventLost)'
      <3> HIDE DEF l
      <3> QED  BY <2>2, <2>3, <2>4
    <2>6. LocalsOK'
      <3> HIDE DEF l
      <3> QED  BY <2>1, <2>2, <2>3
    <2>7. RequestsSound'
      <3> HIDE DEF l
      <3> QED  BY <2>1, <2>2, <2>3, <2>4
    <2> QED
        BY <2>5, <2>6, <2>7
  <1>6. ASSUME NEW h \in Handlers, InsertReceipt(h) PROVE IndInv'
      BY <1>6 DEF InsertReceipt
  <1>7. ASSUME NEW h \in Handlers, TouchReceipt(h) PROVE IndInv'
      BY <1>7 DEF TouchReceipt
  <1>8. ASSUME NEW h \in Handlers, RereadReceipt(h) PROVE IndInv'
    <2>1. proc[h].event \in Events /\ UNCHANGED <<ignored, receipt, subscription,
              account, entitlements, applied, plain, failures>>
        BY <1>8 DEF RereadReceipt
    <2>2. CASE receipt[proc[h].event] = "processed"
      <3>1. /\ proc' = [proc EXCEPT ![h] = Idle]
            /\ acknowledged' \subseteq acknowledged \cup {proc[h].event}
          BY <1>8, <2>2 DEF RereadReceipt, Answer
      <3>2. (TypeOK /\ NoEventLost)'
          BY <2>1, <2>2, <3>1
      <3>3. (LocalsOK /\ RequestsSound)'
          BY <2>1, <3>1
      <3> QED
          BY <3>2, <3>3
    <2>3. CASE receipt[proc[h].event] # "processed"
      <3>1. proc' = [proc EXCEPT ![h].pc = "apply"] /\ UNCHANGED acknowledged
          BY <1>8, <2>3 DEF RereadReceipt
      <3> QED
          BY <2>1, <3>1
    <2> QED
        BY <2>2, <2>3
  <1>9. ASSUME NEW h \in Handlers, IgnoreEvent(h) PROVE IndInv'
      BY <1>9 DEF IgnoreEvent
  <1>10. ASSUME NEW h \in Handlers, UpsertSubscription(h) PROVE IndInv'
    <2> DEFINE l == [proc[h] EXCEPT !.pc = "account", !.plan = PlanOf[proc[h].event]]
    <2>1. proc[h] \in Locals /\ proc[h].event \in Events /\ PlanOf[proc[h].event] \in Plans
        BY <1>10 DEF UpsertSubscription
    <2>2. l \in Locals /\ l.event = proc[h].event /\ l.seen = proc[h].seen /\ l.pc = "account"
        BY <2>1
    <2>3. proc' = [proc EXCEPT ![h] = l]
        BY <1>10 DEF UpsertSubscription
    <2>4. /\ subscription' \in Plans
          /\ UNCHANGED <<ignored, receipt, account, entitlements,
                         acknowledged, applied, plain, failures>>
        BY <1>10, <2>1 DEF UpsertSubscription
    <2>5. (TypeOK /\ NoEventLost)'
      <3> HIDE DEF l
      <3> QED  BY <2>2, <2>3, <2>4
    <2>6. (LocalsOK /\ RequestsSound)'
      <3> HIDE DEF l
      <3> QED  BY <2>1, <2>2, <2>3, <2>4
    <2> QED
        BY <2>5, <2>6
  <1>11. ASSUME NEW h \in Handlers, UpdatePlan(h) PROVE IndInv'
      BY <1>11 DEF UpdatePlan
  <1>12. ASSUME NEW h \in Handlers, SetEntitlements(h) PROVE IndInv'
    <2>1. CASE proc[h].event \in Events
        BY <1>12, <2>1 DEF SetEntitlements
    <2>2. CASE proc[h].event \notin Events
        BY <1>12, <2>2 DEF SetEntitlements
    <2> QED
        BY <2>1, <2>2
  <1>13. ASSUME NEW h \in Handlers, MarkProcessed(h) PROVE IndInv'
    <2>1. proc[h].event \in Events /\ proc[h].event \in applied
        BY <1>13 DEF MarkProcessed
    <2>2. /\ receipt' = [receipt EXCEPT ![proc[h].event] = "processed"]
          /\ proc' = [proc EXCEPT ![h] = Idle]
          /\ acknowledged' \subseteq acknowledged \cup {proc[h].event}
          /\ UNCHANGED <<ignored, subscription, account, entitlements, applied,
                         plain, failures>>
        BY <1>13 DEF MarkProcessed, Answer
    <2>3. TypeOK'
        BY <2>1, <2>2
    <2>4. NoEventLost'
        BY <2>1, <2>2
    <2>5. (LocalsOK /\ RequestsSound)'
        BY <2>2
    <2> QED
        BY <2>3, <2>4, <2>5
  <1>14. ASSUME NEW h \in Handlers, ApplyFails(h) PROVE IndInv'
      BY <1>14 DEF ApplyFails
  <1>15. ASSUME NEW h \in Handlers, MarkFailed(h) PROVE IndInv'
      BY <1>15 DEF MarkFailed
  <1>16. ASSUME NEW h \in Handlers, OverrideEntitlements(h) PROVE IndInv'
      BY <1>16 DEF OverrideEntitlements
  <1>17. ASSUME NEW h \in Handlers, ReadEntitlements(h) PROVE IndInv'
      BY <1>17 DEF ReadEntitlements
  <1>18. ASSUME NEW h \in Handlers, RepairEntitlements(h) PROVE IndInv'
      BY <1>18 DEF RepairEntitlements
  <1>19. ASSUME NEW h \in Handlers, Crash(h) PROVE IndInv'
      BY <1>19 DEF Crash
  <1>20. CASE UNCHANGED vars
      BY <1>20 DEF vars
  <1> QED
      BY <1>1, <1>2, <1>3, <1>4, <1>5, <1>6, <1>7, <1>8, <1>9, <1>10, <1>11, <1>12,
         <1>13, <1>14, <1>15, <1>16, <1>17, <1>18, <1>19, <1>20
         DEF Next, Step

\* Every reachable state satisfies the invariant.
THEOREM Invariance == Spec => []IndInv
  BY InitIndInv, StepIndInv, PTL DEF Spec

\* The tables and the locals of the requests keep their types.
THEOREM TypeCorrect == Spec => []TypeOK
  <1>1. IndInv => TypeOK  BY DEF IndInv
  <1> QED  BY Invariance, <1>1, PTL

\* An event that Stripe got a 2xx for, or whose receipt is processed, was written to
\* the subscription, the account and the entitlements.
THEOREM EventsKept == Spec => []NoEventLost
  <1>1. IndInv => NoEventLost  BY DEF IndInv
  <1> QED  BY Invariance, <1>1, PTL
-----------------------------------------------------------------------------
(***************************************************************************)
(* Requests that come one by one.                                          *)
(***************************************************************************)

Busy(h) == proc[h].pc # "idle"
OneByOne == \A g, h \in Handlers : Busy(g) /\ Busy(h) => g = h

\* The steps between the receipt that is opened and the one that is closed.
Applying == {"apply", "account", "entitlements", "processed"}

\* What a request that runs alone knows of the receipt and of the plans.
LocalsFresh ==
    \A h \in Handlers : LET l == proc[h] IN
        /\ l.pc # "override"
        /\ l.pc = "insert" => receipt[l.event] = "none"
        /\ l.pc = "touch" => receipt[l.event] = l.seen /\ l.seen # "none"
        /\ l.pc = "reread" => receipt[l.event] \in {"received", "processed"}
        /\ l.pc \in Applying \cup {"failed"} => receipt[l.event] = "received"
        /\ l.pc \in {"account", "entitlements"} => l.event \in Effective /\ subscription = l.plan
        /\ l.pc = "entitlements" => account = l.plan
        /\ l.pc = "processed" /\ l.event \in Effective => Reconciled
        /\ l.pc \in {"read", "repair"} => account = l.plan

\* A mismatch is held by the receipt of an event with an effect.
MismatchHeld ==
    Reconciled \/ \E f \in Effective : receipt[f] \in {"received", "failed"}

PlainInv == plain => OneByOne /\ LocalsFresh /\ MismatchHeld

\* Receipts are opened in the order of the events.
InOrder ==
    /\ \A e, f \in Events : f < e /\ receipt[e] # "none" => receipt[f] # "none"
    /\ \A h \in Handlers, f \in Events :
          proc[h].event \in Events /\ f < proc[h].event => receipt[f] # "none"

\* m is the latest event with an effect that has a receipt.
Latest(m) ==
    /\ m \in Effective /\ receipt[m] # "none"
    /\ \A f \in Effective : receipt[f] # "none" => f <= m

LatestExists == (\E f \in Effective : receipt[f] # "none") => \E m \in Events : Latest(m)

\* Without failures a receipt that is open has its request, of the latest event, and a
\* receipt that is found is closed.
OpenIsLatest ==
    /\ \A e \in Events : receipt[e] # "failed"
    /\ \A e \in Events : receipt[e] = "received" =>
          \E h \in Handlers : proc[h].event = e /\ proc[h].pc \in Applying
    /\ \A h \in Handlers : LET l == proc[h] IN
          /\ l.pc # "failed"
          /\ l.pc \in {"touch", "reread"} => receipt[l.event] = "processed"
          /\ l.pc \in Applying => \A f \in Events : receipt[f] # "none" => f <= l.event
          /\ l.pc \in {"account", "entitlements"} => l.plan = PlanOf[l.event]

LatestWritten ==
    \A m \in Events : Latest(m) =>
        \/ account = PlanOf[m]
        \/ \E h \in Handlers : proc[h].event = m /\ proc[h].pc \in {"apply", "account"}

LatestInv == plain /\ failures = 0 => OpenIsLatest /\ LatestWritten

\* Receipts are opened in order: Stripe first sends an event after those before it, and
\* a receipt is never removed.
LEMMA StepInOrder == IndInv /\ InOrder /\ [Next]_vars => InOrder'
  <1> USE EventsAssumption, PlansAssumption, FailuresAssumption
      DEF IndInv, TypeOK, Locals, Pcs, Receipts, LocalsOK, EventPcs, At, Goto, Return, Idle,
          InOrder
  <1> SUFFICES ASSUME IndInv, InOrder, [Next]_vars PROVE InOrder'
      OBVIOUS
  <1>1. ASSUME NEW h \in Handlers, NEW e \in Events, Deliver(h, e) PROVE InOrder'
      BY <1>1 DEF Deliver, Begin, Quiet
  <1>2. ASSUME NEW h \in Handlers, NEW e \in Events, Reprocess(h, e) PROVE InOrder'
      BY <1>2 DEF Reprocess, Begin, Quiet
  <1>3. ASSUME NEW h \in Handlers, Override(h) PROVE InOrder'
      BY <1>3 DEF Override, Begin, Quiet
  <1>4. ASSUME NEW h \in Handlers, GetAccountState(h) PROVE InOrder'
      BY <1>4 DEF GetAccountState, Begin, Quiet
  <1>5. ASSUME NEW h \in Handlers, FindReceipt(h) PROVE InOrder'
      BY <1>5 DEF FindReceipt
  <1>6. ASSUME NEW h \in Handlers, InsertReceipt(h) PROVE InOrder'
      BY <1>6 DEF InsertReceipt
  <1>7. ASSUME NEW h \in Handlers, TouchReceipt(h) PROVE InOrder'
      BY <1>7 DEF TouchReceipt
  <1>8. ASSUME NEW h \in Handlers, RereadReceipt(h) PROVE InOrder'
      BY <1>8 DEF RereadReceipt, Answer
  <1>9. ASSUME NEW h \in Handlers, IgnoreEvent(h) PROVE InOrder'
      BY <1>9 DEF IgnoreEvent
  <1>10. ASSUME NEW h \in Handlers, UpsertSubscription(h) PROVE InOrder'
      BY <1>10 DEF UpsertSubscription
  <1>11. ASSUME NEW h \in Handlers, UpdatePlan(h) PROVE InOrder'
      BY <1>11 DEF UpdatePlan
  <1>12. ASSUME NEW h \in Handlers, SetEntitlements(h) PROVE InOrder'
      BY <1>12 DEF SetEntitlements
  <1>13. ASSUME NEW h \in Handlers, MarkProcessed(h) PROVE InOrder'
      BY <1>13 DEF MarkProcessed, Answer
  <1>14. ASSUME NEW h \in Handlers, ApplyFails(h) PROVE InOrder'
      BY <1>14 DEF ApplyFails
  <1>15. ASSUME NEW h \in Handlers, MarkFailed(h) PROVE InOrder'
      BY <1>15 DEF MarkFailed
  <1>16. ASSUME NEW h \in Handlers, OverrideEntitlements(h) PROVE InOrder'
      BY <1>16 DEF OverrideEntitlements
  <1>17. ASSUME NEW h \in Handlers, ReadEntitlements(h) PROVE InOrder'
      BY <1>17 DEF ReadEntitlements
  <1>18. ASSUME NEW h \in Handlers, RepairEntitlements(h) PROVE InOrder'
      BY <1>18 DEF RepairEntitlements
  <1>19. ASSUME NEW h \in Handlers, Crash(h) PROVE InOrder'
      BY <1>19 DEF Crash
  <1>20. CASE UNCHANGED vars
      BY <1>20 DEF vars
  <1> QED
      BY <1>1, <1>2, <1>3, <1>4, <1>5, <1>6, <1>7, <1>8, <1>9, <1>10, <1>11, <1>12,
         <1>13, <1>14, <1>15, <1>16, <1>17, <1>18, <1>19, <1>20
         DEF Next, Step

\* A request that runs alone keeps what it knows, and leaves a mismatch only under its
\* open receipt.
LEMMA StepPlain == IndInv /\ PlainInv /\ [Next]_vars => PlainInv'
  <1> USE EventsAssumption, PlansAssumption, FailuresAssumption
      DEF IndInv, TypeOK, Locals, Pcs, Receipts, LocalsOK, EventPcs, At, Goto, Return, Idle,
          PlainInv, OneByOne, Busy, Applying, LocalsFresh, MismatchHeld, Reconciled,
          Effective
  <1> SUFFICES ASSUME IndInv, PlainInv, [Next]_vars PROVE PlainInv'
      OBVIOUS
  <1>1. ASSUME NEW h \in Handlers, NEW e \in Events, Deliver(h, e) PROVE PlainInv'
    <2> DEFINE l == [Idle EXCEPT !.pc = "find", !.from = "stripe", !.event = e]
    <2>1. /\ proc' = [proc EXCEPT ![h] = l] /\ plain' = (plain /\ Quiet /\ l.pc # "account")
          /\ UNCHANGED <<ignored, receipt, subscription, account, entitlements>>
        BY <1>1 DEF Deliver, Begin
    <2>2. l.pc = "find"
        BY DEF Locals, Idle
    <2> HIDE DEF l
    <2>3. ASSUME plain' PROVE plain /\ \A g \in Handlers : g # h => proc'[g].pc = "idle"
      <3>1. plain /\ Quiet
          BY <2>1, <2>3
      <3> QED
          BY <2>1, <3>1 DEF Quiet
    <2>4. ASSUME plain' PROVE OneByOne' /\ MismatchHeld'
        BY <2>1, <2>3, <2>4
    <2>5. ASSUME plain' PROVE LocalsFresh'
      <3>1. proc'[h] = l
          BY <2>1
      <3> QED
          BY <2>1, <2>2, <2>3, <2>5, <3>1
    <2> QED
        BY <2>4, <2>5
  <1>2. ASSUME NEW h \in Handlers, NEW e \in Events, Reprocess(h, e) PROVE PlainInv'
    <2> DEFINE l == [Idle EXCEPT !.pc = "find", !.event = e]
    <2>1. /\ proc' = [proc EXCEPT ![h] = l] /\ plain' = (plain /\ Quiet /\ l.pc # "account")
          /\ UNCHANGED <<ignored, receipt, subscription, account, entitlements>>
        BY <1>2 DEF Reprocess, Begin
    <2>2. l.pc = "find"
        BY DEF Locals, Idle
    <2> HIDE DEF l
    <2>3. ASSUME plain' PROVE plain /\ \A g \in Handlers : g # h => proc'[g].pc = "idle"
      <3>1. plain /\ Quiet
          BY <2>1, <2>3
      <3> QED
          BY <2>1, <3>1 DEF Quiet
    <2>4. ASSUME plain' PROVE OneByOne' /\ MismatchHeld'
        BY <2>1, <2>3, <2>4
    <2>5. ASSUME plain' PROVE LocalsFresh'
      <3>1. proc'[h] = l
          BY <2>1
      <3> QED
          BY <2>1, <2>2, <2>3, <2>5, <3>1
    <2> QED
        BY <2>4, <2>5
  <1>3. ASSUME NEW h \in Handlers, Override(h) PROVE PlainInv'
      BY <1>3 DEF Override, Begin, Quiet
  <1>4. ASSUME NEW h \in Handlers, GetAccountState(h) PROVE PlainInv'
    <2> DEFINE l == [Idle EXCEPT !.pc = "read", !.plan = account]
    <2>1. /\ proc' = [proc EXCEPT ![h] = l] /\ plain' = (plain /\ Quiet /\ l.pc # "account")
          /\ UNCHANGED <<ignored, receipt, subscription, account, entitlements>>
        BY <1>4 DEF GetAccountState, Begin
    <2>2. l.pc = "read" /\ l.plan = account
        BY DEF Locals, Idle
    <2> HIDE DEF l
    <2>3. ASSUME plain' PROVE plain /\ \A g \in Handlers : g # h => proc'[g].pc = "idle"
      <3>1. plain /\ Quiet
          BY <2>1, <2>3
      <3> QED
          BY <2>1, <3>1 DEF Quiet
    <2>4. ASSUME plain' PROVE OneByOne' /\ MismatchHeld'
        BY <2>1, <2>3, <2>4
    <2>5. ASSUME plain' PROVE LocalsFresh'
      <3>1. proc'[h] = l
          BY <2>1
      <3> QED
          BY <2>1, <2>2, <2>3, <2>5, <3>1
    <2> QED
        BY <2>4, <2>5
  <1>5. ASSUME NEW h \in Handlers, FindReceipt(h) PROVE PlainInv'
      BY <1>5 DEF FindReceipt
  <1>6. ASSUME NEW h \in Handlers, InsertReceipt(h) PROVE PlainInv'
      BY <1>6 DEF InsertReceipt
  <1>7. ASSUME NEW h \in Handlers, TouchReceipt(h) PROVE PlainInv'
      BY <1>7 DEF TouchReceipt
  <1>8. ASSUME NEW h \in Handlers, RereadReceipt(h) PROVE PlainInv'
      BY <1>8 DEF RereadReceipt, Answer
  <1>9. ASSUME NEW h \in Handlers, IgnoreEvent(h) PROVE PlainInv'
      BY <1>9 DEF IgnoreEvent
  <1>10. ASSUME NEW h \in Handlers, UpsertSubscription(h) PROVE PlainInv'
      BY <1>10 DEF UpsertSubscription
  <1>11. ASSUME NEW h \in Handlers, UpdatePlan(h) PROVE PlainInv'
      BY <1>11 DEF UpdatePlan
  <1>12. ASSUME NEW h \in Handlers, SetEntitlements(h) PROVE PlainInv'
      BY <1>12 DEF SetEntitlements
  <1>13. ASSUME NEW h \in Handlers, MarkProcessed(h) PROVE PlainInv'
      BY <1>13 DEF MarkProcessed, Answer
  <1>14. ASSUME NEW h \in Handlers, ApplyFails(h) PROVE PlainInv'
      BY <1>14 DEF ApplyFails
  <1>15. ASSUME NEW h \in Handlers, MarkFailed(h) PROVE PlainInv'
      BY <1>15 DEF MarkFailed
  <1>16. ASSUME NEW h \in Handlers, OverrideEntitlements(h) PROVE PlainInv'
      BY <1>16 DEF OverrideEntitlements
  <1>17. ASSUME NEW h \in Handlers, ReadEntitlements(h) PROVE PlainInv'
      BY <1>17 DEF ReadEntitlements
  <1>18. ASSUME NEW h \in Handlers, RepairEntitlements(h) PROVE PlainInv'
      BY <1>18 DEF RepairEntitlements
  <1>19. ASSUME NEW h \in Handlers, Crash(h) PROVE PlainInv'
      BY <1>19 DEF Crash
  <1>20. CASE UNCHANGED vars
      BY <1>20 DEF vars
  <1> QED
      BY <1>1, <1>2, <1>3, <1>4, <1>5, <1>6, <1>7, <1>8, <1>9, <1>10, <1>11, <1>12,
         <1>13, <1>14, <1>15, <1>16, <1>17, <1>18, <1>19, <1>20
         DEF Next, Step

\* An event that gets its receipt becomes the latest one, when it has an effect.
LEMMA StepLatestExists == IndInv /\ InOrder /\ LatestExists /\ [Next]_vars => LatestExists'
  <1> USE EventsAssumption, PlansAssumption, FailuresAssumption
      DEF IndInv, TypeOK, Locals, Pcs, Receipts, LocalsOK, EventPcs, At, Goto, Return, Idle,
          InOrder, LatestExists, Latest, Effective
  <1> SUFFICES ASSUME IndInv, InOrder, LatestExists, [Next]_vars PROVE LatestExists'
      OBVIOUS
  <1>1. ASSUME NEW h \in Handlers, NEW e \in Events, Deliver(h, e) PROVE LatestExists'
      BY <1>1 DEF Deliver, Begin, Quiet
  <1>2. ASSUME NEW h \in Handlers, NEW e \in Events, Reprocess(h, e) PROVE LatestExists'
      BY <1>2 DEF Reprocess, Begin, Quiet
  <1>3. ASSUME NEW h \in Handlers, Override(h) PROVE LatestExists'
      BY <1>3 DEF Override, Begin, Quiet
  <1>4. ASSUME NEW h \in Handlers, GetAccountState(h) PROVE LatestExists'
      BY <1>4 DEF GetAccountState, Begin, Quiet
  <1>5. ASSUME NEW h \in Handlers, FindReceipt(h) PROVE LatestExists'
      BY <1>5 DEF FindReceipt
  <1>6. ASSUME NEW h \in Handlers, InsertReceipt(h) PROVE LatestExists'
      BY <1>6 DEF InsertReceipt
  <1>7. ASSUME NEW h \in Handlers, TouchReceipt(h) PROVE LatestExists'
      BY <1>7 DEF TouchReceipt
  <1>8. ASSUME NEW h \in Handlers, RereadReceipt(h) PROVE LatestExists'
      BY <1>8 DEF RereadReceipt, Answer
  <1>9. ASSUME NEW h \in Handlers, IgnoreEvent(h) PROVE LatestExists'
      BY <1>9 DEF IgnoreEvent
  <1>10. ASSUME NEW h \in Handlers, UpsertSubscription(h) PROVE LatestExists'
      BY <1>10 DEF UpsertSubscription
  <1>11. ASSUME NEW h \in Handlers, UpdatePlan(h) PROVE LatestExists'
      BY <1>11 DEF UpdatePlan
  <1>12. ASSUME NEW h \in Handlers, SetEntitlements(h) PROVE LatestExists'
      BY <1>12 DEF SetEntitlements
  <1>13. ASSUME NEW h \in Handlers, MarkProcessed(h) PROVE LatestExists'
      BY <1>13 DEF MarkProcessed, Answer
  <1>14. ASSUME NEW h \in Handlers, ApplyFails(h) PROVE LatestExists'
      BY <1>14 DEF ApplyFails
  <1>15. ASSUME NEW h \in Handlers, MarkFailed(h) PROVE LatestExists'
      BY <1>15 DEF MarkFailed
  <1>16. ASSUME NEW h \in Handlers, OverrideEntitlements(h) PROVE LatestExists'
      BY <1>16 DEF OverrideEntitlements
  <1>17. ASSUME NEW h \in Handlers, ReadEntitlements(h) PROVE LatestExists'
      BY <1>17 DEF ReadEntitlements
  <1>18. ASSUME NEW h \in Handlers, RepairEntitlements(h) PROVE LatestExists'
      BY <1>18 DEF RepairEntitlements
  <1>19. ASSUME NEW h \in Handlers, Crash(h) PROVE LatestExists'
      BY <1>19 DEF Crash
  <1>20. CASE UNCHANGED vars
      BY <1>20 DEF vars
  <1> QED
      BY <1>1, <1>2, <1>3, <1>4, <1>5, <1>6, <1>7, <1>8, <1>9, <1>10, <1>11, <1>12,
         <1>13, <1>14, <1>15, <1>16, <1>17, <1>18, <1>19, <1>20
         DEF Next, Step

\* Without failures only the latest event is ever applied: an older one has a receipt
\* that is closed, and its duplicates are answered at once.
LEMMA StepLatest == IndInv /\ InOrder /\ PlainInv /\ LatestInv /\ [Next]_vars => LatestInv'
  <1> USE EventsAssumption, PlansAssumption, FailuresAssumption
      DEF IndInv, TypeOK, Locals, Pcs, Receipts, LocalsOK, EventPcs, At, Goto, Return, Idle,
          InOrder, PlainInv, OneByOne, Busy, Applying, LocalsFresh, LatestInv,
          OpenIsLatest, LatestWritten, Latest, Effective
  <1> SUFFICES ASSUME IndInv, InOrder, PlainInv, LatestInv, [Next]_vars PROVE LatestInv'
      OBVIOUS
  <1>1. ASSUME NEW h \in Handlers, NEW e \in Events, Deliver(h, e) PROVE LatestInv'
      BY <1>1 DEF Deliver, Begin, Quiet
  <1>2. ASSUME NEW h \in Handlers, NEW e \in Events, Reprocess(h, e) PROVE LatestInv'
      BY <1>2 DEF Reprocess, Begin, Quiet
  <1>3. ASSUME NEW h \in Handlers, Override(h) PROVE LatestInv'
      BY <1>3 DEF Override, Begin, Quiet
  <1>4. ASSUME NEW h \in Handlers, GetAccountState(h) PROVE LatestInv'
      BY <1>4 DEF GetAccountState, Begin, Quiet
  <1>5. ASSUME NEW h \in Handlers, FindReceipt(h) PROVE LatestInv'
      BY <1>5 DEF FindReceipt
  <1>6. ASSUME NEW h \in Handlers, InsertReceipt(h) PROVE LatestInv'
    <2> DEFINE e == proc[h].event
    <2> SUFFICES ASSUME plain, failures = 0 PROVE (OpenIsLatest /\ LatestWritten)'
        BY <1>6 DEF InsertReceipt
    <2>1. /\ e \in Events /\ receipt[e] = "none"
          /\ receipt' = [receipt EXCEPT ![e] = "received"]
          /\ proc' = [proc EXCEPT ![h].pc = "apply"]
          /\ UNCHANGED <<ignored, account>>
        BY <1>6 DEF InsertReceipt
    <2>2. \A g \in Handlers : g # h => proc[g].pc = "idle"
        BY <1>6 DEF InsertReceipt
    <2>3. ASSUME NEW f \in Events, receipt[f] # "none" PROVE f < e
      <3>1. f \in Nat /\ e \in Nat /\ f # e /\ ~(e < f)
          BY <2>1, <2>3
      <3> HIDE DEF e
      <3> QED
          BY <3>1
    <2>4. OpenIsLatest'
        BY <2>1, <2>2, <2>3
    <2>5. ASSUME NEW m \in Events, Latest(m)', m # e PROVE account = PlanOf[m]
      <3>1. e \notin Effective /\ Latest(m)
          BY <2>1, <2>3, <2>5
      <3> QED
          BY <2>2, <3>1, <1>6 DEF InsertReceipt
    <2>6. proc'[h].event = e /\ proc'[h].pc = "apply"
        BY <2>1
    <2> QED
        BY <2>1, <2>4, <2>5, <2>6
  <1>7. ASSUME NEW h \in Handlers, TouchReceipt(h) PROVE LatestInv'
      BY <1>7 DEF TouchReceipt
  <1>8. ASSUME NEW h \in Handlers, RereadReceipt(h) PROVE LatestInv'
      BY <1>8 DEF RereadReceipt, Answer
  <1>9. ASSUME NEW h \in Handlers, IgnoreEvent(h) PROVE LatestInv'
      BY <1>9 DEF IgnoreEvent
  <1>10. ASSUME NEW h \in Handlers, UpsertSubscription(h) PROVE LatestInv'
      BY SMTT(30), <1>10 DEF UpsertSubscription
  <1>11. ASSUME NEW h \in Handlers, UpdatePlan(h) PROVE LatestInv'
      BY <1>11 DEF UpdatePlan
  <1>12. ASSUME NEW h \in Handlers, SetEntitlements(h) PROVE LatestInv'
      BY <1>12 DEF SetEntitlements
  <1>13. ASSUME NEW h \in Handlers, MarkProcessed(h) PROVE LatestInv'
      BY <1>13 DEF MarkProcessed, Answer
  <1>14. ASSUME NEW h \in Handlers, ApplyFails(h) PROVE LatestInv'
      BY <1>14 DEF ApplyFails
  <1>15. ASSUME NEW h \in Handlers, MarkFailed(h) PROVE LatestInv'
      BY <1>15 DEF MarkFailed
  <1>16. ASSUME NEW h \in Handlers, OverrideEntitlements(h) PROVE LatestInv'
      BY <1>16 DEF OverrideEntitlements
  <1>17. ASSUME NEW h \in Handlers, ReadEntitlements(h) PROVE LatestInv'
      BY <1>17 DEF ReadEntitlements
  <1>18. ASSUME NEW h \in Handlers, RepairEntitlements(h) PROVE LatestInv'
      BY <1>18 DEF RepairEntitlements
  <1>19. ASSUME NEW h \in Handlers, Crash(h) PROVE LatestInv'
      BY <1>19 DEF Crash
  <1>20. CASE UNCHANGED vars
      BY <1>20 DEF vars
  <1> QED
      BY <1>1, <1>2, <1>3, <1>4, <1>5, <1>6, <1>7, <1>8, <1>9, <1>10, <1>11, <1>12,
         <1>13, <1>14, <1>15, <1>16, <1>17, <1>18, <1>19, <1>20
         DEF Next, Step

\* Initially no event has a receipt, and every row is on the first plan.
LEMMA InitOneByOne == Init => InOrder /\ PlainInv /\ LatestExists /\ LatestInv
  BY EventsAssumption DEF Init, Idle, InOrder, PlainInv, OneByOne, Busy, LocalsFresh, Applying,
     MismatchHeld, Reconciled, Latest, LatestExists, LatestInv, OpenIsLatest,
     LatestWritten, Effective

OneByOneInv == IndInv /\ InOrder /\ PlainInv /\ LatestExists /\ LatestInv

\* The receipts stay in order, and what a lone request knows stays true.
LEMMA OneByOneInvariance == Spec => []OneByOneInv
  <1>1. Init => OneByOneInv
      BY InitIndInv, InitOneByOne DEF OneByOneInv
  <1>2. OneByOneInv /\ [Next]_vars => OneByOneInv'
      BY StepIndInv, StepInOrder, StepPlain, StepLatestExists, StepLatest DEF OneByOneInv
  <1> QED
      BY <1>1, <1>2, PTL DEF Spec

\* When the requests came one by one, an account or entitlements that are not on the
\* plan of the subscription show as a receipt that is not processed.
THEOREM MismatchesShow == Spec => []MismatchIsVisible
  <1>1. OneByOneInv => MismatchIsVisible
      BY DEF OneByOneInv, PlainInv, MismatchHeld, MismatchIsVisible, Effective
  <1> QED
      BY OneByOneInvariance, <1>1, PTL

\* When moreover nothing failed and every event is processed, the account has the plan of
\* the latest event: no duplicate, and no reprocessed receipt, brought an older one back.
THEOREM LatestWins == Spec => []LatestEventWins
  <1>1. ASSUME OneByOneInv, failures = 0, Quiet, plain, Processed, Effective # {}
        PROVE  account = LatestPlan
    <2>1. PICK m \in Events : Latest(m)
        BY <1>1 DEF OneByOneInv, LatestExists, Processed, Effective
    <2>2. account = PlanOf[m]
        BY <1>1, <2>1 DEF OneByOneInv, LatestInv, LatestWritten, Quiet
    <2>3. m \in Effective /\ \A f \in Effective : f <= m
        BY <1>1, <2>1 DEF Latest, Processed, Effective
    <2> DEFINE top == CHOOSE e \in Effective : \A f \in Effective : f <= e
    <2>4. top \in Effective /\ \A f \in Effective : f <= top
        BY <2>3
    <2>5. top = m
      <3>1. top <= m /\ m <= top /\ top \in Nat /\ m \in Nat
          BY <2>3, <2>4, EventsAssumption DEF Effective
      <3> QED
          BY <3>1
    <2> QED
        BY <2>2, <2>5 DEF LatestPlan
  <1>2. OneByOneInv => LatestEventWins
      BY <1>1 DEF LatestEventWins, ReplaySafe
  <1> QED
      BY OneByOneInvariance, <1>2, PTL
=============================================================================

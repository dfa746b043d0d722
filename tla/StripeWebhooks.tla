---------------------------- MODULE StripeWebhooks ----------------------------
(***************************************************************************)
(* Billing: the receipts of Stripe events (webhook_events) and the rows    *)
(* they reconcile (subscriptions, accounts, entitlement_snapshots), for    *)
(* one account.  The requests are the deliveries of Stripe, the            *)
(* reprocessing of a receipt and the plan override of the admin console,   *)
(* and getAccountState, which repairs the entitlements before a gate uses  *)
(* them.  Every SQL statement is a step: that is Postgres; on SQLite the   *)
(* statements of one repository call are a single step of these.           *)
(*                                                                         *)
(* Abstractions.                                                           *)
(*  - A plan stands for the plan and the status that an event carries.     *)
(*  - attempt_count, summaries and timestamps are left out: nothing in the *)
(*    code reads them.                                                     *)
(*  - The account exists and its owner is not an admin.                    *)
(***************************************************************************)
EXTENDS Naturals, FiniteSets

CONSTANTS
    Events,         \* Stripe events, numbered in the order Stripe made them
    Handlers,       \* requests in flight
    Plans,          \* plans, the first one included
    FirstPlan,      \* the plan of a new account
    OverridePlan,   \* the plan an admin may set
    PlanOf,         \* the plan an event carries
    Ignorable,      \* the sets of events that may be without effect
    NoEvent,        \* the local of a request that is about no event
    MaxFailures     \* bound: calls that throw and processes that die

ASSUME EventsAssumption == 
    Events \subseteq Nat /\ Ignorable \subseteq SUBSET Events /\ NoEvent \notin Events
ASSUME PlansAssumption ==
    FirstPlan \in Plans /\ OverridePlan \in Plans /\ PlanOf \in [Events -> Plans]
ASSUME FailuresAssumption == MaxFailures \in Nat

VARIABLES
    ignored,        \* events of another type, or without account or customer
    receipt,        \* the table webhook_events
    subscription,   \* the plan of the row in subscriptions
    account,        \* the plan of the row in accounts
    entitlements,   \* the plan of the row in entitlement_snapshots
    acknowledged,   \* the events that Stripe got a 2xx for
    proc,           \* locals of the requests
    applied,        \* history: the events whose effect was written entirely
    plain,          \* history: requests came one by one, and no admin set the plan
    failures        \* number of failures so far

vars == <<ignored, receipt, subscription, account, entitlements, acknowledged,
          proc, applied, plain, failures>>

Receipts == {"none", "received", "processed", "failed"}

Pcs == {"idle", "find", "insert", "touch", "reread", "apply", "account",
        "entitlements", "processed", "failed", "override", "read", "repair"}

\* from: who waits for the answer.  seen: the receipt that was read.
Locals == [pc : Pcs,
           from : {"stripe", "admin"},
           event : Events \cup {NoEvent},
           seen : Receipts,
           plan : Plans]

Idle == [pc |-> "idle", from |-> "admin", event |-> NoEvent,
         seen |-> "none", plan |-> FirstPlan]

Init ==
    /\ ignored \in Ignorable
    /\ receipt = [e \in Events |-> "none"]
    /\ subscription = FirstPlan
    /\ account = FirstPlan
    /\ entitlements = FirstPlan
    /\ acknowledged = {}
    /\ proc = [h \in Handlers |-> Idle]
    /\ applied = {}
    /\ plain = TRUE
    /\ failures = 0

Quiet == \A h \in Handlers : proc[h].pc = "idle"

At(h, pc) == proc[h].pc = pc
Goto(h, pc) == proc' = [proc EXCEPT ![h].pc = pc]
Return(h) == proc' = [proc EXCEPT ![h] = Idle]

\* A request begins with the given locals.
Begin(h, locals) ==
    /\ At(h, "idle")
    /\ proc' = [proc EXCEPT ![h] = locals]
    /\ plain' = (plain /\ Quiet /\ locals.pc # "account")

(***************************************************************************)
(* The receipt.                                                            *)
(***************************************************************************)

\* POST /api/webhooks/stripe.  Stripe sends an event any number of times, for
\* the first time after the events before it (an assumption in favour of the code).
Deliver(h, e) ==
    /\ \A f \in Events : f < e => receipt[f] # "none"
    /\ Begin(h, [Idle EXCEPT !.pc = "find", !.from = "stripe", !.event = e])
    /\ UNCHANGED <<ignored, receipt, subscription, account, entitlements, acknowledged,
                   applied, failures>>

\* reprocessAdminWebhook: the stored payload is applied like a delivery.
Reprocess(h, e) ==
    /\ receipt[e] # "none"
    /\ Begin(h, [Idle EXCEPT !.pc = "find", !.event = e])
    /\ UNCHANGED <<ignored, receipt, subscription, account, entitlements, acknowledged,
                   applied, failures>>

FindReceipt(h) ==
    /\ At(h, "find")
    /\ LET seen == receipt[proc[h].event]
       IN  proc' = [proc EXCEPT ![h].seen = seen,
                                ![h].pc = IF seen = "none" THEN "insert" ELSE "touch"]
    /\ UNCHANGED <<ignored, receipt, subscription, account, entitlements, acknowledged,
                   applied, plain, failures>>

\* provider_event_id is unique: the slower of two first deliveries throws.
InsertReceipt(h) ==
    /\ At(h, "insert")
    /\ IF receipt[proc[h].event] = "none"
       THEN /\ receipt' = [receipt EXCEPT ![proc[h].event] = "received"]
            /\ Goto(h, "apply")
       ELSE /\ Return(h)
            /\ UNCHANGED receipt
    /\ UNCHANGED <<ignored, subscription, account, entitlements, acknowledged,
                   applied, plain, failures>>

\* Mutant: the status of the receipt is not looked at.
TouchReceiptBlindly(h) ==
    /\ At(h, "touch")
    /\ receipt' = [receipt EXCEPT ![proc[h].event] = "received"]
    /\ Goto(h, "reread")
    /\ UNCHANGED <<ignored, subscription, account, entitlements, acknowledged,
                   applied, plain, failures>>
\* The status is decided from the copy that was read.
TouchReceipt(h) ==
    /\ At(h, "touch")
    /\ receipt' = [receipt EXCEPT ![proc[h].event] =
                      IF proc[h].seen = "processed" THEN "processed" ELSE "received"]
    /\ Goto(h, "reread")
    /\ UNCHANGED <<ignored, subscription, account, entitlements, acknowledged,
                   applied, plain, failures>>

\* The answer of a request that ends without an exception.
Answer(h) ==
    acknowledged' = IF proc[h].from = "stripe" THEN acknowledged \cup {proc[h].event}
                    ELSE acknowledged

\* Mutant: a receipt that another request is working on counts as a duplicate.
RereadReceiptReceived(h) ==
    /\ At(h, "reread")
    /\ IF receipt[proc[h].event] \in {"received", "processed"}
       THEN Answer(h) /\ Return(h)
       ELSE Goto(h, "apply") /\ UNCHANGED acknowledged
    /\ UNCHANGED <<ignored, receipt, subscription, account, entitlements,
                   applied, plain, failures>>
RereadReceipt(h) ==
    /\ At(h, "reread")
    /\ IF receipt[proc[h].event] = "processed"
       THEN Answer(h) /\ Return(h)
       ELSE Goto(h, "apply") /\ UNCHANGED acknowledged
    /\ UNCHANGED <<ignored, receipt, subscription, account, entitlements,
                   applied, plain, failures>>

(***************************************************************************)
(* The effect of an event: applyEvent and applySubscription.               *)
(***************************************************************************)

IgnoreEvent(h) ==
    /\ At(h, "apply")
    /\ proc[h].event \in ignored
    /\ applied' = applied \cup {proc[h].event}
    /\ Goto(h, "processed")
    /\ UNCHANGED <<ignored, receipt, subscription, account, entitlements, acknowledged,
                   plain, failures>>

UpsertSubscription(h) ==
    /\ At(h, "apply")
    /\ proc[h].event \notin ignored
    /\ subscription' = PlanOf[proc[h].event]
    /\ proc' = [proc EXCEPT ![h].pc = "account", ![h].plan = PlanOf[proc[h].event]]
    /\ UNCHANGED <<ignored, receipt, account, entitlements, acknowledged,
                   applied, plain, failures>>

\* updatePlan: the account, then its entitlements.
UpdatePlan(h) ==
    /\ At(h, "account")
    /\ account' = proc[h].plan
    /\ Goto(h, "entitlements")
    /\ UNCHANGED <<ignored, receipt, subscription, entitlements, acknowledged,
                   applied, plain, failures>>

SetEntitlements(h) ==
    /\ At(h, "entitlements")
    /\ entitlements' = proc[h].plan
    /\ IF proc[h].event \in Events
       THEN Goto(h, "processed") /\ applied' = applied \cup {proc[h].event}
       ELSE Goto(h, "override") /\ UNCHANGED applied
    /\ UNCHANGED <<ignored, receipt, subscription, account, acknowledged,
                   plain, failures>>

MarkProcessed(h) ==
    /\ At(h, "processed")
    /\ receipt' = [receipt EXCEPT ![proc[h].event] = "processed"]
    /\ Answer(h)
    /\ Return(h)
    /\ UNCHANGED <<ignored, subscription, account, entitlements,
                   applied, plain, failures>>

\* Any call of the try block throws.
ApplyFails(h) ==
    /\ proc[h].pc \in {"apply", "account", "entitlements", "processed"}
    /\ proc[h].event \in Events
    /\ failures < MaxFailures
    /\ failures' = failures + 1
    /\ Goto(h, "failed")
    /\ UNCHANGED <<ignored, receipt, subscription, account, entitlements, acknowledged,
                   applied, plain>>

\* Mutant: the receipt of a failed event is closed, and Stripe is answered.
MarkFailedQuietly(h) ==
    /\ At(h, "failed")
    /\ receipt' = [receipt EXCEPT ![proc[h].event] = "processed"]
    /\ Answer(h)
    /\ Return(h)
    /\ UNCHANGED <<ignored, subscription, account, entitlements,
                   applied, plain, failures>>
\* Mutant: the receipt gets a status of its own while Stripe sends again.
MarkFailedRetrying(h) ==
    /\ At(h, "failed")
    /\ receipt' = [receipt EXCEPT ![proc[h].event] = "retrying"]
    /\ Return(h)
    /\ UNCHANGED <<ignored, subscription, account, entitlements, acknowledged,
                   applied, plain, failures>>
\* The error is thrown on: Stripe gets a 400 and will send the event again.
MarkFailed(h) ==
    /\ At(h, "failed")
    /\ receipt' = [receipt EXCEPT ![proc[h].event] = "failed"]
    /\ Return(h)
    /\ UNCHANGED <<ignored, subscription, account, entitlements, acknowledged,
                   applied, plain, failures>>

(***************************************************************************)
(* The other requests.                                                     *)
(***************************************************************************)

\* applyAdminPlanOverride: updatePlan, then the entitlements once more.
Override(h) ==
    /\ Begin(h, [Idle EXCEPT !.pc = "account", !.plan = OverridePlan])
    /\ UNCHANGED <<ignored, receipt, subscription, account, entitlements, acknowledged,
                   applied, failures>>

OverrideEntitlements(h) ==
    /\ At(h, "override")
    /\ entitlements' = proc[h].plan
    /\ Return(h)
    /\ UNCHANGED <<ignored, receipt, subscription, account, acknowledged,
                   applied, plain, failures>>

\* getAccountState: the plan of the account, then its entitlements, which are
\* set when they are not those of the plan.
GetAccountState(h) ==
    /\ Begin(h, [Idle EXCEPT !.pc = "read", !.plan = account])
    /\ UNCHANGED <<ignored, receipt, subscription, account, entitlements, acknowledged,
                   applied, failures>>

ReadEntitlements(h) ==
    /\ At(h, "read")
    /\ IF entitlements = proc[h].plan THEN Return(h) ELSE Goto(h, "repair")
    /\ UNCHANGED <<ignored, receipt, subscription, account, entitlements, acknowledged,
                   applied, plain, failures>>

RepairEntitlements(h) ==
    /\ At(h, "repair")
    /\ entitlements' = proc[h].plan
    /\ Return(h)
    /\ UNCHANGED <<ignored, receipt, subscription, account, acknowledged,
                   applied, plain, failures>>

\* The process dies, or a call outside the try block throws: no answer.
Crash(h) ==
    /\ ~At(h, "idle")
    /\ failures < MaxFailures
    /\ failures' = failures + 1
    /\ Return(h)
    /\ UNCHANGED <<ignored, receipt, subscription, account, entitlements, acknowledged,
                   applied, plain>>

-----------------------------------------------------------------------------

Step(h) ==
    \/ FindReceipt(h)
    \/ InsertReceipt(h)
    \/ TouchReceipt(h)
    \/ RereadReceipt(h)
    \/ IgnoreEvent(h)
    \/ UpsertSubscription(h)
    \/ UpdatePlan(h)
    \/ SetEntitlements(h)
    \/ MarkProcessed(h)
    \/ MarkFailed(h)
    \/ OverrideEntitlements(h)
    \/ ReadEntitlements(h)
    \/ RepairEntitlements(h)

Next ==
    \E h \in Handlers :
        \/ \E e \in Events : Deliver(h, e) \/ Reprocess(h, e)
        \/ Override(h)
        \/ GetAccountState(h)
        \/ Step(h)
        \/ ApplyFails(h)
        \/ Crash(h)

Spec == Init /\ [][Next]_vars

\* A request that runs goes on, and Stripe sends an event again until it gets a
\* 2xx.  Nothing obliges anybody to reprocess, to override or to read.
Fairness ==
    /\ \A h \in Handlers : WF_vars(Step(h))
    /\ \A e \in Events :
          SF_vars(e \notin acknowledged /\ \E h \in Handlers : Deliver(h, e))

FairSpec == Spec /\ Fairness

-----------------------------------------------------------------------------
(***************************************************************************)
(* Properties.                                                             *)
(***************************************************************************)

\* Receipts, plans and the locals of the requests keep their types: no receipt gets a
\* status that the handlers do not know.
TypeOK ==
    /\ ignored \in Ignorable
    /\ receipt \in [Events -> Receipts]
    /\ {subscription, account, entitlements} \subseteq Plans
    /\ acknowledged \subseteq Events
    /\ proc \in [Handlers -> Locals]
    /\ applied \subseteq Events
    /\ plain \in BOOLEAN
    /\ failures \in 0..MaxFailures

\* An event that Stripe will not send again, or that the console shows as
\* processed, has been written to the subscription, the account and the
\* entitlements, however its deliveries overlapped, failed or died.
NoEventLost ==
    \A e \in Events : e \in acknowledged \/ receipt[e] = "processed" => e \in applied

Processed == \A e \in Events : receipt[e] = "processed"

Reconciled == subscription = account /\ account = entitlements

\* When the requests came one by one and none is running, an account or entitlements
\* that are not on the plan of the subscription show in the console as a receipt that
\* is not processed.  (Requests that overlap can mix their writes.)
MismatchIsVisible ==
    Quiet /\ plain /\ (\A e \in Events : receipt[e] \in {"none", "processed"})
        => Reconciled

Effective == Events \ ignored
LatestPlan == PlanOf[CHOOSE e \in Effective : \A f \in Effective : f <= e]

\* docs/phase7a-durability-and-queues.md:58, "This guarantees replay-safe
\* subscription/account reconciliation": once every event is processed the account
\* has the plan of the latest one.
ReplaySafe ==
    Quiet /\ plain /\ Processed /\ Effective # {} => account = LatestPlan

\* That holds when nothing failed: a duplicate delivery or a reprocessed receipt
\* of an older event does not bring an older plan back.
LatestEventWins == failures = 0 => ReplaySafe

\* Every event takes effect, although any delivery may fail or die.
EventsTakeEffect == \A e \in Events : <>(e \in applied)
=============================================================================

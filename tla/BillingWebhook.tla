--------------------------- MODULE BillingWebhook ---------------------------
(***************************************************************************)
(* Stripe's webhook deliveries for one workspace, and the subscription row *)
(* they keep up to date (billing_service.py).  Stripe delivers an event at *)
(* least once, in any order, to any API replica.  A delivery is handled in *)
(* two transactions: one records the event's id, the next applies it.      *)
(*                                                                         *)
(* stripe_webhook is an async route without an await after the body, so a  *)
(* replica handles one delivery at a time: Handler is the set of replicas. *)
(* A delivery of a recorded event, answered "skipped", changes nothing and *)
(* has no action.                                                          *)
(***************************************************************************)
EXTENDS Naturals, Sequences

CONSTANTS
  Subscription,  \* Stripe subscriptions of the workspace's customer
  Plan,          \* rows of billing_plans
  Handler,       \* API replicas
  None,          \* NULL, and a price that no billing plan has
  MaxEvents,     \* bound of the model: events Stripe issues
  MaxFailures    \* bound of the model: deliveries that die half-way

ASSUME NoneAssumption == None \notin Subscription \cup Plan \cup Handler

ASSUME BoundAssumption == MaxEvents \in Nat /\ MaxFailures \in Nat

VARIABLES
  truth,     \* Stripe's own status of each subscription
  issued,    \* the events Stripe has issued; their index is their id
  recorded,  \* ids in billing_webhook_events
  row,       \* the workspace's organization_subscriptions row
  pc,        \* per replica: where its delivery is
  item,      \* per replica: the event it handles, 0 for none
  loaded,    \* per replica: the row as its session loaded it
  applied,   \* how often each event's changes were committed (history)
  inStep,    \* so far they were applied one by one and in order (history)
  failures   \* deliveries that died half-way so far

stripe == <<truth, issued>>
vars == <<stripe, recorded, row, pc, item, loaded, applied, inStep, failures>>

EventId == 1 .. MaxEvents
Status == {"active", "past_due", "canceled"}
Event == [kind : {"checkout", "subscription", "deleted", "other"},
          sub : Subscription, status : Status, plan : Plan \cup {None}]
SubscriptionRow == [customer : BOOLEAN, sub : Subscription \cup {None},
                    status : Status \cup {"trial"}, plan : Plan \cup {None}]
Phases == {"idle", "received", "recorded", "loaded"}

TypeOK ==
  /\ truth \in [Subscription -> Status \cup {"none"}]
  /\ issued \in Seq(Event) /\ Len(issued) <= MaxEvents
  /\ recorded \subseteq DOMAIN issued
  /\ row \in SubscriptionRow
  /\ pc \in [Handler -> Phases]
  /\ item \in [Handler -> EventId \cup {0}]
  /\ loaded \in [Handler -> SubscriptionRow]
  /\ applied \in [EventId -> Nat]
  /\ inStep \in BOOLEAN
  /\ failures \in 0 .. MaxFailures

\* ensure_trial_subscription made the row when the workspace registered.
TrialRow == [customer |-> FALSE, sub |-> None, status |-> "trial", plan |-> None]

Init ==
  /\ truth = [s \in Subscription |-> "none"]
  /\ issued = <<>>
  /\ recorded = {}
  /\ row = TrialRow
  /\ pc = [h \in Handler |-> "idle"]
  /\ item = [h \in Handler |-> 0]
  /\ loaded = [h \in Handler |-> TrialRow]
  /\ applied = [e \in EventId |-> 0]
  /\ inStep = TRUE
  /\ failures = 0

-----------------------------------------------------------------------------
(* Stripe (external): a workspace subscribes through Checkout, its         *)
(* subscription changes status or price, and ends.                         *)

Issue(kind, s, status, plan) ==
  /\ Len(issued) < MaxEvents
  /\ issued' = Append(issued, [kind |-> kind, sub |-> s, status |-> status, plan |-> plan])
  /\ truth' = [truth EXCEPT ![s] = status]
  /\ UNCHANGED <<recorded, row, pc, item, loaded, applied, inStep, failures>>

Alive(s) == truth[s] \in {"active", "past_due"}

CheckedOut(s) ==
  \E i \in DOMAIN issued : issued[i].kind = "checkout" /\ issued[i].sub = s

\* One subscription at a time.
Subscribe(s, plan) ==
  /\ \A x \in Subscription : ~Alive(x)
  /\ truth[s] = "none"
  /\ Issue("subscription", s, "active", plan)

CompleteCheckout(s) ==
  /\ truth[s] = "active"
  /\ ~CheckedOut(s)
  /\ Issue("checkout", s, "active", None)

ChangeSubscription(s, status, plan) ==
  /\ Alive(s)
  /\ status # "canceled"
  /\ Issue("subscription", s, status, plan)

EndSubscription(s) ==
  /\ Alive(s)
  /\ Issue("deleted", s, "canceled", None)

\* An invoice event, say: not in the webhook's scope.
IssueOther(s) ==
  /\ Alive(s)
  /\ Issue("other", s, truth[s], None)

-----------------------------------------------------------------------------
(* process_webhook and _apply_subscription_event.                          *)

\* The event is not in the table yet.
Receive(h, e) ==
  /\ pc[h] = "idle"
  /\ e \in DOMAIN issued \ recorded
  /\ pc' = [pc EXCEPT ![h] = "received"]
  /\ item' = [item EXCEPT ![h] = e]
  /\ UNCHANGED <<stripe, recorded, row, loaded, applied, inStep, failures>>

\* A plausible bug: the table has no unique constraint.
MayRecord_NoUniqueConstraint(e) == TRUE

\* The unique constraint on stripe_event_id accepts the row.
MayRecord(e) == e \notin recorded

Record(h) ==
  /\ pc[h] = "received"
  /\ MayRecord(item[h])
  /\ recorded' = recorded \cup {item[h]}
  /\ pc' = [pc EXCEPT ![h] = "recorded"]
  /\ UNCHANGED <<stripe, row, item, loaded, applied, inStep, failures>>

\* The request ends, its session with it.
Close(h) ==
  /\ pc' = [pc EXCEPT ![h] = "idle"]
  /\ item' = [item EXCEPT ![h] = 0]
  /\ loaded' = [loaded EXCEPT ![h] = TrialRow]

\* IntegrityError: another delivery recorded it; answered "skipped".
SkipConcurrent(h) ==
  /\ pc[h] = "received"
  /\ ~MayRecord(item[h])
  /\ Close(h)
  /\ UNCHANGED <<stripe, recorded, row, applied, inStep, failures>>

Load(h) ==
  /\ pc[h] = "recorded"
  /\ loaded' = [loaded EXCEPT ![h] = row]
  /\ pc' = [pc EXCEPT ![h] = "loaded"]
  /\ inStep' = (inStep /\ \A g \in Handler : pc[g] # "loaded")
  /\ UNCHANGED <<stripe, recorded, row, item, applied, failures>>

\* A plausible bug: only rows that know the subscription are found.
Finds_BySubscriptionOnly(r, event) == r.sub = event.sub

\* The row is found by the event's subscription, else by its customer.
Finds(r, event) == r.sub = event.sub \/ r.customer

Updated(r, event) ==
  IF event.kind = "checkout"
    THEN [r EXCEPT !.customer = TRUE, !.sub = event.sub, !.status = "active"]
  ELSE IF event.kind \in {"subscription", "deleted"} /\ Finds(r, event)
    THEN [r EXCEPT !.sub = event.sub, !.status = event.status,
                   !.plan = IF event.plan = None THEN @ ELSE event.plan]
  ELSE r

\* The second commit writes the columns whose value the session changed.
Save(h) ==
  LET e == item[h]
      new == Updated(loaded[h], issued[e])
  IN  /\ pc[h] = "loaded"
      /\ row' = [f \in DOMAIN row |-> IF new[f] # loaded[h][f] THEN new[f] ELSE row[f]]
      /\ applied' = [applied EXCEPT ![e] = @ + 1]
      /\ inStep' = (inStep /\ \A i \in 1 .. e - 1 : applied[i] = 1)
      /\ Close(h)
      /\ UNCHANGED <<stripe, recorded, failures>>

\* The process dies or the database refuses a commit: Stripe gets no 2xx.
Fail(h) ==
  /\ pc[h] # "idle"
  /\ failures < MaxFailures
  /\ failures' = failures + 1
  /\ Close(h)
  /\ UNCHANGED <<stripe, recorded, row, applied, inStep>>

-----------------------------------------------------------------------------
StripeStep(s) ==
  \/ \E plan \in Plan \cup {None} : Subscribe(s, plan)
  \/ CompleteCheckout(s)
  \/ \E status \in Status, plan \in Plan \cup {None} : ChangeSubscription(s, status, plan)
  \/ EndSubscription(s)
  \/ IssueOther(s)

Next ==
  \/ \E s \in Subscription : StripeStep(s)
  \/ \E h \in Handler, e \in EventId : Receive(h, e)
  \/ \E h \in Handler :
       Record(h) \/ SkipConcurrent(h) \/ Load(h) \/ Save(h) \/ Fail(h)

Spec == Init /\ [][Next]_vars

-----------------------------------------------------------------------------
\* Past the INSERT a delivery is alone with its event, which is recorded
\* and not yet applied.
OneApplier ==
  /\ \A h \in Handler :
       pc[h] \in {"recorded", "loaded"} =>
         item[h] \in recorded /\ applied[item[h]] = 0
  /\ \A h, g \in Handler :
       /\ pc[h] \in {"recorded", "loaded"} /\ pc[g] \in {"recorded", "loaded"}
       /\ item[h] = item[g]
       => h = g

\* An event is applied at most once, however often it is delivered, because
\* its id is recorded by one delivery only.
OnceInv ==
  /\ TypeOK
  /\ OneApplier
  /\ \A h \in Handler : pc[h] # "idle" => item[h] \in DOMAIN issued
  /\ \A e \in EventId : applied[e] <= 1 /\ (applied[e] = 1 => e \in recorded)

\* Stripe knows at most one subscription alive, its last event's, as that
\* event left it; an event out of scope repeats what the one before said.
StripeIsOrderly ==
  /\ issued = <<>> => \A s \in Subscription : ~Alive(s)
  /\ issued # <<>> =>
       LET last == issued[Len(issued)]
       IN  /\ truth[last.sub] = last.status
           /\ \A s \in Subscription \ {last.sub} : ~Alive(s)
  /\ \A i \in DOMAIN issued :
       /\ issued[i].kind = "checkout" => issued[i].status = "active"
       /\ issued[i].kind = "other" =>
            /\ i > 1
            /\ issued[i - 1].sub = issued[i].sub
            /\ issued[i - 1].status = issued[i].status

\* One session at most has loaded the row, and what it loaded is current.
SessionIsCurrent ==
  \A h \in Handler :
    pc[h] = "loaded" => loaded[h] = row /\ \A g \in Handler : pc[g] = "loaded" => g = h

\* A row linked to its customer says what the last event applied says.
RowFollowsEvents ==
  /\ \A e \in EventId : applied[e] = 1 => \A i \in 1 .. e - 1 : applied[i] = 1
  /\ (\A e \in EventId : applied[e] = 0) => ~row.customer
  /\ \A e \in EventId :
       applied[e] = 1 /\ row.customer /\ (\A i \in EventId : i > e => applied[i] = 0)
       => row.sub = issued[e].sub /\ row.status = issued[e].status

\* The inductive invariant: the row follows the events for as long as they
\* are applied one by one and in order.
IndInv ==
  /\ OnceInv
  /\ StripeIsOrderly
  /\ inStep => SessionIsCurrent /\ RowFollowsEvents

\* The table and the handler implement the one-shot promise: recording the
\* event's id is the claim, the second commit is the effect.
Once == INSTANCE AtMostOnce WITH
          Item <- EventId, claimed <- recorded, effects <- applied

ImplementsAtMostOnce == Once!Spec

\* Events applied one at a time, in the order Stripe issued them and none
\* of them lost.
InStep == inStep /\ \A e \in DOMAIN issued : applied[e] = 1

\* The last subscription the customer took out.
Latest(s) ==
  \E i \in DOMAIN issued :
    issued[i].sub = s /\ \A j \in i .. Len(issued) : issued[j].sub = s

\* A workspace linked to its customer then has the status Stripe gives its
\* subscription, through cancellation and re-subscription
\* (_apply_subscription_event, "what Stripe actually thinks is true").
StatusFollowsStripe ==
  InStep /\ row.customer =>
    \A s \in Subscription : Latest(s) => row.sub = s /\ row.status = truth[s]

\* An event that was recorded, and whose redelivery is therefore answered
\* "skipped", has been applied or is being applied: "the other request
\* already recorded and will apply this event" (process_webhook).
RecordedIsApplied ==
  \A e \in recorded :
    applied[e] = 1 \/ \E h \in Handler : item[h] = e /\ pc[h] \in {"recorded", "loaded"}
=============================================================================

------------------------ MODULE BillingWebhookProofs ------------------------
(***************************************************************************)
(* Proofs about BillingWebhook for any number of replicas, subscriptions,  *)
(* plans, events and failures: an event is applied at most once, because   *)
(* the unique constraint lets one delivery record it.                      *)
(***************************************************************************)
EXTENDS BillingWebhook, TLAPS

\* Events are appended, and appending keeps the ids there are.
LEMMA IssueKeepsTypes ==
  ASSUME TypeOK, NEW kind \in {"checkout", "subscription", "deleted", "other"},
         NEW s \in Subscription, NEW status \in Status, NEW plan \in Plan \cup {None},
         Issue(kind, s, status, plan)
  PROVE  TypeOK' /\ DOMAIN issued \subseteq DOMAIN issued'
<1> DEFINE event == [kind |-> kind, sub |-> s, status |-> status, plan |-> plan]
<1>1. event \in Event
  BY DEF Event
<1>2. issued \in Seq(Event) /\ issued' = Append(issued, event) /\ Len(issued) < MaxEvents
  BY DEF Issue, TypeOK
<1>3. /\ issued' \in Seq(Event) /\ Len(issued') <= MaxEvents
      /\ DOMAIN issued \subseteq DOMAIN issued'
  BY <1>1, <1>2, BoundAssumption
<1>4. truth' \in [Subscription -> Status \cup {"none"}]
  BY DEF Issue, TypeOK
<1>5. recorded' \subseteq DOMAIN issued'
  BY <1>3 DEF Issue, TypeOK
<1> QED
  BY <1>3, <1>4, <1>5 DEF Issue, TypeOK

\* Whatever happens at Stripe is an event of one of the four kinds.
LEMMA StripeStepIssues ==
  ASSUME TypeOK, NEW s \in Subscription, StripeStep(s)
  PROVE  /\ TypeOK'
         /\ DOMAIN issued \subseteq DOMAIN issued'
         /\ UNCHANGED <<recorded, pc, item, applied>>
<1>1. {"active", "past_due", "canceled"} = Status
  BY DEF Status
<1>2. PICK kind \in {"checkout", "subscription", "deleted", "other"},
           status \in Status, plan \in Plan \cup {None} : Issue(kind, s, status, plan)
  <2>1. ASSUME NEW plan \in Plan \cup {None}, Subscribe(s, plan)
        PROVE  Issue("subscription", s, "active", plan)
    BY <2>1 DEF Subscribe
  <2>2. ASSUME CompleteCheckout(s) PROVE Issue("checkout", s, "active", None)
    BY <2>2 DEF CompleteCheckout
  <2>3. ASSUME NEW status \in Status, NEW plan \in Plan \cup {None},
               ChangeSubscription(s, status, plan)
        PROVE  Issue("subscription", s, status, plan)
    BY <2>3 DEF ChangeSubscription
  <2>4. ASSUME EndSubscription(s) PROVE Issue("deleted", s, "canceled", None)
    BY <2>4 DEF EndSubscription
  <2>5. ASSUME IssueOther(s) PROVE truth[s] \in Status /\ Issue("other", s, truth[s], None)
    BY <1>1, <2>5 DEF IssueOther, Alive
  <2> QED BY <1>1, <2>1, <2>2, <2>3, <2>4, <2>5 DEF StripeStep
<1> QED
  BY <1>2, IssueKeepsTypes DEF Issue

\* A replica that is done with its delivery keeps nothing of it.
LEMMA CloseKeepsTypes ==
  ASSUME TypeOK, NEW h \in Handler, Close(h)
  PROVE  /\ pc' \in [Handler -> Phases]
         /\ item' \in [Handler -> EventId \cup {0}]
         /\ loaded' \in [Handler -> SubscriptionRow]
  BY DEF TypeOK, Close, Phases, SubscriptionRow, TrialRow

\* Applying an event to a row gives a row.
LEMMA UpdatedIsARow ==
  ASSUME NEW r \in SubscriptionRow, NEW event \in Event
  PROVE  Updated(r, event) \in SubscriptionRow
  BY DEF SubscriptionRow, Event, Updated, Status

\* What the second commit writes is a row: column by column the session's
\* value or the committed one.
LEMMA SavedIsARow ==
  ASSUME NEW old \in SubscriptionRow, NEW mine \in SubscriptionRow, NEW new \in SubscriptionRow
  PROVE  [f \in DOMAIN old |-> IF new[f] # mine[f] THEN new[f] ELSE old[f]] \in SubscriptionRow
<1> DEFINE saved == [f \in DOMAIN old |-> IF new[f] # mine[f] THEN new[f] ELSE old[f]]
<1>1. DOMAIN old = {"customer", "sub", "status", "plan"}
  BY DEF SubscriptionRow
<1>2. saved = [customer |-> saved["customer"], sub |-> saved["sub"],
               status |-> saved["status"], plan |-> saved["plan"]]
  BY <1>1
<1>3. saved["customer"] \in BOOLEAN
  BY <1>1 DEF SubscriptionRow
<1>4. saved["sub"] \in Subscription \cup {None} /\ saved["plan"] \in Plan \cup {None}
  BY <1>1 DEF SubscriptionRow
<1>5. saved["status"] \in Status \cup {"trial"}
  BY <1>1 DEF SubscriptionRow
<1> QED
  BY <1>2, <1>3, <1>4, <1>5 DEF SubscriptionRow

\* A delivery in hand is of an event that was issued.
ItemIssued == \A h \in Handler : pc[h] # "idle" => item[h] \in DOMAIN issued

\* What the invariant says of the applied counters.
AppliedOnce == \A e \in EventId : applied[e] <= 1 /\ (applied[e] = 1 => e \in recorded)

\* The event of a delivery in hand is a numbered event.
LEMMA ItemIsAnId ==
  ASSUME TypeOK, ItemIssued, NEW h \in Handler, pc[h] # "idle"
  PROVE  item[h] \in EventId
<1>1. item[h] \in 1 .. Len(issued) /\ Len(issued) \in Nat /\ Len(issued) <= MaxEvents
  BY DEF TypeOK, ItemIssued
<1> QED BY <1>1, BoundAssumption DEF EventId

\* Steps of a delivery keep the types.
LEMMA DeliveryKeepsTypes ==
  ASSUME TypeOK, ItemIssued, NEW h \in Handler,
         \/ \E e \in EventId : Receive(h, e)
         \/ Record(h) \/ SkipConcurrent(h) \/ Load(h) \/ Save(h) \/ Fail(h)
  PROVE  TypeOK'
<1>1. ASSUME NEW e \in EventId, Receive(h, e) PROVE TypeOK'
  <2>1. pc' \in [Handler -> Phases] /\ item' \in [Handler -> EventId \cup {0}]
    BY <1>1 DEF Receive, TypeOK, Phases
  <2> QED BY <1>1, <2>1 DEF Receive, TypeOK, stripe
<1>2. CASE Record(h)
  <2>1. recorded' \subseteq DOMAIN issued
    BY <1>2 DEF Record, TypeOK, ItemIssued
  <2>2. pc' \in [Handler -> Phases]
    BY <1>2 DEF Record, TypeOK, Phases
  <2> QED BY <1>2, <2>1, <2>2 DEF Record, TypeOK, stripe
<1>3. CASE SkipConcurrent(h)
  BY <1>3, CloseKeepsTypes DEF SkipConcurrent, TypeOK, stripe
<1>4. CASE Load(h)
  <2>1. loaded' \in [Handler -> SubscriptionRow] /\ pc' \in [Handler -> Phases]
    BY <1>4 DEF Load, TypeOK, Phases
  <2>2. inStep' \in BOOLEAN
    BY <1>4 DEF Load
  <2> QED BY <1>4, <2>1, <2>2 DEF Load, TypeOK, stripe
<1>5. CASE Save(h)
  <2> DEFINE event == issued[item[h]]
             new == Updated(loaded[h], event)
  <2>1. item[h] \in DOMAIN issued /\ event \in Event /\ item[h] \in EventId
    <3>1. pc[h] = "loaded"
      BY <1>5 DEF Save
    <3>2. item[h] \in DOMAIN issued /\ issued \in Seq(Event)
      BY <3>1 DEF TypeOK, ItemIssued
    <3> QED BY <3>2, BoundAssumption DEF TypeOK, EventId
  <2>2. new \in SubscriptionRow
    BY <2>1, UpdatedIsARow DEF TypeOK
  <2>3. row' \in SubscriptionRow
    <3>1. row' = [f \in DOMAIN row |-> IF new[f] # loaded[h][f] THEN new[f] ELSE row[f]]
      BY <1>5 DEF Save
    <3>2. row \in SubscriptionRow /\ loaded[h] \in SubscriptionRow
      BY DEF TypeOK
    <3> HIDE DEF new
    <3> QED BY <2>2, <3>1, <3>2, SavedIsARow
  <2>4. applied' \in [EventId -> Nat]
    BY <1>5, <2>1 DEF Save, TypeOK
  <2>5. inStep' \in BOOLEAN
    BY <1>5 DEF Save
  <2>6. Close(h) /\ UNCHANGED <<truth, issued, recorded, failures>>
    BY <1>5 DEF Save, stripe
  <2> QED BY <2>3, <2>4, <2>5, <2>6, CloseKeepsTypes DEF TypeOK
<1>6. CASE Fail(h)
  <2>1. failures' \in 0 .. MaxFailures
    BY <1>6, BoundAssumption DEF Fail, TypeOK
  <2> QED BY <1>6, <2>1, CloseKeepsTypes DEF Fail, TypeOK, stripe
<1> QED BY <1>1, <1>2, <1>3, <1>4, <1>5, <1>6

-----------------------------------------------------------------------------
\* No delivery is in hand when the service starts.
LEMMA InitOnceInv == Init => OnceInv
<1> SUFFICES ASSUME Init PROVE OnceInv
  OBVIOUS
<1>1. issued \in Seq(Event) /\ Len(issued) <= MaxEvents
  BY BoundAssumption DEF Init
<1>2. row \in SubscriptionRow /\ loaded \in [Handler -> SubscriptionRow]
  BY DEF Init, TrialRow, SubscriptionRow
<1>3. TypeOK
  BY <1>1, <1>2, BoundAssumption DEF Init, TypeOK, Phases
<1>4. OneApplier /\ ItemIssued /\ AppliedOnce
  BY DEF Init, OneApplier, ItemIssued, AppliedOnce
<1> QED BY <1>3, <1>4 DEF OnceInv, ItemIssued, AppliedOnce

\* Every step preserves the invariant: only Record claims an event, and only
\* its one recorder goes on to apply it.
LEMMA NextOnceInv == OnceInv /\ [Next]_vars => OnceInv'
<1> DEFINE Parts == OneApplier /\ ItemIssued /\ AppliedOnce
<1> SUFFICES ASSUME TypeOK, Parts, [Next]_vars PROVE TypeOK' /\ Parts'
  BY DEF OnceInv, ItemIssued, AppliedOnce
<1>1. ASSUME NEW s \in Subscription, StripeStep(s) PROVE TypeOK' /\ Parts'
  <2>1. TypeOK' /\ DOMAIN issued \subseteq DOMAIN issued'
    BY <1>1, StripeStepIssues
  <2>2. UNCHANGED <<recorded, pc, item, applied>>
    BY <1>1, StripeStepIssues
  <2> QED BY <2>1, <2>2 DEF OneApplier, ItemIssued, AppliedOnce
<1>2. ASSUME NEW h \in Handler, NEW e \in EventId, Receive(h, e) PROVE TypeOK' /\ Parts'
  <2>1. TypeOK'
    BY <1>2, DeliveryKeepsTypes
  <2>2. Parts'
    BY <1>2 DEF Receive, stripe, TypeOK, OneApplier, ItemIssued, AppliedOnce
  <2> QED BY <2>1, <2>2
<1>3. ASSUME NEW h \in Handler, Record(h) PROVE TypeOK' /\ Parts'
  <2>1. TypeOK'
    BY <1>3, DeliveryKeepsTypes
  <2>2. item[h] \notin recorded /\ item[h] \in EventId
    BY <1>3, ItemIsAnId DEF Record, MayRecord
  <2>3. applied[item[h]] = 0
    BY <2>2 DEF AppliedOnce, TypeOK
  <2>4. \A g \in Handler : pc[g] \in {"recorded", "loaded"} => item[g] # item[h]
    BY <2>2 DEF OneApplier
  <2> QED BY <1>3, <2>1, <2>3, <2>4 DEF Record, stripe, TypeOK, OneApplier, ItemIssued, AppliedOnce
<1>4. ASSUME NEW h \in Handler, SkipConcurrent(h) \/ Fail(h) PROVE TypeOK' /\ Parts'
  <2>1. TypeOK'
    BY <1>4, DeliveryKeepsTypes
  <2>2. /\ pc' = [pc EXCEPT ![h] = "idle"] /\ item' = [item EXCEPT ![h] = 0]
        /\ UNCHANGED <<issued, recorded, applied>>
    BY <1>4 DEF SkipConcurrent, Fail, Close, stripe
  <2>3. Parts'
    BY <2>2 DEF TypeOK, OneApplier, ItemIssued, AppliedOnce
  <2> QED BY <2>1, <2>3
<1>5. ASSUME NEW h \in Handler, Load(h) PROVE TypeOK' /\ Parts'
  <2>1. TypeOK'
    BY <1>5, DeliveryKeepsTypes
  <2>2. Parts'
    BY <1>5 DEF Load, stripe, TypeOK, OneApplier, ItemIssued, AppliedOnce
  <2> QED BY <2>1, <2>2
<1>6. ASSUME NEW h \in Handler, Save(h) PROVE TypeOK' /\ Parts'
  <2>1. TypeOK'
    BY <1>6, DeliveryKeepsTypes
  <2>2. /\ pc[h] = "loaded" /\ item[h] \in recorded /\ applied[item[h]] = 0
        /\ \A g \in Handler \ {h} :
             pc[g] \in {"recorded", "loaded"} => item[g] # item[h]
    BY <1>6 DEF Save, OneApplier
  <2>3. /\ applied' = [applied EXCEPT ![item[h]] = @ + 1]
        /\ pc' = [pc EXCEPT ![h] = "idle"] /\ item' = [item EXCEPT ![h] = 0]
        /\ UNCHANGED <<issued, recorded>>
    BY <1>6 DEF Save, Close, stripe
  <2> QED BY <2>1, <2>2, <2>3 DEF TypeOK, OneApplier, ItemIssued, AppliedOnce
<1>7. CASE UNCHANGED vars
  BY <1>7 DEF vars, stripe, TypeOK, OneApplier, ItemIssued, AppliedOnce
<1> QED
  BY <1>1, <1>2, <1>3, <1>4, <1>5, <1>6, <1>7 DEF Next

-----------------------------------------------------------------------------
(* What the row says.                                                      *)

\* Nothing has happened at Stripe when the service starts.
LEMMA InitRow == Init => StripeIsOrderly /\ SessionIsCurrent /\ RowFollowsEvents
BY DEF Init, StripeIsOrderly, SessionIsCurrent, RowFollowsEvents, Alive, TrialRow

\* An event that says what became of the one live subscription, or of the
\* first one after it, leaves Stripe with at most one.
LEMMA IssueKeepsOrder ==
  ASSUME TypeOK, StripeIsOrderly,
         NEW kind \in {"checkout", "subscription", "deleted", "other"},
         NEW s \in Subscription, NEW status \in Status, NEW plan \in Plan \cup {None},
         Issue(kind, s, status, plan),
         \A x \in Subscription \ {s} : ~Alive(x),
         kind = "checkout" => status = "active",
         kind = "other" => Alive(s) /\ status = truth[s]
  PROVE  StripeIsOrderly'
<1> DEFINE event == [kind |-> kind, sub |-> s, status |-> status, plan |-> plan]
<1>1. /\ issued' = Append(issued, event) /\ truth' = [truth EXCEPT ![s] = status]
      /\ issued \in Seq(Event) /\ Len(issued) \in Nat
      /\ truth \in [Subscription -> Status \cup {"none"}]
  BY DEF Issue, TypeOK
<1>2. /\ DOMAIN issued = 1 .. Len(issued)
      /\ DOMAIN issued' = 1 .. Len(issued) + 1 /\ Len(issued') = Len(issued) + 1
      /\ issued'[Len(issued) + 1] = event
      /\ \A i \in DOMAIN issued : issued'[i] = issued[i]
  BY <1>1
<1>3. issued' # <<>>
  BY <1>2
<1>4. /\ truth'[s] = status
      /\ \A x \in Subscription \ {s} : ~Alive(x)'
  BY <1>1 DEF Alive
<1>5. ASSUME kind = "other"
      PROVE  /\ Len(issued) >= 1
             /\ issued[Len(issued)].sub = s /\ issued[Len(issued)].status = status
  <2>1. issued # <<>>
    BY <1>5 DEF StripeIsOrderly
  <2>2. Len(issued) >= 1 /\ issued[Len(issued)] \in Event
    BY <1>1, <2>1
  <2>3. issued[Len(issued)].sub = s
    BY <1>5, <2>1, <2>2 DEF StripeIsOrderly, Event
  <2> QED
    BY <1>5, <2>1, <2>2, <2>3 DEF StripeIsOrderly
<1>6. ASSUME NEW i \in DOMAIN issued'
      PROVE  /\ issued'[i].kind = "checkout" => issued'[i].status = "active"
             /\ issued'[i].kind = "other" =>
                  /\ i > 1
                  /\ issued'[i - 1].sub = issued'[i].sub
                  /\ issued'[i - 1].status = issued'[i].status
  <2>1. CASE i \in DOMAIN issued
    <3>1. issued'[i] = issued[i] /\ (i > 1 => issued'[i - 1] = issued[i - 1])
      BY <1>1, <1>2, <2>1
    <3> QED
      BY <2>1, <3>1 DEF StripeIsOrderly
  <2>2. CASE i \notin DOMAIN issued
    <3>1. i = Len(issued) + 1 /\ issued'[i] = event
      BY <1>1, <1>2, <2>2
    <3>2. Len(issued) >= 1 => issued'[i - 1] = issued[Len(issued)]
      BY <1>1, <1>2, <3>1
    <3> QED
      BY <1>1, <1>5, <3>1, <3>2
  <2> QED
    BY <2>1, <2>2
<1> QED
  BY <1>2, <1>3, <1>4, <1>6 DEF StripeIsOrderly

\* Whatever happens at Stripe happens to its one live subscription, or to a
\* first one when none is.
LEMMA StripeStepKeepsOrder ==
  ASSUME TypeOK, StripeIsOrderly, NEW s \in Subscription, StripeStep(s)
  PROVE  StripeIsOrderly'
<1>1. ASSUME Alive(s), NEW x \in Subscription \ {s} PROVE ~Alive(x)
  BY <1>1 DEF StripeIsOrderly
<1>2. ASSUME NEW plan \in Plan \cup {None}, Subscribe(s, plan) PROVE StripeIsOrderly'
  BY <1>2, IssueKeepsOrder DEF Subscribe, Status
<1>3. CASE CompleteCheckout(s)
  <2>1. Alive(s)
    BY <1>3 DEF CompleteCheckout, Alive
  <2> QED
    BY <1>1, <1>3, <2>1, IssueKeepsOrder DEF CompleteCheckout, Status
<1>4. ASSUME NEW status \in Status, NEW plan \in Plan \cup {None},
             ChangeSubscription(s, status, plan)
      PROVE  StripeIsOrderly'
  BY <1>1, <1>4, IssueKeepsOrder DEF ChangeSubscription
<1>5. CASE EndSubscription(s)
  BY <1>1, <1>5, IssueKeepsOrder DEF EndSubscription, Status
<1>6. CASE IssueOther(s)
  <2>1. truth[s] \in Status /\ Alive(s)
    BY <1>6 DEF IssueOther, Alive, Status
  <2> QED
    BY <1>1, <1>6, <2>1, IssueKeepsOrder DEF IssueOther
<1> QED
  BY <1>2, <1>3, <1>4, <1>5, <1>6 DEF StripeStep

\* New events leave what the events before them said.
LEMMA StripeStepKeepsRow ==
  ASSUME OnceInv, SessionIsCurrent, RowFollowsEvents, NEW s \in Subscription, StripeStep(s)
  PROVE  SessionIsCurrent' /\ RowFollowsEvents'
<1>1. PICK event \in Event : issued' = Append(issued, event)
  BY DEF StripeStep, Subscribe, CompleteCheckout, ChangeSubscription, EndSubscription,
         IssueOther, Issue, Event, Status, Alive
<1>2. UNCHANGED <<recorded, row, pc, loaded, applied>>
  BY DEF StripeStep, Subscribe, CompleteCheckout, ChangeSubscription, EndSubscription,
         IssueOther, Issue
<1>3. \A e \in DOMAIN issued : issued'[e] = issued[e]
  BY <1>1 DEF OnceInv, TypeOK
<1>4. \A e \in EventId : applied[e] = 1 => e \in DOMAIN issued
  BY DEF OnceInv, TypeOK
<1> QED
  BY <1>2, <1>3, <1>4 DEF SessionIsCurrent, RowFollowsEvents

\* A session that loaded the row as it is saves what it made of it.
LEMMA SavedIsUpdated ==
  ASSUME NEW old \in SubscriptionRow, NEW new \in SubscriptionRow
  PROVE  [f \in DOMAIN old |-> IF new[f] # old[f] THEN new[f] ELSE old[f]] = new
BY DEF SubscriptionRow

\* Saved in step, an event that follows the ones applied brings the row up to
\* what it says.
LEMMA SaveKeepsRow ==
  ASSUME OnceInv, StripeIsOrderly, SessionIsCurrent, RowFollowsEvents,
         NEW h \in Handler, Save(h), \A i \in 1 .. item[h] - 1 : applied[i] = 1
  PROVE  SessionIsCurrent' /\ RowFollowsEvents'
<1> DEFINE e == item[h]
           event == issued[e]
           new == Updated(row, event)
<1>1. /\ TypeOK
      /\ pc[h] = "loaded" /\ loaded[h] = row
      /\ \A g \in Handler : pc[g] = "loaded" => g = h
  BY DEF Save, OnceInv, SessionIsCurrent
<1>2. /\ e \in EventId /\ e \in DOMAIN issued /\ applied[e] = 0
  BY <1>1, ItemIsAnId DEF OnceInv, ItemIssued, OneApplier
<1>3. event \in Event
  BY <1>1, <1>2 DEF TypeOK
<1>4. row' = new /\ UNCHANGED <<issued, recorded>>
  <2>1. new \in SubscriptionRow /\ row \in SubscriptionRow
    BY <1>1, <1>3, UpdatedIsARow DEF TypeOK
  <2>2. row' = [f \in DOMAIN row |-> IF new[f] # row[f] THEN new[f] ELSE row[f]]
    BY <1>1 DEF Save
  <2> HIDE DEF new
  <2> QED
    BY <2>1, <2>2, SavedIsUpdated DEF Save, stripe
<1>5. /\ pc' = [pc EXCEPT ![h] = "idle"] /\ applied' = [applied EXCEPT ![e] = 1]
      /\ loaded' = [loaded EXCEPT ![h] = TrialRow]
  BY <1>1, <1>2 DEF Save, Close, TypeOK
<1>6. SessionIsCurrent'
  BY <1>1, <1>5 DEF SessionIsCurrent, TypeOK
<1>7. /\ applied'[e] = 1
      /\ \A i \in EventId \ {e} : applied'[i] = applied[i]
      /\ \A i \in 1 .. e - 1 : applied'[i] = 1
      /\ \A i \in EventId : i > e => applied'[i] # 1
  <2>1. applied'[e] = 1 /\ \A i \in EventId \ {e} : applied'[i] = applied[i]
    BY <1>1, <1>2, <1>5 DEF TypeOK
  <2>2. e \in 1 .. MaxEvents /\ MaxEvents \in Nat
    BY <1>2, BoundAssumption DEF EventId
  <2>3. \A i \in 1 .. e - 1 : applied'[i] = 1
    BY <2>1, <2>2 DEF EventId
  <2>4. ASSUME NEW i \in EventId, i > e PROVE applied'[i] # 1
    <3>1. e \in 1 .. i - 1
      BY <2>2, <2>4 DEF EventId
    <3> QED
      BY <1>2, <2>1, <2>2, <2>4, <3>1 DEF RowFollowsEvents, EventId
  <2> QED
    BY <2>1, <2>3, <2>4
<1>8. \A i \in EventId : applied'[i] = 1 => \A j \in 1 .. i - 1 : applied'[j] = 1
  <2> SUFFICES ASSUME NEW i \in EventId, applied'[i] = 1, NEW j \in 1 .. i - 1
               PROVE  applied'[j] = 1
    OBVIOUS
  <2>1. i <= e
    BY <1>2, <1>7 DEF EventId
  <2> QED
    BY <1>2, <1>7, <2>1 DEF EventId
<1>9. row'.customer => row'.sub = event.sub /\ row'.status = event.status
  <2>1. CASE event.kind = "checkout"
    <3>1. new = [row EXCEPT !.customer = TRUE, !.sub = event.sub, !.status = "active"]
      BY <2>1 DEF Updated
    <3>2. event.status = "active"
      BY <1>2, <2>1 DEF StripeIsOrderly
    <3> QED
      BY <1>1, <1>4, <3>1, <3>2 DEF TypeOK, SubscriptionRow
  <2>2. CASE event.kind \in {"subscription", "deleted"}
    <3>1. CASE Finds(row, event)
      BY <1>1, <1>4, <2>2, <3>1 DEF Updated, TypeOK, SubscriptionRow
    <3>2. CASE ~Finds(row, event)
      BY <1>4, <2>2, <3>2 DEF Updated, Finds
    <3> QED
      BY <3>1, <3>2
  <2>3. CASE event.kind = "other"
    <3>1. row' = row
      BY <1>4, <2>3 DEF Updated
    <3>2. /\ e > 1 /\ issued[e - 1].sub = event.sub /\ issued[e - 1].status = event.status
      BY <1>2, <2>3 DEF StripeIsOrderly
    <3>3. e - 1 \in EventId /\ e - 1 \in 1 .. e - 1
      BY <1>2, <3>2, BoundAssumption DEF EventId
    <3>4. applied[e - 1] = 1
      BY <3>3
    <3>5. \A i \in EventId : i > e - 1 => applied[i] = 0
      BY <1>1, <1>2, <1>7 DEF EventId, OnceInv, TypeOK
    <3> QED
      BY <3>1, <3>2, <3>3, <3>4, <3>5 DEF RowFollowsEvents
  <2> QED
    BY <1>3, <2>1, <2>2, <2>3 DEF Event
<1>10. ASSUME NEW i \in EventId, applied'[i] = 1, \A j \in EventId : j > i => applied'[j] = 0
       PROVE  i = e
  BY <1>2, <1>7, <1>10 DEF EventId
<1>11. RowFollowsEvents'
  BY <1>2, <1>4, <1>7, <1>8, <1>9, <1>10 DEF RowFollowsEvents
<1> QED
  BY <1>6, <1>11

\* Every step keeps what is said of Stripe and of the row.
LEMMA NextRow ==
  ASSUME OnceInv, StripeIsOrderly, inStep => SessionIsCurrent /\ RowFollowsEvents, [Next]_vars
  PROVE  StripeIsOrderly' /\ (inStep' => SessionIsCurrent' /\ RowFollowsEvents')
<1> TypeOK
  BY DEF OnceInv
<1>1. ASSUME NEW s \in Subscription, StripeStep(s)
      PROVE  StripeIsOrderly' /\ (inStep' => SessionIsCurrent' /\ RowFollowsEvents')
  <2>1. inStep' = inStep
    BY <1>1 DEF StripeStep, Subscribe, CompleteCheckout, ChangeSubscription, EndSubscription,
                IssueOther, Issue
  <2> QED
    BY <1>1, <2>1, StripeStepKeepsOrder, StripeStepKeepsRow
<1>2. ASSUME UNCHANGED stripe PROVE StripeIsOrderly'
  BY <1>2 DEF stripe, StripeIsOrderly, Alive
<1>3. ASSUME NEW h \in Handler,
             (\E e \in EventId : Receive(h, e)) \/ Record(h) \/ SkipConcurrent(h) \/ Fail(h)
      PROVE  StripeIsOrderly' /\ (inStep' => SessionIsCurrent' /\ RowFollowsEvents')
  <2>1. UNCHANGED <<stripe, row, applied, inStep>>
    BY <1>3 DEF Receive, Record, SkipConcurrent, Fail
  <2>2. \A g \in Handler : pc'[g] = "loaded" => pc[g] = "loaded" /\ loaded'[g] = loaded[g]
    BY <1>3 DEF Receive, Record, SkipConcurrent, Fail, Close, TypeOK
  <2>3. RowFollowsEvents => RowFollowsEvents'
    BY <2>1 DEF RowFollowsEvents, stripe
  <2>4. SessionIsCurrent => SessionIsCurrent'
    BY <2>1, <2>2 DEF SessionIsCurrent
  <2> QED
    BY <1>2, <2>1, <2>3, <2>4
<1>4. ASSUME NEW h \in Handler, Load(h)
      PROVE  StripeIsOrderly' /\ (inStep' => SessionIsCurrent' /\ RowFollowsEvents')
  <2>1. UNCHANGED <<stripe, row, applied>>
    BY <1>4 DEF Load
  <2>2. ASSUME inStep' PROVE SessionIsCurrent' /\ RowFollowsEvents'
    <3>1. inStep /\ \A g \in Handler : pc[g] # "loaded"
      BY <1>4, <2>2 DEF Load
    <3>2. SessionIsCurrent'
      BY <1>4, <3>1 DEF Load, SessionIsCurrent, TypeOK
    <3> QED
      BY <2>1, <3>1, <3>2 DEF RowFollowsEvents, stripe
  <2> QED
    BY <1>2, <2>1, <2>2
<1>5. ASSUME NEW h \in Handler, Save(h)
      PROVE  StripeIsOrderly' /\ (inStep' => SessionIsCurrent' /\ RowFollowsEvents')
  <2>1. UNCHANGED stripe
    BY <1>5 DEF Save
  <2>2. inStep' => inStep /\ \A i \in 1 .. item[h] - 1 : applied[i] = 1
    BY <1>5 DEF Save
  <2> QED
    BY <1>2, <1>5, <2>1, <2>2, SaveKeepsRow
<1>6. CASE UNCHANGED vars
  BY <1>6 DEF vars, stripe, StripeIsOrderly, Alive, SessionIsCurrent, RowFollowsEvents
<1> QED
  BY <1>1, <1>3, <1>4, <1>5, <1>6 DEF Next

-----------------------------------------------------------------------------
\* The invariant holds of every run of the webhook, whatever Stripe delivers,
\* how often, in what order, and whichever deliveries die half-way.
THEOREM Invariance == Spec => []IndInv
<1>1. Init => IndInv
  BY InitOnceInv, InitRow DEF IndInv
<1>2. IndInv /\ [Next]_vars => IndInv'
  BY NextOnceInv, NextRow DEF IndInv
<1> QED
  BY <1>1, <1>2, PTL DEF Spec

\* The rows, the session's copies and the history keep their types.
THEOREM TypeCorrect == Spec => []TypeOK
<1>1. IndInv => TypeOK
  BY DEF IndInv, OnceInv
<1> QED
  BY <1>1, Invariance, PTL

\* When every event was applied, one at a time and in the order Stripe issued
\* them, a workspace linked to its customer has the status Stripe gives its
\* subscription, through cancellations, re-subscriptions, duplicate
\* deliveries and deliveries that died (_apply_subscription_event).
THEOREM StatusIsStripes == Spec => []StatusFollowsStripe
<1>1. IndInv => StatusFollowsStripe
  <2> SUFFICES ASSUME IndInv, InStep, row.customer, NEW s \in Subscription, Latest(s)
               PROVE  row.sub = s /\ row.status = truth[s]
    BY DEF StatusFollowsStripe
  <2> DEFINE last == Len(issued)
  <2>1. /\ issued \in Seq(Event) /\ last \in Nat /\ last <= MaxEvents
        /\ recorded \subseteq DOMAIN issued /\ applied \in [EventId -> Nat]
    BY DEF IndInv, OnceInv, TypeOK
  <2>2. last >= 1 /\ issued[last].sub = s /\ issued # <<>>
    BY <2>1 DEF Latest
  <2>3. last \in EventId /\ applied[last] = 1
    BY <2>1, <2>2, BoundAssumption DEF InStep, EventId
  <2>4. \A i \in EventId : i > last => applied[i] = 0
    BY <2>1 DEF IndInv, OnceInv, EventId
  <2>5. row.sub = issued[last].sub /\ row.status = issued[last].status
    BY <2>3, <2>4 DEF IndInv, InStep, RowFollowsEvents
  <2>6. truth[s] = issued[last].status
    BY <2>2 DEF IndInv, StripeIsOrderly
  <2> QED
    BY <2>2, <2>5, <2>6
<1> QED
  BY <1>1, Invariance, PTL

-----------------------------------------------------------------------------
\* No event is recorded when the service starts.
LEMMA InitRecorded == Init => Once!Init
  BY DEF Init, Once!Init

\* Recording an event claims it, the second commit is its one effect, and
\* nothing else touches either.
LEMMA StepOnce == OnceInv /\ [Next]_vars => [Once!Next]_<<recorded, applied>>
<1> SUFFICES ASSUME OnceInv, [Next]_vars PROVE [Once!Next]_<<recorded, applied>>
  OBVIOUS
<1> TypeOK
  BY DEF OnceInv
<1>1. ASSUME NEW s \in Subscription, StripeStep(s) PROVE UNCHANGED <<recorded, applied>>
  BY <1>1, StripeStepIssues
<1>2. ASSUME NEW h \in Handler, Record(h) PROVE Once!Next
  <2>1. item[h] \in EventId /\ item[h] \notin recorded
    BY <1>2, ItemIsAnId DEF Record, MayRecord, OnceInv, ItemIssued
  <2>2. Once!Claim(item[h])
    BY <1>2, <2>1 DEF Record, Once!Claim
  <2> QED BY <2>1, <2>2 DEF Once!Next
<1>3. ASSUME NEW h \in Handler, Save(h) PROVE Once!Next
  <2>1. item[h] \in EventId /\ item[h] \in recorded /\ applied[item[h]] = 0
    BY <1>3, ItemIsAnId DEF Save, OnceInv, ItemIssued, OneApplier
  <2>2. applied' = [applied EXCEPT ![item[h]] = 1] /\ UNCHANGED recorded
    BY <1>3, <2>1 DEF Save, TypeOK
  <2>3. Once!Effect(item[h])
    BY <2>1, <2>2 DEF Once!Effect
  <2> QED BY <2>1, <2>3 DEF Once!Next
<1>4. ASSUME NEW h \in Handler, SkipConcurrent(h) \/ Load(h) \/ Fail(h)
      PROVE  UNCHANGED <<recorded, applied>>
  BY <1>4 DEF SkipConcurrent, Load, Fail
<1>5. ASSUME NEW h \in Handler, NEW e \in EventId, Receive(h, e)
      PROVE  UNCHANGED <<recorded, applied>>
  BY <1>5 DEF Receive
<1>6. CASE UNCHANGED vars
  BY <1>6 DEF vars
<1> QED
  BY <1>1, <1>2, <1>3, <1>4, <1>5, <1>6 DEF Next

\* The webhook implements the one-shot promise for every event.
THEOREM Refinement == Spec => ImplementsAtMostOnce
<1>1. IndInv => OnceInv
  BY DEF IndInv
<1> QED
  BY <1>1, InitRecorded, StepOnce, Invariance, PTL DEF Spec, ImplementsAtMostOnce, Once!Spec
=============================================================================

------------------------- MODULE EmailOutboxProofs --------------------------
(***************************************************************************)
(* Proofs about EmailOutbox for any messages, replicas and bounds: a       *)
(* message is repeated only after a tick that died or an answer that was   *)
(* lost, never beyond MAX_ATTEMPTS, and the queue's record is true.        *)
(***************************************************************************)
EXTENDS EmailOutbox, TLAPS

\* Nothing is queued and nobody drains when the service starts.
LEMMA InitIndInv == Init => IndInv
<1> SUFFICES ASSUME Init PROVE IndInv
  OBVIOUS
<1>1. NoRow \in Row
  BY BoundAssumption DEF NoRow, Row
<1>2. TypeOK
  BY <1>1, BoundAssumption DEF Init, TypeOK
<1>3. DrainerIsAlone /\ EachCrashMayRepeat /\ SessionIsTruthful
  BY BoundAssumption DEF Init, DrainerIsAlone, EachCrashMayRepeat, SessionIsTruthful, NoRow
<1>5. AttemptsAreCounted
  BY BoundAssumption DEF Init, AttemptsAreCounted, Attempted, Drains, NoRow
<1>4. OutcomeIsTruthful
  BY DEF Init, OutcomeIsTruthful, Truthful, NoRow
<1> QED BY <1>2, <1>3, <1>4, <1>5 DEF IndInv

-----------------------------------------------------------------------------
(* Types.                                                                  *)

\* A replica that closes its session keeps nothing of its batch.
LEMMA CloseKeepsTypes ==
  ASSUME TypeOK, NEW r \in Replica, Close(r)
  PROVE  /\ lock' \in Replica \cup {None}
         /\ pc' \in [Replica -> {"idle", "draining", "committed"}]
         /\ todo' \in [Replica -> SUBSET Message]
         /\ late' \in [Replica -> SUBSET Message]
         /\ session' \in [Replica -> [Message -> Row]]
<1>1. NoRow \in Row
  BY BoundAssumption DEF NoRow, Row
<1> QED BY <1>1 DEF TypeOK, Close

\* An attempt, answered or not, is a count of each message more or none.
LEMMA AttemptCounts ==
  ASSUME TypeOK, NEW m \in Message, Accept(m) \/ Raise(m)
  PROVE  /\ deliveries' \in [Message -> Nat] /\ unanswered' \in [Message -> Nat]
         /\ \A n \in Message \ {m} :
              deliveries'[n] = deliveries[n] /\ unanswered'[n] = unanswered[n]
         /\ deliveries'[m] >= deliveries[m] /\ deliveries'[m] <= deliveries[m] + 1
         /\ Accept(m) => deliveries'[m] = deliveries[m] + 1 /\ unanswered'[m] = unanswered[m]
         /\ Raise(m) => \/ deliveries'[m] = deliveries[m] /\ unanswered'[m] = unanswered[m]
                        \/ /\ deliveries'[m] = deliveries[m] + 1
                           /\ unanswered'[m] = unanswered[m] + 1
  BY DEF Accept, Raise, relay, TypeOK

\* Requests, and time passing, keep the types.
LEMMA RequestKeepsTypes ==
  ASSUME TypeOK, NEW m \in Message,
         \/ DeliverNow(m) \/ FailNow(m) \/ Enqueue(m) \/ EnqueueFails(m)
         \/ BackoffPasses(m) \/ GrowOld(m)
  PROVE  TypeOK'
<1>1. CASE DeliverNow(m)
  BY <1>1, AttemptCounts DEF DeliverNow, TypeOK, queue, tick
<1>2. CASE FailNow(m)
  BY <1>2, AttemptCounts DEF FailNow, TypeOK, queue, tick
<1>3. CASE Enqueue(m)
  <2>1. [status |-> "pending", attempts |-> 1] \in Row
    BY BoundAssumption DEF Row
  <2>2. outbox' \in [Message -> Row]
    BY <1>3, <2>1 DEF Enqueue, TypeOK
  <2> QED BY <1>3, <2>2 DEF Enqueue, TypeOK, tick, relay
<1>4. CASE EnqueueFails(m)
  BY <1>4 DEF EnqueueFails, TypeOK, queue, tick, relay
<1>5. CASE BackoffPasses(m) \/ GrowOld(m)
  BY <1>5 DEF BackoffPasses, GrowOld, TypeOK, tick, relay
<1> QED BY <1>1, <1>2, <1>3, <1>4, <1>5

\* So do the tries of a batch: a message that is tried again has attempts left.
LEMMA TryKeepsTypes ==
  ASSUME TypeOK, NEW r \in Replica, NEW m \in Message,
         Abandon(r, m) \/ Deliver(r, m) \/ Postpone(r, m)
  PROVE  TypeOK'
<1>1. todo' \in [Replica -> SUBSET Message]
  BY DEF Abandon, Deliver, Postpone, Taken, TypeOK
<1>2. session[r][m].attempts \in 0 .. MaxAttempts /\ session[r][m] \in Row
  BY DEF TypeOK, Row
<1>3. CASE Abandon(r, m)
  <2>1. [session[r][m] EXCEPT !.status = "abandoned"] \in Row
    BY <1>2 DEF Row
  <2>2. session' \in [Replica -> [Message -> Row]]
    BY <1>3, <2>1 DEF Abandon, TypeOK
  <2> QED BY <1>1, <1>3, <2>2 DEF Abandon, TypeOK, queue, relay
<1>4. CASE Deliver(r, m)
  <2>1. [session[r][m] EXCEPT !.status = "sent"] \in Row
    BY <1>2 DEF Row
  <2>2. session' \in [Replica -> [Message -> Row]]
    BY <1>4, <2>1 DEF Deliver, TypeOK
  <2>3. deliveries' \in [Message -> Nat] /\ unanswered' \in [Message -> Nat]
    BY <1>4, AttemptCounts DEF Deliver
  <2> QED BY <1>1, <1>4, <2>2, <2>3 DEF Deliver, TypeOK, queue
<1>5. CASE Postpone(r, m)
  <2>1. session[r][m].attempts + 1 \in 0 .. MaxAttempts
    BY <1>2, <1>5, BoundAssumption DEF Postpone, GivenUp
  <2>2. [session[r][m] EXCEPT !.attempts = @ + 1] \in Row
    BY <1>2, <2>1 DEF Row
  <2>3. session' \in [Replica -> [Message -> Row]]
    BY <1>5, <2>2 DEF Postpone, TypeOK
  <2>4. deliveries' \in [Message -> Nat] /\ unanswered' \in [Message -> Nat]
    BY <1>5, AttemptCounts DEF Postpone
  <2> QED BY <1>1, <1>5, <2>3, <2>4 DEF Postpone, TypeOK, queue
<1> QED BY <1>3, <1>4, <1>5

\* And so do the beginning and the ends of a tick.
LEMMA TickKeepsTypes ==
  ASSUME TypeOK, NEW r \in Replica,
         StartTick(r) \/ CommitBatch(r) \/ EndTick(r) \/ Crash(r)
  PROVE  TypeOK'
<1>1. CASE StartTick(r)
  <2>1. PICK batch \in SUBSET Due :
          /\ todo' = [todo EXCEPT ![r] = batch]
          /\ late' = [late EXCEPT ![r] = batch \cap old]
    BY <1>1 DEF StartTick
  <2>2. batch \subseteq Message
    BY <2>1 DEF Due, TypeOK
  <2>3. todo' \in [Replica -> SUBSET Message] /\ late' \in [Replica -> SUBSET Message]
    BY <2>1, <2>2 DEF TypeOK
  <2>4. session' \in [Replica -> [Message -> Row]]
    BY <1>1 DEF StartTick, TypeOK
  <2>5. lock' \in Replica \cup {None} /\ pc' \in [Replica -> {"idle", "draining", "committed"}]
    BY <1>1 DEF StartTick, TypeOK
  <2> QED BY <1>1, <2>3, <2>4, <2>5 DEF StartTick, TypeOK, queue, relay
<1>2. CASE CommitBatch(r)
  <2>1. outbox' \in [Message -> Row] /\ due' \subseteq Message
    BY <1>2 DEF CommitBatch, TypeOK
  <2>2. pc' \in [Replica -> {"idle", "draining", "committed"}]
    BY <1>2 DEF CommitBatch, TypeOK
  <2> QED BY <1>2, <2>1, <2>2 DEF CommitBatch, TypeOK, relay
<1>3. CASE EndTick(r)
  BY <1>3, CloseKeepsTypes DEF EndTick, TypeOK, queue, relay
<1>4. CASE Crash(r)
  <2>1. crashes' \in 0 .. MaxCrashes
    BY <1>4, BoundAssumption DEF Crash, TypeOK
  <2> QED BY <1>4, <2>1, CloseKeepsTypes DEF Crash, TypeOK, queue, relay
<1> QED BY <1>1, <1>2, <1>3, <1>4

\* Every step keeps the types.
LEMMA NextTypeOK == TypeOK /\ [Next]_vars => TypeOK'
<1> SUFFICES ASSUME TypeOK, [Next]_vars PROVE TypeOK'
  OBVIOUS
<1>1. CASE UNCHANGED vars
  BY <1>1 DEF vars, queue, tick, relay, TypeOK
<1> QED
  BY <1>1, RequestKeepsTypes, TryKeepsTypes, TickKeepsTypes DEF Next, Tick

-----------------------------------------------------------------------------
(* The invariant, apart from the types: the drainer and its record, and    *)
(* what is counted of each message.                                        *)

Record == DrainerIsAlone /\ OutcomeIsTruthful /\ SessionIsTruthful

MayRepeat(m) ==
  /\ deliveries[m] <= crashes + 1 + unanswered[m]
  /\ ~Spent(m) => deliveries[m] <= crashes + unanswered[m]
  /\ caller[m] # "done" => outbox[m].status = "none"
  /\ caller[m] = "new" => deliveries[m] = 0 /\ unanswered[m] = 0
  /\ caller[m] = "failed" => deliveries[m] = unanswered[m]
  /\ outbox[m].status = "none" => deliveries[m] <= 1

Counted(m) ==
  /\ Attempted(outbox[m]) <= MaxAttempts
  /\ outbox[m].status # "none" =>
       deliveries[m] <= Attempted(outbox[m]) + crashes \/ \E r \in Replica : Drains(r, m)
  /\ \A r \in Replica :
       Drains(r, m) =>
         /\ Attempted(session[r][m]) <= MaxAttempts
         /\ Attempted(session[r][m]) <= Attempted(outbox[m]) + 1
         /\ deliveries[m] <= Attempted(session[r][m]) + crashes

Counts(m) == MayRepeat(m) /\ Counted(m)

LEMMA PartsOfIndInv ==
  IndInv <=> TypeOK /\ Record /\ \A m \in Message : Counts(m)
<1>1. EachCrashMayRepeat <=> \A m \in Message : MayRepeat(m)
  BY DEF EachCrashMayRepeat, MayRepeat
<1>2. AttemptsAreCounted <=> \A m \in Message : Counted(m)
  BY DEF AttemptsAreCounted, Counted
<1> QED BY <1>1, <1>2 DEF IndInv, Record, Counts

\* The lock's holder is the only replica in a tick.
LEMMA OneDrainer ==
  ASSUME DrainerIsAlone, NEW r \in Replica, NEW s \in Replica, pc[r] # "idle", pc[s] # "idle"
  PROVE  r = s
  BY DEF DrainerIsAlone

\* A message still to be tried is pending in the session too, and not spent.
LEMMA UntriedIsUnspent ==
  ASSUME DrainerIsAlone, NEW r \in Replica, NEW m \in Message,
         pc[r] = "draining", m \in todo[r]
  PROVE  ~Spent(m) /\ Pending(m) /\ session[r][m] = outbox[m]
<1>1. Pending(m) /\ session[r][m] = outbox[m]
  BY DEF DrainerIsAlone
<1>2. \A s \in Replica : pc[s] = "draining" => s = r
  BY OneDrainer
<1> QED BY <1>1, <1>2 DEF Spent, Pending

\* A message that a step leaves alone, whatever it does to others, keeps its
\* counts.
LEMMA LeftAlone ==
  ASSUME NEW m \in Message, Counts(m), crashes' = crashes,
         caller'[m] = caller[m], outbox'[m] = outbox[m],
         deliveries'[m] = deliveries[m], unanswered'[m] = unanswered[m],
         \A r \in Replica : /\ (pc[r] = "draining") <=> (pc'[r] = "draining")
                            /\ pc[r] = "draining" => session'[r][m] = session[r][m]
  PROVE  Counts(m)'
<1>1. Spent(m)' <=> Spent(m)
  BY DEF Spent
<1>2. \A r \in Replica : Drains(r, m)' <=> Drains(r, m)
  BY DEF Drains
<1>3. \A r \in Replica : Drains(r, m) => session'[r][m] = session[r][m]
  BY DEF Drains
<1>4. MayRepeat(m)'
  BY <1>1 DEF Counts, MayRepeat
<1>5. Counted(m)'
  BY <1>2, <1>3 DEF Counts, Counted, Attempted
<1> QED BY <1>4, <1>5 DEF Counts

\* The requests' own deliveries and the queueing of what failed.
LEMMA RequestKeepsParts ==
  ASSUME TypeOK, Record, \A n \in Message : Counts(n), NEW m \in Message,
         DeliverNow(m) \/ FailNow(m) \/ Enqueue(m) \/ EnqueueFails(m)
  PROVE  Record' /\ \A n \in Message : Counts(n)'
<1>0. /\ caller[m] # "done" /\ outbox[m].status = "none"
      /\ UNCHANGED <<due, old, lock, pc, todo, late, session, crashes>>
  BY DEF DeliverNow, FailNow, Enqueue, EnqueueFails, Counts, MayRepeat, queue, tick
<1>1. /\ \A n \in Message \ {m} :
           caller'[n] = caller[n] /\ outbox'[n] = outbox[n] /\ deliveries'[n] = deliveries[n]
           /\ unanswered'[n] = unanswered[n]
      /\ deliveries'[m] \in Nat /\ unanswered'[m] \in Nat /\ deliveries'[m] >= deliveries[m]
  BY AttemptCounts
     DEF DeliverNow, FailNow, Enqueue, EnqueueFails, queue, relay, TypeOK
<1>2. \A n \in Message \ {m} : Counts(n)'
  BY <1>0, <1>1, LeftAlone
<1>3. \A r \in Replica : pc[r] = "draining" => m \notin todo[r] /\ session[r][m] = outbox[m]
  BY <1>0 DEF Record, DrainerIsAlone, Pending
<1>4. \A r \in Replica : ~Drains(r, m) /\ ~Drains(r, m)'
  BY <1>0, <1>3 DEF Drains
<1>5. CASE outbox' = outbox
  <2>1. Record'
    <3>1. DrainerIsAlone'
      BY <1>0, <1>5 DEF Record, DrainerIsAlone, Pending
    <3>2. \A n \in Message : deliveries[n] > 0 => deliveries'[n] > 0
      BY <1>1 DEF TypeOK
    <3>3. OutcomeIsTruthful' /\ SessionIsTruthful'
      BY <1>0, <1>5, <3>2 DEF Record, OutcomeIsTruthful, SessionIsTruthful, Truthful
    <3> QED BY <3>1, <3>3 DEF Record
  <2>2. Counted(m)'
    BY <1>0, <1>4, <1>5 DEF Counts, Counted
  <2>3. crashes \in Nat /\ deliveries[m] \in Nat /\ unanswered[m] \in Nat
    BY BoundAssumption DEF TypeOK
  <2>4. CASE DeliverNow(m)
    <3>1. deliveries'[m] = 1 /\ unanswered'[m] = 0 /\ caller'[m] = "done"
      BY <2>4, <2>3, AttemptCounts DEF DeliverNow, Counts, MayRepeat, TypeOK
    <3>2. Spent(m)'
      BY <1>0, <1>5, <3>1 DEF Spent
    <3> QED BY <1>0, <1>1, <1>2, <1>5, <2>1, <2>2, <2>3, <3>1, <3>2 DEF Counts, MayRepeat
  <2>5. CASE FailNow(m)
    <3>1. deliveries'[m] = unanswered'[m] /\ deliveries'[m] <= 1 /\ caller'[m] = "failed"
      BY <2>5, <2>3, AttemptCounts DEF FailNow, Counts, MayRepeat, TypeOK
    <3> QED BY <1>0, <1>1, <1>2, <1>5, <2>1, <2>2, <2>3, <3>1 DEF Counts, MayRepeat
  <2>6. CASE EnqueueFails(m)
    <3>1. deliveries'[m] = unanswered'[m] /\ deliveries'[m] <= 1 /\ caller'[m] = "done"
      BY <1>0, <2>6 DEF EnqueueFails, relay, Counts, MayRepeat, TypeOK
    <3> QED BY <1>0, <1>1, <1>2, <1>5, <2>1, <2>2, <2>3, <3>1 DEF Counts, MayRepeat
  <2>7. CASE Enqueue(m)
    BY <1>0, <1>5, <2>7 DEF Enqueue, TypeOK
  <2> QED BY <2>4, <2>5, <2>6, <2>7
<1>6. CASE Enqueue(m)
  <2>1. /\ outbox'[m] = [status |-> "pending", attempts |-> 1]
        /\ caller'[m] = "done" /\ UNCHANGED relay
        /\ deliveries[m] = unanswered[m] /\ deliveries[m] <= 1
    BY <1>0, <1>6 DEF Enqueue, TypeOK, Counts, MayRepeat
  <2>2. DrainerIsAlone'
    BY <1>0, <1>1, <1>3, <2>1 DEF Record, DrainerIsAlone, Pending
  <2>3. OutcomeIsTruthful' /\ SessionIsTruthful'
    BY <1>0, <1>1, <2>1 DEF Record, OutcomeIsTruthful, SessionIsTruthful, Truthful, relay
  <2>4. crashes \in Nat /\ unanswered[m] \in Nat /\ deliveries[m] \in Nat
    BY BoundAssumption DEF TypeOK
  <2>5. MayRepeat(m)'
    BY <1>0, <2>1, <2>4 DEF MayRepeat, relay
  <2>6. Counted(m)'
    BY <1>0, <1>4, <2>1, <2>4, BoundAssumption DEF Counted, Attempted, relay
  <2> QED BY <1>2, <2>2, <2>3, <2>5, <2>6 DEF Record, Counts
<1> QED BY <1>5, <1>6 DEF DeliverNow, FailNow, Enqueue, EnqueueFails, queue

\* Messages fall due and grow old.
LEMMA TimeKeepsParts ==
  ASSUME Record, \A n \in Message : Counts(n), NEW m \in Message,
         BackoffPasses(m) \/ GrowOld(m)
  PROVE  Record' /\ \A n \in Message : Counts(n)'
<1>1. /\ UNCHANGED <<caller, outbox, lock, pc, todo, late, session, deliveries,
                     unanswered, crashes>>
      /\ old \subseteq old'
  BY DEF BackoffPasses, GrowOld, tick, relay
<1>2. \A n \in Message : Counts(n)'
  BY <1>1, LeftAlone
<1>3. Record'
  BY <1>1 DEF Record, DrainerIsAlone, Pending, OutcomeIsTruthful, SessionIsTruthful, Truthful
<1> QED BY <1>2, <1>3

\* Trying one message: its row in the session is the committed one, so the
\* outcome replaces nothing another tick has recorded, and the attempt is
\* one more on the row and at most one more at the relay.
LEMMA TryKeepsParts ==
  ASSUME TypeOK, Record, \A n \in Message : Counts(n), NEW r \in Replica, NEW m \in Message,
         Abandon(r, m) \/ Deliver(r, m) \/ Postpone(r, m)
  PROVE  Record' /\ \A n \in Message : Counts(n)'
<1>0. /\ pc[r] = "draining" /\ m \in todo[r] /\ DrainerIsAlone
      /\ todo' = [todo EXCEPT ![r] = @ \ {m}]
      /\ UNCHANGED <<caller, outbox, due, old, lock, pc, late, crashes>>
  BY DEF Abandon, Deliver, Postpone, Taken, queue, Record
<1>1. ~Spent(m) /\ Pending(m) /\ session[r][m] = outbox[m]
  BY <1>0, UntriedIsUnspent
<1>2. /\ \A s \in Replica : pc[s] # "idle" => s = r
      /\ \A n \in Message \ {m} : session'[r][n] = session[r][n]
      /\ \A n \in Message \ {m} : deliveries'[n] = deliveries[n] /\ unanswered'[n] = unanswered[n]
      /\ deliveries'[m] \in Nat /\ unanswered'[m] \in Nat /\ deliveries'[m] >= deliveries[m]
  BY <1>0, OneDrainer, AttemptCounts DEF Abandon, Deliver, Postpone, TypeOK, relay
<1>3. DrainerIsAlone'
  BY <1>0, <1>1, <1>2 DEF DrainerIsAlone, Pending, TypeOK
<1>4. \A n \in Message \ {m} : Counts(n)'
  BY <1>0, <1>2, LeftAlone
<1>5. /\ crashes \in Nat /\ deliveries[m] \in Nat /\ unanswered[m] \in Nat
      /\ outbox[m].attempts \in Nat /\ outbox[m] \in Row /\ session[r][m] \in Row
  BY BoundAssumption DEF TypeOK, Row
<1>6. /\ deliveries[m] <= crashes + unanswered[m] /\ caller[m] = "done"
      /\ Attempted(outbox[m]) = outbox[m].attempts
      /\ deliveries[m] <= outbox[m].attempts + crashes
  <2>1. \A s \in Replica : Drains(s, m) => session[s][m] = outbox[m]
    BY <1>1, <1>2 DEF Drains
  <2>2. MayRepeat(m) /\ Counted(m) /\ outbox[m].status = "pending"
    BY <1>1 DEF Counts, Pending
  <2>3. Attempted(outbox[m]) = outbox[m].attempts
    BY <1>5, <2>2 DEF Attempted
  <2>4. deliveries[m] <= Attempted(outbox[m]) + crashes
    BY <2>1, <2>2 DEF Counted
  <2>5. caller[m] = "new" \/ caller[m] = "failed" \/ caller[m] = "done"
    BY DEF TypeOK
  <2> QED BY <1>1, <2>2, <2>3, <2>4, <2>5 DEF MayRepeat
<1>7. late[r] \subseteq old /\ \A n \in Message : Truthful(session[r][n], n)
  BY <1>0 DEF Record, SessionIsTruthful
\* The rest follows from what the attempt leaves in the session.
<1>8. ASSUME session'[r][m].status # "none",
             Truthful(session[r][m], m) => Truthful(session[r][m], m)',
             Attempted(session'[r][m]) <= MaxAttempts,
             Attempted(session'[r][m]) <= outbox[m].attempts + 1,
             deliveries'[m] <= Attempted(session'[r][m]) + crashes,
             \/ deliveries'[m] <= crashes + unanswered'[m]
             \/ session'[r][m].status = "sent" /\ deliveries'[m] <= crashes + 1 + unanswered'[m]
      PROVE  Record' /\ Counts(m)'
  <2>1. OutcomeIsTruthful'
    BY <1>0, <1>2 DEF Record, OutcomeIsTruthful, Truthful, TypeOK
  <2>2. \A n \in Message : Truthful(session[r][n], n)'
    BY <1>0, <1>2, <1>7, <1>8 DEF Truthful
  <2>3. SessionIsTruthful'
    BY <1>0, <1>2, <1>7, <2>2 DEF SessionIsTruthful
  <2>4. \A s \in Replica : Drains(s, m)' => s = r
    BY <1>0, <1>2 DEF Drains
  <2>5. Drains(r, m)'
    BY <1>0, <1>8 DEF Drains
  <2>6. Counted(m)'
    BY <1>0, <1>1, <1>6, <1>8, <2>4, <2>5 DEF Counts, Counted
  <2>7. session'[r][m].status = "sent" => Spent(m)'
    BY <1>0 DEF Spent
  <2>8. MayRepeat(m)'
    BY <1>0, <1>1, <1>2, <1>5, <1>6, <1>8, <2>7 DEF MayRepeat, Pending
  <2> QED BY <1>3, <2>1, <2>3, <2>6, <2>8 DEF Record, Counts
<1>9. CASE Abandon(r, m)
  <2>1. /\ session'[r][m] = [session[r][m] EXCEPT !.status = "abandoned"]
        /\ deliveries' = deliveries /\ unanswered' = unanswered
    BY <1>9 DEF Abandon, TypeOK, relay
  <2>2. session[r][m].attempts >= MaxAttempts \/ m \in old
    BY <1>7, <1>9 DEF Abandon, GivenUp
  <2>3. /\ session'[r][m].status = "abandoned"
        /\ session'[r][m].attempts = outbox[m].attempts
    BY <1>1, <1>5, <2>1 DEF Row
  <2>4. Attempted(session'[r][m]) = outbox[m].attempts /\ outbox[m].attempts <= MaxAttempts
    BY <1>5, <2>3, BoundAssumption DEF Attempted, Row
  <2>5. Truthful(session[r][m], m)'
    BY <1>0, <1>1, <2>2, <2>3 DEF Truthful
  <2> QED BY <1>4, <1>5, <1>6, <1>8, <2>1, <2>3, <2>4, <2>5
<1>10. CASE Deliver(r, m)
  <2>1. /\ session'[r][m] = [session[r][m] EXCEPT !.status = "sent"]
        /\ deliveries'[m] = deliveries[m] + 1 /\ unanswered'[m] = unanswered[m]
    BY <1>10, AttemptCounts DEF Deliver, TypeOK
  <2>2. session'[r][m].status = "sent" /\ session'[r][m].attempts = outbox[m].attempts
    BY <1>1, <1>5, <2>1 DEF Row
  <2>3. Attempted(session'[r][m]) = outbox[m].attempts + 1 /\ outbox[m].attempts < MaxAttempts
    BY <1>1, <1>5, <1>10, <2>2, BoundAssumption DEF Attempted, Deliver, GivenUp
  <2>4. Truthful(session[r][m], m)'
    BY <1>5, <2>1, <2>2 DEF Truthful
  <2> QED BY <1>4, <1>5, <1>6, <1>8, <2>1, <2>2, <2>3, <2>4, BoundAssumption
<1>11. CASE Postpone(r, m)
  <2>1. session'[r][m] = [session[r][m] EXCEPT !.attempts = @ + 1]
    BY <1>11 DEF Postpone, TypeOK
  <2>2. session'[r][m].status = "pending" /\ session'[r][m].attempts = outbox[m].attempts + 1
    BY <1>1, <1>5, <2>1 DEF Pending, Row
  <2>3. Attempted(session'[r][m]) = outbox[m].attempts + 1 /\ outbox[m].attempts < MaxAttempts
    BY <1>1, <1>5, <1>11, <2>2, BoundAssumption DEF Attempted, Postpone, GivenUp
  <2>4. Truthful(session[r][m], m)'
    BY <2>2 DEF Truthful
  <2>5. \/ deliveries'[m] = deliveries[m] /\ unanswered'[m] = unanswered[m]
        \/ deliveries'[m] = deliveries[m] + 1 /\ unanswered'[m] = unanswered[m] + 1
    BY <1>11, AttemptCounts DEF Postpone
  <2> QED BY <1>4, <1>5, <1>6, <1>8, <2>2, <2>3, <2>4, <2>5, BoundAssumption
<1> QED BY <1>9, <1>10, <1>11

\* A tick reads the due messages as they are committed.
LEMMA StartKeepsParts ==
  ASSUME TypeOK, Record, \A n \in Message : Counts(n), NEW r \in Replica, StartTick(r)
  PROVE  Record' /\ \A n \in Message : Counts(n)'
<1>1. PICK batch \in SUBSET Due :
        /\ todo' = [todo EXCEPT ![r] = batch]
        /\ late' = [late EXCEPT ![r] = batch \cap old]
  BY DEF StartTick
<1>2. /\ lock = None /\ lock' = r
      /\ pc' = [pc EXCEPT ![r] = "draining"] /\ session' = [session EXCEPT ![r] = outbox]
      /\ UNCHANGED <<caller, outbox, due, old, deliveries, unanswered, crashes>>
  BY DEF StartTick, LockIsFree, queue, relay
<1>3. \A s \in Replica : pc[s] = "idle"
  BY <1>2, NoneAssumption DEF Record, DrainerIsAlone
<1>4. \A m \in batch : Pending(m)
  BY DEF Due
<1>5. DrainerIsAlone'
  BY <1>1, <1>2, <1>3, <1>4 DEF DrainerIsAlone, Pending, TypeOK
<1>6. OutcomeIsTruthful' /\ SessionIsTruthful'
  BY <1>1, <1>2, <1>3 DEF Record, OutcomeIsTruthful, SessionIsTruthful, Truthful, TypeOK
<1>7. ASSUME NEW m \in Message PROVE Counts(m)'
  <2>1. \A s \in Replica : ~Drains(s, m)
    BY <1>3 DEF Drains
  <2>2. \A s \in Replica : Drains(s, m)' => session'[s][m] = outbox[m]
    BY <1>2, <1>3 DEF Drains, TypeOK
  <2>3. Spent(m)' <=> Spent(m)
    BY <1>2, <1>3 DEF Spent, TypeOK
  <2>4. MayRepeat(m)'
    BY <1>2, <2>3 DEF Counts, MayRepeat
  <2>5. Attempted(outbox[m]) \in Nat
    BY BoundAssumption DEF TypeOK, Row, Attempted
  <2>6. /\ Attempted(outbox[m]) <= MaxAttempts
        /\ outbox[m].status # "none" => deliveries[m] <= Attempted(outbox[m]) + crashes
    BY <2>1 DEF Counts, Counted
  <2>7. \A s \in Replica : Drains(s, m)' => outbox[m].status # "none"
    BY <2>2 DEF Drains
  <2>8. Counted(m)'
    BY <1>2, <2>2, <2>5, <2>6, <2>7 DEF Counted
  <2> QED BY <2>4, <2>8 DEF Counts
<1> QED BY <1>5, <1>6, <1>7 DEF Record

\* The commit records every outcome of the batch and nothing else.
LEMMA CommitKeepsParts ==
  ASSUME TypeOK, Record, \A n \in Message : Counts(n), NEW r \in Replica, CommitBatch(r)
  PROVE  Record' /\ \A n \in Message : Counts(n)'
<1>1. /\ pc[r] = "draining" /\ pc' = [pc EXCEPT ![r] = "committed"] /\ todo[r] = {}
      /\ UNCHANGED <<caller, old, lock, todo, late, session, deliveries, unanswered, crashes>>
  BY DEF CommitBatch, relay
<1>2. \A s \in Replica : pc[s] # "idle" => s = r
  BY <1>1, OneDrainer DEF Record
<1>3. \A m \in Message : ~Pending(m) => session[r][m] = outbox[m]
  BY <1>1 DEF Record, DrainerIsAlone
<1>4. \A m \in Message :
        \/ outbox'[m] = outbox[m]
           /\ (session[r][m] = outbox[m] \/ session[r][m].status = "none")
        \/ outbox'[m] = session[r][m] /\ session[r][m].status # "none" /\ Pending(m)
  BY <1>3 DEF CommitBatch, TypeOK
<1>5. \A s \in Replica : pc'[s] # "draining"
  BY <1>1, <1>2 DEF TypeOK
<1>6. DrainerIsAlone'
  BY <1>1, <1>5 DEF Record, DrainerIsAlone, TypeOK
<1>7. OutcomeIsTruthful' /\ SessionIsTruthful'
  BY <1>1, <1>4, <1>5 DEF Record, OutcomeIsTruthful, SessionIsTruthful, Truthful
<1>8. ASSUME NEW m \in Message PROVE Counts(m)'
  <2>1. Spent(m) => Spent(m)'
    <3>1. CASE caller[m] = "done" /\ outbox[m].status = "none"
      BY <1>1, <1>4, <3>1 DEF Spent, Pending
    <3>2. CASE outbox[m].status = "sent"
      BY <1>4, <3>2 DEF Spent, Pending
    <3>3. CASE \E s \in Replica : pc[s] = "draining" /\ session[s][m].status = "sent"
      <4>1. session[r][m].status = "sent"
        BY <1>2, <3>3
      <4> QED BY <1>4, <4>1 DEF Spent
    <3> QED BY <3>1, <3>2, <3>3 DEF Spent
  <2>2. MayRepeat(m)'
    BY <1>1, <1>4, <2>1 DEF Counts, MayRepeat, Pending
  <2>3. \A s \in Replica : (Drains(s, m) => s = r) /\ ~Drains(s, m)'
    BY <1>2, <1>5 DEF Drains
  <2>4. CASE Drains(r, m)
    <3>1. outbox'[m] = session[r][m] /\ Attempted(session[r][m]) <= MaxAttempts
          /\ Attempted(session[r][m]) \in Nat /\ Attempted(outbox[m]) \in Nat
      BY <1>4, <2>4, BoundAssumption DEF Drains, Counts, Counted, TypeOK, Row, Attempted
    <3>3. deliveries[m] <= Attempted(session[r][m]) + crashes
      BY <2>4 DEF Counts, Counted
    <3> QED BY <1>1, <2>2, <2>3, <3>1, <3>3 DEF Counts, Counted
  <2>5. CASE ~Drains(r, m)
    <3>1. outbox'[m] = outbox[m]
      BY <1>1, <1>4, <2>5 DEF Drains
    <3> QED BY <1>1, <2>2, <2>3, <2>5, <3>1 DEF Counts, Counted
  <2> QED BY <2>4, <2>5
<1> QED BY <1>6, <1>7, <1>8 DEF Record

\* A tick ends after its commit, or dies: what it had delivered and not
\* recorded may then be delivered again, which the crash accounts for.
LEMMA EndKeepsParts ==
  ASSUME TypeOK, Record, \A n \in Message : Counts(n), NEW r \in Replica,
         EndTick(r) \/ Crash(r)
  PROVE  Record' /\ \A n \in Message : Counts(n)'
<1>1. /\ pc[r] # "idle" /\ pc' = [pc EXCEPT ![r] = "idle"]
      /\ lock' = IF lock = r THEN None ELSE lock
      /\ UNCHANGED <<caller, outbox, due, old, deliveries, unanswered>>
  BY DEF EndTick, Crash, Close, queue, relay
<1>2. \A s \in Replica : pc[s] # "idle" => s = r
  BY <1>1, OneDrainer DEF Record
<1>3. \A s \in Replica : pc'[s] = "idle"
  BY <1>1, <1>2 DEF TypeOK
<1>4. DrainerIsAlone' /\ SessionIsTruthful'
  BY <1>3 DEF DrainerIsAlone, SessionIsTruthful
<1>5. OutcomeIsTruthful'
  BY <1>1 DEF Record, OutcomeIsTruthful, Truthful
<1>6. ASSUME NEW m \in Message PROVE Counts(m)'
  <2>1. \A s \in Replica : ~Drains(s, m)'
    BY <1>3 DEF Drains
  <2>2. CASE EndTick(r)
    <3>1. pc[r] = "committed" /\ crashes' = crashes
      BY <2>2 DEF EndTick
    <3>2. \A s \in Replica : pc[s] # "draining" /\ pc'[s] # "draining"
      BY <1>2, <1>3, <3>1
    <3> QED BY <1>1, <3>1, <3>2, LeftAlone
  <2>3. CASE Crash(r)
    <3>1. /\ crashes' = crashes + 1 /\ crashes \in Nat
          /\ deliveries[m] \in Nat /\ unanswered[m] \in Nat
          /\ Attempted(outbox[m]) \in Nat
      BY <2>3, BoundAssumption DEF Crash, TypeOK, Row, Attempted
    <3>2. MayRepeat(m)'
      BY <1>1, <3>1 DEF Counts, MayRepeat
    <3>3. outbox[m].status # "none" => deliveries[m] <= Attempted(outbox[m]) + crashes + 1
      <4> SUFFICES ASSUME NEW s \in Replica, Drains(s, m)
                   PROVE  deliveries[m] <= Attempted(outbox[m]) + crashes + 1
        BY <3>1 DEF Counts, Counted
      <4>1. /\ Attempted(session[s][m]) <= Attempted(outbox[m]) + 1
            /\ deliveries[m] <= Attempted(session[s][m]) + crashes
        BY DEF Counts, Counted
      <4>2. Attempted(session[s][m]) \in Nat
        BY BoundAssumption DEF TypeOK, Row, Attempted
      <4> QED BY <3>1, <4>1, <4>2
    <3>4. Counted(m)'
      BY <1>1, <2>1, <3>1, <3>3 DEF Counts, Counted
    <3> QED BY <3>2, <3>4 DEF Counts
  <2> QED BY <2>2, <2>3
<1> QED BY <1>4, <1>5, <1>6 DEF Record

\* Every step preserves the invariant.
LEMMA NextIndInv == IndInv /\ [Next]_vars => IndInv'
<1> SUFFICES ASSUME TypeOK, Record, \A m \in Message : Counts(m), [Next]_vars
             PROVE  Record' /\ \A m \in Message : Counts(m)'
  <2>1. IndInv <=> TypeOK /\ Record /\ \A m \in Message : Counts(m)
    BY PartsOfIndInv
  <2>2. IndInv' <=> TypeOK' /\ Record' /\ \A m \in Message : Counts(m)'
    BY DEF IndInv, Record, Counts, EachCrashMayRepeat, MayRepeat, AttemptsAreCounted, Counted
  <2> QED BY <2>1, <2>2, NextTypeOK
<1>1. CASE UNCHANGED vars
  <2>1. UNCHANGED <<caller, outbox, due, old, lock, pc, todo, late, session, deliveries,
                    unanswered, crashes>>
    BY <1>1 DEF vars, queue, tick, relay
  <2>2. \A m \in Message : Counts(m)'
    BY <2>1, LeftAlone
  <2> QED
    BY <2>1, <2>2 DEF Record, DrainerIsAlone, Pending, OutcomeIsTruthful, SessionIsTruthful,
                      Truthful
<1> QED
  BY <1>1, RequestKeepsParts, TimeKeepsParts, TryKeepsParts, StartKeepsParts,
     CommitKeepsParts, EndKeepsParts DEF Next, Tick

-----------------------------------------------------------------------------
\* The invariant holds of every execution, for any messages and replicas.
THEOREM Invariance == Spec => []IndInv
<1> QED BY InitIndInv, NextIndInv, PTL DEF Spec

\* Rows, sessions and counters keep their types.
THEOREM TypeCorrect == Spec => []TypeOK
<1>1. IndInv => TypeOK
  BY DEF IndInv
<1> QED BY <1>1, Invariance, PTL

\* What the relay accepts and answers it accepts once, and once more per
\* tick that died; and it is never asked beyond MAX_ATTEMPTS but for those.
THEOREM RepeatsHaveACause == Spec => []RepeatsAreExcused
<1>1. IndInv => RepeatsAreExcused
  <2> SUFFICES ASSUME IndInv, NEW m \in Message
               PROVE  /\ deliveries[m] <= 1 + crashes + unanswered[m]
                      /\ deliveries[m] <= MaxAttempts + crashes
    BY DEF RepeatsAreExcused
  <2>1. TypeOK /\ MayRepeat(m) /\ Counted(m)
    BY PartsOfIndInv DEF Counts
  <2>2. /\ crashes \in Nat /\ deliveries[m] \in Nat /\ unanswered[m] \in Nat
        /\ Attempted(outbox[m]) \in Nat /\ MaxAttempts \in Nat \ {0}
        /\ \A r \in Replica : Attempted(session[r][m]) \in Nat
    BY <2>1, BoundAssumption DEF TypeOK, Row, Attempted
  <2>3. deliveries[m] <= 1 + crashes + unanswered[m]
    BY <2>1, <2>2 DEF MayRepeat
  <2>4. deliveries[m] <= MaxAttempts + crashes
    <3>1. CASE outbox[m].status = "none"
      BY <2>1, <2>2, <3>1 DEF MayRepeat
    <3>2. CASE deliveries[m] <= Attempted(outbox[m]) + crashes
      BY <2>1, <2>2, <3>2 DEF Counted
    <3>3. ASSUME NEW r \in Replica, Drains(r, m)
          PROVE  deliveries[m] <= MaxAttempts + crashes
      <4>1. Attempted(session[r][m]) <= MaxAttempts
            /\ deliveries[m] <= Attempted(session[r][m]) + crashes
        BY <2>1, <3>3 DEF Counted
      <4> QED BY <2>2, <3>3, <4>1
    <3> QED BY <2>1, <3>1, <3>2, <3>3 DEF Counted
  <2> QED BY <2>3, <2>4
<1> QED BY <1>1, Invariance, PTL

\* What the queue records of a message is what happened to it.
THEOREM RecordIsTrue == Spec => []OutcomeIsTruthful
<1>1. IndInv => OutcomeIsTruthful
  BY DEF IndInv
<1> QED BY <1>1, Invariance, PTL
=============================================================================

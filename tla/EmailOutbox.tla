---------------------------- MODULE EmailOutbox -----------------------------
(***************************************************************************)
(* Transactional mail (email.py): a request hands a message to the relay   *)
(* at once; a message whose attempt raised is queued in email_outbox, and  *)
(* every API replica runs a loop that takes one advisory lock, reads the   *)
(* due messages, hands each to the relay again and commits the outcomes of *)
(* the whole batch in one transaction.                                     *)
(*                                                                         *)
(* An attempt that raises may have been accepted all the same: smtplib may *)
(* time out waiting for the answer to DATA, or fail on QUIT.  The code     *)
(* cannot tell, and tries again.                                           *)
(*                                                                         *)
(* A tick that raises, or whose process dies, loses the outcomes it has    *)
(* not committed; the lock goes with its connection.                       *)
(***************************************************************************)
EXTENDS Naturals, FiniteSets

CONSTANTS
  Message,      \* the messages requests may send
  Replica,      \* retry loops, one per API process
  None,         \* nobody holds the lock
  MaxAttempts,  \* MAX_ATTEMPTS
  BatchLimit,   \* the limit of retry_pending
  MaxCrashes    \* bound of the model: ticks that die

ASSUME NoneAssumption == None \notin Replica

ASSUME BoundAssumption ==
  MaxAttempts \in Nat \ {0} /\ BatchLimit \in Nat \ {0} /\ MaxCrashes \in Nat

VARIABLES
  caller,     \* per message: "new", "failed" (not queued yet) or "done"
  outbox,     \* per message: its row's status and attempts
  due,        \* messages whose next_attempt_at has passed
  old,        \* messages created more than MAX_AGE ago
  lock,       \* the replica that holds the advisory lock, or None
  pc,         \* per replica: "idle", "draining" or "committed"
  todo,       \* per replica: the messages of its batch still to try
  late,       \* per replica: its batch's messages that are too old
  session,    \* per replica: the rows its session has changed, or unchanged
  deliveries, \* how often the relay accepted each message (history)
  unanswered, \* how often it did so in an attempt that raised (history)
  crashes     \* ticks that died so far

queue == <<outbox, due, old>>
tick == <<lock, pc, todo, late, session>>
relay == <<deliveries, unanswered>>
vars == <<caller, queue, tick, relay, crashes>>

Row == [status : {"none", "pending", "sent", "abandoned"}, attempts : 0 .. MaxAttempts]
NoRow == [status |-> "none", attempts |-> 0]

TypeOK ==
  /\ caller \in [Message -> {"new", "failed", "done"}]
  /\ outbox \in [Message -> Row]
  /\ due \subseteq Message
  /\ old \subseteq Message
  /\ lock \in Replica \cup {None}
  /\ pc \in [Replica -> {"idle", "draining", "committed"}]
  /\ todo \in [Replica -> SUBSET Message]
  /\ late \in [Replica -> SUBSET Message]
  /\ session \in [Replica -> [Message -> Row]]
  /\ deliveries \in [Message -> Nat]
  /\ unanswered \in [Message -> Nat]
  /\ crashes \in 0 .. MaxCrashes

Init ==
  /\ caller = [m \in Message |-> "new"]
  /\ outbox = [m \in Message |-> NoRow]
  /\ due = {}
  /\ old = {}
  /\ lock = None
  /\ pc = [r \in Replica |-> "idle"]
  /\ todo = [r \in Replica |-> {}]
  /\ late = [r \in Replica |-> {}]
  /\ session = [r \in Replica |-> [m \in Message |-> NoRow]]
  /\ deliveries = [m \in Message |-> 0]
  /\ unanswered = [m \in Message |-> 0]
  /\ crashes = 0

Pending(m) == outbox[m].status = "pending"

-----------------------------------------------------------------------------
(* send: the first attempt, and the queue for an attempt that raised.      *)

\* provider.send returns: the relay has accepted the message.
Accept(m) ==
  /\ deliveries' = [deliveries EXCEPT ![m] = @ + 1]
  /\ UNCHANGED unanswered

\* provider.send raises: before the relay accepted the message, or after.
Raise(m) ==
  \/ UNCHANGED relay
  \/ /\ deliveries' = [deliveries EXCEPT ![m] = @ + 1]
     /\ unanswered' = [unanswered EXCEPT ![m] = @ + 1]

DeliverNow(m) ==
  /\ caller[m] = "new"
  /\ caller' = [caller EXCEPT ![m] = "done"]
  /\ Accept(m)
  /\ UNCHANGED <<queue, tick, crashes>>

FailNow(m) ==
  /\ caller[m] = "new"
  /\ caller' = [caller EXCEPT ![m] = "failed"]
  /\ Raise(m)
  /\ UNCHANGED <<queue, tick, crashes>>

Enqueue(m) ==
  /\ caller[m] = "failed"
  /\ caller' = [caller EXCEPT ![m] = "done"]
  /\ outbox' = [outbox EXCEPT ![m] = [status |-> "pending", attempts |-> 1]]
  /\ UNCHANGED <<due, old, tick, relay, crashes>>

\* The database refuses the row: the request succeeds all the same.
EnqueueFails(m) ==
  /\ caller[m] = "failed"
  /\ caller' = [caller EXCEPT ![m] = "done"]
  /\ UNCHANGED <<queue, tick, relay, crashes>>

-----------------------------------------------------------------------------
(* Time: the backoff of a message passes, and in the end its MAX_AGE.      *)

BackoffPasses(m) ==
  /\ Pending(m) /\ m \notin due
  /\ due' = due \cup {m}
  /\ UNCHANGED <<caller, outbox, old, tick, relay, crashes>>

GrowOld(m) ==
  /\ Pending(m) /\ m \notin old
  /\ old' = old \cup {m}
  /\ UNCHANGED <<caller, outbox, due, tick, relay, crashes>>

-----------------------------------------------------------------------------
(* _with_retry_lock and retry_pending.                                     *)

\* A plausible bug: exhausted messages are no longer looked at.
Due_NotExhausted == {m \in due : Pending(m) /\ outbox[m].attempts < MaxAttempts}

Due == {m \in due : Pending(m)}

\* A plausible bug: the tick runs whether or not the lock was granted.
LockIsFree_NotAsked == TRUE

LockIsFree == lock = None

\* The batch is the due messages, at most BatchLimit of them; which ones
\* (the longest due) is left open.
StartTick(r) ==
  /\ pc[r] = "idle"
  /\ LockIsFree
  /\ Due # {}
  /\ lock' = r
  /\ pc' = [pc EXCEPT ![r] = "draining"]
  /\ \E batch \in SUBSET Due :
       /\ Cardinality(batch) <= BatchLimit
       /\ batch = Due \/ Cardinality(batch) = BatchLimit
       /\ todo' = [todo EXCEPT ![r] = batch]
       /\ late' = [late EXCEPT ![r] = batch \cap old]
  /\ session' = [session EXCEPT ![r] = outbox]
  /\ UNCHANGED <<caller, queue, relay, crashes>>

GivenUp(r, m) == session[r][m].attempts >= MaxAttempts \/ m \in late[r]

Taken(r, m) ==
  pc[r] = "draining" /\ m \in todo[r] /\ todo' = [todo EXCEPT ![r] = @ \ {m}]

Abandon(r, m) ==
  /\ Taken(r, m)
  /\ GivenUp(r, m)
  /\ session' = [session EXCEPT ![r][m].status = "abandoned"]
  /\ UNCHANGED <<caller, queue, lock, pc, late, relay, crashes>>

Deliver(r, m) ==
  /\ Taken(r, m)
  /\ ~GivenUp(r, m)
  /\ Accept(m)
  /\ session' = [session EXCEPT ![r][m].status = "sent"]
  /\ UNCHANGED <<caller, queue, lock, pc, late, crashes>>

\* A plausible bug: no "continue" after a failed attempt.
Postpone_FallsThrough(r, m) ==
  /\ Taken(r, m)
  /\ ~GivenUp(r, m)
  /\ Raise(m)
  /\ session' = [session EXCEPT ![r][m].status = "sent"]
  /\ UNCHANGED <<caller, queue, lock, pc, late, crashes>>

\* A plausible bug: a failed attempt is not counted.
Postpone_Uncounted(r, m) ==
  /\ Taken(r, m)
  /\ ~GivenUp(r, m)
  /\ Raise(m)
  /\ UNCHANGED <<session, caller, queue, lock, pc, late, crashes>>

Postpone(r, m) ==
  /\ Taken(r, m)
  /\ ~GivenUp(r, m)
  /\ Raise(m)
  /\ session' = [session EXCEPT ![r][m].attempts = @ + 1]
  /\ UNCHANGED <<caller, queue, lock, pc, late, crashes>>

\* One commit for the whole batch: the rows whose values changed.  A
\* postponed message is due again when its new backoff has passed.
CommitBatch(r) ==
  LET changed == {m \in Message : session[r][m] # outbox[m] /\ Pending(m)
                                  /\ session[r][m].status # "none"}
  IN  /\ pc[r] = "draining"
      /\ todo[r] = {}
      /\ outbox' = [m \in Message |-> IF m \in changed THEN session[r][m] ELSE outbox[m]]
      /\ due' = due \ changed
      /\ pc' = [pc EXCEPT ![r] = "committed"]
      /\ UNCHANGED <<caller, old, lock, todo, late, session, relay, crashes>>

Close(r) ==
  /\ lock' = IF lock = r THEN None ELSE lock
  /\ pc' = [pc EXCEPT ![r] = "idle"]
  /\ todo' = [todo EXCEPT ![r] = {}]
  /\ late' = [late EXCEPT ![r] = {}]
  /\ session' = [session EXCEPT ![r] = [m \in Message |-> NoRow]]

EndTick(r) ==
  /\ pc[r] = "committed"
  /\ Close(r)
  /\ UNCHANGED <<caller, queue, relay, crashes>>

Crash(r) ==
  /\ pc[r] # "idle"
  /\ crashes < MaxCrashes
  /\ crashes' = crashes + 1
  /\ Close(r)
  /\ UNCHANGED <<caller, queue, relay>>

-----------------------------------------------------------------------------
Tick(r) ==
  \/ StartTick(r)
  \/ \E m \in Message : Abandon(r, m) \/ Deliver(r, m) \/ Postpone(r, m)
  \/ CommitBatch(r)
  \/ EndTick(r)

Next ==
  \/ \E m \in Message : DeliverNow(m) \/ FailNow(m) \/ Enqueue(m) \/ EnqueueFails(m)
  \/ \E m \in Message : BackoffPasses(m) \/ GrowOld(m)
  \/ \E r \in Replica : Tick(r) \/ Crash(r)

Spec == Init /\ [][Next]_vars

\* Time passes, and the loops of the live replicas keep ticking.  Nothing
\* is assumed of the relay: it may refuse for ever.
Fairness ==
  /\ \A m \in Message : WF_vars(BackoffPasses(m)) /\ WF_vars(GrowOld(m))
  /\ WF_vars(\E r \in Replica : Tick(r))

FairSpec == Spec /\ Fairness

-----------------------------------------------------------------------------
\* The queue sends no message again that it need not: what the relay
\* accepted and answered it accepts once, and once more for each tick that
\* died (the lock of _with_retry_lock, and the status read anew by every
\* batch); and however many of its answers are lost, it is asked no more
\* than MAX_ATTEMPTS times, and once more for each of those ticks.
RepeatsAreExcused ==
  \A m \in Message :
    /\ deliveries[m] <= 1 + crashes + unanswered[m]
    /\ deliveries[m] <= MaxAttempts + crashes

\* What a row, committed or in a session, says of its message is true:
\* "sent" was accepted by the relay, and only attempts or age abandon it.
Truthful(row, m) ==
  /\ row.status = "sent" => deliveries[m] > 0
  /\ row.status = "abandoned" => row.attempts >= MaxAttempts \/ m \in old

\* The queue's record is truthful (retry_pending).
OutcomeIsTruthful == \A m \in Message : Truthful(outbox[m], m)

\* So is what the drainer is about to record.
SessionIsTruthful ==
  \A r \in Replica :
    pc[r] = "draining" =>
      late[r] \subseteq old /\ \A m \in Message : Truthful(session[r][m], m)

\* The drainer holds the lock, and a message of its batch it has not tried
\* yet is still pending, as its session read it.
DrainerIsAlone ==
  \A r \in Replica :
    /\ pc[r] # "idle" => lock = r
    /\ pc[r] = "draining" =>
         \A m \in Message :
           /\ m \in todo[r] => Pending(m)
           /\ m \in todo[r] \/ ~Pending(m) => session[r][m] = outbox[m]

\* The answered acceptance a message has used up: handed over by its
\* request, recorded as sent, or delivered in the batch being drained.
Spent(m) ==
  \/ caller[m] = "done" /\ outbox[m].status = "none"
  \/ outbox[m].status = "sent"
  \/ \E r \in Replica : pc[r] = "draining" /\ session[r][m].status = "sent"

\* What is not spent was accepted and answered once for each tick that died.
EachCrashMayRepeat ==
  \A m \in Message :
    /\ deliveries[m] <= crashes + 1 + unanswered[m]
    /\ ~Spent(m) => deliveries[m] <= crashes + unanswered[m]
    /\ caller[m] # "done" => outbox[m].status = "none"
    /\ caller[m] = "new" => deliveries[m] = 0 /\ unanswered[m] = 0
    /\ caller[m] = "failed" => deliveries[m] = unanswered[m]
    /\ outbox[m].status = "none" => deliveries[m] <= 1

\* The attempts a row tells of: the failed ones, and the one that sent it.
Attempted(row) == row.attempts + (IF row.status = "sent" THEN 1 ELSE 0)

Drains(r, m) == pc[r] = "draining" /\ session[r][m].status # "none"

\* Every attempt is on the message's row, or will be when its batch is
\* committed, or a tick died with it; none is made beyond MAX_ATTEMPTS.
AttemptsAreCounted ==
  \A m \in Message :
    /\ Attempted(outbox[m]) <= MaxAttempts
    /\ outbox[m].status # "none" =>
         deliveries[m] <= Attempted(outbox[m]) + crashes \/ \E r \in Replica : Drains(r, m)
    /\ \A r \in Replica :
         Drains(r, m) =>
           /\ Attempted(session[r][m]) <= MaxAttempts
           /\ Attempted(session[r][m]) <= Attempted(outbox[m]) + 1
           /\ deliveries[m] <= Attempted(session[r][m]) + crashes

\* The inductive invariant of the queue.
IndInv ==
  /\ TypeOK
  /\ DrainerIsAlone
  /\ EachCrashMayRepeat
  /\ AttemptsAreCounted
  /\ OutcomeIsTruthful
  /\ SessionIsTruthful

\* Every queued message is delivered or given up in the end, whatever the
\* relay does: none is retried for ever, none is forgotten.
QueueDrains ==
  \A m \in Message : Pending(m) ~> outbox[m].status \in {"sent", "abandoned"}

\* "One replica drains the queue at a time, so a message is never sent
\* twice" (_with_retry_lock).
SentOnce == \A m \in Message : deliveries[m] <= 1
=============================================================================

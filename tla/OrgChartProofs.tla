--------------------------- MODULE OrgChartProofs ---------------------------
(***************************************************************************)
(* Proofs about AgentTasks and OrgChart, for any agents, tasks, replicas   *)
(* and clients, any chart and any bounds.                                  *)
(*                                                                         *)
(* One replica steps an agent at a time, and an agent's steps are a        *)
(* cooldown apart.  The argument is IndInv: a worker holds the lock of its *)
(* agent from before the cooldown is read until after the commit that      *)
(* starts the next one.                                                    *)
(*                                                                         *)
(* Pointers and assignees agree, and retired agents stay out of it, as     *)
(* long as no request commits while another is open.  Then the rows a      *)
(* request has read only fade before it commits: the scheduler and the     *)
(* deletion of tasks finish, remove and drop, and never assign.            *)
(*                                                                         *)
(* The chart is what it was configured to be, because ChartInv says so of  *)
(* the rows each open reconciliation will leave: Filled is followed level  *)
(* by level (ChartFills).  Only this part cites AgentsAreNumbered and      *)
(* ShapeAssumption.                                                        *)
(***************************************************************************)
EXTENDS OrgChart, FiniteSetTheorems, FunctionTheorems, WellFoundedInduction, TLAPS

-----------------------------------------------------------------------------
(* The ORM session: what Changes, Saved and Synced return.                 *)

\* The changed entries of a column are a column.
LEMMA ChangedIsColumn ==
  ASSUME NEW S, NEW T, NEW old \in [S -> T], NEW new \in [S -> T]
  PROVE  IsColumn(Changed(old, new), S, T)
  BY DEF IsColumn, Changed

\* Writing a column's changes gives a full column again.
LEMMA WrittenIsTotal ==
  ASSUME NEW S, NEW T, NEW old \in [S -> T], NEW diff, IsColumn(diff, S, T)
  PROVE  Written(old, diff) \in [S -> T]
  BY DEF IsColumn, Written

\* A session compared with the committed rows gives well-formed changes.
LEMMA ChangesAreADiff ==
  ASSUME db \in Rows, NEW new \in Rows
  PROVE  IsDiff(Changes(new))
<1>1. /\ IsColumn(Changed(db.status, new.status), Task, Status)
      /\ IsColumn(Changed(db.assignee, new.assignee), Task, Assignee)
  BY ChangedIsColumn DEF Rows
<1>2. /\ IsColumn(Changed(db.current, new.current), Agent, TaskOrNone)
      /\ IsColumn(Changed(db.failures, new.failures), Agent, Nat)
  BY ChangedIsColumn DEF Rows
<1>3. /\ IsColumn(Changed(db.enabled, new.enabled), Agent, BOOLEAN)
      /\ IsColumn(Changed(db.retired, new.retired), Agent, BOOLEAN)
  BY ChangedIsColumn DEF Rows
<1> QED BY <1>1, <1>2, <1>3 DEF IsDiff, Changes

\* A commit of well-formed changes leaves well-formed rows.
LEMMA SavedAreRows ==
  ASSUME db \in Rows, NEW d, IsDiff(d)
  PROVE  Saved(d) \in Rows
<1>1. /\ Written(db.status, d.status) \in [Task -> Status]
      /\ Written(db.assignee, d.assignee) \in [Task -> Assignee]
  BY WrittenIsTotal DEF Rows, IsDiff
<1>2. /\ Written(db.current, d.current) \in [Agent -> TaskOrNone]
      /\ Written(db.failures, d.failures) \in [Agent -> Nat]
  BY WrittenIsTotal DEF Rows, IsDiff
<1>3. /\ Written(db.enabled, d.enabled) \in [Agent -> BOOLEAN]
      /\ Written(db.retired, d.retired) \in [Agent -> BOOLEAN]
  BY WrittenIsTotal DEF Rows, IsDiff
<1> QED BY <1>1, <1>2, <1>3 DEF Saved, Rows

\* Moving the pointers only changes the pointers.
LEMMA SyncedAreRows ==
  ASSUME NEW s \in Rows, NEW t \in Task, NEW before
  PROVE  Synced(s, t, before) \in Rows
  BY DEF Synced, Rows, TaskOrNone

-----------------------------------------------------------------------------
(* Requests keep the types; none of them touches the scheduler.            *)

\* hierarchy.retire_agent, for any agents, writes values of the columns' types.
LEMMA RetiredAreRows ==
  ASSUME db \in Rows, NEW A
  PROVE  Retired(A) \in Rows
<1> DEFINE assignee == [t \in Task |-> IF \E a \in A : db.current[a] = t
                                       THEN None ELSE db.assignee[t]]
           current == [a \in Agent |-> IF a \in A THEN None ELSE db.current[a]]
           retired == [a \in Agent |-> a \in A \/ db.retired[a]]
           enabled == [a \in Agent |-> a \notin A /\ db.enabled[a]]
<1>1. assignee \in [Task -> Assignee] /\ current \in [Agent -> TaskOrNone]
  BY DEF Rows, Assignee, TaskOrNone
<1>2. retired \in [Agent -> BOOLEAN] /\ enabled \in [Agent -> BOOLEAN]
  OBVIOUS
<1>3. Retired(A) = [db EXCEPT !.assignee = assignee, !.current = current,
                              !.retired = retired, !.enabled = enabled]
  BY DEF Retired
<1> HIDE DEF assignee, current, retired, enabled
<1> QED BY <1>1, <1>2, <1>3 DEF Rows

\* A request that begins only opens a transaction.
LEMMA BeginKeepsTypes ==
  ASSUME TypeOK, NEW c \in Client, NEW new \in Rows, Begin(c, new)
  PROVE  TypeOK'
<1>1. IsDiff(Changes(new))
  BY ChangesAreADiff DEF TypeOK
<1>2. requests' \in 0 .. MaxRequests
  BY BoundAssumption DEF TypeOK, Begin
<1>3. pending' = [d \in Client |-> pending'[d]]
  BY DEF TypeOK, Begin
<1>4. \A d \in Client : pending'[d] = None \/ IsDiff(pending'[d])
  BY <1>1 DEF TypeOK, Begin
<1>5. UNCHANGED <<db, orgOn, recent, lock, phase, todo, seen, agent, job, edits, crashes>>
  BY DEF Begin, sched
<1> QED BY <1>2, <1>3, <1>4, <1>5 DEF TypeOK

\* Assigning a task to somebody who may have it, with any status, moves the
\* pointers along: they agree with the assignees again, if they did.
LEMMA SyncedIsSound ==
  ASSUME db \in Rows, NEW t \in Task, NEW who \in Assignee, NEW st \in Status, Exists(t),
         who # db.assignee[t] => Assignable(who), Sound(db), st \in {"open", "done"}
  PROVE  Sound(Synced([db EXCEPT !.assignee[t] = who, !.status[t] = st], t, db.assignee[t]))
<1> DEFINE s == [db EXCEPT !.assignee[t] = who, !.status[t] = st]
           n == Synced(s, t, db.assignee[t])
<1>1. /\ n.assignee = [db.assignee EXCEPT ![t] = who] /\ n.status = [db.status EXCEPT ![t] = st]
      /\ n.retired = db.retired /\ n.enabled = db.enabled
      /\ db.status \in [Task -> Status] /\ db.assignee \in [Task -> Assignee]
  BY DEF Synced, Rows
<1>2. ASSUME NEW a \in Agent
      PROVE  \/ n.current[a] = None
             \/ n.current[a] = t /\ a = who /\ who # db.assignee[t]
             \/ /\ n.current[a] = db.current[a]
                /\ db.current[a] = t => ~(who # db.assignee[t] /\ a = db.assignee[t])
  BY <1>1 DEF Synced, Rows
<1>3. ASSUME NEW a \in Agent, NEW x \in Task, n.current[a] = x
      PROVE  n.status[x] \in {"open", "done"} /\ n.assignee[x] = a
  <2>1. x # None
    BY NoneAssumption
  <2>2. CASE n.current[a] = t /\ a = who
    BY <1>1, <1>3, <2>2
  <2>3. CASE /\ n.current[a] = db.current[a]
             /\ db.current[a] = t => ~(who # db.assignee[t] /\ a = db.assignee[t])
    <3>1. db.status[x] \in {"open", "done"} /\ db.assignee[x] = a
      BY <1>3, <2>3 DEF Sound
    <3>2. CASE x = t
      BY <1>1, <1>3, <2>3, <3>1, <3>2
    <3>3. CASE x # t
      BY <1>1, <3>1, <3>3
    <3> QED BY <3>2, <3>3
  <2> QED BY <1>2, <1>3, <2>1, <2>2, <2>3
<1>4. ASSUME NEW a \in Agent, n.retired[a] PROVE n.current[a] = None /\ ~n.enabled[a]
  BY <1>1, <1>2, <1>4 DEF Sound, Assignable
<1> QED BY <1>3, <1>4 DEF Sound

\* Retiring agents takes their tasks from them, and nobody else's.
LEMMA RetiredIsSound ==
  ASSUME db \in Rows, NEW A \in SUBSET Agent, Sound(db)
  PROVE  Sound(Retired(A))
<1> DEFINE n == Retired(A)
<1>1. /\ n.status = db.status
      /\ \A t \in Task : n.assignee[t] = IF \E a \in A : db.current[a] = t
                                         THEN None ELSE db.assignee[t]
      /\ \A a \in Agent : /\ n.current[a] = IF a \in A THEN None ELSE db.current[a]
                          /\ n.retired[a] = (a \in A \/ db.retired[a])
                          /\ n.enabled[a] = (a \notin A /\ db.enabled[a])
  BY DEF Retired, Rows
<1>2. ASSUME NEW a \in Agent, NEW t \in Task, n.current[a] = t
      PROVE  n.status[t] \in {"open", "done"} /\ n.assignee[t] = a
  <2>1. a \notin A /\ db.current[a] = t
    BY <1>1, <1>2, NoneAssumption
  <2>2. db.status[t] \in {"open", "done"} /\ db.assignee[t] = a
    BY <2>1 DEF Sound
  <2>3. ~ \E b \in A : db.current[b] = t
    BY <2>1, <2>2 DEF Sound
  <2> QED BY <1>1, <2>2, <2>3
<1>3. ASSUME NEW a \in Agent, n.retired[a] PROVE n.current[a] = None /\ ~n.enabled[a]
  BY <1>1, <1>3 DEF Sound
<1> QED BY <1>2, <1>3 DEF Sound

\* What every handler that works on a session has read, checked and changed: it
\* opens a transaction on well-formed rows, and on sound ones if it read such.
LEMMA ClientStepBegins ==
  ASSUME db \in Rows, NEW c \in Client, ClientStep(c)
  PROVE  \E new \in Rows : Begin(c, new) /\ (Sound(db) => Sound(new))
<1>1. ASSUME NEW t \in Task, NEW who \in Assignee, CreateTask(c, t, who)
      PROVE  \E new \in Rows : Begin(c, new) /\ (Sound(db) => Sound(new))
  <2> DEFINE new == [db EXCEPT !.status[t] = "open", !.assignee[t] = who]
  <2>1. new \in Rows
    BY DEF Rows, Status
  <2>2. ASSUME Sound(db) PROVE Sound(new)
    \* Nobody points at a task that is not there yet.
    <3>1. \A a \in Agent : db.current[a] # t
      BY <1>1, <2>2 DEF CreateTask, Sound
    <3> QED BY <2>2, <3>1 DEF Sound, Rows
  <2> QED BY <1>1, <2>1, <2>2 DEF CreateTask
<1>2. ASSUME NEW t \in Task, NEW who \in Assignee, NEW st \in {"open", "done"},
             UpdateTask(c, t, who, st)
      PROVE  \E new \in Rows : Begin(c, new) /\ (Sound(db) => Sound(new))
  <2> DEFINE s == [db EXCEPT !.assignee[t] = who, !.status[t] = st]
             new == Synced(s, t, db.assignee[t])
  <2>1. s \in Rows
    BY DEF Rows, Status
  <2>2. new \in Rows
    BY <2>1, SyncedAreRows
  <2>3. Sound(db) => Sound(new)
    BY <1>2, SyncedIsSound DEF UpdateTask, Status
  <2>4. Begin(c, new)
    BY <1>2 DEF UpdateTask
  <2> QED BY <2>2, <2>3, <2>4
<1>3. ASSUME NEW t \in Task, NEW a \in Agent, DelegateTask(c, t, a)
      PROVE  \E new \in Rows : Begin(c, new) /\ (Sound(db) => Sound(new))
  <2> DEFINE s == [db EXCEPT !.assignee[t] = a]
             synced == Synced(s, t, db.assignee[t])
             new == [synced EXCEPT !.failures[a] = 0]
  <2>1. s \in Rows
    BY DEF Rows, Assignee
  <2>2. synced \in Rows
    BY <2>1, SyncedAreRows
  <2>3. new \in Rows
    BY <2>2 DEF Rows
  <2>4. ASSUME Sound(db) PROVE Sound(new)
    <3>1. s = [db EXCEPT !.assignee[t] = a, !.status[t] = db.status[t]]
      BY DEF Rows
    <3>2. Sound(synced)
      BY <1>3, <2>4, <3>1, SyncedIsSound DEF DelegateTask, Exists, Assignee, Status
    <3> QED BY <2>2, <3>2 DEF Sound, Rows
  <2>5. Begin(c, new)
    BY <1>3 DEF DelegateTask
  <2> QED BY <2>3, <2>4, <2>5
<1>4. ASSUME NEW a \in Agent, RetireAgent(c, a)
      PROVE  \E new \in Rows : Begin(c, new) /\ (Sound(db) => Sound(new))
  BY <1>4, RetiredAreRows, RetiredIsSound DEF RetireAgent
<1>5. ASSUME NEW a \in Agent, MessageAgent(c, a)
      PROVE  \E new \in Rows : Begin(c, new) /\ (Sound(db) => Sound(new))
  <2> DEFINE new == [db EXCEPT !.failures[a] = 0]
  <2>1. new \in Rows /\ (Sound(db) => Sound(new))
    BY DEF Rows, Sound
  <2> QED BY <1>5, <2>1 DEF MessageAgent
<1>6. ASSUME NEW a \in Agent, NEW on \in BOOLEAN, SwitchAgent(c, a, on)
      PROVE  \E new \in Rows : Begin(c, new) /\ (Sound(db) => Sound(new))
  <2> DEFINE new == [db EXCEPT !.enabled[a] = on]
  <2>1. new \in Rows
    BY DEF Rows
  <2>2. Sound(db) => Sound(new)
    BY <1>6 DEF Rows, Sound, SwitchAgent
  <2> QED BY <1>6, <2>1, <2>2 DEF SwitchAgent
<1> QED BY <1>1, <1>2, <1>3, <1>4, <1>5, <1>6 DEF ClientStep

\* The handlers that work on a session.
LEMMA ClientStepKeepsTypes ==
  ASSUME TypeOK, NEW c \in Client, ClientStep(c)
  PROVE  TypeOK'
<1>1. PICK new \in Rows : Begin(c, new)
  BY ClientStepBegins DEF TypeOK
<1> QED BY <1>1, BeginKeepsTypes

\* Ending a request, deleting a task, switching the workspace.
LEMMA OtherRequestsKeepTypes ==
  ASSUME TypeOK,
         \/ \E c \in Client : Commit(c) \/ Rollback(c)
         \/ \E t \in Task : DeleteTask(t)
         \/ SwitchWorkspace
  PROVE  TypeOK'
<1>0. db \in Rows
  BY DEF TypeOK
<1>1. ASSUME NEW c \in Client, Commit(c) PROVE TypeOK'
  <2>1. db' \in Rows
    BY <1>0, <1>1, SavedAreRows DEF Commit, TypeOK
  <2>2. /\ pending' = [d \in Client |-> pending'[d]]
        /\ \A d \in Client : pending'[d] = None \/ IsDiff(pending'[d])
    BY <1>1 DEF Commit, TypeOK
  <2> QED BY <1>1, <2>1, <2>2 DEF Commit, TypeOK, sched
<1>2. ASSUME NEW c \in Client, Rollback(c) PROVE TypeOK'
  <2>1. /\ pending' = [d \in Client |-> pending'[d]]
        /\ \A d \in Client : pending'[d] = None \/ IsDiff(pending'[d])
    BY <1>2 DEF Rollback, TypeOK
  <2> QED BY <1>2, <2>1 DEF Rollback, TypeOK, sched
<1>3. ASSUME NEW t \in Task, DeleteTask(t) PROVE TypeOK'
  <2>1. db' \in Rows
    BY <1>0, <1>3 DEF DeleteTask, Rows, Status, Assignee, TaskOrNone
  <2>2. requests' \in 0 .. MaxRequests
    <3>1. requests \in 0 .. MaxRequests /\ requests < MaxRequests /\ requests' = requests + 1
      BY <1>3 DEF DeleteTask, TypeOK
    <3> QED BY <3>1, BoundAssumption
  <2> QED BY <1>3, <2>1, <2>2 DEF DeleteTask, TypeOK, sched
<1>4. ASSUME SwitchWorkspace PROVE TypeOK'
  <2>1. requests' \in 0 .. MaxRequests
    BY <1>4, BoundAssumption DEF SwitchWorkspace, TypeOK
  <2> QED BY <1>4, <2>1 DEF SwitchWorkspace, TypeOK, sched
<1> QED BY <1>1, <1>2, <1>3, <1>4

-----------------------------------------------------------------------------
(* The scheduler keeps the types.                                          *)


\* A replica that has left its agent holds nothing of it.
LEMMA LeaveKeepsTypes ==
  ASSUME TypeOK, NEW r \in Replica, Leave(r)
  PROVE  /\ lock' \in [Agent -> Replica \cup {None}]
         /\ phase' \in [Replica -> Phases]
         /\ agent' \in [Replica -> Agent \cup {None}]
         /\ job' \in [Replica -> TaskRow \cup {None}]
  BY DEF TypeOK, Leave, Unlocked, Phases

\* An expired session keeps no row.
LEMMA ExpiredKeepsTypes ==
  ASSUME TypeOK, NEW r \in Replica
  PROVE  Expired(r) \in [Replica -> [Agent -> AgentRow \cup {None}]]
  BY DEF TypeOK, Expired

\* A row that is read is an agent's row.
LEMMA RowsAreRead ==
  ASSUME db \in Rows, NEW a \in Agent
  PROVE  RowOf(a) \in AgentRow
  BY DEF Rows, RowOf, AgentRow

\* What a tick does before and between its steps.
LEMMA TickKeepsTypes ==
  ASSUME TypeOK, NEW r \in Replica,
         \/ StartTick(r) \/ EndTick(r) \/ Crash(r) \/ PassOver(r)
         \/ \E a \in Agent : TakeLock(r, a) \/ PassBusy(r, a)
  PROVE  TypeOK'
<1>0. db \in Rows
  BY DEF TypeOK
<1>1. CASE StartTick(r)
  <2>1. [a \in Agent |-> IF a \in Eligible THEN RowOf(a) ELSE None]
          \in [Agent -> AgentRow \cup {None}]
    BY <1>0, RowsAreRead
  <2>2. seen' \in [Replica -> [Agent -> AgentRow \cup {None}]]
    BY <1>1, <2>1 DEF StartTick, TypeOK
  <2>3. Eligible \in SUBSET Agent
    BY DEF Eligible
  <2>4. todo' \in [Replica -> SUBSET Agent] /\ phase' \in [Replica -> Phases]
    BY <1>1, <2>3 DEF StartTick, TypeOK, Phases
  <2> QED BY <1>1, <2>2, <2>4 DEF StartTick, TypeOK
<1>2. CASE EndTick(r)
  <2>1. seen' \in [Replica -> [Agent -> AgentRow \cup {None}]]
    BY <1>2 DEF EndTick, TypeOK
  <2>2. phase' \in [Replica -> Phases]
    BY <1>2 DEF EndTick, TypeOK, Phases
  <2> QED BY <1>2, <2>1, <2>2 DEF EndTick, TypeOK
<1>3. CASE Crash(r)
  <2>1. seen' \in [Replica -> [Agent -> AgentRow \cup {None}]]
    BY <1>3, ExpiredKeepsTypes DEF Crash
  <2>2. lock' \in [Agent -> Replica \cup {None}]
    BY <1>3 DEF Crash, TypeOK, Unlocked
  <2>3. crashes' \in 0 .. MaxCrashes
    BY <1>3, BoundAssumption DEF Crash, TypeOK
  <2>4. phase' \in [Replica -> Phases] /\ todo' \in [Replica -> SUBSET Agent]
    BY <1>3 DEF Crash, TypeOK, Phases
  <2>5. agent' \in [Replica -> Agent \cup {None}] /\ job' \in [Replica -> TaskRow \cup {None}]
    BY <1>3 DEF Crash, TypeOK
  <2> QED BY <1>3, <2>1, <2>2, <2>3, <2>4, <2>5 DEF Crash, TypeOK
<1>4. CASE PassOver(r)
  BY <1>4, LeaveKeepsTypes DEF PassOver, TypeOK
<1>5. ASSUME NEW a \in Agent, TakeLock(r, a) PROVE TypeOK'
  <2>1. seen' \in [Replica -> [Agent -> AgentRow \cup {None}]]
    BY <1>0, <1>5, RowsAreRead DEF TakeLock, TypeOK
  <2>2. lock' \in [Agent -> Replica \cup {None}] /\ phase' \in [Replica -> Phases]
    BY <1>5 DEF TakeLock, TypeOK, Phases
  <2>3. todo' \in [Replica -> SUBSET Agent] /\ agent' \in [Replica -> Agent \cup {None}]
    BY <1>5 DEF TakeLock, TypeOK
  <2> QED BY <1>5, <2>1, <2>2, <2>3 DEF TakeLock, TypeOK
<1>6. ASSUME NEW a \in Agent, PassBusy(r, a) PROVE TypeOK'
  <2>1. todo' \in [Replica -> SUBSET Agent]
    BY <1>6 DEF PassBusy, TypeOK
  <2> QED BY <1>6, <2>1 DEF PassBusy, TypeOK
<1> QED BY <1>1, <1>2, <1>3, <1>4, <1>5, <1>6

\* The task a step reads is a task: its agent's row names one that exists.
LEMMA BeginReadsATask ==
  ASSUME TypeOK, WorkersHaveTheirRows, NEW r \in Replica, BeginStep(r)
  PROVE  job'[r] \in TaskRow /\ job' = [job EXCEPT ![r] = job'[r]]
<1>1. Pointed(r) \in Task
  <2>1. Pointed(r) # None /\ phase[r] = "locked"
    BY DEF BeginStep, HasTask, MayStep
  <2>2. seen[r][agent[r]] \in AgentRow
    BY <2>1 DEF WorkersHaveTheirRows
  <2> QED BY <2>1, <2>2 DEF AgentRow, Pointed, TaskOrNone
<1>2. [id |-> Pointed(r), status |-> db.status[Pointed(r)]] \in TaskRow
  BY <1>1 DEF TypeOK, Rows, TaskRow
<1> QED BY <1>2 DEF BeginStep, TypeOK

\* A step that reads its task, asks the provider and edits the repository.
LEMMA StepKeepsTypes ==
  ASSUME TypeOK, WorkersHoldTheLock, WorkersHaveTheirRows, NEW r \in Replica,
         BeginStep(r) \/ EditRepository(r) \/ Answer(r) \/ ProviderError(r)
  PROVE  TypeOK'
<1>1. CASE BeginStep(r)
  <2>1. job' \in [Replica -> TaskRow \cup {None}]
    BY <1>1, BeginReadsATask DEF TypeOK
  <2>2. phase' \in [Replica -> Phases]
    BY <1>1 DEF BeginStep, TypeOK, Phases
  <2> QED BY <1>1, <2>1, <2>2 DEF BeginStep, TypeOK
<1>2. CASE EditRepository(r)
  <2>1. agent[r] \in Agent /\ job[r].id \in Task
    BY <1>2 DEF EditRepository, WorkersHoldTheLock, WorkersHaveTheirRows, Stepping, TaskRow
  <2>2. edits' \subseteq Agent \X Task
    BY <1>2, <2>1 DEF EditRepository, TypeOK
  <2> QED BY <1>2, <2>2 DEF EditRepository, TypeOK, sched
<1>3. CASE Answer(r)
  <2>1. phase' \in [Replica -> Phases]
    BY <1>3 DEF Answer, TypeOK, Phases
  <2> QED BY <1>3, <2>1 DEF Answer, TypeOK
<1>4. CASE ProviderError(r)
  <2>1. phase' \in [Replica -> Phases]
    BY <1>4 DEF ProviderError, TypeOK, Phases
  <2> QED BY <1>4, <2>1 DEF ProviderError, TypeOK
<1> QED BY <1>1, <1>2, <1>3, <1>4

\* What a step changed is well formed: a counter one higher, or reset.
LEMMA StepChangesAreADiff ==
  ASSUME WorkersHoldTheLock, WorkersHaveTheirRows, NEW r \in Replica, phase[r] \in Stepping
  PROVE  IsDiff(StepChanges(r))
<1> DEFINE d == StepChanges(r)
<1>1. /\ agent[r] \in Agent
      /\ job[r].id \in Task /\ job[r].status \in Status
      /\ seen[r][agent[r]].current \in TaskOrNone /\ seen[r][agent[r]].failures \in Nat
  BY DEF WorkersHoldTheLock, WorkersHaveTheirRows, TaskRow, AgentRow
<1>2. IsColumn(d.status, Task, Status)
  BY <1>1 DEF StepChanges, IsColumn, Status
<1>3. IsColumn(d.current, Agent, TaskOrNone)
  BY <1>1 DEF StepChanges, IsColumn, TaskOrNone
<1>4. IsColumn(d.failures, Agent, Nat)
  BY <1>1 DEF StepChanges, IsColumn
<1>5. /\ IsColumn(d.assignee, Task, Assignee)
      /\ IsColumn(d.enabled, Agent, BOOLEAN)
      /\ IsColumn(d.retired, Agent, BOOLEAN)
  BY DEF StepChanges, IsColumn
<1>6. d = [status |-> d.status, assignee |-> d.assignee, current |-> d.current,
           failures |-> d.failures, enabled |-> d.enabled, retired |-> d.retired]
  BY DEF StepChanges
<1> QED BY <1>2, <1>3, <1>4, <1>5, <1>6 DEF IsDiff

\* What ends a step.
LEMMA EndOfStepKeepsTypes ==
  ASSUME TypeOK, WorkersHoldTheLock, WorkersHaveTheirRows, NEW r \in Replica,
         ClearPointer(r) \/ SaveStep(r) \/ FailStep(r)
  PROVE  TypeOK'
<1>0. db \in Rows
  BY DEF TypeOK
<1>1. CASE ClearPointer(r)
  <2>1. db' \in Rows
    BY <1>0, <1>1 DEF ClearPointer, Rows, TaskOrNone
  <2>2. Leave(r) /\ seen' = Expired(r)
    BY <1>1 DEF ClearPointer
  <2> QED BY <1>1, <2>1, <2>2, LeaveKeepsTypes, ExpiredKeepsTypes DEF ClearPointer, TypeOK
<1>2. CASE SaveStep(r)
  <2>1. phase[r] \in Stepping /\ agent[r] \in Agent
    BY <1>2 DEF SaveStep, Saving, Stepping, WorkersHoldTheLock
  <2>2. db' \in Rows
    BY <1>0, <1>2, <2>1, StepChangesAreADiff, SavedAreRows DEF SaveStep
  <2>3. recent' \subseteq Agent
    BY <1>2, <2>1 DEF SaveStep, TypeOK
  <2>4. Leave(r) /\ seen' = Expired(r)
    BY <1>2 DEF SaveStep
  <2> QED BY <1>2, <2>2, <2>3, <2>4, LeaveKeepsTypes, ExpiredKeepsTypes DEF SaveStep, TypeOK
<1>3. CASE FailStep(r)
  <2>1. Leave(r) /\ seen' = Expired(r)
    BY <1>3 DEF FailStep
  <2> QED BY <1>3, <2>1, LeaveKeepsTypes, ExpiredKeepsTypes DEF FailStep, TypeOK
<1> QED BY <1>1, <1>2, <1>3

\* Time passing, and nothing happening.
LEMMA IdleKeepsTypes ==
  ASSUME TypeOK, (\E a \in Agent : CoolDown(a)) \/ UNCHANGED vars
  PROVE  TypeOK'
<1>1. ASSUME NEW a \in Agent, CoolDown(a) PROVE TypeOK'
  BY <1>1 DEF CoolDown, TypeOK, sched
<1>2. CASE UNCHANGED vars
  BY <1>2 DEF TypeOK, vars, sched
<1> QED BY <1>1, <1>2

\* Every step of the system keeps the types.
LEMMA NextTypeOK ==
  ASSUME TypeOK, WorkersHoldTheLock, WorkersHaveTheirRows, [Next]_vars
  PROVE  TypeOK'
  BY ClientStepKeepsTypes, OtherRequestsKeepTypes, TickKeepsTypes, StepKeepsTypes,
     EndOfStepKeepsTypes, IdleKeepsTypes DEF Next, Otherwise, ReplicaStep

-----------------------------------------------------------------------------
(* The lock protocol.                                                      *)

\* The whole argument, short of the types.
Protocol == WorkersHoldTheLock /\ WorkersHaveTheirRows /\ SteppedHasCooledDown

\* Because a lock has one holder, two workers of one agent are the same.
LEMMA OneHolder ==
  ASSUME WorkersHoldTheLock
  PROVE  OneStepPerAgent
  BY DEF WorkersHoldTheLock, OneStepPerAgent

\* Steps that leave the scheduler's variables alone, or only cool an agent down.
LEMMA OthersKeepProtocol ==
  ASSUME Protocol, UNCHANGED sched, recent' \subseteq recent
  PROVE  Protocol'
  BY DEF Protocol, WorkersHoldTheLock, WorkersHaveTheirRows, SteppedHasCooledDown, sched

\* A replica that leaves its agent gives up its own lock and no other's.
LEMMA LeaveKeepsTheOthers ==
  ASSUME TypeOK, WorkersHoldTheLock, NEW r \in Replica, Leave(r)
  PROVE  /\ phase'[r] = "visiting"
         /\ \A s \in Replica \ {r} :
              /\ phase'[s] = phase[s] /\ agent'[s] = agent[s] /\ job'[s] = job[s]
              /\ phase[s] \in {"locked"} \cup Stepping =>
                   agent[s] \in Agent /\ lock'[agent[s]] = s
<1>1. /\ phase'[r] = "visiting"
      /\ \A s \in Replica \ {r} :
           phase'[s] = phase[s] /\ agent'[s] = agent[s] /\ job'[s] = job[s]
  BY DEF Leave, TypeOK
<1>2. ASSUME NEW s \in Replica \ {r}, phase[s] \in {"locked"} \cup Stepping
      PROVE  agent[s] \in Agent /\ lock'[agent[s]] = s
  BY <1>2 DEF WorkersHoldTheLock, Leave, Unlocked
<1> QED BY <1>1, <1>2

\* Leaving an agent keeps the protocol.  An agent that has just been stepped
\* becomes recent, and no other replica is stepping it.
LEMMA LeaveKeepsProtocol ==
  ASSUME TypeOK, Protocol, NEW r \in Replica, Leave(r),
         seen' = seen \/ seen' = Expired(r),
         recent' \subseteq recent \cup {agent[r]},
         recent' \subseteq recent \/ phase[r] \in Stepping
  PROVE  Protocol'
<1>0. WorkersHoldTheLock /\ OneStepPerAgent
  BY OneHolder DEF Protocol
<1>1. WorkersHoldTheLock'
  BY <1>0, LeaveKeepsTheOthers DEF WorkersHoldTheLock, Stepping
<1>2. WorkersHaveTheirRows'
  <2>1. \A s \in Replica \ {r} : seen'[s] = seen[s]
    BY DEF Expired, TypeOK
  <2> QED BY <1>0, <2>1, LeaveKeepsTheOthers DEF Protocol, WorkersHaveTheirRows, Stepping
<1>3. SteppedHasCooledDown'
  <2> SUFFICES ASSUME NEW s \in Replica, phase'[s] \in Stepping
               PROVE  agent'[s] \notin recent'
    BY DEF SteppedHasCooledDown
  <2>1. s # r /\ phase[s] \in Stepping /\ agent'[s] = agent[s]
    BY <1>0, LeaveKeepsTheOthers DEF Stepping
  <2>2. agent[s] \notin recent
    BY <2>1 DEF Protocol, SteppedHasCooledDown
  <2>3. phase[r] \in Stepping => agent[s] # agent[r]
    BY <1>0, <2>1 DEF OneStepPerAgent
  <2> QED BY <2>1, <2>2, <2>3
<1> QED BY <1>1, <1>2, <1>3 DEF Protocol

\* The steps of a tick outside its steps proper.
LEMMA TickKeepsProtocol ==
  ASSUME TypeOK, Protocol, NEW r \in Replica,
         \/ StartTick(r) \/ EndTick(r) \/ Crash(r) \/ PassOver(r)
         \/ \E a \in Agent : TakeLock(r, a) \/ PassBusy(r, a)
  PROVE  Protocol'
<1> USE DEF Protocol, WorkersHoldTheLock, WorkersHaveTheirRows, SteppedHasCooledDown, Stepping
<1>0. db \in Rows
  BY DEF TypeOK
<1>1. CASE StartTick(r)
  BY <1>1 DEF StartTick, TypeOK
<1>2. CASE EndTick(r)
  BY <1>2 DEF EndTick, TypeOK
<1>3. CASE Crash(r)
  BY <1>3, NoneAssumption DEF Crash, Unlocked, Expired, TypeOK
<1>4. CASE PassOver(r)
  BY <1>4, LeaveKeepsProtocol DEF PassOver
<1>5. ASSUME NEW a \in Agent, TakeLock(r, a) PROVE Protocol'
  \* The lock was free, so no other replica works on this agent.
  <2>1. /\ lock' = [lock EXCEPT ![a] = r] /\ lock[a] = None
        /\ phase' = [phase EXCEPT ![r] = "locked"] /\ agent' = [agent EXCEPT ![r] = a]
        /\ job' = job /\ recent' = recent
    BY <1>5 DEF TakeLock, LockIsFree
  <2>2. \A s \in Replica \ {r} : phase[s] \in {"locked"} \cup Stepping => agent[s] # a
    BY <2>1, NoneAssumption
  <2>3. seen'[r][a] \in AgentRow
    <3>1. RowOf(a) \in AgentRow
      BY <1>0, RowsAreRead
    <3> QED BY <1>5, <3>1 DEF TakeLock, TypeOK
  <2>4. \A s \in Replica \ {r} : seen'[s] = seen[s]
    BY <1>5 DEF TakeLock, TypeOK
  <2>5. WorkersHoldTheLock'
    BY <2>1, <2>2 DEF TypeOK
  <2>6. WorkersHaveTheirRows'
    BY <2>1, <2>3, <2>4 DEF TypeOK
  <2>7. SteppedHasCooledDown'
    BY <2>1 DEF TypeOK
  <2> QED BY <2>5, <2>6, <2>7
<1>6. ASSUME NEW a \in Agent, PassBusy(r, a) PROVE Protocol'
  BY <1>6 DEF PassBusy
<1> QED BY <1>1, <1>2, <1>3, <1>4, <1>5, <1>6

\* The step proper: the cooldown read under the lock is still true at its end.
LEMMA StepKeepsProtocol ==
  ASSUME TypeOK, Protocol, NEW r \in Replica,
         \/ BeginStep(r) \/ EditRepository(r) \/ Answer(r) \/ ProviderError(r)
         \/ ClearPointer(r) \/ SaveStep(r) \/ FailStep(r)
  PROVE  Protocol'
<1>1. CASE BeginStep(r)
  <2> USE DEF Protocol, WorkersHoldTheLock, WorkersHaveTheirRows, SteppedHasCooledDown, Stepping
  <2>1. /\ phase[r] = "locked" /\ agent[r] \notin recent
        /\ phase'[r] \in {"asking", "failing"} /\ job'[r] \in TaskRow
        /\ UNCHANGED <<lock, seen, agent, recent>>
    BY <1>1, BeginReadsATask DEF BeginStep, MayStep, CooledDown, TypeOK
  <2>2. \A s \in Replica \ {r} : phase'[s] = phase[s] /\ job'[s] = job[s]
    BY <1>1 DEF BeginStep, TypeOK
  <2> QED BY <2>1, <2>2
<1>2. CASE EditRepository(r)
  BY <1>2, OthersKeepProtocol DEF EditRepository
<1>3. CASE Answer(r) \/ ProviderError(r)
  <2> USE DEF Protocol, WorkersHoldTheLock, WorkersHaveTheirRows, SteppedHasCooledDown, Stepping
  <2>1. /\ phase[r] = "asking" /\ phase'[r] \in Stepping
        /\ \A s \in Replica \ {r} : phase'[s] = phase[s]
        /\ UNCHANGED <<lock, seen, agent, job, recent>>
    BY <1>3 DEF Answer, ProviderError, TypeOK
  <2> QED BY <2>1
<1>4. CASE ClearPointer(r)
  BY <1>4, LeaveKeepsProtocol DEF ClearPointer
<1>5. CASE SaveStep(r)
  <2>1. phase[r] \in Stepping /\ recent' = recent \cup {agent[r]}
    BY <1>5 DEF SaveStep, Saving, Stepping
  <2> QED BY <1>5, <2>1, LeaveKeepsProtocol DEF SaveStep
<1>6. CASE FailStep(r)
  BY <1>6, LeaveKeepsProtocol DEF FailStep
<1> QED BY <1>1, <1>2, <1>3, <1>4, <1>5, <1>6

-----------------------------------------------------------------------------
(* The theorems.                                                           *)

\* Nobody works when the service starts.
LEMMA InitIndInv == Init => IndInv
<1> SUFFICES ASSUME Init PROVE IndInv
  OBVIOUS
<1>1. db \in Rows
  <2>1. db \in [status : [Task -> {"new", "open"}], assignee : [Task -> Agent \cup {None}],
                current : [Agent -> TaskOrNone], failures : {[a \in Agent |-> 0]},
                enabled : {[a \in Agent |-> a \in Agent]},
                retired : {[a \in Agent |-> a \notin Agent]}]
    BY DEF Init, StaffedBy
  <2>2. db = [status |-> db.status, assignee |-> db.assignee, current |-> db.current,
              failures |-> db.failures, enabled |-> db.enabled, retired |-> db.retired]
    BY <2>1
  <2>3. db.status \in [Task -> Status] /\ db.assignee \in [Task -> Assignee]
    BY <2>1 DEF Status, Assignee
  <2>4. db.current \in [Agent -> TaskOrNone] /\ db.failures \in [Agent -> Nat]
    BY <2>1
  <2>5. db.enabled \in [Agent -> BOOLEAN] /\ db.retired \in [Agent -> BOOLEAN]
    BY <2>1
  <2> QED BY <2>2, <2>3, <2>4, <2>5 DEF Rows
<1>2. TypeOK
  BY <1>1, BoundAssumption DEF Init, Quiet, TypeOK, Phases
<1>3. \A r \in Replica : phase[r] = "idle"
  BY DEF Init, Quiet
<1> QED
  BY <1>2, <1>3 DEF IndInv, WorkersHoldTheLock, WorkersHaveTheirRows, OneStepPerAgent,
                    SteppedHasCooledDown, Stepping

\* Every step preserves the inductive invariant.
LEMMA NextIndInv == IndInv /\ [Next]_vars => IndInv'
<1> SUFFICES ASSUME TypeOK, Protocol, [Next]_vars PROVE TypeOK' /\ Protocol'
  <2>1. Protocol' => OneStepPerAgent'
    BY DEF Protocol, WorkersHoldTheLock, OneStepPerAgent
  <2> QED BY <2>1 DEF IndInv, Protocol
<1>1. TypeOK'
  BY NextTypeOK DEF Protocol
<1>2. ASSUME NEW c \in Client, ClientStep(c) \/ Commit(c) \/ Rollback(c) PROVE Protocol'
  <2>1. UNCHANGED sched /\ recent' = recent
    BY <1>2 DEF ClientStep, CreateTask, UpdateTask, DelegateTask, RetireAgent,
                MessageAgent, SwitchAgent, Begin, Commit, Rollback
  <2> QED BY <2>1, OthersKeepProtocol
<1>3. ASSUME (\E t \in Task : DeleteTask(t)) \/ SwitchWorkspace PROVE Protocol'
  <2>1. UNCHANGED sched /\ recent' = recent
    BY <1>3 DEF DeleteTask, SwitchWorkspace
  <2> QED BY <2>1, OthersKeepProtocol
<1>4. ASSUME NEW r \in Replica, ReplicaStep(r) \/ EditRepository(r) \/ Crash(r)
      PROVE  Protocol'
  BY <1>4, TickKeepsProtocol, StepKeepsProtocol DEF ReplicaStep
<1>5. ASSUME (\E a \in Agent : CoolDown(a)) \/ UNCHANGED vars PROVE Protocol'
  <2>1. UNCHANGED sched /\ recent' \subseteq recent
    BY <1>5 DEF CoolDown, vars
  <2> QED BY <2>1, OthersKeepProtocol
<1> QED BY <1>1, <1>2, <1>3, <1>4, <1>5 DEF Next, Otherwise

\* The inductive invariant holds of every execution of the scheduler and the
\* API, for any numbers of agents, tasks, replicas, clients and crashes.
THEOREM Invariance == Spec => []IndInv
<1> QED BY InitIndInv, NextIndInv, PTL DEF Spec

\* The variables of the scheduler and the rows always have their types.
THEOREM TypeCorrect == Spec => []TypeOK
<1>1. IndInv => TypeOK
  BY DEF IndInv
<1> QED BY <1>1, Invariance, PTL

\* Two replicas never step one agent at once (agent_step_lock), whatever the
\* interleaving, and however many of them crash with the lock in hand.
THEOREM MutualExclusion == Spec => []OneStepPerAgent
<1>1. IndInv => OneStepPerAgent
  BY DEF IndInv
<1> QED BY <1>1, Invariance, PTL

\* No step is saved while the agent's previous one is within the cooldown:
\* the last_execution_at read under the lock (_stepped_recently) is not stale.
THEOREM Spacing == Spec => StepsAreSpaced
<1>1. IndInv /\ [Next]_vars => [\A r \in Replica : SaveStep(r) => agent[r] \notin recent]_vars
  BY DEF IndInv, SteppedHasCooledDown, SaveStep, Saving, Stepping
<1> QED BY <1>1, Invariance, PTL DEF Spec, StepsAreSpaced
-----------------------------------------------------------------------------
(* Assignments are sound while requests do not race.                       *)

\* What the scheduler and the deletion of tasks may do to the rows: a task is
\* finished or goes, with the pointers to it; pointers go; nothing is assigned.
Fading ==
  /\ \A t \in Task :
       \/ db'.status[t] = db.status[t] /\ db'.assignee[t] = db.assignee[t]
       \/ db.status[t] # "deleted" /\ db'.status[t] = "done" /\ db'.assignee[t] = db.assignee[t]
       \/ db'.status[t] = "deleted" /\ \A a \in Agent : db'.current[a] # t
  /\ \A a \in Agent :
       /\ db'.current[a] \in {db.current[a], None}
       /\ db'.retired[a] = db.retired[a] /\ db'.enabled[a] = db.enabled[a]

\* A transaction committed on the rows it was compared with leaves them as its
\* handler meant them.
LEMMA SavedChanges ==
  ASSUME db \in Rows, NEW new \in Rows
  PROVE  Saved(Changes(new)) = new
<1>1. ASSUME NEW S, NEW T, NEW old \in [S -> T], NEW f \in [S -> T]
      PROVE  Written(old, Changed(old, f)) = f
  BY <1>1 DEF Written, Changed
<1>2. /\ Written(db.status, Changed(db.status, new.status)) = new.status
      /\ Written(db.assignee, Changed(db.assignee, new.assignee)) = new.assignee
  BY <1>1 DEF Rows
<1>3. /\ Written(db.current, Changed(db.current, new.current)) = new.current
      /\ Written(db.failures, Changed(db.failures, new.failures)) = new.failures
  BY <1>1 DEF Rows
<1>4. /\ Written(db.enabled, Changed(db.enabled, new.enabled)) = new.enabled
      /\ Written(db.retired, Changed(db.retired, new.retired)) = new.retired
  BY <1>1 DEF Rows
<1> QED BY <1>2, <1>3, <1>4 DEF Saved, Changes, Rows

\* Rows that fade stay sound.
LEMMA FadingKeepsSound ==
  ASSUME Fading, Sound(db)
  PROVE  Sound(db)'
<1>1. ASSUME NEW a \in Agent, NEW t \in Task, db'.current[a] = t
      PROVE  db'.status[t] \in {"open", "done"} /\ db'.assignee[t] = a
  <2>1. db.current[a] = t
    BY <1>1, NoneAssumption DEF Fading
  <2>2. db.status[t] \in {"open", "done"} /\ db.assignee[t] = a
    BY <2>1 DEF Sound
  <2> QED BY <1>1, <2>2 DEF Fading
<1>2. ASSUME NEW a \in Agent, db'.retired[a] PROVE db'.current[a] = None /\ ~db'.enabled[a]
  BY <1>2 DEF Fading, Sound
<1> QED BY <1>1, <1>2 DEF Sound

\* A request that has read the rows before they faded still leaves sound rows, if
\* the database accepts its changes: what it points at has not been deleted, and
\* what it has not changed has only faded.
LEMMA FadingKeepsRequests ==
  ASSUME TypeOK, TypeOK', Fading, Sound(db), UNCHANGED pending, NEW c \in Client,
         pending[c] # None, Accepted(pending[c])',
         Accepted(pending[c]) => Sound(Saved(pending[c]))
  PROVE  Sound(Saved(pending[c]))'
<1> DEFINE d == pending[c]
           old == Saved(d)
           new == Saved(d)'
<1>0. /\ d' = d /\ IsDiff(d) /\ db \in Rows /\ db' \in Rows
  BY DEF TypeOK
<1>1. \A t \in Task : db.status[t] = "deleted" => db'.status[t] = "deleted"
  BY DEF Fading
<1>2. Accepted(d)
  <2>1. ASSUME NEW t \in DOMAIN d.status \cup DOMAIN d.assignee
        PROVE  db.status[t] # "deleted"
    BY <1>0, <1>1 DEF Accepted, IsDiff, IsColumn
  <2>2. ASSUME NEW a \in DOMAIN d.current, d.current[a] # None
        PROVE  db.status[d.current[a]] # "deleted"
    BY <1>0, <1>1, <2>2 DEF Accepted, IsDiff, IsColumn, TaskOrNone
  <2> QED BY <2>1, <2>2 DEF Accepted
<1>3. Sound(old)
  BY <1>2
<1>4. ASSUME NEW a \in Agent
      PROVE  /\ new.current[a] = IF a \in DOMAIN d.current THEN d.current[a] ELSE db'.current[a]
             /\ old.current[a] = IF a \in DOMAIN d.current THEN d.current[a] ELSE db.current[a]
             /\ new.retired[a] = old.retired[a] /\ new.enabled[a] = old.enabled[a]
  BY <1>0 DEF Saved, Written, Rows, Fading
<1>5. ASSUME NEW t \in Task
      PROVE  /\ new.status[t] = IF t \in DOMAIN d.status THEN d.status[t] ELSE db'.status[t]
             /\ old.status[t] = IF t \in DOMAIN d.status THEN d.status[t] ELSE db.status[t]
             /\ new.assignee[t] = IF t \in DOMAIN d.assignee THEN d.assignee[t] ELSE db'.assignee[t]
             /\ old.assignee[t] = IF t \in DOMAIN d.assignee THEN d.assignee[t] ELSE db.assignee[t]
  BY <1>0 DEF Saved, Written, Rows
<1>6. ASSUME NEW a \in Agent, NEW t \in Task, new.current[a] = t
      PROVE  new.status[t] \in {"open", "done"} /\ new.assignee[t] = a
  <2>1. old.current[a] = t
    BY <1>4, <1>6, NoneAssumption DEF Fading
  <2>2. old.status[t] \in {"open", "done"} /\ old.assignee[t] = a
    BY <1>3, <2>1 DEF Sound
  <2>3. ASSUME a \in DOMAIN d.current PROVE db'.status[t] # "deleted"
    BY <1>0, <1>4, <1>6, <2>3, NoneAssumption DEF Accepted
  <2>4. ASSUME a \notin DOMAIN d.current PROVE db'.status[t] # "deleted"
    BY <1>4, <1>6, <2>1, <2>4 DEF Sound, Fading
  <2>5. db'.status[t] # "deleted"
    BY <2>3, <2>4
  <2>6. \/ db'.status[t] = db.status[t] /\ db'.assignee[t] = db.assignee[t]
        \/ db'.status[t] = "done" /\ db'.assignee[t] = db.assignee[t]
    BY <2>5 DEF Fading
  <2> QED BY <1>5, <2>2, <2>6
<1>7. ASSUME NEW a \in Agent, new.retired[a] PROVE new.current[a] = None /\ ~new.enabled[a]
  <2>1. old.current[a] = None /\ ~old.enabled[a]
    BY <1>3, <1>4, <1>7 DEF Sound
  <2> QED BY <1>4, <2>1 DEF Fading
<1> QED BY <1>6, <1>7 DEF Sound

\* Whatever happens without an open request only lets the rows fade.
LEMMA OtherwiseFades ==
  ASSUME TypeOK, Otherwise
  PROVE  Fading /\ UNCHANGED pending
<1>0. db \in Rows
  BY DEF TypeOK
<1>1. ASSUME UNCHANGED db PROVE Fading
  BY <1>1 DEF Fading
<1>2. ASSUME NEW t \in Task, DeleteTask(t) PROVE Fading /\ UNCHANGED pending
  <2>1. /\ db'.status = [db.status EXCEPT ![t] = "deleted"]
        /\ db'.assignee = [db.assignee EXCEPT ![t] = None]
        /\ db'.current = [a \in Agent |-> IF db.current[a] = t THEN None ELSE db.current[a]]
        /\ db'.retired = db.retired /\ db'.enabled = db.enabled
    BY <1>0, <1>2 DEF DeleteTask, Rows
  <2>2. \A a \in Agent : db'.current[a] # t
    BY <2>1, NoneAssumption
  <2>3. UNCHANGED pending
    BY <1>2 DEF DeleteTask
  <2> QED BY <1>0, <2>1, <2>2, <2>3 DEF Fading, Rows
<1>3. ASSUME NEW r \in Replica, ClearPointer(r) PROVE Fading /\ UNCHANGED pending
  BY <1>0, <1>3 DEF ClearPointer, Fading, Rows
<1>4. ASSUME NEW r \in Replica, SaveStep(r) PROVE Fading /\ UNCHANGED pending
  <2> DEFINE d == StepChanges(r)
  <2>1. db' = Saved(d) /\ Accepted(d) /\ UNCHANGED pending
    BY <1>4 DEF SaveStep
  <2>2. /\ \A t \in DOMAIN d.status : d.status[t] = "done"
        /\ \A a \in DOMAIN d.current : d.current[a] = None
        /\ DOMAIN d.assignee = {} /\ DOMAIN d.retired = {} /\ DOMAIN d.enabled = {}
    BY DEF StepChanges
  <2>3. \A t \in Task : \/ db'.status[t] = db.status[t]
                        \/ db.status[t] # "deleted" /\ db'.status[t] = "done"
    BY <1>0, <2>1, <2>2 DEF Saved, Written, Accepted, Rows
  <2>4. \A t \in Task : db'.assignee[t] = db.assignee[t]
    BY <1>0, <2>1, <2>2 DEF Saved, Written, Rows
  <2>5. \A a \in Agent : /\ db'.current[a] \in {db.current[a], None}
                         /\ db'.retired[a] = db.retired[a] /\ db'.enabled[a] = db.enabled[a]
    BY <1>0, <2>1, <2>2 DEF Saved, Written, Rows
  <2> QED BY <2>1, <2>3, <2>4, <2>5 DEF Fading
<1>5. ASSUME NEW r \in Replica, ReplicaStep(r) \/ EditRepository(r) \/ Crash(r),
             ~ClearPointer(r), ~SaveStep(r)
      PROVE  Fading /\ UNCHANGED pending
  <2>1. UNCHANGED <<db, pending>>
    BY <1>5 DEF ReplicaStep, StartTick, EndTick, TakeLock, PassBusy, PassOver, BeginStep,
                Answer, ProviderError, FailStep, EditRepository, Crash, sched
  <2> QED BY <1>1, <2>1
<1>6. ASSUME SwitchWorkspace \/ \E a \in Agent : CoolDown(a)
      PROVE  Fading /\ UNCHANGED pending
  <2>1. UNCHANGED <<db, pending>>
    BY <1>6 DEF SwitchWorkspace, CoolDown
  <2> QED BY <1>1, <2>1
<1> QED BY <1>2, <1>3, <1>4, <1>5, <1>6 DEF Otherwise

\* The same of the assignments.
LEMMA OtherwiseKeepsAssignments ==
  ASSUME TypeOK, TypeOK', AssignmentsAreSound, Otherwise
  PROVE  AssignmentsAreSound'
<1>1. Fading /\ UNCHANGED pending
  BY OtherwiseFades
<1>2. Sound(db)'
  BY <1>1, FadingKeepsSound DEF AssignmentsAreSound
<1>3. ASSUME NEW c \in Client, pending'[c] # None, Accepted(pending[c])'
      PROVE  Sound(Saved(pending[c]))'
  BY <1>1, <1>3, FadingKeepsRequests DEF AssignmentsAreSound
<1> QED BY <1>2, <1>3 DEF AssignmentsAreSound

\* A transaction opened on sound rows will leave sound rows.
LEMMA OpeningKeepsAssignments ==
  ASSUME TypeOK, AssignmentsAreSound, UNCHANGED db, NEW c \in Client, NEW new \in Rows,
         Sound(new), pending' = [pending EXCEPT ![c] = Changes(new)]
  PROVE  AssignmentsAreSound'
<1>1. Saved(Changes(new)) = new
  BY SavedChanges DEF TypeOK
<1>2. ASSUME NEW d \in Client, pending'[d] # None, Accepted(pending[d])'
      PROVE  Sound(Saved(pending[d]))'
  <2>1. CASE d = c
    <3>1. pending'[c] = Changes(new)
      BY DEF TypeOK
    <3>2. Saved(pending[c])' = new
      BY <1>1, <3>1 DEF Saved
    <3> QED BY <2>1, <3>2 DEF Sound
  <2>2. CASE d # c
    <3>1. pending'[d] = pending[d]
      BY <2>2 DEF TypeOK
    <3>2. pending[d] # None /\ Accepted(pending[d]) /\ Saved(pending[d])' = Saved(pending[d])
      BY <1>2, <3>1 DEF Accepted, Saved
    <3>3. Sound(Saved(pending[d]))
      BY <3>2 DEF AssignmentsAreSound
    <3> QED BY <3>2, <3>3 DEF Sound
  <2> QED BY <2>1, <2>2
<1> QED BY <1>2 DEF AssignmentsAreSound

\* Committing the only open transaction, or giving one up.
LEMMA EndingKeepsAssignments ==
  ASSUME TypeOK, AssignmentsAreSound, NEW c \in Client,
         \/ Commit(c) /\ \A d \in Client \ {c} : pending[d] = None
         \/ Rollback(c)
  PROVE  AssignmentsAreSound'
<1>1. CASE Commit(c) /\ \A d \in Client \ {c} : pending[d] = None
  <2>1. db' = Saved(pending[c]) /\ Sound(db')
    BY <1>1 DEF Commit, AssignmentsAreSound
  <2>2. \A d \in Client : pending'[d] = None
    BY <1>1 DEF Commit, TypeOK
  <2> QED BY <2>1, <2>2 DEF AssignmentsAreSound, Sound
<1>2. CASE Rollback(c)
  <2>1. UNCHANGED db /\ \A d \in Client : pending'[d] \in {pending[d], None}
    BY <1>2 DEF Rollback, TypeOK
  <2>2. ASSUME NEW d \in Client, pending'[d] # None, Accepted(pending[d])'
        PROVE  Sound(Saved(pending[d]))'
    <3>1. pending'[d] = pending[d]
      BY <2>1, <2>2
    <3>2. pending[d] # None /\ Accepted(pending[d]) /\ Saved(pending[d])' = Saved(pending[d])
      BY <2>1, <2>2, <3>1 DEF Accepted, Saved
    <3>3. Sound(Saved(pending[d]))
      BY <3>2 DEF AssignmentsAreSound
    <3> QED BY <3>2, <3>3 DEF Sound
  <2>3. Sound(db)'
    BY <2>1 DEF AssignmentsAreSound, Sound
  <2> QED BY <2>2, <2>3 DEF AssignmentsAreSound
<1> QED BY <1>1, <1>2

\* A step that touches neither the rows nor the open transactions.
LEMMA StutterKeepsAssignments ==
  ASSUME AssignmentsAreSound, UNCHANGED <<db, pending>>
  PROVE  AssignmentsAreSound'
<1>1. \A c \in Client : /\ Accepted(pending[c])' <=> Accepted(pending[c])
                        /\ Saved(pending[c])' = Saved(pending[c])
  BY DEF Accepted, Saved
<1> QED BY <1>1 DEF AssignmentsAreSound, Sound

\* A request that begins.
LEMMA RequestsKeepAssignments ==
  ASSUME TypeOK, AssignmentsAreSound, NEW c \in Client, ClientStep(c)
  PROVE  AssignmentsAreSound'
<1>1. PICK new \in Rows : Begin(c, new) /\ Sound(new)
  BY ClientStepBegins DEF TypeOK, AssignmentsAreSound
<1> QED BY <1>1, OpeningKeepsAssignments DEF Begin

\* Rows of a workspace where nothing has happened yet.
LEMMA StaffedIsSound ==
  ASSUME NEW A, None \notin Agent, db \in StaffedBy(A), pending = [c \in Client |-> None]
  PROVE  AssignmentsAreSound
<1>1. /\ \A t \in Task : db.status[t] \in {"new", "open"}
      /\ \A t \in Task : db.status[t] = "new" => db.assignee[t] = None
      /\ \A a \in Agent, t \in Task : db.current[a] = t => db.assignee[t] = a
      /\ \A t \in Task : db.assignee[t] \in A \cup {None}
      /\ \A a \in Agent : db.current[a] \in TaskOrNone
      /\ \A a \in Agent : db.enabled[a] = (a \in A) /\ db.retired[a] = (a \notin A)
  BY DEF StaffedBy
<1>2. ASSUME NEW a \in Agent, NEW t \in Task, db.current[a] = t
      PROVE  a \in A /\ db.status[t] = "open" /\ db.assignee[t] = a
  <2>1. db.assignee[t] = a
    BY <1>1, <1>2
  <2> QED BY <1>1, <2>1
<1>3. ASSUME NEW a \in Agent, db.retired[a] PROVE db.current[a] = None /\ ~db.enabled[a]
  BY <1>1, <1>2, <1>3 DEF TaskOrNone
<1>4. Sound(db)
  BY <1>2, <1>3 DEF Sound
<1> QED BY <1>4 DEF AssignmentsAreSound

-----------------------------------------------------------------------------
(* The theorems about assignments.                                         *)

\* Every step keeps the assignments sound when there is one client.
LEMMA OneClientKeepsAssignments ==
  ASSUME \A c, d \in Client : c = d, IndInv, IndInv', AssignmentsAreSound, [Next]_vars
  PROVE  AssignmentsAreSound'
<1>0. TypeOK /\ TypeOK'
  BY DEF IndInv
<1>1. ASSUME NEW c \in Client, ClientStep(c) \/ Commit(c) \/ Rollback(c)
      PROVE  AssignmentsAreSound'
  BY <1>0, <1>1, RequestsKeepAssignments, EndingKeepsAssignments
<1>2. CASE Otherwise
  BY <1>0, <1>2, OtherwiseKeepsAssignments
<1>3. CASE UNCHANGED vars
  BY <1>3, StutterKeepsAssignments DEF vars
<1> QED BY <1>1, <1>2, <1>3 DEF Next

\* When requests are served one at a time, pointers and assignees agree and
\* retired agents stay retired, however many replicas work on the tasks meanwhile
\* and whatever they had read (services.py, hierarchy.py, execution.py).
THEOREM AssignmentsStaySound ==
  ASSUME \A c, d \in Client : c = d
  PROVE  Spec => []AssignmentsAreSound
<1>1. Init => AssignmentsAreSound
  BY StaffedIsSound, NoneAssumption DEF Init, Quiet
<1>2. IndInv /\ IndInv' /\ AssignmentsAreSound /\ [Next]_vars => AssignmentsAreSound'
  BY OneClientKeepsAssignments
<1> QED BY <1>1, <1>2, Invariance, PTL DEF Spec

\* A workspace whose chart is empty or just filled is well formed and idle.
LEMMA ChartInitIndInv == ChartInit => IndInv
<1> SUFFICES ASSUME ChartInit PROVE IndInv
  OBVIOUS
<1> DEFINE staff == 1 .. hired
<1>1. db \in Rows
  <2>1. db \in [status : [Task -> {"new", "open"}], assignee : [Task -> staff \cup {None}],
                current : [Agent -> TaskOrNone], failures : {[a \in Agent |-> 0]},
                enabled : {[a \in Agent |-> a \in staff]},
                retired : {[a \in Agent |-> a \notin staff]}]
    BY DEF ChartInit, StaffedBy
  <2> HIDE DEF staff
  <2>2. db = [status |-> db.status, assignee |-> db.assignee, current |-> db.current,
              failures |-> db.failures, enabled |-> db.enabled, retired |-> db.retired]
    BY <2>1
  <2>3. db.status \in [Task -> Status]
    BY <2>1 DEF Status
  <2>4. db.assignee \in [Task -> Assignee]
    <3>1. db.assignee \in [Task -> staff \cup {None}]
      BY <2>1
    <3>2. \A t \in Task : db.assignee[t] = None
      BY DEF ChartInit
    <3> QED BY <3>1, <3>2 DEF Assignee
  <2>5. db.current \in [Agent -> TaskOrNone] /\ db.failures \in [Agent -> Nat]
    BY <2>1
  <2>6. db.enabled \in [Agent -> BOOLEAN] /\ db.retired \in [Agent -> BOOLEAN]
    <3>1. /\ db.enabled = [a \in Agent |-> a \in staff]
          /\ db.retired = [a \in Agent |-> a \notin staff]
      BY <2>1
    <3>2. /\ [a \in Agent |-> a \in staff] \in [Agent -> BOOLEAN]
          /\ [a \in Agent |-> a \notin staff] \in [Agent -> BOOLEAN]
      OBVIOUS
    <3> QED BY <3>1, <3>2
  <2> QED BY <2>2, <2>3, <2>4, <2>5, <2>6 DEF Rows
<1>2. TypeOK
  BY <1>1, BoundAssumption DEF ChartInit, Quiet, TypeOK, Phases
<1>3. \A r \in Replica : phase[r] = "idle"
  BY DEF ChartInit, Quiet
<1> QED
  BY <1>2, <1>3 DEF IndInv, WorkersHoldTheLock, WorkersHaveTheirRows, OneStepPerAgent,
                    SteppedHasCooledDown, Stepping

\* The rows a reconciliation leaves, whoever it hires and retires: well formed,
\* and sound if those it has read are.
LEMMA ReconciledIsSound ==
  ASSUME db \in Rows
  PROVE  Reconciled \in Rows /\ (Sound(db) => Sound(Reconciled))
<1> DEFINE seats == Filled[Levels].all
           new == (hired + 1) .. Filled[Levels].hired
           rows == Retired(Removed(seats))
           retired == [a \in Agent |-> a \notin new /\ rows.retired[a]]
           enabled == [a \in Agent |-> a \in new \/ rows.enabled[a]]
<1>1. Reconciled = [rows EXCEPT !.retired = retired, !.enabled = enabled]
  BY DEF Reconciled
<1>2. Removed(seats) \in SUBSET Agent
  BY DEF Removed
<1>3. rows \in Rows /\ (Sound(db) => Sound(rows))
  BY <1>2, RetiredAreRows, RetiredIsSound
<1>4. retired \in [Agent -> BOOLEAN] /\ enabled \in [Agent -> BOOLEAN]
  OBVIOUS
<1>5. \A a \in Agent : retired[a] => rows.retired[a] /\ enabled[a] = rows.enabled[a]
  BY <1>3 DEF Rows
<1> HIDE DEF rows, retired, enabled
<1>6. Reconciled \in Rows
  BY <1>1, <1>3, <1>4 DEF Rows
<1>7. ASSUME Sound(rows) PROVE Sound(Reconciled)
  BY <1>1, <1>3, <1>5, <1>7 DEF Sound, Rows
<1> QED BY <1>3, <1>6, <1>7

\* A reconciliation only opens a transaction.
LEMMA ReconcileOpens ==
  ASSUME IndInv, NEW c \in Client, Reconcile(c)
  PROVE  IndInv' /\ (AssignmentsAreSound => AssignmentsAreSound')
<1>0. TypeOK /\ Protocol /\ db \in Rows
  BY DEF IndInv, TypeOK, Protocol
<1>1. /\ pending' = [pending EXCEPT ![c] = Changes(Reconciled)]
      /\ UNCHANGED <<db, orgOn, recent, sched, edits, requests, crashes>>
  BY DEF Reconcile
<1>2. Reconciled \in Rows /\ (Sound(db) => Sound(Reconciled))
  BY <1>0, ReconciledIsSound
<1>3. IsDiff(Changes(Reconciled))
  BY <1>0, <1>2, ChangesAreADiff
<1>4. /\ pending' = [d \in Client |-> pending'[d]]
      /\ \A d \in Client : pending'[d] = None \/ IsDiff(pending'[d])
  BY <1>0, <1>1, <1>3 DEF TypeOK
<1>5. TypeOK'
  BY <1>0, <1>1, <1>4 DEF TypeOK, sched
<1>6. Protocol'
  BY <1>0, <1>1, OthersKeepProtocol
<1>7. IndInv'
  <2>1. Protocol' => OneStepPerAgent'
    BY DEF Protocol, WorkersHoldTheLock, OneStepPerAgent
  <2> QED BY <1>5, <1>6, <2>1 DEF IndInv, Protocol
<1>8. ASSUME AssignmentsAreSound PROVE AssignmentsAreSound'
  BY <1>0, <1>1, <1>2, <1>8, OpeningKeepsAssignments DEF AssignmentsAreSound
<1> QED BY <1>7, <1>8

\* New counts leave the rows and the scheduler alone.
LEMMA ConfigureKeepsIndInv ==
  ASSUME IndInv, NEW c \in Client, NEW q, Configure(c, q)
  PROVE  IndInv'
<1>0. TypeOK /\ Protocol
  BY DEF IndInv, Protocol
<1>1. /\ requests < MaxRequests /\ requests' = requests + 1
      /\ UNCHANGED <<db, orgOn, recent, pending, sched, edits, crashes>>
  BY DEF Configure
<1>2. requests' \in 0 .. MaxRequests
  BY <1>0, <1>1, BoundAssumption DEF TypeOK
<1>3. TypeOK'
  BY <1>0, <1>1, <1>2 DEF TypeOK, sched
<1>4. Protocol'
  BY <1>0, <1>1, OthersKeepProtocol
<1>5. Protocol' => OneStepPerAgent'
  BY DEF Protocol, WorkersHoldTheLock, OneStepPerAgent
<1> QED BY <1>3, <1>4, <1>5 DEF IndInv, Protocol

\* What the chart adds keeps the argument about the scheduler.
LEMMA ChartKeepsIndInv == IndInv /\ [ChartNext]_chartVars => IndInv'
<1> SUFFICES ASSUME IndInv, [ChartNext]_chartVars PROVE IndInv'
  OBVIOUS
<1>1. ASSUME NEW c \in Client,
             (\E q \in Shapes : Configure(c, q)) \/ Reconcile(c) \/ Interrupt(c)
      PROVE  IndInv'
  <2>1. CASE Interrupt(c)
    BY <2>1, NextIndInv DEF Interrupt
  <2> QED BY <1>1, <2>1, ConfigureKeepsIndInv, ReconcileOpens
<1>2. ASSUME NEW c \in Client, CommitRows(c) \/ RollbackRows(c) PROVE IndInv'
  <2>1. Next
    BY <1>2 DEF CommitRows, RollbackRows, Next
  <2> QED BY <2>1, NextIndInv
<1>3. CASE (\E c \in Client : ClientStep(c)) \/ Otherwise
  BY <1>3, NextIndInv DEF Next
<1>4. CASE UNCHANGED chartVars
  BY <1>4, NextIndInv DEF chartVars
<1> QED BY <1>1, <1>2, <1>3, <1>4 DEF ChartNext

\* A step that is not the commit of one of several open requests keeps the
\* assignments sound.
LEMMA ChartKeepsBranches ==
  ASSUME IndInv, IndInv', BranchesGoWhole, [ChartNext]_chartVars
  PROVE  BranchesGoWhole'
<1>0. TypeOK /\ TypeOK'
  BY DEF IndInv
<1>1. SUFFICES ASSUME AssignmentsAreSound, ~raced' PROVE AssignmentsAreSound'
  <2>1. raced => raced'
    BY DEF ChartNext, Configure, Reconcile, Interrupt, CommitRows, RollbackRows, told, chartVars
  <2> QED BY <2>1 DEF BranchesGoWhole
<1>2. ASSUME NEW c \in Client,
             (\E q \in Shapes : Configure(c, q)) \/ Reconcile(c) \/ Interrupt(c)
      PROVE  AssignmentsAreSound'
  <2>1. CASE Reconcile(c)
    BY <1>1, <2>1, ReconcileOpens
  <2>2. CASE (\E q \in Shapes : Configure(c, q)) \/ Interrupt(c)
    <3>1. UNCHANGED <<db, pending>>
      BY <2>2 DEF Configure, Interrupt, vars
    <3> QED BY <1>1, <3>1, StutterKeepsAssignments
  <2> QED BY <1>2, <2>1, <2>2
<1>3. ASSUME NEW c \in Client, CommitRows(c) PROVE AssignmentsAreSound'
  <2>1. Commit(c) /\ \A d \in Client \ {c} : pending[d] = None
    BY <1>1, <1>3 DEF CommitRows
  <2> QED BY <1>0, <1>1, <2>1, EndingKeepsAssignments
<1>4. ASSUME NEW c \in Client, RollbackRows(c) PROVE AssignmentsAreSound'
  BY <1>0, <1>1, <1>4, EndingKeepsAssignments DEF RollbackRows
<1>5. ASSUME NEW c \in Client, ClientStep(c) PROVE AssignmentsAreSound'
  BY <1>0, <1>1, <1>5, RequestsKeepAssignments
<1>6. CASE Otherwise
  BY <1>0, <1>1, <1>6, OtherwiseKeepsAssignments
<1>7. CASE UNCHANGED chartVars
  BY <1>1, <1>7, StutterKeepsAssignments DEF chartVars, vars
<1> QED BY <1>2, <1>3, <1>4, <1>5, <1>6, <1>7 DEF ChartNext

\* The scheduler's argument holds while administrators reshape the chart.
THEOREM ChartInvariance == ChartSpec => []IndInv
<1> QED BY ChartInitIndInv, ChartKeepsIndInv, PTL DEF ChartSpec

\* However the chart is reshaped, and whatever agents, tasks and replicas do
\* beside it, no pointer or assignment is left behind and no retired agent is at
\* work, until a request has committed while another was open (reconcile_agents,
\* retire_agent, sync_agent_task_pointers).
THEOREM BranchesAreWhole == ChartSpec => []BranchesGoWhole
<1>1. ChartInit => BranchesGoWhole
  BY StaffedIsSound, NoneAssumption DEF ChartInit, Quiet, BranchesGoWhole
<1>2. IndInv /\ IndInv' /\ BranchesGoWhole /\ [ChartNext]_chartVars => BranchesGoWhole'
  BY ChartKeepsBranches
<1> QED BY <1>1, <1>2, ChartInvariance, PTL DEF ChartSpec
-----------------------------------------------------------------------------
(* Numbers and finite sets.                                                *)

\* The order of the numbers is well founded: instead of induction, which quantifies
\* over predicates, the proofs take the least member of a set.
LessThan == OpToRel(<, Nat)

\* What it relates.
LEMMA LessThanPairs == LessThan = {ss \in Nat \X Nat : ss[1] < ss[2]}
  BY DEF LessThan, OpToRel

\* A set of numbers has a least one.
LEMMA LeastNumber ==
  ASSUME NEW T, T \subseteq Nat, T # {}
  PROVE  \E m \in T : \A k \in T : m <= k
<1>1. PICK m \in T : \A k \in T : <<k, m>> \notin LessThan
  BY WFMin, NatLessThanWellFounded DEF LessThan
<1>2. \A k \in T : k < m => <<k, m>> \in LessThan
  BY LessThanPairs
<1>3. \A k \in T : ~(k < m)
  BY <1>1, <1>2
<1> QED BY <1>3

\* What holds of 0 and passes from each number to the next holds up to n.
LEMMA Climb ==
  ASSUME NEW n \in Nat, NEW T, 0 \in T, \A k \in 0 .. n : k \in T /\ k < n => k + 1 \in T
  PROVE  \A k \in 0 .. n : k \in T
<1> DEFINE missing == (0 .. n) \ T
<1> SUFFICES ASSUME missing # {} PROVE FALSE
  OBVIOUS
<1>1. PICK m \in missing : \A k \in missing : m <= k
  <2>1. missing \subseteq Nat
    OBVIOUS
  <2> HIDE DEF missing
  <2> QED BY <2>1, LeastNumber
<1>2. m # 0 /\ m - 1 \in T
  BY <1>1
<1> QED BY <1>1, <1>2

\* The n longest serving are n, or all if there are fewer.
LEMMA EldestCount ==
  ASSUME NEW S, IsFiniteSet(S), S \subseteq Nat, NEW n \in Nat
  PROVE  /\ IsFiniteSet(Eldest(S, n))
         /\ Cardinality(Eldest(S, n)) = IF n <= Cardinality(S) THEN n ELSE Cardinality(S)
<1> DEFINE rank(a) == Cardinality({b \in S : b < a})
           T == {k \in 0 .. n : Cardinality(Eldest(S, k)) =
                                  IF k <= Cardinality(S) THEN k ELSE Cardinality(S)}
<1>1. Cardinality(S) \in Nat
  BY FS_CardinalityType
<1>0. \A a \in S : a \in Nat
  OBVIOUS
<1>2. \A a : rank(a) \in Nat /\ IsFiniteSet({b \in S : b < a})
  BY FS_Subset, FS_CardinalityType
<1>3. \A k : Eldest(S, k) \subseteq S /\ IsFiniteSet(Eldest(S, k))
             /\ Cardinality(Eldest(S, k)) \in Nat
  BY FS_Subset, FS_CardinalityType DEF Eldest
<1>4. \A k : \A a \in S : a \in Eldest(S, k) <=> rank(a) < k
  BY DEF Eldest
<1>5. ASSUME NEW a \in S, NEW c \in S, a < c PROVE rank(a) < rank(c)
  <2> DEFINE A == {b \in S : b < a}
             C == {b \in S : b < c}
  <2>0. IsFiniteSet(A) /\ IsFiniteSet(C) /\ Cardinality(A) \in Nat /\ Cardinality(C) \in Nat
    BY <1>2
  <2>1. A \cup {a} \subseteq C /\ a \notin A
    <3>1. a \in Nat /\ c \in Nat
      BY <1>0
    <3>2. \A b \in S : b \in Nat /\ (b < a => b < c)
      BY <1>0, <1>5, <3>1
    <3>3. a \in C /\ a \notin A
      BY <1>5, <3>1
    <3> QED BY <3>2, <3>3
  <2>2. Cardinality(A \cup {a}) = Cardinality(A) + 1 /\ IsFiniteSet(A \cup {a})
    <3> HIDE DEF A, C
    <3> QED BY <2>0, <2>1, FS_AddElement
  <2>3. Cardinality(A \cup {a}) <= Cardinality(C)
    <3> HIDE DEF A, C
    <3> QED BY <2>0, <2>1, FS_Subset
  <2> QED BY <2>0, <2>2, <2>3
<1>2r. \A a : rank(a) \in Nat
  BY <1>2
<1>3r. \A k : Eldest(S, k) \subseteq S /\ IsFiniteSet(Eldest(S, k))
  BY <1>3
<1> HIDE DEF rank
<1>6. Eldest(S, 0) = {}
  <2>1. \A a \in S : ~(rank(a) < 0)
    BY <1>2r
  <2> QED BY <1>3r, <1>4, <2>1
<1>7. 0 \in T
  BY <1>1, <1>6, FS_EmptySet
<1>8. ASSUME NEW k \in 0 .. n, k \in T, k < n PROVE k + 1 \in T
  <2> DEFINE E == Eldest(S, k)
  <2>0. E \subseteq Eldest(S, k + 1) /\ IsFiniteSet(E) /\ E \subseteq S
    <3>1. E \subseteq S /\ IsFiniteSet(E)
      BY <1>3r
    <3>2. \A a \in E : a \in Eldest(S, k + 1)
      <4>1. \A a : rank(a) < k => rank(a) < k + 1
        BY <1>2r
      <4> QED BY <1>4, <3>1, <4>1
    <3> QED BY <3>1, <3>2
  <2>1. CASE E = S
    <3>1. Eldest(S, k + 1) = S
      BY <1>3, <2>0, <2>1
    <3>2. Cardinality(S) = IF k <= Cardinality(S) THEN k ELSE Cardinality(S)
      BY <1>8, <2>1
    <3> QED BY <1>1, <1>8, <3>1, <3>2
  <2>2. CASE E # S
    <3>1. PICK m \in S \ E : \A j \in S \ E : m <= j
      BY <2>0, <2>2, LeastNumber
    <3>2. {b \in S : b < m} \subseteq E
      <4>1. \A j \in S \ E : ~(j < m)
        BY <1>0, <3>1
      <4> QED BY <4>1
    <3>3. E \subseteq {b \in S : b < m}
      <4> SUFFICES ASSUME NEW a \in E, ~(a < m) PROVE FALSE
        BY <2>0
      <4>1. a \in S /\ rank(a) < k /\ ~(rank(m) < k)
        BY <1>4, <2>0, <3>1
      <4>2. a = m \/ m < a
        BY <1>0, <3>1, <4>1
      <4> QED BY <1>2r, <1>5, <3>1, <4>1, <4>2
    <3>4. rank(m) = Cardinality(E) /\ ~(rank(m) < k)
      BY <1>4, <3>1, <3>2, <3>3 DEF rank
    <3>5. Cardinality(E) = k /\ k < Cardinality(S)
      <4>1. Cardinality(E) < Cardinality(S)
        <5>1. Cardinality(E) <= Cardinality(S) /\ (Cardinality(S) = Cardinality(E) => S = E)
          BY <2>0, FS_Subset
        <5> QED BY <1>1, <1>3, <2>2, <5>1
      <4> QED BY <1>1, <1>8, <4>1
    <3>6. Eldest(S, k + 1) = E \cup {m}
      <4>1. m \in Eldest(S, k + 1)
        BY <1>2r, <1>4, <3>1, <3>4, <3>5
      <4>2. ASSUME NEW a \in Eldest(S, k + 1), a \notin E PROVE a = m
        <5>1. a \in S /\ rank(a) < k + 1 /\ m <= a
          BY <1>3, <1>4, <3>1, <4>2
        <5>2. m < a => rank(m) < rank(a)
          BY <1>5, <3>1, <5>1
        <5>3. rank(m) = k /\ rank(a) \in Nat
          BY <1>2r, <3>4, <3>5
        <5> QED BY <1>0, <3>1, <5>1, <5>2, <5>3
      <4> QED BY <2>0, <4>1, <4>2
    <3>7. Cardinality(Eldest(S, k + 1)) = k + 1
      BY <2>0, <3>1, <3>5, <3>6, FS_AddElement
    <3> QED BY <1>1, <1>8, <3>5, <3>7
  <2> QED BY <2>1, <2>2
<1>9. n \in T
  <2> HIDE DEF T
  <2>1. \A k \in 0 .. n : k \in T
    BY <1>7, <1>8, Climb
  <2> QED BY <2>1
<1> QED BY <1>3, <1>9

\* An interval is finite, and as long as its ends are apart.
LEMMA IntervalCount ==
  \A i, j \in Int : /\ IsFiniteSet(i .. j)
                   /\ Cardinality(i .. j) = IF i > j THEN 0 ELSE j - i + 1
  BY FS_Interval

-----------------------------------------------------------------------------
(* reconcile_agents: what Reached and Filled compute.                      *)

\* What Reached computes: the least set of agents that satisfies its definition
\* is one that does.
LEMMA ReachedFromAbove ==
  ASSUME \A a \in Agent : boss[a] \in Agent \cup {Nobody}
  PROVE  \A a \in Agent :
           Reached[a] <=> Live(a) /\ level[a] > 0 /\ (boss[a] = Nobody \/ Reached[boss[a]])
<1> DEFINE closed(S) == \A a \in Agent :
                          Live(a) /\ level[a] > 0 /\ (boss[a] = Nobody \/ boss[a] \in S)
                            => a \in S
           R == {a \in Agent : \A S \in SUBSET Agent : closed(S) => a \in S}
           solves(g) == g = [a \in Agent |-> Live(a) /\ level[a] > 0
                                              /\ (boss[a] = Nobody \/ g[boss[a]])]
<1>1. closed(R)
  OBVIOUS
<1>2. \A a \in R : Live(a) /\ level[a] > 0 /\ (boss[a] = Nobody \/ boss[a] \in R)
  <2> DEFINE Q == {a \in Agent : Live(a) /\ level[a] > 0 /\ (boss[a] = Nobody \/ boss[a] \in R)}
  <2>1. Q \subseteq R
    BY <1>1
  <2>2. closed(Q)
    BY <2>1
  <2>3. R \subseteq Q
    BY <2>2
  <2> QED BY <2>3
<1> DEFINE f == [a \in Agent |-> a \in R]
<1>3. solves(f)
  <2> HIDE DEF R
  <2>1. R \subseteq Agent
    BY DEF R
  <2>2. ASSUME NEW a \in Agent
        PROVE  f[a] <=> Live(a) /\ level[a] > 0 /\ (boss[a] = Nobody \/ f[boss[a]])
    <3>1. f[a] <=> a \in R
      OBVIOUS
    <3>2. boss[a] = Nobody \/ (f[boss[a]] <=> boss[a] \in R)
      OBVIOUS
    <3>3. a \in R <=> Live(a) /\ level[a] > 0 /\ (boss[a] = Nobody \/ boss[a] \in R)
      BY <1>1, <1>2
    <3> QED BY <3>1, <3>2, <3>3
  <2>3. f = [a \in Agent |-> f[a]]
    OBVIOUS
  <2>4. \A a \in Agent : f[a] \in BOOLEAN
    OBVIOUS
  <2> HIDE DEF f
  <2> DEFINE e(a) == Live(a) /\ level[a] > 0 /\ (boss[a] = Nobody \/ f[boss[a]])
  <2>5. \A a \in Agent : f[a] = e(a)
    BY <2>2, <2>4
  <2> HIDE DEF e
  <2>6. f = [a \in Agent |-> e(a)]
    BY <2>3, <2>5
  <2> QED BY <2>6 DEF e
<1>4. Reached = CHOOSE g : solves(g)
  BY DEF Reached
<1> HIDE DEF f
<1>5. solves(Reached)
  <2> HIDE DEF solves
  <2> QED BY <1>3, <1>4
<1> QED BY <1>5

\* What Filled computes, level by level.
LEMMA FilledByLevel ==
  ASSUME Levels \in Nat
  PROVE  /\ Filled[0] = Unseated
         /\ \A k \in 1 .. Levels : Filled[k] = SyncLevel(k, Filled[k - 1])
<1> DEFINE upTo(g, n) == g = [k \in 0 .. n |-> IF k = 0 THEN Unseated ELSE SyncLevel(k, g[k - 1])]
           T == {n \in 0 .. Levels : \E g : upTo(g, n)}
<1>1. 0 \in T
  <2> DEFINE g == [k \in 0 .. 0 |-> Unseated]
  <2>1. upTo(g, 0)
    OBVIOUS
  <2> HIDE DEF upTo, g
  <2> QED BY <2>1
<1>2. ASSUME NEW n \in 0 .. Levels, n \in T, n < Levels PROVE n + 1 \in T
  <2>1. PICK g : upTo(g, n)
    BY <1>2
  <2> DEFINE h == [k \in 0 .. n + 1 |-> IF k = n + 1 THEN SyncLevel(n + 1, g[n]) ELSE g[k]]
  <2> HIDE DEF SyncLevel, Unseated
  <2>2. \A k \in 0 .. n : h[k] = g[k]
    OBVIOUS
  <2>3. ASSUME NEW k \in 0 .. n + 1
        PROVE  h[k] = IF k = 0 THEN Unseated ELSE SyncLevel(k, h[k - 1])
    <3>1. CASE k = n + 1
      BY <1>2, <2>2, <3>1
    <3>2. CASE k # n + 1
      <4>1. k \in 0 .. n /\ (k # 0 => k - 1 \in 0 .. n)
        BY <1>2, <3>2
      <4>2. g[k] = IF k = 0 THEN Unseated ELSE SyncLevel(k, g[k - 1])
        BY <2>1, <4>1
      <4> QED BY <2>2, <4>1, <4>2
    <3> QED BY <3>1, <3>2
  <2>4. upTo(h, n + 1)
    <3> HIDE DEF h
    <3>1. h = [k \in 0 .. n + 1 |-> h[k]]
      BY DEF h
    <3> QED BY <2>3, <3>1
  <2> HIDE DEF upTo, h
  <2> QED BY <1>2, <2>4
<1>3. \E g : upTo(g, Levels)
  <2> HIDE DEF T
  <2>1. \A k \in 0 .. Levels : k \in T
    BY <1>1, <1>2, Climb
  <2> QED BY <2>1 DEF T
<1>4. Filled = CHOOSE g : upTo(g, Levels)
  BY DEF Filled
<1>5. upTo(Filled, Levels)
  BY <1>3, <1>4
<1> QED BY <1>5

\* So many agents can be counted.
LEMMA AgentsAreFinite == IsFiniteSet(Agent) /\ Agent \subseteq Nat
  BY AgentsAreNumbered, FS_Interval

\* So can the seats under one of them.
LEMMA CountsAreNumbers ==
  ASSUME ChartTypeOK, NEW k \in 1 .. Levels
  PROVE  PerParent(k) \in Nat
  BY ShapeAssumption DEF ChartTypeOK, PerParent

\* Kept and hired together are as many as are to be under each superior.
LEMMA SeatsAddUp ==
  ASSUME ChartTypeOK, NEW k \in 1 .. Levels, NEW p
  PROVE  LET kept == Eldest(Reports(p, k), PerParent(k)) IN
         /\ IsFiniteSet(kept) /\ IsFiniteSet(Vacant(p, k))
         /\ Vacant(p, k) \subseteq 1 .. PerParent(k)
         /\ Cardinality(kept) \in Nat /\ Cardinality(Vacant(p, k)) \in Nat
         /\ Cardinality(kept) + Cardinality(Vacant(p, k)) = PerParent(k)
<1> DEFINE R == Reports(p, k)
           n == PerParent(k)
<1>1. n \in Nat
  BY CountsAreNumbers
<1>2. IsFiniteSet(R) /\ R \subseteq Nat
  BY AgentsAreFinite, FS_Subset DEF Reports
<1>3. Cardinality(R) \in Nat
  BY <1>2, FS_CardinalityType
<1>4. /\ IsFiniteSet(Eldest(R, n))
      /\ Cardinality(Eldest(R, n)) = IF n <= Cardinality(R) THEN n ELSE Cardinality(R)
  BY <1>1, <1>2, EldestCount
<1>6. Vacant(p, k) = (Cardinality(R) + 1) .. n
  BY DEF Vacant
<1> HIDE DEF R, n
<1>7. /\ IsFiniteSet(Vacant(p, k))
      /\ Cardinality(Vacant(p, k)) =
           IF Cardinality(R) + 1 > n THEN 0 ELSE n - (Cardinality(R) + 1) + 1
      /\ Vacant(p, k) \subseteq 1 .. n
  <2>1. Cardinality(R) + 1 \in Int /\ n \in Int
    BY <1>1, <1>3
  <2>2. Vacant(p, k) \subseteq 1 .. n
    BY <1>1, <1>3, <1>6 DEF R, n
  <2> QED BY <1>6, <2>1, <2>2, IntervalCount DEF R, n
<1>8. Cardinality(Eldest(R, n)) + Cardinality(Vacant(p, k)) = n
  BY <1>1, <1>3, <1>4, <1>7
<1>9. Cardinality(Eldest(R, n)) \in Nat /\ Cardinality(Vacant(p, k)) \in Nat
  BY <1>1, <1>3, <1>4, <1>7
<1> QED BY <1>4, <1>7, <1>8, <1>9 DEF R, n

\* The parts of SyncLevel.
LEMMA SyncLevelParts ==
  ASSUME NEW k, NEW up
  PROVE  LET F == SyncLevel(k, up) IN
         /\ F.seated = Kept(k, up) \cup Hired(k, up)
         /\ F.all = up.all \cup Kept(k, up) \cup Hired(k, up)
         /\ F.boss = [a \in Agent |-> IF a \in Hired(k, up) THEN Seat(k, up)[a][1] ELSE up.boss[a]]
         /\ F.level = [a \in Agent |-> IF a \in Hired(k, up) THEN k ELSE up.level[a]]
         /\ F.hired = up.hired + Cardinality(Vacancies(k, up))
  BY DEF SyncLevel

\* Those hired take the vacant seats, one each.
LEMMA SeatsAreTaken ==
  ASSUME NEW k, NEW up, up.hired \in Nat, IsFiniteSet(Vacancies(k, up))
  PROVE  /\ Seat(k, up) \in [Hired(k, up) -> Vacancies(k, up)]
         /\ \A a, b \in Hired(k, up) : Seat(k, up)[a] = Seat(k, up)[b] => a = b
         /\ \A v \in Vacancies(k, up) : \E a \in Hired(k, up) : Seat(k, up)[a] = v
<1> DEFINE V == Vacancies(k, up)
           new == Hired(k, up)
           seat == Seat(k, up)
<1>1. Cardinality(V) \in Nat /\ IsFiniteSet(new) /\ Cardinality(new) = Cardinality(V)
  <2>1. Cardinality(V) \in Nat
    BY FS_CardinalityType
  <2> HIDE DEF V
  <2>2. new = (up.hired + 1) .. (up.hired + Cardinality(V))
    BY DEF Hired, V
  <2>3. up.hired + 1 \in Int /\ up.hired + Cardinality(V) \in Int
    BY <2>1
  <2> HIDE DEF new
  <2> DEFINE i == up.hired + 1
             j == up.hired + Cardinality(V)
  <2>4. (i > j => Cardinality(V) = 0) /\ (~(i > j) => j - i + 1 = Cardinality(V))
    BY <2>1
  <2>5. i \in Int /\ j \in Int /\ new = i .. j
    BY <2>2, <2>3
  <2> HIDE DEF i, j
  <2>6. IsFiniteSet(new) /\ Cardinality(new) = IF i > j THEN 0 ELSE j - i + 1
    BY <2>5, IntervalCount
  <2> QED BY <2>1, <2>4, <2>6
<1>2. \E f \in [new -> V] : \A a, b \in new : f[a] = f[b] => a = b
  <2> HIDE DEF new, V
  <2>1. PICK f \in Bijection(new, V) : TRUE
    BY <1>1, FS_SameCardinalityBij DEF ExistsBijection, V
  <2> QED BY <2>1 DEF Bijection, Injection, IsInjective
<1>3. seat \in [new -> V] /\ \A a, b \in new : seat[a] = seat[b] => a = b
  BY <1>2 DEF Seat
<1> HIDE DEF new, V, seat
<1>4. seat \in Injection(new, V)
  BY <1>3 DEF Injection, IsInjective
<1>5. seat \in Surjection(new, V)
  BY <1>1, <1>4, FS_Injection DEF V
<1> QED BY <1>3, <1>5 DEF Surjection, new, V, seat

\* A level adds finitely many agents, each on a seat of its own.
LEMMA LevelIsFinite ==
  ASSUME ChartTypeOK, NEW k \in 1 .. Levels, NEW up, up.hired \in Nat, IsFiniteSet(up.seated)
  PROVE  /\ Cardinality(Vacancies(k, up)) \in Nat
         /\ Kept(k, up) \subseteq Agent
         /\ IsFiniteSet(SyncLevel(k, up).seated)
         /\ SyncLevel(k, up).hired \in Nat /\ SyncLevel(k, up).hired >= up.hired
         /\ Seat(k, up) \in [Hired(k, up) -> Vacancies(k, up)]
         /\ \A a, b \in Hired(k, up) : Seat(k, up)[a] = Seat(k, up)[b] => a = b
         /\ \A v \in Vacancies(k, up) : \E a \in Hired(k, up) : Seat(k, up)[a] = v
<1> DEFINE V == Vacancies(k, up)
<1>1. IsFiniteSet(V)
  <2>1. IsFiniteSet(1 .. PerParent(k))
    BY CountsAreNumbers, IntervalCount
  <2>2. IsFiniteSet(up.seated \X (1 .. PerParent(k)))
    BY <2>1, FS_Product
  <2>3. \A p : Vacant(p, k) \subseteq 1 .. PerParent(k)
    BY SeatsAddUp
  <2>4. V \subseteq up.seated \X (1 .. PerParent(k))
    BY <2>3 DEF Vacancies
  <2> QED BY <2>2, <2>4, FS_Subset
<1>2. Cardinality(V) \in Nat
  BY <1>1, FS_CardinalityType
<1>3. Kept(k, up) \subseteq Agent
  BY DEF Kept, Eldest, Reports
<1>4. IsFiniteSet(Kept(k, up)) /\ IsFiniteSet(Hired(k, up))
  <2>1. up.hired + 1 \in Int /\ up.hired + Cardinality(V) \in Int
    BY <1>2
  <2>2. IsFiniteSet(Hired(k, up))
    BY <2>1, IntervalCount DEF Hired
  <2> QED BY <1>3, <2>2, AgentsAreFinite, FS_Subset
<1>5. IsFiniteSet(SyncLevel(k, up).seated)
  <2>1. SyncLevel(k, up).seated = Kept(k, up) \cup Hired(k, up)
    BY SyncLevelParts
  <2>2. IsFiniteSet(Kept(k, up) \cup Hired(k, up))
    BY <1>4, FS_Union
  <2> QED BY <2>1, <2>2
<1>6. /\ Seat(k, up) \in [Hired(k, up) -> V]
      /\ \A a, b \in Hired(k, up) : Seat(k, up)[a] = Seat(k, up)[b] => a = b
      /\ \A v \in V : \E a \in Hired(k, up) : Seat(k, up)[a] = v
  BY <1>1, SeatsAreTaken
<1>7. SyncLevel(k, up).hired = up.hired + Cardinality(V)
  BY SyncLevelParts
<1>8. SyncLevel(k, up).hired \in Nat /\ SyncLevel(k, up).hired >= up.hired
  BY <1>2, <1>7
<1> QED BY <1>2, <1>3, <1>5, <1>6, <1>8

\* The agents that have a seat at level k of F under p.
Under(F, p, k) == {a \in F.all : F.level[a] = k /\ F.boss[a] = p}

\* An agent of the chart F, filled down to level k, is one level below its superior, who
\* came first; it is new, or was reached already.
InPlace(k, F, a) ==
  /\ F.level[a] \in 1 .. k /\ a <= F.hired /\ F.boss[a] < a
  /\ F.level[a] = 1 => F.boss[a] = Nobody
  /\ F.level[a] > 1 => F.boss[a] \in F.all /\ F.level[F.boss[a]] = F.level[a] - 1
  /\ a <= hired => Live(a) /\ Reached[a]

\* F, filled down to level k, differs from the chart by the agents it has hired.
Filling(k, F) ==
  /\ F.all \subseteq Agent
  /\ F.seated = IF k = 0 THEN {Nobody} ELSE {a \in F.all : F.level[a] = k}
  /\ F.boss \in [Agent -> Agent \cup {Nobody}] /\ F.level \in [Agent -> 0 .. Levels]
  /\ \A a \in Agent : a <= hired \/ a > F.hired => F.boss[a] = boss[a] /\ F.level[a] = level[a]
  /\ \A a \in F.all : InPlace(k, F, a)
  /\ \A a \in Agent : hired < a /\ a <= F.hired => a \in F.all

\* Every seat down to level k is taken.
Staffed(k, F) ==
  /\ k > 0 => Cardinality(Under(F, Nobody, 1)) = PerParent(1)
  /\ \A p \in F.all : F.level[p] < k =>
       Cardinality(Under(F, p, F.level[p] + 1)) = PerParent(F.level[p] + 1)

\* Numbers can be compared; nobody's is below all of them.
LEMMA NumbersOfAgents ==
  Agent \subseteq Nat /\ Nobody \notin Agent /\ (\A a \in Agent : a \in Nat /\ a > Nobody)
  BY AgentsAreNumbered DEF Nobody

\* Who is kept and who is hired at a level, one by one.
LEMMA LevelMembers ==
  ASSUME ChartTypeOK, Seniority, NEW k \in 1 .. Levels, NEW up,
         up.hired \in Nat, up.hired >= hired, IsFiniteSet(up.seated),
         SyncLevel(k, up).hired <= MaxAgents, Filling(k - 1, up)
  PROVE  LET F == SyncLevel(k, up) IN
         /\ \A a \in Kept(k, up) : /\ a \in Agent /\ a <= hired /\ Live(a) /\ Reached[a]
                                   /\ level[a] = k /\ boss[a] \in up.seated
                                   /\ F.level[a] = k /\ F.boss[a] = boss[a] /\ a \notin up.all
         /\ \A a \in Hired(k, up) : /\ a \in Agent /\ a > up.hired /\ a <= F.hired
                                    /\ Seat(k, up)[a] \in Vacancies(k, up)
                                    /\ Seat(k, up)[a][1] \in up.seated
                                    /\ F.level[a] = k /\ F.boss[a] = Seat(k, up)[a][1]
                                    /\ a \notin up.all
         /\ \A a \in Agent : a <= up.hired \/ a > F.hired =>
              a \notin Hired(k, up) /\ F.level[a] = up.level[a] /\ F.boss[a] = up.boss[a]
         /\ \A a \in up.all : F.level[a] = up.level[a] /\ F.boss[a] = up.boss[a] /\ up.level[a] < k
         /\ up.seated \subseteq Agent \cup {Nobody}
         /\ \A p \in up.seated : p # Nobody => p \in up.all /\ up.level[p] = k - 1
         /\ \A p \in up.seated : p <= up.hired
<1> DEFINE F == SyncLevel(k, up)
           V == Vacancies(k, up)
           new == Hired(k, up)
           kept == Kept(k, up)
           seat == Seat(k, up)
<1>0. /\ \A a \in Agent : a \in Nat /\ a > Nobody
      /\ k \in Nat /\ k >= 1 /\ Levels \in Nat /\ hired \in Nat /\ Nobody \notin Agent
  BY ShapeAssumption, NumbersOfAgents, AgentsAreNumbered DEF ChartTypeOK
<1>1. /\ Cardinality(V) \in Nat /\ kept \subseteq Agent /\ F.hired \in Nat
      /\ seat \in [new -> V] /\ F.hired = up.hired + Cardinality(V)
  BY LevelIsFinite, SyncLevelParts
<1>2. \A a \in new : a \in Nat /\ a > up.hired /\ a <= F.hired
  BY <1>1 DEF Hired
<1>3. \A a \in new : a \in Agent
  BY <1>1, <1>2, AgentsAreNumbered
<1>4. \A a \in Agent : /\ F.level[a] = IF a \in new THEN k ELSE up.level[a]
                       /\ F.boss[a] = IF a \in new THEN seat[a][1] ELSE up.boss[a]
  <2>1. /\ F.boss = [a \in Agent |-> IF a \in new THEN seat[a][1] ELSE up.boss[a]]
        /\ F.level = [a \in Agent |-> IF a \in new THEN k ELSE up.level[a]]
    BY SyncLevelParts
  <2> HIDE DEF F, new, seat
  <2> QED BY <2>1
<1>5. \A a \in up.all :
        a \in Agent /\ a <= up.hired /\ up.level[a] < k /\ up.level[a] \in 1 .. k - 1
  BY <1>0 DEF Filling, InPlace
<1>6. \A p \in up.seated : \/ k = 1 /\ p = Nobody
                           \/ k > 1 /\ p \in up.all /\ up.level[p] = k - 1
  BY <1>0 DEF Filling
<1>7. ASSUME NEW p \in up.seated
      PROVE  /\ p # Nobody => p \in up.all /\ up.level[p] = k - 1
             /\ p <= up.hired /\ p \in Agent \cup {Nobody}
  BY <1>5, <1>6 DEF Nobody
<1>8. ASSUME NEW a \in kept
      PROVE  /\ a \in Agent /\ a <= hired /\ Live(a) /\ Reached[a] /\ level[a] = k
             /\ boss[a] \in up.seated /\ F.level[a] = k /\ F.boss[a] = boss[a] /\ a \notin up.all
  <2>1. a \in Agent /\ Live(a) /\ level[a] = k /\ boss[a] \in up.seated
    BY DEF Kept, Eldest, Reports
  <2>2. a <= hired
    BY <2>1 DEF Seniority, Live
  <2>3. up.level[a] = level[a] /\ up.boss[a] = boss[a]
    BY <2>1, <2>2 DEF Filling
  <2>4. a \notin new /\ a \notin up.all
    <3>1. a <= up.hired
      BY <1>0, <2>1, <2>2
    <3>2. ~(a > up.hired)
      BY <1>0, <2>1, <3>1
    <3> QED BY <1>0, <1>2, <1>5, <2>1, <2>3, <3>2
  <2>5. Reached[a]
    <3>1. boss[a] = Nobody \/ Reached[boss[a]]
      <4>1. CASE k = 1
        BY <1>6, <2>1, <4>1
      <4>2. CASE k > 1
        <5>1. boss[a] \in up.all /\ boss[a] \in Agent
          BY <1>5, <1>6, <2>1, <4>2
        <5>2. boss[a] < a
          BY <2>1 DEF Seniority
        <5>3. boss[a] <= hired
          BY <1>0, <2>1, <2>2, <5>1, <5>2
        <5> QED BY <5>1, <5>3 DEF Filling, InPlace
      <4> QED BY <1>0, <4>1, <4>2
    <3>2. level[a] > 0
      BY <1>0, <2>1
    <3> QED BY <2>1, <3>1, <3>2, ReachedFromAbove DEF ChartTypeOK
  <2> QED BY <1>4, <2>1, <2>2, <2>3, <2>4, <2>5
<1>9. ASSUME NEW a \in new
      PROVE  /\ a \in Agent /\ a > up.hired /\ a <= F.hired
             /\ seat[a] \in V /\ seat[a][1] \in up.seated
             /\ F.level[a] = k /\ F.boss[a] = seat[a][1] /\ a \notin up.all
  <2>1. seat[a] \in V
    BY <1>1
  <2>2. seat[a][1] \in up.seated
    BY <2>1 DEF Vacancies
  <2>3. ~(a <= up.hired)
    BY <1>2
  <2> QED BY <1>2, <1>3, <1>4, <1>5, <2>1, <2>2, <2>3
<1>10. ASSUME NEW a \in Agent, a <= up.hired \/ a > F.hired
       PROVE  a \notin new /\ F.level[a] = up.level[a] /\ F.boss[a] = up.boss[a]
  <2>1. a \notin new
    BY <1>0, <1>1, <1>2, <1>10
  <2> QED BY <1>4, <2>1
<1> HIDE DEF F, V, new, kept, seat
<1> QED BY <1>5, <1>7, <1>8, <1>9, <1>10 DEF F, V, new, kept, seat

\* A level leaves everybody of the chart in place.
LEMMA LevelFills ==
  ASSUME ChartTypeOK, Seniority, NEW k \in 1 .. Levels, NEW up,
         up.hired \in Nat, up.hired >= hired, IsFiniteSet(up.seated),
         SyncLevel(k, up).hired <= MaxAgents, Filling(k - 1, up)
  PROVE  Filling(k, SyncLevel(k, up))
<1> DEFINE F == SyncLevel(k, up)
           new == Hired(k, up)
           kept == Kept(k, up)
           seat == Seat(k, up)
<1>0. /\ \A a \in Agent : a \in Nat /\ a > Nobody
      /\ k \in Nat /\ k >= 1 /\ k <= Levels /\ Levels \in Nat
      /\ hired \in Nat /\ Nobody \notin Agent
  BY ShapeAssumption, NumbersOfAgents, AgentsAreNumbered DEF ChartTypeOK
<1>1. /\ F.hired \in Nat /\ F.hired >= up.hired
      /\ F.all = up.all \cup kept \cup new /\ F.seated = kept \cup new
      /\ DOMAIN F.boss = Agent /\ DOMAIN F.level = Agent
      /\ F.boss = [a \in Agent |-> F.boss[a]] /\ F.level = [a \in Agent |-> F.level[a]]
  <2>1. F.hired \in Nat /\ F.hired >= up.hired
    BY LevelIsFinite
  <2>2. /\ F.all = up.all \cup kept \cup new /\ F.seated = kept \cup new
        /\ F.boss = [a \in Agent |-> IF a \in new THEN seat[a][1] ELSE up.boss[a]]
        /\ F.level = [a \in Agent |-> IF a \in new THEN k ELSE up.level[a]]
    BY SyncLevelParts
  <2> HIDE DEF F, new, kept, seat
  <2> QED BY <2>1, <2>2
<1>2. /\ \A a \in kept : /\ a \in Agent /\ a <= hired /\ Live(a) /\ Reached[a]
                         /\ level[a] = k /\ boss[a] \in up.seated
                         /\ F.level[a] = k /\ F.boss[a] = boss[a] /\ a \notin up.all
      /\ \A a \in new : /\ a \in Agent /\ a > up.hired /\ a <= F.hired
                        /\ seat[a][1] \in up.seated
                        /\ F.level[a] = k /\ F.boss[a] = seat[a][1] /\ a \notin up.all
      /\ \A a \in Agent : a <= up.hired \/ a > F.hired =>
           a \notin new /\ F.level[a] = up.level[a] /\ F.boss[a] = up.boss[a]
      /\ \A a \in up.all : F.level[a] = up.level[a] /\ F.boss[a] = up.boss[a] /\ up.level[a] < k
      /\ up.seated \subseteq Agent \cup {Nobody}
      /\ \A p \in up.seated : p # Nobody => p \in up.all /\ up.level[p] = k - 1
      /\ \A p \in up.seated : p <= up.hired
  BY LevelMembers
<1> HIDE DEF F, new, kept, seat
<1>3. F.all \subseteq Agent
  BY <1>1, <1>2 DEF Filling
<1>4. F.seated = {a \in F.all : F.level[a] = k}
  <2>1. \A a \in F.all : F.level[a] = k <=> a \in kept \cup new
    <3>1. \A a \in up.all : F.level[a] # k
      <4>1. \A a \in up.all : up.level[a] \in Int
        BY <1>0 DEF Filling, InPlace
      <4> QED BY <1>0, <1>2, <4>1
    <3> QED BY <1>1, <1>2, <3>1
  <2> QED BY <1>1, <2>1
<1>5. F.boss \in [Agent -> Agent \cup {Nobody}] /\ F.level \in [Agent -> 0 .. Levels]
  <2>1. \A a \in Agent : F.boss[a] \in Agent \cup {Nobody} /\ F.level[a] \in 0 .. Levels
    <3> SUFFICES ASSUME NEW a \in Agent
                 PROVE  F.boss[a] \in Agent \cup {Nobody} /\ F.level[a] \in 0 .. Levels
      OBVIOUS
    <3>1. CASE a \in new
      BY <1>0, <1>2, <3>1
    <3>2. CASE a <= up.hired \/ a > F.hired
      BY <1>2, <3>2 DEF Filling
    <3>3. a \in new \/ a <= up.hired \/ a > F.hired
      <4>1. new = (up.hired + 1) .. F.hired
        BY SyncLevelParts DEF Hired, F, new
      <4> QED BY <1>0, <1>1, <4>1
    <3> QED BY <3>1, <3>2, <3>3
  <2> QED BY <1>1, <2>1
<1>6. ASSUME NEW a \in Agent, a <= hired \/ a > F.hired
      PROVE  F.boss[a] = boss[a] /\ F.level[a] = level[a]
  <2>1. a <= up.hired \/ a > F.hired
    BY <1>0, <1>1, <1>6
  <2>2. a <= hired \/ a > up.hired
    BY <1>0, <1>1, <1>6
  <2> QED BY <1>2, <2>1, <2>2 DEF Filling
<1>7. ASSUME NEW a \in F.all PROVE InPlace(k, F, a)
  <2>1. CASE a \in up.all
    <3>1. InPlace(k - 1, up, a) /\ a \in Agent
      BY <2>1 DEF Filling
    <3>2. F.level[a] = up.level[a] /\ F.boss[a] = up.boss[a]
      BY <1>2, <2>1
    <3>3. F.level[a] \in 1 .. k /\ a <= F.hired
      BY <1>0, <1>1, <3>1, <3>2 DEF InPlace
    <3>4. ASSUME F.level[a] > 1
          PROVE  F.boss[a] \in F.all /\ F.level[F.boss[a]] = F.level[a] - 1
      <4>1. up.boss[a] \in up.all /\ up.level[up.boss[a]] = up.level[a] - 1
        BY <3>1, <3>2, <3>4 DEF InPlace
      <4> QED BY <1>1, <1>2, <3>2, <4>1
    <3> QED BY <3>1, <3>2, <3>3, <3>4 DEF InPlace
  <2>2. CASE a \in kept \cup new
    <3>1. /\ a \in Agent /\ a <= F.hired /\ F.level[a] = k /\ F.boss[a] \in up.seated
          /\ a <= hired => Live(a) /\ Reached[a]
      <4>1. CASE a \in kept
        BY <1>0, <1>1, <1>2, <4>1
      <4>2. CASE a \in new
        <5>0. a \in Agent /\ a > up.hired
          BY <1>2, <4>2
        <5>1. ~(a <= hired)
          BY <1>0, <5>0
        <5> QED BY <1>2, <4>2, <5>1
      <4> QED BY <2>2, <4>1, <4>2
    <3>2. F.boss[a] < a
      <4>1. CASE a \in kept
        BY <1>2, <4>1 DEF Seniority
      <4>2. CASE a \in new
        <5>1. F.boss[a] <= up.hired /\ a > up.hired
          BY <1>2, <3>1, <4>2
        <5>2. F.boss[a] \in Nat
          BY <1>0, <1>5, <3>1 DEF Nobody
        <5> QED BY <1>0, <3>1, <5>1, <5>2
      <4> QED BY <2>2, <4>1, <4>2
    <3>3. F.level[a] = 1 => F.boss[a] = Nobody
      BY <1>0, <3>1 DEF Filling
    <3>4. ASSUME k > 1 PROVE F.boss[a] \in F.all /\ F.level[F.boss[a]] = F.level[a] - 1
      <4>1. F.boss[a] \in up.all /\ up.level[F.boss[a]] = k - 1
        BY <1>0, <3>1, <3>4 DEF Filling
      <4> QED BY <1>1, <1>2, <3>1, <4>1
    <3> QED BY <1>0, <3>1, <3>2, <3>3, <3>4 DEF InPlace
  <2> QED BY <1>1, <2>1, <2>2
<1>8. ASSUME NEW a \in Agent, hired < a, a <= F.hired PROVE a \in F.all
  <2>1. new = (up.hired + 1) .. F.hired
    BY SyncLevelParts DEF Hired, F, new
  <2>2. CASE a <= up.hired
    BY <1>1, <1>8, <2>2 DEF Filling
  <2>3. CASE ~(a <= up.hired)
    BY <1>0, <1>1, <1>8, <2>1, <2>3
  <2> QED BY <2>2, <2>3
<1>9. k # 0
  BY <1>0
<1> QED BY <1>3, <1>4, <1>5, <1>6, <1>7, <1>8, <1>9 DEF Filling, F

\* Those under one who has a seat above are as many as they are to be.
LEMMA LevelStaffs ==
  ASSUME ChartTypeOK, Seniority, NEW k \in 1 .. Levels, NEW up,
         up.hired \in Nat, up.hired >= hired, IsFiniteSet(up.seated),
         SyncLevel(k, up).hired <= MaxAgents, Filling(k - 1, up), NEW p \in up.seated
  PROVE  Cardinality(Under(SyncLevel(k, up), p, k)) = PerParent(k)
<1> DEFINE F == SyncLevel(k, up)
           new == Hired(k, up)
           seat == Seat(k, up)
           old == Eldest(Reports(p, k), PerParent(k))
           B == {a \in new : seat[a][1] = p}
<1>0. k \in Int /\ k >= 1
  OBVIOUS
<1>1. /\ \A a \in Kept(k, up) : F.level[a] = k /\ F.boss[a] = boss[a] /\ a <= hired /\ a \in Agent
      /\ \A a \in new : /\ a > up.hired /\ F.level[a] = k /\ F.boss[a] = seat[a][1]
                        /\ seat[a] \in Vacancies(k, up) /\ a \in Agent
      /\ \A a \in up.all : F.level[a] = up.level[a] /\ up.level[a] < k
  BY LevelMembers
<1>2. F.all = up.all \cup Kept(k, up) \cup new
  BY SyncLevelParts
<1>3. \A a \in Kept(k, up) : boss[a] = p <=> a \in old
  <2>1. \A a \in old : a \in Kept(k, up) /\ boss[a] = p
    BY DEF Kept, Eldest, Reports
  <2>2. ASSUME NEW a \in Kept(k, up), boss[a] = p PROVE a \in old
    <3>1. PICK q \in up.seated : a \in Eldest(Reports(q, k), PerParent(k))
      BY DEF Kept
    <3>2. q = p
      BY <2>2, <3>1 DEF Eldest, Reports
    <3> QED BY <3>1, <3>2
  <2> QED BY <2>1, <2>2
<1>4. old \subseteq Kept(k, up)
  BY DEF Kept
<1>5. Under(F, p, k) = old \cup B
  <2>1. \A a \in up.all : F.level[a] # k
    <3>1. \A a \in up.all : up.level[a] \in Int
      BY DEF Filling, InPlace
    <3> QED BY <1>0, <1>1, <3>1
  <2>2. \A a \in Under(F, p, k) : a \in old \cup B
    <3> HIDE DEF F, new, seat, old
    <3> QED BY <1>1, <1>2, <1>3, <2>1 DEF Under
  <2>3. \A a \in old \cup B : a \in Under(F, p, k)
    <3> HIDE DEF F, new, seat, old
    <3> QED BY <1>1, <1>2, <1>3, <1>4 DEF Under
  <2> QED BY <2>2, <2>3
<1>6. /\ IsFiniteSet(old) /\ IsFiniteSet(Vacant(p, k))
      /\ Cardinality(old) \in Nat /\ Cardinality(Vacant(p, k)) \in Nat
      /\ Cardinality(old) + Cardinality(Vacant(p, k)) = PerParent(k)
  BY SeatsAddUp
<1>7. /\ seat \in [new -> Vacancies(k, up)]
      /\ \A a, b \in new : seat[a] = seat[b] => a = b
      /\ \A v \in Vacancies(k, up) : \E a \in new : seat[a] = v
  BY LevelIsFinite
<1>8. /\ \A v \in Vacancies(k, up) : v = <<v[1], v[2]>> /\ v[2] \in Vacant(v[1], k)
      /\ \A i \in Vacant(p, k) : <<p, i>> \in Vacancies(k, up)
  BY DEF Vacancies
<1> HIDE DEF F, new, seat, old
<1>9. IsFiniteSet(B) /\ Cardinality(B) = Cardinality(Vacant(p, k))
  <2> DEFINE f == [a \in B |-> seat[a][2]]
  <2>1. \A a \in B : seat[a] \in Vacancies(k, up) /\ seat[a][1] = p
    BY <1>7
  <2>2. \A a \in B : f[a] \in Vacant(p, k)
    BY <1>8, <2>1
  <2>3. \A a, b \in B : f[a] = f[b] => a = b
    <3> SUFFICES ASSUME NEW a \in B, NEW b \in B, f[a] = f[b] PROVE a = b
      OBVIOUS
    <3>1. seat[a] = <<p, seat[a][2]>> /\ seat[b] = <<p, seat[b][2]>>
      BY <1>8, <2>1
    <3>2. seat[a] = seat[b]
      BY <3>1
    <3> QED BY <1>7, <3>2
  <2>4. \A i \in Vacant(p, k) : \E a \in B : f[a] = i
    <3> SUFFICES ASSUME NEW i \in Vacant(p, k) PROVE \E a \in B : f[a] = i
      OBVIOUS
    <3>1. PICK a \in new : seat[a] = <<p, i>>
      BY <1>7, <1>8
    <3>2. a \in B
      BY <3>1
    <3> QED BY <3>1, <3>2
  <2>5. f \in Bijection(B, Vacant(p, k))
    <3>1. f \in [B -> Vacant(p, k)]
      BY <2>2
    <3> HIDE DEF f, B
    <3> QED BY <2>3, <2>4, <3>1 DEF Bijection, Injection, Surjection, IsInjective
  <2>6. ExistsBijection(Vacant(p, k), B)
    <3>1. ExistsBijection(B, Vacant(p, k))
      BY <2>5 DEF ExistsBijection
    <3> QED BY <3>1, Fun_ExistsBijSymmetric
  <2> QED BY <1>6, <2>6, FS_Bijection
<1>10. Cardinality(old \cup B) = Cardinality(old) + Cardinality(B)
  <2>1. old \cap B = {}
    <3>1. hired \in Int /\ \A a \in Agent : a \in Int
      BY NumbersOfAgents DEF ChartTypeOK
    <3>2. \A a \in old : a \in Agent /\ a <= hired
      BY <1>1, <1>4
    <3>3. \A a \in B : a \in Agent /\ a > up.hired
      BY <1>1
    <3> QED BY <3>1, <3>2, <3>3
  <2> HIDE DEF B
  <2>2. Cardinality(old \cup B) = Cardinality(old) + Cardinality(B) - Cardinality(old \cap B)
    BY <1>6, <1>9, FS_Union
  <2>3. Cardinality(old \cap B) = 0
    BY <2>1, FS_EmptySet
  <2>4. Cardinality(B) \in Nat
    BY <1>6, <1>9
  <2> QED BY <1>6, <2>2, <2>3, <2>4
<1> QED BY <1>5, <1>6, <1>9, <1>10 DEF F

\* The levels above a new one stay as they were.
LEMMA LevelKeepsStaff ==
  ASSUME ChartTypeOK, Seniority, NEW k \in 1 .. Levels, NEW up,
         up.hired \in Nat, up.hired >= hired, IsFiniteSet(up.seated),
         SyncLevel(k, up).hired <= MaxAgents, Filling(k - 1, up), Staffed(k - 1, up)
  PROVE  Staffed(k, SyncLevel(k, up))
<1> DEFINE F == SyncLevel(k, up)
<1>1. /\ \A a \in Kept(k, up) \cup Hired(k, up) : F.level[a] = k
      /\ \A a \in up.all : F.level[a] = up.level[a] /\ F.boss[a] = up.boss[a] /\ up.level[a] < k
  BY LevelMembers
<1>2. F.all = up.all \cup Kept(k, up) \cup Hired(k, up)
  BY SyncLevelParts
<1>3. \A p \in up.seated : Cardinality(Under(F, p, k)) = PerParent(k)
  BY LevelStaffs
<1>4. /\ up.seated = IF k - 1 = 0 THEN {Nobody} ELSE {a \in up.all : up.level[a] = k - 1}
      /\ \A a \in up.all : up.level[a] \in 1 .. k - 1
  BY DEF Filling, InPlace
<1>5. k \in Int /\ k >= 1
  OBVIOUS
<1> HIDE DEF F
<1>6. ASSUME NEW p, NEW m \in Int, m < k PROVE Under(F, p, m) = Under(up, p, m)
  <2>1. \A a \in Kept(k, up) \cup Hired(k, up) : F.level[a] # m
    BY <1>1, <1>5, <1>6
  <2>2. \A a \in Under(F, p, m) : a \in Under(up, p, m)
    BY <1>1, <1>2, <2>1 DEF Under
  <2>3. \A a \in Under(up, p, m) : a \in Under(F, p, m)
    BY <1>1, <1>2 DEF Under
  <2> QED BY <2>2, <2>3
<1>7. Cardinality(Under(F, Nobody, 1)) = PerParent(1)
  <2>1. CASE k = 1
    BY <1>3, <1>4, <2>1
  <2>2. CASE k > 1
    <3>1. Under(F, Nobody, 1) = Under(up, Nobody, 1)
      BY <1>6, <2>2
    <3>2. k - 1 > 0
      BY <1>5, <2>2
    <3> QED BY <3>1, <3>2 DEF Staffed
  <2> QED BY <1>5, <2>1, <2>2
<1>8. ASSUME NEW p \in F.all, F.level[p] < k
      PROVE  Cardinality(Under(F, p, F.level[p] + 1)) = PerParent(F.level[p] + 1)
  <2>1. p \in up.all /\ F.level[p] = up.level[p] /\ up.level[p] \in 1 .. k - 1
    <3>1. p \in up.all
      <4>1. ~(k < k)
        BY <1>5
      <4> QED BY <1>1, <1>2, <1>8, <4>1
    <3> QED BY <1>1, <1>4, <3>1
  <2>2. CASE up.level[p] = k - 1
    <3>1. k - 1 # 0 /\ F.level[p] + 1 = k
      BY <1>5, <2>1, <2>2
    <3>2. p \in up.seated
      BY <1>4, <2>1, <2>2, <3>1
    <3> QED BY <1>3, <3>1, <3>2
  <2>3. CASE up.level[p] # k - 1
    <3>1. up.level[p] + 1 \in Int /\ up.level[p] + 1 < k /\ up.level[p] < k - 1
      BY <1>5, <2>1, <2>3
    <3>2. Under(F, p, up.level[p] + 1) = Under(up, p, up.level[p] + 1)
      BY <1>6, <3>1
    <3> QED BY <2>1, <3>1, <3>2 DEF Staffed
  <2> QED BY <2>2, <2>3
<1> QED BY <1>7, <1>8 DEF Staffed, F

\* The chart as it is before anybody has a seat.
LEMMA UnseatedFills ==
  ASSUME ChartTypeOK
  PROVE  /\ Unseated.hired \in Nat /\ Unseated.hired >= hired /\ IsFiniteSet(Unseated.seated)
         /\ Filling(0, Unseated) /\ Staffed(0, Unseated)
<1>0. hired \in Nat /\ \A a \in Agent : a \in Nat
  BY NumbersOfAgents, AgentsAreNumbered DEF ChartTypeOK
<1>1. IsFiniteSet({Nobody})
  BY FS_Singleton
<1>2. Filling(0, Unseated)
  <2>1. \A a \in Agent : ~(hired < a /\ a <= hired)
    BY <1>0
  <2> QED BY <2>1 DEF Filling, Unseated, ChartTypeOK
<1>3. Staffed(0, Unseated)
  BY DEF Staffed, Unseated
<1> QED BY <1>0, <1>1, <1>2, <1>3 DEF Unseated

\* The whole chart, filled: everybody in place, and every seat taken.
LEMMA ChartFills ==
  ASSUME ChartTypeOK, Seniority, Filled[Levels].hired <= MaxAgents
  PROVE  LET F == Filled[Levels] IN
         /\ F.hired \in Nat /\ F.hired >= hired
         /\ Filling(Levels, F) /\ Staffed(Levels, F)
<1> DEFINE fills(k, F) == /\ F.hired \in Nat /\ F.hired >= hired /\ IsFiniteSet(F.seated)
                          /\ F.hired <= MaxAgents => Filling(k, F) /\ Staffed(k, F)
           T == {k \in 0 .. Levels : fills(k, Filled[k])}
<1>0. Levels \in Nat /\ hired \in Nat /\ MaxAgents \in Nat
  BY ShapeAssumption, AgentsAreNumbered DEF ChartTypeOK
<1>1. 0 \in T
  <2>1. fills(0, Unseated)
    BY UnseatedFills
  <2>2. Filled[0] = Unseated
    BY <1>0, FilledByLevel
  <2> HIDE DEF fills
  <2> QED BY <1>0, <2>1, <2>2
<1>2. ASSUME NEW k \in 0 .. Levels, k \in T, k < Levels PROVE k + 1 \in T
  <2> DEFINE up == Filled[k]
             F == SyncLevel(k + 1, up)
  <2>1. fills(k, up)
    BY <1>2
  <2>2. Filled[k + 1] = F
    <3>1. k + 1 \in 1 .. Levels /\ (k + 1) - 1 = k
      BY <1>0, <1>2
    <3> HIDE DEF F, up
    <3>2. Filled[k + 1] = SyncLevel(k + 1, Filled[(k + 1) - 1])
      BY <1>0, <3>1, FilledByLevel
    <3> QED BY <3>1, <3>2 DEF F, up
  <2>3. k + 1 \in 1 .. Levels /\ (k + 1) - 1 = k
    BY <1>0, <1>2
  <2> HIDE DEF up
  <2>4. IsFiniteSet(F.seated) /\ F.hired \in Nat /\ F.hired >= up.hired
    BY <2>1, <2>3, LevelIsFinite
  <2>5. ASSUME F.hired <= MaxAgents PROVE Filling(k + 1, F) /\ Staffed(k + 1, F)
    <3>1. up.hired <= MaxAgents
      BY <1>0, <2>1, <2>4, <2>5
    <3>2. Filling((k + 1) - 1, up) /\ Staffed((k + 1) - 1, up)
      BY <2>1, <2>3, <3>1
    <3> QED BY <2>1, <2>3, <2>5, <3>2, LevelFills, LevelKeepsStaff
  <2>6. F.hired >= hired
    BY <1>0, <2>1, <2>4
  <2>7. fills(k + 1, F)
    BY <2>4, <2>5, <2>6
  <2> HIDE DEF fills, F
  <2> QED BY <1>0, <2>2, <2>3, <2>7
<1>3. \A k \in 0 .. Levels : k \in T
  <2> HIDE DEF T
  <2> QED BY <1>0, <1>1, <1>2, Climb
<1>4. fills(Levels, Filled[Levels])
  BY <1>0, <1>3
<1> QED BY <1>4

-----------------------------------------------------------------------------
(* The rows a reconciliation leaves.                                       *)

\* Who the rows of a reconciliation retire: nobody of the chart it has filled, and
\* every other agent that stands in the new tree.
LEMMA OthersAreGone ==
  ASSUME db \in Rows, ChartTypeOK, Seniority, Filled[Levels].hired <= MaxAgents
  PROVE  LET F == Filled[Levels]
             gone == Reconciled.retired IN
         /\ \A a \in Agent : gone[a] \in BOOLEAN
         /\ \A a \in F.all : ~gone[a]
         /\ \A a \in Agent : ~gone[a] => a <= F.hired
         /\ \A a \in Agent : ~gone[a] /\ a \notin F.all =>
              /\ Live(a) /\ a <= hired /\ ~Reached[a]
              /\ F.level[a] = level[a] /\ F.boss[a] = boss[a]
         /\ \A a \in Agent : gone[a] =>
              db.retired[a] \/ (a <= hired /\ Reached[a] /\ a \notin F.all)
<1> DEFINE F == Filled[Levels]
           gone == Reconciled.retired
           new == (hired + 1) .. F.hired
<1>0. /\ hired \in Nat /\ \A a \in Agent : a \in Nat
      /\ F.hired \in Nat /\ F.hired >= hired /\ Filling(Levels, F)
  BY ChartFills, NumbersOfAgents DEF ChartTypeOK
<1>1. \A a \in Agent : gone[a] = (a \notin new /\ (a \in Removed(F.all) \/ db.retired[a]))
  <2> DEFINE rows == Retired(Removed(F.all))
  <2>1. \A a \in Agent : rows.retired[a] = (a \in Removed(F.all) \/ db.retired[a])
    BY DEF Retired, Rows
  <2>2. rows.retired \in [Agent -> BOOLEAN] /\ rows \in Rows
    <3>1. Removed(F.all) \in SUBSET Agent
      BY DEF Removed
    <3>2. rows \in Rows
      BY <3>1, RetiredAreRows
    <3> HIDE DEF rows
    <3> QED BY <3>2 DEF Rows
  <2>3. gone = [a \in Agent |-> a \notin new /\ rows.retired[a]]
    <3>1. Reconciled = [rows EXCEPT !.retired = [a \in Agent |-> a \notin new /\ @[a]],
                                    !.enabled = [a \in Agent |-> a \in new \/ @[a]]]
      BY DEF Reconciled
    <3> HIDE DEF rows, new, F
    <3>2. rows \in Rows
      BY <2>2
    <3> QED BY <3>1, <3>2 DEF Rows
  <2> HIDE DEF rows, gone, new, F
  <2> QED BY <2>1, <2>3
<1>2. \A a \in Agent : a \in new <=> hired < a /\ a <= F.hired
  <2> HIDE DEF F
  <2> QED BY <1>0
<1>3. \A a \in Agent : a \in Removed(F.all) <=> Reached[a] /\ a \notin F.all
  BY DEF Removed
<1> HIDE DEF F, new, gone
<1>4. \A a \in Agent : Live(a) = ~db.retired[a] /\ db.retired[a] \in BOOLEAN
  BY DEF Live, Rows
<1>5. \A a \in Agent : Reached[a] => Live(a)
  BY ReachedFromAbove DEF ChartTypeOK
<1>6. \A a \in Agent : Live(a) => a <= hired
  BY DEF Seniority, Live
<1>7. \A a \in Agent : a \in new => a \in F.all
  BY <1>0, <1>2 DEF Filling
<1>8. ASSUME NEW a \in F.all PROVE ~gone[a]
  <2>1. a \in Agent /\ a <= F.hired /\ (a <= hired => Live(a))
    BY <1>0 DEF Filling, InPlace
  <2>2. CASE a <= hired
    BY <1>1, <1>3, <1>4, <2>1, <2>2
  <2>3. CASE ~(a <= hired)
    <3>1. hired < a
      BY <1>0, <2>1, <2>3
    <3> QED BY <1>1, <1>2, <2>1, <3>1
  <2> QED BY <2>2, <2>3
<1>9. ASSUME NEW a \in Agent, ~gone[a], a \notin F.all
      PROVE  /\ Live(a) /\ a <= hired /\ ~Reached[a]
             /\ F.level[a] = level[a] /\ F.boss[a] = boss[a]
  <2>1. a \notin new /\ Live(a) /\ ~Reached[a]
    BY <1>1, <1>3, <1>4, <1>7, <1>9
  <2>2. a <= hired
    BY <1>6, <2>1
  <2> QED BY <1>0, <2>1, <2>2 DEF Filling
<1>10. ASSUME NEW a \in Agent, ~gone[a] PROVE a <= F.hired
  <2>1. CASE a \in F.all
    BY <1>0, <2>1 DEF Filling, InPlace
  <2>2. CASE a \notin F.all
    BY <1>0, <1>9, <1>10, <2>2
  <2> QED BY <2>1, <2>2
<1>11. ASSUME NEW a \in Agent, gone[a]
       PROVE  db.retired[a] \/ (a <= hired /\ Reached[a] /\ a \notin F.all)
  BY <1>1, <1>3, <1>5, <1>6, <1>11
<1> QED BY <1>1, <1>8, <1>9, <1>10, <1>11 DEF F, gone

\* An agent that is there after a reconciliation, under one that has a seat, has one.
LEMMA NobodyElseHasASuperior ==
  ASSUME db \in Rows, ChartTypeOK, Seniority, Filled[Levels].hired <= MaxAgents
  PROVE  LET F == Filled[Levels]
             gone == Reconciled.retired IN
         \A a \in Agent :
           ~gone[a] /\ F.level[a] > 0 /\ (F.boss[a] = Nobody \/ F.boss[a] \in F.all) => a \in F.all
<1> DEFINE F == Filled[Levels]
           gone == Reconciled.retired
<1> SUFFICES ASSUME NEW a \in Agent, ~gone[a], F.level[a] > 0,
                    F.boss[a] = Nobody \/ F.boss[a] \in F.all, a \notin F.all
             PROVE  FALSE
  OBVIOUS
<1>1. /\ Live(a) /\ a <= hired /\ ~Reached[a] /\ level[a] > 0
      /\ boss[a] = Nobody \/ boss[a] \in F.all
  BY OthersAreGone
<1>2. ~(boss[a] = Nobody)
  BY <1>1, ReachedFromAbove DEF ChartTypeOK
<1>3. boss[a] \in Agent /\ boss[a] <= hired
  <2>1. boss[a] \in Agent /\ boss[a] < a
    BY <1>2 DEF ChartTypeOK, Seniority
  <2>2. boss[a] \in Nat /\ a \in Nat /\ hired \in Nat
    <3>1. hired \in Nat
      BY DEF ChartTypeOK
    <3> QED BY <2>1, <3>1, NumbersOfAgents
  <2> QED BY <1>1, <2>1, <2>2
<1>4. Reached[boss[a]]
  <2>1. Filling(Levels, F)
    BY ChartFills
  <2> QED BY <1>1, <1>2, <1>3, <2>1 DEF Filling, InPlace
<1> QED BY <1>1, <1>4, ReachedFromAbove DEF ChartTypeOK

\* A reconciliation leaves the tree as it is configured, whatever was there before,
\* and nobody behind.
LEMMA ReconciledIsShaped ==
  ASSUME db \in Rows, ChartTypeOK, Seniority, Filled[Levels].hired <= MaxAgents,
         NEW gone, gone = Reconciled.retired,
         shape' = shape, boss' = Filled[Levels].boss, level' = Filled[Levels].level
  PROVE  /\ Shaped(gone)'
         /\ \A E : Strays(db.retired, E) => Strays(gone, E)'
<1> DEFINE F == Filled[Levels]
           staff(p, k) == {a \in Agent : ~gone[a] /\ level'[a] = k /\ boss'[a] = p}
<1>0. /\ \A a \in Agent : a \in Nat
      /\ Levels \in Nat /\ Levels >= 2 /\ Filling(Levels, F) /\ Staffed(Levels, F)
      /\ boss' = F.boss /\ level' = F.level
  BY ChartFills, NumbersOfAgents, ShapeAssumption
<1>1. /\ \A a \in F.all : ~gone[a]
      /\ \A a \in Agent : ~gone[a] /\ a \notin F.all =>
           level'[a] = level[a] /\ boss'[a] = boss[a] /\ Live(a) /\ ~Reached[a]
      /\ \A a \in Agent :
           ~gone[a] /\ level'[a] > 0 /\ (boss'[a] = Nobody \/ boss'[a] \in F.all) => a \in F.all
      /\ \A a \in Agent : gone[a] => db.retired[a] \/ (a <= hired /\ Reached[a] /\ a \notin F.all)
  BY OthersAreGone, NobodyElseHasASuperior
<1> HIDE DEF F
<1>2. PerParent(1)' = PerParent(1) /\ \A k : PerParent(k)' = PerParent(k)
  BY DEF PerParent
<1>3. ASSUME NEW T \in SUBSET Agent, Stands(T, gone)' PROVE T \subseteq F.all
  <2> SUFFICES ASSUME T \ F.all # {} PROVE FALSE
    OBVIOUS
  <2>1. PICK m \in T \ F.all : \A k \in T \ F.all : m <= k
    <3>1. T \ F.all \subseteq Nat
      BY <1>0
    <3> QED BY <3>1, LeastNumber
  <2>2. m \in Agent /\ ~gone[m] /\ level'[m] > 0 /\ (boss'[m] = Nobody \/ boss'[m] \in T)
    BY <1>3 DEF Stands
  <2>3. boss'[m] \in T /\ boss'[m] \notin F.all /\ boss'[m] = boss[m]
    BY <1>1, <2>1, <2>2
  <2>4. boss[m] < m /\ m <= boss[m]
    BY <2>1, <2>2, <2>3 DEF Seniority
  <2> QED BY <1>0, <2>2, <2>3, <2>4
<1>4. ASSUME NEW p, NEW k \in 1 .. Levels, p = Nobody \/ p \in F.all
      PROVE  staff(p, k) = Under(F, p, k)
  <2>1. \A a \in Under(F, p, k) : a \in staff(p, k)
    BY <1>0, <1>1 DEF Under, Filling
  <2>2. \A a \in staff(p, k) : a \in Under(F, p, k)
    <3> SUFFICES ASSUME NEW a \in Agent, ~gone[a], level'[a] = k, boss'[a] = p
                 PROVE  a \in Under(F, p, k)
      OBVIOUS
    <3>1. level'[a] > 0
      OBVIOUS
    <3>2. a \in F.all
      BY <1>1, <1>4, <3>1
    <3> QED BY <1>0, <3>2 DEF Under
  <2> QED BY <2>1, <2>2
<1> HIDE DEF staff
<1>5. Cardinality(staff(Nobody, 1)) = PerParent(1)
  <2>1. staff(Nobody, 1) = Under(F, Nobody, 1)
    BY <1>0, <1>4
  <2>2. Levels > 0
    BY <1>0
  <2> QED BY <1>0, <2>1, <2>2 DEF Staffed
<1>6. ASSUME NEW a \in F.all, level'[a] < Levels
      PROVE  Cardinality(staff(a, level'[a] + 1)) = PerParent(level'[a] + 1)
  <2>1. level'[a] + 1 \in 1 .. Levels
    <3>1. level'[a] \in 1 .. Levels
      BY <1>0 DEF Filling, InPlace
    <3> QED BY <1>0, <1>6, <3>1
  <2>2. staff(a, level'[a] + 1) = Under(F, a, level'[a] + 1)
    BY <1>4, <2>1
  <2> QED BY <1>0, <1>6, <2>2 DEF Staffed
<1>7. Shaped(gone)'
  <2>1. ASSUME NEW T \in SUBSET Agent, Stands(T, gone)', NEW a \in T, level'[a] < Levels
        PROVE  Cardinality(staff(a, level'[a] + 1)) = PerParent(level'[a] + 1)
    BY <1>3, <1>6, <2>1
  <2>2. /\ Staff(Nobody, 1, gone)' = staff(Nobody, 1)
        /\ \A a : Staff(a, level[a] + 1, gone)' = staff(a, level'[a] + 1)
    BY DEF Staff, staff
  <2> HIDE DEF staff
  <2> QED BY <1>2, <1>5, <2>1, <2>2 DEF Shaped
<1>8. ASSUME NEW E, Strays(db.retired, E) PROVE Strays(gone, E)'
  <2> SUFFICES ASSUME NEW a \in Agent, ~gone[a], boss'[a] # Nobody, gone[boss'[a]]
               PROVE  boss'[a] \in E
    BY DEF Strays
  <2>1. a \notin F.all
    <3> SUFFICES ASSUME a \in F.all PROVE FALSE
      OBVIOUS
    <3>1. boss'[a] \in F.all
      <4>1. F.level[a] \in 1 .. Levels
        BY <1>0 DEF Filling, InPlace
      <4>2. F.level[a] > 1
        BY <1>0, <4>1 DEF Filling, InPlace
      <4> QED BY <1>0, <4>2 DEF Filling, InPlace
    <3> QED BY <1>1, <3>1
  <2>2. level'[a] = level[a] /\ boss'[a] = boss[a] /\ Live(a) /\ ~Reached[a]
    BY <1>1, <2>1
  <2>3. level[a] > 0 /\ boss[a] \in Agent
    BY <2>2 DEF Seniority, Live, ChartTypeOK
  <2>4. ~Reached[boss[a]]
    BY <2>2, <2>3, ReachedFromAbove DEF ChartTypeOK
  <2>5. db.retired[boss[a]]
    BY <1>1, <2>2, <2>3, <2>4
  <2> QED BY <1>8, <2>2, <2>5 DEF Strays, Live
<1> QED BY <1>7, <1>8

-----------------------------------------------------------------------------
(* Every step keeps the chart sound.                                       *)

\* Shapes and strays are about who is there: rows of agents that are not may change.
LEMMA OthersDoNotCount ==
  ASSUME NEW gone,
         \A a \in Agent : ~gone[a] => level'[a] = level[a] /\ boss'[a] = boss[a]
  PROVE  /\ UNCHANGED shape /\ Shaped(gone) => Shaped(gone)'
         /\ \A E : Strays(gone, E) => Strays(gone, E)'
<1>1. UNCHANGED shape => \A k : PerParent(k)' = PerParent(k)
  BY DEF PerParent
<1>2. \A T \in SUBSET Agent : Stands(T, gone)' <=> Stands(T, gone)
  BY DEF Stands
<1> DEFINE staff(p, k) == {a \in Agent : ~gone[a] /\ level'[a] = k /\ boss'[a] = p}
<1>3. \A p, k : staff(p, k) = Staff(p, k, gone)
  BY DEF Staff
<1>4. /\ Staff(Nobody, 1, gone)' = staff(Nobody, 1)
      /\ \A a : Staff(a, level[a] + 1, gone)' = staff(a, level'[a] + 1)
  BY DEF Staff
<1> HIDE DEF staff
<1>5. ASSUME UNCHANGED shape, Shaped(gone) PROVE Shaped(gone)'
  <2>1. Cardinality(staff(Nobody, 1)) = PerParent(1)
    BY <1>3, <1>5 DEF Shaped
  <2>2. ASSUME NEW T \in SUBSET Agent, Stands(T, gone)', NEW a \in T, level'[a] < Levels
        PROVE  Cardinality(staff(a, level'[a] + 1)) = PerParent(level'[a] + 1)
    <3>1. level'[a] = level[a]
      BY <1>2, <2>2 DEF Stands
    <3> QED BY <1>2, <1>3, <1>5, <2>2, <3>1 DEF Shaped
  <2> QED BY <1>1, <1>4, <1>5, <2>1, <2>2 DEF Shaped
<1>6. ASSUME NEW E, Strays(gone, E) PROVE Strays(gone, E)'
  BY <1>6 DEF Strays
<1> QED BY <1>5, <1>6

\* The rows a transaction leaves when they are committed as they were read.
LEMMA AfterOpening ==
  ASSUME TypeOK, NEW c \in Client, NEW new \in Rows, UNCHANGED db,
         pending' = [pending EXCEPT ![c] = Changes(new)]
  PROVE  After(c)' = new.retired
<1>1. pending'[c] = Changes(new)
  BY DEF TypeOK
<1>2. After(c)' = Written(db.retired, Changed(db.retired, new.retired))
  BY <1>1 DEF After, Changes, Written
<1>3. Written(db.retired, Changed(db.retired, new.retired)) = new.retired
  BY DEF Written, Changed, TypeOK, Rows
<1> QED BY <1>2, <1>3

\* What a request sees of the chart while other things happen.
LEMMA ViewIsKept ==
  ASSUME NEW d \in Client, ViewIsTrue(d),
         pending'[d] = pending[d], db'.retired = db.retired,
         stage'[d] = "reconciling" <=> stage[d] = "reconciling",
         \A a \in Agent : ~After(d)[a] => level'[a] = level[a] /\ boss'[a] = boss[a],
         d \in intact' => d \in intact /\ UNCHANGED shape, raced => raced', alone' = alone,
         \A a \in Agent : a <= hired => a <= hired'
  PROVE  ViewIsTrue(d)'
<1>1. PICK gone, left : gone = After(d) /\ left = alone \cup Leaving(d)
  OBVIOUS
<1>2. After(d)' = gone /\ (alone \cup Leaving(d))' = left
  BY <1>1 DEF After, Leaving, Written
<1>3. /\ UNCHANGED shape /\ Shaped(gone) => Shaped(gone)'
      /\ Strays(gone, left) => Strays(gone, left)'
  BY <1>1, OthersDoNotCount
<1>4. Shaped(After(d))' <=> Shaped(gone)'
  BY <1>2
<1>5. Strays(After(d), alone \cup Leaving(d))' <=> Strays(gone, left)'
  BY <1>2 DEF Strays
<1> QED BY <1>1, <1>2, <1>3, <1>4, <1>5 DEF ViewIsTrue


\* The same of the rows as they are.
LEMMA ChartIsKept ==
  ASSUME ChartInv, ChartTypeOK', Seniority', db'.retired = db.retired,
         \A a \in Agent : ~db.retired[a] => level'[a] = level[a] /\ boss'[a] = boss[a],
         settled' => settled /\ UNCHANGED shape, raced => raced', alone' = alone,
         \A d \in Client : pending'[d] # None => ViewIsTrue(d)'
  PROVE  ChartInv'
<1>1. PICK gone, left : gone = db.retired /\ left = alone
  OBVIOUS
<1>2. /\ UNCHANGED shape /\ Shaped(gone) => Shaped(gone)'
      /\ Strays(gone, left) => Strays(gone, left)'
  BY <1>1, OthersDoNotCount
<1>3. Shaped(db.retired)' <=> Shaped(gone)'
  BY <1>1
<1>4. Strays(db.retired, alone)' <=> Strays(gone, left)'
  BY <1>1
<1>5. settled => Shaped(gone)
  BY <1>1 DEF ChartInv
<1>6. raced \/ Strays(gone, left)
  BY <1>1 DEF ChartInv
<1> QED BY <1>2, <1>3, <1>4, <1>5, <1>6 DEF ChartInv

\* New counts make every view of the chart untrue.
LEMMA ConfigureKeepsChart ==
  ASSUME ChartInv, NEW c \in Client, NEW q \in Shapes, Configure(c, q)
  PROVE  ChartInv'
<1>1. /\ UNCHANGED <<db, pending, boss, level, hired, alone, raced>> /\ shape' = q
      /\ stage' = [stage EXCEPT ![c] = "configured"] /\ intact' = {} /\ settled' = FALSE
      /\ pending[c] = None
  BY DEF Configure
<1>2. ChartTypeOK' /\ Seniority'
  <2>1. /\ stage' \in [Client -> {"none", "configured", "reconciling"}]
        /\ shape' \in [2 .. Levels -> Nat]
    BY <1>1, ShapeAssumption DEF ChartInv, ChartTypeOK
  <2>2. ChartTypeOK'
    BY <1>1, <2>1 DEF ChartInv, ChartTypeOK
  <2> QED BY <1>1, <2>2 DEF ChartInv, Seniority
<1>3. ASSUME NEW d \in Client, pending'[d] # None PROVE ViewIsTrue(d)'
  <2>1. pending'[d] = pending[d] /\ stage'[d] = stage[d] /\ ViewIsTrue(d) /\ d \notin intact'
    BY <1>1, <1>3 DEF ChartInv, ChartTypeOK
  <2> QED BY <1>1, <2>1, ViewIsKept
<1> QED BY <1>1, <1>2, <1>3, ChartIsKept

\* A reconciliation: its own view is true, and the others' are about agents who
\* were there before.
LEMMA ReconcileKeepsChart ==
  ASSUME TypeOK, ChartInv, NEW c \in Client, Reconcile(c)
  PROVE  ChartInv'
<1> DEFINE F == Filled[Levels]
<1>1. /\ F.hired <= MaxAgents /\ pending' = [pending EXCEPT ![c] = Changes(Reconciled)]
      /\ boss' = F.boss /\ level' = F.level /\ hired' = F.hired
      /\ stage' = [stage EXCEPT ![c] = "reconciling"] /\ intact' = intact \cup {c}
      /\ UNCHANGED <<db, shape, settled, alone, raced>>
  BY DEF Reconcile
<1>2. /\ db \in Rows /\ ChartTypeOK /\ Seniority /\ hired \in Nat /\ MaxAgents \in Nat
      /\ \A a \in Agent : a \in Nat
  BY NumbersOfAgents, AgentsAreNumbered DEF TypeOK, ChartInv, ChartTypeOK
<1>3. F.hired \in Nat /\ F.hired >= hired /\ Filling(Levels, F)
  BY <1>1, <1>2, ChartFills
<1>4. Reconciled \in Rows
  BY <1>2, ReconciledIsSound
<1>5. \A a \in Agent : ~Reconciled.retired[a] => a <= F.hired
  BY <1>1, <1>2, OthersAreGone
<1>6. PICK gone, left : gone = Reconciled.retired /\ left = alone
  OBVIOUS
<1>7. Shaped(gone)' /\ (Strays(db.retired, left) => Strays(gone, left)')
  BY <1>1, <1>2, <1>6, ReconciledIsShaped
<1>8. After(c)' = gone
  BY <1>1, <1>4, <1>6, AfterOpening
<1> HIDE DEF F
<1>9. ViewIsTrue(c)'
  <2>1. stage'[c] = "reconciling"
    BY <1>1, <1>2 DEF ChartTypeOK
  <2>2. (alone \cup Leaving(c))' = left
    BY <1>1, <1>6, <2>1 DEF Leaving
  <2>3. raced \/ Strays(db.retired, left)
    BY <1>6 DEF ChartInv
  <2>4. Shaped(After(c))' <=> Shaped(gone)'
    BY <1>8
  <2>5. Strays(After(c), alone \cup Leaving(c))' <=> Strays(gone, left)'
    BY <1>8, <2>2
  <2>6. \A a \in Agent : ~After(c)'[a] => a <= hired'
    BY <1>1, <1>5, <1>6, <1>8
  <2> QED BY <1>1, <1>7, <2>3, <2>4, <2>5, <2>6 DEF ViewIsTrue
<1>10. \A a \in Agent : a <= hired => level'[a] = level[a] /\ boss'[a] = boss[a] /\ a <= hired'
  <2>1. \A a \in Agent : a <= hired => a <= hired'
    BY <1>1, <1>2, <1>3
  <2> QED BY <1>1, <1>3, <2>1 DEF Filling
<1>11. ASSUME NEW d \in Client \ {c}, pending'[d] # None PROVE ViewIsTrue(d)'
  <2>1. /\ pending'[d] = pending[d] /\ stage'[d] = stage[d]
        /\ ViewIsTrue(d) /\ (d \in intact' => d \in intact)
    BY <1>1, <1>2, <1>11 DEF ChartInv, ChartTypeOK, TypeOK
  <2>2. \A a \in Agent : ~After(d)[a] => level'[a] = level[a] /\ boss'[a] = boss[a]
    BY <1>10, <2>1 DEF ViewIsTrue
  <2> QED BY <1>1, <1>10, <2>1, <2>2, ViewIsKept
<1>12. ChartTypeOK' /\ Seniority'
  <2>1. ChartTypeOK'
    <3>1. hired' \in 0 .. MaxAgents
      BY <1>1, <1>2, <1>3
    <3>2. boss' \in [Agent -> Agent \cup {Nobody}] /\ level' \in [Agent -> 0 .. Levels]
      BY <1>1, <1>3 DEF Filling
    <3> QED BY <1>1, <1>2, <3>1, <3>2 DEF ChartTypeOK
  <2>2. ASSUME NEW a \in Agent
        PROVE  /\ boss'[a] < a /\ (a <= hired' <=> level'[a] > 0)
               /\ ~db.retired[a] => a <= hired'
    <3>1. CASE a <= hired
      BY <1>10, <1>2, <3>1 DEF Seniority
    <3>2. CASE hired < a /\ a <= hired'
      <4>1. a \in F.all
        BY <1>1, <1>3, <3>2 DEF Filling
      <4>2. F.level[a] \in 1 .. Levels /\ F.boss[a] < a
        BY <1>3, <4>1 DEF Filling, InPlace
      <4> QED BY <1>1, <3>2, <4>2
    <3>3. CASE a > hired'
      <4>1. ~(a <= hired) /\ ~(a <= hired')
        BY <1>1, <1>2, <1>3, <3>3
      <4>2. boss'[a] = boss[a] /\ level'[a] = level[a]
        BY <1>1, <1>3, <3>3 DEF Filling
      <4> QED BY <1>2, <4>1, <4>2 DEF Seniority
    <3>4. a <= hired \/ (hired < a /\ a <= hired') \/ a > hired'
      BY <1>1, <1>2, <1>3
    <3> QED BY <3>1, <3>2, <3>3, <3>4
  <2> QED BY <1>1, <2>1, <2>2 DEF Seniority
<1>13. \A a \in Agent : ~db.retired[a] => level'[a] = level[a] /\ boss'[a] = boss[a]
  BY <1>2, <1>10 DEF Seniority
<1>14. \A d \in Client : pending'[d] # None => ViewIsTrue(d)'
  BY <1>9, <1>11
<1> QED BY <1>1, <1>12, <1>13, <1>14, ChartIsKept

\* What a request leaves: only the retired agents, once it commits.
LEMMA CommitKeepsChart ==
  ASSUME TypeOK, ChartInv, NEW c \in Client, CommitRows(c)
  PROVE  ChartInv'
<1> DEFINE changed == DOMAIN pending[c].retired
<1>1. /\ pending[c] # None /\ db'.retired = After(c) /\ pending' = [pending EXCEPT ![c] = None]
      /\ stage' = [stage EXCEPT ![c] = "none"] /\ UNCHANGED <<shape, boss, level, hired>>
      /\ intact' = IF changed = {} THEN intact \ {c} ELSE {}
      /\ settled' = IF stage[c] = "reconciling" THEN c \in intact ELSE settled /\ changed = {}
      /\ alone' = IF stage[c] = "reconciling" THEN alone ELSE alone \cup changed
      /\ raced' = (raced \/ \E d \in Client \ {c} : pending[d] # None)
  BY DEF CommitRows, Commit, Ended, Saved, After
<1>2. ChartTypeOK /\ Seniority /\ ViewIsTrue(c) /\ IsDiff(pending[c])
      /\ db.retired \in [Agent -> BOOLEAN] /\ changed \subseteq Agent
  BY <1>1 DEF ChartInv, TypeOK, IsDiff, IsColumn, Rows
<1>3. changed = {} => db'.retired = db.retired
  BY <1>1, <1>2 DEF After, Written
<1>4. ChartTypeOK'
  <2>1. stage' \in [Client -> {"none", "configured", "reconciling"}] /\ intact' \subseteq Client
    BY <1>1, <1>2 DEF ChartTypeOK
  <2>2. alone' \subseteq Agent
    BY <1>1, <1>2 DEF ChartTypeOK
  <2>3. settled' \in BOOLEAN
    <3>1. settled \in BOOLEAN /\ (c \in intact) \in BOOLEAN
      BY <1>2 DEF ChartTypeOK
    <3>2. settled' \in {settled /\ changed = {}, c \in intact}
      BY <1>1
    <3> QED BY <3>1, <3>2
  <2>4. raced' \in BOOLEAN
    BY <1>1, <1>2 DEF ChartTypeOK
  <2> QED BY <1>1, <1>2, <2>1, <2>2, <2>3, <2>4 DEF ChartTypeOK
<1>5. Seniority'
  BY <1>1, <1>2 DEF Seniority, ViewIsTrue
<1>6. alone' = alone \cup Leaving(c)
  BY <1>1 DEF Leaving
<1>7. PICK gone, left, old : gone = After(c) /\ left = alone \cup Leaving(c) /\ old = db.retired
  OBVIOUS
<1>8. /\ UNCHANGED shape /\ Shaped(gone) => Shaped(gone)'
      /\ UNCHANGED shape /\ Shaped(old) => Shaped(old)'
      /\ Strays(gone, left) => Strays(gone, left)'
  BY <1>1, OthersDoNotCount
<1>9. settled' => Shaped(db.retired)'
  <2>1. stage[c] = "reconciling" /\ c \in intact => Shaped(gone)
    BY <1>2, <1>7 DEF ViewIsTrue
  <2>2. settled => Shaped(old)
    BY <1>7 DEF ChartInv
  <2>3. db'.retired = gone /\ (changed = {} => db'.retired = old)
    BY <1>1, <1>3, <1>7
  <2>4. CASE stage[c] = "reconciling"
    <3>1. Shaped(db.retired)' <=> Shaped(gone)'
      BY <2>3
    <3> QED BY <1>1, <1>8, <2>1, <2>4, <3>1
  <2>5. CASE stage[c] # "reconciling" /\ changed = {}
    <3>1. Shaped(db.retired)' <=> Shaped(old)'
      BY <2>3, <2>5
    <3> QED BY <1>1, <1>8, <2>2, <2>5, <3>1
  <2> QED BY <1>1, <2>4, <2>5
<1>10. raced' \/ Strays(db.retired, alone)'
  <2>1. raced \/ Strays(gone, left)
    BY <1>2, <1>7 DEF ViewIsTrue
  <2>2. Strays(db.retired, alone)' <=> Strays(gone, left)'
    BY <1>1, <1>6, <1>7
  <2> QED BY <1>1, <1>8, <2>1, <2>2
<1>11. ASSUME NEW d \in Client, pending'[d] # None PROVE ViewIsTrue(d)'
  <2>1. /\ d # c /\ pending'[d] = pending[d] /\ stage'[d] = stage[d] /\ pending[d] # None
        /\ ViewIsTrue(d) /\ IsDiff(pending[d])
    BY <1>1, <1>2, <1>11 DEF ChartInv, ChartTypeOK, TypeOK
  <2>2. raced'
    BY <1>1, <2>1
  <2>3. ASSUME NEW a \in Agent, ~After(d)'[a] PROVE a <= hired'
    <3>1. After(d)'[a] = IF a \in DOMAIN pending[d].retired
                         THEN pending[d].retired[a] ELSE After(c)[a]
      <4>1. DOMAIN db'.retired = Agent
        BY <1>1, <1>2 DEF After, Written
      <4> QED BY <1>1, <2>1, <4>1 DEF After, Written
    <3>2. CASE a \in DOMAIN pending[d].retired
      <4>1. ~After(d)[a]
        BY <1>2, <2>3, <3>1, <3>2 DEF After, Written
      <4> QED BY <1>1, <2>1, <4>1 DEF ViewIsTrue
    <3>3. CASE a \notin DOMAIN pending[d].retired
      BY <1>1, <1>2, <2>3, <3>1, <3>3 DEF ViewIsTrue
    <3> QED BY <3>2, <3>3
  <2>4. ASSUME stage'[d] = "reconciling", d \in intact' PROVE Shaped(After(d))'
    <3>1. changed = {} /\ d \in intact
      BY <1>1, <2>4
    <3>2. PICK view : view = After(d)
      OBVIOUS
    <3>3. After(d)' = view
      BY <1>3, <2>1, <3>1, <3>2 DEF After, Written
    <3>4. Shaped(view)
      BY <2>1, <2>4, <3>1, <3>2 DEF ViewIsTrue
    <3>5. Shaped(view)'
      BY <1>1, <3>4, OthersDoNotCount
    <3> QED BY <3>3, <3>5
  <2> QED BY <2>2, <2>3, <2>4 DEF ViewIsTrue
<1> QED BY <1>4, <1>5, <1>9, <1>10, <1>11 DEF ChartInv

\* A transaction that is lost leaves the others' views as they were.
LEMMA RollbackKeepsChart ==
  ASSUME ChartInv, TypeOK, NEW c \in Client, RollbackRows(c)
  PROVE  ChartInv'
<1>1. /\ pending' = [pending EXCEPT ![c] = None] /\ stage' = [stage EXCEPT ![c] = "none"]
      /\ intact' = intact \ {c}
      /\ UNCHANGED <<db, shape, boss, level, hired, settled, alone, raced>>
  BY DEF RollbackRows, Rollback, Ended
<1>2. ChartTypeOK' /\ Seniority'
  BY <1>1 DEF ChartInv, ChartTypeOK, Seniority
<1>3. ASSUME NEW d \in Client, pending'[d] # None PROVE ViewIsTrue(d)'
  <2>1. /\ pending'[d] = pending[d] /\ stage'[d] = stage[d]
        /\ ViewIsTrue(d) /\ (d \in intact' => d \in intact)
    BY <1>1, <1>3 DEF ChartInv, ChartTypeOK, TypeOK
  <2> QED BY <1>1, <2>1, ViewIsKept
<1> QED BY <1>1, <1>2, <1>3, ChartIsKept

\* The handlers that work on a session hire nobody, and retire at most one agent.
LEMMA ClientStepOnlyRetires ==
  ASSUME db \in Rows, NEW c \in Client, ClientStep(c)
  PROVE  \E new \in Rows : Begin(c, new) /\ \A a \in Agent : db.retired[a] => new.retired[a]
<1>1. ASSUME NEW t \in Task, NEW who \in Assignee, CreateTask(c, t, who)
      PROVE  \E new \in Rows : Begin(c, new) /\ \A a \in Agent : db.retired[a] => new.retired[a]
  <2> DEFINE new == [db EXCEPT !.status[t] = "open", !.assignee[t] = who]
  <2>1. new \in Rows /\ new.retired = db.retired
    BY DEF Rows, Status
  <2> QED BY <1>1, <2>1 DEF CreateTask
<1>2. ASSUME NEW s \in Rows, NEW t \in Task, NEW before, s.retired = db.retired
      PROVE  Synced(s, t, before) \in Rows /\ Synced(s, t, before).retired = db.retired
  <2>1. Synced(s, t, before) \in Rows
    BY SyncedAreRows
  <2>2. Synced(s, t, before).retired = s.retired
    BY DEF Synced, Rows
  <2> QED BY <1>2, <2>1, <2>2
<1>3. ASSUME NEW t \in Task, NEW who \in Assignee, NEW st \in {"open", "done"},
             UpdateTask(c, t, who, st)
      PROVE  \E new \in Rows : Begin(c, new) /\ \A a \in Agent : db.retired[a] => new.retired[a]
  <2> DEFINE s == [db EXCEPT !.assignee[t] = who, !.status[t] = st]
  <2>1. s \in Rows /\ s.retired = db.retired
    BY DEF Rows, Status
  <2>2. Begin(c, Synced(s, t, db.assignee[t]))
    BY <1>3 DEF UpdateTask
  <2> QED BY <1>2, <2>1, <2>2
<1>4. ASSUME NEW t \in Task, NEW a \in Agent, DelegateTask(c, t, a)
      PROVE  \E new \in Rows : Begin(c, new) /\ \A b \in Agent : db.retired[b] => new.retired[b]
  <2> DEFINE s == [db EXCEPT !.assignee[t] = a]
             synced == Synced(s, t, db.assignee[t])
             new == [synced EXCEPT !.failures[a] = 0]
  <2>1. s \in Rows /\ s.retired = db.retired
    BY DEF Rows, Assignee
  <2>2. synced \in Rows /\ synced.retired = db.retired
    BY <1>2, <2>1
  <2>3. new \in Rows /\ new.retired = db.retired
    BY <2>2 DEF Rows
  <2>4. Begin(c, new)
    BY <1>4 DEF DelegateTask
  <2> QED BY <2>3, <2>4
<1>5. ASSUME NEW a \in Agent, RetireAgent(c, a)
      PROVE  \E new \in Rows : Begin(c, new) /\ \A b \in Agent : db.retired[b] => new.retired[b]
  <2>1. Retired({a}) \in Rows
    BY RetiredAreRows
  <2>2. \A b \in Agent : db.retired[b] => Retired({a}).retired[b]
    BY DEF Retired, Rows
  <2> QED BY <1>5, <2>1, <2>2 DEF RetireAgent
<1>6. ASSUME NEW a \in Agent, MessageAgent(c, a)
      PROVE  \E new \in Rows : Begin(c, new) /\ \A b \in Agent : db.retired[b] => new.retired[b]
  <2> DEFINE new == [db EXCEPT !.failures[a] = 0]
  <2>1. new \in Rows /\ new.retired = db.retired
    BY DEF Rows
  <2> QED BY <1>6, <2>1 DEF MessageAgent
<1>7. ASSUME NEW a \in Agent, NEW on \in BOOLEAN, SwitchAgent(c, a, on)
      PROVE  \E new \in Rows : Begin(c, new) /\ \A b \in Agent : db.retired[b] => new.retired[b]
  <2> DEFINE new == [db EXCEPT !.enabled[a] = on]
  <2>1. new \in Rows /\ new.retired = db.retired
    BY DEF Rows
  <2> QED BY <1>7, <2>1 DEF SwitchAgent
<1> QED BY <1>1, <1>3, <1>4, <1>5, <1>6, <1>7 DEF ClientStep

\* A request of another kind: it leaves behind those below the agent it retires.
LEMMA RequestsKeepChart ==
  ASSUME TypeOK, ChartInv, NEW c \in Client, stage[c] = "none", ClientStep(c),
         UNCHANGED <<chart, told>>
  PROVE  ChartInv'
<1>1. PICK new \in Rows : Begin(c, new) /\ \A a \in Agent : db.retired[a] => new.retired[a]
  BY ClientStepOnlyRetires DEF TypeOK
<1>2. /\ pending' = [pending EXCEPT ![c] = Changes(new)]
      /\ UNCHANGED <<db, shape, boss, level, hired, stage, intact, settled, alone, raced>>
  BY <1>1 DEF Begin, chart, told
<1>3. ChartTypeOK' /\ Seniority' /\ ChartTypeOK /\ Seniority
  BY <1>2 DEF ChartInv, ChartTypeOK, Seniority
<1>4. After(c)' = new.retired
  BY <1>2, AfterOpening
<1>5. \A a \in Agent : new.retired[a] /\ ~db.retired[a] => a \in Leaving(c)'
  <2>1. pending'[c] = Changes(new)
    BY <1>2 DEF TypeOK
  <2>2. Leaving(c)' = DOMAIN Changed(db.retired, new.retired)
    BY <1>2, <2>1 DEF Leaving, Changes
  <2>3. DOMAIN db.retired = Agent
    BY DEF TypeOK, Rows
  <2> QED BY <2>2, <2>3 DEF Changed
<1>6. ViewIsTrue(c)'
  <2>1. \A a \in Agent : ~new.retired[a] => a <= hired
    BY <1>1, <1>3 DEF Seniority
  <2>2. raced \/ Strays(db.retired, alone)
    BY DEF ChartInv
  <2>3. ASSUME ~raced, NEW a \in Agent, ~new.retired[a], boss[a] # Nobody, new.retired[boss[a]]
        PROVE  boss[a] \in alone \cup Leaving(c)'
    <3>1. boss[a] \in Agent /\ ~db.retired[a]
      BY <1>1, <1>3, <2>3 DEF ChartTypeOK
    <3> QED BY <1>5, <2>2, <2>3, <3>1 DEF Strays
  <2>4. raced \/ Strays(After(c), alone \cup Leaving(c))'
    BY <1>2, <1>4, <2>3 DEF Strays
  <2> QED BY <1>2, <1>4, <2>1, <2>4 DEF ViewIsTrue
<1>7. ASSUME NEW d \in Client, pending'[d] # None PROVE ViewIsTrue(d)'
  <2>1. CASE d = c
    BY <1>6, <2>1
  <2>2. CASE d # c
    <3>1. pending'[d] = pending[d] /\ ViewIsTrue(d)
      BY <1>2, <1>7, <2>2 DEF ChartInv, TypeOK
    <3> QED BY <1>2, <3>1, ViewIsKept
  <2> QED BY <2>1, <2>2
<1> QED BY <1>2, <1>3, <1>7, ChartIsKept

\* A workspace whose chart is empty, or filled with its ceo and one below.
LEMMA ChartInitInv == ChartInit => ChartInv
<1> SUFFICES ASSUME ChartInit PROVE ChartInv
  OBVIOUS
<1>0. /\ Levels \in Nat /\ Levels >= 2 /\ MaxAgents \in Nat /\ Agent = 1 .. MaxAgents
      /\ hired \in {0, 2} /\ hired <= MaxAgents /\ Nobody = 0
  BY ShapeAssumption, AgentsAreNumbered DEF ChartInit, Nobody
<1>1. /\ shape = [k \in 2 .. Levels |-> IF k = 2 /\ hired = 2 THEN 1 ELSE 0]
      /\ boss = [a \in Agent |-> IF a = 2 /\ hired = 2 THEN 1 ELSE Nobody]
      /\ level = [a \in Agent |-> IF a <= hired THEN a ELSE 0]
      /\ stage = [c \in Client |-> "none"] /\ intact = {} /\ alone = {}
      /\ settled = TRUE /\ raced = FALSE
  BY DEF ChartInit
<1>2. \A a \in Agent : db.retired[a] = (a \notin 1 .. hired)
  BY DEF ChartInit, StaffedBy
<1>3. \A c \in Client : pending[c] = None
  BY DEF ChartInit, Quiet
<1>4. \A a \in Agent : /\ ~db.retired[a] <=> a <= hired
                       /\ level[a] = IF a <= hired THEN a ELSE 0
                       /\ boss[a] = IF a = 2 /\ hired = 2 THEN 1 ELSE Nobody
  <2>1. \A a \in Agent : a \notin 1 .. hired <=> ~(a <= hired)
    BY <1>0
  <2>2. \A a \in Agent : ~db.retired[a] <=> a <= hired
    BY <1>2, <2>1
  <2> QED BY <1>1, <2>2
<1>5. ChartTypeOK
  <2>1. shape \in [2 .. Levels -> Nat]
    BY <1>0, <1>1
  <2>2. boss \in [Agent -> Agent \cup {Nobody}]
    BY <1>0, <1>1
  <2>3. level \in [Agent -> 0 .. Levels]
    BY <1>0, <1>1
  <2>4. hired \in 0 .. MaxAgents
    BY <1>0
  <2> QED BY <1>1, <2>1, <2>2, <2>3, <2>4 DEF ChartTypeOK
<1>6. Seniority
  BY <1>0, <1>4 DEF Seniority
<1>7. Strays(db.retired, alone)
  BY <1>0, <1>4 DEF Strays
<1>8. Shaped(db.retired)
  <2>1. \A k \in 2 .. Levels : PerParent(k) = IF k = 2 /\ hired = 2 THEN 1 ELSE 0
    BY <1>0, <1>1 DEF PerParent
  <2>2. PerParent(1) = IF hired = 2 THEN 1 ELSE 0
    BY <1>0, <1>1 DEF PerParent
  <2>3. \A x : Cardinality({x}) = 1
    BY FS_Singleton
  <2>4. CASE hired = 0
    <3>1. \A p, k : Staff(p, k, db.retired) = {}
      BY <1>0, <1>4, <2>4 DEF Staff
    <3>2. \A T \in SUBSET Agent : Stands(T, db.retired) => T = {}
      BY <1>0, <1>4, <2>4 DEF Stands
    <3> QED BY <2>2, <2>4, <3>1, <3>2, FS_EmptySet DEF Shaped
  <2>5. CASE hired = 2
    <3>0. 1 \in Agent /\ 2 \in Agent
      BY <1>0, <2>5
    <3>1. Staff(Nobody, 1, db.retired) = {1}
      BY <1>0, <1>4, <2>5, <3>0 DEF Staff
    <3>2. Staff(1, 2, db.retired) = {2}
      BY <1>0, <1>4, <2>5, <3>0 DEF Staff
    <3>3. Staff(2, 3, db.retired) = {}
      BY <1>0, <1>4, <2>5, <3>0 DEF Staff
    <3>4. ASSUME NEW a \in Agent, ~db.retired[a], level[a] < Levels
          PROVE  Cardinality(Staff(a, level[a] + 1, db.retired)) = PerParent(level[a] + 1)
      <4>1. (a = 1 /\ level[a] = 1) \/ (a = 2 /\ level[a] = 2)
        BY <1>0, <1>4, <2>5, <3>4
      <4>2. CASE a = 1 /\ level[a] = 1
        <5>1. 2 \in 2 .. Levels /\ level[a] + 1 = 2
          BY <1>0, <4>2
        <5>2. PerParent(2) = 1
          BY <2>1, <2>5, <5>1
        <5> QED BY <2>3, <3>2, <4>2, <5>1, <5>2
      <4>3. CASE a = 2 /\ level[a] = 2
        <5>1. 3 \in 2 .. Levels
          BY <1>0, <3>4, <4>3
        <5> QED BY <2>1, <3>3, <4>3, <5>1, FS_EmptySet
      <4> QED BY <4>1, <4>2, <4>3
    <3>5. Cardinality(Staff(Nobody, 1, db.retired)) = PerParent(1)
      BY <2>2, <2>3, <2>5, <3>1
    <3> QED BY <3>4, <3>5 DEF Shaped, Stands
  <2> QED BY <1>0, <2>4, <2>5
<1> QED BY <1>3, <1>5, <1>6, <1>7, <1>8 DEF ChartInv

\* What leaves the rows' retirements, the requests and the chart alone.
LEMMA TheRestKeepsChart ==
  ASSUME TypeOK, TypeOK', ChartInv,
         \/ Otherwise /\ UNCHANGED <<chart, told>>
         \/ \E c \in Client : Interrupt(c)
         \/ UNCHANGED chartVars
  PROVE  ChartInv'
<1>1. db'.retired = db.retired /\ UNCHANGED pending
  <2>1. CASE Otherwise
    <3>1. Fading /\ UNCHANGED pending
      BY <2>1, OtherwiseFades
    <3>2. db.retired \in [Agent -> BOOLEAN] /\ db'.retired \in [Agent -> BOOLEAN]
      BY DEF TypeOK, Rows
    <3> QED BY <3>1, <3>2 DEF Fading
  <2>2. CASE \E c \in Client : Interrupt(c)
    BY <2>2 DEF Interrupt, vars
  <2>3. CASE UNCHANGED chartVars
    BY <2>3 DEF chartVars, vars
  <2> QED BY <2>1, <2>2, <2>3
<1>2. /\ UNCHANGED <<shape, boss, level, hired, intact, settled, alone, raced>>
      /\ stage' \in [Client -> {"none", "configured", "reconciling"}]
      /\ \A d \in Client : stage'[d] = "reconciling" <=> stage[d] = "reconciling"
  <2>1. CASE UNCHANGED <<chart, told>>
    BY <2>1 DEF ChartInv, ChartTypeOK, chart, told
  <2>2. ASSUME NEW c \in Client, Interrupt(c)
        PROVE  /\ UNCHANGED <<shape, boss, level, hired, told>>
               /\ stage[c] = "configured" /\ stage' = [stage EXCEPT ![c] = "none"]
    BY <2>2 DEF Interrupt
  <2>3. CASE \E c \in Client : Interrupt(c)
    BY <2>2, <2>3 DEF ChartInv, ChartTypeOK, told
  <2> QED BY <2>1, <2>3 DEF chartVars
<1>3. ChartTypeOK' /\ Seniority'
  BY <1>1, <1>2 DEF ChartInv, ChartTypeOK, Seniority
<1>4. ASSUME NEW d \in Client, pending'[d] # None PROVE ViewIsTrue(d)'
  <2>1. ViewIsTrue(d)
    BY <1>1, <1>4 DEF ChartInv
  <2> QED BY <1>1, <1>2, <2>1, ViewIsKept
<1> QED BY <1>1, <1>2, <1>3, <1>4, ChartIsKept

\* Every step keeps the argument about the chart.
LEMMA ChartKeepsInv == IndInv /\ IndInv' /\ ChartInv /\ [ChartNext]_chartVars => ChartInv'
<1> SUFFICES ASSUME IndInv, IndInv', ChartInv, [ChartNext]_chartVars PROVE ChartInv'
  OBVIOUS
<1>0. TypeOK /\ TypeOK'
  BY DEF IndInv
<1>1. ASSUME NEW c \in Client,
             (\E q \in Shapes : Configure(c, q)) \/ Reconcile(c) \/ Interrupt(c)
      PROVE  ChartInv'
  BY <1>0, <1>1, ConfigureKeepsChart, ReconcileKeepsChart, TheRestKeepsChart
<1>2. ASSUME NEW c \in Client, CommitRows(c) \/ RollbackRows(c) PROVE ChartInv'
  BY <1>0, <1>2, CommitKeepsChart, RollbackKeepsChart
<1>3. ASSUME NEW c \in Client, stage[c] = "none", ClientStep(c), UNCHANGED <<chart, told>>
      PROVE  ChartInv'
  BY <1>0, <1>3, RequestsKeepChart
<1>4. CASE Otherwise /\ UNCHANGED <<chart, told>>
  BY <1>0, <1>4, TheRestKeepsChart
<1>5. CASE UNCHANGED chartVars
  BY <1>0, <1>5, TheRestKeepsChart
<1> QED BY <1>1, <1>2, <1>3, <1>4, <1>5 DEF ChartNext

\* The argument implies what it is for.
LEMMA ChartInvIsSound == ChartInv => ChartIsSound
<1> SUFFICES ASSUME ChartInv PROVE ChartIsSound
  OBVIOUS
<1>1. ChartTypeOK /\ Seniority
  BY DEF ChartInv
<1>2. \A p, k : Reports(p, k) = Staff(p, k, db.retired)
  BY DEF Reports, Staff, Live
<1>3. ASSUME settled PROVE AsConfigured
  <2> DEFINE T == {a \in Agent : Reached[a]}
  <2>1. Shaped(db.retired)
    BY <1>3 DEF ChartInv
  <2>2. Stands(T, db.retired)
    <3>1. \A a \in T : Live(a) /\ level[a] > 0 /\ (boss[a] = Nobody \/ Reached[boss[a]])
      BY <1>1, ReachedFromAbove DEF ChartTypeOK
    <3>2. \A a \in T : boss[a] \in Agent \cup {Nobody}
      BY <1>1 DEF ChartTypeOK
    <3> QED BY <3>1, <3>2 DEF Stands, Live
  <2>3. T \in SUBSET Agent
    OBVIOUS
  <2>4. \A a \in T : level[a] < Levels =>
          Cardinality(Staff(a, level[a] + 1, db.retired)) = PerParent(level[a] + 1)
    <3> HIDE DEF T
    <3> QED BY <2>1, <2>2, <2>3 DEF Shaped
  <2> QED BY <1>2, <2>1, <2>4 DEF AsConfigured, Shaped
<1>4. StraysHaveACause
  BY DEF ChartInv, Strays, StraysHaveACause, Live
<1> QED BY <1>1, <1>3, <1>4 DEF ChartIsSound, ChartFollowsShape

\* The argument about the chart holds in every reachable state: what a reconciliation
\* leaves in its session is the configured tree, others' changes of the rows make its
\* view untrue, and a lost one leaves only agents who are not there (hierarchy.py).
THEOREM ChartInvariant == ChartSpec => []ChartInv
<1> QED BY ChartInitInv, ChartKeepsInv, ChartInvariance, PTL DEF ChartSpec

\* A reconciliation from a true view leaves each agent that the tree reaches with the
\* configured number of reports, whatever was there before, however many levels and
\* agents there are; and a live agent is under a retired one only where one was retired
\* alone or requests raced (reconcile_agents, _sync_level, _retire_with_descendants).
THEOREM ChartStaysSound == ChartSpec => []ChartIsSound
<1> QED BY ChartInvariant, ChartInvIsSound, PTL
=============================================================================

----------------------------- MODULE AgentTasks -----------------------------
(***************************************************************************)
(* Tasks, the agents they are assigned to, and the scheduler that works on *)
(* them: the API handlers that assign, update, delete, retire and switch   *)
(* (main.py, admin.py, services.py, hierarchy.py), and the autonomous      *)
(* execution loop that every API replica runs (execution.py, copilot.py).  *)
(*                                                                         *)
(* Both sides read rows into an ORM session, decide on what they read, and *)
(* commit later.  The commit writes only the columns whose value changed   *)
(* in the session (Changes, Saved), at READ COMMITTED: a decision can      *)
(* therefore rest on rows another transaction has meanwhile rewritten.     *)
(* All reads of a handler are taken at one instant, its commit at another. *)
(***************************************************************************)
EXTENDS Naturals, FiniteSets

CONSTANTS
  Agent,        \* users of kind "agent"
  Person,       \* users of kind "human" a task may be assigned to
  Task,         \* the ids tasks may get
  Replica,      \* scheduler loops, one per API process
  Client,       \* API requests served at the same time
  None,         \* NULL
  MaxFailures,  \* MAX_CONSECUTIVE_FAILURES
  MaxRequests,  \* bound of the model: administrative requests served
  MaxCrashes    \* bound of the model: replica crashes

ASSUME NoneAssumption ==
  None \notin Agent \cup Person \cup Task \cup Replica

ASSUME DisjointUsers == Agent \cap Person = {}

ASSUME BoundAssumption ==
  MaxFailures \in Nat \ {0} /\ MaxRequests \in Nat /\ MaxCrashes \in Nat

VARIABLES
  db,       \* the committed columns of tasks and users, see Rows
  orgOn,    \* organizations.execution_enabled
  recent,   \* agents whose last_execution_at is within STEP_COOLDOWN_SECONDS
  pending,  \* per request: the changes of its open transaction, or None
  lock,     \* per agent: the replica holding its advisory lock, or None
  phase,    \* per replica: where its tick is
  todo,     \* per replica: the agents its tick has still to visit
  seen,     \* per replica and agent: the agent row in its session, or None
  agent,    \* per replica: the agent it holds the lock of, or None
  job,      \* per replica: the task row in its session, or None
  edits,    \* repository edits made, as pairs of agent and task (history)
  requests, \* requests served so far
  crashes   \* crashes so far

sched == <<lock, phase, todo, seen, agent, job>>
vars == <<db, orgOn, recent, pending, sched, edits, requests, crashes>>

Status == {"new", "open", "done", "deleted"}
Assignee == Agent \cup Person \cup {None}
TaskOrNone == Task \cup {None}

\* "new" ids are not in the table yet; "open" is every status but done.
Rows == [status : [Task -> Status], assignee : [Task -> Assignee],
         current : [Agent -> TaskOrNone], failures : [Agent -> Nat],
         enabled : [Agent -> BOOLEAN], retired : [Agent -> BOOLEAN]]

\* The columns a session has changed, with their new values: each one is a
\* function on the rows where the column changed.
IsColumn(f, S, T) == DOMAIN f \subseteq S /\ f \in [DOMAIN f -> T]

IsDiff(d) ==
  /\ d = [status |-> d.status, assignee |-> d.assignee, current |-> d.current,
          failures |-> d.failures, enabled |-> d.enabled, retired |-> d.retired]
  /\ IsColumn(d.status, Task, Status)
  /\ IsColumn(d.assignee, Task, Assignee)
  /\ IsColumn(d.current, Agent, TaskOrNone)
  /\ IsColumn(d.failures, Agent, Nat)
  /\ IsColumn(d.enabled, Agent, BOOLEAN)
  /\ IsColumn(d.retired, Agent, BOOLEAN)

\* What the scheduler's session keeps of an agent and of its task.
AgentRow == [current : TaskOrNone, failures : Nat]
TaskRow == [id : Task, status : Status]

Phases == {"idle", "visiting", "locked", "asking", "completing", "narrating", "failing"}

\* The phases of a step proper: from the provider's call to the commit.
Stepping == {"asking", "completing", "narrating", "failing"}

-----------------------------------------------------------------------------
(* The ORM session: changed columns, and the commit that writes them.      *)

Exists(t) == db.status[t] \in {"open", "done"}

Changed(old, new) == [k \in {k \in DOMAIN old : new[k] # old[k]} |-> new[k]]

Changes(new) ==
  [status |-> Changed(db.status, new.status),
   assignee |-> Changed(db.assignee, new.assignee),
   current |-> Changed(db.current, new.current),
   failures |-> Changed(db.failures, new.failures),
   enabled |-> Changed(db.enabled, new.enabled),
   retired |-> Changed(db.retired, new.retired)]

Written(old, diff) == [k \in DOMAIN old |-> IF k \in DOMAIN diff THEN diff[k] ELSE old[k]]

Saved(diff) ==
  [status |-> Written(db.status, diff.status),
   assignee |-> Written(db.assignee, diff.assignee),
   current |-> Written(db.current, diff.current),
   failures |-> Written(db.failures, diff.failures),
   enabled |-> Written(db.enabled, diff.enabled),
   retired |-> Written(db.retired, diff.retired)]

\* The database accepts the changes: every task row they update is still
\* there, and so is every task they point at (foreign key).
Accepted(diff) ==
  /\ \A t \in DOMAIN diff.status \cup DOMAIN diff.assignee : db.status[t] # "deleted"
  /\ \A a \in DOMAIN diff.current :
       diff.current[a] # None => db.status[diff.current[a]] # "deleted"

-----------------------------------------------------------------------------
(* services.sync_agent_task_pointers on the rows s: task t had assignee    *)
(* before, and now carries its new assignee and status.                    *)

\* A plausible bug: the previous assignee keeps its pointer.
Synced_KeepsOldPointer(s, t, before) ==
  LET moved == s.assignee[t] # before
      gains(a) == moved /\ a = s.assignee[t]
      finishes(a) == /\ a = s.assignee[t] /\ s.status[t] = "done"
                     /\ gains(a) \/ s.current[a] = t
      pointer(a) == IF finishes(a) THEN None
                    ELSE IF gains(a) THEN t ELSE s.current[a]
  IN  [s EXCEPT !.current = [a \in Agent |-> pointer(a)]]

Synced(s, t, before) ==
  LET moved == s.assignee[t] # before
      gains(a) == moved /\ a = s.assignee[t]
      leaves(a) == moved /\ a = before /\ s.current[a] = t
      finishes(a) == /\ a = s.assignee[t] /\ s.status[t] = "done"
                     /\ gains(a) \/ s.current[a] = t
      pointer(a) == IF leaves(a) \/ finishes(a) THEN None
                    ELSE IF gains(a) THEN t ELSE s.current[a]
  IN  [s EXCEPT !.current = [a \in Agent |-> pointer(a)]]

\* ensure_org_assignee, and the same test in assign_task_to_agent.
Assignable(who) == who \in Agent => ~db.retired[who]

-----------------------------------------------------------------------------
(* API requests.  Begin(c, new): the handler has read, checked and changed *)
(* its session's rows to new; Commit(c) or Rollback(c) ends it.            *)

Begin(c, new) ==
  /\ pending[c] = None
  /\ requests < MaxRequests
  /\ requests' = requests + 1
  /\ pending' = [pending EXCEPT ![c] = Changes(new)]
  /\ UNCHANGED <<db, orgOn, recent, sched, edits, crashes>>

\* POST /api/tasks: inserts the row, but leaves the agent's pointer alone.
CreateTask(c, t, who) ==
  /\ db.status[t] = "new"
  /\ \A d \in Client : pending[d] # None => t \notin DOMAIN pending[d].status
  /\ Assignable(who)
  /\ Begin(c, [db EXCEPT !.status[t] = "open", !.assignee[t] = who])

\* PATCH /api/tasks/{id} with an assignee and a status.
UpdateTask(c, t, who, st) ==
  /\ Exists(t)
  /\ who # db.assignee[t] => Assignable(who)
  /\ Begin(c, Synced([db EXCEPT !.assignee[t] = who, !.status[t] = st],
                     t, db.assignee[t]))

\* POST /api/tasks/{id}/assign-agent, and a confirmed delegate_task.
DelegateTask(c, t, a) ==
  /\ Exists(t)
  /\ Assignable(a)
  /\ Begin(c, [Synced([db EXCEPT !.assignee[t] = a], t, db.assignee[t])
                 EXCEPT !.failures[a] = 0])

\* A plausible bug: agents are retired with their tasks in hand.
Retired_KeepsTask(A) ==
  [db EXCEPT !.retired = [a \in Agent |-> a \in A \/ @[a]],
             !.enabled = [a \in Agent |-> a \notin A /\ @[a]]]

\* hierarchy.retire_agent for each agent of A: its task is nobody's, its switch off.
Retired(A) ==
  [db EXCEPT
     !.assignee = [t \in Task |-> IF \E a \in A : db.current[a] = t THEN None ELSE @[t]],
     !.current = [a \in Agent |-> IF a \in A THEN None ELSE @[a]],
     !.retired = [a \in Agent |-> a \in A \/ @[a]],
     !.enabled = [a \in Agent |-> a \notin A /\ @[a]]]

\* POST /api/agents/{id}/retire.
RetireAgent(c, a) ==
  /\ ~db.retired[a]
  /\ Begin(c, Retired({a}))

\* PATCH /api/agents/{id}/execution.
SwitchAgent(c, a, on) ==
  /\ on => ~db.retired[a]
  /\ Begin(c, [db EXCEPT !.enabled[a] = on])

Allowed(a) == orgOn /\ db.enabled[a]

\* POST /api/agents/{id}/messages: a human's message clears the failures.
MessageAgent(c, a) ==
  /\ ~db.retired[a]
  /\ Allowed(a)
  /\ Begin(c, [db EXCEPT !.failures[a] = 0])

Commit(c) ==
  /\ pending[c] # None
  /\ Accepted(pending[c])
  /\ db' = Saved(pending[c])
  /\ pending' = [pending EXCEPT ![c] = None]
  /\ UNCHANGED <<orgOn, recent, sched, edits, requests, crashes>>

\* The commit is refused, the handler raises, or its process dies.
Rollback(c) ==
  /\ pending[c] # None
  /\ pending' = [pending EXCEPT ![c] = None]
  /\ UNCHANGED <<db, orgOn, recent, sched, edits, requests, crashes>>

\* DELETE /api/tasks/{id}: SQL statements on the rows as they are, one commit.
DeleteTask(t) ==
  /\ Exists(t)
  /\ requests < MaxRequests
  /\ requests' = requests + 1
  /\ db' = [db EXCEPT !.status[t] = "deleted", !.assignee[t] = None,
                      !.current = [a \in Agent |-> IF @[a] = t THEN None ELSE @[a]]]
  /\ UNCHANGED <<orgOn, recent, pending, sched, edits, crashes>>

\* PATCH /api/settings: the workspace-wide switch.
SwitchWorkspace ==
  /\ requests < MaxRequests
  /\ requests' = requests + 1
  /\ orgOn' = ~orgOn
  /\ UNCHANGED <<db, recent, pending, sched, edits, crashes>>

-----------------------------------------------------------------------------
(* The scheduler.                                                          *)

Eligible ==
  {a \in Agent : Allowed(a) /\ db.current[a] # None /\ db.failures[a] < MaxFailures}

RowOf(a) == [current |-> db.current[a], failures |-> db.failures[a]]

StartTick(r) ==
  /\ phase[r] = "idle"
  /\ Eligible # {}
  /\ phase' = [phase EXCEPT ![r] = "visiting"]
  /\ todo' = [todo EXCEPT ![r] = Eligible]
  /\ seen' = [seen EXCEPT ![r] = [a \in Agent |-> IF a \in Eligible THEN RowOf(a) ELSE None]]
  /\ UNCHANGED <<db, orgOn, recent, pending, lock, agent, job, edits, requests, crashes>>

EndTick(r) ==
  /\ phase[r] = "visiting"
  /\ todo[r] = {}
  /\ phase' = [phase EXCEPT ![r] = "idle"]
  /\ seen' = [seen EXCEPT ![r] = [a \in Agent |-> None]]
  /\ UNCHANGED <<db, orgOn, recent, pending, lock, todo, agent, job, edits, requests, crashes>>

\* A plausible bug: the advisory lock is granted to whoever asks.
LockIsFree_Always(a) == TRUE

LockIsFree(a) == lock[a] = None

\* agent_step_lock grants: an expired row was reloaded just before.
TakeLock(r, a) ==
  /\ phase[r] = "visiting"
  /\ a \in todo[r]
  /\ LockIsFree(a)
  /\ lock' = [lock EXCEPT ![a] = r]
  /\ phase' = [phase EXCEPT ![r] = "locked"]
  /\ todo' = [todo EXCEPT ![r] = @ \ {a}]
  /\ agent' = [agent EXCEPT ![r] = a]
  /\ seen' = [seen EXCEPT ![r][a] = IF @ = None THEN RowOf(a) ELSE @]
  /\ UNCHANGED <<db, orgOn, recent, pending, job, edits, requests, crashes>>

\* Another replica is mid-step on this agent: not this one's turn.
PassBusy(r, a) ==
  /\ phase[r] = "visiting"
  /\ a \in todo[r]
  /\ ~LockIsFree(a)
  /\ todo' = [todo EXCEPT ![r] = @ \ {a}]
  /\ UNCHANGED <<db, orgOn, recent, pending, lock, phase, seen, agent, job, edits, requests, crashes>>

\* A plausible bug: the lock's connection goes back to the pool unclosed.
Unlocked_Leaks(r) == lock

\* The replica leaves its agent: the lock's connection is closed.
Unlocked(r) == [a \in Agent |-> IF lock[a] = r THEN None ELSE lock[a]]

Leave(r) ==
  /\ lock' = Unlocked(r)
  /\ phase' = [phase EXCEPT ![r] = "visiting"]
  /\ agent' = [agent EXCEPT ![r] = None]
  /\ job' = [job EXCEPT ![r] = None]

\* commit and rollback expire every row of the session.
Expired(r) == [seen EXCEPT ![r] = [a \in Agent |-> None]]

\* A plausible bug: the cooldown is not read again under the lock.
CooledDown_NotReread(a) == TRUE

CooledDown(a) == a \notin recent

\* _stepped_recently, or execution_allowed says no: nothing is written.
PassOver(r) ==
  /\ phase[r] = "locked"
  /\ ~CooledDown(agent[r]) \/ ~Allowed(agent[r])
  /\ Leave(r)
  /\ UNCHANGED <<db, orgOn, recent, pending, todo, seen, edits, requests, crashes>>

MayStep(r) ==
  phase[r] = "locked" /\ CooledDown(agent[r]) /\ Allowed(agent[r])

Pointed(r) == seen[r][agent[r]].current
HasTask(r) == Pointed(r) # None /\ Exists(Pointed(r))

\* The task the session points at is gone: drop the pointer and commit.
ClearPointer(r) ==
  /\ MayStep(r)
  /\ ~HasTask(r)
  /\ db' = IF Pointed(r) = None THEN db ELSE [db EXCEPT !.current[agent[r]] = None]
  /\ Leave(r)
  /\ seen' = Expired(r)
  /\ UNCHANGED <<orgOn, recent, pending, todo, edits, requests, crashes>>

\* run_execution_step: the task, read now, must be the agent's.
BeginStep(r) ==
  LET t == Pointed(r)
      mine == db.assignee[t] = agent[r]
  IN  /\ MayStep(r)
      /\ HasTask(r)
      /\ phase' = [phase EXCEPT ![r] = IF mine THEN "asking" ELSE "failing"]
      /\ job' = [job EXCEPT ![r] = [id |-> t, status |-> db.status[t]]]
      /\ UNCHANGED <<db, orgOn, recent, pending, lock, todo, seen, agent, edits, requests, crashes>>

\* A provider round that edits the repository: the assignment test in
\* apply_agent_repo_patch reads the session's rows, not the table's.
EditRepository(r) ==
  /\ phase[r] = "asking"
  /\ Allowed(agent[r])
  /\ job[r].status # "done"
  /\ edits' = edits \cup {<<agent[r], job[r].id>>}
  /\ UNCHANGED <<db, orgOn, recent, pending, sched, requests, crashes>>

\* The provider's last round: it marks the task complete, or says something
\* (narrated, proposed, inconclusive); the switch is read once more.
Answer(r) ==
  /\ phase[r] = "asking"
  /\ Allowed(agent[r])
  /\ \E outcome \in {"completing", "narrating"} :
       phase' = [phase EXCEPT ![r] = outcome]
  /\ UNCHANGED <<db, orgOn, recent, pending, lock, todo, seen, agent, job, edits, requests, crashes>>

\* CopilotProviderError: the provider failed, or the switch went off.  An
\* agent that has edited the repository by then narrates what it did.
ProviderError(r) ==
  /\ phase[r] = "asking"
  /\ \/ phase' = [phase EXCEPT ![r] = "failing"]
     \/ /\ <<agent[r], job[r].id>> \in edits
        /\ phase' = [phase EXCEPT ![r] = "narrating"]
  /\ UNCHANGED <<db, orgOn, recent, pending, lock, todo, seen, agent, job, edits, requests, crashes>>

\* The columns the step changed in its session.
StepChanges(r) ==
  LET a == agent[r]
      row == seen[r][a]
      failures == IF phase[r] = "failing" THEN row.failures + 1 ELSE 0
      completes == phase[r] = "completing"
      Only(k, v, old) == [x \in {y \in {k} : v # old} |-> v]
  IN  [status   |-> Only(job[r].id, IF completes THEN "done" ELSE job[r].status, job[r].status),
       assignee |-> [x \in {} |-> None],
       current  |-> Only(a, IF completes THEN None ELSE row.current, row.current),
       failures |-> Only(a, failures, row.failures),
       enabled  |-> [x \in {} |-> FALSE],
       retired  |-> [x \in {} |-> FALSE]]

Saving(r) == phase[r] \in {"completing", "narrating", "failing"}

\* The step's commit, which also stamps last_execution_at.
SaveStep(r) ==
  /\ Saving(r)
  /\ Accepted(StepChanges(r))
  /\ db' = Saved(StepChanges(r))
  /\ recent' = recent \cup {agent[r]}
  /\ Leave(r)
  /\ seen' = Expired(r)
  /\ UNCHANGED <<orgOn, pending, todo, edits, requests, crashes>>

\* Anything else that is raised in the step or by its commit (its task was
\* deleted meanwhile): rollback, and the failure goes to the audit ledger.
FailStep(r) ==
  /\ phase[r] \in Stepping
  /\ Leave(r)
  /\ seen' = Expired(r)
  /\ UNCHANGED <<db, orgOn, recent, pending, todo, edits, requests, crashes>>

\* The process dies: its database connections close, its locks with them.
Crash(r) ==
  /\ phase[r] # "idle"
  /\ crashes < MaxCrashes
  /\ crashes' = crashes + 1
  /\ lock' = Unlocked(r)
  /\ phase' = [phase EXCEPT ![r] = "idle"]
  /\ todo' = [todo EXCEPT ![r] = {}]
  /\ seen' = Expired(r)
  /\ agent' = [agent EXCEPT ![r] = None]
  /\ job' = [job EXCEPT ![r] = None]
  /\ UNCHANGED <<db, orgOn, recent, pending, edits, requests>>

\* STEP_COOLDOWN_SECONDS have passed since the agent's last step.
CoolDown(a) ==
  /\ a \in recent
  /\ recent' = recent \ {a}
  /\ UNCHANGED <<db, orgOn, pending, sched, edits, requests, crashes>>

-----------------------------------------------------------------------------
\* Nothing is running and nothing has happened yet.
Quiet ==
  /\ orgOn = TRUE
  /\ recent = {}
  /\ pending = [c \in Client |-> None]
  /\ lock = [a \in Agent |-> None]
  /\ phase = [r \in Replica |-> "idle"]
  /\ todo = [r \in Replica |-> {}]
  /\ seen = [r \in Replica |-> [a \in Agent |-> None]]
  /\ agent = [r \in Replica |-> None]
  /\ job = [r \in Replica |-> None]
  /\ edits = {}
  /\ requests = 0
  /\ crashes = 0

\* Rows where each agent of A is there and working, and the others are not.
\* Some tasks exist, each open; an agent works on one it is assigned.
StaffedBy(A) ==
  {rows \in [status : [Task -> {"new", "open"}], assignee : [Task -> A \cup {None}],
             current : [Agent -> TaskOrNone], failures : {[a \in Agent |-> 0]},
             enabled : {[a \in Agent |-> a \in A]}, retired : {[a \in Agent |-> a \notin A]}] :
     /\ \A t \in Task : rows.status[t] = "new" => rows.assignee[t] = None
     /\ \A a \in Agent, t \in Task : rows.current[a] = t => rows.assignee[t] = a
     /\ \A a \in Agent, t \in Task : rows.assignee[t] = a => rows.current[a] # None}

Init == db \in StaffedBy(Agent) /\ Quiet

ClientStep(c) ==
  \/ \E t \in Task, who \in Assignee : CreateTask(c, t, who)
  \/ \E t \in Task, who \in Assignee, st \in {"open", "done"} : UpdateTask(c, t, who, st)
  \/ \E t \in Task, a \in Agent : DelegateTask(c, t, a)
  \/ \E a \in Agent : RetireAgent(c, a) \/ MessageAgent(c, a)
  \/ \E a \in Agent, on \in BOOLEAN : SwitchAgent(c, a, on)

ReplicaStep(r) ==
  \/ StartTick(r)
  \/ EndTick(r)
  \/ \E a \in Agent : TakeLock(r, a) \/ PassBusy(r, a)
  \/ PassOver(r)
  \/ ClearPointer(r)
  \/ BeginStep(r)
  \/ Answer(r)
  \/ ProviderError(r)
  \/ SaveStep(r)
  \/ FailStep(r)

\* What needs no open request.
Otherwise ==
  \/ \E t \in Task : DeleteTask(t)
  \/ SwitchWorkspace
  \/ \E r \in Replica : ReplicaStep(r) \/ EditRepository(r) \/ Crash(r)
  \/ \E a \in Agent : CoolDown(a)

Next ==
  \/ \E c \in Client : ClientStep(c) \/ Commit(c) \/ Rollback(c)
  \/ Otherwise

Spec == Init /\ [][Next]_vars

\* A live replica keeps ticking and finishes its steps (the loop of
\* execution._loop, bounded provider calls), a request ends, time passes.
Fairness ==
  /\ \A r \in Replica : WF_vars(ReplicaStep(r))
  /\ \A a \in Agent : WF_vars(CoolDown(a))
  /\ \A c \in Client : WF_vars(Commit(c) \/ Rollback(c))

FairSpec == Spec /\ Fairness

-----------------------------------------------------------------------------
TypeOK ==
  /\ db \in Rows
  /\ orgOn \in BOOLEAN
  /\ recent \subseteq Agent
  /\ pending = [c \in Client |-> pending[c]]
  /\ \A c \in Client : pending[c] = None \/ IsDiff(pending[c])
  /\ lock \in [Agent -> Replica \cup {None}]
  /\ phase \in [Replica -> Phases]
  /\ todo \in [Replica -> SUBSET Agent]
  /\ seen \in [Replica -> [Agent -> AgentRow \cup {None}]]
  /\ agent \in [Replica -> Agent \cup {None}]
  /\ job \in [Replica -> TaskRow \cup {None}]
  /\ edits \subseteq Agent \X Task
  /\ requests \in 0 .. MaxRequests
  /\ crashes \in 0 .. MaxCrashes

\* Two replicas never work on the same agent at once, whatever crashes: the
\* promise of agent_step_lock.
OneStepPerAgent ==
  \A r, s \in Replica :
    phase[r] \in Stepping /\ phase[s] \in Stepping /\ agent[r] = agent[s] => r = s

\* A worker holds its agent's lock until it leaves the agent.
WorkersHoldTheLock ==
  \A r \in Replica :
    phase[r] \in {"locked"} \cup Stepping => agent[r] \in Agent /\ lock[agent[r]] = r

\* An agent being stepped has cooled down, and stays so until its commit.
SteppedHasCooledDown ==
  \A r \in Replica : phase[r] \in Stepping => agent[r] \notin recent

\* A worker's session holds its agent's row, and a step's its task's.
WorkersHaveTheirRows ==
  \A r \in Replica :
    /\ phase[r] \in {"locked"} \cup Stepping => seen[r][agent[r]] \in AgentRow
    /\ phase[r] \in Stepping => job[r] \in TaskRow

\* The inductive invariant of the scheduler: the lock outlives the step, so
\* what was read under it (the cooldown) stays true.
IndInv ==
  /\ TypeOK
  /\ WorkersHoldTheLock
  /\ WorkersHaveTheirRows
  /\ OneStepPerAgent
  /\ SteppedHasCooledDown

\* However many replicas tick, an agent's steps are a cooldown apart: no
\* step is saved while the agent's previous one is still recent
\* (STEP_COOLDOWN_SECONDS with the re-read in _stepped_recently).
StepsAreSpaced ==
  [][\A r \in Replica : SaveStep(r) => agent[r] \notin recent]_vars

\* The agent whose pointer names a task is the task's assignee, and a retired
\* agent has no task and its switch off.
Sound(rows) ==
  /\ \A a \in Agent, t \in Task :
       rows.current[a] = t => rows.status[t] \in {"open", "done"} /\ rows.assignee[t] = a
  /\ \A a \in Agent : rows.retired[a] => rows.current[a] = None /\ ~rows.enabled[a]

\* The two halves of an assignment agree in the table (services.py).
PointerFollowsAssignee ==
  \A a \in Agent, t \in Task : db.current[a] = t => Exists(t) /\ db.assignee[t] = a

\* A retired agent has no work and its switch off, for good (hierarchy.py).
RetiredAgentIsInert ==
  \A a \in Agent : db.retired[a] => db.current[a] = None /\ ~db.enabled[a]

\* When requests are served one at a time, an agent's pointer and its task's
\* assignee never contradict each other, and a retired agent never has work again
\* or its switch on (services.py, hierarchy.py): in the table, and in what an open
\* request will leave there, whatever the scheduler has committed in between.
AssignmentsAreSound ==
  /\ Sound(db)
  /\ \A c \in Client : pending[c] # None /\ Accepted(pending[c]) => Sound(Saved(pending[c]))

\* Repository edits happen only while the task is still assigned to the
\* agent that makes them (_run_execution_step).
EditsWhileAssigned ==
  [][\A a \in Agent, t \in Task :
       <<a, t>> \in edits' \ edits => db.assignee[t] = a]_edits

\* An agent that may work and has work is, sooner or later, being worked
\* for, or stops being eligible: no skip, lock or crash starves it forever.
AgentIsServed ==
  \A a \in Agent :
    []<>(a \notin Eligible \/ \E r \in Replica : agent[r] = a /\ phase[r] \in Stepping)
=============================================================================

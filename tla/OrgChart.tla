------------------------------ MODULE OrgChart ------------------------------
(***************************************************************************)
(* The chart of agents: an administrator sets how many there are to be at  *)
(* each level (PATCH /api/hierarchy-config), and reconcile_agents          *)
(* (hierarchy.py) hires and retires until the tree is of that shape.  It   *)
(* runs beside all that AgentTasks has agents do.                          *)
(*                                                                         *)
(* The configuration is committed first; the agents follow in a second     *)
(* transaction, which may be lost and locks nothing: two administrators    *)
(* can reconcile from the same rows.                                       *)
(*                                                                         *)
(* Agents are numbered in the order they are created in (created_at).      *)
(* Those that do not exist yet have the rows of retired ones, and no level.*)
(***************************************************************************)
EXTENDS AgentTasks

CONSTANTS
  Levels,     \* ceo, vp, director, senior_manager, worker: five in the code
  MaxAgents,  \* bound of the model: agents ever created
  Shapes      \* the configurations administrators ask for

ASSUME AgentsAreNumbered == MaxAgents \in Nat /\ Agent = 1 .. MaxAgents

ASSUME ShapeAssumption == Levels \in Nat /\ Levels >= 2 /\ Shapes \subseteq [2 .. Levels -> Nat]

VARIABLES
  shape,    \* hierarchy_configs: agents per parent at each level below the ceo
  boss,     \* per agent: parent_agent_id, or Nobody
  level,    \* per agent: hierarchy_level, 0 until it is created
  hired,    \* agents created so far, the ones of open transactions included
  stage,    \* per request: its part in a change of the chart
  intact,   \* requests whose view of the chart is still true (history)
  settled,  \* nothing has changed since a reconciliation from a true view (history)
  alone,    \* agents retired on their own, without those below them (history)
  raced     \* a request has committed while another was open (history)

chart == <<shape, boss, level, hired, stage>>
told == <<intact, settled, alone, raced>>
chartVars == <<vars, chart, told>>

Nobody == 0

Live(a) == ~db.retired[a]

\* How many agents each agent of the level above is to have at level k: the
\* ceo is there if anybody is.
PerParent(k) == IF k > 1 THEN shape[k] ELSE IF shape[2] > 0 THEN 1 ELSE 0

\* The live agents at level k under p, and the n longest serving of some.
Reports(p, k) == {a \in Agent : Live(a) /\ level[a] = k /\ boss[a] = p}
Eldest(S, n) == {a \in S : Cardinality({b \in S : b < a}) < n}

-----------------------------------------------------------------------------
(* reconcile_agents.                                                       *)

\* The seats under p at level k that nobody sits on.
Vacant(p, k) == (Cardinality(Reports(p, k)) + 1) .. PerParent(k)

\* Level k below those who have the seats of the level above (up): who stays, the
\* seats to fill, the agents created for them, and the seat each of them gets.
Kept(k, up) == UNION {Eldest(Reports(p, k), PerParent(k)) : p \in up.seated}
Vacancies(k, up) == UNION {{p} \X Vacant(p, k) : p \in up.seated}
Hired(k, up) == (up.hired + 1) .. (up.hired + Cardinality(Vacancies(k, up)))
Seat(k, up) == CHOOSE f \in [Hired(k, up) -> Vacancies(k, up)] :
                 \A a, b \in Hired(k, up) : f[a] = f[b] => a = b

\* _sync_level: who has the seats of level k, who has a seat at all, and the tree
\* with those hired for the vacant ones.
SyncLevel(k, up) ==
  LET new == Hired(k, up)
      seat == Seat(k, up)
  IN  [seated |-> Kept(k, up) \cup new,
       all    |-> up.all \cup Kept(k, up) \cup new,
       boss   |-> [a \in Agent |-> IF a \in new THEN seat[a][1] ELSE up.boss[a]],
       level  |-> [a \in Agent |-> IF a \in new THEN k ELSE up.level[a]],
       hired  |-> up.hired + Cardinality(Vacancies(k, up))]

\* The chart before anybody has a seat: Nobody is above the ceo.
Unseated ==
  [seated |-> {Nobody}, all |-> {}, boss |-> boss, level |-> level, hired |-> hired]

\* The levels, from the ceo down.
Filled[k \in 0 .. Levels] == IF k = 0 THEN Unseated ELSE SyncLevel(k, Filled[k - 1])

\* The live agents that the tree reaches from above through live ones.
Reached[a \in Agent] ==
  Live(a) /\ level[a] > 0 /\ (boss[a] = Nobody \/ Reached[boss[a]])

\* A plausible bug: those below a role that goes stay.
Removed_Alone(seats) ==
  {a \in Agent : Reached[a] /\ a \notin seats /\ boss[a] \in seats \cup {Nobody}}

\* _retire_with_descendants: whoever has lost the seat, or whose superior has.
Removed(seats) == {a \in Agent : Reached[a]} \ seats

\* The rows as the session leaves them.
Reconciled ==
  LET after == Filled[Levels]
      rows == Retired(Removed(after.all))
      new == (hired + 1) .. after.hired
  IN  [rows EXCEPT !.retired = [a \in Agent |-> a \notin new /\ @[a]],
                   !.enabled = [a \in Agent |-> a \in new \/ @[a]]]

-----------------------------------------------------------------------------
(* PATCH /api/hierarchy-config.                                            *)

\* The new counts are committed.
Configure(c, q) ==
  /\ stage[c] = "none" /\ pending[c] = None
  /\ requests < MaxRequests
  /\ requests' = requests + 1
  /\ shape' = q
  /\ stage' = [stage EXCEPT ![c] = "configured"]
  /\ intact' = {}
  /\ settled' = FALSE
  /\ UNCHANGED <<db, orgOn, recent, pending, sched, edits, crashes,
                 boss, level, hired, alone, raced>>

\* The agents are read, and hired and retired in the session.
Reconcile(c) ==
  LET after == Filled[Levels] IN
  /\ stage[c] = "configured"
  /\ after.hired <= MaxAgents
  /\ pending' = [pending EXCEPT ![c] = Changes(Reconciled)]
  /\ boss' = after.boss /\ level' = after.level /\ hired' = after.hired
  /\ stage' = [stage EXCEPT ![c] = "reconciling"]
  /\ intact' = intact \cup {c}
  /\ UNCHANGED <<db, orgOn, recent, sched, edits, requests, crashes,
                 shape, settled, alone, raced>>

\* The request ends between its two transactions: the counts stay, without agents.
Interrupt(c) ==
  /\ stage[c] = "configured"
  /\ stage' = [stage EXCEPT ![c] = "none"]
  /\ UNCHANGED <<vars, shape, boss, level, hired, told>>

-----------------------------------------------------------------------------
(* What AgentTasks does, and what it means for the chart.                  *)

Ended(c) == stage' = [stage EXCEPT ![c] = "none"]

CommitRows(c) ==
  LET changed == DOMAIN pending[c].retired
      reconciled == stage[c] = "reconciling"
  IN  /\ Commit(c)
      /\ Ended(c)
      /\ intact' = IF changed = {} THEN intact \ {c} ELSE {}
      /\ settled' = IF reconciled THEN c \in intact ELSE settled /\ changed = {}
      /\ alone' = IF reconciled THEN alone ELSE alone \cup changed
      /\ raced' = (raced \/ \E d \in Client \ {c} : pending[d] # None)
      /\ UNCHANGED <<shape, boss, level, hired>>

\* The agents a lost transaction would have created never come to be.
RollbackRows(c) ==
  /\ Rollback(c)
  /\ Ended(c)
  /\ intact' = intact \ {c}
  /\ UNCHANGED <<shape, boss, level, hired, settled, alone, raced>>

\* A workspace without agents (ensure_hierarchy_config), or one whose chart has
\* been filled, its ceo and one below, who have no tasks yet.
ChartInit ==
  /\ Quiet
  /\ hired \in {0, 2} /\ hired <= MaxAgents
  /\ db \in StaffedBy(1 .. hired)
  /\ \A t \in Task : db.assignee[t] = None
  /\ shape = [k \in 2 .. Levels |-> IF k = 2 /\ hired = 2 THEN 1 ELSE 0]
  /\ boss = [a \in Agent |-> IF a = 2 /\ hired = 2 THEN 1 ELSE Nobody]
  /\ level = [a \in Agent |-> IF a <= hired THEN a ELSE 0]
  /\ stage = [c \in Client |-> "none"]
  /\ intact = {} /\ alone = {}
  /\ settled = TRUE /\ raced = FALSE

ChartNext ==
  \/ \E c \in Client : (\E q \in Shapes : Configure(c, q)) \/ Reconcile(c) \/ Interrupt(c)
  \/ \E c \in Client : CommitRows(c) \/ RollbackRows(c)
  \/ /\ \/ \E c \in Client : stage[c] = "none" /\ ClientStep(c)
        \/ Otherwise
     /\ UNCHANGED <<chart, told>>

ChartSpec == ChartInit /\ [][ChartNext]_chartVars

-----------------------------------------------------------------------------
ChartTypeOK ==
  /\ shape \in [2 .. Levels -> Nat]
  /\ boss \in [Agent -> Agent \cup {Nobody}]
  /\ level \in [Agent -> 0 .. Levels]
  /\ hired \in 0 .. MaxAgents
  /\ stage \in [Client -> {"none", "configured", "reconciling"}]
  /\ intact \subseteq Client /\ alone \subseteq Agent
  /\ settled \in BOOLEAN /\ raced \in BOOLEAN

\* Each agent the tree reaches has the configured number of reports.
AsConfigured ==
  /\ Cardinality(Reports(Nobody, 1)) = PerParent(1)
  /\ \A a \in Agent : Reached[a] /\ level[a] < Levels =>
       Cardinality(Reports(a, level[a] + 1)) = PerParent(level[a] + 1)

\* A reconciliation from a true view leaves the tree as it is configured,
\* whatever was there before: agents created twice by requests that raced, or
\* gaps left by agents retired alone (reconcile_agents).
ChartFollowsShape == settled => AsConfigured

\* A live agent under a retired one: its superior was retired alone, or requests
\* raced.  A smaller chart takes the whole branch (_retire_with_descendants).
StraysHaveACause ==
  \A a \in Agent :
    Live(a) /\ boss[a] # Nobody /\ db.retired[boss[a]] => boss[a] \in alone \/ raced

\* The chart is what it was configured to be, and nobody is left behind.
ChartIsSound == ChartTypeOK /\ ChartFollowsShape /\ StraysHaveACause

\* Retiring branches leaves no pointer or assignment behind, and no retired agent
\* at work, as long as requests do not race.
BranchesGoWhole == raced \/ AssignmentsAreSound

-----------------------------------------------------------------------------
(* What the proofs need: the chart as it is, and as each open request will *)
(* leave it, where the agents of gone are the retired ones.                *)

\* The retired agents once the request has committed.
After(c) == Written(db.retired, pending[c].retired)

\* The agents of T are there, and each has its superior among them.
Stands(T, gone) ==
  \A a \in T : ~gone[a] /\ level[a] > 0 /\ (boss[a] = Nobody \/ boss[a] \in T)

Staff(p, k, gone) == {a \in Agent : ~gone[a] /\ level[a] = k /\ boss[a] = p}

\* AsConfigured, whatever part of the tree one looks at.
Shaped(gone) ==
  /\ Cardinality(Staff(Nobody, 1, gone)) = PerParent(1)
  /\ \A T \in SUBSET Agent : Stands(T, gone) =>
       \A a \in T : level[a] < Levels =>
         Cardinality(Staff(a, level[a] + 1, gone)) = PerParent(level[a] + 1)

\* Only agents with one of certain superiors have lost theirs.
Strays(gone, excused) ==
  \A a \in Agent : ~gone[a] /\ boss[a] # Nobody /\ gone[boss[a]] => boss[a] \in excused

\* Superiors came first; those hired have a level, and nobody else is there.
Seniority ==
  \A a \in Agent : /\ boss[a] < a
                   /\ a <= hired <=> level[a] > 0
                   /\ ~db.retired[a] => a <= hired

\* Those a request retires on their own.
Leaving(c) == IF stage[c] = "reconciling" THEN {} ELSE DOMAIN pending[c].retired

\* The view of an open request: it hires nobody that is not numbered, leaves the
\* configured tree if it reconciles a chart that is still as it was read, and nobody
\* behind unless it retires somebody alone.
ViewIsTrue(c) ==
  /\ \A a \in Agent : ~After(c)[a] => a <= hired
  /\ stage[c] = "reconciling" /\ c \in intact => Shaped(After(c))
  /\ raced \/ Strays(After(c), alone \cup Leaving(c))

\* The inductive invariant of the chart.
ChartInv ==
  /\ ChartTypeOK
  /\ Seniority
  /\ settled => Shaped(db.retired)
  /\ raced \/ Strays(db.retired, alone)
  /\ \A c \in Client : pending[c] # None => ViewIsTrue(c)
=============================================================================

----------------------------- MODULE Governance -----------------------------
(***************************************************************************)
(* Who administers a workspace, and who leaves it: role changes and        *)
(* removals by administrators (admin.py), provisioning by an identity      *)
(* provider (sso_auth.py), and the deletion of accounts and workspaces     *)
(* after a grace period, carried out by a cleanup loop that every API      *)
(* replica runs (privacy.py, privacy_service.py).                          *)
(*                                                                         *)
(* A handler reads, decides and prepares its changes in one step and       *)
(* commits them in another; a commit writes the columns it changed.  Only  *)
(* the administrators' own handlers serialise on the organization's row.   *)
(***************************************************************************)
EXTENDS Naturals, FiniteSets

CONSTANTS
  Person,      \* the human users of the workspace
  Managed,     \* those with a SCIM mapping
  Workspace,   \* the workspace itself, as the target of a deletion
  Request,     \* deletion request ids
  Handler,     \* API requests served at the same time
  Replica,     \* cleanup loops
  None,        \* no operation, no lock holder
  MaxRequests, \* bound of the model: governance and privacy requests served
  MaxCrashes   \* bound of the model: cleanup ticks that die

ASSUME NoneAssumption == None \notin Handler \cup Replica

ASSUME WorkspaceAssumption == Workspace \notin Person

ASSUME ManagedAssumption == Managed \subseteq Person

ASSUME BoundAssumption == MaxRequests \in Nat /\ MaxCrashes \in Nat

VARIABLES
  users,     \* per person: role, active, anonymized (anonymized_at is set)
             \* and scrubbed (no personal data in the row)
  present,   \* the organization's rows exist
  linked,    \* which rows of other tables refer to it: none, the counts of its
             \* audit trail and policy rows, or also an identity provider
  files,     \* its stored documents and attachments exist
  deletions, \* per request id: status, target, and whether grace is over
  op,        \* per handler: what it is about to commit, or None
  orgLock,   \* the handler holding the organization's row, or None
  cleanLock, \* the replica holding the cleanup advisory lock, or None
  batch,     \* per replica: the due requests its tick has still to run
  running,   \* per replica: the deletion it is about to commit, or None
  bypassed,  \* an account was deleted or provisioned meanwhile (history)
  served,    \* requests served so far
  crashes    \* ticks that died so far

tenant == <<users, present, linked, files>>
cleaner == <<cleanLock, batch, running>>
vars == <<tenant, deletions, op, orgLock, cleaner, bypassed, served, crashes>>

User == [role : {"admin", "member"}, active : BOOLEAN,
         anonymized : BOOLEAN, scrubbed : BOOLEAN]
Target == Person \cup {Workspace}
Deletion == [status : {"free", "pending", "canceled", "completed"},
             target : Target, due : BOOLEAN]

\* An UPDATE of what a session loaded (before) and changed (after).
UserChange == [who : Person, before : User, after : User]
Op == UserChange \cup [target : Target] \cup [cancel : Request]
Run == [request : Request, before : User, after : User]

Links == {"none", "rows", "provider"}

ASSUME NoOpAssumption == None \notin Op \cup Run

TypeOK ==
  /\ users \in [Person -> User]
  /\ present \in BOOLEAN /\ linked \in Links /\ files \in BOOLEAN
  /\ deletions \in [Request -> Deletion]
  /\ op \in [Handler -> Op \cup {None}]
  /\ orgLock \in Handler \cup {None}
  /\ cleanLock \in Replica \cup {None}
  /\ batch \in [Replica -> SUBSET Request]
  /\ running \in [Replica -> Run \cup {None}]
  /\ bypassed \in BOOLEAN
  /\ served \in 0 .. MaxRequests
  /\ crashes \in 0 .. MaxCrashes

Administers(rows, p) == rows[p].role = "admin" /\ rows[p].active

IsAdmin(p) == present /\ Administers(users, p)

\* anonymize_user leaves an unusable password and address: only the identity
\* provider can still sign such a person in.
SignsIn(p) == users[p].active /\ (users[p].anonymized => p \in Managed)

Init ==
  /\ users \in [Person -> {u \in User : u.active /\ ~u.anonymized /\ ~u.scrubbed}]
  /\ present = TRUE
  /\ linked \in Links
  /\ files = TRUE
  /\ \E p \in Person : IsAdmin(p)
  /\ deletions = [q \in Request |-> [status |-> "free", target |-> Workspace, due |-> FALSE]]
  /\ op = [h \in Handler |-> None]
  /\ orgLock = None
  /\ cleanLock = None
  /\ batch = [r \in Replica |-> {}]
  /\ running = [r \in Replica |-> None]
  /\ bypassed = FALSE
  /\ served = 0
  /\ crashes = 0

-----------------------------------------------------------------------------
(* Handlers: the reading half.                                             *)

Serve(h, what) ==
  /\ op[h] = None
  /\ present
  /\ served < MaxRequests
  /\ served' = served + 1
  /\ op' = [op EXCEPT ![h] = what]
  /\ UNCHANGED <<tenant, deletions, cleaner, bypassed, crashes>>

\* A plausible bug: the organization's row is read without FOR UPDATE.
OrgLockIsFree_NotLocked == TRUE

OrgLockIsFree == orgLock = None

\* update_role and set_active revalidate the caller under the lock, then
\* apply the last-administrator rule.
Govern(h, actor, target, after) ==
  /\ OrgLockIsFree
  /\ orgLock' = h
  /\ IsAdmin(actor) /\ SignsIn(actor)
  /\ Serve(h, [who |-> target, before |-> users[target], after |-> after])

OtherAdmin(p) == \E x \in Person \ {p} : IsAdmin(x)

UpdateRole(h, actor, target, role) ==
  /\ (role # "admin" /\ users[target].role = "admin") => actor # target /\ OtherAdmin(target)
  /\ Govern(h, actor, target, [users[target] EXCEPT !.role = role])

SetActive(h, actor, target, active) ==
  /\ ~active => actor # target /\ (users[target].role = "admin" => OtherAdmin(target))
  /\ Govern(h, actor, target, [users[target] EXCEPT !.active = active])

PendingFor(target) ==
  \E q \in Request : deletions[q].status = "pending" /\ deletions[q].target = target

\* delete_my_account: the last-administrator rule is applied here, not when
\* the grace period is over.  A pending request is answered as it is.
DeleteMyAccount(h, p) ==
  /\ SignsIn(p)
  /\ users[p].role = "admin" => OtherAdmin(p)
  /\ ~PendingFor(p)
  /\ Serve(h, [target |-> p])
  /\ UNCHANGED orgLock

DeleteOrganization(h, actor) ==
  /\ IsAdmin(actor) /\ SignsIn(actor)
  /\ ~PendingFor(Workspace)
  /\ Serve(h, [target |-> Workspace])
  /\ UNCHANGED orgLock

CancelDeletion(h, q) ==
  /\ deletions[q].status = "pending"
  /\ Serve(h, [cancel |-> q])
  /\ UNCHANGED orgLock

-----------------------------------------------------------------------------
(* Handlers: the commit.                                                   *)

Release(h) ==
  /\ op' = [op EXCEPT ![h] = None]
  /\ orgLock' = IF orgLock = h THEN None ELSE orgLock

Merged(now, before, after) ==
  [f \in DOMAIN now |-> IF after[f] # before[f] THEN after[f] ELSE now[f]]

CommitGovern(h) ==
  /\ op[h] \in UserChange
  /\ present
  /\ users' = [users EXCEPT ![op[h].who] = Merged(@, op[h].before, op[h].after)]
  /\ Release(h)
  /\ UNCHANGED <<present, linked, files, deletions, cleaner, bypassed, served, crashes>>

CommitRequest(h) ==
  /\ op[h] \in [target : Target]
  /\ \E q \in Request :
       /\ deletions[q].status = "free"
       /\ deletions' = [deletions EXCEPT ![q] =
            [status |-> "pending", target |-> op[h].target, due |-> FALSE]]
  /\ Release(h)
  /\ UNCHANGED <<tenant, cleaner, bypassed, served, crashes>>

CommitCancel(h) ==
  /\ op[h] \in [cancel : Request]
  /\ deletions' = [deletions EXCEPT ![op[h].cancel].status = "canceled"]
  /\ Release(h)
  /\ UNCHANGED <<tenant, cleaner, bypassed, served, crashes>>

\* The handler raises, or its process dies.
Abort(h) ==
  /\ op[h] # None
  /\ Release(h)
  /\ UNCHANGED <<tenant, deletions, cleaner, bypassed, served, crashes>>

\* SCIM, for a workspace with an identity provider.  No lock, no
\* last-administrator rule, and anonymized_at is never looked at.
Provision(p, after) ==
  /\ present /\ linked = "provider"
  /\ served < MaxRequests
  /\ served' = served + 1
  /\ users' = [users EXCEPT ![p] = after]
  /\ bypassed' = TRUE
  /\ UNCHANGED <<present, linked, files, deletions, op, orgLock, cleaner, crashes>>

ScimDeactivate(p) == Provision(p, [users[p] EXCEPT !.active = FALSE])

\* The upsert reactivates, and writes the role and the name it was given.
ScimUpsert(p, role, scrubbed) ==
  /\ scrubbed => users[p].scrubbed
  /\ Provision(p, [users[p] EXCEPT !.role = role, !.active = TRUE, !.scrubbed = scrubbed])

-----------------------------------------------------------------------------
(* Rows that refer to the organization and that its deletion leaves alone. *)

DeletesWorkspace(r) ==
  running[r] # None /\ deletions[running[r].request].target = Workspace

\* A new reference waits for a deletion that has the organization's row.
Refer(what) ==
  /\ present
  /\ \A r \in Replica : ~DeletesWorkspace(r)
  /\ linked' = what
  /\ UNCHANGED <<users, present, files, deletions, op, orgLock, cleaner, bypassed, crashes>>

\* create_provider, and patch_session_policy or create_ip.
Save(actor, what) ==
  /\ IsAdmin(actor) /\ SignsIn(actor)
  /\ served < MaxRequests
  /\ served' = served + 1
  /\ linked = "none" \/ what = "provider"
  /\ Refer(what)

\* refresh_audit_aggregations, periodic or asked for: the counts of every
\* workspace, whose audit trail begins with it.
Aggregate ==
  /\ linked = "none"
  /\ Refer("rows")
  /\ UNCHANGED served

-----------------------------------------------------------------------------
(* The cleanup loop: execute_due_deletions under the advisory lock.        *)

GraceElapses(q) ==
  /\ deletions[q].status = "pending" /\ ~deletions[q].due
  /\ deletions' = [deletions EXCEPT ![q].due = TRUE]
  /\ UNCHANGED <<tenant, op, orgLock, cleaner, bypassed, served, crashes>>

Due == {q \in Request : deletions[q].status = "pending" /\ deletions[q].due}

StartTick(r) ==
  /\ cleanLock = None
  /\ Due # {}
  /\ cleanLock' = r
  /\ batch' = [batch EXCEPT ![r] = Due]
  /\ UNCHANGED <<tenant, deletions, op, orgLock, running, bypassed, served, crashes>>

NextUp(r, q) == cleanLock = r /\ running[r] = None /\ q \in batch[r]

Taken(r, q) == batch' = [batch EXCEPT ![r] = @ \ {q}]

\* A plausible bug: the account is deactivated, its personal data kept.
Scrub_KeepsName(u) == [u EXCEPT !.active = FALSE, !.anonymized = TRUE]

Scrub(u) == [u EXCEPT !.active = FALSE, !.anonymized = TRUE, !.scrubbed = TRUE]

\* anonymize_user: nothing to do for a user anonymized before, or whose row
\* went with the workspace.
RunUser(r, q) ==
  LET u == users[deletions[q].target]
  IN  /\ NextUp(r, q)
      /\ deletions[q].target \in Person
      /\ Taken(r, q)
      /\ running' = [running EXCEPT ![r] =
           [request |-> q, before |-> u, after |-> IF u.anonymized \/ ~present THEN u ELSE Scrub(u)]]
      /\ UNCHANGED <<tenant, deletions, op, orgLock, cleanLock, bypassed, served, crashes>>

\* delete_organization_data: rows first, then the files, before the commit.
RowsCanGo == linked = "none" \/ ~present

RunWorkspace(r, q) ==
  /\ NextUp(r, q)
  /\ deletions[q].target = Workspace
  /\ RowsCanGo
  /\ files' = FALSE
  /\ Taken(r, q)
  /\ \E u \in {users[p] : p \in Person} :
       running' = [running EXCEPT ![r] = [request |-> q, before |-> u, after |-> u]]
  /\ UNCHANGED <<users, present, linked, deletions, op, orgLock, cleanLock, bypassed, served, crashes>>

Finish(r) ==
  LET q == running[r].request
      t == deletions[q].target
  IN  /\ running[r] # None
      /\ deletions' = [deletions EXCEPT ![q].status = "completed"]
      /\ users' = IF t = Workspace THEN users
                  ELSE [users EXCEPT ![t] = Merged(@, running[r].before, running[r].after)]
      /\ present' = (present /\ t # Workspace)
      /\ bypassed' = TRUE
      /\ running' = [running EXCEPT ![r] = None]
      /\ UNCHANGED <<linked, files, op, orgLock, cleanLock, batch, served, crashes>>

\* A plausible bug: the lock's connection is pooled, not closed.
CloseTick_KeepsLock(r) ==
  /\ UNCHANGED cleanLock
  /\ batch' = [batch EXCEPT ![r] = {}]
  /\ running' = [running EXCEPT ![r] = None]

CloseTick(r) ==
  /\ cleanLock' = None
  /\ batch' = [batch EXCEPT ![r] = {}]
  /\ running' = [running EXCEPT ![r] = None]

EndTick(r) ==
  /\ cleanLock = r /\ running[r] = None /\ batch[r] = {}
  /\ CloseTick(r)
  /\ UNCHANGED <<tenant, deletions, op, orgLock, bypassed, served, crashes>>

\* A plausible bug: the files are purged before the rows are deleted.
AbortTick_AfterPurge(r, q) ==
  /\ NextUp(r, q)
  /\ deletions[q].target = Workspace
  /\ ~RowsCanGo
  /\ CloseTick(r)
  /\ files' = FALSE
  /\ UNCHANGED <<users, present, linked, deletions, op, orgLock, bypassed, served, crashes>>

\* A foreign key refuses the deletion: the exception ends the whole tick.
AbortTick(r, q) ==
  /\ NextUp(r, q)
  /\ deletions[q].target = Workspace
  /\ ~RowsCanGo
  /\ CloseTick(r)
  /\ UNCHANGED <<tenant, deletions, op, orgLock, bypassed, served, crashes>>

Crash(r) ==
  /\ cleanLock = r
  /\ crashes < MaxCrashes
  /\ crashes' = crashes + 1
  /\ CloseTick(r)
  /\ UNCHANGED <<tenant, deletions, op, orgLock, bypassed, served>>

-----------------------------------------------------------------------------
Serving(h) ==
  \/ \E actor, target \in Person, role \in {"admin", "member"} : UpdateRole(h, actor, target, role)
  \/ \E actor, target \in Person, active \in BOOLEAN : SetActive(h, actor, target, active)
  \/ \E p \in Person : DeleteMyAccount(h, p) \/ DeleteOrganization(h, p)
  \/ \E q \in Request : CancelDeletion(h, q)

Ending(h) == CommitGovern(h) \/ CommitRequest(h) \/ CommitCancel(h) \/ Abort(h)

Cleaning(r) ==
  \/ StartTick(r)
  \/ \E q \in Request : RunUser(r, q) \/ RunWorkspace(r, q) \/ AbortTick(r, q)
  \/ Finish(r)
  \/ EndTick(r)

Next ==
  \/ \E h \in Handler : Serving(h) \/ Ending(h)
  \/ \E p \in Managed : ScimDeactivate(p) \/ \E role \in {"admin", "member"}, scrubbed \in BOOLEAN : ScimUpsert(p, role, scrubbed)
  \/ \E p \in Person, what \in {"rows", "provider"} : Save(p, what)
  \/ Aggregate
  \/ \E q \in Request : GraceElapses(q)
  \/ \E r \in Replica : Cleaning(r) \/ Crash(r)

Spec == Init /\ [][Next]_vars

\* A request ends, time passes, and some replica's loop keeps ticking.
Fairness ==
  /\ \A h \in Handler : WF_vars(Ending(h))
  /\ \A q \in Request : WF_vars(GraceElapses(q))
  /\ WF_vars(\E r \in Replica : Cleaning(r))

FairSpec == Spec /\ Fairness

-----------------------------------------------------------------------------
\* Who is about to change a user as an administrator holds the row lock,
\* and who runs deletions holds the advisory lock.
LockDiscipline ==
  /\ \A h \in Handler : op[h] \in UserChange => orgLock = h
  /\ \A r \in Replica : batch[r] # {} \/ running[r] # None => cleanLock = r

\* However the administrators' requests interleave, they leave the
\* workspace an active administrator, until an account deletion or the
\* identity provider goes past them (update_role and set_active).
AdminRemains == present /\ ~bypassed => \E p \in Person : IsAdmin(p)

\* What the lock's holder read is still so, and its change leaves one too.
ChangeIsCurrent ==
  present /\ ~bypassed =>
    \A h \in Handler :
      op[h] \in UserChange =>
        /\ op[h].before = users[op[h].who]
        /\ \E p \in Person : Administers([users EXCEPT ![op[h].who] = op[h].after], p)

\* The inductive invariant of the two locks and of what they protect.
AdminInv ==
  /\ TypeOK
  /\ LockDiscipline
  /\ ChangeIsCurrent
  /\ AdminRemains

\* Whose data the identity provider can write again.
Restorable(p) == linked = "provider" /\ p \in Managed

\* A row without personal data is marked, and a marked row has personal data
\* only if the identity provider wrote it.
MarksAreTrue ==
  \A p \in Person :
    /\ users[p].scrubbed => users[p].anonymized
    /\ users[p].anonymized => users[p].scrubbed \/ Restorable(p)

\* An administrator's change leaves erasure alone.
ChangesKeepErasure ==
  \A h \in Handler :
    op[h] \in UserChange =>
      /\ op[h].after.anonymized = op[h].before.anonymized
      /\ op[h].after.scrubbed = op[h].before.scrubbed

\* What a tick has read or is running was asked for: no new request takes
\* its id.
BatchIsRecorded ==
  \A r \in Replica, q \in Request :
    q \in batch[r] \/ (running[r] # None /\ running[r].request = q) => deletions[q].status # "free"

\* A tick about to commit the deletion of an account erases it, or read that
\* it was erased before, and it still is, or that its workspace is gone.
ErasureIsPrepared ==
  \A r \in Replica :
    LET run == running[r]
        t == deletions[run.request].target
    IN  run # None /\ t \in Person =>
          \/ run.after = run.before /\ (present => run.before.anonymized /\ users[t].anonymized)
          \/ ~run.before.anonymized /\ ~run.before.scrubbed /\ run.after = Scrub(run.before)

\* "completed" means carried out: the workspace's rows are gone, or at
\* least the person's data is, unless the identity provider wrote it anew
\* (execute_due_deletions commits status and deletion together).
CompletedIsCarriedOut ==
  \A q \in Request :
    deletions[q].status = "completed" /\ present =>
      /\ deletions[q].target # Workspace
      /\ users[deletions[q].target].anonymized
      /\ Restorable(deletions[q].target) \/ users[deletions[q].target].scrubbed

\* Files go with their rows: while the rows exist, the files are missing
\* only inside the deletion's transaction, or after one that died
\* (delete_organization_data).
FilesGoWithRows ==
  present /\ ~files =>
    crashes > 0 \/ \E r \in Replica : DeletesWorkspace(r)

\* The inductive invariant of the deletions.
ErasureInv ==
  /\ MarksAreTrue
  /\ ChangesKeepErasure
  /\ BatchIsRecorded
  /\ ErasureIsPrepared
  /\ CompletedIsCarriedOut
  /\ FilesGoWithRows

IndInv == AdminInv /\ ErasureInv

\* Every pending deletion whose grace period has elapsed is run
\* (execute_due_deletions).
DueDeletionsRun ==
  \A q \in Request : q \in Due ~> deletions[q].status # "pending"

\* The same, as long as nothing refers to the workspace that its deletion does
\* not know of.
DueDeletionsRunUnlinked ==
  \A q \in Request : q \in Due ~> deletions[q].status # "pending" \/ linked # "none"
=============================================================================

-------------------------- MODULE GovernanceProofs --------------------------
(***************************************************************************)
(* Proofs about Governance for any number of people, requests in service,  *)
(* replicas and deletion requests.                                         *)
(***************************************************************************)
EXTENDS Governance, TLAPS

-----------------------------------------------------------------------------
(* Types.                                                                  *)

\* A commit merges a session's columns into a row and yields a row.
LEMMA MergedIsAUser ==
  ASSUME NEW now \in User, NEW before \in User, NEW after \in User
  PROVE  Merged(now, before, after) \in User
BY DEF Merged, User

\* A row nobody has changed since it was read becomes what was decided.
LEMMA MergedIntoWhatWasRead ==
  ASSUME NEW before \in User, NEW after \in User
  PROVE  Merged(before, before, after) = after
BY DEF Merged, User

\* Anonymizing a user yields a user.
LEMMA ScrubIsAUser ==
  ASSUME NEW u \in User
  PROVE  Scrub(u) \in User
BY DEF Scrub, User

\* The service starts with well-typed rows.
LEMMA InitTypeOK == Init => TypeOK
<1> SUFFICES ASSUME Init PROVE TypeOK
  OBVIOUS
<1>1. users \in [Person -> User] /\ present \in BOOLEAN /\ linked \in Links /\ files \in BOOLEAN
  BY DEF Init
<1>2. deletions \in [Request -> Deletion]
  BY DEF Init, Deletion, Target
<1>3. op \in [Handler -> Op \cup {None}] /\ orgLock \in Handler \cup {None}
  BY DEF Init
<1>4. /\ cleanLock \in Replica \cup {None}
      /\ batch \in [Replica -> SUBSET Request]
      /\ running \in [Replica -> Run \cup {None}]
  BY DEF Init
<1>5. bypassed \in BOOLEAN
  BY DEF Init
<1>6. served \in 0 .. MaxRequests /\ crashes \in 0 .. MaxCrashes
  BY BoundAssumption DEF Init
<1> QED
  BY <1>1, <1>2, <1>3, <1>4, <1>5, <1>6 DEF TypeOK

\* Serving a request takes note of what it is about to commit.
LEMMA ServeKeepsTypes ==
  ASSUME TypeOK, NEW h \in Handler, NEW what \in Op, Serve(h, what),
         orgLock' \in Handler \cup {None}
  PROVE  TypeOK'
<1>1. op' \in [Handler -> Op \cup {None}]
  BY DEF TypeOK, Serve
<1>2. served' \in 0 .. MaxRequests
  BY BoundAssumption DEF TypeOK, Serve
<1> QED
  BY <1>1, <1>2 DEF TypeOK, Serve, tenant, cleaner

\* An administrator's change of a user is a change of a user.
LEMMA GovernedIsAChange ==
  ASSUME TypeOK, NEW target \in Person, NEW after \in User
  PROVE  [who |-> target, before |-> users[target], after |-> after] \in UserChange
BY DEF TypeOK, UserChange

\* The reading half of every handler keeps the types.
LEMMA ServingKeepsTypes ==
  ASSUME TypeOK, NEW h \in Handler, Serving(h)
  PROVE  TypeOK'
<1>1. ASSUME NEW actor \in Person, NEW target \in Person, NEW after \in User,
             Govern(h, actor, target, after)
      PROVE  TypeOK'
  <2>1. Serve(h, [who |-> target, before |-> users[target], after |-> after]) /\ orgLock' = h
    BY <1>1 DEF Govern
  <2> QED
    BY <2>1, GovernedIsAChange, ServeKeepsTypes DEF Op
<1>2. ASSUME NEW actor \in Person, NEW target \in Person, NEW role \in {"admin", "member"},
             UpdateRole(h, actor, target, role)
      PROVE  TypeOK'
  <2>1. [users[target] EXCEPT !.role = role] \in User
    BY DEF TypeOK, User
  <2> QED
    BY <1>1, <1>2, <2>1 DEF UpdateRole
<1>3. ASSUME NEW actor \in Person, NEW target \in Person, NEW active \in BOOLEAN,
             SetActive(h, actor, target, active)
      PROVE  TypeOK'
  <2>1. [users[target] EXCEPT !.active = active] \in User
    BY DEF TypeOK, User
  <2> QED
    BY <1>1, <1>3, <2>1 DEF SetActive
<1>4. ASSUME NEW p \in Person, DeleteMyAccount(h, p) \/ DeleteOrganization(h, p) PROVE TypeOK'
  <2>1. PICK t \in Target : Serve(h, [target |-> t]) /\ orgLock' = orgLock
    BY <1>4 DEF DeleteMyAccount, DeleteOrganization, Target
  <2>2. [target |-> t] \in Op /\ orgLock \in Handler \cup {None}
    BY DEF Op, TypeOK
  <2> QED
    BY <2>1, <2>2, ServeKeepsTypes
<1>5. ASSUME NEW q \in Request, CancelDeletion(h, q) PROVE TypeOK'
  <2>1. [cancel |-> q] \in Op /\ orgLock \in Handler \cup {None}
    BY DEF Op, TypeOK
  <2> QED
    BY <1>5, <2>1, ServeKeepsTypes DEF CancelDeletion
<1> QED
  BY <1>2, <1>3, <1>4, <1>5 DEF Serving

\* A request that ends gives up what it held.
LEMMA ReleaseKeepsTypes ==
  ASSUME TypeOK, NEW h \in Handler, Release(h)
  PROVE  op' \in [Handler -> Op \cup {None}] /\ orgLock' \in Handler \cup {None}
BY DEF TypeOK, Release

\* The committing half of every handler keeps the types.
LEMMA EndingKeepsTypes ==
  ASSUME TypeOK, NEW h \in Handler, Ending(h)
  PROVE  TypeOK'
<1>0. Release(h)
  BY DEF Ending, CommitGovern, CommitRequest, CommitCancel, Abort
<1>1. op' \in [Handler -> Op \cup {None}] /\ orgLock' \in Handler \cup {None}
  BY <1>0, ReleaseKeepsTypes
<1>2. CASE CommitGovern(h)
  <2>1. op[h].who \in Person /\ op[h].before \in User /\ op[h].after \in User
    BY <1>2 DEF CommitGovern, UserChange
  <2>2. Merged(users[op[h].who], op[h].before, op[h].after) \in User
    BY <2>1, MergedIsAUser DEF TypeOK
  <2>3. users' \in [Person -> User]
    BY <1>2, <2>1, <2>2 DEF CommitGovern, TypeOK
  <2> QED
    BY <1>1, <1>2, <2>3 DEF CommitGovern, TypeOK, cleaner
<1>3. CASE CommitRequest(h)
  <2>1. op[h].target \in Target
    BY <1>3 DEF CommitRequest
  <2>2. [status |-> "pending", target |-> op[h].target, due |-> FALSE] \in Deletion
    BY <2>1 DEF Deletion
  <2>3. deletions' \in [Request -> Deletion]
    BY <1>3, <2>2 DEF CommitRequest, TypeOK
  <2> QED
    BY <1>1, <1>3, <2>3 DEF CommitRequest, TypeOK, tenant, cleaner
<1>4. CASE CommitCancel(h)
  <2>1. deletions' \in [Request -> Deletion]
    BY <1>4 DEF CommitCancel, TypeOK, Deletion
  <2> QED
    BY <1>1, <1>4, <2>1 DEF CommitCancel, TypeOK, tenant, cleaner
<1>5. CASE Abort(h)
  BY <1>1, <1>5 DEF Abort, TypeOK, tenant, cleaner
<1> QED
  BY <1>2, <1>3, <1>4, <1>5 DEF Ending

\* What the identity provider writes is a user.
LEMMA ProvisionKeepsTypes ==
  ASSUME TypeOK, NEW p \in Managed,
         ScimDeactivate(p) \/ \E role \in {"admin", "member"}, scrubbed \in BOOLEAN :
                                ScimUpsert(p, role, scrubbed)
  PROVE  TypeOK'
<1>1. p \in Person /\ users[p] \in User
  BY ManagedAssumption DEF TypeOK
<1>2. PICK after \in User : Provision(p, after)
  BY <1>1 DEF ScimDeactivate, ScimUpsert, User
<1> QED
  BY <1>1, <1>2, BoundAssumption DEF Provision, TypeOK, cleaner

\* A tick that ends gives up its lock and its batch.
LEMMA CloseKeepsTypes ==
  ASSUME TypeOK, NEW r \in Replica, CloseTick(r)
  PROVE  /\ cleanLock' \in Replica \cup {None}
         /\ batch' \in [Replica -> SUBSET Request]
         /\ running' \in [Replica -> Run \cup {None}]
BY DEF TypeOK, CloseTick

\* The cleanup loop keeps the types.
LEMMA CleaningKeepsTypes ==
  ASSUME TypeOK, NEW r \in Replica, Cleaning(r) \/ Crash(r)
  PROVE  TypeOK'
<1>1. CASE StartTick(r)
  <2>1. Due \subseteq Request
    BY DEF Due
  <2> QED
    BY <1>1, <2>1 DEF StartTick, TypeOK, tenant
<1>2. ASSUME NEW q \in Request, RunUser(r, q) PROVE TypeOK'
  <2> DEFINE u == users[deletions[q].target]
  <2>1. u \in User
    BY <1>2 DEF RunUser, TypeOK
  <2>2. (IF u.anonymized \/ ~present THEN u ELSE Scrub(u)) \in User
    BY <2>1, ScrubIsAUser
  <2>3. running' \in [Replica -> Run \cup {None}]
    BY <1>2, <2>1, <2>2 DEF RunUser, TypeOK, Run
  <2>4. batch' \in [Replica -> SUBSET Request]
    BY <1>2 DEF RunUser, Taken, TypeOK
  <2> QED
    BY <1>2, <2>3, <2>4 DEF RunUser, TypeOK, tenant
<1>3. ASSUME NEW q \in Request, RunWorkspace(r, q) PROVE TypeOK'
  <2>1. PICK p \in Person :
          running' = [running EXCEPT ![r] =
                        [request |-> q, before |-> users[p], after |-> users[p]]]
    BY <1>3 DEF RunWorkspace
  <2>2. running' \in [Replica -> Run \cup {None}]
    BY <2>1 DEF TypeOK, Run
  <2>3. batch' \in [Replica -> SUBSET Request]
    BY <1>3 DEF RunWorkspace, Taken, TypeOK
  <2> QED
    BY <1>3, <2>2, <2>3 DEF RunWorkspace, TypeOK
<1>4. ASSUME NEW q \in Request, AbortTick(r, q) PROVE TypeOK'
  BY <1>4, CloseKeepsTypes DEF AbortTick, TypeOK, tenant
<1>5. CASE Finish(r)
  <2> DEFINE run == running[r]
             t == deletions[run.request].target
  <2>1. run \in Run /\ t \in Target
    BY <1>5 DEF Finish, TypeOK, Run, Deletion
  <2>2. ASSUME t # Workspace PROVE Merged(users[t], run.before, run.after) \in User
    BY <2>1, <2>2, MergedIsAUser DEF TypeOK, Run, Target
  <2>3. users' \in [Person -> User]
    BY <1>5, <2>1, <2>2 DEF Finish, TypeOK, Target
  <2>4. deletions' \in [Request -> Deletion] /\ running' \in [Replica -> Run \cup {None}]
    BY <1>5, <2>1 DEF Finish, TypeOK, Deletion
  <2> QED
    BY <1>5, <2>3, <2>4 DEF Finish, TypeOK
<1>6. CASE EndTick(r)
  BY <1>6, CloseKeepsTypes DEF EndTick, TypeOK, tenant
<1>7. CASE Crash(r)
  BY <1>7, CloseKeepsTypes, BoundAssumption DEF Crash, TypeOK, tenant
<1> QED
  BY <1>1, <1>2, <1>3, <1>4, <1>5, <1>6, <1>7 DEF Cleaning

\* What refers to the organization is always one of the kinds of references.
LEMMA ReferKeepsTypes ==
  ASSUME TypeOK,
         Aggregate \/ \E p \in Person, what \in {"rows", "provider"} : Save(p, what)
  PROVE  TypeOK'
<1>1. linked' \in Links
  BY DEF Aggregate, Save, Refer, Links
<1>2. served' \in 0 .. MaxRequests
  BY BoundAssumption DEF Aggregate, Save, TypeOK
<1> QED
  BY <1>1, <1>2 DEF Aggregate, Save, Refer, TypeOK, cleaner

\* Every step keeps the types.
LEMMA NextTypeOK == TypeOK /\ [Next]_vars => TypeOK'
<1> SUFFICES ASSUME TypeOK, [Next]_vars PROVE TypeOK'
  OBVIOUS
<1>1. ASSUME NEW q \in Request, GraceElapses(q) PROVE TypeOK'
  <2>1. deletions' \in [Request -> Deletion]
    BY <1>1 DEF GraceElapses, TypeOK, Deletion
  <2> QED
    BY <1>1, <2>1 DEF GraceElapses, TypeOK, tenant, cleaner
<1>2. CASE UNCHANGED vars
  BY <1>2 DEF vars, tenant, cleaner, TypeOK
<1> QED
  BY <1>1, <1>2, ServingKeepsTypes, EndingKeepsTypes, ProvisionKeepsTypes,
     ReferKeepsTypes, CleaningKeepsTypes DEF Next

-----------------------------------------------------------------------------
(* The two locks, and the administrators the first of them protects.       *)

Parts == LockDiscipline /\ ChangeIsCurrent /\ AdminRemains

\* Nobody is changing anything when the service starts.
LEMMA InitAdminInv == Init => AdminInv
<1> SUFFICES ASSUME Init PROVE AdminInv
  OBVIOUS
<1>1. TypeOK
  BY InitTypeOK
<1>2. \A h \in Handler : op[h] \notin UserChange
  BY NoOpAssumption DEF Init, Op
<1>3. LockDiscipline /\ ChangeIsCurrent
  BY <1>2 DEF Init, LockDiscipline, ChangeIsCurrent
<1>4. AdminRemains
  BY DEF Init, AdminRemains
<1> QED
  BY <1>1, <1>3, <1>4 DEF AdminInv

\* What an administrator may do to a user leaves that administrator one: who
\* takes administration away is somebody else.
LEMMA ActorRemains ==
  ASSUME TypeOK, NEW h \in Handler, NEW actor \in Person, NEW target \in Person,
         NEW after \in User, Govern(h, actor, target, after),
         actor = target => after.role = "admin" /\ after.active
  PROVE  Administers([users EXCEPT ![target] = after], actor)
BY DEF Govern, IsAdmin, Administers, TypeOK

\* A change enters service under the organization's row lock.
LEMMA GovernKeepsParts ==
  ASSUME AdminInv, TypeOK', NEW h \in Handler, NEW actor \in Person,
         NEW target \in Person, NEW after \in User,
         Govern(h, actor, target, after),
         actor = target => after.role = "admin" /\ after.active
  PROVE  Parts'
<1> DEFINE change == [who |-> target, before |-> users[target], after |-> after]
<1> USE DEF AdminInv
<1>1. Serve(h, change) /\ orgLock = None /\ orgLock' = h
  BY DEF Govern, OrgLockIsFree
<1>2. \A g \in Handler : op[g] \notin UserChange
  BY <1>1, NoneAssumption DEF LockDiscipline
<1>3. /\ op'[h] = change
      /\ \A g \in Handler \ {h} : op'[g] = op[g]
      /\ UNCHANGED <<users, present, bypassed, cleanLock, batch, running>>
  BY <1>1 DEF Serve, TypeOK, tenant, cleaner
<1>4. LockDiscipline'
  BY <1>1, <1>2, <1>3 DEF LockDiscipline
<1>5. Administers([users EXCEPT ![target] = after], actor)
  BY ActorRemains
<1>6. ChangeIsCurrent'
  BY <1>2, <1>3, <1>5 DEF ChangeIsCurrent, Administers
<1>7. AdminRemains'
  BY <1>3 DEF AdminRemains, IsAdmin, Administers
<1> QED
  BY <1>4, <1>6, <1>7 DEF Parts

\* The other requests promise no change of a user.
LEMMA OtherRequestKeepsParts ==
  ASSUME AdminInv, TypeOK', NEW h \in Handler, NEW what \in Op \ UserChange,
         Serve(h, what), orgLock' = orgLock
  PROVE  Parts'
<1> USE DEF AdminInv
<1>1. /\ op'[h] = what
      /\ \A g \in Handler \ {h} : op'[g] = op[g]
      /\ op[h] = None
      /\ UNCHANGED <<users, present, bypassed, cleanLock, batch, running>>
  BY DEF Serve, TypeOK, tenant, cleaner
<1>2. LockDiscipline'
  BY <1>1 DEF LockDiscipline
<1>3. ChangeIsCurrent'
  BY <1>1 DEF ChangeIsCurrent, Administers
<1>4. AdminRemains'
  BY <1>1 DEF AdminRemains, IsAdmin, Administers
<1> QED
  BY <1>2, <1>3, <1>4 DEF Parts

\* The reading half of every handler keeps the invariant.
LEMMA ServingKeepsParts ==
  ASSUME AdminInv, TypeOK', NEW h \in Handler, Serving(h)
  PROVE  Parts'
<1> USE DEF AdminInv
<1>1. ASSUME NEW actor \in Person, NEW target \in Person, NEW role \in {"admin", "member"},
             UpdateRole(h, actor, target, role)
      PROVE  Parts'
  <2> DEFINE after == [users[target] EXCEPT !.role = role]
  <2>1. after \in User /\ Govern(h, actor, target, after)
    BY <1>1 DEF UpdateRole, TypeOK, User
  <2>2. ASSUME actor = target PROVE after.role = "admin" /\ after.active
    BY <1>1, <2>1, <2>2 DEF UpdateRole, Govern, IsAdmin, Administers, TypeOK, User
  <2> QED
    BY <2>1, <2>2, GovernKeepsParts
<1>2. ASSUME NEW actor \in Person, NEW target \in Person, NEW active \in BOOLEAN,
             SetActive(h, actor, target, active)
      PROVE  Parts'
  <2> DEFINE after == [users[target] EXCEPT !.active = active]
  <2>1. after \in User /\ Govern(h, actor, target, after)
    BY <1>2 DEF SetActive, TypeOK, User
  <2>2. ASSUME actor = target PROVE after.role = "admin" /\ after.active
    BY <1>2, <2>1, <2>2 DEF SetActive, Govern, IsAdmin, Administers, TypeOK, User
  <2> QED
    BY <2>1, <2>2, GovernKeepsParts
<1>3. ASSUME NEW p \in Person, DeleteMyAccount(h, p) \/ DeleteOrganization(h, p) PROVE Parts'
  <2>1. PICK t \in Target : Serve(h, [target |-> t]) /\ orgLock' = orgLock
    BY <1>3 DEF DeleteMyAccount, DeleteOrganization, Target
  <2>2. [target |-> t] \in Op \ UserChange
    BY DEF Op, UserChange
  <2> QED
    BY <2>1, <2>2, OtherRequestKeepsParts
<1>4. ASSUME NEW q \in Request, CancelDeletion(h, q) PROVE Parts'
  <2>1. [cancel |-> q] \in Op \ UserChange
    BY DEF Op, UserChange
  <2> QED
    BY <1>4, <2>1, OtherRequestKeepsParts DEF CancelDeletion
<1> QED
  BY <1>1, <1>2, <1>3, <1>4 DEF Serving

\* A request ends: what remains in service is what was.
LEMMA ReleaseKeepsTheOthers ==
  ASSUME AdminInv, NEW h \in Handler, Release(h)
  PROVE  /\ op'[h] = None
         /\ \A g \in Handler \ {h} : op'[g] = op[g]
         /\ \A g \in Handler : op'[g] \in UserChange => op'[g] = op[g] /\ orgLock' = g
<1> USE DEF AdminInv
<1>1. op'[h] = None /\ \A g \in Handler \ {h} : op'[g] = op[g]
  BY DEF Release, TypeOK
<1>2. None \notin UserChange
  BY NoOpAssumption DEF Op
<1>3. ASSUME NEW g \in Handler, op'[g] \in UserChange PROVE op'[g] = op[g] /\ orgLock' = g
  BY <1>1, <1>2, <1>3 DEF Release, LockDiscipline
<1> QED
  BY <1>1, <1>3

\* The committing half of every handler keeps the invariant.
LEMMA EndingKeepsParts ==
  ASSUME AdminInv, TypeOK', NEW h \in Handler, Ending(h)
  PROVE  Parts'
<1> USE DEF AdminInv
<1>0. Release(h) /\ UNCHANGED <<present, bypassed, cleanLock, batch, running>>
  BY DEF Ending, CommitGovern, CommitRequest, CommitCancel, Abort, tenant, cleaner
<1>1. LockDiscipline'
  BY <1>0, ReleaseKeepsTheOthers DEF LockDiscipline
<1>2. CASE CommitGovern(h)
  <2>1. /\ op[h] \in UserChange
        /\ users' = [users EXCEPT ![op[h].who] = Merged(@, op[h].before, op[h].after)]
        /\ op[h].who \in Person /\ op[h].before \in User /\ op[h].after \in User
    BY <1>2 DEF CommitGovern, UserChange
  <2>2. \A g \in Handler : op'[g] \notin UserChange
    BY <1>0, <2>1, ReleaseKeepsTheOthers, NoOpAssumption DEF LockDiscipline, Op
  <2>3. ASSUME present, ~bypassed PROVE \E p \in Person : Administers(users', p)
    <3>1. op[h].before = users[op[h].who]
      BY <2>1, <2>3 DEF ChangeIsCurrent
    <3>2. users' = [users EXCEPT ![op[h].who] = op[h].after]
      BY <2>1, <3>1, MergedIntoWhatWasRead
    <3> QED
      BY <2>1, <2>3, <3>2 DEF ChangeIsCurrent
  <2>4. ChangeIsCurrent'
    BY <2>2 DEF ChangeIsCurrent
  <2>5. AdminRemains'
    BY <1>0, <2>3 DEF AdminRemains, IsAdmin, Administers
  <2> QED
    BY <1>1, <2>4, <2>5 DEF Parts
<1>3. ASSUME UNCHANGED users PROVE Parts'
  <2>1. ChangeIsCurrent'
    BY <1>0, <1>3, ReleaseKeepsTheOthers DEF ChangeIsCurrent, Administers
  <2>2. AdminRemains'
    BY <1>0, <1>3 DEF AdminRemains, IsAdmin, Administers
  <2> QED
    BY <1>1, <2>1, <2>2 DEF Parts
<1> QED
  BY <1>2, <1>3 DEF Ending, CommitRequest, CommitCancel, Abort, tenant

\* The cleanup loop holds its lock; a deletion it carries out is the step
\* after which nothing is promised of the administrators.
LEMMA CleaningKeepsParts ==
  ASSUME AdminInv, TypeOK', NEW r \in Replica, Cleaning(r) \/ Crash(r)
  PROVE  Parts'
<1> USE DEF AdminInv
<1>0. UNCHANGED <<op, orgLock>>
  BY DEF Cleaning, StartTick, RunUser, RunWorkspace, AbortTick, Finish, EndTick, Crash
<1>1. ASSUME NEW s \in Replica, cleanLock = s, s # r PROVE FALSE
  <2>1. cleanLock = None \/ cleanLock = r
    BY DEF Cleaning, StartTick, RunUser, RunWorkspace, AbortTick, NextUp, Finish, EndTick,
           Crash, LockDiscipline
  <2> QED
    BY <1>1, <2>1, NoneAssumption
<1>2. \A s \in Replica : s # r => batch[s] = {} /\ running[s] = None
  BY <1>1 DEF LockDiscipline
<1>3. /\ \A s \in Replica : s # r => batch'[s] = batch[s] /\ running'[s] = running[s]
      /\ batch'[r] # {} \/ running'[r] # None => cleanLock' = r
  <2>1. CASE StartTick(r)
    BY <2>1 DEF StartTick, TypeOK
  <2>2. ASSUME NEW q \in Request, RunUser(r, q) \/ RunWorkspace(r, q)
        PROVE  /\ \A s \in Replica : s # r => batch'[s] = batch[s] /\ running'[s] = running[s]
               /\ cleanLock' = r
    BY <2>2 DEF RunUser, RunWorkspace, NextUp, Taken, TypeOK
  <2>3. CASE CloseTick(r)
    BY <2>3 DEF CloseTick, TypeOK
  <2>4. CASE Finish(r)
    BY <2>4 DEF Finish, TypeOK, LockDiscipline
  <2> QED
    BY <2>1, <2>2, <2>3, <2>4 DEF Cleaning, AbortTick, EndTick, Crash
<1>4. LockDiscipline'
  BY <1>0, <1>2, <1>3 DEF LockDiscipline
<1>5. CASE Finish(r)
  <2>1. bypassed' = TRUE
    BY <1>5 DEF Finish
  <2> QED
    BY <1>4, <2>1 DEF Parts, ChangeIsCurrent, AdminRemains
<1>6. ASSUME UNCHANGED <<users, present, bypassed>> PROVE Parts'
  <2>1. ChangeIsCurrent'
    BY <1>0, <1>6 DEF ChangeIsCurrent, Administers
  <2>2. AdminRemains'
    BY <1>6 DEF AdminRemains, IsAdmin, Administers
  <2> QED
    BY <1>4, <2>1, <2>2 DEF Parts
<1> QED
  BY <1>5, <1>6 DEF Cleaning, StartTick, RunUser, RunWorkspace, AbortTick, EndTick, Crash, tenant

\* Every step preserves the invariant.
LEMMA NextAdminInv == AdminInv /\ [Next]_vars => AdminInv'
<1> SUFFICES ASSUME AdminInv, [Next]_vars, TypeOK' PROVE Parts'
  BY NextTypeOK DEF AdminInv, Parts
<1>1. ASSUME NEW p \in Person, NEW after \in User, Provision(p, after) PROVE Parts'
  BY <1>1 DEF Provision, cleaner, AdminInv, Parts, LockDiscipline, ChangeIsCurrent, AdminRemains
<1>2. ASSUME NEW p \in Managed,
             ScimDeactivate(p) \/ \E role \in {"admin", "member"}, scrubbed \in BOOLEAN :
                                    ScimUpsert(p, role, scrubbed)
      PROVE  Parts'
  <2>1. p \in Person /\ users[p] \in User
    BY ManagedAssumption DEF AdminInv, TypeOK
  <2>2. PICK after \in User : Provision(p, after)
    BY <1>2, <2>1 DEF ScimDeactivate, ScimUpsert, User
  <2> QED
    BY <1>1, <2>1, <2>2
<1>3. ASSUME UNCHANGED <<users, present, op, orgLock, cleanLock, batch, running, bypassed>> PROVE Parts'
  BY <1>3 DEF AdminInv, Parts, LockDiscipline, ChangeIsCurrent, AdminRemains, IsAdmin, Administers
<1>4. ASSUME NEW q \in Request, GraceElapses(q) PROVE Parts'
  BY <1>3, <1>4 DEF GraceElapses, tenant, cleaner
<1>5. ASSUME Aggregate \/ \E p \in Person, what \in {"rows", "provider"} : Save(p, what)
      PROVE  Parts'
  BY <1>3, <1>5 DEF Aggregate, Save, Refer, cleaner
<1>6. CASE UNCHANGED vars
  BY <1>3, <1>6 DEF vars, tenant, cleaner
<1> QED
  BY <1>2, <1>4, <1>5, <1>6, ServingKeepsParts, EndingKeepsParts, CleaningKeepsParts DEF Next

-----------------------------------------------------------------------------
(* Deletions: what "completed" says, and when the files may be missing.    *)

\* Nothing was asked for when the service starts.
LEMMA InitErasureInv == Init => ErasureInv
<1> SUFFICES ASSUME Init PROVE ErasureInv
  OBVIOUS
<1>1. \A h \in Handler : op[h] \notin UserChange
  BY NoOpAssumption DEF Init, Op
<1>2. MarksAreTrue /\ ChangesKeepErasure
  BY <1>1 DEF Init, MarksAreTrue, ChangesKeepErasure
<1>3. BatchIsRecorded /\ ErasureIsPrepared
  BY DEF Init, BatchIsRecorded, ErasureIsPrepared
<1>4. CompletedIsCarriedOut /\ FilesGoWithRows
  BY DEF Init, CompletedIsCarriedOut, FilesGoWithRows
<1> QED
  BY <1>2, <1>3, <1>4 DEF ErasureInv

\* A step that only takes on or gives up requests keeps the invariant, if what
\* it takes on leaves erasure alone.
LEMMA RequestsKeepErasureInv ==
  ASSUME ErasureInv,
         UNCHANGED <<users, present, linked, files, deletions, batch, running, crashes>>,
         \A h \in Handler :
           op'[h] \in UserChange =>
             \/ op'[h] = op[h]
             \/ /\ op'[h].after.anonymized = op'[h].before.anonymized
                /\ op'[h].after.scrubbed = op'[h].before.scrubbed
  PROVE  ErasureInv'
<1>1. ChangesKeepErasure'
  BY DEF ErasureInv, ChangesKeepErasure
<1>2. MarksAreTrue' /\ BatchIsRecorded' /\ ErasureIsPrepared'
  BY DEF ErasureInv, MarksAreTrue, BatchIsRecorded, ErasureIsPrepared, Restorable
<1>3. CompletedIsCarriedOut' /\ FilesGoWithRows'
  BY DEF ErasureInv, CompletedIsCarriedOut, FilesGoWithRows, DeletesWorkspace, Restorable
<1> QED
  BY <1>1, <1>2, <1>3 DEF ErasureInv

\* The reading half of every handler keeps the invariant.
LEMMA ServingKeepsErasureInv ==
  ASSUME TypeOK, ErasureInv, NEW h \in Handler, Serving(h)
  PROVE  ErasureInv'
<1>1. ASSUME NEW what,
             Serve(h, what),
             what \in UserChange => /\ what.after.anonymized = what.before.anonymized
                                    /\ what.after.scrubbed = what.before.scrubbed
      PROVE  ErasureInv'
  <2>1. op'[h] = what /\ \A g \in Handler \ {h} : op'[g] = op[g]
    BY <1>1 DEF Serve, TypeOK
  <2>2. UNCHANGED <<users, present, linked, files, deletions, batch, running, crashes>>
    BY <1>1 DEF Serve, tenant, cleaner
  <2> QED
    BY <1>1, <2>1, <2>2, RequestsKeepErasureInv
<1>2. ASSUME NEW actor \in Person, NEW target \in Person, NEW role \in {"admin", "member"},
             UpdateRole(h, actor, target, role)
      PROVE  ErasureInv'
  <2> DEFINE after == [users[target] EXCEPT !.role = role]
  <2>1. after.anonymized = users[target].anonymized /\ after.scrubbed = users[target].scrubbed
    BY DEF TypeOK, User
  <2>2. Serve(h, [who |-> target, before |-> users[target], after |-> after])
    BY <1>2 DEF UpdateRole, Govern
  <2> QED
    BY <1>1, <2>1, <2>2
<1>3. ASSUME NEW actor \in Person, NEW target \in Person, NEW active \in BOOLEAN,
             SetActive(h, actor, target, active)
      PROVE  ErasureInv'
  <2> DEFINE after == [users[target] EXCEPT !.active = active]
  <2>1. after.anonymized = users[target].anonymized /\ after.scrubbed = users[target].scrubbed
    BY DEF TypeOK, User
  <2>2. Serve(h, [who |-> target, before |-> users[target], after |-> after])
    BY <1>3 DEF SetActive, Govern
  <2> QED
    BY <1>1, <2>1, <2>2
<1>4. ASSUME NEW p \in Person, DeleteMyAccount(h, p) \/ DeleteOrganization(h, p) PROVE ErasureInv'
  <2>1. PICK t \in Target : Serve(h, [target |-> t])
    BY <1>4 DEF DeleteMyAccount, DeleteOrganization, Target
  <2>2. [target |-> t] \notin UserChange
    BY DEF UserChange
  <2> QED
    BY <1>1, <2>1, <2>2
<1>5. ASSUME NEW q \in Request, CancelDeletion(h, q) PROVE ErasureInv'
  <2>1. [cancel |-> q] \notin UserChange
    BY DEF UserChange
  <2> QED
    BY <1>1, <1>5, <2>1 DEF CancelDeletion
<1> QED
  BY <1>2, <1>3, <1>4, <1>5 DEF Serving

\* Rows that are as before, but for what erasure does not look at, or are
\* still erased if they were.
SameErasure ==
  \A p \in Person :
    users'[p].anonymized = users[p].anonymized /\ (users'[p].scrubbed => users[p].scrubbed)

\* A step that leaves people's marks alone, and their data unless the
\* identity provider restores it, keeps the invariant.
LEMMA RowsKeepErasureInv ==
  ASSUME ErasureInv, TypeOK, SameErasure,
         \A p \in Person : users'[p].scrubbed = users[p].scrubbed \/ Restorable(p),
         UNCHANGED <<present, linked, files, deletions, batch, running, crashes>>,
         \A h \in Handler : op'[h] \in UserChange => op'[h] = op[h]
  PROVE  ErasureInv'
<1>1. MarksAreTrue'
  BY DEF ErasureInv, MarksAreTrue, Restorable, SameErasure
<1>2. ChangesKeepErasure' /\ BatchIsRecorded'
  BY DEF ErasureInv, ChangesKeepErasure, BatchIsRecorded
<1>3. ErasureIsPrepared'
  BY DEF ErasureInv, ErasureIsPrepared, SameErasure
<1>4. CompletedIsCarriedOut'
  <2> SUFFICES ASSUME NEW q \in Request, deletions[q].status = "completed", present
               PROVE  LET t == deletions[q].target
                      IN  /\ t # Workspace
                          /\ users'[t].anonymized
                          /\ Restorable(t) \/ users'[t].scrubbed
    BY DEF CompletedIsCarriedOut, Restorable
  <2>1. deletions[q].target \in Person
    BY DEF ErasureInv, CompletedIsCarriedOut, TypeOK, Deletion, Target
  <2> QED
    BY <2>1 DEF ErasureInv, CompletedIsCarriedOut, SameErasure
<1>5. FilesGoWithRows'
  BY DEF ErasureInv, FilesGoWithRows, DeletesWorkspace
<1> QED
  BY <1>1, <1>2, <1>3, <1>4, <1>5 DEF ErasureInv

\* The committing half of every handler keeps the invariant.
LEMMA EndingKeepsErasureInv ==
  ASSUME AdminInv, ErasureInv, NEW h \in Handler, Ending(h)
  PROVE  ErasureInv'
<1> USE DEF AdminInv
<1>0. Release(h) /\ UNCHANGED <<present, linked, files, batch, running, crashes>>
  BY DEF Ending, CommitGovern, CommitRequest, CommitCancel, Abort, tenant, cleaner
<1>1. \A g \in Handler : op'[g] \in UserChange => op'[g] = op[g]
  BY <1>0, ReleaseKeepsTheOthers
<1>2. CASE CommitGovern(h)
  <2> DEFINE p == op[h].who
             row == Merged(users[p], op[h].before, op[h].after)
  <2>1. p \in Person /\ op[h].before \in User /\ op[h].after \in User /\ users[p] \in User
    BY <1>2 DEF CommitGovern, UserChange, TypeOK
  <2>2. users' = [users EXCEPT ![p] = row] /\ UNCHANGED deletions
    BY <1>2 DEF CommitGovern
  <2>3. row.anonymized = users[p].anonymized /\ row.scrubbed = users[p].scrubbed
    BY <1>2, <2>1 DEF CommitGovern, ErasureInv, ChangesKeepErasure, Merged, User
  <2>4. \A x \in Person : users'[x].anonymized = users[x].anonymized
                           /\ users'[x].scrubbed = users[x].scrubbed
    BY <2>1, <2>2, <2>3 DEF TypeOK
  <2> QED
    BY <1>0, <1>1, <2>2, <2>4, RowsKeepErasureInv DEF SameErasure
<1>3. ASSUME UNCHANGED users,
             \A q \in Request :
               /\ deletions[q].status # "free" =>
                    deletions'[q].target = deletions[q].target /\ deletions'[q].status # "free"
               /\ deletions'[q].status = "completed" => deletions'[q] = deletions[q]
      PROVE  ErasureInv'
  <2>1. MarksAreTrue' /\ ChangesKeepErasure'
    BY <1>0, <1>1, <1>3 DEF ErasureInv, MarksAreTrue, ChangesKeepErasure, Restorable
  <2>2. BatchIsRecorded'
    BY <1>0, <1>3 DEF ErasureInv, BatchIsRecorded
  <2>3. ASSUME NEW r \in Replica, running[r] # None
        PROVE  /\ running[r].request \in Request
               /\ deletions'[running[r].request].target = deletions[running[r].request].target
    <3>1. running[r].request \in Request
      BY <2>3 DEF TypeOK, Run
    <3> QED
      BY <3>1, <1>3, <2>3 DEF ErasureInv, BatchIsRecorded
  <2>4. ErasureIsPrepared'
    BY <1>0, <1>3, <2>3 DEF ErasureInv, ErasureIsPrepared
  <2>5. CompletedIsCarriedOut'
    BY <1>0, <1>3 DEF ErasureInv, CompletedIsCarriedOut, Restorable
  <2>6. FilesGoWithRows'
    BY <1>0, <2>3 DEF ErasureInv, FilesGoWithRows, DeletesWorkspace
  <2> QED
    BY <2>1, <2>2, <2>4, <2>5, <2>6 DEF ErasureInv
<1>4. CASE CommitRequest(h)
  BY <1>3, <1>4 DEF CommitRequest, tenant, TypeOK
<1>5. CASE CommitCancel(h)
  BY <1>3, <1>5 DEF CommitCancel, tenant, TypeOK, Deletion
<1>6. CASE Abort(h)
  BY <1>3, <1>6 DEF Abort, tenant
<1> QED
  BY <1>2, <1>4, <1>5, <1>6 DEF Ending

\* The identity provider writes personal data only where it may.
LEMMA ProvisionKeepsErasureInv ==
  ASSUME TypeOK, ErasureInv, NEW p \in Managed,
         ScimDeactivate(p) \/ \E role \in {"admin", "member"}, scrubbed \in BOOLEAN :
                                ScimUpsert(p, role, scrubbed)
  PROVE  ErasureInv'
<1>1. p \in Person /\ users[p] \in User
  BY ManagedAssumption DEF TypeOK
<1>2. PICK after \in User :
        /\ Provision(p, after)
        /\ after.anonymized = users[p].anonymized
        /\ after.scrubbed => users[p].scrubbed
  <2>1. CASE ScimDeactivate(p)
    <3> DEFINE after == [users[p] EXCEPT !.active = FALSE]
    <3>1. /\ after \in User /\ after.anonymized = users[p].anonymized
          /\ after.scrubbed = users[p].scrubbed
      BY <1>1 DEF User
    <3> QED
      BY <2>1, <3>1 DEF ScimDeactivate
  <2>2. CASE \E role \in {"admin", "member"}, scrubbed \in BOOLEAN : ScimUpsert(p, role, scrubbed)
    <3>1. PICK role \in {"admin", "member"}, scrubbed \in BOOLEAN :
            /\ scrubbed => users[p].scrubbed
            /\ Provision(p, [users[p] EXCEPT !.role = role, !.active = TRUE, !.scrubbed = scrubbed])
      BY <2>2 DEF ScimUpsert
    <3> DEFINE after == [users[p] EXCEPT !.role = role, !.active = TRUE, !.scrubbed = scrubbed]
    <3>2. /\ after \in User /\ after.anonymized = users[p].anonymized
          /\ after.scrubbed = scrubbed
      BY <1>1 DEF User
    <3> QED
      BY <3>1, <3>2
  <2> QED
    BY <2>1, <2>2
<1>3. users' = [users EXCEPT ![p] = after] /\ Restorable(p)
  BY <1>2 DEF Provision, Restorable
<1>4. SameErasure /\ \A x \in Person : users'[x].scrubbed = users[x].scrubbed \/ Restorable(x)
  BY <1>1, <1>2, <1>3 DEF SameErasure, TypeOK
<1> QED
  BY <1>2, <1>4, RowsKeepErasureInv DEF Provision, cleaner

\* New references do not undo a provider's mapping.
LEMMA ReferKeepsErasureInv ==
  ASSUME ErasureInv,
         Aggregate \/ \E p \in Person, what \in {"rows", "provider"} : Save(p, what)
  PROVE  ErasureInv'
<1>1. /\ UNCHANGED <<users, present, files, deletions, op, batch, running, crashes>>
      /\ linked = "provider" => linked' = "provider"
  BY DEF Aggregate, Save, Refer, cleaner
<1>2. MarksAreTrue' /\ CompletedIsCarriedOut'
  BY <1>1 DEF ErasureInv, MarksAreTrue, CompletedIsCarriedOut, Restorable
<1> QED
  BY <1>1, <1>2 DEF ErasureInv, ChangesKeepErasure, BatchIsRecorded, ErasureIsPrepared,
                    FilesGoWithRows, DeletesWorkspace

\* A tick that ends forgets what it has not run.
LEMMA CloseKeepsErasureInv ==
  ASSUME TypeOK, ErasureInv, NEW r \in Replica, CloseTick(r),
         UNCHANGED <<tenant, deletions, op>>,
         (running[r] = None /\ crashes' = crashes) \/ crashes' > 0
  PROVE  ErasureInv'
<1>1. /\ \A s \in Replica \ {r} : batch'[s] = batch[s] /\ running'[s] = running[s]
      /\ batch'[r] = {} /\ running'[r] = None
      /\ UNCHANGED <<users, present, linked, files, deletions, op>>
  BY DEF CloseTick, TypeOK, tenant
<1>2. BatchIsRecorded' /\ ErasureIsPrepared'
  BY <1>1 DEF ErasureInv, BatchIsRecorded, ErasureIsPrepared
<1>3. FilesGoWithRows'
  BY <1>1 DEF ErasureInv, FilesGoWithRows, DeletesWorkspace
<1> QED
  BY <1>1, <1>2, <1>3 DEF ErasureInv, MarksAreTrue, ChangesKeepErasure, CompletedIsCarriedOut,
                          Restorable

\* A deletion in progress is recorded under its request, and no other tick
\* runs beside it.
LEMMA RunningAlone ==
  ASSUME AdminInv, NEW r \in Replica, running[r] # None
  PROVE  /\ running[r] \in Run
         /\ deletions[running[r].request].target \in Target
         /\ \A s \in Replica : s # r => running[s] = None
BY DEF AdminInv, TypeOK, Run, Deletion, LockDiscipline

\* Committing a deletion carries it out.
LEMMA FinishKeepsErasureInv ==
  ASSUME AdminInv, ErasureInv, NEW r \in Replica, Finish(r)
  PROVE  ErasureInv'
<1> DEFINE run == running[r]
           q == run.request
           t == deletions[q].target
           row == Merged(users[t], run.before, run.after)
<1> USE DEF AdminInv
<1>1. /\ run # None /\ run \in Run /\ q \in Request /\ t \in Target
      /\ \A s \in Replica : s # r => running[s] = None
  BY RunningAlone DEF Finish, Run
<1>2. /\ running' = [running EXCEPT ![r] = None]
      /\ deletions' = [deletions EXCEPT ![q].status = "completed"]
      /\ UNCHANGED <<linked, files, op, batch, crashes>>
      /\ present' = (present /\ t # Workspace)
  BY DEF Finish
<1>3. /\ \A s \in Replica : running'[s] = None
      /\ \A d \in Request : deletions'[d].target = deletions[d].target
      /\ \A d \in Request \ {q} : deletions'[d] = deletions[d]
      /\ deletions'[q].status = "completed"
  BY <1>1, <1>2 DEF TypeOK, Deletion
<1>4. ChangesKeepErasure' /\ BatchIsRecorded' /\ ErasureIsPrepared'
  <2>1. BatchIsRecorded'
    BY <1>2, <1>3 DEF ErasureInv, BatchIsRecorded
  <2> QED
    BY <1>2, <1>3, <2>1 DEF ErasureInv, ChangesKeepErasure, ErasureIsPrepared
<1>5. CASE t = Workspace
  <2>1. UNCHANGED users /\ present' = FALSE
    BY <1>2, <1>5 DEF Finish
  <2>2. MarksAreTrue' /\ CompletedIsCarriedOut' /\ FilesGoWithRows'
    BY <1>2, <2>1 DEF ErasureInv, MarksAreTrue, CompletedIsCarriedOut, FilesGoWithRows, Restorable
  <2> QED
    BY <1>4, <2>2 DEF ErasureInv
<1>6. CASE t # Workspace
  <2>1. t \in Person /\ present' = present /\ users' = [users EXCEPT ![t] = row]
    BY <1>1, <1>2, <1>6 DEF Finish, Target, TypeOK
  <2>2. users[t] \in User /\ run.before \in User /\ run.after \in User
    BY <1>1, <2>1 DEF TypeOK, Run
  <2>3. ASSUME run.after = run.before PROVE row = users[t]
    BY <2>2, <2>3 DEF Merged, User
  <2>4. ASSUME ~run.before.anonymized, ~run.before.scrubbed, run.after = Scrub(run.before)
        PROVE  row.anonymized /\ row.scrubbed
    BY <2>2, <2>4 DEF Merged, User, Scrub
  <2>5. \/ row = users[t] /\ (present => users[t].anonymized)
        \/ row.anonymized /\ row.scrubbed
    BY <1>1, <2>1, <2>3, <2>4 DEF ErasureInv, ErasureIsPrepared
  <2>6. users'[t] = row /\ \A p \in Person \ {t} : users'[p] = users[p]
    BY <2>1 DEF TypeOK
  <2>7. MarksAreTrue'
    BY <1>2, <2>5, <2>6 DEF ErasureInv, MarksAreTrue, Restorable
  <2>8. \A p \in Person : /\ users[p].anonymized => users'[p].anonymized
                          /\ users[p].scrubbed => users'[p].scrubbed
    BY <2>5, <2>6
  <2>9. CompletedIsCarriedOut'
    <3> SUFFICES ASSUME NEW d \in Request, deletions'[d].status = "completed", present
                 PROVE  LET x == deletions[d].target
                        IN  /\ x # Workspace
                            /\ users'[x].anonymized
                            /\ Restorable(x) \/ users'[x].scrubbed
      BY <1>2, <1>3, <2>1 DEF CompletedIsCarriedOut, Restorable
    <3>1. CASE d = q
      BY <1>2, <1>6, <2>1, <2>5, <2>6, <2>7, <3>1 DEF MarksAreTrue, Restorable
    <3>2. CASE d # q
      <4>1. deletions[d].status = "completed"
        BY <1>3, <3>2
      <4>2. deletions[d].target \in Person
        BY <4>1 DEF ErasureInv, CompletedIsCarriedOut, TypeOK, Deletion, Target
      <4> QED
        BY <2>8, <4>1, <4>2 DEF ErasureInv, CompletedIsCarriedOut
    <3> QED
      BY <3>1, <3>2
  <2>10. FilesGoWithRows'
    <3>1. \A s \in Replica : ~DeletesWorkspace(s)
      BY <1>1, <1>6 DEF DeletesWorkspace
    <3> QED
      BY <1>2, <2>1, <3>1 DEF ErasureInv, FilesGoWithRows
  <2> QED
    BY <1>4, <2>7, <2>9, <2>10 DEF ErasureInv
<1> QED
  BY <1>5, <1>6

\* The cleanup loop keeps the invariant.
LEMMA CleaningKeepsErasureInv ==
  ASSUME AdminInv, ErasureInv, NEW r \in Replica, Cleaning(r) \/ Crash(r)
  PROVE  ErasureInv'
<1> USE DEF AdminInv
<1>1. CASE StartTick(r)
  <2>1. /\ batch' = [batch EXCEPT ![r] = Due]
        /\ UNCHANGED <<users, present, linked, files, deletions, op, running, crashes>>
    BY <1>1 DEF StartTick, tenant
  <2>2. BatchIsRecorded'
    BY <2>1 DEF ErasureInv, BatchIsRecorded, TypeOK, Due
  <2> QED
    BY <2>1, <2>2 DEF ErasureInv, MarksAreTrue, ChangesKeepErasure, ErasureIsPrepared,
                      CompletedIsCarriedOut, FilesGoWithRows, DeletesWorkspace, Restorable
<1>2. ASSUME NEW q \in Request, RunUser(r, q) PROVE ErasureInv'
  <2> DEFINE t == deletions[q].target
             u == users[t]
             run == [request |-> q, before |-> u,
                     after |-> IF u.anonymized \/ ~present THEN u ELSE Scrub(u)]
  <2>1. /\ UNCHANGED <<users, present, linked, files, deletions, op, crashes>>
        /\ running' = [running EXCEPT ![r] = run]
        /\ batch' = [batch EXCEPT ![r] = @ \ {q}]
        /\ running[r] = None /\ q \in batch[r] /\ t \in Person
    BY <1>2 DEF RunUser, Taken, NextUp, tenant
  <2>2. /\ running'[r] = run /\ batch'[r] = batch[r] \ {q}
        /\ \A s \in Replica \ {r} : running'[s] = running[s] /\ batch'[s] = batch[s]
    BY <2>1 DEF TypeOK
  <2>3. BatchIsRecorded'
    BY <2>1, <2>2 DEF ErasureInv, BatchIsRecorded
  <2>4. \/ run.after = run.before /\ (present => run.before.anonymized /\ u.anonymized)
        \/ ~run.before.anonymized /\ ~run.before.scrubbed /\ run.after = Scrub(run.before)
    BY <2>1 DEF ErasureInv, MarksAreTrue
  <2>5. ErasureIsPrepared'
    BY <2>1, <2>2, <2>4 DEF ErasureInv, ErasureIsPrepared
  <2>6. FilesGoWithRows'
    BY <2>1, <2>2 DEF ErasureInv, FilesGoWithRows, DeletesWorkspace
  <2> QED
    BY <2>1, <2>3, <2>5, <2>6 DEF ErasureInv, MarksAreTrue, ChangesKeepErasure,
                                  CompletedIsCarriedOut, Restorable
<1>3. ASSUME NEW q \in Request, RunWorkspace(r, q) PROVE ErasureInv'
  <2>1. PICK u \in User :
          running' = [running EXCEPT ![r] = [request |-> q, before |-> u, after |-> u]]
    BY <1>3 DEF RunWorkspace, TypeOK
  <2>2. /\ UNCHANGED <<users, present, linked, deletions, op, crashes>>
        /\ batch' = [batch EXCEPT ![r] = @ \ {q}]
        /\ running[r] = None /\ q \in batch[r] /\ deletions[q].target = Workspace
    BY <1>3 DEF RunWorkspace, Taken, NextUp
  <2>3. /\ running'[r] = [request |-> q, before |-> u, after |-> u]
        /\ batch'[r] = batch[r] \ {q}
        /\ \A s \in Replica \ {r} : running'[s] = running[s] /\ batch'[s] = batch[s]
    BY <2>1, <2>2 DEF TypeOK
  <2>4. running'[r] # None
    <3>1. running'[r] \in Run
      BY <2>3 DEF Run
    <3> QED
      BY <3>1, NoOpAssumption
  <2>5. BatchIsRecorded'
    BY <2>2, <2>3 DEF ErasureInv, BatchIsRecorded
  <2>6. ErasureIsPrepared'
    BY <2>2, <2>3, WorkspaceAssumption DEF ErasureInv, ErasureIsPrepared
  <2>7. FilesGoWithRows'
    BY <2>2, <2>3, <2>4 DEF FilesGoWithRows, DeletesWorkspace
  <2> QED
    BY <2>2, <2>5, <2>6, <2>7 DEF ErasureInv, MarksAreTrue, ChangesKeepErasure,
                                  CompletedIsCarriedOut, Restorable
<1>4. ASSUME NEW q \in Request, AbortTick(r, q) PROVE ErasureInv'
  BY <1>4, CloseKeepsErasureInv DEF AbortTick, NextUp
<1>5. CASE EndTick(r)
  BY <1>5, CloseKeepsErasureInv DEF EndTick
<1>6. CASE Crash(r)
  <2>1. crashes' > 0
    BY <1>6, BoundAssumption DEF Crash, TypeOK
  <2> QED
    BY <1>6, <2>1, CloseKeepsErasureInv DEF Crash
<1> QED
  BY <1>1, <1>2, <1>3, <1>4, <1>5, <1>6, FinishKeepsErasureInv DEF Cleaning

\* Every step preserves what is said of deletions.
LEMMA NextErasureInv == AdminInv /\ ErasureInv /\ [Next]_vars => ErasureInv'
<1> SUFFICES ASSUME AdminInv, ErasureInv, [Next]_vars PROVE ErasureInv'
  OBVIOUS
<1>1. ASSUME NEW q \in Request, GraceElapses(q) PROVE ErasureInv'
  <2>1. /\ UNCHANGED <<users, present, linked, files, op, batch, running, crashes>>
        /\ \A d \in Request : /\ deletions'[d].status = deletions[d].status
                               /\ deletions'[d].target = deletions[d].target
    BY <1>1 DEF GraceElapses, tenant, cleaner, AdminInv, TypeOK, Deletion
  <2>2. \A r \in Replica : running[r] # None => running[r].request \in Request
    BY DEF AdminInv, TypeOK, Run
  <2>3. MarksAreTrue' /\ ChangesKeepErasure' /\ BatchIsRecorded' /\ ErasureIsPrepared'
    BY <2>1, <2>2 DEF ErasureInv, MarksAreTrue, ChangesKeepErasure, BatchIsRecorded,
                      ErasureIsPrepared, Restorable
  <2>4. CompletedIsCarriedOut' /\ FilesGoWithRows'
    BY <2>1, <2>2 DEF ErasureInv, CompletedIsCarriedOut, FilesGoWithRows, DeletesWorkspace,
                      Restorable
  <2> QED
    BY <2>3, <2>4 DEF ErasureInv
<1>2. CASE UNCHANGED vars
  BY <1>2, RequestsKeepErasureInv DEF vars, tenant, cleaner
<1>3. TypeOK
  BY DEF AdminInv
<1> QED
  BY <1>1, <1>2, <1>3, ServingKeepsErasureInv, EndingKeepsErasureInv, ProvisionKeepsErasureInv,
     ReferKeepsErasureInv, CleaningKeepsErasureInv DEF Next

-----------------------------------------------------------------------------
\* Whoever changes a user as an administrator holds the organization's row,
\* what it read is current, and its change leaves an administrator; and a tick
\* of the cleanup loop erases whom it is about to record as erased.
THEOREM Invariance == Spec => []IndInv
<1>1. Init => IndInv
  BY InitAdminInv, InitErasureInv DEF IndInv
<1>2. IndInv /\ [Next]_vars => IndInv'
  BY NextAdminInv, NextErasureInv DEF IndInv
<1> QED
  BY <1>1, <1>2, PTL DEF Spec

\* Every reachable state is well typed.
THEOREM TypeCorrect == Spec => []TypeOK
<1>1. IndInv => TypeOK
  BY DEF IndInv, AdminInv
<1> QED
  BY <1>1, Invariance, PTL

\* However many administrators change roles and remove members at once, the
\* workspace keeps an active administrator (update_role and set_active).
THEOREM LastAdministrator == Spec => []AdminRemains
<1>1. IndInv => AdminRemains
  BY DEF IndInv, AdminInv
<1> QED
  BY <1>1, Invariance, PTL

\* A deletion recorded as completed was carried out, whatever administrators,
\* the identity provider, a cancellation and dying ticks do around it
\* (execute_due_deletions, anonymize_user).
THEOREM CompletedMeansCarriedOut == Spec => []CompletedIsCarriedOut
<1>1. IndInv => CompletedIsCarriedOut
  BY DEF IndInv, ErasureInv
<1> QED
  BY <1>1, Invariance, PTL

\* A workspace that still has its rows has its files, except inside the
\* transaction that deletes both or after a tick died in it
\* (delete_organization_data).
THEOREM FilesStayWithRows == Spec => []FilesGoWithRows
<1>1. IndInv => FilesGoWithRows
  BY DEF IndInv, ErasureInv
<1> QED
  BY <1>1, Invariance, PTL
=============================================================================

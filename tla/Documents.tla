----------------------------- MODULE Documents ------------------------------
(***************************************************************************)
(* Uploaded documents: the file in object storage (storage.py) and its row *)
(* in project_documents.                                                   *)
(*                                                                         *)
(* Files and rows are in different systems, so no transaction covers both: *)
(* an upload saves the file before it commits the row, and a deletion      *)
(* removes the file before it commits the row's deletion.  Uploads,        *)
(* project creations and deletions, the periodic retention run and the     *)
(* ones administrators start all run at once.                              *)
(*                                                                         *)
(* To the bucket all of this is what Bucket says: ObjectMirror builds on   *)
(* that.  Attachments (no retention) and chunks (index_document flushes    *)
(* them after the last commit, so none is ever stored) are left out; the   *)
(* deletion of a whole workspace is in Governance.                         *)
(***************************************************************************)
EXTENDS Naturals

CONSTANTS
  Doc,         \* uploads: each has its key in storage and may have a row
  Project,
  Org,
  Handler,     \* requests served at the same time
  Cleaner,     \* retention runs at the same time, of which
  Ticker,      \* these are the replicas' periodic ones
  OrgOf,       \* the workspace of each document and project
  Loose,       \* the project_id of a document that has no project yet
  None,        \* no row, no project, no holder of the lock
  MaxFailures  \* bound of the model: crashes and failed calls

ASSUME NoneAssumption ==
  None \notin Project \cup Cleaner \cup {Loose} /\ Loose \notin Project

ASSUME TickerAssumption == Ticker \subseteq Cleaner

ASSUME OrgAssumption == OrgOf \in [Doc \cup Project -> Org]

ASSUME BoundAssumption == MaxFailures \in Nat

VARIABLES
  file,     \* per document: its object in the bucket
  row,      \* per document: the project_id of its committed row, or None
  stale,    \* documents older than their workspace's retention
  project,  \* per project: whether its row exists
  job,      \* per handler: what its request has read and done
  lock,     \* the cleaner that holds the cleanup lock, or None
  run,      \* per cleaner: where its retention run is
  failures,
  leaked,   \* files left behind by a failed upload or delete call (history)
  cut       \* rows left behind by an interrupted deletion (history)

db == <<row, stale, project>>
cleaning == <<lock, run>>
history == <<leaked, cut>>
vars == <<file, db, job, cleaning, failures, history>>

Job == [phase : {"idle", "saved", "creating", "deleting"},
        docs : SUBSET Doc, todo : SUBSET Doc, project : Project \cup {Loose, None}]
NoJob == [phase |-> "idle", docs |-> {}, todo |-> {}, project |-> None]

Run == [phase : {"idle", "scanning", "selected", "purging"},
        orgs : SUBSET Org, docs : SUBSET Doc, todo : SUBSET Doc]
NoRun == [phase |-> "idle", orgs |-> {}, docs |-> {}, todo |-> {}]

TypeOK ==
  /\ file \in [Doc -> {"unsaved", "stored", "deleted"}]
  /\ row \in [Doc -> Project \cup {Loose, None}]
  /\ stale \subseteq Doc
  /\ project \in [Project -> {"new", "creating", "live", "deleted"}]
  /\ job \in [Handler -> Job]
  /\ lock \in Cleaner \cup {None}
  /\ run \in [Cleaner -> Run]
  /\ failures \in 0 .. MaxFailures
  /\ leaked \subseteq Doc /\ cut \subseteq Doc

Init ==
  /\ file = [d \in Doc |-> "unsaved"]
  /\ row = [d \in Doc |-> None]
  /\ stale = {}
  /\ project \in [Project -> {"new", "live"}]
  /\ job = [h \in Handler |-> NoJob]
  /\ lock = None
  /\ run = [c \in Cleaner |-> NoRun]
  /\ failures = 0
  /\ leaked = {} /\ cut = {}

Exists(d) == row[d] # None
Stored == {d \in Doc : file[d] = "stored"}
In(p) == {d \in Doc : row[d] = p}

Serve(h, newJob) ==
  /\ job[h] = NoJob
  /\ job' = [job EXCEPT ![h] = newJob]

Fail == failures < MaxFailures /\ failures' = failures + 1

Finish(h) == job' = [job EXCEPT ![h] = NoJob]

\* Rows that an uncommitted DELETE of a retention run, other than c, locks.
Locked(c) == UNION {run[x].docs : x \in {x \in Cleaner \ {c} : run[x].phase = "purging"}}

-----------------------------------------------------------------------------
(* add_project_document and assist_project_draft.                          *)

\* A plausible bug: keys without their UUID, so that a name can come again.
FreshKey_NameOnly(d) == file[d] # "stored"

FreshKey(d) == file[d] = "unsaved"

\* The file is saved before anything is written to the database.
StartUpload(h, d, p) ==
  /\ Serve(h, [phase |-> "saved", docs |-> {d}, todo |-> {}, project |-> p])
  /\ FreshKey(d)
  /\ p # Loose => project[p] = "live" /\ OrgOf[p] = OrgOf[d]
  /\ file' = [file EXCEPT ![d] = "stored"]
  /\ UNCHANGED <<db, cleaning, failures, history>>

\* The foreign key of project_id holds when the row is inserted.
ProjectIsThere(p) == p # Loose => project[p] = "live"

CommitUpload(h) ==
  /\ job[h].phase = "saved"
  /\ ProjectIsThere(job[h].project)
  /\ row' = [d \in Doc |-> IF d \in job[h].docs THEN job[h].project ELSE row[d]]
  /\ Finish(h)
  /\ UNCHANGED <<file, stale, project, cleaning, failures, history>>

UploadRefused(h) ==
  /\ job[h].phase = "saved"
  /\ ~ProjectIsThere(job[h].project)
  /\ leaked' = leaked \cup job[h].docs
  /\ Finish(h)
  /\ UNCHANGED <<file, db, cleaning, failures, cut>>

-----------------------------------------------------------------------------
(* create_project with documents of drafts, and delete_project.            *)

StartProject(h, p, docs) ==
  /\ Serve(h, [phase |-> "creating", docs |-> docs, todo |-> {}, project |-> p])
  /\ project[p] = "new"
  /\ docs \subseteq {d \in In(Loose) : OrgOf[d] = OrgOf[p]}
  /\ project' = [project EXCEPT ![p] = "creating"]
  /\ UNCHANGED <<file, row, stale, cleaning, failures, history>>

CommitProject(h) ==
  /\ job[h].phase = "creating"
  /\ \A d \in job[h].docs : Exists(d) /\ d \notin Locked(None)
  /\ row' = [d \in Doc |-> IF d \in job[h].docs THEN job[h].project ELSE row[d]]
  /\ project' = [project EXCEPT ![job[h].project] = "live"]
  /\ Finish(h)
  /\ UNCHANGED <<file, stale, cleaning, failures, history>>

\* An UPDATE that finds its row gone fails the flush: nothing is created.
ProjectRefused(h) ==
  /\ job[h].phase = "creating"
  /\ \E d \in job[h].docs : ~Exists(d)
  /\ project' = [project EXCEPT ![job[h].project] = "new"]
  /\ Finish(h)
  /\ UNCHANGED <<file, row, stale, cleaning, failures, history>>

\* A plausible bug: only the rows are deleted.
StartDelete_RowsOnly(h, p) ==
  /\ Serve(h, [phase |-> "deleting", docs |-> In(p), todo |-> {}, project |-> p])
  /\ project[p] = "live"
  /\ UNCHANGED <<file, db, cleaning, failures, history>>

StartDelete(h, p) ==
  /\ Serve(h, [phase |-> "deleting", docs |-> In(p), todo |-> In(p), project |-> p])
  /\ project[p] = "live"
  /\ UNCHANGED <<file, db, cleaning, failures, history>>

Discarding(h, d) ==
  /\ job[h].phase = "deleting"
  /\ d \in job[h].todo
  /\ job' = [job EXCEPT ![h].todo = @ \ {d}]

Discard(h, d) ==
  /\ Discarding(h, d)
  /\ file' = [file EXCEPT ![d] = "deleted"]
  /\ UNCHANGED <<db, cleaning, failures, history>>

\* _discard_file swallows what the storage raises.
DiscardFails(h, d) ==
  /\ Discarding(h, d)
  /\ Fail
  /\ leaked' = leaked \cup {d}
  /\ UNCHANGED <<file, db, cleaning, cut>>

\* The rows, then the project, whose foreign key must be free, and a commit.
FinishDelete(h) ==
  /\ job[h].phase = "deleting" /\ job[h].todo = {}
  /\ job[h].docs \cap Locked(None) = {}
  /\ In(job[h].project) \subseteq job[h].docs
  /\ row' = [d \in Doc |-> IF d \in job[h].docs THEN None ELSE row[d]]
  /\ project' = [project EXCEPT ![job[h].project] = "deleted"]
  /\ Finish(h)
  /\ UNCHANGED <<file, stale, cleaning, failures, history>>

\* A document came after the list was read: the project cannot be deleted
\* and everything but the files is rolled back.
DeleteRefused(h) ==
  /\ job[h].phase = "deleting" /\ job[h].todo = {}
  /\ ~(In(job[h].project) \subseteq job[h].docs)
  /\ cut' = cut \cup job[h].docs
  /\ Finish(h)
  /\ UNCHANGED <<file, db, cleaning, failures, leaked>>

\* Any request may raise or die; its transaction is rolled back.
Abandon(h) ==
  /\ job[h] # NoJob
  /\ Fail
  /\ leaked' = IF job[h].phase = "saved" THEN leaked \cup job[h].docs ELSE leaked
  /\ cut' = IF job[h].phase = "deleting" THEN cut \cup (job[h].docs \ job[h].todo) ELSE cut
  /\ project' = IF job[h].phase = "creating"
                THEN [project EXCEPT ![job[h].project] = "new"] ELSE project
  /\ Finish(h)
  /\ UNCHANGED <<file, row, stale, cleaning>>

-----------------------------------------------------------------------------
(* run_retention_cleanup: the tick goes through every workspace under the  *)
(* cleanup lock, an administrator's call through one and asks for no lock. *)

GrowStale(d) ==
  /\ Exists(d) /\ d \notin stale
  /\ stale' = stale \cup {d}
  /\ UNCHANGED <<file, row, project, job, cleaning, failures, history>>

Scan(c, orgs) ==
  /\ run[c] = NoRun
  /\ run' = [run EXCEPT ![c] = [NoRun EXCEPT !.phase = "scanning", !.orgs = orgs]]

StartTick(c) ==
  /\ c \in Ticker
  /\ lock = None
  /\ lock' = c
  /\ Scan(c, Org)
  /\ UNCHANGED <<file, db, job, failures, history>>

RunNow(c, o) ==
  /\ c \notin Ticker
  /\ Scan(c, {o})
  /\ UNCHANGED <<file, db, job, lock, failures, history>>

StaleIn(o) == {d \in stale : Exists(d) /\ OrgOf[d] = o}

SelectStale(c, o) ==
  /\ run[c].phase = "scanning" /\ o \in run[c].orgs
  /\ run' = [run EXCEPT ![c].orgs = @ \ {o},
                        ![c].phase = IF StaleIn(o) = {} THEN "scanning" ELSE "selected",
                        ![c].docs = StaleIn(o),
                        ![c].todo = StaleIn(o)]
  /\ UNCHANGED <<file, db, job, lock, failures, history>>

\* The DELETEs, which wait for those of another run.
DeleteStale(c) ==
  /\ run[c].phase = "selected"
  /\ run[c].docs \cap Locked(c) = {}
  /\ run' = [run EXCEPT ![c].phase = "purging"]
  /\ UNCHANGED <<file, db, job, lock, failures, history>>

Purging(c, d) ==
  /\ run[c].phase = "purging"
  /\ d \in run[c].todo
  /\ run' = [run EXCEPT ![c].todo = @ \ {d}]

Purge(c, d) ==
  /\ Purging(c, d)
  /\ file' = [file EXCEPT ![d] = "deleted"]
  /\ UNCHANGED <<db, job, lock, failures, history>>

\* _purge_storage_objects logs what the storage raises and goes on.
PurgeFails(c, d) ==
  /\ Purging(c, d)
  /\ Fail
  /\ leaked' = leaked \cup {d}
  /\ UNCHANGED <<file, db, job, lock, cut>>

Scanned(c) ==
  run' = [run EXCEPT ![c].phase = "scanning", ![c].docs = {}, ![c].todo = {}]

\* A plausible bug: the commit of each workspace is lost.
CommitOrg_NoCommit(c) ==
  /\ run[c].phase = "purging" /\ run[c].todo = {}
  /\ Scanned(c)
  /\ UNCHANGED <<file, db, job, lock, failures, history>>

CommitOrg(c) ==
  /\ run[c].phase = "purging" /\ run[c].todo = {}
  /\ row' = [d \in Doc |-> IF d \in run[c].docs THEN None ELSE row[d]]
  /\ Scanned(c)
  /\ UNCHANGED <<file, stale, project, job, lock, failures, history>>

\* A plausible bug: the advisory lock is not released.
CloseRun_KeepsLock(c) ==
  /\ run' = [run EXCEPT ![c] = NoRun]
  /\ lock' = lock

CloseRun(c) ==
  /\ run' = [run EXCEPT ![c] = NoRun]
  /\ lock' = IF lock = c THEN None ELSE lock

EndRun(c) ==
  /\ run[c].phase = "scanning" /\ run[c].orgs = {}
  /\ CloseRun(c)
  /\ UNCHANGED <<file, db, job, failures, history>>

\* The run raises or its process dies: the workspace it was in is rolled back.
AbortRun(c) ==
  /\ run[c] # NoRun
  /\ Fail
  /\ cut' = IF run[c].phase = "purging" THEN cut \cup (run[c].docs \ run[c].todo) ELSE cut
  /\ CloseRun(c)
  /\ UNCHANGED <<file, db, job, leaked>>

-----------------------------------------------------------------------------
Requesting(h) ==
  \/ \E d \in Doc, p \in Project \cup {Loose} : StartUpload(h, d, p)
  \/ \E p \in Project, docs \in SUBSET Doc : StartProject(h, p, docs)
  \/ \E p \in Project : StartDelete(h, p)

Answering(h) ==
  \/ CommitUpload(h) \/ UploadRefused(h)
  \/ CommitProject(h) \/ ProjectRefused(h)
  \/ \E d \in Doc : Discard(h, d) \/ DiscardFails(h, d)
  \/ FinishDelete(h) \/ DeleteRefused(h)

Cleaning(c) ==
  \/ \E o \in Org : SelectStale(c, o)
  \/ DeleteStale(c)
  \/ \E d \in Doc : Purge(c, d) \/ PurgeFails(c, d)
  \/ CommitOrg(c) \/ EndRun(c)

Next ==
  \/ \E h \in Handler : Requesting(h) \/ Answering(h) \/ Abandon(h)
  \/ \E d \in Doc : GrowStale(d)
  \/ \E c \in Cleaner : StartTick(c) \/ Cleaning(c) \/ AbortRun(c)
  \/ \E c \in Cleaner, o \in Org : RunNow(c, o)

Spec == Init /\ [][Next]_vars

\* The cleanup loop of some replica keeps running and a run that has begun
\* goes on.  Requests need neither come nor end.
Fairness ==
  /\ WF_vars(\E c \in Cleaner : StartTick(c))
  /\ \A c \in Cleaner : WF_vars(Cleaning(c))

FairSpec == Spec /\ Fairness

-----------------------------------------------------------------------------
\* A file without a row is one an upload is about to commit, or the
\* remains of a call that failed: no request or cleanup that succeeds
\* forgets a file (delete_project, run_retention_cleanup).
OrphansAreLeaks ==
  \A d \in Stored :
    \/ Exists(d)
    \/ d \in leaked
    \/ \E h \in Handler : job[h].phase = "saved" /\ d \in job[h].docs

\* What a deletion that is not committed yet has already taken away.
Taken(d) ==
  \/ \E h \in Handler : job[h].phase = "deleting" /\ d \in job[h].docs \ job[h].todo
  \/ \E c \in Cleaner : run[c].phase = "purging" /\ d \in run[c].docs \ run[c].todo

\* A row without a file is being deleted, or was in an interrupted
\* deletion of its own project or workspace: no failure elsewhere brings a
\* row back whose file is gone (the commit per workspace).
RowsAreIntact ==
  \A d \in Doc : Exists(d) /\ d \notin Stored => d \in cut \/ Taken(d)

\* What is older than the retention goes in the end, row and file, through
\* aborted runs, concurrent runs and project deletions.
StaleRowsGo == \A d \in Doc : d \in stale /\ Exists(d) ~> ~Exists(d)

\* "Uploaded objects are immutable" (backup_objects.py): whatever requests
\* and runs do, a key is written once and never comes back.
B == INSTANCE Bucket WITH Key <- Doc
ImplementsBucket == B!Spec

-----------------------------------------------------------------------------
(* What the proofs need.                                                   *)

\* What a request or a run has in hand is what its phase says, and only
\* documents whose file was saved have rows, readers and deleters.
JobsFit ==
  /\ \A d \in Doc : Exists(d) => file[d] # "unsaved"
  /\ \A h \in Handler :
       /\ \A d \in job[h].docs : file[d] # "unsaved"
       /\ job[h].todo \subseteq job[h].docs
       /\ job[h].phase # "idle" => job[h].project # None
       /\ job[h].phase \in {"creating", "deleting"} => job[h].project \in Project
  /\ \A c \in Cleaner :
       /\ \A d \in run[c].docs : file[d] # "unsaved"
       /\ run[c].todo \subseteq run[c].docs
       /\ run[c].phase = "selected" => run[c].todo = run[c].docs

\* A saved upload is known to its own request only.
SavedIsPrivate ==
  \A h \in Handler : job[h].phase = "saved" =>
    \A d \in job[h].docs :
      /\ file[d] = "stored" /\ ~Exists(d)
      /\ \A g \in Handler \ {h} : d \notin job[g].docs
      /\ \A c \in Cleaner : d \notin run[c].docs

\* A deletion has dealt with every file it is not still about to.
TakenIsGone ==
  \A d \in Doc : Taken(d) => file[d] = "deleted" \/ d \in leaked

IndInv ==
  /\ TypeOK
  /\ JobsFit
  /\ SavedIsPrivate
  /\ TakenIsGone
  /\ OrphansAreLeaks
  /\ RowsAreIntact
=============================================================================

--------------------------- MODULE StorageProofs ----------------------------
(***************************************************************************)
(* Proofs about what is uploaded.  Documents, for any documents, projects, *)
(* workspaces, handlers, cleaners and bounds: no call that succeeds        *)
(* forgets a file, a row loses its file only to its own deletion, and the  *)
(* bucket is used as Bucket says.  ObjectMirror, for any keys and any      *)
(* bound: the backup of a file that is still there is never removed.  The  *)
(* two side by side, which Bucket joins: the backup of a row's file        *)
(* outlives everything but the row's own deletion.  And Chunking, for any  *)
(* text, sizes, overlaps and providers: the chunks are the text, each a    *)
(* stretch of it within its bound, and each row holds its chunk's vector.  *)
(***************************************************************************)
EXTENDS Documents, ObjectMirror, Chunking, FiniteSetTheorems, SequenceTheorems,
        WellFoundedInduction, TLAPS

-----------------------------------------------------------------------------
(* Documents.                                                              *)

LEMMA NothingInHand == NoJob \in Job /\ NoRun \in Run
  BY DEF NoJob, Job, NoRun, Run

\* Nothing is uploaded and nobody works when the service starts.
LEMMA InitIndInv == Init => IndInv
<1> SUFFICES ASSUME Init PROVE IndInv
  OBVIOUS
<1>1. TypeOK
  BY NothingInHand, BoundAssumption DEF Init, TypeOK
<1>2. JobsFit /\ SavedIsPrivate /\ TakenIsGone
  BY DEF Init, JobsFit, SavedIsPrivate, TakenIsGone, Taken, NoJob, NoRun, Exists
<1>3. OrphansAreLeaks /\ RowsAreIntact
  BY DEF Init, OrphansAreLeaks, RowsAreIntact, Stored, Exists
<1> QED BY <1>1, <1>2, <1>3 DEF IndInv

-----------------------------------------------------------------------------
(* Types.                                                                  *)

\* The steps of requests keep the types.
LEMMA RequestKeepsTypes ==
  ASSUME TypeOK, NEW h \in Handler, Requesting(h) \/ Answering(h) \/ Abandon(h)
  PROVE  TypeOK'
<1> USE NothingInHand, BoundAssumption DEF TypeOK, db, cleaning, history, Serve, Finish, Fail
<1>1. ASSUME NEW d \in Doc, NEW p \in Project \cup {Loose}, StartUpload(h, d, p)
      PROVE  TypeOK'
  <2>1. [phase |-> "saved", docs |-> {d}, todo |-> {}, project |-> p] \in Job
    BY DEF Job
  <2> QED BY <1>1, <2>1 DEF StartUpload
<1>2. CASE CommitUpload(h)
  <2>1. job[h].project \in Project \cup {Loose, None}
    BY DEF Job
  <2> QED BY <1>2, <2>1 DEF CommitUpload
<1>3. CASE UploadRefused(h)
  <2>1. job[h].docs \subseteq Doc
    BY DEF Job
  <2> QED BY <1>3, <2>1 DEF UploadRefused
<1>4. ASSUME NEW p \in Project, NEW docs \in SUBSET Doc, StartProject(h, p, docs)
      PROVE  TypeOK'
  <2>1. [phase |-> "creating", docs |-> docs, todo |-> {}, project |-> p] \in Job
    BY DEF Job
  <2> QED BY <1>4, <2>1 DEF StartProject
<1>5. CASE CommitProject(h)
  <2>1. job[h].project \in Project \cup {Loose, None}
    BY DEF Job
  <2> QED BY <1>5, <2>1 DEF CommitProject
<1>6. CASE ProjectRefused(h)
  BY <1>6 DEF ProjectRefused
<1>7. ASSUME NEW p \in Project, StartDelete(h, p) PROVE TypeOK'
  <2>1. [phase |-> "deleting", docs |-> In(p), todo |-> In(p), project |-> p] \in Job
    BY DEF Job, In
  <2> QED BY <1>7, <2>1 DEF StartDelete
<1>8. ASSUME NEW d \in Doc, Discard(h, d) \/ DiscardFails(h, d) PROVE TypeOK'
  <2>1. [job[h] EXCEPT !.todo = @ \ {d}] \in Job
    BY DEF Job
  <2>2. job' \in [Handler -> Job]
    BY <1>8, <2>1 DEF Discard, DiscardFails, Discarding
  <2>3. CASE Discard(h, d)
    BY <2>2, <2>3 DEF Discard
  <2>4. CASE DiscardFails(h, d)
    BY <2>2, <2>4 DEF DiscardFails
  <2> QED BY <1>8, <2>3, <2>4
<1>9. CASE FinishDelete(h)
  BY <1>9 DEF FinishDelete
<1>10. CASE DeleteRefused(h)
  <2>1. job[h].docs \subseteq Doc
    BY DEF Job
  <2> QED BY <1>10, <2>1 DEF DeleteRefused
<1>11. CASE Abandon(h)
  <2>1. job[h].docs \subseteq Doc
    BY DEF Job
  <2>2. project' \in [Project -> {"new", "creating", "live", "deleted"}]
    BY <1>11 DEF Abandon
  <2>3. leaked' \subseteq Doc /\ cut' \subseteq Doc
    BY <1>11, <2>1 DEF Abandon
  <2> QED BY <1>11, <2>2, <2>3 DEF Abandon
<1> QED
  BY <1>1, <1>2, <1>3, <1>4, <1>5, <1>6, <1>7, <1>8, <1>9, <1>10, <1>11
  DEF Requesting, Answering

\* And so do the steps of retention runs.
LEMMA RunKeepsTypes ==
  ASSUME TypeOK, NEW c \in Cleaner,
         \/ StartTick(c) \/ Cleaning(c) \/ AbortRun(c)
         \/ \E o \in Org : RunNow(c, o)
  PROVE  TypeOK'
<1> USE NothingInHand, BoundAssumption DEF TypeOK, db, history, Fail, CloseRun, Scan
<1>1. ASSUME NEW orgs \in SUBSET Org
      PROVE  [NoRun EXCEPT !.phase = "scanning", !.orgs = orgs] \in Run
  BY DEF NoRun, Run
<1>2. CASE StartTick(c)
  BY <1>1, <1>2 DEF StartTick
<1>3. ASSUME NEW o \in Org, RunNow(c, o) PROVE TypeOK'
  BY <1>1, <1>3 DEF RunNow
<1>4. ASSUME NEW o \in Org, SelectStale(c, o) PROVE TypeOK'
  <2> DEFINE new == [run[c] EXCEPT !.orgs = @ \ {o},
                       !.phase = IF StaleIn(o) = {} THEN "scanning" ELSE "selected",
                       !.docs = StaleIn(o), !.todo = StaleIn(o)]
  <2>1. new \in Run
    BY DEF Run, StaleIn
  <2>2. run' = [run EXCEPT ![c] = new]
    BY <1>4 DEF SelectStale
  <2> HIDE DEF new
  <2>3. run' \in [Cleaner -> Run]
    BY <2>1, <2>2
  <2> QED BY <1>4, <2>3 DEF SelectStale
<1>5. CASE DeleteStale(c)
  <2>1. [run[c] EXCEPT !.phase = "purging"] \in Run
    BY DEF Run
  <2> QED BY <1>5, <2>1 DEF DeleteStale
<1>6. ASSUME NEW d \in Doc, Purge(c, d) \/ PurgeFails(c, d) PROVE TypeOK'
  <2>1. [run[c] EXCEPT !.todo = @ \ {d}] \in Run
    BY DEF Run
  <2>2. run' \in [Cleaner -> Run]
    BY <1>6, <2>1 DEF Purge, PurgeFails, Purging
  <2>3. CASE Purge(c, d)
    BY <2>2, <2>3 DEF Purge
  <2>4. CASE PurgeFails(c, d)
    BY <2>2, <2>4 DEF PurgeFails
  <2> QED BY <1>6, <2>3, <2>4
<1>7. CASE CommitOrg(c)
  <2>1. [run[c] EXCEPT !.phase = "scanning", !.docs = {}, !.todo = {}] \in Run
    BY DEF Run
  <2> QED BY <1>7, <2>1 DEF CommitOrg, Scanned
<1>8. CASE EndRun(c)
  BY <1>8 DEF EndRun
<1>9. CASE AbortRun(c)
  <2>1. run[c].docs \subseteq Doc
    BY DEF Run
  <2> QED BY <1>9, <2>1 DEF AbortRun
<1> QED
  BY <1>2, <1>3, <1>4, <1>5, <1>6, <1>7, <1>8, <1>9 DEF Cleaning

\* Every step keeps the types.
LEMMA NextTypeOK == TypeOK /\ [Next]_vars => TypeOK'
<1> SUFFICES ASSUME TypeOK, [Next]_vars PROVE TypeOK'
  OBVIOUS
<1>1. CASE UNCHANGED vars
  BY <1>1 DEF vars, db, cleaning, history, TypeOK
<1>2. ASSUME NEW d \in Doc, GrowStale(d) PROVE TypeOK'
  BY <1>2 DEF GrowStale, TypeOK, cleaning, history
<1> QED BY <1>1, <1>2, RequestKeepsTypes, RunKeepsTypes DEF Next
-----------------------------------------------------------------------------
(* The invariant, apart from the types.                                    *)

Parts == JobsFit /\ SavedIsPrivate /\ TakenIsGone /\ OrphansAreLeaks /\ RowsAreIntact

\* A request that ends has nothing in hand; the others have what they had.
LEMMA Finishing ==
  ASSUME TypeOK, NEW h \in Handler, Finish(h)
  PROVE  /\ job'[h] = NoJob
         /\ \A g \in Handler \ {h} : job'[g] = job[g]
         /\ \A g \in Handler : job'[g].docs \subseteq job[g].docs
         /\ \A g \in Handler : job'[g] # NoJob => job'[g] = job[g]
  BY DEF TypeOK, Finish, NoJob

\* Uploads keep the parts: only the request that saved a file can commit its
\* row, and a file it gives up is a leak.
LEMMA UploadKeeps ==
  ASSUME TypeOK, Parts, NEW h \in Handler,
         \/ CommitUpload(h) \/ UploadRefused(h)
         \/ \E d \in Doc, p \in Project \cup {Loose} : StartUpload(h, d, p)
  PROVE  Parts'
<1> USE DEF Parts, TypeOK
<1>1. ASSUME NEW d \in Doc, NEW p \in Project \cup {Loose}, StartUpload(h, d, p)
      PROVE  Parts'
  <2> DEFINE new == [phase |-> "saved", docs |-> {d}, todo |-> {}, project |-> p]
  <2>1. job'[h] = new /\ \A g \in Handler \ {h} : job'[g] = job[g]
    BY <1>1 DEF StartUpload, Serve
  <2>2. job[h].phase = "idle" /\ job[h].docs = {} /\ job[h].todo = {}
    BY <1>1 DEF StartUpload, Serve, NoJob
  <2>3. file[d] = "unsaved" /\ file' = [file EXCEPT ![d] = "stored"]
    BY <1>1 DEF StartUpload, FreshKey
  <2>4. UNCHANGED <<row, run, leaked, cut>>
    BY <1>1 DEF StartUpload, db, cleaning, history
  <2>5. JobsFit'
    BY <2>1, <2>3, <2>4, NoneAssumption DEF JobsFit, Exists
  <2>6. SavedIsPrivate'
    BY <2>1, <2>2, <2>3, <2>4 DEF SavedIsPrivate, JobsFit, Exists
  <2>7. TakenIsGone'
    BY <2>1, <2>3, <2>4 DEF TakenIsGone, Taken, JobsFit
  <2>8. OrphansAreLeaks'
    BY <2>1, <2>2, <2>3, <2>4 DEF OrphansAreLeaks, Stored, Exists
  <2>9. RowsAreIntact'
    BY <2>1, <2>2, <2>3, <2>4 DEF RowsAreIntact, Taken, Stored, Exists
  <2> QED BY <2>5, <2>6, <2>7, <2>8, <2>9
<1>2. CASE CommitUpload(h)
  <2>1. /\ job[h].phase = "saved" /\ job[h].project # None
        /\ \A d \in Doc : row'[d] = IF d \in job[h].docs THEN job[h].project ELSE row[d]
        /\ UNCHANGED <<file, run, leaked, cut>>
    BY <1>2 DEF CommitUpload, JobsFit, cleaning, history
  <2>2. /\ job'[h] = NoJob
        /\ \A g \in Handler \ {h} : job'[g] = job[g]
    BY <1>2, Finishing DEF CommitUpload
  <2>3. JobsFit'
    BY <2>1, <2>2 DEF JobsFit, Exists, NoJob
  <2>4. SavedIsPrivate'
    BY <2>1, <2>2 DEF SavedIsPrivate, Exists, NoJob, Job
  <2>5. TakenIsGone'
    BY <2>1, <2>2 DEF TakenIsGone, Taken, NoJob
  <2>6. OrphansAreLeaks'
    BY <2>1, <2>2 DEF OrphansAreLeaks, Stored, Exists
  <2>7. RowsAreIntact'
    BY <2>1, <2>2 DEF RowsAreIntact, SavedIsPrivate, Taken, Stored, Exists
  <2> QED BY <2>3, <2>4, <2>5, <2>6, <2>7
<1>3. CASE UploadRefused(h)
  <2>1. /\ job[h].phase = "saved"
        /\ leaked' = leaked \cup job[h].docs
        /\ UNCHANGED <<file, row, run, cut>>
    BY <1>3 DEF UploadRefused, db, cleaning
  <2>2. /\ job'[h] = NoJob
        /\ \A g \in Handler \ {h} : job'[g] = job[g]
    BY <1>3, Finishing DEF UploadRefused
  <2>3. JobsFit'
    BY <2>1, <2>2 DEF JobsFit, Exists, NoJob
  <2>4. SavedIsPrivate'
    BY <2>1, <2>2 DEF SavedIsPrivate, Exists, NoJob
  <2>5. TakenIsGone'
    BY <2>1, <2>2 DEF TakenIsGone, Taken, NoJob
  <2>6. OrphansAreLeaks'
    BY <2>1, <2>2 DEF OrphansAreLeaks, Stored, Exists
  <2>7. RowsAreIntact'
    BY <2>1, <2>2 DEF RowsAreIntact, Taken, Stored, Exists
  <2> QED BY <2>3, <2>4, <2>5, <2>6, <2>7
<1> QED BY <1>1, <1>2, <1>3

\* Creating a project keeps the parts: its documents only change project.
LEMMA ProjectKeeps ==
  ASSUME TypeOK, Parts, NEW h \in Handler,
         \/ CommitProject(h) \/ ProjectRefused(h)
         \/ \E p \in Project, docs \in SUBSET Doc : StartProject(h, p, docs)
  PROVE  Parts'
<1> USE DEF Parts, TypeOK
<1>1. ASSUME NEW p \in Project, NEW docs \in SUBSET Doc, StartProject(h, p, docs)
      PROVE  Parts'
  <2> DEFINE new == [phase |-> "creating", docs |-> docs, todo |-> {}, project |-> p]
  <2>1. job'[h] = new /\ \A g \in Handler \ {h} : job'[g] = job[g]
    BY <1>1 DEF StartProject, Serve
  <2>2. job[h].phase = "idle" /\ \A d \in docs : Exists(d)
    BY <1>1, NoneAssumption DEF StartProject, Serve, NoJob, In, Exists
  <2>3. UNCHANGED <<file, row, run, leaked, cut>>
    BY <1>1 DEF StartProject, cleaning, history
  <2>4. JobsFit'
    BY <2>1, <2>2, <2>3, NoneAssumption DEF JobsFit, Exists
  <2>5. SavedIsPrivate'
    BY <2>1, <2>2, <2>3 DEF SavedIsPrivate, Exists
  <2>6. TakenIsGone'
    BY <2>1, <2>3 DEF TakenIsGone, Taken
  <2>7. OrphansAreLeaks'
    BY <2>1, <2>2, <2>3 DEF OrphansAreLeaks, Stored, Exists
  <2>8. RowsAreIntact'
    BY <2>1, <2>2, <2>3 DEF RowsAreIntact, Taken, Stored, Exists
  <2> QED BY <2>4, <2>5, <2>6, <2>7, <2>8
<1>2. ASSUME CommitProject(h) \/ ProjectRefused(h) PROVE Parts'
  <2>1. /\ job[h].phase = "creating"
        /\ \A d \in Doc : Exists(d) <=> Exists(d)'
        /\ UNCHANGED <<file, run, leaked, cut>>
    BY <1>2, NoneAssumption DEF CommitProject, ProjectRefused, JobsFit, Exists, cleaning, history
  <2>2. /\ job'[h] = NoJob
        /\ \A g \in Handler \ {h} : job'[g] = job[g]
    BY <1>2, Finishing DEF CommitProject, ProjectRefused
  <2>3. JobsFit'
    BY <2>1, <2>2 DEF JobsFit, NoJob
  <2>4. SavedIsPrivate'
    BY <2>1, <2>2 DEF SavedIsPrivate, NoJob, Job
  <2>5. TakenIsGone'
    BY <2>1, <2>2 DEF TakenIsGone, Taken, NoJob
  <2>6. OrphansAreLeaks'
    BY <2>1, <2>2 DEF OrphansAreLeaks, Stored
  <2>7. RowsAreIntact'
    BY <2>1, <2>2 DEF RowsAreIntact, Taken, Stored
  <2> QED BY <2>3, <2>4, <2>5, <2>6, <2>7
<1> QED BY <1>1, <1>2

\* Taking a file away, or failing to and leaving it as a leak, keeps what
\* relates files, rows and deletions.
LEMMA TakingKeeps ==
  ASSUME TypeOK, Parts, NEW d \in Doc,
         \/ file' = [file EXCEPT ![d] = "deleted"] /\ leaked' = leaked
         \/ file' = file /\ leaked' = leaked \cup {d},
         UNCHANGED <<row, cut>>,
         \A e \in Doc : Taken(e)' <=> Taken(e) \/ e = d,
         \A h \in Handler : job'[h].phase = job[h].phase /\ job'[h].docs = job[h].docs
  PROVE  /\ TakenIsGone' /\ OrphansAreLeaks' /\ RowsAreIntact'
         /\ \A e \in Doc : file[e] # "unsaved" => file'[e] # "unsaved"
         /\ \A e \in Doc \ {d} : file'[e] = file[e]
<1>1. /\ file'[d] = "deleted" \/ (file'[d] = file[d] /\ d \in leaked')
      /\ \A e \in Doc \ {d} : file'[e] = file[e]
      /\ \A e \in Doc \ {d} : e \in leaked' <=> e \in leaked
      /\ leaked \subseteq leaked'
  BY DEF TypeOK
<1>2. TakenIsGone'
  BY <1>1 DEF Parts, TakenIsGone
<1>3. OrphansAreLeaks'
  BY <1>1 DEF Parts, OrphansAreLeaks, Stored, Exists
<1>4. RowsAreIntact'
  BY <1>1 DEF Parts, RowsAreIntact, Stored, Exists
<1> QED BY <1>1, <1>2, <1>3, <1>4

\* Deleting a project keeps the parts: each file is deleted or left as a
\* leak before the row goes, and an end before that is an interruption.
LEMMA DeletionKeeps ==
  ASSUME TypeOK, Parts, NEW h \in Handler,
         \/ \E p \in Project : StartDelete(h, p)
         \/ \E d \in Doc : Discard(h, d) \/ DiscardFails(h, d)
         \/ FinishDelete(h) \/ DeleteRefused(h)
  PROVE  Parts'
<1> USE DEF Parts, TypeOK
<1>1. ASSUME NEW p \in Project, StartDelete(h, p) PROVE Parts'
  <2> DEFINE new == [phase |-> "deleting", docs |-> In(p), todo |-> In(p), project |-> p]
  <2>1. job'[h] = new /\ \A g \in Handler \ {h} : job'[g] = job[g]
    BY <1>1 DEF StartDelete, Serve
  <2>2. job[h].phase = "idle" /\ \A d \in In(p) : d \in Doc /\ Exists(d)
    BY <1>1, NoneAssumption DEF StartDelete, Serve, NoJob, In, Exists
  <2>3. UNCHANGED <<file, row, run, leaked, cut>>
    BY <1>1 DEF StartDelete, db, cleaning, history
  <2>4. JobsFit'
    BY <2>1, <2>2, <2>3, NoneAssumption DEF JobsFit, Exists
  <2>5. SavedIsPrivate'
    BY <2>1, <2>2, <2>3 DEF SavedIsPrivate, Exists, Job
  <2>6. TakenIsGone'
    BY <2>1, <2>3 DEF TakenIsGone, Taken
  <2>7. OrphansAreLeaks'
    BY <2>1, <2>2, <2>3 DEF OrphansAreLeaks, Stored, Exists
  <2>8. RowsAreIntact'
    BY <2>1, <2>2, <2>3 DEF RowsAreIntact, Taken, Stored, Exists
  <2> QED BY <2>4, <2>5, <2>6, <2>7, <2>8
<1>2. ASSUME NEW d \in Doc, Discard(h, d) \/ DiscardFails(h, d) PROVE Parts'
  <2>1. /\ job[h].phase = "deleting" /\ d \in job[h].todo
        /\ job'[h] = [job[h] EXCEPT !.todo = @ \ {d}]
        /\ \A g \in Handler \ {h} : job'[g] = job[g]
    BY <1>2 DEF Discard, DiscardFails, Discarding
  <2>2. \/ file' = [file EXCEPT ![d] = "deleted"] /\ leaked' = leaked
        \/ file' = file /\ leaked' = leaked \cup {d}
    BY <1>2 DEF Discard, DiscardFails, history
  <2>3. UNCHANGED <<row, run, cut>>
    BY <1>2 DEF Discard, DiscardFails, db, cleaning, history
  <2>4. job[h] \in Job /\ d \in job[h].docs
    BY <2>1 DEF JobsFit
  <2>5. \A g \in Handler :
          /\ job'[g].phase = job[g].phase /\ job'[g].docs = job[g].docs
          /\ job'[g].project = job[g].project
          /\ job'[g].todo = IF g = h THEN job[g].todo \ {d} ELSE job[g].todo
    BY <2>1, <2>4 DEF Job
  <2> HIDE DEF Parts, TypeOK
  <2>6. \A e \in Doc : Taken(e)' <=> Taken(e) \/ e = d
    BY <2>1, <2>3, <2>4, <2>5 DEF Taken
  <2>7. /\ TakenIsGone' /\ OrphansAreLeaks' /\ RowsAreIntact'
        /\ \A e \in Doc : file[e] # "unsaved" => file'[e] # "unsaved"
        /\ \A e \in Doc \ {d} : file'[e] = file[e]
    BY <2>2, <2>3, <2>5, <2>6, TakingKeeps
  <2>8. /\ \A g \in Handler : job[g].docs \subseteq Doc
        /\ \A c \in Cleaner : run[c].docs \subseteq Doc
    BY DEF TypeOK, Job, Run
  <2>9. JobsFit'
    BY <2>3, <2>5, <2>7, <2>8 DEF Parts, JobsFit, Exists
  <2>10. \A g \in Handler : job[g].phase = "saved" => d \notin job[g].docs
    BY <2>1, <2>4 DEF Parts, SavedIsPrivate
  <2>11. SavedIsPrivate'
    <3> SUFFICES ASSUME NEW g \in Handler, job[g].phase = "saved", NEW e \in job[g].docs
                 PROVE  /\ file'[e] = "stored" /\ ~Exists(e)'
                        /\ \A f \in Handler \ {g} : e \notin job'[f].docs
                        /\ \A c \in Cleaner : e \notin run'[c].docs
      BY <2>5 DEF SavedIsPrivate
    <3>1. e # d /\ e \in Doc
      BY <2>8, <2>10
    <3> QED BY <2>3, <2>5, <2>7, <3>1 DEF Parts, SavedIsPrivate, Exists
  <2> QED BY <2>7, <2>9, <2>11 DEF Parts
<1>3. CASE FinishDelete(h)
  <2>1. /\ job[h].phase = "deleting" /\ job[h].todo = {}
        /\ \A d \in Doc : row'[d] = IF d \in job[h].docs THEN None ELSE row[d]
        /\ UNCHANGED <<file, run, leaked, cut>>
    BY <1>3 DEF FinishDelete, cleaning, history
  <2>2. /\ job'[h] = NoJob
        /\ \A g \in Handler \ {h} : job'[g] = job[g]
    BY <1>3, Finishing DEF FinishDelete
  <2>3. JobsFit'
    BY <2>1, <2>2 DEF JobsFit, Exists, NoJob
  <2>4. SavedIsPrivate'
    BY <2>1, <2>2 DEF SavedIsPrivate, Exists, NoJob, Job
  <2>5. TakenIsGone'
    BY <2>1, <2>2 DEF TakenIsGone, Taken, NoJob
  <2>6. OrphansAreLeaks'
    BY <2>1, <2>2 DEF OrphansAreLeaks, TakenIsGone, Taken, Stored, Exists
  <2>7. RowsAreIntact'
    BY <2>1, <2>2 DEF RowsAreIntact, Taken, Stored, Exists
  <2> QED BY <2>3, <2>4, <2>5, <2>6, <2>7
<1>4. CASE DeleteRefused(h)
  <2>1. /\ job[h].phase = "deleting"
        /\ cut' = cut \cup job[h].docs
        /\ UNCHANGED <<file, row, run, leaked>>
    BY <1>4 DEF DeleteRefused, db, cleaning
  <2>2. /\ job'[h] = NoJob
        /\ \A g \in Handler \ {h} : job'[g] = job[g]
    BY <1>4, Finishing DEF DeleteRefused
  <2>3. JobsFit'
    BY <2>1, <2>2 DEF JobsFit, Exists, NoJob
  <2>4. SavedIsPrivate'
    BY <2>1, <2>2 DEF SavedIsPrivate, Exists, NoJob
  <2>5. TakenIsGone'
    BY <2>1, <2>2 DEF TakenIsGone, Taken, NoJob
  <2>6. OrphansAreLeaks'
    BY <2>1, <2>2 DEF OrphansAreLeaks, Stored, Exists
  <2>7. RowsAreIntact'
    BY <2>1, <2>2 DEF RowsAreIntact, Taken, Stored, Exists
  <2> QED BY <2>3, <2>4, <2>5, <2>6, <2>7
<1> QED BY <1>1, <1>2, <1>3, <1>4

\* So does a request that is abandoned, whatever it was doing.
LEMMA AbandonKeeps ==
  ASSUME TypeOK, Parts, NEW h \in Handler, Abandon(h)
  PROVE  Parts'
<1> USE DEF Parts, TypeOK
<1>1. UNCHANGED <<file, row, run>>
  BY DEF Abandon, cleaning
<1>2. /\ job'[h] = NoJob
      /\ \A g \in Handler \ {h} : job'[g] = job[g]
  BY Finishing DEF Abandon
<1>3. /\ leaked' = IF job[h].phase = "saved" THEN leaked \cup job[h].docs ELSE leaked
      /\ cut' = IF job[h].phase = "deleting" THEN cut \cup (job[h].docs \ job[h].todo) ELSE cut
  BY DEF Abandon
<1>4. JobsFit'
  BY <1>1, <1>2 DEF JobsFit, Exists, NoJob
<1>5. SavedIsPrivate'
  BY <1>1, <1>2 DEF SavedIsPrivate, Exists, NoJob
<1>6. TakenIsGone'
  BY <1>1, <1>2, <1>3 DEF TakenIsGone, Taken, NoJob
<1>7. OrphansAreLeaks'
  BY <1>1, <1>2, <1>3 DEF OrphansAreLeaks, Stored, Exists
<1>8. RowsAreIntact'
  BY <1>1, <1>2, <1>3 DEF RowsAreIntact, Taken, Stored, Exists
<1> QED BY <1>4, <1>5, <1>6, <1>7, <1>8

\* A retention run that only reads keeps the parts: what it selects has rows,
\* and it has taken nothing away yet.
LEMMA SelectingKeeps ==
  ASSUME TypeOK, Parts, NEW c \in Cleaner,
         \/ StartTick(c) \/ DeleteStale(c) \/ EndRun(c)
         \/ \E o \in Org : RunNow(c, o) \/ SelectStale(c, o)
  PROVE  Parts'
<1>1. UNCHANGED <<file, row, job, leaked, cut>>
  BY DEF StartTick, DeleteStale, EndRun, RunNow, SelectStale, db, history
<1>2. /\ run[c].phase # "purging" /\ \A x \in Cleaner \ {c} : run'[x] = run[x]
      /\ run'[c].todo \subseteq run'[c].docs
      /\ run'[c].phase \in {"selected", "purging"} => run'[c].todo = run'[c].docs
      /\ \A d \in run'[c].docs : d \in run[c].docs \/ (d \in Doc /\ Exists(d))
  <2> USE DEF TypeOK
  <2>1. CASE StartTick(c) \/ \E o \in Org : RunNow(c, o)
    <3>1. PICK orgs : Scan(c, orgs)
      BY <2>1 DEF StartTick, RunNow
    <3>2. run'[c] = [phase |-> "scanning", orgs |-> orgs, docs |-> {}, todo |-> {}]
      BY <3>1 DEF Scan, NoRun
    <3>3. run[c].phase # "purging" /\ \A x \in Cleaner \ {c} : run'[x] = run[x]
      BY <3>1 DEF Scan, NoRun
    <3> QED BY <3>2, <3>3
  <2>2. CASE DeleteStale(c)
    BY <2>2 DEF DeleteStale, Parts, JobsFit, Run
  <2>3. CASE EndRun(c)
    BY <2>3 DEF EndRun, CloseRun, NoRun
  <2>4. ASSUME NEW o \in Org, SelectStale(c, o)
        PROVE  /\ run[c].phase # "purging" /\ \A x \in Cleaner \ {c} : run'[x] = run[x]
               /\ run'[c].todo = run'[c].docs /\ run'[c].docs = StaleIn(o)
    <3>1. run[c] \in Run
      OBVIOUS
    <3>2. run[c].phase # "purging" /\ \A x \in Cleaner \ {c} : run'[x] = run[x]
      BY <2>4 DEF SelectStale
    <3>3. run'[c] = [run[c] EXCEPT !.orgs = @ \ {o},
                       !.phase = IF StaleIn(o) = {} THEN "scanning" ELSE "selected",
                       !.docs = StaleIn(o), !.todo = StaleIn(o)]
      BY <2>4 DEF SelectStale
    <3> QED BY <3>1, <3>2, <3>3 DEF Run
  <2>5. ASSUME NEW o \in Org, NEW d \in StaleIn(o) PROVE d \in Doc /\ Exists(d)
    BY DEF StaleIn
  <2> QED BY <2>1, <2>2, <2>3, <2>4, <2>5
<1>3. JobsFit'
  BY <1>1, <1>2 DEF Parts, JobsFit, Exists
<1>4. SavedIsPrivate'
  <2> SUFFICES ASSUME NEW h \in Handler, job[h].phase = "saved", NEW d \in job[h].docs,
                      NEW x \in Cleaner
               PROVE  d \notin run'[x].docs
    BY <1>1 DEF Parts, SavedIsPrivate, Exists
  <2> QED BY <1>2 DEF Parts, SavedIsPrivate
<1>5. \A d \in Doc : Taken(d)' <=> Taken(d)
  BY <1>1, <1>2 DEF Taken
<1>6. TakenIsGone' /\ OrphansAreLeaks' /\ RowsAreIntact'
  BY <1>1, <1>5 DEF Parts, TakenIsGone, OrphansAreLeaks, RowsAreIntact, Stored, Exists
<1> QED BY <1>3, <1>4, <1>6 DEF Parts

\* Purging keeps the parts, like a request's deletions.
LEMMA PurgingKeeps ==
  ASSUME TypeOK, Parts, NEW c \in Cleaner, NEW d \in Doc, Purge(c, d) \/ PurgeFails(c, d)
  PROVE  Parts'
<1>1. /\ run[c].phase = "purging" /\ d \in run[c].todo
      /\ run'[c] = [run[c] EXCEPT !.todo = @ \ {d}]
      /\ \A x \in Cleaner \ {c} : run'[x] = run[x]
  BY DEF Purge, PurgeFails, Purging, TypeOK
<1>2. \/ file' = [file EXCEPT ![d] = "deleted"] /\ leaked' = leaked
      \/ file' = file /\ leaked' = leaked \cup {d}
  BY DEF Purge, PurgeFails, history
<1>3. UNCHANGED <<row, job, cut>>
  BY DEF Purge, PurgeFails, db, history
<1>4. run[c] \in Run /\ d \in run[c].docs
  BY <1>1 DEF Parts, JobsFit, TypeOK
<1>5. \A x \in Cleaner :
        /\ run'[x].phase = run[x].phase /\ run'[x].docs = run[x].docs
        /\ run'[x].todo = IF x = c THEN run[x].todo \ {d} ELSE run[x].todo
  BY <1>1, <1>4 DEF Run
<1>6. \A e \in Doc : Taken(e)' <=> Taken(e) \/ e = d
  BY <1>1, <1>3, <1>4, <1>5 DEF Taken
<1>7. /\ TakenIsGone' /\ OrphansAreLeaks' /\ RowsAreIntact'
      /\ \A e \in Doc : file[e] # "unsaved" => file'[e] # "unsaved"
      /\ \A e \in Doc \ {d} : file'[e] = file[e]
  BY <1>2, <1>3, <1>6, TakingKeeps
<1>8. /\ \A g \in Handler : job[g].docs \subseteq Doc
      /\ \A x \in Cleaner : run[x].docs \subseteq Doc
  BY DEF TypeOK, Job, Run
<1>9. JobsFit'
  <2>1. run[c].phase # "selected"
    BY <1>1
  <2> QED BY <1>3, <1>5, <1>7, <1>8, <2>1 DEF Parts, JobsFit, Exists
<1>10. SavedIsPrivate'
  <2> SUFFICES ASSUME NEW g \in Handler, job[g].phase = "saved", NEW e \in job[g].docs
               PROVE  /\ file'[e] = "stored" /\ ~Exists(e)'
                      /\ \A f \in Handler \ {g} : e \notin job[f].docs
                      /\ \A x \in Cleaner : e \notin run'[x].docs
    BY <1>3 DEF SavedIsPrivate
  <2>1. e # d /\ e \in Doc
    BY <1>4, <1>8 DEF Parts, SavedIsPrivate
  <2> QED BY <1>3, <1>5, <1>7, <2>1 DEF Parts, SavedIsPrivate, Exists
<1> QED BY <1>7, <1>9, <1>10 DEF Parts

\* The end of a workspace's cleanup keeps the parts: by a commit, when all
\* its files are dealt with, or by a failure, which is an interruption.
LEMMA CommitOrAbortKeeps ==
  ASSUME TypeOK, Parts, NEW c \in Cleaner, CommitOrg(c) \/ AbortRun(c)
  PROVE  Parts'
<1>1. /\ run'[c].docs = {} /\ run'[c].todo = {} /\ run'[c].phase \in {"scanning", "idle"}
      /\ \A x \in Cleaner \ {c} : run'[x] = run[x]
  <2>1. CASE CommitOrg(c)
    BY <2>1 DEF CommitOrg, Scanned, TypeOK, Run
  <2>2. CASE AbortRun(c)
    BY <2>2 DEF AbortRun, CloseRun, NoRun, TypeOK
  <2> QED BY <2>1, <2>2
<1>2. UNCHANGED <<file, job, leaked>>
  BY DEF CommitOrg, AbortRun, db, history
<1>3. \A d \in Doc : Exists(d)' => Exists(d)
  BY DEF CommitOrg, AbortRun, db, Exists
<1>4. \A d \in Doc : Taken(d)' => Taken(d)
  BY <1>1, <1>2 DEF Taken
<1>5. JobsFit' /\ SavedIsPrivate'
  BY <1>1, <1>2, <1>3 DEF Parts, JobsFit, SavedIsPrivate, TypeOK, Job
<1>6. TakenIsGone'
  BY <1>2, <1>4 DEF Parts, TakenIsGone
<1>7. ASSUME CommitOrg(c) PROVE OrphansAreLeaks' /\ RowsAreIntact'
  <2>1. /\ run[c].phase = "purging" /\ run[c].todo = {}
        /\ \A d \in Doc : row'[d] = IF d \in run[c].docs THEN None ELSE row[d]
        /\ cut' = cut
    BY <1>7 DEF CommitOrg, history
  <2>2. \A d \in Doc \cap run[c].docs : file[d] = "deleted" \/ d \in leaked
    BY <2>1 DEF Parts, TakenIsGone, Taken
  <2>3. OrphansAreLeaks'
    BY <1>2, <2>1, <2>2 DEF Parts, OrphansAreLeaks, Stored, Exists
  <2>4. \A d \in Doc \ run[c].docs : Taken(d)' <=> Taken(d)
    BY <1>1, <1>2 DEF Taken
  <2> QED BY <1>2, <2>1, <2>3, <2>4 DEF Parts, RowsAreIntact, Stored, Exists
<1>8. ASSUME AbortRun(c) PROVE OrphansAreLeaks' /\ RowsAreIntact'
  <2>1. /\ row' = row
        /\ cut' = IF run[c].phase = "purging" THEN cut \cup (run[c].docs \ run[c].todo) ELSE cut
    BY <1>8 DEF AbortRun, db
  <2>2. \A d \in Doc : Taken(d) => Taken(d)' \/ d \in cut'
    BY <1>1, <1>2, <2>1 DEF Taken
  <2> QED BY <1>2, <2>1, <2>2 DEF Parts, OrphansAreLeaks, RowsAreIntact, Stored, Exists
<1> QED BY <1>5, <1>6, <1>7, <1>8 DEF Parts

\* The invariant is inductive.
LEMMA NextIndInv == IndInv /\ [Next]_vars => IndInv'
<1> SUFFICES ASSUME IndInv, [Next]_vars PROVE IndInv'
  OBVIOUS
<1>1. TypeOK /\ Parts
  BY DEF IndInv, Parts
<1>2. TypeOK'
  BY <1>1, NextTypeOK
<1>3. ASSUME UNCHANGED <<file, row, job, run, leaked, cut>> PROVE Parts'
  <2>1. \A d \in Doc : Taken(d)' <=> Taken(d)
    BY <1>3 DEF Taken
  <2>2. (JobsFit /\ SavedIsPrivate)'
    BY <1>1, <1>3 DEF Parts, JobsFit, SavedIsPrivate, Exists
  <2>3. (TakenIsGone /\ OrphansAreLeaks /\ RowsAreIntact)'
    BY <1>1, <1>3, <2>1 DEF Parts, TakenIsGone, OrphansAreLeaks, RowsAreIntact, Stored, Exists
  <2> QED BY <2>2, <2>3 DEF Parts
<1>4. ASSUME UNCHANGED vars PROVE Parts'
  BY <1>3, <1>4 DEF vars, db, cleaning, history
<1>5. ASSUME NEW d \in Doc, GrowStale(d) PROVE Parts'
  BY <1>3, <1>5 DEF cleaning, history, GrowStale
<1>6. ASSUME NEW h \in Handler, Requesting(h) \/ Answering(h) \/ Abandon(h) PROVE Parts'
  BY <1>1, <1>6, UploadKeeps, ProjectKeeps, DeletionKeeps, AbandonKeeps DEF Requesting, Answering
<1>7. ASSUME NEW c \in Cleaner, StartTick(c) \/ Cleaning(c) \/ AbortRun(c) PROVE Parts'
  BY <1>1, <1>7, SelectingKeeps, PurgingKeeps, CommitOrAbortKeeps DEF Cleaning
<1>8. ASSUME NEW c \in Cleaner, NEW o \in Org, RunNow(c, o) PROVE Parts'
  BY <1>1, <1>8, SelectingKeeps
<1>9. Parts'
  BY <1>4, <1>5, <1>6, <1>7, <1>8 DEF Next
<1> QED BY <1>2, <1>9 DEF IndInv, Parts

-----------------------------------------------------------------------------
\* The invariant holds in every reachable state: uploads, deletions and
\* retention runs of any number may interleave and fail anywhere.
THEOREM Invariance == Spec => []IndInv
  BY InitIndInv, NextIndInv, PTL DEF Spec

\* Every variable keeps its type (main.py, privacy_service.py, storage.py).
THEOREM TypeCorrect == Spec => []TypeOK
<1>1. IndInv => TypeOK
  BY DEF IndInv
<1> QED BY <1>1, Invariance, PTL

\* A file without a row is being uploaded or was left by a call that failed
\* (delete_project, run_retention_cleanup).
THEOREM NoFileIsForgotten == Spec => []OrphansAreLeaks
<1>1. IndInv => OrphansAreLeaks
  BY DEF IndInv
<1> QED BY <1>1, Invariance, PTL

\* A row without a file is being deleted or was in a deletion of its own that
\* was interrupted (the commit per workspace of run_retention_cleanup).
THEOREM RowsKeepTheirFiles == Spec => []RowsAreIntact
<1>1. IndInv => RowsAreIntact
  BY DEF IndInv
<1> QED BY <1>1, Invariance, PTL

\* To the bucket, requests and runs save a key once and delete what was saved.
LEMMA RequestsUseTheBucket ==
  ASSUME IndInv, [Next]_vars
  PROVE  [B!Next]_file
<1>1. ASSUME NEW h \in Handler, NEW d \in Doc, NEW p \in Project \cup {Loose},
             StartUpload(h, d, p)
      PROVE  B!Save(d)
  BY <1>1 DEF StartUpload, FreshKey, B!Save
<1>2. ASSUME NEW h \in Handler, NEW d \in Doc, Discard(h, d) PROVE B!Delete(d)
  BY <1>2 DEF Discard, Discarding, IndInv, JobsFit, B!Delete
<1>3. ASSUME NEW c \in Cleaner, NEW d \in Doc, Purge(c, d) PROVE B!Delete(d)
  BY <1>3 DEF Purge, Purging, IndInv, JobsFit, B!Delete
<1>4. ASSUME NEW h \in Handler, Requesting(h) \/ Answering(h) \/ Abandon(h)
      PROVE  B!Next \/ UNCHANGED file
  BY <1>1, <1>2, <1>4
  DEF Requesting, Answering, Abandon, B!Next, CommitUpload, UploadRefused, StartProject,
      CommitProject, ProjectRefused, StartDelete, DiscardFails, FinishDelete, DeleteRefused
<1>5. ASSUME NEW c \in Cleaner, StartTick(c) \/ Cleaning(c) \/ AbortRun(c)
      PROVE  B!Next \/ UNCHANGED file
  BY <1>3, <1>5
  DEF StartTick, Cleaning, AbortRun, B!Next, SelectStale, DeleteStale, PurgeFails,
      CommitOrg, EndRun
<1> QED BY <1>4, <1>5 DEF Next, GrowStale, RunNow, vars

\* To the bucket, requests and runs do what Bucket says: every key is saved
\* once and may be deleted any number of times after (storage.py).
THEOREM Refinement == Spec => ImplementsBucket
<1>1. Init => B!Init
  BY DEF Init, B!Init
<1> QED BY <1>1, RequestsUseTheBucket, Invariance, PTL DEF Spec, ImplementsBucket, B!Spec

-----------------------------------------------------------------------------
(* ObjectMirror.                                                           *)

\* Both buckets are empty when the mirror first starts.
LEMMA InitMirrorInv == MirrorInit => MirrorInv
<1> SUFFICES ASSUME MirrorInit PROVE MirrorInv
  OBVIOUS
<1>1. NoMirror \in MirrorRun
  BY DEF NoMirror, MirrorRun
<1>2. MirrorTypeOK
  BY <1>1, OutageAssumption DEF MirrorInit, MirrorTypeOK, Source!Init, Source!FileType
<1>3. CopiesAreOfFiles /\ MirrorIsSound
  BY DEF MirrorInit, NoMirror, CopiesAreOfFiles, MirrorIsSound
<1> QED BY <1>2, <1>3 DEF MirrorInv

-----------------------------------------------------------------------------
(* Uploads and deletions.                                                  *)

\* In the source a key is written once, and what was deleted stays deleted.
LEMMA FilesOnlyAge ==
  ASSUME MirrorTypeOK, Uploading
  PROVE  /\ Source!FileType'
         /\ \A k \in Key : bucket[k] # "unsaved" => bucket'[k] # "unsaved"
         /\ \A k \in Key : bucket[k] = "deleted" => bucket'[k] = "deleted"
<1>1. PICK k \in Key : Source!Save(k) \/ Source!Delete(k)
  BY DEF Uploading, Source!Next
<1> QED BY <1>1 DEF MirrorTypeOK, Source!FileType, Source!Save, Source!Delete

\* So they leave what the mirror has in hand as sound as it was.
LEMMA UploadingKeeps == MirrorInv /\ Uploading => MirrorInv'
<1> SUFFICES ASSUME MirrorInv, Uploading PROVE MirrorInv'
  OBVIOUS
<1> USE DEF MirrorInv
<1>1. UNCHANGED <<backup, mirror, outages>>
  BY DEF Uploading
<1>2. MirrorTypeOK'
  BY <1>1, FilesOnlyAge DEF MirrorTypeOK
<1>3. mirror.source \subseteq Key /\ mirror.copy \subseteq Key /\ mirror.drop \subseteq Key
      /\ mirror.spool \in Key \cup {NoKey}
  BY DEF MirrorTypeOK, MirrorRun
<1>4. CopiesAreOfFiles'
  BY <1>1, <1>3, FilesOnlyAge, NoKeyAssumption DEF CopiesAreOfFiles, MirrorTypeOK
<1>5. MirrorIsSound'
  BY <1>1, <1>3, FilesOnlyAge DEF MirrorIsSound, MirrorTypeOK
<1> QED BY <1>2, <1>4, <1>5

-----------------------------------------------------------------------------
(* The mirror's steps.                                                     *)

\* The mirror's steps keep the types.
LEMMA MirroringKeepsTypes == MirrorTypeOK /\ (Mirroring \/ AbortMirror) => MirrorTypeOK'
<1> SUFFICES ASSUME MirrorTypeOK, Mirroring \/ AbortMirror PROVE MirrorTypeOK'
  OBVIOUS
<1> USE DEF MirrorTypeOK
<1>1. NoMirror \in MirrorRun
  BY DEF NoMirror, MirrorRun
<1>2. UNCHANGED bucket /\ Source!FileType'
  BY DEF Mirroring, StartListing, ReadSource, ListBackup, Download, DownloadMissing,
         Upload, RemoveCopy, EndMirror, AbortMirror, Source!FileType
<1>3. CASE StartListing
  <2>1. mirror' \in MirrorRun
    BY <1>3 DEF StartListing, NoMirror, MirrorRun
  <2> QED BY <1>2, <1>3, <2>1 DEF StartListing
<1>4. CASE ListBackup
  <2>1. mirror' \in MirrorRun
    BY <1>4 DEF ListBackup, MirrorRun
  <2> QED BY <1>2, <1>4, <2>1 DEF ListBackup
<1>5. ASSUME NEW k \in Key, ReadSource(k) PROVE MirrorTypeOK'
  <2>1. mirror' \in MirrorRun
    BY <1>5 DEF ReadSource, MirrorRun
  <2> QED BY <1>2, <1>5, <2>1 DEF ReadSource
<1>6. ASSUME NEW k \in Key, Download(k) PROVE MirrorTypeOK'
  <2>1. mirror' \in MirrorRun
    BY <1>6 DEF Download, MirrorRun
  <2> QED BY <1>2, <1>6, <2>1 DEF Download
<1>7. ASSUME NEW k \in Key, DownloadMissing(k) PROVE MirrorTypeOK'
  BY <1>1, <1>2, <1>7 DEF DownloadMissing
<1>8. CASE Upload
  <2>1. mirror.spool \in Key
    BY <1>8 DEF Upload, MirrorRun
  <2>2. mirror' \in MirrorRun
    BY <1>8 DEF Upload, MirrorRun
  <2> QED BY <1>2, <1>8, <2>1, <2>2 DEF Upload
<1>9. ASSUME NEW k \in Key, RemoveCopy(k) PROVE MirrorTypeOK'
  <2>1. mirror' \in MirrorRun
    BY <1>9 DEF RemoveCopy, MirrorRun
  <2> QED BY <1>2, <1>9, <2>1 DEF RemoveCopy
<1>10. CASE EndMirror
  BY <1>1, <1>2, <1>10 DEF EndMirror
<1>11. CASE AbortMirror
  <2>1. outages' \in 0 .. MaxOutages
    BY <1>11, OutageAssumption DEF AbortMirror
  <2> QED BY <1>1, <1>2, <1>11, <2>1 DEF AbortMirror
<1> QED BY <1>3, <1>4, <1>5, <1>6, <1>7, <1>8, <1>9, <1>10, <1>11 DEF Mirroring

\* A run that ends, in whatever way, leaves the backup as it is.
LEMMA EndingKeeps ==
  ASSUME CopiesAreOfFiles, mirror' = NoMirror, UNCHANGED <<bucket, backup>>
  PROVE  (CopiesAreOfFiles /\ MirrorIsSound)'
  BY DEF NoMirror, CopiesAreOfFiles, MirrorIsSound

\* A listing keeps what it says of the keys it has passed: a key the backup
\* has was written, so if it is not stored it was deleted.
LEMMA ListingKeeps ==
  ASSUME MirrorTypeOK, CopiesAreOfFiles, MirrorIsSound,
         StartListing \/ ListBackup \/ \E k \in Key : ReadSource(k)
  PROVE  (CopiesAreOfFiles /\ MirrorIsSound)'
<1> USE DEF CopiesAreOfFiles, MirrorIsSound, MirrorTypeOK
<1>1. CASE StartListing
  BY <1>1 DEF StartListing, NoMirror
<1>2. CASE ListBackup
  BY <1>2 DEF ListBackup, Sourced, MirrorRun
<1>3. ASSUME NEW k \in Key, ReadSource(k)
      PROVE  (CopiesAreOfFiles /\ MirrorIsSound)'
  <2>1. k \in backup => bucket[k] \in {"stored", "deleted"}
    BY DEF Source!FileType
  <2>2. CASE bucket[k] = "stored"
    BY <1>3, <2>2 DEF ReadSource, MirrorRun
  <2>3. CASE bucket[k] # "stored"
    BY <1>3, <2>1, <2>3 DEF ReadSource, MirrorRun
  <2> QED BY <2>2, <2>3
<1> QED BY <1>1, <1>2, <1>3

\* Copying and removing bring nothing new into mirror.drop.
LEMMA WorkingKeeps ==
  ASSUME MirrorTypeOK, CopiesAreOfFiles, MirrorIsSound,
         Upload \/ \E k \in Key : Download(k) \/ RemoveCopy(k)
  PROVE  (CopiesAreOfFiles /\ MirrorIsSound)'
<1> USE DEF CopiesAreOfFiles, MirrorIsSound, MirrorTypeOK
<1>1. CASE Upload
  BY <1>1 DEF Upload, MirrorRun
<1>2. ASSUME NEW k \in Key, Download(k) PROVE (CopiesAreOfFiles /\ MirrorIsSound)'
  BY <1>2, NoKeyAssumption DEF Download, MirrorRun
<1>3. ASSUME NEW k \in Key, RemoveCopy(k) PROVE (CopiesAreOfFiles /\ MirrorIsSound)'
  BY <1>3 DEF RemoveCopy, Copied, MirrorRun
<1> QED BY <1>1, <1>2, <1>3

\* The invariant is inductive.
LEMMA NextMirrorInv == MirrorInv /\ [MirrorNext]_mirrorVars => MirrorInv'
<1> SUFFICES ASSUME MirrorInv, [MirrorNext]_mirrorVars PROVE MirrorInv'
  OBVIOUS
<1>1. CASE UNCHANGED mirrorVars
  BY <1>1 DEF mirrorVars, MirrorInv, MirrorTypeOK, CopiesAreOfFiles, MirrorIsSound, Source!FileType
<1>2. CASE Uploading
  BY <1>2, UploadingKeeps
<1>3. CASE Mirroring \/ AbortMirror
  <2>1. MirrorTypeOK'
    BY <1>3, MirroringKeepsTypes DEF MirrorInv
  <2>2. CASE EndMirror \/ AbortMirror \/ \E k \in Key : DownloadMissing(k)
    BY <2>1, <2>2, EndingKeeps DEF MirrorInv, EndMirror, AbortMirror, DownloadMissing
  <2> QED BY <1>3, <2>1, <2>2, ListingKeeps, WorkingKeeps DEF Mirroring, MirrorInv
<1> QED BY <1>1, <1>2, <1>3 DEF MirrorNext

-----------------------------------------------------------------------------
\* The invariant holds in every reachable state (mirror, backup_objects.py).
THEOREM MirrorInvariance == MirrorSpec => []MirrorInv
  BY InitMirrorInv, NextMirrorInv, PTL DEF MirrorSpec

\* Every variable keeps its type: the mirror only ever handles known keys.
THEOREM MirrorTypeCorrect == MirrorSpec => []MirrorTypeOK
<1>1. MirrorInv => MirrorTypeOK
  BY DEF MirrorInv
<1> QED BY <1>1, MirrorInvariance, PTL

\* The mirror never removes the backup of a file that is still there
\* (mirror, backup_objects.py), for any keys and any number of failures.
THEOREM FilesKeepTheirBackup == MirrorSpec => OnlyDeletedLeaveBackup
<1>1. ASSUME MirrorInv, [MirrorNext]_mirrorVars
      PROVE  [\A k \in backup \ backup' : bucket[k] = "deleted"]_mirrorVars
  <2>1. CASE UNCHANGED mirrorVars
    BY <2>1
  <2>2. CASE MirrorNext
    <3> SUFFICES ASSUME NEW k \in backup \ backup' PROVE bucket[k] = "deleted"
      OBVIOUS
    <3>1. PICK d \in Key : RemoveCopy(d)
      BY <2>2 DEF MirrorNext, Uploading, Mirroring, StartListing, ListBackup, ReadSource, Download,
                  DownloadMissing, Upload, EndMirror, AbortMirror
    <3>2. k = d /\ k \in mirror.drop
      BY <3>1 DEF RemoveCopy
    <3> QED BY <1>1, <3>2 DEF MirrorInv, MirrorIsSound
  <2> QED BY <1>1, <2>1, <2>2
<1> QED BY <1>1, MirrorInvariance, PTL DEF MirrorSpec, OnlyDeletedLeaveBackup

-----------------------------------------------------------------------------
(* Side by side, where the keys are the documents'.                        *)

\* Requests, retention runs and the mirror work on one bucket.
SideBySide ==
  \/ Next /\ bucket' = file' /\ UNCHANGED <<backup, mirror, outages>>
  \/ (Mirroring \/ AbortMirror) /\ UNCHANGED vars

StorageSpec == Init /\ MirrorInit /\ [][SideBySide]_<<vars, mirrorVars>>

\* What Documents does to the bucket is what ObjectMirror expects of it.
LEMMA StorageStep ==
  ASSUME Key = Doc, IndInv, bucket = file, [SideBySide]_<<vars, mirrorVars>>
  PROVE  [Next]_vars /\ [MirrorNext]_mirrorVars /\ bucket' = file'
<1>1. CASE UNCHANGED <<vars, mirrorVars>>
  BY <1>1 DEF vars, mirrorVars
<1>2. CASE Next /\ bucket' = file' /\ UNCHANGED <<backup, mirror, outages>>
  <2>1. B!Next \/ UNCHANGED file
    BY <1>2, RequestsUseTheBucket
  <2>2. CASE UNCHANGED file
    BY <1>2, <2>2 DEF mirrorVars
  <2>3. CASE B!Next
    <3>1. Source!Next
      BY <1>2, <2>3 DEF B!Next, B!Save, B!Delete, Source!Next, Source!Save, Source!Delete
    <3> QED BY <1>2, <3>1 DEF MirrorNext, Uploading
  <2> QED BY <2>1, <2>2, <2>3
<1>3. CASE (Mirroring \/ AbortMirror) /\ UNCHANGED vars
  <2>1. UNCHANGED bucket
    BY <1>3 DEF Mirroring, StartListing, ReadSource, ListBackup, Download, DownloadMissing,
                Upload, RemoveCopy, EndMirror, AbortMirror
  <2> QED BY <1>3, <2>1 DEF vars, MirrorNext
<1> QED BY <1>1, <1>2, <1>3 DEF SideBySide

\* Side by side, Documents and ObjectMirror each do what they do alone
\* (storage.py, backup_objects.py): what is proved of each holds of both.
THEOREM StorageComposes ==
  ASSUME Key = Doc
  PROVE  StorageSpec => Spec /\ MirrorSpec /\ [](bucket = file)
<1>1. Init /\ MirrorInit => bucket = file
  BY DEF Init, MirrorInit, Source!Init
<1>2. ASSUME IndInv, bucket = file, [SideBySide]_<<vars, mirrorVars>>
      PROVE  IndInv' /\ (bucket = file)' /\ [Next]_vars /\ [MirrorNext]_mirrorVars
  BY <1>2, StorageStep, NextIndInv
<1> QED BY <1>1, <1>2, InitIndInv, PTL DEF StorageSpec, Spec, MirrorSpec

\* The backup of a document is removed only when its row is gone, is being
\* deleted or was in a deletion that was interrupted (mirror of
\* backup_objects.py; delete_project, run_retention_cleanup).
THEOREM RowsKeepTheirBackups ==
  ASSUME Key = Doc
  PROVE  StorageSpec =>
           [][\A d \in backup \ backup' : Exists(d) => d \in cut \/ Taken(d)]_<<vars, mirrorVars>>
<1>1. ASSUME IndInv, MirrorInv, bucket = file, [SideBySide]_<<vars, mirrorVars>>,
             [\A k \in backup \ backup' : bucket[k] = "deleted"]_mirrorVars
      PROVE  [\A d \in backup \ backup' : Exists(d) => d \in cut \/ Taken(d)]_<<vars, mirrorVars>>
  <2>1. CASE UNCHANGED mirrorVars
    BY <2>1 DEF mirrorVars
  <2>2. CASE \A k \in backup \ backup' : bucket[k] = "deleted"
    <3>1. ASSUME NEW d \in backup \ backup', Exists(d)
          PROVE  d \in cut \/ Taken(d)
      <4>1. d \in Doc /\ d \notin Stored
        BY <1>1, <2>2, <3>1 DEF MirrorInv, MirrorTypeOK, Stored
      <4> QED BY <1>1, <3>1, <4>1 DEF IndInv, RowsAreIntact
    <3> QED BY <3>1
  <2> QED BY <1>1, <2>1, <2>2
<1> QED BY <1>1, StorageComposes, Invariance, MirrorInvariance, FilesKeepTheirBackup, PTL
        DEF StorageSpec, OnlyDeletedLeaveBackup

-----------------------------------------------------------------------------
(* Chunking: numbers.                                                      *)

\* The order of the numbers is well founded: instead of induction, which quantifies
\* over predicates, the proofs take the least member of a set.
LessThan == OpToRel(<, Nat)

\* What it relates.
LEMMA LessThanPairs == LessThan = {ss \in Nat \X Nat : ss[1] < ss[2]}
  BY DEF LessThan, OpToRel

\* A set of numbers has a least one.
LEMMA LeastNumber ==
  ASSUME NEW T, T \subseteq Nat, T # {}
  PROVE  \E m \in T : \A k \in T : m <= k
<1>1. PICK m \in T : \A k \in T : <<k, m>> \notin LessThan
  BY WFMin, NatLessThanWellFounded DEF LessThan
<1>2. \A k \in T : k < m => <<k, m>> \in LessThan
  BY LessThanPairs
<1>3. \A k \in T : ~(k < m)
  BY <1>1, <1>2
<1> QED BY <1>3

\* What holds of 0 and passes from each number to the next holds up to n.
LEMMA Climb ==
  ASSUME NEW n \in Nat, NEW T, 0 \in T, \A k \in 0 .. n : k \in T /\ k < n => k + 1 \in T
  PROVE  \A k \in 0 .. n : k \in T
<1> DEFINE missing == (0 .. n) \ T
<1> SUFFICES ASSUME missing # {} PROVE FALSE
  OBVIOUS
<1>1. PICK m \in missing : \A k \in missing : m <= k
  <2>1. missing \subseteq Nat
    OBVIOUS
  <2> HIDE DEF missing
  <2> QED BY <2>1, LeastNumber
<1>2. m # 0 /\ m - 1 \in T
  BY <1>1
<1> QED BY <1>1, <1>2

\* Min is the least of a set of numbers.
LEMMA MinIsLeast ==
  ASSUME NEW S, S \subseteq Nat, S # {}
  PROVE  Min(S) \in S /\ \A k \in S : Min(S) <= k
<1>1. \E m \in S : \A k \in S : m <= k
  BY LeastNumber
<1> QED BY <1>1 DEF Min

\* And of two numbers, one of them.
LEMMA MinOfTwo ==
  ASSUME NEW m \in Nat, NEW n \in Nat
  PROVE  Min({m, n}) = IF m <= n THEN m ELSE n
<1>1. Min({m, n}) \in {m, n} /\ \A k \in {m, n} : Min({m, n}) <= k
  BY MinIsLeast, {m, n} \subseteq Nat, {m, n} # {}
<1> QED BY <1>1

\* Max of two numbers is one of them.
LEMMA MaxOfTwo ==
  ASSUME NEW m \in Nat, NEW n \in Nat
  PROVE  Max({m, n}) = IF m >= n THEN m ELSE n
<1>1. \E x \in {m, n} : \A y \in {m, n} : x >= y
  OBVIOUS
<1>2. Max({m, n}) \in {m, n} /\ \A y \in {m, n} : Max({m, n}) >= y
  BY <1>1 DEF Max
<1> QED BY <1>2

-----------------------------------------------------------------------------
(* Chunking: sums.                                                         *)

\* What Sums computes, length by length.
LEMMA SumsGrow ==
  ASSUME NEW lengths \in Seq(Nat)
  PROVE  /\ Sums(lengths)[0] = 0
         /\ \A n \in 1 .. Len(lengths) : Sums(lengths)[n] = Sums(lengths)[n - 1] + lengths[n]
         /\ \A n \in 0 .. Len(lengths) : Sums(lengths)[n] \in Nat
<1> DEFINE L == Len(lengths)
           upTo(g, n) == g = [k \in 0 .. n |-> IF k = 0 THEN 0 ELSE g[k - 1] + lengths[k]]
           T == {n \in 0 .. L : \E g : upTo(g, n)}
<1>0. L \in Nat
  OBVIOUS
<1>1. 0 \in T
  <2> DEFINE g == [k \in 0 .. 0 |-> 0]
  <2>1. upTo(g, 0)
    OBVIOUS
  <2> HIDE DEF upTo, g
  <2> QED BY <1>0, <2>1
<1>2. ASSUME NEW n \in 0 .. L, n \in T, n < L PROVE n + 1 \in T
  <2>1. PICK g : upTo(g, n)
    BY <1>2
  <2> DEFINE h == [k \in 0 .. n + 1 |-> IF k = n + 1 THEN g[n] + lengths[k] ELSE g[k]]
  <2>2. \A k \in 0 .. n : h[k] = g[k]
    BY <1>0
  <2>3. ASSUME NEW k \in 0 .. n + 1
        PROVE  h[k] = IF k = 0 THEN 0 ELSE h[k - 1] + lengths[k]
    <3>1. CASE k = n + 1
      BY <1>0, <1>2, <2>2, <3>1
    <3>2. CASE k # n + 1
      <4>1. k \in 0 .. n /\ (k # 0 => k - 1 \in 0 .. n)
        BY <1>0, <1>2, <3>2
      <4>2. g[k] = IF k = 0 THEN 0 ELSE g[k - 1] + lengths[k]
        BY <2>1, <4>1
      <4> QED BY <2>2, <4>1, <4>2
    <3> QED BY <3>1, <3>2
  <2>4. upTo(h, n + 1)
    <3> HIDE DEF h
    <3>1. h = [k \in 0 .. n + 1 |-> h[k]]
      BY DEF h
    <3> QED BY <2>3, <3>1
  <2> HIDE DEF upTo, h
  <2> QED BY <1>0, <1>2, <2>4
<1>3. \E g : upTo(g, L)
  <2> HIDE DEF T, L
  <2>1. \A k \in 0 .. L : k \in T
    BY <1>0, <1>1, <1>2, Climb
  <2>2. L \in T
    BY <1>0, <2>1
  <2> QED BY <2>2 DEF T
<1>4. Sums(lengths) = CHOOSE g : upTo(g, L)
  BY DEF Sums
<1>5. upTo(Sums(lengths), L)
  BY <1>3, <1>4
<1>6. /\ Sums(lengths)[0] = 0
      /\ \A n \in 1 .. L : Sums(lengths)[n] = Sums(lengths)[n - 1] + lengths[n]
  BY <1>0, <1>5
<1> DEFINE S == {n \in 0 .. L : Sums(lengths)[n] \in Nat}
<1>7. 0 \in S
  BY <1>0, <1>6
<1>8. ASSUME NEW n \in 0 .. L, n \in S, n < L PROVE n + 1 \in S
  <2>1. lengths[n + 1] \in Nat /\ n + 1 \in 1 .. L
    BY <1>8
  <2> QED BY <1>6, <1>8, <2>1
<1>9. \A n \in 0 .. L : n \in S
  <2> HIDE DEF S, L
  <2> QED BY <1>0, <1>7, <1>8, Climb
<1> QED BY <1>6, <1>9

\* The sums of what two sequences have in common are the same.
LEMMA SumsOfPrefix ==
  ASSUME NEW s \in Seq(Nat), NEW t \in Seq(Nat), NEW n \in 0 .. Len(s), n <= Len(t),
         \A i \in 1 .. n : s[i] = t[i]
  PROVE  Sums(s)[n] = Sums(t)[n]
<1> DEFINE T == {k \in 0 .. n : Sums(s)[k] = Sums(t)[k]}
<1>0. n \in Nat /\ Len(s) \in Nat /\ Len(t) \in Nat
  OBVIOUS
<1>1. 0 \in T
  BY <1>0, SumsGrow
<1>2. ASSUME NEW k \in 0 .. n, k \in T, k < n PROVE k + 1 \in T
  <2>1. k + 1 \in 1 .. n /\ k + 1 \in 1 .. Len(s) /\ k + 1 \in 1 .. Len(t) /\ (k + 1) - 1 = k
    BY <1>0, <1>2
  <2>2. Sums(s)[k + 1] = Sums(s)[k] + s[k + 1] /\ Sums(t)[k + 1] = Sums(t)[k] + t[k + 1]
    BY <2>1, SumsGrow
  <2> QED BY <1>2, <2>1, <2>2
<1>3. \A k \in 0 .. n : k \in T
  <2> HIDE DEF T
  <2> QED BY <1>0, <1>1, <1>2, Climb
<1> QED BY <1>0, <1>3

\* What has parts that are not empty is not empty.
LEMMA TotalIsPositive ==
  ASSUME NEW lengths \in Seq(Nat \ {0}), lengths # <<>>
  PROVE  Total(lengths) \in Nat \ {0}
<1>1. lengths \in Seq(Nat) /\ Len(lengths) \in 1 .. Len(lengths) /\ Len(lengths) \in Nat
  BY SeqMonotonic
<1>2. lengths[Len(lengths)] \in Nat \ {0}
  BY <1>1
<1>3. Len(lengths) - 1 \in 0 .. Len(lengths)
  BY <1>1
<1>4. Sums(lengths)[Len(lengths) - 1] \in Nat
  BY <1>1, <1>3, SumsGrow
<1>5. Total(lengths) = Sums(lengths)[Len(lengths) - 1] + lengths[Len(lengths)]
  BY <1>1, SumsGrow DEF Total
<1> QED BY <1>2, <1>4, <1>5

-----------------------------------------------------------------------------
(* Chunking: parts and what is joined of them.                             *)

\* The tokens of a buffer and one more part.
LEMMA TokensOfMore ==
  ASSUME NEW parts \in Seq(Seq(Nat)), NEW part \in Seq(Nat)
  PROVE  /\ Tokens(parts) \in Nat
         /\ Tokens(Append(parts, part)) = Tokens(parts) + Len(part)
<1> DEFINE more == Append(parts, part)
           s == [i \in DOMAIN parts |-> Len(parts[i])]
           t == [i \in DOMAIN more |-> Len(more[i])]
<1>0. Len(parts) \in Nat /\ DOMAIN parts = 1 .. Len(parts)
  OBVIOUS
<1>1. /\ more \in Seq(Seq(Nat)) /\ Len(more) = Len(parts) + 1
      /\ \A i \in 1 .. Len(parts) : more[i] = parts[i]
      /\ more[Len(parts) + 1] = part
  BY AppendProperties
<1>2. s \in Seq(Nat) /\ Len(s) = Len(parts)
  <2>1. \A i \in 1 .. Len(parts) : Len(parts[i]) \in Nat
    BY ElementOfSeq, LenProperties
  <2> QED BY <1>0, <2>1
<1>3. t \in Seq(Nat) /\ Len(t) = Len(parts) + 1
  <2> HIDE DEF more
  <2>1. \A i \in 1 .. Len(more) : Len(more[i]) \in Nat
    BY <1>1, ElementOfSeq, LenProperties
  <2> QED BY <1>0, <1>1, <2>1
<1>4. \A i \in 1 .. Len(parts) : s[i] = t[i]
  BY <1>0, <1>1
<1>5. t[Len(parts) + 1] = Len(part)
  BY <1>0, <1>1
<1>6. Tokens(parts) = Sums(s)[Len(parts)] /\ Tokens(more) = Sums(t)[Len(parts) + 1]
  BY <1>2, <1>3 DEF Tokens, Total
<1> HIDE DEF s, t, more
<1>7. Sums(s)[Len(parts)] = Sums(t)[Len(parts)]
  <2>1. Len(parts) \in 0 .. Len(s) /\ Len(parts) <= Len(t)
    BY <1>0, <1>2, <1>3
  <2> QED BY <1>2, <1>3, <1>4, <2>1, SumsOfPrefix
<1>8. Sums(t)[Len(parts) + 1] = Sums(t)[Len(parts)] + Len(part)
  <2>1. Len(parts) + 1 \in 1 .. Len(t) /\ (Len(parts) + 1) - 1 = Len(parts)
    BY <1>0, <1>3
  <2> QED BY <1>3, <1>5, <2>1, SumsGrow
<1>9. Sums(s)[Len(parts)] \in Nat
  BY <1>0, <1>2, SumsGrow
<1> QED BY <1>6, <1>7, <1>8, <1>9 DEF more

\* There are none in an empty buffer, and a single part's are its own.
LEMMA TokensOfOne ==
  ASSUME NEW part \in Seq(Nat)
  PROVE  Tokens(<<>>) = 0 /\ Tokens(<<part>>) = Len(part)
<1>1. <<>> \in Seq(Seq(Nat)) /\ Append(<<>>, part) = <<part>>
  OBVIOUS
<1>2. Tokens(<<>>) = 0
  <2> DEFINE s == [i \in DOMAIN <<>> |-> Len(<<>>[i])]
  <2>1. s \in Seq(Nat) /\ Len(s) = 0
    OBVIOUS
  <2>2. Tokens(<<>>) = Sums(s)[0]
    BY <2>1 DEF Tokens, Total
  <2> HIDE DEF s
  <2> QED BY <2>1, <2>2, SumsGrow
<1>3. Len(part) \in Nat
  OBVIOUS
<1>4. Tokens(Append(<<>>, part)) = Tokens(<<>>) + Len(part)
  BY <1>1, TokensOfMore
<1> QED BY <1>1, <1>2, <1>3, <1>4

\* What Joined computes, part by part.
LEMMA JoinedGrows ==
  ASSUME NEW parts \in Seq(Seq(Nat)), parts # <<>>
  PROVE  \E g : /\ Joined(parts) = g[Len(parts)]
                /\ g[1] = parts[1]
                /\ \A n \in 2 .. Len(parts) : g[n] = g[n - 1] \o <<Gap>> \o parts[n]
<1> DEFINE L == Len(parts)
           at(g, k) == IF k = 1 THEN parts[1] ELSE g[k - 1] \o <<Gap>> \o parts[k]
           upTo(g, n) == g = [k \in 1 .. n |-> at(g, k)]
           T == {n \in 0 .. L : \E g : upTo(g, n)}
<1>0. L \in Nat /\ L >= 1
  BY EmptySeq
<1>1. 0 \in T
  <2> DEFINE g == [k \in 1 .. 0 |-> <<>>]
  <2>1. upTo(g, 0)
    OBVIOUS
  <2> HIDE DEF upTo, g
  <2> QED BY <1>0, <2>1
<1>2. ASSUME NEW n \in 0 .. L, n \in T, n < L PROVE n + 1 \in T
  <2>1. PICK g : upTo(g, n)
    BY <1>2
  <2> DEFINE h == [k \in 1 .. n + 1 |-> IF k = n + 1 THEN at(g, k) ELSE g[k]]
  <2> HIDE DEF at
  <2>2. \A k \in 1 .. n : h[k] = g[k]
    BY <1>0
  <2>3. ASSUME NEW k \in 1 .. n + 1 PROVE h[k] = at(h, k)
    <3>1. k # 1 => h[k - 1] = g[k - 1]
      <4>1. k # 1 => k - 1 \in 1 .. n
        BY <1>0
      <4> QED BY <2>2, <4>1
    <3>2. at(h, k) = at(g, k)
      <4> HIDE DEF h
      <4> QED BY <1>0, <3>1 DEF at
    <3>3. k # n + 1 => k \in 1 .. n
      BY <1>0
    <3>4. k \in 1 .. n => g[k] = at(g, k)
      BY <2>1
    <3> QED BY <1>0, <3>2, <3>3, <3>4
  <2>4. upTo(h, n + 1)
    <3> HIDE DEF h
    <3>1. h = [k \in 1 .. n + 1 |-> h[k]]
      BY DEF h
    <3> QED BY <2>3, <3>1
  <2> HIDE DEF upTo, h
  <2> QED BY <1>0, <1>2, <2>4
<1>3. \E g : upTo(g, L)
  <2> HIDE DEF T, L
  <2>1. \A k \in 0 .. L : k \in T
    BY <1>0, <1>1, <1>2, Climb
  <2>2. L \in T
    BY <1>0, <2>1
  <2> QED BY <2>2 DEF T
<1> DEFINE f == CHOOSE g : upTo(g, L)
<1>4. Joined(parts) = f[L]
  BY DEF Joined
<1>5. upTo(f, L)
  BY <1>3
<1> HIDE DEF f, at
<1>6. \A n \in 1 .. L : f[n] = at(f, n)
  BY <1>5
<1>7. f[1] = parts[1]
  <2>1. 1 \in 1 .. L
    BY <1>0
  <2> QED BY <1>6, <2>1 DEF at
<1>8. ASSUME NEW n \in 2 .. L PROVE f[n] = f[n - 1] \o <<Gap>> \o parts[n]
  <2>1. n \in 1 .. L /\ n # 1
    BY <1>0
  <2> QED BY <1>6, <2>1 DEF at
<1> QED BY <1>4, <1>7, <1>8

\* So one more part comes after a blank line, if it is not the first.
LEMMA JoinedOfMore ==
  ASSUME NEW parts \in Seq(Seq(Nat)), NEW part \in Seq(Nat)
  PROVE  Joined(Append(parts, part)) =
           IF parts = <<>> THEN part ELSE Joined(parts) \o <<Gap>> \o part
<1> DEFINE more == Append(parts, part)
<1>0. Len(parts) \in Nat /\ (Len(parts) = 0 <=> parts = <<>>)
  BY EmptySeq
<1>1. /\ more \in Seq(Seq(Nat)) /\ Len(more) = Len(parts) + 1
      /\ \A i \in 1 .. Len(parts) : more[i] = parts[i]
      /\ more[Len(parts) + 1] = part
  BY AppendProperties
<1> HIDE DEF more
<1>3. PICK h : /\ Joined(more) = h[Len(more)]
               /\ h[1] = more[1]
               /\ \A n \in 2 .. Len(more) : h[n] = h[n - 1] \o <<Gap>> \o more[n]
  <2>1. more # <<>>
    BY AppendProperties DEF more
  <2> QED BY <1>1, <2>1, JoinedGrows
<1>4. CASE parts = <<>>
  BY <1>0, <1>1, <1>3, <1>4 DEF more
<1>5. CASE parts # <<>>
  <2>0. PICK g : /\ Joined(parts) = g[Len(parts)]
                 /\ g[1] = parts[1]
                 /\ \A n \in 2 .. Len(parts) : g[n] = g[n - 1] \o <<Gap>> \o parts[n]
    BY <1>5, JoinedGrows
  <2> DEFINE T == {n \in 0 .. Len(parts) : n = 0 \/ g[n] = h[n]}
  <2>1. 0 \in T
    BY <1>0
  <2>2. ASSUME NEW n \in 0 .. Len(parts), n \in T, n < Len(parts) PROVE n + 1 \in T
    <3>1. CASE n = 0
      BY <1>0, <1>1, <1>3, <1>5, <2>0, <3>1
    <3>2. CASE n # 0
      <4>1. /\ n + 1 \in 2 .. Len(parts) /\ n + 1 \in 2 .. Len(more) /\ (n + 1) - 1 = n
            /\ more[n + 1] = parts[n + 1]
        BY <1>0, <1>1, <2>2, <3>2
      <4>2. g[n + 1] = g[n] \o <<Gap>> \o parts[n + 1]
        BY <2>0, <4>1
      <4>3. h[n + 1] = h[n] \o <<Gap>> \o parts[n + 1]
        BY <1>3, <4>1
      <4>4. g[n] = h[n]
        BY <2>2, <3>2
      <4>5. g[n + 1] = h[n + 1]
        BY <4>2, <4>3, <4>4
      <4> QED BY <4>1, <4>5, <1>0
    <3> QED BY <3>1, <3>2
  <2>3. \A n \in 0 .. Len(parts) : n \in T
    <3> HIDE DEF T
    <3> QED BY <1>0, <2>1, <2>2, Climb
  <2>4. g[Len(parts)] = h[Len(parts)]
    BY <1>0, <1>5, <2>3
  <2>5. Len(more) \in 2 .. Len(more) /\ Len(more) - 1 = Len(parts) /\ more[Len(more)] = part
    BY <1>0, <1>1, <1>5
  <2>6. h[Len(more)] = h[Len(parts)] \o <<Gap>> \o part
    BY <1>3, <2>5
  <2> QED BY <1>3, <1>5, <2>0, <2>4, <2>6 DEF more
<1> QED BY <1>4, <1>5

\* Nothing is joined of nothing, and a single part is left as it is.
LEMMA JoinedOfOne ==
  ASSUME NEW part \in Seq(Nat)
  PROVE  Joined(<<>>) = <<>> /\ Joined(<<part>>) = part
<1>1. <<>> \in Seq(Seq(Nat)) /\ Append(<<>>, part) = <<part>> /\ Len(<<>>) = 0
  OBVIOUS
<1>2. Joined(<<>>) = <<>>
  BY DEF Joined
<1>3. Joined(Append(<<>>, part)) = part
  BY <1>1, JoinedOfMore
<1> QED BY <1>1, <1>2, <1>3

-----------------------------------------------------------------------------
(* Chunking: stretches of the text.                                        *)

\* The tokens of a sequence.
LEMMA WordsAreItsTokens ==
  ASSUME NEW c \in Seq(Nat)
  PROVE  /\ Len(c) \in Nat /\ DOMAIN c = 1 .. Len(c)
         /\ \A i \in 1 .. Len(c) : c[i] \in Nat /\ (c[i] # Gap => c[i] \in Words(c))
         /\ \A w \in Words(c) : w # Gap /\ \E i \in 1 .. Len(c) : c[i] = w
         /\ c # <<>> => Len(c) >= 1 /\ Last(c) = c[Len(c)]
<1>1. Len(c) \in Nat /\ DOMAIN c = 1 .. Len(c) /\ \A i \in 1 .. Len(c) : c[i] \in Nat
  OBVIOUS
<1>2. c # <<>> => Len(c) >= 1
  BY EmptySeq
<1> QED BY <1>1, <1>2 DEF Words, ToSet, Last

\* A stretch begins with its least token and ends with its greatest.
LEMMA StretchEnds ==
  ASSUME NEW c, IsStretch(c)
  PROVE  /\ c \in Seq(Nat) /\ Len(c) \in Nat \ {0} /\ Last(c) = c[Len(c)]
         /\ c[1] \in Nat \ {0} /\ c[Len(c)] \in Nat \ {0} /\ c[1] <= c[Len(c)]
<1>1. c \in Seq(Nat) /\ c # <<>> /\ c[1] # 0 /\ c[Len(c)] # 0 /\ Words(c) = c[1] .. c[Len(c)]
  BY DEF IsStretch, Gap
<1>2. Len(c) \in Nat /\ Len(c) >= 1 /\ Last(c) = c[Len(c)]
  BY <1>1, WordsAreItsTokens
<1>3. 1 \in 1 .. Len(c) /\ Len(c) \in 1 .. Len(c)
  BY <1>2
<1>4. c[1] \in Nat /\ c[Len(c)] \in Nat /\ c[1] \in Words(c)
  BY <1>1, <1>3, WordsAreItsTokens DEF Gap
<1> QED BY <1>1, <1>2, <1>4

\* The next n tokens are a stretch.
LEMMA NextIsStretch ==
  ASSUME NEW m \in Nat, NEW n \in Nat \ {0}
  PROVE  LET u == [i \in 1 .. n |-> m + i] IN
         /\ IsStretch(u) /\ Len(u) = n /\ u[1] = m + 1 /\ u[n] = m + n
<1> DEFINE u == [i \in 1 .. n |-> m + i]
<1>1. /\ u \in Seq(Nat) /\ Len(u) = n /\ DOMAIN u = 1 .. n /\ u # <<>>
      /\ \A i \in 1 .. n : u[i] = m + i
  OBVIOUS
<1> HIDE DEF u
<1>2. u[1] = m + 1 /\ u[n] = m + n
  BY <1>1
<1>3. Words(u) = (m + 1) .. (m + n)
  <2>1. ASSUME NEW w \in Words(u) PROVE w \in (m + 1) .. (m + n)
    <3>1. PICK i \in 1 .. n : u[i] = w
      BY <1>1, WordsAreItsTokens
    <3> QED BY <1>1, <3>1
  <2>2. ASSUME NEW w \in (m + 1) .. (m + n) PROVE w \in Words(u)
    <3>1. w - m \in 1 .. n /\ m + (w - m) = w /\ w # Gap
      BY DEF Gap
    <3>2. u[w - m] = w
      BY <1>1, <3>1
    <3> QED BY <1>1, <3>1, <3>2, WordsAreItsTokens
  <2> QED BY <2>1, <2>2
<1>4. \A i \in 1 .. n : u[i] # Gap
  BY <1>1 DEF Gap
<1>5. \A i, j \in 1 .. n : i < j => u[i] < u[j]
  BY <1>1
<1>6. u[1] # Gap /\ u[n] # Gap
  BY <1>2 DEF Gap
<1>7. IsStretch(u)
  BY <1>1, <1>2, <1>3, <1>4, <1>5, <1>6 DEF IsStretch
<1> QED BY <1>1, <1>2, <1>7 DEF u

\* What goes on where a stretch ends makes one with it.
LEMMA StretchGoesOn ==
  ASSUME NEW c, IsStretch(c), NEW u, IsStretch(u), u[1] = c[Len(c)] + 1
  PROVE  LET d == c \o <<Gap>> \o u IN
         /\ IsStretch(d) /\ d[1] = c[1] /\ d[Len(d)] = u[Len(u)]
<1> DEFINE d == c \o <<Gap>> \o u
           L == Len(c)
           M == Len(u)
<1>0. c \in Seq(Nat) /\ u \in Seq(Nat) /\ Gap \in Nat /\ <<Gap>> \in Seq(Nat)
  BY StretchEnds DEF Gap
<1>1. /\ L \in Nat \ {0} /\ M \in Nat \ {0}
      /\ c[1] \in Nat \ {0} /\ c[L] \in Nat \ {0} /\ c[1] <= c[L]
      /\ u[1] \in Nat \ {0} /\ u[M] \in Nat \ {0} /\ u[1] <= u[M]
  BY StretchEnds
<1>2. /\ d \in Seq(Nat) /\ Len(d) = L + 1 + M
      /\ \A i \in 1 .. L : d[i] = c[i]
      /\ d[L + 1] = Gap
      /\ \A i \in 1 .. M : d[L + 1 + i] = u[i]
  <2> DEFINE e == c \o <<Gap>>
  <2>1. /\ e \in Seq(Nat) /\ Len(e) = L + 1
        /\ \A i \in 1 .. L + 1 : e[i] = IF i <= L THEN c[i] ELSE <<Gap>>[i - L]
    <3>1. Len(<<Gap>>) = 1
      OBVIOUS
    <3> QED BY <1>0, <3>1, ConcatProperties
  <2>2. d = e \o u
    OBVIOUS
  <2> HIDE DEF e, d
  <2>3. /\ d \in Seq(Nat) /\ Len(d) = Len(e) + M
        /\ \A i \in 1 .. Len(e) + M : d[i] = IF i <= Len(e) THEN e[i] ELSE u[i - Len(e)]
    BY <1>0, <2>1, <2>2, ConcatProperties
  <2>4. e[L + 1] = Gap /\ \A i \in 1 .. L : e[i] = c[i]
    BY <1>1, <2>1
  <2>5. ASSUME NEW i \in 1 .. L + 1 PROVE d[i] = e[i]
    <3>1. i \in 1 .. Len(e) + M /\ i <= Len(e)
      BY <1>1, <2>1
    <3> QED BY <2>3, <3>1
  <2>6. ASSUME NEW i \in 1 .. M PROVE d[L + 1 + i] = u[i]
    <3>1. /\ L + 1 + i \in 1 .. Len(e) + M /\ ~(L + 1 + i <= Len(e))
          /\ (L + 1 + i) - Len(e) = i
      BY <1>1, <2>1
    <3> QED BY <2>3, <3>1
  <2>7. Len(d) = L + 1 + M
    BY <2>1, <2>3
  <2>8. \A i \in 1 .. L : d[i] = c[i]
    <3>1. \A i \in 1 .. L : i \in 1 .. L + 1
      BY <1>1
    <3> QED BY <2>4, <2>5, <3>1
  <2>9. d[L + 1] = Gap
    <3>1. L + 1 \in 1 .. L + 1
      BY <1>1
    <3> QED BY <2>4, <2>5, <3>1
  <2> QED BY <2>3, <2>6, <2>7, <2>8, <2>9
<1> HIDE DEF d
<1>3. Len(d) \in Nat /\ DOMAIN d = 1 .. Len(d) /\ d # <<>>
  BY <1>1, <1>2, EmptySeq
<1>4. /\ d[1] = c[1] /\ d[Len(d)] = u[M]
  <2>1. 1 \in 1 .. L /\ M \in 1 .. M
    BY <1>1
  <2> QED BY <1>2, <2>1
<1>5. \A i \in 1 .. Len(d) : i \in 1 .. L \/ i = L + 1 \/ (i - (L + 1) \in 1 .. M /\ L + 1 + (i - (L + 1)) = i)
  BY <1>1, <1>2
<1>6. Words(c) = c[1] .. c[L] /\ Words(u) = u[1] .. u[M]
  BY DEF IsStretch
<1>7. Words(d) = c[1] .. u[M]
  <2>1. ASSUME NEW w \in Words(d) PROVE w \in Words(c) \/ w \in Words(u)
    <3>1. PICK i \in 1 .. Len(d) : d[i] = w /\ w # Gap
      BY <1>2, WordsAreItsTokens
    <3>2. CASE i \in 1 .. L
      BY <1>0, <1>2, <3>1, <3>2, WordsAreItsTokens
    <3>3. CASE i - (L + 1) \in 1 .. M /\ L + 1 + (i - (L + 1)) = i
      <4>1. u[i - (L + 1)] = w
        BY <1>2, <3>1, <3>3
      <4> QED BY <1>0, <3>1, <3>3, <4>1, WordsAreItsTokens
    <3> QED BY <1>2, <1>5, <3>1, <3>2, <3>3
  <2>2. ASSUME NEW w \in Words(c) PROVE w \in Words(d)
    <3>1. PICK i \in 1 .. L : c[i] = w /\ w # Gap
      BY <1>0, WordsAreItsTokens
    <3>2. i \in 1 .. Len(d) /\ d[i] = w
      BY <1>1, <1>2, <3>1
    <3> QED BY <1>2, <3>1, <3>2, WordsAreItsTokens
  <2>3. ASSUME NEW w \in Words(u) PROVE w \in Words(d)
    <3>1. PICK i \in 1 .. M : u[i] = w /\ w # Gap
      BY <1>0, WordsAreItsTokens
    <3>2. L + 1 + i \in 1 .. Len(d) /\ d[L + 1 + i] = w
      BY <1>1, <1>2, <3>1
    <3> QED BY <1>2, <3>1, <3>2, WordsAreItsTokens
  <2>4. \A w : w \in c[1] .. u[M] <=> w \in c[1] .. c[L] \/ w \in u[1] .. u[M]
    BY <1>1
  <2> QED BY <1>6, <2>1, <2>2, <2>3, <2>4
<1>8. ASSUME NEW i \in 1 .. Len(d), NEW j \in 1 .. Len(d), i < j, d[i] # Gap, d[j] # Gap
      PROVE  d[i] < d[j]
  <2>0. /\ \A k, l \in 1 .. L : k < l /\ c[k] # Gap /\ c[l] # Gap => c[k] < c[l]
        /\ \A k, l \in 1 .. M : k < l /\ u[k] # Gap /\ u[l] # Gap => u[k] < u[l]
    BY <1>0, WordsAreItsTokens DEF IsStretch
  <2>1. \A k \in 1 .. L : c[k] # Gap => c[k] \in c[1] .. c[L]
    BY <1>0, <1>6, WordsAreItsTokens
  <2>2. \A k \in 1 .. M : u[k] # Gap => u[k] \in u[1] .. u[M]
    BY <1>0, <1>6, WordsAreItsTokens
  <2>3. CASE j \in 1 .. L
    <3>1. i \in 1 .. L
      BY <1>1, <1>8, <2>3
    <3> QED BY <1>2, <1>8, <2>0, <2>3, <3>1
  <2>4. CASE j - (L + 1) \in 1 .. M /\ L + 1 + (j - (L + 1)) = j
    <3>1. d[j] = u[j - (L + 1)]
      BY <1>2, <2>4
    <3>2. CASE i \in 1 .. L
      <4>1. d[i] \in c[1] .. c[L]
        BY <1>2, <1>8, <2>1, <3>2
      <4>2. d[j] \in u[1] .. u[M]
        BY <1>8, <2>2, <2>4, <3>1
      <4> QED BY <1>1, <4>1, <4>2
    <3>3. CASE i - (L + 1) \in 1 .. M /\ L + 1 + (i - (L + 1)) = i
      <4>1. d[i] = u[i - (L + 1)]
        BY <1>2, <3>3
      <4>2. i - (L + 1) < j - (L + 1)
        BY <1>1, <1>8
      <4> QED BY <1>8, <2>0, <2>4, <3>1, <3>3, <4>1, <4>2
    <3> QED BY <1>2, <1>5, <1>8, <3>2, <3>3
  <2> QED BY <1>2, <1>5, <1>8, <2>3, <2>4
<1>9. ASSUME NEW i \in 1 .. Len(d), d[i] = Gap PROVE d[i + 1] # Gap
  <2>0. /\ \A k \in 1 .. L : c[k] = Gap => c[k + 1] # Gap
        /\ \A k \in 1 .. M : u[k] = Gap => u[k + 1] # Gap
        /\ c[L] # Gap /\ u[M] # Gap /\ u[1] # Gap
    BY <1>0, WordsAreItsTokens DEF IsStretch
  <2>1. CASE i \in 1 .. L
    <3>1. c[i] = Gap /\ i # L
      BY <1>2, <1>9, <2>0, <2>1
    <3>2. i + 1 \in 1 .. L
      BY <1>1, <2>1, <3>1
    <3> QED BY <1>2, <2>0, <2>1, <3>1, <3>2
  <2>2. CASE i = L + 1
    <3>1. 1 \in 1 .. M /\ L + 1 + 1 = i + 1
      BY <1>1, <2>2
    <3> QED BY <1>2, <2>0, <3>1
  <2>3. CASE i - (L + 1) \in 1 .. M /\ L + 1 + (i - (L + 1)) = i
    <3>1. PICK k \in 1 .. M : L + 1 + k = i
      BY <2>3
    <3>2. u[k] = Gap /\ k # M
      BY <1>2, <1>9, <2>0, <3>1
    <3>3. k + 1 \in 1 .. M /\ L + 1 + (k + 1) = i + 1
      BY <1>1, <3>1, <3>2
    <3>4. d[L + 1 + (k + 1)] = u[k + 1]
      BY <1>2, <3>3
    <3>5. u[k + 1] # Gap
      BY <2>0, <3>2
    <3> QED BY <3>3, <3>4, <3>5
  <2> QED BY <1>5, <2>1, <2>2, <2>3
<1>10. IsStretch(d)
  <2>1. d[1] # Gap /\ d[Len(d)] # Gap
    BY <1>1, <1>4 DEF Gap
  <2> QED BY <1>2, <1>3, <1>4, <1>7, <1>8, <1>9, <2>1 DEF IsStretch
<1> QED BY <1>4, <1>10 DEF d

\* The end of a stretch is one too, if it does not begin with a blank line.
LEMMA EndIsStretch ==
  ASSUME NEW c, IsStretch(c), NEW k \in 1 .. Len(c), c[k] # Gap
  PROVE  LET s == SubSeq(c, k, Len(c)) IN
         /\ IsStretch(s) /\ Len(s) = Len(c) - k + 1
         /\ s[1] = c[k] /\ s[Len(s)] = c[Len(c)]
<1> DEFINE L == Len(c)
           s == SubSeq(c, k, L)
           M == L - k + 1
<1>0. /\ c \in Seq(Nat) /\ L \in Nat \ {0} /\ M \in Nat \ {0} /\ DOMAIN c = 1 .. L
      /\ k \in Nat
  BY StretchEnds
<1>1. /\ s \in Seq(Nat) /\ Len(s) = M
      /\ \A i \in 1 .. M : s[i] = c[k + i - 1]
  <2>1. \A i \in k .. L : c[i] \in Nat
    BY <1>0
  <2>2. /\ SubSeq(c, k, L) \in Seq(Nat)
        /\ Len(SubSeq(c, k, L)) = IF k <= L THEN L - k + 1 ELSE 0
        /\ \A i \in 1 .. L - k + 1 : SubSeq(c, k, L)[i] = c[k + i - 1]
    BY <1>0, <2>1, SubSeqProperties
  <2> QED BY <1>0, <2>2
<1> HIDE DEF s
<1>2. DOMAIN s = 1 .. M /\ s # <<>>
  BY <1>0, <1>1, EmptySeq
<1>3. s[1] = c[k] /\ s[M] = c[L]
  <2>1. 1 \in 1 .. M /\ M \in 1 .. M /\ k + 1 - 1 = k /\ k + M - 1 = L
    BY <1>0
  <2> QED BY <1>1, <2>1
<1>4. \A i \in 1 .. M : k + i - 1 \in 1 .. L
  BY <1>0
<1>5. \A i \in k .. L : i - k + 1 \in 1 .. M /\ k + (i - k + 1) - 1 = i
  BY <1>0
<1>6. /\ Words(c) = c[1] .. c[L] /\ c[L] # Gap
      /\ \A i, j \in 1 .. L : i < j /\ c[i] # Gap /\ c[j] # Gap => c[i] < c[j]
      /\ \A i \in 1 .. L : c[i] = Gap => c[i + 1] # Gap
  BY <1>0 DEF IsStretch
<1>7. c[1] \in Nat /\ c[k] \in Nat /\ c[L] \in Nat /\ c[1] <= c[k]
  <2>1. c[k] \in Words(c)
    BY <1>0, WordsAreItsTokens
  <2> QED BY <1>6, <2>1, StretchEnds
<1>8. Words(s) = c[k] .. c[L]
  <2>1. ASSUME NEW w \in Words(s) PROVE w \in c[k] .. c[L]
    <3>1. PICK i \in 1 .. M : s[i] = w /\ w # Gap
      BY <1>1, WordsAreItsTokens
    <3>2. k + i - 1 \in 1 .. L /\ c[k + i - 1] = w
      BY <1>1, <1>4, <3>1
    <3>3. w \in c[1] .. c[L]
      BY <1>0, <1>6, <3>1, <3>2, WordsAreItsTokens
    <3>4. k = k + i - 1 \/ k < k + i - 1
      BY <1>0, <3>1
    <3>5. k < k + i - 1 => c[k] < w
      BY <1>6, <3>1, <3>2
    <3>6. c[k] <= w
      BY <1>7, <3>2, <3>3, <3>4, <3>5
    <3> QED BY <1>7, <3>3, <3>6
  <2>2. ASSUME NEW w \in c[k] .. c[L] PROVE w \in Words(s)
    <3>1. w \in Words(c)
      BY <1>6, <1>7
    <3>2. PICK i \in 1 .. L : c[i] = w /\ w # Gap
      BY <1>0, <3>1, WordsAreItsTokens
    <3>3. ~(i < k)
      BY <1>6, <1>7, <3>2
    <3>4. i \in k .. L
      BY <1>0, <3>3
    <3>5. i - k + 1 \in 1 .. M /\ s[i - k + 1] = w
      BY <1>1, <1>5, <3>2, <3>4
    <3> QED BY <1>1, <3>2, <3>5, WordsAreItsTokens
  <2> QED BY <2>1, <2>2
<1>9. ASSUME NEW i \in 1 .. M, NEW j \in 1 .. M, i < j, s[i] # Gap, s[j] # Gap
      PROVE  s[i] < s[j]
  <2>1. k + i - 1 < k + j - 1
    BY <1>0, <1>9
  <2> QED BY <1>1, <1>4, <1>6, <1>9, <2>1
<1>10. ASSUME NEW i \in 1 .. M, s[i] = Gap PROVE s[i + 1] # Gap
  <2>1. k + i - 1 \in 1 .. L /\ c[k + i - 1] = Gap
    BY <1>1, <1>4, <1>10
  <2>2. k + i - 1 # L /\ c[(k + i - 1) + 1] # Gap
    BY <1>6, <2>1
  <2>3. i + 1 \in 1 .. M /\ k + (i + 1) - 1 = (k + i - 1) + 1
    BY <1>0, <2>2
  <2>4. s[i + 1] = c[(k + i - 1) + 1]
    BY <1>1, <2>3
  <2> QED BY <2>2, <2>4
<1>11. IsStretch(s)
  BY <1>1, <1>2, <1>3, <1>6, <1>8, <1>9, <1>10 DEF IsStretch
<1> QED BY <1>1, <1>3, <1>11 DEF s

\* A stretch has at most as many tokens of the text as it is long.
LEMMA StretchIsAsLong ==
  ASSUME NEW c, IsStretch(c)
  PROVE  c[Len(c)] < c[1] + Len(c)
<1> DEFINE L == Len(c)
           W == c[1] .. c[L]
           at == [w \in W |-> CHOOSE i \in 1 .. L : c[i] = w]
<1>1. /\ c \in Seq(Nat) /\ L \in Nat \ {0} /\ c[1] \in Nat /\ c[L] \in Nat /\ c[1] <= c[L]
      /\ Words(c) = W
  BY StretchEnds DEF IsStretch
<1>2. ASSUME NEW w \in W PROVE at[w] \in 1 .. L /\ c[at[w]] = w
  <2>1. \E i \in 1 .. L : c[i] = w
    BY <1>1, WordsAreItsTokens
  <2> QED BY <2>1
<1>3. at \in [W -> 1 .. L]
  BY <1>2
<1> HIDE DEF at
<1>4. at \in Injection(W, 1 .. L)
  <2>1. \A w, v \in W : at[w] = at[v] => w = v
    BY <1>2
  <2> HIDE DEF W, L
  <2> QED BY <1>3, <2>1 DEF Injection, IsInjective
<1>5. /\ IsFiniteSet(1 .. L) /\ Cardinality(1 .. L) = L
      /\ Cardinality(W) = c[L] - c[1] + 1
  <2>1. \A i, j \in Int : /\ IsFiniteSet(i .. j)
                          /\ Cardinality(i .. j) = IF i > j THEN 0 ELSE j - i + 1
    BY FS_Interval
  <2>2. ~(1 > L) /\ ~(c[1] > c[L]) /\ 1 \in Int /\ L \in Int /\ c[1] \in Int /\ c[L] \in Int
        /\ L - 1 + 1 = L
    BY <1>1
  <2> QED BY <2>1, <2>2
<1>6. Cardinality(W) <= Cardinality(1 .. L)
  <2> HIDE DEF W, L
  <2> QED BY <1>4, <1>5, FS_Injection
<1> QED BY <1>1, <1>5, <1>6

-----------------------------------------------------------------------------
(* Chunking: overlaps.                                                     *)

\* _find_clean_boundary cuts a part off the front, and never down to a blank line.
LEMMA CleanBoundaryIsAnEnd ==
  ASSUME NEW c, IsStretch(c), NEW k \in 1 .. Len(c)
  PROVE  \E m \in k .. Len(c) :
           c[m] # Gap /\ CleanBoundary(SubSeq(c, k, Len(c))) = SubSeq(c, m, Len(c))
<1> DEFINE L == Len(c)
           M == L - k + 1
<1>0. c \in Seq(Nat) /\ L \in Nat \ {0} /\ M \in Nat \ {0} /\ k \in Nat /\ DOMAIN c = 1 .. L
  BY StretchEnds
<1>1. PICK tail : tail = SubSeq(c, k, L)
  OBVIOUS
<1>2. /\ tail \in Seq(Nat) /\ Len(tail) = M /\ DOMAIN tail = 1 .. M
      /\ \A i \in 1 .. M : tail[i] = c[k + i - 1]
  <2>1. \A i \in k .. L : c[i] \in Nat
    BY <1>0
  <2>2. /\ SubSeq(c, k, L) \in Seq(Nat)
        /\ Len(SubSeq(c, k, L)) = IF k <= L THEN L - k + 1 ELSE 0
        /\ \A i \in 1 .. L - k + 1 : SubSeq(c, k, L)[i] = c[k + i - 1]
    BY <1>0, <2>1, SubSeqProperties
  <2>3. tail \in Seq(Nat) /\ Len(tail) = M /\ \A i \in 1 .. M : tail[i] = c[k + i - 1]
    BY <1>0, <1>1, <2>2
  <2> QED BY <2>3, LenProperties
<1>3. c[L] # Gap /\ \A i \in 1 .. L : c[i] = Gap => c[i + 1] # Gap
  BY <1>0 DEF IsStretch
<1>4. \A i \in 1 .. M : k + i - 1 \in 1 .. L /\ k + i - 1 \in k .. L
  BY <1>0
<1> DEFINE gaps == {i \in DOMAIN tail : tail[i] = Gap}
           ends == {i \in 1..Len(tail) - 1 : tail[i] \in SentenceEnds}
           boundaries == IF gaps # {} THEN gaps ELSE ends
<1>5. CleanBoundary(tail) =
        IF boundaries = {} THEN tail ELSE SubSeq(tail, Min(boundaries) + 1, Len(tail))
  BY DEF CleanBoundary
<1>6. CASE boundaries = {}
  <2>1. gaps = {} /\ CleanBoundary(tail) = tail
    BY <1>5, <1>6
  <2>2. tail[1] # Gap /\ tail[1] = c[k]
    <3>1. 1 \in 1 .. M /\ k + 1 - 1 = k
      BY <1>0
    <3>2. tail[1] # Gap
      BY <1>2, <2>1, <3>1
    <3> QED BY <1>2, <3>1, <3>2
  <2>3. k \in k .. L
    BY <1>0
  <2> QED BY <1>1, <2>1, <2>2, <2>3
<1>7. CASE boundaries # {}
  <2>1. PICK b : b = Min(boundaries)
    OBVIOUS
  <2>2. b \in boundaries
    <3>1. boundaries \subseteq Nat
      BY <1>0, <1>2
    <3> HIDE DEF boundaries
    <3> QED BY <1>7, <2>1, <3>1, MinIsLeast
  <2>3. b \in 1 .. M /\ b < M /\ c[k + b] # Gap
    <3>1. CASE gaps # {}
      <4>1. b \in 1 .. M /\ tail[b] = Gap
        BY <1>2, <2>2, <3>1
      <4>2. k + b - 1 \in 1 .. L /\ c[k + b - 1] = Gap /\ k + b - 1 + 1 = k + b
        BY <1>0, <1>2, <1>4, <4>1
      <4>3. c[k + b] # Gap /\ k + b - 1 # L
        BY <1>3, <4>2
      <4> QED BY <1>0, <4>1, <4>3
    <3>2. CASE gaps = {}
      <4>1. b \in 1 .. M - 1
        BY <1>2, <2>2, <3>2
      <4>2. b + 1 \in 1 .. M /\ k + (b + 1) - 1 = k + b /\ b \in 1 .. M /\ b < M
        BY <1>0, <4>1
      <4>3. tail[b + 1] # Gap
        BY <1>2, <3>2, <4>2
      <4> QED BY <1>2, <4>2, <4>3
    <3> QED BY <3>1, <3>2
  <2>4. k + b \in k .. L
    BY <1>0, <2>3
  <2>5. CleanBoundary(tail) = SubSeq(tail, b + 1, M)
    BY <1>2, <1>5, <1>7, <2>1
  <2>6. SubSeq(tail, b + 1, M) = SubSeq(c, k + b, L)
    <3>1. /\ k \in 1 .. L /\ L \in 1 .. L /\ b + 1 \in 1 .. L - k + 1 /\ M \in 1 .. L - k + 1
          /\ k + (b + 1) - 1 = k + b /\ k + M - 1 = L
      BY <1>0, <2>3
    <3>2. SubSeq(SubSeq(c, k, L), b + 1, M) = SubSeq(c, k + (b + 1) - 1, k + M - 1)
      <4> HIDE DEF M, L
      <4>1. \A s, t \in Seq(Nat) : \A i, j \in 1 .. Len(s) : \A l, n \in 1 .. j - i + 1 :
              SubSeq(SubSeq(s, i, j), l, n) = SubSeq(s, i + l - 1, i + n - 1)
        BY SubSeqOfSubSeq
      <4> QED BY <1>0, <3>1, <4>1 DEF L
    <3> QED BY <1>1, <3>1, <3>2
  <2> QED BY <1>1, <2>3, <2>4, <2>5, <2>6
<1> QED BY <1>6, <1>7

\* What a chunk shares with the one before it: nothing, the whole of it if it is short,
\* or an end of it that is.
LEMMA OverlapIsAnEnd ==
  ASSUME NEW parts, IsStretch(Joined(parts)), overlap \in Nat
  PROVE  LET whole == Joined(parts) IN
         \/ OverlapOf(parts) = <<>>
         \/ OverlapOf(parts) = parts /\ Len(whole) <= overlap
         \/ \E m \in 1 .. Len(whole) :
              /\ whole[m] # Gap /\ Len(whole) - m + 1 <= overlap
              /\ OverlapOf(parts) = <<SubSeq(whole, m, Len(whole))>>
<1>1. PICK c : c = Joined(parts)
  OBVIOUS
<1> DEFINE L == Len(c)
           k == L - overlap + 1
<1>0. L \in Nat \ {0} /\ IsStretch(c)
  BY <1>1, StretchEnds
<1>2. CASE overlap = 0
  BY <1>2 DEF OverlapOf
<1>3. CASE overlap > 0 /\ L <= overlap
  <2>1. OverlapOf(parts) = parts
    BY <1>1, <1>3 DEF OverlapOf
  <2> QED BY <1>1, <1>3, <2>1
<1>4. CASE overlap > 0 /\ ~(L <= overlap)
  <2>1. OverlapOf(parts) = <<CleanBoundary(SubSeq(c, k, L))>>
    BY <1>1, <1>4 DEF OverlapOf
  <2>2. k \in 1 .. L
    BY <1>0, <1>4
  <2>3. PICK m \in k .. L : c[m] # Gap /\ CleanBoundary(SubSeq(c, k, L)) = SubSeq(c, m, L)
    <3> HIDE DEF k
    <3> QED BY <1>0, <2>2, CleanBoundaryIsAnEnd
  <2>4. m \in 1 .. L /\ L - m + 1 <= overlap
    BY <1>0, <1>4, <2>2
  <2> QED BY <1>1, <2>1, <2>3, <2>4
<1>5. overlap = 0 \/ overlap > 0
  OBVIOUS
<1> QED BY <1>2, <1>3, <1>4, <1>5

-----------------------------------------------------------------------------
(* Chunking: what is added to the buffer and to the chunks.                *)

\* A buffer that has room, or only an overlap in it, goes on with the next n tokens.
LEMMA BufferTakesMore ==
  ASSUME NEW parts \in Seq(Seq(Nat) \ {<<>>}), NEW done \in Nat, NEW m \in Nat, done <= m,
         NEW n \in Nat \ {0}, NEW most \in Nat, NEW limits, NEW l \in limits, l \in Nat,
         parts = <<>> => done = m,
         parts # <<>> => LET whole == Joined(parts) IN
           /\ IsStretch(whole) /\ whole[Len(whole)] = m
           /\ whole[1] <= done + 1 /\ done < whole[1] + most
           /\ m < whole[1] + Tokens(parts),
         \/ Tokens(parts) + n <= l
         \/ n <= l /\ (parts # <<>> => m < Joined(parts)[1] + most)
  PROVE  LET more == Append(parts, [i \in 1 .. n |-> m + i]) IN
         /\ more \in Seq(Seq(Nat) \ {<<>>}) /\ more # <<>>
         /\ BufferContinues(more, done, most, limits, m + n)
<1>1. PICK u : u = [i \in 1 .. n |-> m + i]
  OBVIOUS
<1>2. IsStretch(u) /\ Len(u) = n /\ u[1] = m + 1 /\ u[n] = m + n
  BY <1>1, NextIsStretch
<1>3. u \in Seq(Nat) /\ u # <<>>
  BY <1>2 DEF IsStretch
<1>4. PICK more : more = Append(parts, u)
  OBVIOUS
<1>5. more \in Seq(Seq(Nat) \ {<<>>}) /\ more # <<>>
  <2>1. PICK T : T = Seq(Nat) \ {<<>>}
    OBVIOUS
  <2>2. u \in T /\ parts \in Seq(T)
    BY <1>3, <2>1
  <2>3. more \in Seq(T) /\ more # <<>>
    BY <1>4, <2>2, AppendProperties
  <2> QED BY <2>1, <2>3
<1>6. parts \in Seq(Seq(Nat))
  <2>1. Seq(Nat) \ {<<>>} \subseteq Seq(Nat)
    OBVIOUS
  <2> QED BY <2>1, SeqMonotonic
<1>7. Tokens(parts) \in Nat /\ Tokens(more) = Tokens(parts) + n
  BY <1>2, <1>3, <1>4, <1>6, TokensOfMore
<1>8. PICK d : d = Joined(more)
  OBVIOUS
<1>9. d = IF parts = <<>> THEN u ELSE Joined(parts) \o <<Gap>> \o u
  BY <1>3, <1>4, <1>6, <1>8, JoinedOfMore
<1>10. ASSUME IsStretch(d), d[Len(d)] = m + n, d[1] \in Nat, d[1] <= done + 1,
              done < d[1] + most, m + n < d[1] + most + l, m + n < d[1] + Tokens(more)
       PROVE  BufferContinues(more, done, most, limits, m + n)
  <2>1. done < m + n
    OBVIOUS
  <2>2. Continues(d, done, most, limits)
    BY <1>10, <2>1 DEF Continues
  <2>3. Last(d) = m + n
    BY <1>10, StretchEnds
  <2> QED BY <1>5, <1>8, <1>10, <2>2, <2>3 DEF BufferContinues
<1>11. ASSUME parts = <<>> PROVE BufferContinues(more, done, most, limits, m + n)
  <2>1. d = u /\ Tokens(parts) = 0
    BY <1>3, <1>9, <1>11, TokensOfOne
  <2>2. done = m /\ n <= l
    BY <1>11, <2>1
  <2>3. /\ d[1] = m + 1 /\ d[Len(d)] = m + n
        /\ m + n < d[1] + most + l /\ m + n < d[1] + Tokens(more)
    BY <1>2, <1>7, <2>1, <2>2
  <2> QED BY <1>2, <1>10, <2>1, <2>2, <2>3
<1>12. ASSUME parts # <<>> PROVE BufferContinues(more, done, most, limits, m + n)
  <2>1. PICK c : c = Joined(parts)
    OBVIOUS
  <2>2. /\ IsStretch(c) /\ c[Len(c)] = m /\ c[1] <= done + 1 /\ done < c[1] + most
        /\ m < c[1] + Tokens(parts)
        /\ Tokens(parts) + n <= l \/ (n <= l /\ m < c[1] + most)
    BY <1>12, <2>1
  <2>3. c[1] \in Nat /\ d = c \o <<Gap>> \o u
    BY <1>9, <1>12, <2>1, <2>2, StretchEnds
  <2>4. IsStretch(d) /\ d[1] = c[1] /\ d[Len(d)] = m + n
    BY <1>2, <2>2, <2>3, StretchGoesOn
  <2>5. m + n < d[1] + most + l /\ m + n < d[1] + Tokens(more)
    <3>1. PICK t \in Nat : t = Tokens(parts)
      BY <1>7
    <3>2. PICK f \in Nat : f = c[1]
      BY <2>3
    <3>3. m < f + t /\ (t + n <= l \/ (n <= l /\ m < f + most))
      BY <2>2, <3>1, <3>2
    <3>4. m + n < f + most + l /\ m + n < f + (t + n)
      BY <3>3
    <3> QED BY <1>7, <2>4, <3>1, <3>2, <3>4
  <2> QED BY <1>10, <2>2, <2>3, <2>4, <2>5
<1> QED BY <1>1, <1>4, <1>5, <1>11, <1>12

\* Where chunks end is a number.
LEMMA ChunksEnd ==
  ASSUME NEW cs \in Seq(Seq(Nat) \ {<<>>}), NEW most, NEW limits, AreChained(cs, most, limits)
  PROVE  /\ EndOf(cs) \in Nat
         /\ cs # <<>> => EndOf(cs) = Last(cs[Len(cs)])
         /\ Len(cs) \in Nat /\ DOMAIN cs = 1 .. Len(cs) /\ (cs # <<>> <=> Len(cs) >= 1)
<1>1. Len(cs) \in Nat /\ DOMAIN cs = 1 .. Len(cs) /\ (cs # <<>> <=> Len(cs) >= 1)
  BY EmptySeq
<1>2. CASE cs # <<>>
  <2>1. EndOf(cs) = Last(cs[Len(cs)])
    BY <1>2 DEF EndOf, Last
  <2>2. IsStretch(cs[Len(cs)])
    BY <1>1, <1>2 DEF AreChained, Continues
  <2> QED BY <1>1, <2>1, <2>2, StretchEnds
<1> QED BY <1>1, <1>2 DEF EndOf

\* One more chunk, that goes on where they end.
LEMMA ChainGrows ==
  ASSUME NEW cs \in Seq(Seq(Nat) \ {<<>>}), NEW most, NEW limits, AreChained(cs, most, limits),
         NEW c, Continues(c, EndOf(cs), most, limits)
  PROVE  LET more == Append(cs, c) IN
         /\ more \in Seq(Seq(Nat) \ {<<>>})
         /\ AreChained(more, most, limits)
         /\ EndOf(more) = Last(c)
<1> DEFINE L == Len(cs)
<1>0. L \in Nat /\ DOMAIN cs = 1 .. L /\ EndOf(cs) \in Nat
      /\ (cs # <<>> => EndOf(cs) = Last(cs[L])) /\ (cs # <<>> <=> L >= 1)
  BY ChunksEnd
<1>1. /\ IsStretch(c) /\ c[1] <= EndOf(cs) + 1 /\ EndOf(cs) < c[Len(c)]
      /\ c \in Seq(Nat) \ {<<>>} /\ c[1] \in Nat \ {0} /\ c[Len(c)] \in Nat
      /\ Last(c) = c[Len(c)] /\ Words(c) = c[1] .. c[Len(c)]
  <2>1. IsStretch(c) /\ c[1] <= EndOf(cs) + 1 /\ EndOf(cs) < c[Len(c)]
    BY DEF Continues
  <2> QED BY <2>1, StretchEnds DEF IsStretch
<1>2. PICK more : more = Append(cs, c)
  OBVIOUS
<1>3. /\ more \in Seq(Seq(Nat) \ {<<>>}) /\ more # <<>> /\ Len(more) = L + 1
      /\ \A i \in 1 .. L : more[i] = cs[i]
      /\ more[L + 1] = c /\ DOMAIN more = 1 .. L + 1
  <2>1. /\ more \in Seq(Seq(Nat) \ {<<>>}) /\ more # <<>> /\ Len(more) = L + 1
        /\ \A i \in 1 .. L : more[i] = cs[i]
        /\ more[L + 1] = c
    <3>1. PICK T : T = Seq(Nat) \ {<<>>}
      OBVIOUS
    <3>2. c \in T /\ cs \in Seq(T)
      BY <1>1, <3>1
    <3>3. /\ more \in Seq(T) /\ more # <<>> /\ Len(more) = L + 1
          /\ \A i \in 1 .. L : more[i] = cs[i]
          /\ more[L + 1] = c
      BY <1>2, <3>2, AppendProperties
    <3> QED BY <3>1, <3>3
  <2> QED BY <2>1, LenProperties
<1>4. EndOf(more) = Last(c)
  BY <1>3 DEF EndOf, Last
<1>5. ASSUME NEW i \in 1 .. L + 1
      PROVE  Continues(more[i], IF i = 1 THEN 0 ELSE Last(more[i - 1]), most, limits)
  <2>1. CASE i \in 1 .. L
    <3>1. Continues(cs[i], IF i = 1 THEN 0 ELSE Last(cs[i - 1]), most, limits)
      BY <1>0, <2>1 DEF AreChained
    <3>2. i # 1 => i - 1 \in 1 .. L
      BY <1>0, <2>1
    <3>3. more[i] = cs[i] /\ (i # 1 => more[i - 1] = cs[i - 1])
      BY <1>3, <2>1, <3>2
    <3> QED BY <3>1, <3>3
  <2>2. CASE i = L + 1
    <3>1. CASE L = 0
      <4>1. EndOf(cs) = 0 /\ i = 1 /\ more[i] = c
        BY <1>0, <1>3, <2>2, <3>1 DEF EndOf
      <4> QED BY <4>1
    <3>2. CASE L # 0
      <4>1. i # 1 /\ i - 1 = L /\ L \in 1 .. L
        BY <1>0, <2>2, <3>2
      <4>2. Last(more[i - 1]) = EndOf(cs) /\ more[i] = c
        <5>1. more[L] = cs[L] /\ more[i] = c
          BY <1>3, <2>2, <4>1
        <5>2. EndOf(cs) = Last(cs[L])
          BY <1>0, <4>1
        <5> QED BY <4>1, <5>1, <5>2
      <4> QED BY <4>1, <4>2
    <3> QED BY <3>1, <3>2
  <2> QED BY <1>0, <2>1, <2>2
<1>6. UNION {Words(x) : x \in ToSet(more)} = 1 .. EndOf(more)
  <2>1. \A x : x \in ToSet(more) <=> x \in ToSet(cs) \/ x = c
    <3>1. \A x : x \in ToSet(cs) <=> \E i \in 1 .. L : cs[i] = x
      BY <1>0 DEF ToSet
    <3>2. \A x : x \in ToSet(more) <=> \E i \in 1 .. L + 1 : more[i] = x
      BY <1>3 DEF ToSet
    <3>3. \A i : i \in 1 .. L + 1 <=> i \in 1 .. L \/ i = L + 1
      BY <1>0
    <3> QED BY <1>3, <3>1, <3>2, <3>3
  <2>2. UNION {Words(x) : x \in ToSet(cs)} = 1 .. EndOf(cs)
    BY DEF AreChained
  <2>3. \A w : w \in UNION {Words(x) : x \in ToSet(more)} <=> w \in 1 .. EndOf(cs) \/ w \in Words(c)
    BY <2>1, <2>2
  <2>4. \A w : w \in 1 .. c[Len(c)] <=> w \in 1 .. EndOf(cs) \/ w \in c[1] .. c[Len(c)]
    BY <1>0, <1>1
  <2> QED BY <1>1, <1>4, <2>3, <2>4
<1>7. AreChained(more, most, limits)
  BY <1>3, <1>5, <1>6 DEF AreChained
<1> QED BY <1>2, <1>3, <1>4, <1>7

-----------------------------------------------------------------------------
(* Chunking: the invariant.                                                *)

\* What a text is made of.
LEMMA TextIsNumbers ==
  ASSUME text \in Seq(Seq(Nat \ {0}) \ {<<>>})
  PROVE  /\ Len(text) \in Nat /\ DOMAIN text = 1 .. Len(text)
         /\ Lengths \in Seq(Nat) /\ Len(Lengths) = Len(text)
         /\ \A p \in 1 .. Len(text) :
              /\ text[p] \in Seq(Nat \ {0}) /\ text[p] \in Seq(Nat) /\ text[p] # <<>>
              /\ Len(text[p]) \in Nat \ {0} /\ DOMAIN text[p] = 1 .. Len(text[p])
              /\ Total(text[p]) \in Nat \ {0} /\ Lengths[p] = Total(text[p])
<1>1. Len(text) \in Nat /\ DOMAIN text = 1 .. Len(text)
  BY LenProperties
<1>2. ASSUME NEW p \in 1 .. Len(text)
      PROVE  /\ text[p] \in Seq(Nat \ {0}) /\ text[p] \in Seq(Nat) /\ text[p] # <<>>
             /\ Len(text[p]) \in Nat \ {0} /\ DOMAIN text[p] = 1 .. Len(text[p])
             /\ Total(text[p]) \in Nat \ {0} /\ Lengths[p] = Total(text[p])
  <2>1. text[p] \in Seq(Nat \ {0}) /\ text[p] # <<>>
    BY <1>2
  <2>2. text[p] \in Seq(Nat)
    <3>1. Nat \ {0} \subseteq Nat
      OBVIOUS
    <3> QED BY <2>1, <3>1, SeqMonotonic
  <2>3. Len(text[p]) \in Nat \ {0} /\ DOMAIN text[p] = 1 .. Len(text[p])
    BY <2>1, EmptySeq, LenProperties
  <2>4. Total(text[p]) \in Nat \ {0}
    BY <2>1, TotalIsPositive
  <2> QED BY <1>1, <2>1, <2>2, <2>3, <2>4 DEF Lengths
<1>3. Lengths \in Seq(Nat) /\ Len(Lengths) = Len(text)
  <2>1. Lengths = [p \in 1 .. Len(text) |-> Total(text[p])]
    BY <1>1 DEF Lengths
  <2> QED BY <1>1, <1>2, <2>1
<1> QED BY <1>1, <1>2, <1>3

\* The limits of a chunk are numbers; size is one, and the length of each sentence.
LEMMA LimitsAreNumbers ==
  ASSUME text \in Seq(Seq(Nat \ {0}) \ {<<>>}), size \in Nat
  PROVE  /\ Limits \subseteq Nat /\ size \in Limits
         /\ \A p \in 1 .. Len(text) : \A i \in 1 .. Len(text[p]) :
              text[p][i] \in Limits /\ text[p][i] \in Nat \ {0}
<1>1. \A p \in 1 .. Len(text) : text[p] \in Seq(Nat \ {0}) /\ DOMAIN text[p] = 1 .. Len(text[p])
  BY TextIsNumbers
<1>2. ASSUME NEW p \in 1 .. Len(text)
      PROVE  /\ ToSet(text[p]) \subseteq Nat
             /\ \A i \in 1 .. Len(text[p]) : text[p][i] \in ToSet(text[p]) /\ text[p][i] \in Nat \ {0}
  <2>1. text[p] \in Seq(Nat \ {0}) /\ DOMAIN text[p] = 1 .. Len(text[p])
    BY <1>1
  <2>2. \A i \in 1 .. Len(text[p]) : text[p][i] \in Nat \ {0}
    BY <2>1, ElementOfSeq
  <2> QED BY <2>1, <2>2 DEF ToSet
<1>3. DOMAIN text = 1 .. Len(text)
  BY TextIsNumbers
<1> QED BY <1>2, <1>3 DEF Limits

\* What the buffer would make a chunk of, while the text is cut.
LEMMA BufferEnds ==
  ASSUME IndexTypeOK, ChunksAreChained, BufferIsNext, phase = "chunking"
  PROVE  /\ EndOf(chunks) \in Nat /\ read \in Nat /\ EndOf(chunks) <= read
         /\ buffer = <<>> => EndOf(chunks) = read
         /\ buffer # <<>> =>
              LET whole == Joined(buffer) IN
              /\ Continues(whole, EndOf(chunks), overlap, Limits)
              /\ IsStretch(whole) /\ whole[Len(whole)] = read /\ Last(whole) = read
              /\ whole[1] <= EndOf(chunks) + 1 /\ EndOf(chunks) < whole[1] + overlap
              /\ whole[1] <= read /\ whole[1] \in Nat
              /\ read < whole[1] + Tokens(buffer)
<1>1. EndOf(chunks) \in Nat /\ read \in Nat
  BY ChunksEnd DEF IndexTypeOK, ChunksAreChained
<1>2. BufferContinues(buffer, EndOf(chunks), overlap, Limits, read)
  BY DEF BufferIsNext
<1>3. CASE buffer = <<>>
  BY <1>1, <1>2, <1>3 DEF BufferContinues
<1>4. CASE buffer # <<>>
  <2>1. PICK c : c = Joined(buffer)
    OBVIOUS
  <2>2. /\ Continues(c, EndOf(chunks), overlap, Limits) /\ Last(c) = read
        /\ read < c[1] + Tokens(buffer)
    BY <1>2, <1>4, <2>1 DEF BufferContinues
  <2>3. /\ IsStretch(c) /\ c[1] <= EndOf(chunks) + 1 /\ EndOf(chunks) < c[Len(c)]
        /\ EndOf(chunks) < c[1] + overlap
    BY <2>2 DEF Continues
  <2>4. c[Len(c)] = read /\ c[1] <= read /\ c[1] \in Nat
    BY <2>2, <2>3, StretchEnds
  <2> QED BY <1>1, <1>4, <2>1, <2>2, <2>3, <2>4
<1> QED BY <1>3, <1>4

\* Closing a chunk: the chunks are all that was read.
LEMMA FlushKeepsChain ==
  ASSUME IndexTypeOK, ChunksAreChained, BufferIsNext, phase = "chunking"
  PROVE  /\ Flushed(buffer) \in Seq(Seq(Nat) \ {<<>>})
         /\ AreChained(Flushed(buffer), overlap, Limits)
         /\ EndOf(Flushed(buffer)) = read
<1>1. chunks \in Seq(Seq(Nat) \ {<<>>}) /\ AreChained(chunks, overlap, Limits)
  BY DEF IndexTypeOK, ChunksAreChained
<1>2. CASE buffer = <<>>
  <2>1. EndOf(chunks) = read /\ Flushed(buffer) = chunks
    BY <1>2, BufferEnds DEF Flushed
  <2> QED BY <1>1, <2>1
<1>3. CASE buffer # <<>>
  <2>1. PICK c : c = Joined(buffer)
    OBVIOUS
  <2>2. Continues(c, EndOf(chunks), overlap, Limits) /\ Last(c) = read
    BY <1>3, <2>1, BufferEnds
  <2>3. Flushed(buffer) = Append(chunks, c)
    BY <1>3, <2>1 DEF Flushed
  <2> QED BY <1>1, <2>2, <2>3, ChainGrows
<1> QED BY <1>2, <1>3

\* One turn of either loop.
LEMMA AddKeepsChain ==
  ASSUME IndexTypeOK, ChunksAreChained, BufferIsNext, phase = "chunking",
         NEW n \in Nat \ {0}, n <= size \/ n \in Limits, Add(n)
  PROVE  /\ read' = read + n /\ read' \in Nat
         /\ buffer' \in Seq(Seq(Nat) \ {<<>>}) /\ chunks' \in Seq(Seq(Nat) \ {<<>>})
         /\ AreChained(chunks', overlap, Limits)
         /\ BufferContinues(buffer', EndOf(chunks'), overlap, Limits, read')
<1>1. /\ chunks \in Seq(Seq(Nat) \ {<<>>}) /\ buffer \in Seq(Seq(Nat) \ {<<>>})
      /\ AreChained(chunks, overlap, Limits)
      /\ read \in Nat /\ size \in Nat /\ overlap \in Nat
      /\ text \in Seq(Seq(Nat \ {0}) \ {<<>>})
  BY SizeAssumption DEF IndexTypeOK, ChunksAreChained
<1>2. Limits \subseteq Nat /\ size \in Limits
  BY <1>1, LimitsAreNumbers
<1>3. PICK l \in Limits : n <= l
  BY <1>2
<1>4. PICK done : done = EndOf(chunks)
  OBVIOUS
<1>5. done \in Nat /\ done <= read
  BY <1>4, BufferEnds
<1>6. read' = read + n /\ read' \in Nat
  BY <1>1 DEF Add
<1>7. PICK u : u = [i \in 1 .. n |-> read + i]
  OBVIOUS
<1>8. CASE ~IsFull(n)
  <2>1. chunks' = chunks /\ buffer' = Append(buffer, u)
    BY <1>7, <1>8 DEF Add, Upcoming
  <2>2. PICK k \in Limits : Tokens(buffer) + n <= k \/ (n <= k /\ buffer = <<>>)
    <3>1. CASE buffer = <<>>
      BY <1>3, <3>1
    <3>2. CASE buffer # <<>>
      <4>1. Tokens(buffer) + n <= size
        <5>1. buffer \in Seq(Seq(Nat)) /\ <<>> \in Seq(Nat)
          <6>1. Seq(Nat) \ {<<>>} \subseteq Seq(Nat)
            OBVIOUS
          <6> QED BY <1>1, <6>1, SeqMonotonic
        <5>2. Tokens(buffer) \in Nat
          BY <5>1, TokensOfMore
        <5> QED BY <1>1, <1>8, <3>2, <5>2 DEF IsFull
      <4> QED BY <1>2, <4>1
    <3> QED BY <3>1, <3>2
  <2>3. BufferContinues(Append(buffer, u), done, overlap, Limits, read + n)
        /\ Append(buffer, u) \in Seq(Seq(Nat) \ {<<>>})
    <3>1. k \in Nat
      BY <1>2
    <3>2. buffer = <<>> => done = read
      BY <1>4, BufferEnds
    <3>3. buffer # <<>> => LET whole == Joined(buffer) IN
            /\ IsStretch(whole) /\ whole[Len(whole)] = read
            /\ whole[1] <= done + 1 /\ done < whole[1] + overlap
            /\ read < whole[1] + Tokens(buffer)
      BY <1>4, BufferEnds
    <3>4. Tokens(buffer) + n <= k \/ (n <= k /\ (buffer # <<>> => read < Joined(buffer)[1] + overlap))
      BY <2>2
    <3> QED BY <1>1, <1>5, <1>7, <3>1, <3>2, <3>3, <3>4, BufferTakesMore
  <2> QED BY <1>1, <1>4, <1>6, <2>1, <2>3
<1>9. CASE IsFull(n)
  <2>0. buffer # <<>>
    BY <1>9 DEF IsFull
  <2>1. chunks' = Flushed(buffer) /\ buffer' = Append(OverlapOf(buffer), u)
    BY <1>7, <1>9 DEF Add, Upcoming
  <2>2. /\ chunks' \in Seq(Seq(Nat) \ {<<>>}) /\ AreChained(chunks', overlap, Limits)
        /\ EndOf(chunks') = read
    BY <2>1, FlushKeepsChain
  <2>3. PICK c : c = Joined(buffer)
    OBVIOUS
  <2>4. /\ IsStretch(c) /\ c[Len(c)] = read /\ c[1] <= read /\ c[1] \in Nat
        /\ read < c[1] + Tokens(buffer) /\ Len(c) \in Nat /\ read < c[1] + Len(c)
    BY <2>0, <2>3, BufferEnds, StretchEnds, StretchIsAsLong
  <2>5. PICK o : o = OverlapOf(buffer)
    OBVIOUS
  <2>6. /\ o \in Seq(Seq(Nat) \ {<<>>})
        /\ o # <<>> => LET whole == Joined(o) IN
             /\ IsStretch(whole) /\ whole[Len(whole)] = read
             /\ whole[1] <= read + 1 /\ read < whole[1] + overlap
             /\ read < whole[1] + Tokens(o)
    <3>1. CASE o = <<>>
      BY <3>1
    <3>2. CASE o = buffer /\ Len(c) <= overlap
      <4>1. read < c[1] + overlap /\ c[1] <= read + 1
        BY <1>1, <2>4, <3>2
      <4> QED BY <1>1, <2>3, <2>4, <3>2, <4>1
    <3>3. ASSUME NEW m \in 1 .. Len(c), c[m] # Gap, Len(c) - m + 1 <= overlap,
                 o = <<SubSeq(c, m, Len(c))>>
          PROVE  <2>6
      <4>1. PICK s : s = SubSeq(c, m, Len(c))
        OBVIOUS
      <4>2. IsStretch(s) /\ Len(s) <= overlap /\ s[Len(s)] = read /\ Len(s) \in Nat
        BY <2>4, <3>3, <4>1, EndIsStretch
      <4>3. s[1] \in Nat /\ s[1] <= read /\ read < s[1] + Len(s) /\ s \in Seq(Nat) /\ s # <<>>
        BY <4>2, StretchEnds, StretchIsAsLong DEF IsStretch
      <4>4. Joined(o) = s /\ Tokens(o) = Len(s)
        BY <3>3, <4>1, <4>3, JoinedOfOne, TokensOfOne
      <4>5. o \in Seq(Seq(Nat) \ {<<>>})
        BY <3>3, <4>1, <4>3
      <4>6. s[1] <= read + 1 /\ read < s[1] + overlap
        BY <1>1, <4>2, <4>3
      <4> QED BY <4>2, <4>3, <4>4, <4>5, <4>6
    <3>4. \/ o = <<>> \/ (o = buffer /\ Len(c) <= overlap)
          \/ \E m \in 1 .. Len(c) : /\ c[m] # Gap /\ Len(c) - m + 1 <= overlap
                                   /\ o = <<SubSeq(c, m, Len(c))>>
      BY <1>1, <2>3, <2>4, <2>5, OverlapIsAnEnd
    <3> QED BY <3>1, <3>2, <3>3, <3>4
  <2>7. BufferContinues(Append(o, u), read, overlap, Limits, read + n)
        /\ Append(o, u) \in Seq(Seq(Nat) \ {<<>>})
    <3>1. l \in Nat
      BY <1>2
    <3>2. o # <<>> => read < Joined(o)[1] + overlap
      BY <2>6
    <3>3. Tokens(o) + n <= l \/ (n <= l /\ (o # <<>> => read < Joined(o)[1] + overlap))
      BY <1>3, <3>2
    <3>4. read <= read
      BY <1>1
    <3>5. o # <<>> => LET whole == Joined(o) IN
            /\ IsStretch(whole) /\ whole[Len(whole)] = read
            /\ whole[1] <= read + 1 /\ read < whole[1] + overlap
            /\ read < whole[1] + Tokens(o)
      BY <2>6
    <3> QED BY <1>1, <1>7, <2>6, <3>1, <3>3, <3>4, <3>5, BufferTakesMore
  <2> QED BY <1>6, <2>1, <2>2, <2>5, <2>7
<1> QED BY <1>6, <1>8, <1>9

\* What the loops leave alone.
LEMMA TextIsKept ==
  ASSUME UNCHANGED <<text, size, overlap>>
  PROVE  Limits' = Limits /\ Lengths' = Lengths
  BY DEF Limits, Lengths

\* While the text is cut, nothing is embedded.
LEMMA NothingIsEmbedded ==
  ASSUME VectorsAreInOrder, phase = "chunking", UNCHANGED embedVars
  PROVE  VectorsAreInOrder' /\ batch' = 0 /\ vectors' = <<>>
<1>1. batch = 0 /\ vectors = <<>> /\ rows = <<>>
  BY DEF VectorsAreInOrder
<1>2. batch' = 0 /\ vectors' = <<>> /\ rows' = <<>>
  BY <1>1 DEF embedVars
<1>3. SubSeq(chunks', 1, 0) = <<>>
  BY SubSeqEmpty
<1>4. SubSeq(chunks', 1, Len(vectors')) = vectors'
  BY <1>2, <1>3
<1> QED BY <1>2, <1>4 DEF VectorsAreInOrder

\* The two loops.
LEMMA CuttingKeepsInv ==
  ASSUME ChunkInv, AddParagraph \/ OpenParagraph \/ AddSentence \/ CloseParagraph \/ CloseText
  PROVE  ChunkInv'
<1> USE DEF Cutting
<1>0. phase = "chunking" /\ UNCHANGED <<text, size, overlap, embedVars>>
  BY DEF AddParagraph, OpenParagraph, AddSentence, CloseParagraph, CloseText
<1>1. /\ IndexTypeOK /\ ReadUpToHere /\ ChunksAreChained /\ BufferIsNext /\ VectorsAreInOrder
  BY DEF ChunkInv
<1>2. Limits' = Limits /\ Lengths' = Lengths /\ overlap' = overlap /\ text' = text
  BY <1>0, TextIsKept
<1>3. VectorsAreInOrder' /\ batch' = 0 /\ vectors' = <<>>
  BY <1>0, <1>1, NothingIsEmbedded
<1>4. text \in Seq(Seq(Nat \ {0}) \ {<<>>}) /\ size \in Nat /\ read \in Nat
      /\ para \in 1 .. Len(text) + 1
  BY <1>1, SizeAssumption DEF IndexTypeOK
<1>5. /\ Len(text) \in Nat /\ Lengths \in Seq(Nat) /\ Len(Lengths) = Len(text)
      /\ \A p \in 1 .. Len(text) :
           /\ text[p] \in Seq(Nat) /\ Len(text[p]) \in Nat \ {0}
           /\ DOMAIN text[p] = 1 .. Len(text[p])
           /\ Total(text[p]) \in Nat \ {0} /\ Lengths[p] = Total(text[p])
  BY <1>4, TextIsNumbers
<1>6. \A p \in 1 .. Len(text) : \A i \in 1 .. Len(text[p]) :
        text[p][i] \in Limits /\ text[p][i] \in Nat \ {0}
  BY <1>4, LimitsAreNumbers
<1>7. \A p \in 1 .. Len(text) : Sums(Lengths)[p] = Sums(Lengths)[p - 1] + Total(text[p])
  BY <1>5, SumsGrow
<1>8. \A p \in 1 .. Len(text) : Sums(Lengths)[p - 1] \in Nat
  <2>1. \A p \in 1 .. Len(text) : p - 1 \in 0 .. Len(Lengths)
    BY <1>5
  <2> QED BY <1>5, <2>1, SumsGrow
<1>9. ASSUME phase' = phase, chunks' = Flushed(buffer), buffer' = <<>>, read' = read
      PROVE  ChunksAreChained' /\ BufferIsNext'
             /\ chunks' \in Seq(Seq(Nat) \ {<<>>}) /\ buffer' \in Seq(Seq(Nat) \ {<<>>})
  <2>1. /\ chunks' \in Seq(Seq(Nat) \ {<<>>}) /\ AreChained(chunks', overlap, Limits)
        /\ EndOf(chunks') = read
    BY <1>0, <1>1, <1>9, FlushKeepsChain
  <2>2. ChunksAreChained'
    BY <1>2, <2>1 DEF ChunksAreChained
  <2>3. BufferContinues(buffer', EndOf(chunks'), overlap', Limits', read')
    BY <1>9, <2>1 DEF BufferContinues
  <2>4. BufferIsNext'
    BY <1>0, <1>9, <2>3 DEF BufferIsNext
  <2>5. buffer' \in Seq(Seq(Nat) \ {<<>>})
    BY <1>9
  <2> QED BY <2>1, <2>2, <2>4, <2>5
<1>10. ASSUME phase' = phase, NEW n \in Nat \ {0}, n <= size \/ n \in Limits, Add(n)
       PROVE  /\ read' = read + n /\ ChunksAreChained' /\ BufferIsNext'
              /\ chunks' \in Seq(Seq(Nat) \ {<<>>}) /\ buffer' \in Seq(Seq(Nat) \ {<<>>})
  <2>1. /\ read' = read + n
        /\ buffer' \in Seq(Seq(Nat) \ {<<>>}) /\ chunks' \in Seq(Seq(Nat) \ {<<>>})
        /\ AreChained(chunks', overlap, Limits)
        /\ BufferContinues(buffer', EndOf(chunks'), overlap, Limits, read')
    BY <1>0, <1>1, <1>10, AddKeepsChain
  <2>2. ChunksAreChained'
    BY <1>2, <2>1 DEF ChunksAreChained
  <2>3. BufferIsNext'
    BY <1>0, <1>2, <1>10, <2>1 DEF BufferIsNext
  <2> QED BY <2>1, <2>2, <2>3
<1>11. ASSUME para' \in 1 .. Len(text) + 1, read' \in Nat, phase' \in Phases,
              sentence' \in 0..(IF para' > Len(text) THEN 0 ELSE Len(text[para']) + 1),
              chunks' \in Seq(Seq(Nat) \ {<<>>}), buffer' \in Seq(Seq(Nat) \ {<<>>})
       PROVE  IndexTypeOK'
  <2>1. Len(chunks') \in Nat
    BY <1>11, LenProperties
  <2>2. batch' \in 0 .. Len(chunks') /\ Len(vectors') \in 0 .. Len(chunks')
    <3>1. Len(vectors') = 0
      BY <1>3
    <3> QED BY <1>3, <2>1, <3>1
  <2>3. size' \in MinSize..MaxSize /\ overlap' \in 0..size'
    BY <1>0, <1>1 DEF IndexTypeOK
  <2> QED BY <1>2, <1>4, <1>11, <2>2, <2>3 DEF IndexTypeOK
<1>12. CASE AddParagraph
  <2>1. /\ para \in 1 .. Len(text) /\ sentence = 0 /\ para' = para + 1 /\ sentence' = 0
        /\ phase' = phase
    BY <1>4, <1>5, <1>12 DEF AddParagraph
  <2>2. PICK n \in Nat \ {0} : n = Total(text[para])
    BY <1>5, <2>1
  <2>3. n <= size /\ Add(n)
    BY <1>12, <2>2 DEF AddParagraph
  <2>4. /\ read' = read + n /\ ChunksAreChained' /\ BufferIsNext'
        /\ chunks' \in Seq(Seq(Nat) \ {<<>>}) /\ buffer' \in Seq(Seq(Nat) \ {<<>>})
    BY <1>10, <2>1, <2>3
  <2>5. IndexTypeOK'
    <3>1. para' \in 1 .. Len(text) + 1 /\ read' \in Nat /\ phase' \in Phases
      BY <1>0, <1>4, <1>5, <2>1, <2>4 DEF Phases
    <3>2. sentence' \in 0..(IF para' > Len(text) THEN 0 ELSE Len(text[para']) + 1)
      <4>1. para' > Len(text) \/ para' \in 1 .. Len(text)
        BY <1>5, <3>1
      <4> QED BY <1>5, <2>1, <4>1
    <3> QED BY <1>11, <2>4, <3>1, <3>2
  <2>6. ReadUpToHere'
    <3>1. read = Sums(Lengths)[para - 1]
      <4>1. Sums(Lengths)[para - 1] \in Nat
        BY <1>8, <2>1
      <4> QED BY <1>1, <2>1, <4>1 DEF ReadUpToHere
    <3>2. read' = Sums(Lengths)[para]
      BY <1>7, <2>1, <2>2, <2>4, <3>1
    <3>3. para' - 1 = para /\ read' \in Nat
      BY <1>4, <2>1, <2>4
    <3>4. read' = Sums(Lengths')[para' - 1] + 0
      BY <1>2, <3>2, <3>3
    <3> QED BY <2>1, <3>4 DEF ReadUpToHere
  <2> QED BY <1>3, <2>4, <2>5, <2>6 DEF ChunkInv
<1>13. CASE OpenParagraph
  <2>1. /\ para \in 1 .. Len(text) /\ sentence = 0 /\ para' = para /\ sentence' = 1
        /\ phase' = phase /\ read' = read /\ chunks' = Flushed(buffer) /\ buffer' = <<>>
    BY <1>4, <1>5, <1>13 DEF OpenParagraph
  <2>2. ChunksAreChained' /\ BufferIsNext'
        /\ chunks' \in Seq(Seq(Nat) \ {<<>>}) /\ buffer' \in Seq(Seq(Nat) \ {<<>>})
    BY <1>9, <2>1
  <2>3. IndexTypeOK'
    <3>1. para' \in 1 .. Len(text) + 1 /\ read' \in Nat /\ phase' \in Phases
      BY <1>0, <1>4, <2>1 DEF Phases
    <3>2. sentence' \in 0..(IF para' > Len(text) THEN 0 ELSE Len(text[para']) + 1)
      <4>1. ~(para > Len(text)) /\ 1 \in 0 .. Len(text[para]) + 1
        BY <1>5, <2>1
      <4> QED BY <2>1, <4>1
    <3> QED BY <1>11, <2>2, <3>1, <3>2
  <2>4. ReadUpToHere'
    <3>1. Sums(text[para])[0] = 0 /\ Sums(Lengths)[para - 1] \in Nat
      BY <1>5, <1>8, <2>1, SumsGrow
    <3>2. read = Sums(Lengths)[para - 1]
      BY <1>1, <2>1, <3>1 DEF ReadUpToHere
    <3>3. read' = Sums(Lengths')[para' - 1] + Sums(text'[para'])[sentence' - 1]
      BY <1>2, <2>1, <3>1, <3>2
    <3> QED BY <2>1, <3>3 DEF ReadUpToHere
  <2> QED BY <1>3, <2>2, <2>3, <2>4 DEF ChunkInv
<1>14. CASE AddSentence
  <2>1. /\ para \in 1 .. Len(text) /\ sentence \in 1 .. Len(text[para])
        /\ para' = para /\ sentence' = sentence + 1 /\ phase' = phase
    <3>1. para \in 1 .. Len(text)
      BY <1>4, <1>5, <1>14 DEF AddSentence
    <3>2. DOMAIN text[para] = 1 .. Len(text[para])
      BY <1>5, <3>1
    <3>3. sentence \in DOMAIN text[para]
      BY <1>14 DEF AddSentence
    <3> QED BY <1>14, <3>1, <3>2, <3>3 DEF AddSentence
  <2>2. PICK n \in Nat \ {0} : n = text[para][sentence]
    BY <1>6, <2>1
  <2>3. n \in Limits /\ Add(n)
    BY <1>6, <1>14, <2>1, <2>2 DEF AddSentence
  <2>4. /\ read' = read + n /\ ChunksAreChained' /\ BufferIsNext'
        /\ chunks' \in Seq(Seq(Nat) \ {<<>>}) /\ buffer' \in Seq(Seq(Nat) \ {<<>>})
    BY <1>10, <2>1, <2>3
  <2>5. IndexTypeOK'
    <3>1. para' \in 1 .. Len(text) + 1 /\ read' \in Nat /\ phase' \in Phases
      BY <1>0, <1>4, <2>1, <2>4 DEF Phases
    <3>2. sentence' \in 0..(IF para' > Len(text) THEN 0 ELSE Len(text[para']) + 1)
      <4>1. ~(para > Len(text)) /\ sentence + 1 \in 0 .. Len(text[para]) + 1
        BY <1>5, <2>1
      <4> QED BY <2>1, <4>1
    <3> QED BY <1>11, <2>4, <3>1, <3>2
  <2>6. ReadUpToHere'
    <3>1. /\ Sums(text[para])[sentence] = Sums(text[para])[sentence - 1] + n
          /\ Sums(text[para])[sentence - 1] \in Nat
          /\ Sums(Lengths)[para - 1] \in Nat
      <4>1. sentence - 1 \in 0 .. Len(text[para])
        BY <1>5, <2>1
      <4> QED BY <1>5, <1>8, <2>1, <2>2, <4>1, SumsGrow
    <3>2. read = Sums(Lengths)[para - 1] + Sums(text[para])[sentence - 1]
      BY <1>1, <1>5, <2>1 DEF ReadUpToHere
    <3>3. read' = Sums(Lengths)[para - 1] + Sums(text[para])[sentence]
      BY <2>4, <3>1, <3>2
    <3>4. sentence' # 0 /\ sentence' - 1 = sentence
      <4>1. sentence \in Nat /\ sentence' = sentence + 1
        <5>1. Len(text[para]) \in Nat
          BY <1>5, <2>1
        <5> QED BY <2>1, <5>1
      <4> QED BY ONLY <4>1
    <3>5. read' = Sums(Lengths')[para' - 1] + Sums(text'[para'])[sentence' - 1]
      BY <1>2, <2>1, <3>3, <3>4
    <3> QED BY <3>4, <3>5 DEF ReadUpToHere
  <2> QED BY <1>3, <2>4, <2>5, <2>6 DEF ChunkInv
<1>15. CASE CloseParagraph
  <2>1. /\ para \in 1 .. Len(text) /\ sentence > Len(text[para])
        /\ para' = para + 1 /\ sentence' = 0
        /\ phase' = phase /\ read' = read /\ chunks' = Flushed(buffer) /\ buffer' = <<>>
    BY <1>4, <1>5, <1>15 DEF CloseParagraph
  <2>2. ChunksAreChained' /\ BufferIsNext'
        /\ chunks' \in Seq(Seq(Nat) \ {<<>>}) /\ buffer' \in Seq(Seq(Nat) \ {<<>>})
    BY <1>9, <2>1
  <2>3. sentence = Len(text[para]) + 1
    <3>1. sentence \in 0 .. Len(text[para]) + 1
      BY <1>1, <1>5, <2>1 DEF IndexTypeOK
    <3> QED BY <1>5, <2>1, <3>1
  <2>4. IndexTypeOK'
    <3>1. para' \in 1 .. Len(text) + 1 /\ read' \in Nat /\ phase' \in Phases
      BY <1>0, <1>4, <1>5, <2>1 DEF Phases
    <3>2. sentence' \in 0..(IF para' > Len(text) THEN 0 ELSE Len(text[para']) + 1)
      <4>1. para' > Len(text) \/ para' \in 1 .. Len(text)
        BY <1>5, <3>1
      <4> QED BY <1>5, <2>1, <4>1
    <3> QED BY <1>11, <2>2, <3>1, <3>2
  <2>5. ReadUpToHere'
    <3>1. read = Sums(Lengths)[para - 1] + Sums(text[para])[sentence - 1]
      BY <1>1, <1>5, <2>1, <2>3 DEF ReadUpToHere
    <3>2. sentence - 1 = Len(text[para])
      BY <1>5, <2>1, <2>3
    <3>3. read = Sums(Lengths)[para]
      BY <1>7, <2>1, <3>1, <3>2 DEF Total
    <3>4. read' = Sums(Lengths')[para' - 1] + 0
      <4>1. para' - 1 = para
        BY <1>4, <2>1
      <4> QED BY <1>2, <1>4, <2>1, <3>3, <4>1
    <3> QED BY <2>1, <3>4 DEF ReadUpToHere
  <2> QED BY <1>3, <2>2, <2>4, <2>5 DEF ChunkInv
<1>16. CASE CloseText
  <2>1. /\ para > Len(text) /\ para' = para /\ sentence' = sentence
        /\ phase' \in {"over", "chunked"} /\ read' = read
        /\ chunks' = Flushed(buffer) /\ buffer' = buffer
    BY <1>4, <1>5, <1>16 DEF CloseText
  <2>2. /\ chunks' \in Seq(Seq(Nat) \ {<<>>}) /\ AreChained(chunks', overlap, Limits)
        /\ EndOf(chunks') = read
    BY <1>0, <1>1, <2>1, FlushKeepsChain
  <2>3. ChunksAreChained'
    BY <1>2, <2>2 DEF ChunksAreChained
  <2>4. BufferIsNext'
    <3>1. buffer # <<>> => IsStretch(Joined(buffer)) /\ Last(Joined(buffer)) = read
      BY <1>0, <1>1, BufferEnds
    <3> QED BY <1>2, <2>1, <2>2, <3>1 DEF BufferIsNext
  <2>5. IndexTypeOK'
    <3>1. para' \in 1 .. Len(text) + 1 /\ read' \in Nat /\ phase' \in Phases
      BY <1>4, <2>1 DEF Phases
    <3>2. sentence' \in 0..(IF para' > Len(text) THEN 0 ELSE Len(text[para']) + 1)
      BY <1>1, <2>1 DEF IndexTypeOK
    <3>3. buffer' \in Seq(Seq(Nat) \ {<<>>})
      BY <1>1, <2>1 DEF IndexTypeOK
    <3> QED BY <1>11, <2>2, <3>1, <3>2, <3>3
  <2>6. ReadUpToHere'
    BY <1>1, <1>2, <2>1 DEF ReadUpToHere
  <2> QED BY <1>3, <2>3, <2>4, <2>5, <2>6 DEF ChunkInv
<1> QED BY <1>12, <1>13, <1>14, <1>15, <1>16

\* Embedding and writing leave the chunks alone.
LEMMA EmbeddingKeepsInv ==
  ASSUME ChunkInv,
         ChooseProvider \/ EmbedBatch \/ EmbeddingFails \/ WriteRows \/ EndRequest
  PROVE  ChunkInv'
<1>1. /\ IndexTypeOK /\ ReadUpToHere /\ ChunksAreChained /\ BufferIsNext /\ VectorsAreInOrder
  BY DEF ChunkInv
<1>2. /\ UNCHANGED <<text, size, overlap, loopVars>> /\ phase # "chunking"
      /\ phase' \in Phases \ {"chunking", "chunked"}
  BY DEF ChooseProvider, EmbedBatch, EmbeddingFails, WriteRows, EndRequest, Phases
<1>3. /\ text' = text /\ size' = size /\ overlap' = overlap /\ para' = para
      /\ sentence' = sentence /\ read' = read /\ buffer' = buffer /\ chunks' = chunks
      /\ Limits' = Limits /\ Lengths' = Lengths
  BY <1>2, TextIsKept DEF loopVars
<1>4. ReadUpToHere'
  BY <1>1, <1>3 DEF ReadUpToHere
<1>5. ChunksAreChained'
  BY <1>1, <1>3 DEF ChunksAreChained
<1>6. BufferIsNext'
  BY <1>1, <1>2, <1>3 DEF BufferIsNext
<1> DEFINE L == Len(chunks)
<1>7. /\ chunks \in Seq(Seq(Nat) \ {<<>>}) /\ L \in Nat /\ DOMAIN chunks = 1 .. L
      /\ batch \in 0 .. L /\ Len(vectors) \in 0 .. L /\ vectors = SubSeq(chunks, 1, Len(vectors))
      /\ phase \in Phases
  BY <1>1, LenProperties DEF IndexTypeOK, VectorsAreInOrder
<1>8. \A k \in 0 .. L : SubSeq(chunks, 1, k) \in Seq(Seq(Nat) \ {<<>>}) /\ Len(SubSeq(chunks, 1, k)) = k
  <2> SUFFICES ASSUME NEW k \in 0 .. L
               PROVE  SubSeq(chunks, 1, k) \in Seq(Seq(Nat) \ {<<>>}) /\ Len(SubSeq(chunks, 1, k)) = k
    OBVIOUS
  <2>1. PICK S : S = Seq(Nat) \ {<<>>}
    OBVIOUS
  <2>2. \A i \in 1 .. k : chunks[i] \in S
    BY <1>7, <2>1
  <2>3. SubSeq(chunks, 1, k) \in Seq(S) /\ Len(SubSeq(chunks, 1, k)) = IF 1 <= k THEN k - 1 + 1 ELSE 0
    BY <2>2, SubSeqProperties
  <2> QED BY <2>1, <2>3
<1>9. ASSUME batch' \in 0 .. L, Len(vectors') \in 0 .. L PROVE IndexTypeOK'
  <2>1. phase' \in Phases
    BY <1>2
  <2> QED BY <1>1, <1>3, <1>9, <2>1 DEF IndexTypeOK
<1>10. ASSUME vectors' = SubSeq(chunks, 1, Len(vectors')),
              rows' # <<>> => vectors' = chunks /\ rows' = [i \in DOMAIN chunks |-> Row(i)']
       PROVE  VectorsAreInOrder'
  BY <1>2, <1>3, <1>10 DEF VectorsAreInOrder
<1>11. ASSUME vectors' = vectors, rows' = <<>> \/ (rows' = rows) PROVE VectorsAreInOrder'
  <2>1. rows # <<>> => vectors = chunks /\ rows = [i \in DOMAIN chunks |-> Row(i)]
    BY <1>1 DEF VectorsAreInOrder
  <2>2. \A i : Row(i)' = Row(i)
    BY <1>3, <1>11 DEF Row
  <2> QED BY <1>7, <1>10, <1>11, <2>1, <2>2
<1>12. CASE ChooseProvider
  <2>1. vectors' = vectors /\ rows' = rows
    BY <1>12 DEF ChooseProvider
  <2>2. batch' \in 0 .. L
    <3>1. batch' \in {batch, L, Min({MaxBatch, L})}
      BY <1>12 DEF ChooseProvider
    <3>2. Min({MaxBatch, L}) \in 0 .. L
      <4>1. MaxBatch \in Nat /\ L \in Nat
        BY <1>7, BatchAssumption
      <4>2. Min({MaxBatch, L}) = IF MaxBatch <= L THEN MaxBatch ELSE L
        BY <4>1, MinOfTwo
      <4> QED BY <4>1, <4>2
    <3> QED BY <1>7, <3>1, <3>2
  <2> QED BY <1>4, <1>5, <1>6, <1>7, <1>9, <1>11, <2>1, <2>2 DEF ChunkInv
<1>13. CASE EmbedBatch
  <2>1. PICK n : n = Len(vectors)
    OBVIOUS
  <2>2. n \in 0 .. L
    BY <1>7, <2>1
  <2>3. PICK k : k = Min({n + batch, L})
    OBVIOUS
  <2>4. k \in n .. L
    <3>1. n + batch \in Nat /\ L \in Nat
      BY <1>7, <2>2
    <3>2. k = IF n + batch <= L THEN n + batch ELSE L
      BY <2>3, <3>1, MinOfTwo
    <3>3. n \in Nat /\ batch \in Nat /\ L \in Nat /\ n <= L
      BY <1>7, <2>2
    <3> HIDE DEF L
    <3> QED BY <3>2, <3>3
  <2>5. vectors' = vectors \o SubSeq(chunks, n + 1, k) /\ batch' = batch /\ rows' = rows
        /\ phase = "embedding" /\ n < L
    BY <1>13, <2>1, <2>3 DEF EmbedBatch
  <2>6. vectors' = SubSeq(chunks, 1, k)
    <3>1. PICK S : S = Seq(Nat) \ {<<>>}
      OBVIOUS
    <3>2. /\ chunks \in Seq(S) /\ 1 \in 1 .. Len(chunks) + 1
          /\ n \in 1 - 1 .. Len(chunks) /\ k \in n .. Len(chunks)
      BY <1>7, <2>2, <2>4, <3>1
    <3>3. SubSeq(chunks, 1, n) \o SubSeq(chunks, n + 1, k) = SubSeq(chunks, 1, k)
      BY <3>2, ConcatAdjacentSubSeq
    <3> QED BY <1>7, <2>1, <2>5, <3>3
  <2>7. Len(vectors') = k
    BY <1>7, <1>8, <2>2, <2>4, <2>6
  <2>8. rows = <<>>
    BY <1>1, <2>1, <2>5 DEF VectorsAreInOrder
  <2>9. VectorsAreInOrder'
    BY <1>10, <2>5, <2>6, <2>7, <2>8
  <2>10. Len(vectors') \in 0 .. L
    BY <1>7, <2>2, <2>4, <2>7
  <2> QED BY <1>4, <1>5, <1>6, <1>7, <1>9, <2>5, <2>9, <2>10 DEF ChunkInv
<1>14. CASE EmbeddingFails
  <2>1. vectors' = vectors /\ rows' = rows /\ batch' = batch
    BY <1>14 DEF EmbeddingFails, embedVars
  <2> QED BY <1>4, <1>5, <1>6, <1>7, <1>9, <1>11, <2>1 DEF ChunkInv
<1>15. CASE WriteRows
  <2>1. /\ vectors' = vectors /\ batch' = batch /\ rows' = [i \in DOMAIN chunks |-> Row(i)]
        /\ Len(vectors) = L
    BY <1>15 DEF WriteRows
  <2>2. vectors = chunks
    BY <1>7, <2>1, SubSeqFull
  <2>3. \A i : Row(i)' = Row(i)
    BY <1>3, <2>1 DEF Row
  <2>4. VectorsAreInOrder'
    BY <1>7, <1>10, <2>1, <2>2, <2>3
  <2> QED BY <1>4, <1>5, <1>6, <1>7, <1>9, <2>1, <2>4 DEF ChunkInv
<1>16. CASE EndRequest
  <2>1. vectors' = vectors /\ rows' = <<>> /\ batch' = batch
    BY <1>16 DEF EndRequest
  <2> QED BY <1>4, <1>5, <1>6, <1>7, <1>9, <1>11, <2>1 DEF ChunkInv
<1> QED BY <1>12, <1>13, <1>14, <1>15, <1>16

\* Cutting begins before the first token.
LEMMA InitChunkInv == IndexInit => ChunkInv
<1> SUFFICES ASSUME IndexInit PROVE ChunkInv
  OBVIOUS
<1>1. text \in Seq(Seq(Nat \ {0}) \ {<<>>})
  BY TextAssumption DEF IndexInit
<1>2. /\ para = 1 /\ sentence = 0 /\ read = 0 /\ buffer = <<>> /\ chunks = <<>>
      /\ batch = 0 /\ vectors = <<>> /\ rows = <<>> /\ phase = "chunking"
  BY DEF IndexInit
<1>3. size \in MinSize .. MaxSize
  <2>1. PICK asked \in AskedSize : size = ClampedSize(asked)
    BY DEF IndexInit
  <2>2. asked \in Nat /\ MaxSize \in Nat /\ MinSize \in Nat /\ MinSize <= MaxSize
    BY AskedAssumption, SizeAssumption
  <2>3. PICK m : m = Min({asked, MaxSize})
    OBVIOUS
  <2>4. m = IF asked <= MaxSize THEN asked ELSE MaxSize
    BY <2>2, <2>3, MinOfTwo
  <2>5. m \in Nat /\ m <= MaxSize
    BY <2>2, <2>4
  <2>6. size = IF MinSize >= m THEN MinSize ELSE m
    BY <2>1, <2>2, <2>3, <2>5, MaxOfTwo DEF ClampedSize
  <2> QED BY <2>2, <2>5, <2>6
<1>4. overlap \in 0 .. size
  <2>1. PICK asked \in AskedOverlap : overlap = ClampedOverlap(asked, size)
    BY DEF IndexInit
  <2>2. asked \in Nat /\ size \in Nat
    BY <1>3, AskedAssumption, SizeAssumption
  <2>3. size \div 2 \in Nat /\ size \div 2 <= size
    BY <2>2
  <2>4. overlap = IF asked <= size \div 2 THEN asked ELSE size \div 2
    BY <2>1, <2>2, <2>3, MinOfTwo DEF ClampedOverlap
  <2> QED BY <2>2, <2>3, <2>4
<1>5. IndexTypeOK
  <2>1. Len(text) \in Nat
    BY <1>1, LenProperties
  <2>2. para \in 1 .. Len(text) + 1 /\ phase \in Phases
    BY <1>2, <2>1 DEF Phases
  <2>3. sentence \in 0..(IF para > Len(text) THEN 0 ELSE Len(text[para]) + 1)
    <3>1. CASE para > Len(text)
      BY <1>2, <3>1
    <3>2. CASE ~(para > Len(text))
      <4>1. Len(text[para]) \in Nat
        BY <1>1, <1>2, <2>1, <3>2, TextIsNumbers
      <4> QED BY <1>2, <3>2, <4>1
    <3> QED BY <3>1, <3>2
  <2>4. buffer \in Seq(Seq(Nat) \ {<<>>}) /\ chunks \in Seq(Seq(Nat) \ {<<>>}) /\ read \in Nat
    BY <1>2
  <2>5. batch \in 0 .. Len(chunks) /\ Len(vectors) \in 0 .. Len(chunks)
    BY <1>2
  <2> QED BY <1>1, <1>3, <1>4, <2>2, <2>3, <2>4, <2>5 DEF IndexTypeOK
<1>6. ReadUpToHere
  <2>1. Sums(Lengths)[0] = 0
    BY <1>1, TextIsNumbers, SumsGrow
  <2> QED BY <1>2, <2>1 DEF ReadUpToHere
<1>7. EndOf(chunks) = 0
  BY <1>2 DEF EndOf
<1>8. ChunksAreChained
  <2>1. DOMAIN chunks = {} /\ ToSet(chunks) = {}
    BY <1>2 DEF ToSet
  <2> QED BY <1>7, <2>1 DEF ChunksAreChained, AreChained
<1>9. BufferIsNext
  BY <1>2, <1>7 DEF BufferIsNext, BufferContinues
<1>10. VectorsAreInOrder
  BY <1>2, SubSeqEmpty DEF VectorsAreInOrder
<1> QED BY <1>5, <1>6, <1>8, <1>9, <1>10 DEF ChunkInv

\* Every step keeps the invariant.
LEMMA NextKeepsChunkInv == ChunkInv /\ [IndexNext]_indexVars => ChunkInv'
<1> SUFFICES ASSUME ChunkInv, [IndexNext]_indexVars PROVE ChunkInv'
  OBVIOUS
<1>1. CASE IndexNext
  BY <1>1, CuttingKeepsInv, EmbeddingKeepsInv DEF IndexNext
<1>2. CASE UNCHANGED indexVars
  <2>1. /\ text' = text /\ size' = size /\ overlap' = overlap /\ para' = para
        /\ sentence' = sentence /\ read' = read /\ buffer' = buffer /\ chunks' = chunks
        /\ batch' = batch /\ vectors' = vectors /\ rows' = rows /\ phase' = phase
    BY <1>2 DEF indexVars, loopVars, embedVars
  <2>2. Limits' = Limits /\ Lengths' = Lengths
    BY <2>1, TextIsKept
  <2>3. \A i : Row(i)' = Row(i)
    BY <2>1 DEF Row
  <2>4. IndexTypeOK'
    BY <2>1 DEF ChunkInv, IndexTypeOK
  <2>5. ReadUpToHere'
    BY <2>1, <2>2 DEF ChunkInv, ReadUpToHere
  <2>6. ChunksAreChained'
    BY <2>1, <2>2 DEF ChunkInv, ChunksAreChained
  <2>7. BufferIsNext'
    BY <2>1, <2>2 DEF ChunkInv, BufferIsNext
  <2>8. VectorsAreInOrder'
    BY <2>1, <2>3 DEF ChunkInv, VectorsAreInOrder
  <2> QED BY <2>4, <2>5, <2>6, <2>7, <2>8 DEF ChunkInv
<1> QED BY <1>1, <1>2

-----------------------------------------------------------------------------
(* Chunking: the theorems.                                                 *)

\* The ends of a stretch are its least and its greatest token.
LEMMA StretchSpan ==
  ASSUME NEW c, IsStretch(c)
  PROVE  /\ Min(Words(c)) = c[1] /\ Max(Words(c)) = c[Len(c)]
         /\ Words(c) = Span(c)
<1>1. /\ Words(c) = c[1] .. c[Len(c)]
      /\ c[1] \in Nat /\ c[Len(c)] \in Nat /\ c[1] <= c[Len(c)]
  BY StretchEnds DEF IsStretch
<1>2. Min(Words(c)) = c[1]
  <2>1. Words(c) \subseteq Nat /\ Words(c) # {} /\ c[1] \in Words(c)
    BY <1>1
  <2>2. Min(Words(c)) \in Words(c) /\ \A k \in Words(c) : Min(Words(c)) <= k
    BY <2>1, MinIsLeast
  <2>3. PICK m : m = Min(Words(c))
    OBVIOUS
  <2>4. m \in c[1] .. c[Len(c)] /\ m <= c[1]
    BY <1>1, <2>1, <2>2, <2>3
  <2> QED BY <1>1, <2>3, <2>4
<1>3. Max(Words(c)) = c[Len(c)]
  <2>1. c[Len(c)] \in Words(c) /\ \A k \in Words(c) : c[Len(c)] >= k
    BY <1>1
  <2>2. Max(Words(c)) \in Words(c) /\ \A k \in Words(c) : Max(Words(c)) >= k
    BY <2>1 DEF Max
  <2>3. PICK m : m = Max(Words(c))
    OBVIOUS
  <2>4. m \in c[1] .. c[Len(c)] /\ m >= c[Len(c)]
    BY <1>1, <2>1, <2>2, <2>3
  <2> QED BY <1>1, <2>3, <2>4
<1> QED BY <1>1, <1>2, <1>3 DEF Span

\* How many numbers there are from one to another.
LEMMA SpanCount ==
  ASSUME NEW i \in Nat, NEW j \in Nat
  PROVE  IsFiniteSet(i .. j) /\ Cardinality(i .. j) = IF i > j THEN 0 ELSE j - i + 1
<1>1. i \in Int /\ j \in Int
  OBVIOUS
<1> QED BY <1>1, FS_Interval

\* The ends say it all.
LEMMA ChunkInvFollows == ChunkInv => ChunksFollowText
<1> SUFFICES ASSUME ChunkInv PROVE ChunksFollowText
  OBVIOUS
<1>1. IndexTypeOK /\ ReadUpToHere /\ ChunksAreChained /\ BufferIsNext /\ VectorsAreInOrder
  BY DEF ChunkInv
<1>2. /\ chunks \in Seq(Seq(Nat) \ {<<>>}) /\ AreChained(chunks, overlap, Limits)
      /\ read \in Nat /\ size \in Nat /\ overlap \in Nat
      /\ text \in Seq(Seq(Nat \ {0}) \ {<<>>})
  BY <1>1, SizeAssumption DEF IndexTypeOK, ChunksAreChained
<1>3. /\ Len(chunks) \in Nat /\ DOMAIN chunks = 1 .. Len(chunks) /\ EndOf(chunks) \in Nat
      /\ UNION {Words(c) : c \in ToSet(chunks)} = 1 .. EndOf(chunks)
  BY <1>2, ChunksEnd DEF AreChained
<1>4. ASSUME NEW i \in 1 .. Len(chunks)
      PROVE  Continues(chunks[i], IF i = 1 THEN 0 ELSE Last(chunks[i - 1]), overlap, Limits)
  BY <1>2, <1>3 DEF AreChained
<1>5. \A i \in 1 .. Len(chunks) : IsStretch(chunks[i])
  BY <1>4 DEF Continues
<1>6. PICK whole : whole = Joined(buffer)
  OBVIOUS
<1>7. UNION {Words(c) : c \in ToSet(chunks) \cup {Joined(buffer)}} = 1 .. read
  <2>1. \A w : w \in UNION {Words(c) : c \in ToSet(chunks) \cup {Joined(buffer)}}
                 <=> w \in 1 .. EndOf(chunks) \/ w \in Words(whole)
    BY <1>3, <1>6
  <2>2. CASE buffer = <<>>
    <3>1. Words(whole) = {}
      <4>1. whole = <<>>
        BY <1>6, <2>2 DEF Joined
      <4>2. DOMAIN whole = {}
        BY <4>1
      <4> QED BY <4>2 DEF Words, ToSet
    <3>2. EndOf(chunks) = read
      BY <1>1, <2>2, BufferEnds DEF BufferIsNext
    <3> QED BY <2>1, <3>1, <3>2
  <2>3. CASE buffer # <<>>
    <3>1. /\ IsStretch(whole) /\ Last(whole) = read
          /\ whole[1] <= EndOf(chunks) + 1 /\ EndOf(chunks) <= read
      <4>1. CASE phase = "chunking"
        BY <1>1, <1>6, <2>3, <4>1, BufferEnds
      <4>2. CASE phase # "chunking"
        <5>1. IsStretch(whole) /\ Last(whole) = read /\ EndOf(chunks) = read
          BY <1>1, <1>6, <2>3, <4>2 DEF BufferIsNext
        <5>2. whole[1] \in Nat /\ whole[1] <= read
          BY <5>1, StretchEnds
        <5> QED BY <1>2, <5>1, <5>2
      <4> QED BY <4>1, <4>2
    <3>2. Words(whole) = whole[1] .. read /\ whole[1] \in Nat \ {0}
      BY <3>1, StretchEnds DEF IsStretch
    <3>3. \A w : w \in 1 .. read <=> w \in 1 .. EndOf(chunks) \/ w \in whole[1] .. read
      BY <1>2, <1>3, <3>1, <3>2
    <3> QED BY <2>1, <3>2, <3>3
  <2> QED BY <2>2, <2>3
<1>8. ASSUME phase # "chunking"
      PROVE  read = Total(Lengths) /\ UNION {Words(c) : c \in ToSet(chunks)} = 1 .. read
  <2>1. EndOf(chunks) = read /\ para > Len(text)
    BY <1>1, <1>8 DEF BufferIsNext
  <2>2. /\ Len(text) \in Nat /\ Lengths \in Seq(Nat) /\ Len(Lengths) = Len(text)
    BY <1>2, TextIsNumbers
  <2>3. para - 1 = Len(text) /\ sentence = 0
    <3>1. /\ para \in 1 .. Len(text) + 1
          /\ sentence \in 0..(IF para > Len(text) THEN 0 ELSE Len(text[para]) + 1)
      BY <1>1 DEF IndexTypeOK
    <3>2. sentence \in 0 .. 0
      BY <2>1, <3>1
    <3> QED BY <2>1, <2>2, <3>1, <3>2
  <2>4. Sums(Lengths)[Len(text)] \in Nat
    BY <2>2, SumsGrow
  <2>5. read = Total(Lengths)
    BY <1>1, <2>2, <2>3, <2>4 DEF ReadUpToHere, Total
  <2> QED BY <1>3, <2>1, <2>5
<1>9. ASSUME NEW c \in ToSet(chunks)
      PROVE  /\ Words(c) = Span(c)
             /\ \A i, j \in DOMAIN c : i < j /\ c[i] # Gap /\ c[j] # Gap => c[i] < c[j]
  <2>1. IsStretch(c)
    BY <1>3, <1>5 DEF ToSet
  <2> QED BY <2>1, StretchSpan DEF IsStretch
<1>10. ASSUME NEW i \in 2 .. Len(chunks)
       PROVE  LET shared == Words(chunks[i]) \cap Words(chunks[i - 1]) IN
              /\ Min(Words(chunks[i])) <= Max(Words(chunks[i - 1])) + 1
              /\ Max(Words(chunks[i])) > Max(Words(chunks[i - 1]))
              /\ Cardinality(shared) <= overlap
  <2>1. i \in 1 .. Len(chunks) /\ i - 1 \in 1 .. Len(chunks) /\ i # 1
    BY <1>3
  <2>2. PICK c : c = chunks[i]
    OBVIOUS
  <2>3. PICK b : b = chunks[i - 1]
    OBVIOUS
  <2>4. IsStretch(c) /\ IsStretch(b) /\ Continues(c, Last(b), overlap, Limits)
    BY <1>4, <1>5, <2>1, <2>2, <2>3
  <2>5. PICK f \in Nat, l \in Nat, g \in Nat, m \in Nat :
           f = c[1] /\ l = c[Len(c)] /\ g = b[1] /\ m = b[Len(b)] /\ Last(b) = m
    BY <2>4, StretchEnds
  <2>6. f <= m + 1 /\ m < l /\ m < f + overlap
    BY <2>4, <2>5 DEF Continues
  <2>7. /\ Words(c) = f .. l /\ Words(b) = g .. m
        /\ Min(Words(c)) = f /\ Max(Words(c)) = l /\ Max(Words(b)) = m
    BY <2>4, <2>5, StretchSpan DEF IsStretch
  <2>8. Cardinality(Words(c) \cap Words(b)) <= overlap
    <3>1. PICK S : S = Words(c) \cap Words(b)
      OBVIOUS
    <3>2. S \subseteq f .. m
      BY <2>7, <3>1
    <3>3. IsFiniteSet(f .. m) /\ Cardinality(f .. m) = IF f > m THEN 0 ELSE m - f + 1
      BY SpanCount
    <3>4. IsFiniteSet(S) /\ Cardinality(S) <= Cardinality(f .. m)
      BY <3>2, <3>3, FS_Subset
    <3>5. Cardinality(S) \in Nat
      BY <3>4, FS_CardinalityType
    <3>6. Cardinality(f .. m) <= overlap /\ Cardinality(f .. m) \in Nat
      BY <1>2, <2>6, <3>3
    <3> QED BY <1>2, <3>1, <3>4, <3>5, <3>6
  <2> QED BY <2>2, <2>3, <2>6, <2>7, <2>8
<1>11. ASSUME NEW i \in DOMAIN rows
       PROVE  rows[i].content = chunks[i] /\ rows[i].embedding = chunks[i]
  <2>1. CASE rows = <<>>
    <3>1. DOMAIN rows = {}
      BY <2>1
    <3> QED BY <1>11, <3>1
  <2>2. CASE rows # <<>>
    <3>1. vectors = chunks /\ rows = [j \in DOMAIN chunks |-> Row(j)]
      BY <1>1, <2>2 DEF VectorsAreInOrder
    <3>2. i \in DOMAIN chunks /\ rows[i] = Row(i)
      BY <1>11, <3>1
    <3> QED BY <3>1, <3>2 DEF Row
  <2> QED BY <2>1, <2>2
<1>12. ChunksFollowText
  BY <1>1, <1>7, <1>8, <1>9, <1>10, <1>11 DEF ChunksFollowText
<1> QED BY <1>12

\* And that a chunk is no longer than a limit and the overlap.
LEMMA ChunkInvBounds == ChunkInv => ChunksAreBounded
<1> SUFFICES ASSUME ChunkInv, NEW c \in ToSet(chunks)
             PROVE  \E n \in Limits : Cardinality(Words(c)) <= overlap + n
  BY DEF ChunksAreBounded
<1>1. /\ chunks \in Seq(Seq(Nat) \ {<<>>}) /\ AreChained(chunks, overlap, Limits)
      /\ overlap \in Nat /\ size \in Nat /\ text \in Seq(Seq(Nat \ {0}) \ {<<>>})
  BY SizeAssumption DEF ChunkInv, IndexTypeOK, ChunksAreChained
<1>2. PICK i \in DOMAIN chunks : c = chunks[i]
  BY DEF ToSet
<1>3. IsStretch(c) /\ \E n \in Limits : c[Len(c)] < c[1] + overlap + n
  BY <1>1, <1>2 DEF AreChained, Continues
<1>4. PICK n \in Limits : c[Len(c)] < c[1] + overlap + n
  BY <1>3
<1>5. n \in Nat
  BY <1>1, LimitsAreNumbers
<1>6. PICK f \in Nat, l \in Nat : f = c[1] /\ l = c[Len(c)] /\ f <= l
  BY <1>3, StretchEnds
<1>7. Words(c) = f .. l
  BY <1>3, <1>6 DEF IsStretch
<1>8. Cardinality(f .. l) = l - f + 1
  <2>1. ~(f > l)
    BY <1>6
  <2>2. Cardinality(f .. l) = IF f > l THEN 0 ELSE l - f + 1
    BY SpanCount
  <2> QED BY <2>1, <2>2
<1>9. l - f + 1 <= overlap + n
  <2>1. l < f + overlap + n
    BY <1>4, <1>6
  <2> QED BY <1>1, <1>5, <2>1
<1> QED BY <1>7, <1>8, <1>9

\* The inductive invariant of the loops of chunk_text and of what index_document makes
\* of their chunks.
THEOREM ChunkInvariance == IndexSpec => []ChunkInv
<1>1. ChunkInv /\ [IndexNext]_indexVars => ChunkInv'
  BY NextKeepsChunkInv
<1> QED BY <1>1, InitChunkInv, PTL DEF IndexSpec

\* For any text, whatever chunk size and overlap are asked for: nothing of the text is
\* lost or put out of order, consecutive chunks share at most the overlap, each adds
\* something, and each row holds the vector of its own chunk (chunk_text,
\* index_document).
THEOREM ChunksAreTheText == IndexSpec => []ChunksFollowText
  BY ChunkInvariance, ChunkInvFollows, PTL

\* A chunk exceeds the size asked for by no more than the overlap, and the blank lines
\* between its parts, unless it is one sentence that could not be cut (chunk_text).
THEOREM ChunksStayBounded == IndexSpec => []ChunksAreBounded
  BY ChunkInvariance, ChunkInvBounds, PTL
=============================================================================

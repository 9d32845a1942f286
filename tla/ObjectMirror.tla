---------------------------- MODULE ObjectMirror ----------------------------
(***************************************************************************)
(* backup_objects.py: `python -m app.backup_objects --loop` mirrors the    *)
(* upload bucket into a backup bucket while requests go on uploading and   *)
(* deleting.  It keeps no state between runs: each lists both buckets,     *)
(* copies what the backup lacks and then removes what the source no longer *)
(* has.  One process runs it.                                              *)
(***************************************************************************)
EXTENDS Naturals

CONSTANTS
  Key,
  NoKey,      \* nothing is spooled
  MaxOutages  \* bound of the model: calls that fail, crashes

ASSUME NoKeyAssumption == NoKey \notin Key

ASSUME OutageAssumption == MaxOutages \in Nat

VARIABLES
  bucket,   \* the upload bucket (Bucket)
  backup,   \* keys in the backup bucket
  mirror,   \* where the mirror's run is
  outages

mirrorVars == <<bucket, backup, mirror, outages>>

Source == INSTANCE Bucket WITH file <- bucket

MirrorRun == [phase : {"idle", "listing", "working"}, unread : SUBSET Key,
              source : SUBSET Key, copy : SUBSET Key, spool : Key \cup {NoKey},
              drop : SUBSET Key]
NoMirror == [phase |-> "idle", unread |-> {}, source |-> {},
             copy |-> {}, spool |-> NoKey, drop |-> {}]

MirrorTypeOK ==
  /\ Source!FileType
  /\ backup \subseteq Key
  /\ mirror \in MirrorRun
  /\ outages \in 0 .. MaxOutages

MirrorInit ==
  /\ Source!Init
  /\ backup = {}
  /\ mirror = NoMirror
  /\ outages = 0

-----------------------------------------------------------------------------
\* Uploads and deletions.
Uploading == Source!Next /\ UNCHANGED <<backup, mirror, outages>>

-----------------------------------------------------------------------------
(* backup_objects.mirror: list both buckets, copy, then remove.            *)

StartListing ==
  /\ mirror = NoMirror
  /\ mirror' = [NoMirror EXCEPT !.phase = "listing", !.unread = Key]
  /\ UNCHANGED <<bucket, backup, outages>>

\* A listing comes page by page: each key is in it if it is there when its
\* page is read.
ReadSource(k) ==
  /\ mirror.phase = "listing" /\ k \in mirror.unread
  /\ mirror' = [mirror EXCEPT !.unread = @ \ {k},
                        !.source = IF bucket[k] = "stored" THEN @ \cup {k} ELSE @]
  /\ UNCHANGED <<bucket, backup, outages>>

\* A plausible bug: the first page of the listing is taken for all of it.
Sourced_FirstPage == mirror.phase = "listing" /\ mirror.unread # Key

Sourced == mirror.phase = "listing" /\ mirror.unread = {}

\* A plausible bug: the mirror only ever adds.
ListBackup_NoRemoval ==
  /\ Sourced
  /\ mirror' = [mirror EXCEPT !.phase = "working", !.copy = mirror.source \ backup]
  /\ UNCHANGED <<bucket, backup, outages>>

ListBackup ==
  /\ Sourced
  /\ mirror' = [mirror EXCEPT !.phase = "working",
                        !.copy = mirror.source \ backup,
                        !.drop = backup \ mirror.source]
  /\ UNCHANGED <<bucket, backup, outages>>

Download(k) ==
  /\ mirror.spool = NoKey
  /\ k \in mirror.copy /\ bucket[k] = "stored"
  /\ mirror' = [mirror EXCEPT !.spool = k, !.copy = @ \ {k}]
  /\ UNCHANGED <<bucket, backup, outages>>

\* The object was deleted since it was listed: the run ends there.
DownloadMissing(k) ==
  /\ mirror.spool = NoKey
  /\ k \in mirror.copy /\ bucket[k] # "stored"
  /\ mirror' = NoMirror
  /\ UNCHANGED <<bucket, backup, outages>>

\* A plausible bug: the spooled copy is not written to the destination.
Upload_ToNowhere ==
  /\ mirror.spool # NoKey
  /\ mirror' = [mirror EXCEPT !.spool = NoKey]
  /\ UNCHANGED <<bucket, backup, outages>>

Upload ==
  /\ mirror.spool # NoKey
  /\ backup' = backup \cup {mirror.spool}
  /\ mirror' = [mirror EXCEPT !.spool = NoKey]
  /\ UNCHANGED <<bucket, outages>>

Copied == mirror.phase = "working" /\ mirror.copy = {} /\ mirror.spool = NoKey

RemoveCopy(k) ==
  /\ Copied
  /\ k \in mirror.drop
  /\ backup' = backup \ {k}
  /\ mirror' = [mirror EXCEPT !.drop = @ \ {k}]
  /\ UNCHANGED <<bucket, outages>>

EndMirror ==
  /\ Copied /\ mirror.drop = {}
  /\ mirror' = NoMirror
  /\ UNCHANGED <<bucket, backup, outages>>

AbortMirror ==
  /\ mirror # NoMirror
  /\ outages < MaxOutages
  /\ outages' = outages + 1
  /\ mirror' = NoMirror
  /\ UNCHANGED <<bucket, backup>>

-----------------------------------------------------------------------------
Mirroring ==
  \/ StartListing \/ ListBackup
  \/ \E k \in Key : ReadSource(k)
  \/ \E k \in Key : Download(k) \/ DownloadMissing(k)
  \/ Upload
  \/ \E k \in Key : RemoveCopy(k)
  \/ EndMirror

MirrorNext == Uploading \/ Mirroring \/ AbortMirror

MirrorSpec == MirrorInit /\ [][MirrorNext]_mirrorVars

\* The loop runs again after every interval, and a run that has begun goes on.
FairMirrorSpec == MirrorSpec /\ WF_mirrorVars(Mirroring)

-----------------------------------------------------------------------------
\* The mirror never removes the backup of a file that is still there, however
\* its listings fall among uploads and deletions (mirror, backup_objects.py).
OnlyDeletedLeaveBackup ==
  [][\A k \in backup \ backup' : bucket[k] = "deleted"]_mirrorVars

\* "Removal is what keeps an account or organization deletion from living
\* on in backups forever" (backup_objects.py), even a deletion that comes
\* while its file is being copied.
DeletionsReachBackup ==
  \A k \in Key : bucket[k] = "deleted" ~> [](k \notin backup)

\* And what stays in the upload bucket is copied, though runs end early.
FilesAreBackedUp ==
  \A k \in Key : bucket[k] = "stored" ~> k \in backup \/ bucket[k] = "deleted"

-----------------------------------------------------------------------------
(* What the proofs need.                                                   *)

\* Only keys that were written are copied.
CopiesAreOfFiles ==
  /\ \A k \in backup \cup mirror.source \cup mirror.copy : bucket[k] # "unsaved"
  /\ mirror.spool # NoKey => bucket[mirror.spool] # "unsaved"

\* What the listing of the source passed over, the backup has only of
\* deleted files; nothing else is ever in mirror.drop.
MirrorIsSound ==
  /\ mirror.phase = "listing" =>
       \A k \in backup \ (mirror.source \cup mirror.unread) : bucket[k] = "deleted"
  /\ \A k \in mirror.drop : bucket[k] = "deleted"
  /\ mirror.phase # "working" => mirror.copy = {} /\ mirror.drop = {} /\ mirror.spool = NoKey

MirrorInv == MirrorTypeOK /\ CopiesAreOfFiles /\ MirrorIsSound
=============================================================================

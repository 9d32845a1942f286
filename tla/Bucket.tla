------------------------------- MODULE Bucket -------------------------------
(***************************************************************************)
(* What the upload bucket promises those who read it: storage.save writes  *)
(* every object under a key of its own, storage.delete may come any number *)
(* of times, and nothing is ever written under a key again.                *)
(***************************************************************************)
CONSTANT Key

VARIABLE file   \* per key: its object

FileType == file \in [Key -> {"unsaved", "stored", "deleted"}]

Init == file = [k \in Key |-> "unsaved"]

Save(k) == file[k] = "unsaved" /\ file' = [file EXCEPT ![k] = "stored"]

Delete(k) == file[k] # "unsaved" /\ file' = [file EXCEPT ![k] = "deleted"]

Next == \E k \in Key : Save(k) \/ Delete(k)

Spec == Init /\ [][Next]_file
=============================================================================

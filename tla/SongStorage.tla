---------------------------- MODULE SongStorage ----------------------------
(***************************************************************************)
(* The `songs` bucket behind MapsStorage                                   *)
(* (app/domains/maps/services/storage.py, app/core/storage.py).  The keys  *)
(* of app/domains/maps/configs/storage.py start with the job id, so each   *)
(* map job has three objects of its own.  An upload replaces the object.   *)
(*                                                                         *)
(* Separating a song twice gives two different pairs of stems, so a stem   *)
(* is known by the number of the separation that made it; 0 is "no object".*)
(***************************************************************************)
EXTENDS Naturals, JobStatus

VARIABLE objects

Keys == {"original", "drum", "melody"}

StorageTypeOK == objects \in [Jobs -> [Keys -> Nat]]

StorageInit == objects = [j \in Jobs |-> [k \in Keys |-> 0]]

\* Slip: one directory for all three; an original called drum.wav is the drum
\* stem's file too.
upload_same_dir(j, key, version) ==
  objects' = [objects EXCEPT ![j] =
    [k \in Keys |-> IF k \in {key} \cup (IF key = "drum" THEN {"original"} ELSE {})
                     THEN version
                     ELSE @[k]]]

upload(j, key, version) == objects' = [objects EXCEPT ![j][key] = version]

Stored(j, key) == objects[j][key] # 0
=============================================================================

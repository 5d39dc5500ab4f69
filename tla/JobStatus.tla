----------------------------- MODULE JobStatus -----------------------------
(***************************************************************************)
(* The vocabulary every other module shares: the map jobs and the statuses *)
(* a client can read (app/domains/maps/dtos/api.py).                       *)
(***************************************************************************)

CONSTANT Jobs     \* map jobs, one for each upload

Status   == {"queued", "processing", "completed", "failed"}
Terminal == {"completed", "failed"}
=============================================================================

--------------------------- MODULE MapRepository ---------------------------
(***************************************************************************)
(* The two MongoDB collections behind MapRepository                        *)
(* (app/domains/maps/repositories/repository.py).  Every method is one     *)
(* insert_one or update_one, hence one atomic action; update_one replaces  *)
(* the named fields whatever the document holds: no method is conditional  *)
(* on the status it finds.                                                 *)
(*                                                                         *)
(* A document keeps what the properties tell apart: whether the object key *)
(* and the error are set, and which beatmap the job points to.  Of the     *)
(* timestamps only created_at of a beatmap is kept, which the list is      *)
(* sorted by: the worker reads it from its own clock before the insert, so *)
(* it follows neither the order of the inserts nor the clock of another.   *)
(***************************************************************************)
EXTENDS Naturals, Sequences, JobStatus

CONSTANT
  Clock    \* what a worker may read from its clock

ASSUME ClockAssumption == Clock \subseteq Nat

VARIABLES
  mapJobs,    \* map_jobs: one document for each map job
  beatmaps    \* beatmaps: documents in insertion order, the id is the index

MapJobDoc ==
  [status     : Status \cup {"none"},   \* "none": not inserted yet
   object_key : BOOLEAN,                \* set, or None
   beatmap_id : Nat,                    \* 0: None
   error      : BOOLEAN]                \* set, or None

BeatmapDoc ==
  [job        : Jobs,
   flow       : Nat \ {0},    \* the flow whose results were merged
   drum       : Nat \ {0},    \* the separation the drum notes were taken from
   melody     : Nat \ {0},    \* the separation the melody notes were taken from
   created_at : Clock]

RepositoryTypeOK ==
  /\ mapJobs \in [Jobs -> MapJobDoc]
  /\ beatmaps \in Seq(BeatmapDoc)

NoDoc ==
  [status |-> "none", object_key |-> FALSE, beatmap_id |-> 0, error |-> FALSE]

RepositoryInit ==
  /\ mapJobs  = [j \in Jobs |-> NoDoc]
  /\ beatmaps = << >>

\* Slip: the job starts in a status the API does not declare.
insert_undeclared_status(j) ==
  /\ mapJobs' = [mapJobs EXCEPT ![j] = [NoDoc EXCEPT !.status = "uploading"]]
  /\ UNCHANGED beatmaps

insert_map_job(j) ==
  /\ mapJobs' = [mapJobs EXCEPT ![j] = [NoDoc EXCEPT !.status = "queued"]]
  /\ UNCHANGED beatmaps

set_job_object_key(j) ==
  /\ mapJobs' = [mapJobs EXCEPT ![j].object_key = TRUE]
  /\ UNCHANGED beatmaps

mark_job_processing(j) ==
  /\ mapJobs' = [mapJobs EXCEPT ![j].status = "processing"]
  /\ UNCHANGED beatmaps

\* Slip: the update forgets the beatmap.
mark_job_completed_only(j, b) ==
  /\ mapJobs' = [mapJobs EXCEPT ![j].status = "completed"]
  /\ UNCHANGED beatmaps

mark_job_completed(j, b) ==
  /\ mapJobs' = [mapJobs EXCEPT ![j].status = "completed", ![j].beatmap_id = b]
  /\ UNCHANGED beatmaps

\* Slip: the update forgets the error.
mark_job_failed_only(j) ==
  /\ mapJobs' = [mapJobs EXCEPT ![j].status = "failed"]
  /\ UNCHANGED beatmaps

mark_job_failed(j) ==
  /\ mapJobs' = [mapJobs EXCEPT ![j].status = "failed", ![j].error = TRUE]
  /\ UNCHANGED beatmaps

\* Slip: a job that has a beatmap gets it replaced.
upsert_beatmap(doc) ==
  LET own == {b \in DOMAIN beatmaps : beatmaps[b].job = doc.job}
  IN  /\ beatmaps' = IF own = {} THEN Append(beatmaps, doc)
                     ELSE [beatmaps EXCEPT ![CHOOSE b \in own : TRUE] = doc]
      /\ UNCHANGED mapJobs

insert_beatmap(doc) ==
  /\ beatmaps' = Append(beatmaps, doc)
  /\ UNCHANGED mapJobs

Settled(j) == mapJobs[j].status \in Terminal
=============================================================================

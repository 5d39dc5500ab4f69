---------------------------- MODULE JobLifecycle ----------------------------
(***************************************************************************)
(* What a client polling GET /api/v1/maps/jobs/{job_id} is promised while  *)
(* every task runs once per attempt: a job is queued, then processing,     *)
(* then completed with one beatmap or failed, and its outcome is final.    *)
(***************************************************************************)
EXTENDS JobStatus

VARIABLES
  status,      \* status[j]: what the job document says, "none" before it is there
  published    \* published[j]: the job points to a beatmap

lifecycle == <<status, published>>

LifecycleInit ==
  /\ status = [j \in Jobs |-> "none"]
  /\ published = [j \in Jobs |-> FALSE]

Accept(j) ==
  /\ status[j] = "none"
  /\ status' = [status EXCEPT ![j] = "queued"]
  /\ UNCHANGED published

Process(j) ==
  /\ status[j] = "queued"
  /\ status' = [status EXCEPT ![j] = "processing"]
  /\ UNCHANGED published

Publish(j) ==
  /\ status[j] = "processing"
  /\ status' = [status EXCEPT ![j] = "completed"]
  /\ published' = [published EXCEPT ![j] = TRUE]

GiveUp(j) ==
  /\ status[j] \in {"queued", "processing"}
  /\ status' = [status EXCEPT ![j] = "failed"]
  /\ UNCHANGED published

LifecycleNext == \E j \in Jobs : Accept(j) \/ Process(j) \/ Publish(j) \/ GiveUp(j)

LifecycleSpec == LifecycleInit /\ [][LifecycleNext]_lifecycle
=============================================================================

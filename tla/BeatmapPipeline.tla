-------------------------- MODULE BeatmapPipeline --------------------------
(***************************************************************************)
(* From an upload to a beatmap: the create_map_job request of the API, the *)
(* four job handlers run by the worker processes, and the three stores     *)
(* they share (MongoDB, MinIO and the BullMQ queues in Redis).             *)
(*                                                                         *)
(* A request and a handler run advance from await to await, and `api` and  *)
(* `run` name the await each one is at.  Every awaited call may raise      *)
(* without taking effect (FailAt) or take effect and raise all the same,   *)
(* its reply being lost (LostAt).  Both sets are constants, so a run or a  *)
(* theorem chooses the failures it considers.                              *)
(***************************************************************************)
EXTENDS Integers, Sequences, FiniteSets, JobStatus, BullMQ, MapRepository, SongStorage

CONSTANTS
  WorkerQueue,   \* the queue each worker process serves
  FailAt,        \* awaits that may raise without taking effect
  LostAt,        \* awaits whose reply may be lost after they took effect
  CrashQueues,   \* queues whose worker processes may die
  BlockQueues,   \* queues whose handler may block the event loop until the
                 \* lock of its task lapses
  NoTask         \* the task of an idle worker

ASSUME PipelineAssumption ==
  /\ WorkerQueue \in [Workers -> Queues]
  /\ NoTask \notin Tasks

VARIABLES
  api,           \* api[j]: where the request that creates map job j is
  run,           \* run[w]: the handler run of worker w
  separations    \* separations[j]: stem separations of j so far

vars == <<tasks, mapJobs, beatmaps, objects, api, run, separations>>

-----------------------------------------------------------------------------
(* Program counters.                                                       *)

ApiSteps == {"insert_map_job", "set_object_key", "upload_original", "add_stem"}
ApiPC    == ApiSteps \cup {"validate", "rejected", "accepted", "aborted"}

StemSteps    == {"mark_processing", "download", "upload_drum", "upload_melody",
                 "add_flow"}
BeatmapSteps == {"get_children", "insert_beatmap", "mark_completed"}
HandlerSteps == StemSteps \cup {"detect_kicks", "extract_melody"} \cup BeatmapSteps
RunPC        == HandlerSteps \cup {"return", "mark_failed", "raise", "idle"}

FirstStep(q) ==
  CASE q = "stem"    -> "mark_processing"
    [] q = "kick"    -> "detect_kicks"
    [] q = "melody"  -> "extract_melody"
    [] q = "beatmap" -> "get_children"

\* What a handler run holds in its local variables.
RunRecord ==
  [pc      : RunPC,
   task    : Tasks \cup {NoTask},
   made    : Nat,    \* job.attemptsMade, read when the task was picked up
   drum    : Nat,    \* separation of the drum stem or notes at hand
   melody  : Nat,    \* separation of the melody stem or notes at hand
   beatmap : Nat]    \* id of the beatmap inserted, 0 before

Started(t) ==
  [pc |-> FirstStep(t.queue), task |-> t, made |-> tasks[t].made,
   drum |-> 0, melody |-> 0, beatmap |-> 0]

Idle ==
  [pc |-> "idle", task |-> NoTask, made |-> 0, drum |-> 0, melody |-> 0,
   beatmap |-> 0]

TypeOK ==
  /\ QueueTypeOK
  /\ RepositoryTypeOK
  /\ StorageTypeOK
  /\ api \in [Jobs -> ApiPC]
  /\ run \in [Workers -> RunRecord]
  /\ separations \in [Jobs -> Nat]

Init ==
  /\ QueueInit
  /\ RepositoryInit
  /\ StorageInit
  /\ api = [j \in Jobs |-> "validate"]
  /\ run = [w \in Workers |-> Idle]
  /\ separations = [j \in Jobs |-> 0]

-----------------------------------------------------------------------------
(* The API: MapService.create_map_job.                                     *)

\* An exception leaves the request where it is: nothing is undone and no
\* status is written.
ApiGoto(j, next) ==
  \/ api' = [api EXCEPT ![j] = next]
  \/ /\ api[j] \in LostAt
     /\ api' = [api EXCEPT ![j] = "aborted"]

\* Unsupported type, lane count out of range or file too large: refused
\* before anything is stored.
Validate(j) ==
  /\ api[j] = "validate"
  /\ \E next \in {"insert_map_job", "rejected"} : api' = [api EXCEPT ![j] = next]
  /\ UNCHANGED <<tasks, mapJobs, beatmaps, objects, run, separations>>

InsertMapJob(j) ==
  /\ api[j] = "insert_map_job"
  /\ insert_map_job(j)
  /\ ApiGoto(j, "set_object_key")
  /\ UNCHANGED <<tasks, objects, run, separations>>

SetObjectKey(j) ==
  /\ api[j] = "set_object_key"
  /\ set_job_object_key(j)
  /\ ApiGoto(j, "upload_original")
  /\ UNCHANGED <<tasks, objects, run, separations>>

\* Slip: the upload is started but not awaited.
UploadInBackground(j) ==
  /\ api[j] = "upload_original"
  /\ ApiGoto(j, "add_stem")
  /\ UNCHANGED <<tasks, mapJobs, beatmaps, objects, run, separations>>

UploadOriginal(j) ==
  /\ api[j] = "upload_original"
  /\ upload(j, "original", 1)
  /\ ApiGoto(j, "add_stem")
  /\ UNCHANGED <<tasks, mapJobs, beatmaps, run, separations>>

EnqueueStem(j) ==
  /\ api[j] = "add_stem"
  /\ AddStem(j)
  /\ ApiGoto(j, "accepted")
  /\ UNCHANGED <<mapJobs, beatmaps, objects, run, separations>>

\* The awaited call raises, or the API process stops: the client gets no 202.
AbortRequest(j) ==
  /\ api[j] \in ApiSteps \cap FailAt
  /\ api' = [api EXCEPT ![j] = "aborted"]
  /\ UNCHANGED <<tasks, mapJobs, beatmaps, objects, run, separations>>

Request(j) ==
  \/ Validate(j)
  \/ InsertMapJob(j)
  \/ SetObjectKey(j)
  \/ UploadOriginal(j)
  \/ EnqueueStem(j)

-----------------------------------------------------------------------------
(* Handler runs: what the four handlers share.                             *)

\* Slips: the attempt under way is not counted, or counted twice.
never_final(w) == run[w].made >= Attempts[run[w].task.queue]
final_too_soon(w) == run[w].made + 2 >= Attempts[run[w].task.queue]

\* app/common/job_retry.py: judged on the attempts this run was started with.
is_final_attempt(w) == run[w].made + 1 >= Attempts[run[w].task.queue]

\* Slip: the exception of an attempt that is not the last is swallowed.
SwallowEarly(w) == IF is_final_attempt(w) THEN "mark_failed" ELSE "return"

\* `except Exception` of every handler: mark the job failed on the last
\* attempt, then let BullMQ see the exception.
OnError(w) == IF is_final_attempt(w) THEN "mark_failed" ELSE "raise"

\* The awaited call took effect; it returns, or its reply is lost.
Resume(w, local, next) ==
  \/ run' = [run EXCEPT ![w] = [local EXCEPT !.pc = next]]
  \/ /\ run[w].pc \in LostAt
     /\ run' = [run EXCEPT ![w] = [local EXCEPT !.pc = OnError(w)]]

\* What the awaited call needs is not there: download and _child_result raise.
Missing(w) ==
  LET t == run[w].task
  IN  \/ run[w].pc = "download" /\ ~Stored(t.job, "original")
      \/ /\ run[w].pc = "detect_kicks"
         /\ ~(Stored(t.job, "drum") /\ Stored(t.job, "original"))
      \/ run[w].pc = "extract_melody" /\ ~Stored(t.job, "melody")
      \/ /\ run[w].pc = "get_children"
         /\ \E q \in {"kick", "melody"} :
              tasks[FlowTask(q, t.job, t.flow)].value = 0

Raise(w) ==
  /\ run[w].pc \in HandlerSteps
  /\ run[w].pc \in FailAt \/ Missing(w)
  /\ run' = [run EXCEPT ![w].pc = OnError(w)]
  /\ UNCHANGED <<tasks, mapJobs, beatmaps, objects, api, separations>>

\* mark_failed may raise too; its exception replaces the first one and BullMQ
\* sees a failure either way.
MarkFailed(w) ==
  /\ run[w].pc = "mark_failed"
  /\ \/ mark_job_failed(run[w].task.job)
     \/ "mark_failed" \in FailAt /\ UNCHANGED <<mapJobs, beatmaps>>
  /\ run' = [run EXCEPT ![w].pc = "raise"]
  /\ UNCHANGED <<tasks, objects, api, separations>>

\* The worker picks up a task of its queue, reading the task's attempts.
Start(w) ==
  /\ run[w] = Idle
  /\ \E t \in Tasks :
       /\ t.queue = WorkerQueue[w]
       /\ Lock(t, w)
       /\ run' = [run EXCEPT ![w] = Started(t)]
  /\ UNCHANGED <<mapJobs, beatmaps, objects, api, separations>>

\* A run that has lost its lock cannot settle its task: BullMQ refuses, and
\* whatever the run wrote elsewhere stays.
Result(w) ==
  CASE run[w].task.queue = "kick"   -> run[w].drum
    [] run[w].task.queue = "melody" -> run[w].melody
    [] OTHER                        -> 1

Return(w) ==
  /\ run[w].pc = "return"
  /\ IF tasks[run[w].task].owner = w
     THEN Complete(run[w].task, Result(w))
     ELSE UNCHANGED tasks
  /\ run' = [run EXCEPT ![w] = Idle]
  /\ UNCHANGED <<mapJobs, beatmaps, objects, api, separations>>

Reraise(w) ==
  /\ run[w].pc = "raise"
  /\ IF tasks[run[w].task].owner = w
     THEN Fail(run[w].task, run[w].made)
     ELSE UNCHANGED tasks
  /\ run' = [run EXCEPT ![w] = Idle]
  /\ UNCHANGED <<mapJobs, beatmaps, objects, api, separations>>

-----------------------------------------------------------------------------
(* StemHandler._process.                                                   *)

MarkProcessing(w) ==
  /\ run[w].pc = "mark_processing"
  /\ mark_job_processing(run[w].task.job)
  /\ Resume(w, run[w], "download")
  /\ UNCHANGED <<tasks, objects, api, separations>>

\* Download the song and separate it; the stems stay in the run's own
\* temporary directory.
Separate(w) ==
  LET j == run[w].task.job
      s == separations[j] + 1
  IN  /\ run[w].pc = "download"
      /\ Stored(j, "original")
      /\ s <= MaxFlows
      /\ separations' = [separations EXCEPT ![j] = s]
      /\ run' = [run EXCEPT ![w].pc = "upload_drum",
                            ![w].drum = s,
                            ![w].melody = s]
      /\ UNCHANGED <<tasks, mapJobs, beatmaps, objects, api>>

UploadDrum(w) ==
  /\ run[w].pc = "upload_drum"
  /\ upload(run[w].task.job, "drum", run[w].drum)
  /\ Resume(w, run[w], "upload_melody")
  /\ UNCHANGED <<tasks, mapJobs, beatmaps, api, separations>>

\* Slip: a retry keeps the stem it finds.
UploadMelodyOnce(w) ==
  /\ run[w].pc = "upload_melody"
  /\ IF Stored(run[w].task.job, "melody")
     THEN UNCHANGED objects
     ELSE upload(run[w].task.job, "melody", run[w].melody)
  /\ Resume(w, run[w], "add_flow")
  /\ UNCHANGED <<tasks, mapJobs, beatmaps, api, separations>>

UploadMelody(w) ==
  /\ run[w].pc = "upload_melody"
  /\ upload(run[w].task.job, "melody", run[w].melody)
  /\ Resume(w, run[w], "add_flow")
  /\ UNCHANGED <<tasks, mapJobs, beatmaps, api, separations>>

\* A run adds at most one flow, numbered here by the separation it made
\* (BullMQ gives its tasks fresh ids).
EnqueueFlow(w) ==
  /\ run[w].pc = "add_flow"
  /\ AddFlow(run[w].task.job, run[w].drum)
  /\ Resume(w, run[w], "return")
  /\ UNCHANGED <<mapJobs, beatmaps, objects, api, separations>>

-----------------------------------------------------------------------------
(* KickHandler._process, MelodyHandler._process.                           *)

\* The notes come from whatever stem the bucket holds now.
DetectKicks(w) ==
  LET j == run[w].task.job
  IN  /\ run[w].pc = "detect_kicks"
      /\ Stored(j, "drum") /\ Stored(j, "original")
      /\ run' = [run EXCEPT ![w].pc = "return", ![w].drum = objects[j]["drum"]]
      /\ UNCHANGED <<tasks, mapJobs, beatmaps, objects, api, separations>>

ExtractMelody(w) ==
  LET j == run[w].task.job
  IN  /\ run[w].pc = "extract_melody"
      /\ Stored(j, "melody")
      /\ run' = [run EXCEPT ![w].pc = "return",
                            ![w].melody = objects[j]["melody"]]
      /\ UNCHANGED <<tasks, mapJobs, beatmaps, objects, api, separations>>

-----------------------------------------------------------------------------
(* BeatmapHandler._process and MapJobService.finalize_beatmap.             *)

\* Slip: the job is completed before its beatmap is inserted.
GetChildrenAndComplete(w) ==
  /\ run[w].pc = "get_children"
  /\ run' = [run EXCEPT ![w].pc = "mark_completed"]
  /\ UNCHANGED <<tasks, mapJobs, beatmaps, objects, api, separations>>

\* Slip: results are looked up by map job, and the first flow answers.
GetFirstChildren(w) ==
  LET value(q) == tasks[FlowTask(q, run[w].task.job, 1)].value
  IN  /\ run[w].pc = "get_children"
      /\ value("kick") # 0 /\ value("melody") # 0
      /\ run' = [run EXCEPT ![w].pc = "insert_beatmap",
                            ![w].drum = value("kick"),
                            ![w].melody = value("melody")]
      /\ UNCHANGED <<tasks, mapJobs, beatmaps, objects, api, separations>>

GetChildren(w) ==
  LET value(q) == tasks[FlowTask(q, run[w].task.job, run[w].task.flow)].value
  IN  /\ run[w].pc = "get_children"
      /\ value("kick") # 0 /\ value("melody") # 0
      /\ run' = [run EXCEPT ![w].pc = "insert_beatmap",
                            ![w].drum = value("kick"),
                            ![w].melody = value("melody")]
      /\ UNCHANGED <<tasks, mapJobs, beatmaps, objects, api, separations>>

NewBeatmap(w, now) ==
  [job |-> run[w].task.job, flow |-> run[w].task.flow,
   drum |-> run[w].drum, melody |-> run[w].melody, created_at |-> now]

\* Slip: an insert whose reply is lost is made again at once.
InsertUntilAnswered(w) ==
  /\ run[w].pc = "insert_beatmap"
  /\ \E now \in Clock : insert_beatmap(NewBeatmap(w, now))
  /\ \E next \in {"insert_beatmap", "mark_completed"} :
       run' = [run EXCEPT ![w].pc = next, ![w].beatmap = Len(beatmaps) + 1]
  /\ UNCHANGED <<tasks, objects, api, separations>>

InsertBeatmap(w) ==
  /\ run[w].pc = "insert_beatmap"
  /\ \E now \in Clock : insert_beatmap(NewBeatmap(w, now))
  /\ Resume(w, [run[w] EXCEPT !.beatmap = Len(beatmaps) + 1], "mark_completed")
  /\ UNCHANGED <<tasks, objects, api, separations>>

\* Slip: one more call after the update, and it may raise.
MarkCompletedAndNotify(w) ==
  /\ run[w].pc = "mark_completed"
  /\ mark_job_completed(run[w].task.job, run[w].beatmap)
  /\ \E next \in {"return", OnError(w)} : run' = [run EXCEPT ![w].pc = next]
  /\ UNCHANGED <<tasks, objects, api, separations>>

MarkCompleted(w) ==
  /\ run[w].pc = "mark_completed"
  /\ mark_job_completed(run[w].task.job, run[w].beatmap)
  /\ Resume(w, run[w], "return")
  /\ UNCHANGED <<tasks, objects, api, separations>>

-----------------------------------------------------------------------------
(* Workers die, locks lapse.                                               *)

\* The process is gone with its locals; its lock lapses later.  A new process
\* takes its place, idle.
Crash(w) ==
  /\ run[w] # Idle
  /\ WorkerQueue[w] \in CrashQueues
  /\ run' = [run EXCEPT ![w] = Idle]
  /\ UNCHANGED <<tasks, mapJobs, beatmaps, objects, api, separations>>

Abandoned(t) == run[tasks[t].owner].task # t

\* The lock of an active task lapses and the stalled checker notices: its
\* worker died, or is alive with its event loop blocked and goes on later.
Stall(t) ==
  /\ tasks[t].state = "active"
  /\ Abandoned(t) \/ t.queue \in BlockQueues
  /\ Recover(t)
  /\ UNCHANGED <<mapJobs, beatmaps, objects, api, run, separations>>

HandlerStep(w) ==
  \/ MarkProcessing(w) \/ Separate(w) \/ UploadDrum(w) \/ UploadMelody(w)
  \/ EnqueueFlow(w)
  \/ DetectKicks(w)
  \/ ExtractMelody(w)
  \/ GetChildren(w) \/ InsertBeatmap(w) \/ MarkCompleted(w)
  \/ MarkFailed(w) \/ Return(w) \/ Reraise(w)

Next ==
  \/ \E j \in Jobs : Request(j) \/ AbortRequest(j)
  \/ \E w \in Workers : Start(w) \/ HandlerStep(w) \/ Raise(w) \/ Crash(w)
  \/ \E t \in Tasks : Stall(t)

Spec == Init /\ [][Next]_vars
-----------------------------------------------------------------------------
(* Properties.                                                             *)

\* A job that says completed points to a beatmap, and a beatmap_id never
\* dangles or points to the beatmap of another job, whatever fails: a client
\* that polls and then follows beatmap_id finds its song.
BeatmapIdResolves ==
  \A j \in Jobs :
    LET b == mapJobs[j].beatmap_id
    IN  /\ mapJobs[j].status = "completed" => b # 0
        /\ b # 0 => b \in 1..Len(beatmaps) /\ beatmaps[b].job = j

\* A task is only ever in Redis once everything it reads is in MongoDB and
\* MinIO, so no handler meets a missing object however the enqueuing request
\* or run ended.
StagedBeforeQueued ==
  \A t \in Tasks :
    tasks[t].state # "none" =>
      /\ mapJobs[t.job].status # "none" /\ mapJobs[t.job].object_key
      /\ Stored(t.job, "original")
      /\ t.queue # "stem" => Stored(t.job, "drum") /\ Stored(t.job, "melody")

\* A beatmap merges the results of the two detection tasks of its own flow,
\* both completed, whatever was retried, redelivered or run twice meanwhile.
MergesOwnChildren ==
  \A b \in 1..Len(beatmaps) :
    LET kick   == tasks[FlowTask("kick", beatmaps[b].job, beatmaps[b].flow)]
        melody == tasks[FlowTask("melody", beatmaps[b].job, beatmaps[b].flow)]
    IN  /\ kick.state = "completed" /\ kick.value = beatmaps[b].drum
        /\ melody.state = "completed" /\ melody.value = beatmaps[b].melody

\* A task BullMQ has failed for good has left its error in the job document,
\* unless the stalled checker failed it: no failure the handlers saw is lost
\* between the two places that count attempts.
FailureReported ==
  \A t \in Tasks :
    tasks[t].state = "failed" /\ ~LostToStalls(t) => mapJobs[t.job].error

\* No error is written while BullMQ would still retry: some task of the job
\* is at, or past, its last attempt.
ErrorOnlyWhenExhausted ==
  \A j \in Jobs :
    mapJobs[j].error =>
      \E t \in Tasks : t.job = j /\ tasks[t].made + 1 >= Attempts[t.queue]

\* Drum and melody notes of a beatmap were taken from stems of the same
\* separation, although a retried stem run overwrites the stems in place.
OneSeparation ==
  \A b \in 1..Len(beatmaps) : beatmaps[b].drum = beatmaps[b].melody

\* finalize_beatmap inserts unconditionally, and an attempt that fails after its
\* insert leaves its beatmap in the list.  A song is then listed again, but no
\* more often than attempts at its beatmap task were begun, whatever replies are
\* lost and however often a run is repeated.
Begun(t) ==
  tasks[t].made + tasks[t].stalls
    + (IF tasks[t].state \in {"active", "completed"} THEN 1 ELSE 0)
Listed(t) ==
  {b \in DOMAIN beatmaps : beatmaps[b].job = t.job /\ beatmaps[b].flow = t.flow}
ListedOncePerAttempt ==
  \A t \in Tasks : t.queue = "beatmap" => Cardinality(Listed(t)) <= Begun(t)

\* An accepted job of which no task waits for a worker or has one says completed
\* or failed: MongoDB, not Redis, tells how it ended, and no beatmap task is left
\* waiting for children that are over.
Drained(j) ==
  \A t \in Tasks : t.job = j => tasks[t].state \notin {"wait", "active"}
OutcomeRecorded ==
  \A j \in Jobs : api[j] = "accepted" /\ Drained(j) => Settled(j)

\* No beatmap task is left waiting: while it waits for its children one of them
\* goes on and none has failed, so whichever ends last releases it and whichever
\* fails first takes it along (fail_parent_on_failure), also when children die,
\* stall or are run twice.  Nothing else would ever end such a task.
Expecting(t) ==
  /\ t.queue = "beatmap"
  /\ \A q \in {"kick", "melody"} :
       tasks[FlowTask(q, t.job, t.flow)].state \in {"wait", "active", "completed"}
  /\ \E q \in {"kick", "melody"} :
       tasks[FlowTask(q, t.job, t.flow)].state \in {"wait", "active"}
ParentsAwaitWork == \A t \in Tasks : tasks[t].state = "children" => Expecting(t)

\* An accepted job eventually says completed or failed, unless the stalled
\* checker gave up one of its tasks.
EverySongSettles ==
  \A j \in Jobs :
    api[j] = "accepted" ~>
      (Settled(j) \/ \E t \in Tasks : t.job = j /\ LostToStalls(t))

\* The client's view: the statuses of the documents follow JobLifecycle.
Lifecycle == INSTANCE JobLifecycle WITH
  status    <- [j \in Jobs |-> mapJobs[j].status],
  published <- [j \in Jobs |-> mapJobs[j].beatmap_id # 0]
FollowsLifecycle == Lifecycle!LifecycleSpec
=============================================================================

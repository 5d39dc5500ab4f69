--------------------------- MODULE ServiceProofs ----------------------------
(***************************************************************************)
(* What the service promises, for every number of jobs, workers and        *)
(* attempts: to a client (ReadEndpoints) and to whoever deploys it         *)
(* (WorkerProcess).                                                        *)
(*                                                                         *)
(* What a client was told stays true.  Links stay good and audio stands    *)
(* whatever fails; a song is listed once, and has one outcome, where       *)
(* nothing repeats a run that has had its effect: OneInsert and OneFate    *)
(* name what must not happen.                                              *)
(*                                                                         *)
(* Starting and stopping worker processes keeps the pipeline as it is, and *)
(* no handler run meets a closed client, for any number of processes,      *)
(* signals and jobs and for every choice of failures.  Every theorem about *)
(* the pipeline therefore holds for ProcSpec as well.  Where nothing else  *)
(* fails, stopping processes costs no song an attempt.                     *)
(***************************************************************************)
EXTENDS ReadEndpoints, WorkerProcess, RetryProofs, FiniteSetTheorems

\* A job has one original: every upload of it is of the same file.
OriginalInv == \A j \in Jobs : objects[j]["original"] \in {0, 1}

-----------------------------------------------------------------------------
(* What the steps do to the collections and the bucket.                    *)

\* Only insert_beatmap touches the beatmaps.
LEMMA OnlyInsertsAppend ==
  ASSUME [Next]_vars
  PROVE  UNCHANGED beatmaps \/ \E w \in Workers : InsertBeatmap(w)
<1>1. CASE \E j \in Jobs : Request(j) \/ AbortRequest(j)
  BY <1>1 DEF Request, AbortRequest, Validate, InsertMapJob, insert_map_job,
              SetObjectKey, set_job_object_key, UploadOriginal, EnqueueStem
<1>2. ASSUME NEW w \in Workers, HandlerStep(w), ~InsertBeatmap(w)
      PROVE  UNCHANGED beatmaps
  BY <1>2 DEF HandlerStep, MarkProcessing, mark_job_processing, Separate,
              UploadDrum, UploadMelody, EnqueueFlow, DetectKicks, ExtractMelody,
              GetChildren, MarkCompleted, mark_job_completed, MarkFailed,
              mark_job_failed, Return, Reraise
<1>3. ASSUME NEW w \in Workers, Start(w) \/ Raise(w) \/ Crash(w)
      PROVE  UNCHANGED beatmaps
  BY <1>3 DEF Start, Raise, Crash
<1>4. CASE \E t \in Tasks : Stall(t)
  BY <1>4 DEF Stall
<1>5. CASE UNCHANGED vars
  BY <1>5 DEF vars
<1>. QED  BY <1>1, <1>2, <1>3, <1>4, <1>5 DEF Next

\* Beatmaps are inserted one at a time and never updated or deleted.
LEMMA BeatmapsOnlyGrow ==
  ASSUME [Next]_vars
  PROVE  UNCHANGED beatmaps \/ \E doc : beatmaps' = Append(beatmaps, doc)
BY OnlyInsertsAppend DEF InsertBeatmap, insert_beatmap

\* Handlers upload stems; an original is only uploaded by the request.
LEMMA OriginalsOnlyAppear ==
  ASSUME TypeOK, [Next]_vars, NEW j \in Jobs
  PROVE  objects'[j]["original"] \in {objects[j]["original"], 1}
<1>1. objects \in [Jobs -> [Keys -> Nat]]
  BY DEF TypeOK, StorageTypeOK
<1>2. ASSUME NEW i, NEW k \in {"drum", "melody"}, NEW v, upload(i, k, v)
      PROVE  objects'[j]["original"] = objects[j]["original"]
  BY <1>1, <1>2 DEF upload, Keys
<1>3. ASSUME NEW i \in Jobs, Request(i) \/ AbortRequest(i)
      PROVE  objects'[j]["original"] \in {objects[j]["original"], 1}
  <2>1. CASE UploadOriginal(i)
    BY <1>1, <2>1 DEF UploadOriginal, upload, Keys
  <2>2. CASE ~UploadOriginal(i)
    BY <1>3, <2>2 DEF Request, AbortRequest, Validate, InsertMapJob, SetObjectKey,
                      EnqueueStem
  <2>. QED  BY <2>1, <2>2
<1>4. ASSUME NEW w \in Workers, HandlerStep(w)
      PROVE  objects'[j]["original"] = objects[j]["original"]
  <2>1. CASE UploadDrum(w) \/ UploadMelody(w)
    BY <1>2, <2>1 DEF UploadDrum, UploadMelody
  <2>2. CASE ~(UploadDrum(w) \/ UploadMelody(w))
    BY <1>4, <2>2 DEF HandlerStep, MarkProcessing, Separate, EnqueueFlow,
         DetectKicks, ExtractMelody, GetChildren, InsertBeatmap, MarkCompleted,
         MarkFailed, Return, Reraise
  <2>. QED  BY <2>1, <2>2
<1>5. ASSUME NEW w \in Workers, Start(w) \/ Raise(w) \/ Crash(w)
      PROVE  UNCHANGED objects
  BY <1>5 DEF Start, Raise, Crash
<1>6. CASE \E t \in Tasks : Stall(t)
  BY <1>6 DEF Stall
<1>7. CASE UNCHANGED vars
  BY <1>7 DEF vars
<1>. QED  BY <1>3, <1>4, <1>5, <1>6, <1>7 DEF Next

\* Every original keeps its one version.
LEMMA OriginalInvariant == Spec => []OriginalInv
<1>1. Init => OriginalInv
  <2>1. Init => objects = [j \in Jobs |-> [k \in Keys |-> 0]]
    BY DEF Init, StorageInit
  <2>. QED  BY <2>1 DEF OriginalInv, Keys
<1>2. TypeOK /\ OriginalInv /\ [Next]_vars => OriginalInv'
  <2>. SUFFICES ASSUME TypeOK, OriginalInv, [Next]_vars, NEW j \in Jobs
                PROVE  objects'[j]["original"] \in {0, 1}
    BY DEF OriginalInv
  <2>1. objects[j]["original"] \in {0, 1}
    BY DEF OriginalInv
  <2>2. objects'[j]["original"] \in {objects[j]["original"], 1}
    BY OriginalsOnlyAppear
  <2>. QED  BY <2>1, <2>2
<1>. QED  BY <1>1, <1>2, TypeCorrect, PTL DEF Spec

\* The audio of a beatmap is in the bucket: its kick task was queued after it.
LEMMA BeatmapHasAudio ==
  ASSUME PipelineInv, NEW b \in DOMAIN beatmaps
  PROVE  beatmaps[b].job \in Jobs /\ Stored(beatmaps[b].job, "original")
<1>1. beatmaps \in Seq(BeatmapDoc) /\ b \in 1..Len(beatmaps)
  BY DEF PipelineInv, TypeOK, RepositoryTypeOK
<1>2. beatmaps[b].job \in Jobs /\ beatmaps[b].flow \in 1..MaxFlows
  <2>1. beatmaps[b] \in BeatmapDoc
    BY <1>1
  <2>. QED  BY <1>1, <2>1 DEF PipelineInv, FlowInv, BeatmapDoc
<1> DEFINE kick == FlowTask("kick", beatmaps[b].job, beatmaps[b].flow)
<1>3. kick \in Tasks /\ kick.job = beatmaps[b].job
  BY <1>2, FlowTaskType, FlowTaskFields DEF FlowQueues
<1>4. tasks[kick].state = "completed"
  BY <1>1 DEF PipelineInv, MergesOwnChildren
<1>. HIDE DEF kick
<1>. QED  BY <1>2, <1>3, <1>4 DEF PipelineInv, StagedBeforeQueued

-----------------------------------------------------------------------------
(* What follows for every instance.                                        *)

\* The audio behind a beatmap is in the bucket and never replaced: the
\* retries of StemHandler upload stems under keys of their own.
THEOREM AudioSafe == Spec => AudioStands
<1> DEFINE Stands == \A b \in DOMAIN beatmaps :
                       LET url == get_beatmap(b).audio_url
                       IN  /\ Stored(url[1], url[2])
                           /\ objects'[url[1]][url[2]] = objects[url[1]][url[2]]
<1>1. PipelineInv /\ OriginalInv /\ [Next]_vars => Stands
  <2>. SUFFICES ASSUME PipelineInv, OriginalInv, [Next]_vars, NEW b \in DOMAIN beatmaps
                PROVE  LET url == get_beatmap(b).audio_url
                       IN  /\ Stored(url[1], url[2])
                           /\ objects'[url[1]][url[2]] = objects[url[1]][url[2]]
    OBVIOUS
  <2>1. get_beatmap(b).audio_url = <<beatmaps[b].job, "original">>
    BY DEF get_beatmap, to_beatmap
  <2>2. beatmaps[b].job \in Jobs /\ Stored(beatmaps[b].job, "original")
    BY BeatmapHasAudio
  <2>3. objects'[beatmaps[b].job]["original"] = objects[beatmaps[b].job]["original"]
    BY <2>2, OriginalsOnlyAppear DEF OriginalInv, Stored, PipelineInv
  <2>. QED  BY <2>1, <2>2, <2>3
<1>. QED  BY <1>1, PipelineInvariant, OriginalInvariant, PTL DEF Spec, AudioStands

\* What get_beatmap answered it goes on answering, and entries of different
\* times keep their order in every later list, whatever the clocks of the workers
\* say: MapRepository has no method that updates or deletes a beatmap.
THEOREM LinksSafe == Spec => LinksStand
<1> DEFINE Stand == /\ \A b \in DOMAIN beatmaps : get_beatmap(b)' = get_beatmap(b)
                    /\ \A before \in list_beatmaps, after \in list_beatmaps' :
                         StillShown(before, after)
<1>1. TypeOK /\ TypeOK' /\ [Next]_vars => Stand
  <2>. SUFFICES ASSUME TypeOK, TypeOK', [Next]_vars PROVE Stand
    OBVIOUS
  <2>1. /\ Len(beatmaps) \in Nat /\ DOMAIN beatmaps = 1..Len(beatmaps)
        /\ Len(beatmaps') \in Nat /\ DOMAIN beatmaps' = 1..Len(beatmaps')
        /\ beatmaps \in Seq(BeatmapDoc)
    BY DEF TypeOK, RepositoryTypeOK
  <2>2. /\ Len(beatmaps) <= Len(beatmaps')
        /\ \A b \in 1..Len(beatmaps) : beatmaps'[b] = beatmaps[b]
    <3>1. CASE UNCHANGED beatmaps
      BY <2>1, <3>1
    <3>2. CASE \E doc : beatmaps' = Append(beatmaps, doc)
      BY <2>1, <3>2
    <3>. QED  BY <3>1, <3>2, BeatmapsOnlyGrow
  <2>3. DOMAIN beatmaps \subseteq DOMAIN beatmaps'
    BY <2>1, <2>2
  <2>4. \A b \in DOMAIN beatmaps : to_beatmap(b)' = to_beatmap(b)
    BY <2>1, <2>2 DEF to_beatmap
  <2>5. \A b \in DOMAIN beatmaps : get_beatmap(b)' = get_beatmap(b)
    BY <2>3, <2>4 DEF get_beatmap
  <2>6. ASSUME NEW before \in list_beatmaps, NEW after \in list_beatmaps'
        PROVE  StillShown(before, after)
    <3>1. PICK ids \in Cursors : before = [i \in DOMAIN ids |-> to_beatmap(ids[i])]
      BY DEF list_beatmaps
    <3>2. PICK new \in Cursors' : after = [i \in DOMAIN new |-> to_beatmap(new[i])']
      BY DEF list_beatmaps
    <3>3. /\ ids \in [1..Len(beatmaps) -> DOMAIN beatmaps]
          /\ new \in [1..Len(beatmaps') -> DOMAIN beatmaps']
          /\ Range(new) = DOMAIN beatmaps'
          /\ \A m, n \in DOMAIN new :
               m < n => beatmaps'[new[m]].created_at >= beatmaps'[new[n]].created_at
      BY DEF Cursors, NewestFirst
    <3>4. ASSUME NEW i \in DOMAIN before
          PROVE  /\ ids[i] \in DOMAIN beatmaps /\ before[i] = to_beatmap(ids[i])
                 /\ before[i].created_at = beatmaps[ids[i]].created_at
                 /\ beatmaps[ids[i]].created_at \in Nat
                 /\ \E m \in DOMAIN new : new[m] = ids[i]
      <4>1. ids[i] \in DOMAIN beatmaps /\ before[i] = to_beatmap(ids[i])
        BY <3>1, <3>3
      <4>2. beatmaps[ids[i]] \in BeatmapDoc
        BY <2>1, <4>1
      <4>3. beatmaps[ids[i]].created_at \in Nat
        BY <4>2, ClockAssumption DEF BeatmapDoc
      <4>4. ids[i] \in Range(new)
        BY <2>3, <3>3, <4>1
      <4>. QED  BY <4>1, <4>3, <4>4 DEF to_beatmap, Range
    <3>5. ASSUME NEW i \in DOMAIN before, NEW k \in DOMAIN before
          PROVE  \E m, n \in DOMAIN after :
                   /\ after[m] = before[i] /\ after[n] = before[k]
                   /\ before[i].created_at > before[k].created_at => m < n
      <4>1. PICK m \in DOMAIN new : new[m] = ids[i]
        BY <3>4
      <4>2. PICK n \in DOMAIN new : new[n] = ids[k]
        BY <3>4
      <4>3. m \in DOMAIN after /\ n \in DOMAIN after
        BY <3>2, <4>1, <4>2
      <4>4. after[m] = before[i] /\ after[n] = before[k]
        BY <2>4, <3>2, <3>4, <4>1, <4>2
      <4>5. m \in Int /\ n \in Int
        BY <2>1, <3>3
      <4>6. ASSUME before[i].created_at > before[k].created_at PROVE m < n
        <5> DEFINE ci == beatmaps[ids[i]].created_at
                   ck == beatmaps[ids[k]].created_at
        <5>1. ci \in Nat /\ ck \in Nat /\ ci > ck
          BY <3>4, <4>6
        <5>2. ASSUME n < m PROVE ck >= ci
          <6>1. beatmaps'[new[n]].created_at >= beatmaps'[new[m]].created_at
            BY <3>3, <5>2
          <6>2. /\ beatmaps'[new[n]] = beatmaps[ids[k]]
                /\ beatmaps'[new[m]] = beatmaps[ids[i]]
            BY <2>1, <2>2, <3>4, <4>1, <4>2
          <6>. QED  BY <6>1, <6>2
        <5>3. ASSUME n = m PROVE ci = ck
          BY <4>1, <4>2, <5>3
        <5>. HIDE DEF ci, ck
        <5>. QED  BY <4>5, <5>1, <5>2, <5>3
      <4>. QED  BY <4>3, <4>4, <4>6
    <3>. QED  BY <3>5 DEF StillShown
  <2>. QED  BY <2>5, <2>6
<1>. QED  BY <1>1, TypeCorrect, PTL DEF Spec, LinksStand

-----------------------------------------------------------------------------
(* How often a song is listed.                                             *)

\* Runs of task t that have their insert ahead of them.
Pending(t) ==
  {w \in Workers : run[w].task = t /\ run[w].pc \in {"get_children", "insert_beatmap"}}

\* An attempt that was begun has inserted one beatmap at most, and none while its
\* run is pending.
AttemptInserts(t) ==
  /\ IsFiniteSet(Listed(t)) /\ IsFiniteSet(Pending(t))
  /\ Cardinality(Listed(t)) + Cardinality(Pending(t)) <= Begun(t)

ListingInv == \A t \in Tasks : t.queue = "beatmap" => AttemptInserts(t)

LEMMA BegunType ==
  ASSUME QueueTypeOK, NEW t \in Tasks PROVE Begun(t) \in Nat
<1>1. tasks[t].made \in Nat /\ tasks[t].stalls \in Nat
  BY DEF QueueTypeOK, TaskRecord
<1>. QED  BY <1>1 DEF Begun

\* An attempt is begun when its task is locked; what ends it counts it.
LEMMA BegunMoves ==
  ASSUME AttemptsInv, [Next]_vars, NEW t \in Tasks, t.queue = "beatmap"
  PROVE  /\ Begun(t)' >= Begun(t)
         /\ \A w \in Workers : Start(w) /\ run'[w].task = t => Begun(t)' = Begun(t) + 1
<1>1. /\ QueueTypeOK /\ tasks \in [Tasks -> TaskRecord] /\ run \in [Workers -> RunRecord]
      /\ tasks[t] \in TaskRecord
      /\ tasks[t].made \in Nat /\ tasks[t].stalls \in Nat
  BY DEF AttemptsInv, PipelineInv, TypeOK, QueueTypeOK, TaskRecord
<1>2. ASSUME tasks'[t].state \notin {"active", "completed"},
             tasks[t].state \notin {"active", "completed"}, Uncounted(t)
      PROVE  Begun(t)' = Begun(t)
  BY <1>2 DEF Begun, Uncounted
<1>3. ASSUME tasks'[t] = tasks[t] PROVE Begun(t)' = Begun(t)
  BY <1>3 DEF Begun
<1>4. ASSUME NEW w \in Workers, Start(w)
      PROVE  IF run'[w].task = t THEN Begun(t)' = Begun(t) + 1 ELSE Begun(t)' = Begun(t)
  <2>1. PICK u \in Tasks : Lock(u, w) /\ run' = [run EXCEPT ![w] = Started(u)]
    BY <1>4 DEF Start
  <2>2. run'[w].task = u
    BY <1>1, <2>1 DEF Started
  <2>3. CASE u = t
    <3>1. /\ tasks[t].state = "wait" /\ tasks'[t].state = "active"
          /\ tasks'[t].made = tasks[t].made /\ tasks'[t].stalls = tasks[t].stalls
      BY <1>1, <2>1, <2>3 DEF Lock, TaskRecord
    <3>. QED  BY <1>1, <2>2, <2>3, <3>1 DEF Begun
  <2>4. CASE u # t
    <3>1. tasks'[t] = tasks[t]
      BY <1>1, <2>1, <2>4 DEF Lock
    <3>. QED  BY <1>3, <2>2, <2>4, <3>1
  <2>. QED  BY <2>3, <2>4
<1>5. ASSUME NEW j \in Jobs, EnqueueStem(j) PROVE Begun(t)' = Begun(t)
  <2>1. tasks'[t] = tasks[t]
    BY <1>1, <1>5 DEF EnqueueStem, AddStem, StemTask
  <2>. QED  BY <1>3, <2>1
<1>6. ASSUME NEW w \in Workers, EnqueueFlow(w) PROVE Begun(t)' = Begun(t)
  <2> DEFINE j == run[w].task.job
             n == run[w].drum
  <2>1. /\ AddFlow(j, n) /\ n \in 1..MaxFlows /\ j \in Jobs
        /\ \A q \in FlowQueues : tasks[FlowTask(q, j, n)].state = "none"
    BY <1>6, TaskFields DEF EnqueueFlow, AttemptsInv, PipelineInv, RunInv, Staging, NoFlow
  <2>2. CASE t = FlowTask("beatmap", j, n)
    <3>1. tasks[t].state = "none"
      BY <2>1, <2>2 DEF FlowQueues
    <3>2. t # FlowTask("kick", j, n) /\ t # FlowTask("melody", j, n)
      BY <2>2 DEF FlowTask
    <3>3. tasks'[t] = [tasks[t] EXCEPT !.state = "children"]
      <4>. HIDE DEF j, n
      <4>. QED  BY <1>1, <2>1, <2>2, <3>2 DEF AddFlow
    <3>4. tasks'[t].state = "children" /\ Uncounted(t)
      BY <1>1, <3>3 DEF Uncounted, TaskRecord
    <3>. QED  BY <1>2, <3>1, <3>4
  <2>3. CASE t # FlowTask("beatmap", j, n)
    <3>1. \A q \in FlowQueues : t # FlowTask(q, j, n)
      BY <2>3 DEF FlowQueues, FlowTask
    <3>2. tasks'[t] = tasks[t]
      BY <2>1, <3>1, AddFlowKeeps DEF AttemptsInv, PipelineInv, TypeOK
    <3>. QED  BY <1>3, <3>2
  <2>. QED  BY <2>2, <2>3
<1>7. ASSUME NEW u \in Tasks, Stall(u), Releases(u) PROVE Begun(t)' = Begun(t)
  <2>1. Recover(u) /\ tasks[u].state = "active"
    BY <1>7 DEF Stall
  <2>2. CASE u = t
    <3>1. /\ tasks'[t].made = tasks[t].made /\ tasks'[t].stalls = tasks[t].stalls + 1
          /\ tasks'[t].state \in {"wait", "failed"}
      BY <1>1, <1>7, <2>1, <2>2, RecoverCounts DEF Releases
    <3>. QED  BY <1>1, <2>1, <2>2, <3>1 DEF Begun
  <2>3. CASE u # t
    <3>1. Uncounted(t)
      BY <1>1, <2>1, <2>3, RecoverCounts
    <3>2. \/ tasks'[t] = tasks[t]
          \/ tasks[t].state = "children" /\ tasks'[t].state = "failed"
      BY <1>7, <2>3 DEF Releases
    <3>. QED  BY <1>2, <1>3, <3>1, <3>2
  <2>. QED  BY <2>2, <2>3
<1>8. ASSUME NEW w \in Workers, Settles(w, run[w].task), run[w].task \in Tasks
      PROVE  Begun(t)' = Begun(t)
  <2> DEFINE u == run[w].task
  <2>1. tasks[u].owner = w /\ tasks[u].state = "active" /\ run[w].made \in Nat
    BY <1>1, <1>8 DEF Settles, RunRecord
  <2>2. CASE Return(w) /\ Finishes(u)
    <3>1. Complete(u, Result(w))
      BY <2>1, <2>2 DEF Return
    <3>2. /\ tasks'[u].made = tasks[u].made /\ tasks'[u].stalls = tasks[u].stalls
          /\ \A v \in Tasks \ {u} : Uncounted(v)
      BY <1>1, <1>8, <3>1, CompleteCounts
    <3>3. CASE u = t
      BY <2>1, <2>2, <3>2, <3>3 DEF Begun, Finishes
    <3>4. CASE u # t
      BY <1>2, <1>3, <2>2, <3>2, <3>4 DEF Finishes
    <3>. QED  BY <3>3, <3>4
  <2>3. CASE Reraise(w) /\ Releases(u)
    <3>1. Fail(u, run[w].made)
      BY <2>1, <2>3 DEF Reraise
    <3>2. /\ tasks'[u].made = run[w].made + 1 /\ tasks'[u].stalls = tasks[u].stalls
          /\ \A v \in Tasks \ {u} : Uncounted(v)
      BY <1>1, <1>8, <2>1, <3>1, FailCounts
    <3>3. run[w].made = tasks[u].made
      BY <2>1, <2>3 DEF AttemptsInv, CountInv, Reraise
    <3>4. CASE u = t
      <4>1. tasks'[t].state \in {"wait", "failed"}
        BY <2>3, <3>4 DEF Releases
      <4>. QED  BY <1>1, <2>1, <3>2, <3>3, <3>4, <4>1 DEF Begun
    <3>5. CASE u # t
      BY <1>2, <1>3, <2>3, <3>2, <3>5 DEF Releases
    <3>. QED  BY <3>4, <3>5
  <2>. QED  BY <1>8, <2>2, <2>3 DEF Settles
<1>9. ASSUME tasks' = tasks PROVE Begun(t)' = Begun(t)
  BY <1>3, <1>9
<1>10. Begun(t) \in Nat
  BY <1>1, BegunType
<1>11. Begun(t)' >= Begun(t)
  <2>1. \/ Begun(t)' = Begun(t)
        \/ \E w \in Workers : Start(w)
    BY <1>5, <1>6, <1>7, <1>8, <1>9, TasksMove
  <2>. QED  BY <1>4, <1>10, <2>1
<1>. QED  BY <1>4, <1>11

\* A run becomes pending when it starts.
LEMMA PendingMoves ==
  ASSUME AttemptsInv, [Next]_vars, NEW t \in Tasks, t.queue = "beatmap",
         NEW v \in Workers, v \in Pending(t)', v \notin Pending(t)
  PROVE  Start(v) /\ run'[v].task = t
<1>1. run'[v].task = t /\ run'[v].pc \in {"get_children", "insert_beatmap"}
  BY DEF Pending
<1>2. run'[v] # run[v]
  BY <1>1 DEF Pending
<1>3. run \in [Workers -> RunRecord] /\ run[v] \in RunRecord
  BY DEF AttemptsInv, PipelineInv, TypeOK
<1>4. OnError(v) \notin {"get_children", "insert_beatmap"}
  BY DEF OnError
<1>5. ASSUME NEW local \in RunRecord, NEW next,
             next \notin {"get_children", "insert_beatmap"}, Resume(v, local, next)
      PROVE  FALSE
  BY <1>1, <1>3, <1>4, <1>5 DEF Resume, RunRecord
<1>6. CASE Raise(v) \/ Crash(v) \/ MarkFailed(v) \/ Return(v) \/ Reraise(v)
  BY <1>1, <1>3, <1>4, <1>6 DEF Raise, Crash, MarkFailed, Return, Reraise, Idle, RunRecord
<1>7. CASE MarkProcessing(v) \/ UploadDrum(v) \/ UploadMelody(v) \/ EnqueueFlow(v)
           \/ MarkCompleted(v)
  BY <1>3, <1>5, <1>7 DEF MarkProcessing, UploadDrum, UploadMelody, EnqueueFlow,
                          MarkCompleted
<1>8. CASE InsertBeatmap(v)
  <2>1. Len(beatmaps) + 1 \in Nat
    <3>1. Len(beatmaps) \in Nat
      BY DEF AttemptsInv, PipelineInv, TypeOK, RepositoryTypeOK
    <3>. QED  BY <3>1
  <2>2. ASSUME NEW n \in Nat PROVE [run[v] EXCEPT !.beatmap = n] \in RunRecord
    BY <1>3 DEF RunRecord
  <2>3. [run[v] EXCEPT !.beatmap = Len(beatmaps) + 1] \in RunRecord
    BY <2>1, <2>2
  <2>. QED  BY <1>5, <1>8, <2>3 DEF InsertBeatmap
<1>9. CASE Separate(v)
  BY <1>1, <1>3, <1>9 DEF Separate, RunRecord
<1>10. CASE DetectKicks(v) \/ ExtractMelody(v)
  BY <1>1, <1>3, <1>10 DEF DetectKicks, ExtractMelody, RunRecord
<1>11. ASSUME GetChildren(v) PROVE FALSE
  <2>1. run[v].pc = "get_children"
    BY <1>11 DEF GetChildren
  <2>2. run'[v].task = run[v].task
    BY <1>11, HandlersGoOn DEF GoesOn
  <2>. QED  BY <1>1, <2>1, <2>2 DEF Pending
<1>. QED  BY <1>1, <1>2, <1>6, <1>7, <1>8, <1>9, <1>10, <1>11, OneRunMoves DEF HandlerStep

\* Only one run starts in a step.
LEMMA OneStarts ==
  ASSUME AttemptsInv, NEW v \in Workers, NEW w \in Workers, Start(v), Start(w)
  PROVE  v = w
<1>. SUFFICES ASSUME v # w PROVE FALSE
  OBVIOUS
<1>1. run'[w] = run[w] /\ run[w] = Idle
  BY DEF Start, AttemptsInv, PipelineInv, TypeOK
<1>2. PICK t \in Tasks : run'[w] = Started(t)
  BY DEF Start, AttemptsInv, PipelineInv, TypeOK
<1>3. Started(t).task = t /\ Idle.task = NoTask
  BY DEF Started, Idle
<1>. QED  BY <1>1, <1>2, <1>3, PipelineAssumption

LEMMA ListingNext ==
  ASSUME AttemptsInv, ListingInv, [Next]_vars
  PROVE  ListingInv'
<1>. SUFFICES ASSUME NEW t \in Tasks, t.queue = "beatmap" PROVE AttemptInserts(t)'
  BY DEF ListingInv
<1> DEFINE listed  == Listed(t)
           listedN == Listed(t)'
           pending  == Pending(t)
           pendingN == Pending(t)'
           begun  == Begun(t)
           begunN == Begun(t)'
<1>1. /\ IsFiniteSet(listed) /\ IsFiniteSet(pending)
      /\ Cardinality(listed) + Cardinality(pending) <= begun
  BY DEF ListingInv, AttemptInserts
<1>2. /\ Cardinality(listed) \in Nat /\ Cardinality(pending) \in Nat
      /\ begun \in Nat /\ begunN \in Nat /\ begunN >= begun
  <2>1. QueueTypeOK /\ QueueTypeOK'
    BY AttemptsNext DEF AttemptsInv, PipelineInv, TypeOK
  <2>2. Begun(t) \in Nat
    BY <2>1, BegunType
  <2>3. Begun(t)' \in Nat
    <3>1. tasks'[t].made \in Nat /\ tasks'[t].stalls \in Nat
      BY <2>1 DEF QueueTypeOK, TaskRecord
    <3>. QED  BY <3>1 DEF Begun
  <2>. QED  BY <1>1, <2>2, <2>3, BegunMoves, FS_CardinalityType
<1>3. CASE \E w \in Workers : InsertBeatmap(w) /\ run[w].task = t
  <2>1. PICK w \in Workers : InsertBeatmap(w) /\ run[w].task = t
    BY <1>3
  <2>2. PICK now \in Clock : beatmaps' = Append(beatmaps, NewBeatmap(w, now))
    BY <2>1 DEF InsertBeatmap, insert_beatmap
  <2>3. beatmaps \in Seq(BeatmapDoc) /\ Len(beatmaps) \in Nat
    BY DEF AttemptsInv, PipelineInv, TypeOK, RepositoryTypeOK
  <2>4. listedN \subseteq listed \cup {Len(beatmaps) + 1}
    <3>1. \A b \in DOMAIN beatmaps' :
            \/ b \in DOMAIN beatmaps /\ beatmaps'[b] = beatmaps[b]
            \/ b = Len(beatmaps) + 1
      BY <2>2, <2>3
    <3>. QED  BY <3>1 DEF Listed
  <2>5. w \in pending
    BY <2>1 DEF Pending, InsertBeatmap
  <2>6. run \in [Workers -> RunRecord] /\ run[w] \in RunRecord
    BY DEF AttemptsInv, PipelineInv, TypeOK
  <2>7. run'[w].pc \notin {"get_children", "insert_beatmap"}
    <3> DEFINE local == [run[w] EXCEPT !.beatmap = Len(beatmaps) + 1]
    <3>1. Resume(w, local, "mark_completed")
      BY <2>1 DEF InsertBeatmap
    <3>2. "pc" \in DOMAIN local
      BY <2>6 DEF RunRecord
    <3>. HIDE DEF local
    <3>3. \/ run'[w] = [local EXCEPT !.pc = "mark_completed"]
          \/ run'[w] = [local EXCEPT !.pc = OnError(w)]
      BY <2>6, <3>1 DEF Resume
    <3>4. \A pc : [local EXCEPT !.pc = pc].pc = pc
      BY <3>2
    <3>. QED  BY <3>3, <3>4 DEF OnError
  <2>8. pendingN \subseteq pending \ {w}
    <3>1. ASSUME NEW v \in Workers, Start(v) PROVE FALSE
      <4>1. beatmaps' = beatmaps
        BY <3>1 DEF Start
      <4>2. Len(beatmaps') = Len(beatmaps) + 1
        BY <2>2, <2>3
      <4>. QED  BY <2>3, <4>1, <4>2
    <3>. QED  BY <2>7, <3>1, PendingMoves DEF Pending
  <2>9. /\ IsFiniteSet(listed \cup {Len(beatmaps) + 1})
        /\ Cardinality(listed \cup {Len(beatmaps) + 1}) <= Cardinality(listed) + 1
    <3> DEFINE x == Len(beatmaps) + 1
    <3>. HIDE DEF listed, x
    <3>1. /\ IsFiniteSet(listed \cup {x})
          /\ Cardinality(listed \cup {x}) =
               IF x \in listed THEN Cardinality(listed) ELSE Cardinality(listed) + 1
      BY <1>1, FS_AddElement
    <3>2. Cardinality(listed \cup {x}) <= Cardinality(listed) + 1
      BY <1>2, <3>1
    <3>. QED  BY <3>1, <3>2 DEF x
  <2>10. /\ IsFiniteSet(pending \ {w})
         /\ Cardinality(pending \ {w}) = Cardinality(pending) - 1
    BY <1>1, <2>5, FS_RemoveElement
  <2>. HIDE DEF listed, listedN, pending, pendingN, begun, begunN
  <2>11. IsFiniteSet(listedN) /\ Cardinality(listedN) <= Cardinality(listed) + 1
         /\ Cardinality(listedN) \in Nat
    BY <1>2, <2>4, <2>9, FS_Subset, FS_CardinalityType
  <2>12. IsFiniteSet(pendingN) /\ Cardinality(pendingN) <= Cardinality(pending) - 1
         /\ Cardinality(pendingN) \in Nat
    BY <1>2, <2>8, <2>10, FS_Subset, FS_CardinalityType
  <2>13. Cardinality(listedN) + Cardinality(pendingN) <= begunN
    BY <1>1, <1>2, <2>11, <2>12
  <2>. QED
    BY <2>11, <2>12, <2>13 DEF AttemptInserts, listedN, pendingN, begunN
<1>4. CASE ~\E w \in Workers : InsertBeatmap(w) /\ run[w].task = t
  <2>1. listedN = listed
    <3>1. CASE UNCHANGED beatmaps
      BY <3>1 DEF Listed
    <3>2. ASSUME NEW w \in Workers, InsertBeatmap(w) PROVE listedN = listed
      <4>1. PICK now \in Clock : beatmaps' = Append(beatmaps, NewBeatmap(w, now))
        BY <3>2 DEF InsertBeatmap, insert_beatmap
      <4>2. beatmaps \in Seq(BeatmapDoc) /\ Len(beatmaps) \in Nat
        BY DEF AttemptsInv, PipelineInv, TypeOK, RepositoryTypeOK
      <4>3. run[w].task \in Tasks /\ run[w].task.queue = "beatmap" /\ run[w].task # t
        BY <1>4, <3>2, TaskFields
        DEF AttemptsInv, PipelineInv, RunInv, InsertBeatmap, BeatmapSteps
      <4>4. ~(run[w].task.job = t.job /\ run[w].task.flow = t.flow)
        BY <4>3, TaskFields
      <4>5. /\ DOMAIN beatmaps' = DOMAIN beatmaps \cup {Len(beatmaps) + 1}
            /\ \A b \in DOMAIN beatmaps : beatmaps'[b] = beatmaps[b]
            /\ beatmaps'[Len(beatmaps) + 1] = NewBeatmap(w, now)
        BY <4>1, <4>2
      <4>. QED  BY <4>4, <4>5 DEF Listed, NewBeatmap
    <3>. QED  BY <3>1, <3>2, OnlyInsertsAppend
  <2>2. CASE \E w \in Workers : Start(w) /\ run'[w].task = t
    <3>1. PICK w \in Workers : Start(w) /\ run'[w].task = t
      BY <2>2
    <3>2. pendingN \subseteq pending \cup {w}
      <4>. SUFFICES ASSUME NEW v \in Workers, v \in Pending(t)', v \notin Pending(t)
                    PROVE  v = w
        BY DEF Pending
      <4>. QED  BY <3>1, PendingMoves, OneStarts
    <3>3. begunN = begun + 1
      BY <3>1, BegunMoves
    <3>4. /\ IsFiniteSet(pending \cup {w})
          /\ Cardinality(pending \cup {w}) <= Cardinality(pending) + 1
      <4>. HIDE DEF pending
      <4>1. /\ IsFiniteSet(pending \cup {w})
            /\ Cardinality(pending \cup {w}) =
                 IF w \in pending THEN Cardinality(pending) ELSE Cardinality(pending) + 1
        BY <1>1, FS_AddElement
      <4>. QED  BY <1>2, <4>1
    <3>. HIDE DEF listed, listedN, pending, pendingN, begun, begunN
    <3>5. IsFiniteSet(pendingN) /\ Cardinality(pendingN) <= Cardinality(pending) + 1
          /\ Cardinality(pendingN) \in Nat
      BY <1>2, <3>2, <3>4, FS_Subset, FS_CardinalityType
    <3>6. Cardinality(listedN) + Cardinality(pendingN) <= begunN
      BY <1>1, <1>2, <2>1, <3>3, <3>5
    <3>. QED
      BY <1>1, <2>1, <3>5, <3>6 DEF AttemptInserts, listedN, pendingN, begunN
  <2>3. CASE ~\E w \in Workers : Start(w) /\ run'[w].task = t
    <3>1. pendingN \subseteq pending
      <4>. SUFFICES ASSUME NEW v \in Workers, v \in Pending(t)', v \notin Pending(t)
                    PROVE  FALSE
        BY DEF Pending
      <4>. QED  BY <2>3, PendingMoves
    <3>. HIDE DEF listed, listedN, pending, pendingN, begun, begunN
    <3>2. IsFiniteSet(pendingN) /\ Cardinality(pendingN) <= Cardinality(pending)
          /\ Cardinality(pendingN) \in Nat
      BY <1>1, <3>1, FS_Subset, FS_CardinalityType
    <3>3. Cardinality(listedN) + Cardinality(pendingN) <= begunN
      BY <1>1, <1>2, <2>1, <3>2
    <3>. QED
      BY <1>1, <2>1, <3>2, <3>3 DEF AttemptInserts, listedN, pendingN, begunN
  <2>. QED  BY <2>2, <2>3
<1>. QED  BY <1>3, <1>4

\* A song is listed no more often than attempts at its beatmap task were begun,
\* whatever fails, crashes, stalls or is run twice: no run of
\* BeatmapHandler._process inserts two beatmaps.
THEOREM ListingBounded == Spec => []ListedOncePerAttempt
<1>1. Init => ListingInv
  <2>. SUFFICES ASSUME Init, NEW t \in Tasks, t.queue = "beatmap" PROVE AttemptInserts(t)
    BY DEF ListingInv
  <2>1. Listed(t) = {}
    BY DEF Init, RepositoryInit, Listed
  <2>2. Pending(t) = {}
    BY DEF Init, Pending, Idle
  <2>3. Begun(t) = 0
    BY DEF Init, QueueInit, NewTask, Begun
  <2>4. IsFiniteSet({}) /\ Cardinality({}) = 0
    BY FS_EmptySet
  <2>. QED  BY <2>1, <2>2, <2>3, <2>4 DEF AttemptInserts
<1>2. AttemptsInv /\ ListingInv /\ [Next]_vars => ListingInv'
  BY ListingNext
<1>3. AttemptsInv /\ ListingInv => ListedOncePerAttempt
  <2>. SUFFICES ASSUME AttemptsInv, ListingInv, NEW t \in Tasks, t.queue = "beatmap"
                PROVE  Cardinality(Listed(t)) <= Begun(t)
    BY DEF ListedOncePerAttempt
  <2>1. /\ IsFiniteSet(Listed(t)) /\ IsFiniteSet(Pending(t))
        /\ Cardinality(Listed(t)) + Cardinality(Pending(t)) <= Begun(t)
    BY DEF ListingInv, AttemptInserts
  <2>2. Cardinality(Listed(t)) \in Nat /\ Cardinality(Pending(t)) \in Nat
    BY <2>1, FS_CardinalityType
  <2>3. Begun(t) \in Nat
    BY BegunType DEF AttemptsInv, PipelineInv, TypeOK
  <2>. QED  BY <2>1, <2>2, <2>3
<1>. QED  BY <1>1, <1>2, <1>3, AttemptsInvariant, PTL DEF Spec

-----------------------------------------------------------------------------
(* A song is listed once.                                                  *)

\* The hazards that would repeat an insert, apart from those of OneFlow.
OneInsert ==
  /\ OneFlow
  /\ "insert_beatmap" \notin LostAt
  /\ "mark_completed" \notin FailAt \cup LostAt
  /\ "beatmap" \notin CrashQueues /\ "beatmap" \notin BlockQueues

\* No song is in GET /api/v1/maps twice.  That is no promise of the code: a
\* mark_completed that raises after the insert brings the run back, which inserts
\* again (ListedOncePerAttempt says how often).
OneBeatmapPerJob ==
  \A a, b \in 1..Len(beatmaps) : beatmaps[a].job = beatmaps[b].job => a = b

BeatmapTask(b) == FlowTask("beatmap", beatmaps[b].job, beatmaps[b].flow)

\* The run that inserted a beatmap is past it, or its task completed.
Inserted(t) ==
  \/ tasks[t].state = "completed"
  \/ /\ tasks[t].state = "active"
     /\ run[tasks[t].owner].pc \in {"mark_completed", "return"}

PublishedInv ==
  /\ OneBeatmapPerJob
  /\ \A b \in 1..Len(beatmaps) : Inserted(BeatmapTask(b))

\* The task of a beatmap is a task.
LEMMA BeatmapTaskType ==
  ASSUME PipelineInv, NEW b \in 1..Len(beatmaps)
  PROVE  /\ BeatmapTask(b) \in Tasks /\ BeatmapTask(b).queue = "beatmap"
         /\ BeatmapTask(b).job = beatmaps[b].job
<1>1. beatmaps[b] \in BeatmapDoc /\ beatmaps[b].flow \in 1..MaxFlows
  BY DEF PipelineInv, TypeOK, RepositoryTypeOK, FlowInv
<1>2. beatmaps[b].job \in Jobs
  BY <1>1 DEF BeatmapDoc
<1>. QED  BY <1>1, <1>2, FlowTaskType, FlowTaskFields DEF BeatmapTask, FlowQueues

\* Nothing takes a beatmap task back to its insert.
LEMMA InsertedStands ==
  ASSUME OneInsert, SeparationInv, HeldInv, [Next]_vars,
         NEW t \in Tasks, t.queue = "beatmap", Inserted(t)
  PROVE  Inserted(t)'
<1> DEFINE w == tasks[t].owner
<1>1. AttemptsInv
  BY DEF SeparationInv
<1>2. CASE tasks[t].state = "completed"
  BY <1>1, <1>2, TaskMoves DEF Inserted
<1>3. CASE tasks[t].state = "active" /\ run[w].pc \in {"mark_completed", "return"}
  <2>1. w \in Workers /\ run[w].task = t /\ run[w].pc # "idle"
    BY <1>3, HeldRun DEF OneInsert
  <2>2. WorkerQueue[w] = "beatmap"
    BY <2>1 DEF SeparationInv, Separated, StemsInv
  <2>3. \/ run'[w] = run[w]
        \/ run[w].pc = "mark_completed" /\ run'[w].pc = "return"
        \/ run[w].pc = "return" /\ Return(w)
    <3>1. ASSUME Raise(w) PROVE FALSE
      BY <1>3, <3>1 DEF Raise, Missing, OneInsert, HandlerSteps, StemSteps, BeatmapSteps
    <3>2. ASSUME HandlerStep(w) PROVE MarkCompleted(w) \/ Return(w)
      BY <1>3, <3>2 DEF HandlerStep, MarkProcessing, Separate, UploadDrum, UploadMelody,
           EnqueueFlow, DetectKicks, ExtractMelody, GetChildren, InsertBeatmap,
           MarkFailed, Reraise
    <3>3. ASSUME MarkCompleted(w)
          PROVE  run[w].pc = "mark_completed" /\ run'[w].pc = "return"
      BY <1>1, <2>1, <3>3 DEF MarkCompleted, Resume, OneInsert, AttemptsInv, PipelineInv,
                              TypeOK, RunRecord
    <3>4. ASSUME Return(w) PROVE run[w].pc = "return"
      BY <3>4 DEF Return
    <3>. QED  BY <1>1, <2>1, <2>2, <3>1, <3>2, <3>3, <3>4, OneRunMoves
              DEF Start, Crash, OneInsert, Idle
  <2>4. ~Stall(t)
    BY <1>3 DEF Stall, OneInsert, HeldInv, NoneAbandoned
  <2>5. \/ tasks'[t] = tasks[t]
        \/ \E v \in Workers : Settles(v, t)
    BY <1>1, <1>3, <2>4, TaskMoves
  <2>6. ASSUME NEW v \in Workers, Settles(v, t) PROVE tasks'[t].state = "completed"
    BY <1>3, <2>6 DEF Settles, Finishes, Reraise
  <2>7. ASSUME tasks'[t] = tasks[t], run[w].pc = "return" PROVE ~Return(w)
    <3>. SUFFICES ASSUME Return(w) PROVE FALSE
      OBVIOUS
    <3>1. Complete(t, Result(w))
      BY <2>1 DEF Return
    <3>. QED  BY <1>1, <1>3, <2>7, <3>1, CompleteMoves
              DEF AttemptsInv, PipelineInv, TypeOK
  <2>. QED  BY <1>3, <2>3, <2>5, <2>6, <2>7 DEF Inserted
<1>. QED  BY <1>2, <1>3 DEF Inserted

\* Flows of one job are one flow, so its beatmap has one task.
LEMMA OneFlowOfJob ==
  ASSUME SeparationInv, NEW t \in Tasks, NEW u \in Tasks, t.job = u.job,
         t.queue # "stem", u.queue # "stem",
         tasks[t].state # "none", tasks[u].state # "none"
  PROVE  t.flow = u.flow
<1>1. t \in FlowTasks /\ u \in FlowTasks
  BY DEF Tasks, StemTasks
<1>. QED  BY <1>1 DEF SeparationInv, Separated, FlowStems

\* The insert is the first of its job.
LEMMA InsertPublishes ==
  ASSUME OneInsert, SeparationInv, HeldInv, PublishedInv, SeparationInv',
         NEW w \in Workers, InsertBeatmap(w)
  PROVE  PublishedInv'
<1> DEFINE t == run[w].task
           n == Len(beatmaps) + 1
<1>0. PICK now \in Clock : beatmaps' = Append(beatmaps, NewBeatmap(w, now))
  BY DEF InsertBeatmap, insert_beatmap
<1>1. /\ PipelineInv /\ beatmaps \in Seq(BeatmapDoc) /\ run[w] \in RunRecord
      /\ run[w].pc = "insert_beatmap" /\ tasks' = tasks
      /\ beatmaps' = Append(beatmaps, NewBeatmap(w, now))
      /\ t \in Tasks /\ t.queue = "beatmap" /\ t.job \in Jobs
  BY <1>0, TaskFields DEF InsertBeatmap, SeparationInv, AttemptsInv, PipelineInv,
         TypeOK, RepositoryTypeOK, RunInv, BeatmapSteps
<1>2. tasks[t].owner = w /\ tasks[t].state = "active"
  BY <1>1, OwnedActive DEF SeparationInv, AttemptsInv, CountInv, OneInsert
<1>3. /\ Len(beatmaps') = n /\ 1..Len(beatmaps') = 1..Len(beatmaps) \cup {n}
      /\ beatmaps'[n] = NewBeatmap(w, now)
      /\ \A b \in 1..Len(beatmaps) : beatmaps'[b] = beatmaps[b]
  <2>1. Len(beatmaps) \in Nat /\ Len(beatmaps') = n
    BY <1>1
  <2>. QED  BY <1>1, <2>1
<1>4. NewBeatmap(w, now).job = t.job /\ NewBeatmap(w, now).flow = t.flow
  BY DEF NewBeatmap
<1>5. t = FlowTask("beatmap", t.job, t.flow)
  BY <1>1, TaskFields
<1>6. ASSUME NEW b \in 1..Len(beatmaps), beatmaps[b].job = t.job PROVE FALSE
  <2>1. /\ BeatmapTask(b) \in Tasks /\ BeatmapTask(b).queue = "beatmap"
        /\ BeatmapTask(b).job = t.job /\ Inserted(BeatmapTask(b))
    BY <1>1, <1>6, BeatmapTaskType DEF PublishedInv
  <2>2. BeatmapTask(b).flow = t.flow
    BY <1>1, <1>2, <2>1, OneFlowOfJob DEF Inserted
  <2>3. BeatmapTask(b) = t
    BY <1>5, <2>1, <2>2, TaskFields
  <2>. QED  BY <1>1, <1>2, <2>1, <2>3 DEF Inserted
<1>7. OneBeatmapPerJob'
  BY <1>3, <1>4, <1>6 DEF PublishedInv, OneBeatmapPerJob
<1>8. run'[w].pc = "mark_completed"
  <2> DEFINE local == [run[w] EXCEPT !.beatmap = Len(beatmaps) + 1]
  <2>1. run' = [run EXCEPT ![w] = [local EXCEPT !.pc = "mark_completed"]]
    BY <1>1 DEF InsertBeatmap, Resume, OneInsert
  <2>2. "pc" \in DOMAIN local
    BY <1>1 DEF RunRecord
  <2>3. [local EXCEPT !.pc = "mark_completed"].pc = "mark_completed"
    BY <2>2
  <2>. HIDE DEF local
  <2>. QED  BY <1>1, <2>1, <2>3 DEF PipelineInv, TypeOK
<1>9. ASSUME NEW b \in 1..Len(beatmaps) PROVE Inserted(BeatmapTask(b))'
  <2>1. BeatmapTask(b)' = BeatmapTask(b) /\ BeatmapTask(b) \in Tasks
        /\ BeatmapTask(b).queue = "beatmap"
    BY <1>1, <1>3, BeatmapTaskType DEF BeatmapTask
  <2>2. Inserted(BeatmapTask(b)) /\ [Next]_vars
    BY DEF PublishedInv, Next, HandlerStep
  <2>3. \A u \in Tasks : u.queue = "beatmap" /\ Inserted(u) => Inserted(u)'
    BY <2>2, InsertedStands
  <2>. QED  BY <2>1, <2>2, <2>3 DEF Inserted
<1>10. ASSUME NEW b \in 1..Len(beatmaps'), b = n PROVE Inserted(BeatmapTask(b))'
  <2>1. BeatmapTask(b)' = t
    BY <1>10, <1>3, <1>4, <1>5 DEF BeatmapTask
  <2>2. tasks'[t].state = "active" /\ tasks'[t].owner = w
    BY <1>1, <1>2
  <2>3. Inserted(BeatmapTask(b))' <=>
          \/ tasks'[t].state = "completed"
          \/ /\ tasks'[t].state = "active"
             /\ run'[tasks'[t].owner].pc \in {"mark_completed", "return"}
    BY <2>1 DEF Inserted
  <2>. QED  BY <1>8, <2>2, <2>3
<1>. QED  BY <1>3, <1>7, <1>9, <1>10 DEF PublishedInv

LEMMA PublishedNext ==
  ASSUME OneInsert, SeparationInv, HeldInv, PublishedInv, SeparationInv', [Next]_vars
  PROVE  PublishedInv'
<1>1. CASE \E w \in Workers : InsertBeatmap(w)
  BY <1>1, InsertPublishes
<1>2. CASE UNCHANGED beatmaps
  <2>1. ASSUME NEW b \in 1..Len(beatmaps) PROVE Inserted(BeatmapTask(b))'
    <3>1. /\ BeatmapTask(b)' = BeatmapTask(b) /\ BeatmapTask(b) \in Tasks
          /\ BeatmapTask(b).queue = "beatmap" /\ Inserted(BeatmapTask(b))
      BY <1>2, BeatmapTaskType
      DEF BeatmapTask, SeparationInv, AttemptsInv, PublishedInv
    <3>. QED  BY <3>1, InsertedStands DEF Inserted
  <2>. QED  BY <1>2, <2>1 DEF PublishedInv, OneBeatmapPerJob
<1>. QED  BY <1>1, <1>2, OnlyInsertsAppend

\* Where nothing can fail after finalize_beatmap's insert, a song appears once in
\* GET /api/v1/maps although the insert is unconditional: failures before it,
\* and of other handlers, never repeat it.
THEOREM PublishedOnce ==
  ASSUME OneInsert
  PROVE  Spec => []OneBeatmapPerJob
<1>1. Init => PublishedInv
  BY DEF Init, RepositoryInit, PublishedInv, OneBeatmapPerJob
<1>2. /\ SeparationInv /\ HeldInv /\ (SeparationInv /\ HeldInv)'
      /\ PublishedInv /\ [Next]_vars
      => PublishedInv'
  BY PublishedNext
<1>3. PublishedInv => OneBeatmapPerJob
  BY DEF PublishedInv
<1>4. Spec => [](SeparationInv /\ HeldInv)
  BY HeldInvariant DEF OneInsert
<1>. QED  BY <1>1, <1>2, <1>3, <1>4, PTL DEF Spec

-----------------------------------------------------------------------------
(* One outcome for every song.                                             *)

\* The hazards that would let a settled job change: those of OneFlow, a run
\* that is repeated, and a completion taken for a failure.
OneFate ==
  /\ OneFlow
  /\ "mark_completed" \notin LostAt
  /\ CrashQueues = {} /\ BlockQueues = {}

\* A task has returned, or has failed for good, or its run is about to tell.
Done(t) ==
  \/ tasks[t].state = "completed"
  \/ \E w \in Workers : run[w].task = t /\ run[w].pc = "return"
Doomed(t) ==
  \/ tasks[t].state = "failed"
  \/ \E w \in Workers : run[w].task = t /\ run[w].pc = "raise" /\ is_final_attempt(w)

\* No run of the stem task has come past mark_processing.
Early(j) ==
  /\ NoFlows(j)
  /\ \A w \in Workers :
       run[w].task = StemTask(j) => run[w].pc \in {"mark_processing", "mark_failed", "raise"}

\* The document of a job agrees with itself and with the queues.
FateInv(j) ==
  /\ mapJobs[j].status = "failed" <=> mapJobs[j].error
  /\ mapJobs[j].status = "completed" <=> mapJobs[j].beatmap_id # 0
  /\ mapJobs[j].error => \E t \in Tasks : t.job = j /\ Doomed(t)
  /\ mapJobs[j].status = "completed" <=>
       \E t \in Tasks : t.job = j /\ t.queue = "beatmap" /\ Done(t)
  /\ mapJobs[j].status \in {"none", "queued"} => Early(j)

OutcomeInv == SeparationInv /\ HeldInv /\ \A j \in Jobs : FateInv(j)

\* Every run holds the lock of its task, which is active.
LEMMA RunOwns ==
  ASSUME OneFate, SeparationInv, NEW w \in Workers, run[w].pc # "idle"
  PROVE  /\ run[w].task \in Tasks /\ run[w].task.job \in Jobs
         /\ tasks[run[w].task].owner = w /\ tasks[run[w].task].state = "active"
<1>1. run[w].task \in Tasks /\ tasks[run[w].task].owner = w
  BY DEF OneFate, SeparationInv, AttemptsInv, PipelineInv, RunInv, CountInv
<1>. QED  BY <1>1, TaskFields, OwnedActive DEF SeparationInv, AttemptsInv

LEMMA NoStall ==
  ASSUME OneFate, HeldInv, NEW t \in Tasks
  PROVE  ~Stall(t)
BY DEF Stall, OneFate, HeldInv, NoneAbandoned

\* What is done stays done, and what is doomed stays so.
LEMMA FatesStand ==
  ASSUME OneFate, SeparationInv, HeldInv, [Next]_vars, NEW t \in Tasks
  PROVE  (Done(t) => Done(t)') /\ (Doomed(t) => Doomed(t)')
<1>1. AttemptsInv
  BY DEF SeparationInv
<1>2. ASSUME NEW w \in Workers, run[w].pc \in {"return", "raise"}
      PROVE  \/ run'[w] = run[w]
             \/ run[w].pc = "return" /\ Return(w)
             \/ run[w].pc = "raise" /\ Reraise(w)
  <2>1. ~Start(w) /\ ~Raise(w) /\ ~Crash(w)
    BY <1>2 DEF Start, Idle, Raise, HandlerSteps, StemSteps, BeatmapSteps, Crash, OneFate
  <2>2. HandlerStep(w) => (Return(w) \/ Reraise(w))
    BY <1>2 DEF HandlerStep, MarkProcessing, Separate, UploadDrum, UploadMelody,
         EnqueueFlow, DetectKicks, ExtractMelody, GetChildren, InsertBeatmap,
         MarkCompleted, MarkFailed
  <2>. QED  BY <1>1, <2>1, <2>2, OneRunMoves DEF Return, Reraise
<1>3. ASSUME NEW w \in Workers, run[w].task = t, run[w].pc = "return" PROVE Done(t)'
  <2>1. ASSUME Return(w) PROVE tasks'[t].state = "completed"
    <3>1. Settles(w, t)
      BY <1>1, <1>3, <2>1, RunOwns, RunSettles
    <3>. QED  BY <1>3, <3>1 DEF Settles, Finishes, Reraise
  <2>. QED  BY <1>2, <1>3, <2>1 DEF Done
<1>4. ASSUME NEW w \in Workers, run[w].task = t, run[w].pc = "raise",
             is_final_attempt(w)
      PROVE  Doomed(t)'
  <2>1. ASSUME Reraise(w) PROVE tasks'[t].state = "failed"
    <3>1. Settles(w, t)
      BY <1>1, <1>4, <2>1, RunOwns, RunSettles
    <3>. QED  BY <1>4, <3>1 DEF Settles, Return
  <2>. QED  BY <1>2, <1>4, <2>1 DEF Doomed, is_final_attempt
<1>. QED  BY <1>1, <1>3, <1>4, TaskMoves DEF Done, Doomed

\* The tasks of a new flow wait.
LEMMA FlowWaits ==
  ASSUME AttemptsInv, NEW w \in Workers, EnqueueFlow(w)
  PROVE  LET j == run[w].task.job
             n == run[w].drum
         IN  /\ j \in Jobs /\ n \in 1..MaxFlows
             /\ run[w].task = StemTask(j)
             /\ \A q \in FlowQueues :
                  /\ FlowTask(q, j, n) \in Tasks
                  /\ tasks[FlowTask(q, j, n)].state = "none"
                  /\ tasks'[FlowTask(q, j, n)].state \in {"wait", "children"}
             /\ \A t \in Tasks :
                  (\A q \in FlowQueues : t # FlowTask(q, j, n)) => tasks'[t] = tasks[t]
<1> DEFINE j == run[w].task.job
           n == run[w].drum
<1>1. /\ QueueTypeOK /\ QueueInv /\ AddFlow(j, n) /\ n \in 1..MaxFlows /\ j \in Jobs
      /\ run[w].task = StemTask(j)
      /\ \A q \in FlowQueues : tasks[FlowTask(q, j, n)].state = "none"
  BY TaskFields DEF EnqueueFlow, AttemptsInv, PipelineInv, TypeOK, RunInv, Staging, NoFlow,
                    StemSteps
<1>2. \A q \in FlowQueues : FlowTask(q, j, n) \in Tasks
  BY <1>1, FlowTaskType
<1>3. \A p, q \in FlowQueues : p # q => FlowTask(p, j, n) # FlowTask(q, j, n)
  BY FlowTaskFields
<1>4. /\ tasks'[FlowTask("beatmap", j, n)].state = "children"
      /\ tasks'[FlowTask("kick", j, n)].state = "wait"
      /\ tasks'[FlowTask("melody", j, n)].state = "wait"
  BY <1>1, <1>2, <1>3 DEF AddFlow, QueueTypeOK, TaskRecord, FlowQueues
<1>. QED  BY <1>1, <1>2, <1>4, AddFlowKeeps DEF FlowQueues

\* A task is completed by the run that returns.
LEMMA NewlyCompleted ==
  ASSUME OneFate, SeparationInv, HeldInv, [Next]_vars, NEW t \in Tasks,
         tasks'[t].state = "completed"
  PROVE  Done(t)
<1>1. AttemptsInv
  BY DEF SeparationInv
<1>2. CASE tasks'[t] = tasks[t]
  BY <1>2 DEF Done
<1>3. ASSUME NEW j \in Jobs, EnqueueStem(j) PROVE tasks'[t] = tasks[t]
  BY <1>1, <1>3 DEF EnqueueStem, AddStem, AttemptsInv, PipelineInv, TypeOK, QueueTypeOK,
                    TaskRecord
<1>4. ASSUME NEW w \in Workers, EnqueueFlow(w) PROVE tasks'[t] = tasks[t]
  BY <1>1, <1>4, FlowWaits
<1>5. ASSUME NEW w \in Workers, Start(w) PROVE tasks'[t] = tasks[t]
  <2>1. PICK u \in Tasks : Lock(u, w)
    BY <1>5 DEF Start
  <2>. QED  BY <1>1, <2>1 DEF Lock, AttemptsInv, PipelineInv, TypeOK, QueueTypeOK,
                              TaskRecord
<1>6. ASSUME NEW w \in Workers, Settles(w, run[w].task), run[w].task \in Tasks
      PROVE  tasks'[t] = tasks[t] \/ Done(t)
  BY <1>6 DEF Settles, Finishes, Releases, Return, Done
<1>. QED  BY <1>1, <1>2, <1>3, <1>4, <1>5, <1>6, TasksMove, NoStall

\* A beatmap task is done by completing its job.
LEMMA NewlyDone ==
  ASSUME OneFate, SeparationInv, HeldInv, [Next]_vars,
         NEW t \in Tasks, t.queue = "beatmap", Done(t)'
  PROVE  Done(t) \/ \E w \in Workers : MarkCompleted(w) /\ run[w].task = t
<1>1. AttemptsInv /\ run \in [Workers -> RunRecord]
  BY DEF SeparationInv, AttemptsInv, PipelineInv, TypeOK
<1>2. ASSUME NEW w \in Workers, run'[w].task = t, run'[w].pc = "return"
      PROVE  Done(t) \/ (MarkCompleted(w) /\ run[w].task = t)
  <2>1. CASE run'[w] = run[w]
    BY <1>2, <2>1 DEF Done
  <2>2. CASE Start(w)
    BY <1>1, <1>2, <2>2, TaskFields DEF Start, Started, FirstStep, Queues, FlowQueues
  <2>3. CASE Raise(w) \/ Crash(w) \/ Return(w) \/ Reraise(w) \/ MarkFailed(w)
    BY <1>1, <1>2, <2>3 DEF Raise, OnError, Crash, Return, Reraise, MarkFailed, Idle,
                            RunRecord
  <2>4. CASE HandlerStep(w) /\ ~(Return(w) \/ Reraise(w) \/ MarkFailed(w))
    <3>1. GoesOn(w)
      BY <1>1, <2>4, HandlersGoOn DEF HandlerStep
    <3>2. run[w].task = t /\ RunInv(w)
      BY <1>1, <1>2, <3>1 DEF GoesOn, AttemptsInv, PipelineInv
    <3>3. ~(MarkProcessing(w) \/ Separate(w) \/ UploadDrum(w) \/ UploadMelody(w)
            \/ EnqueueFlow(w) \/ DetectKicks(w) \/ ExtractMelody(w))
      BY <3>2 DEF RunInv, StemSteps, MarkProcessing, Separate, UploadDrum, UploadMelody,
                  EnqueueFlow, DetectKicks, ExtractMelody
    <3>4. ASSUME GetChildren(w) \/ InsertBeatmap(w) PROVE run'[w].pc # "return"
      <4>1. ASSUME GetChildren(w) PROVE run'[w].pc = "insert_beatmap"
        BY <1>1, <4>1 DEF GetChildren, RunRecord
      <4>2. ASSUME InsertBeatmap(w) PROVE run'[w].pc \in {"mark_completed", OnError(w)}
        <5> DEFINE local == [run[w] EXCEPT !.beatmap = Len(beatmaps) + 1]
        <5>1. PICK pc \in {"mark_completed", OnError(w)} :
                run' = [run EXCEPT ![w] = [local EXCEPT !.pc = pc]]
          BY <4>2 DEF InsertBeatmap, Resume
        <5>2. [local EXCEPT !.pc = pc].pc = pc
          BY <1>1 DEF RunRecord
        <5>. HIDE DEF local
        <5>. QED  BY <1>1, <5>1, <5>2
      <4>. QED  BY <3>4, <4>1, <4>2 DEF OnError
    <3>. QED  BY <1>2, <2>4, <3>2, <3>3, <3>4 DEF HandlerStep
  <2>. QED  BY <1>1, <2>1, <2>2, <2>3, <2>4, OneRunMoves
<1>3. tasks'[t].state = "completed" => Done(t)
  BY NewlyCompleted
<1>. QED  BY <1>2, <1>3 DEF Done

-----------------------------------------------------------------------------
(* When a handler may touch the document.                                  *)

\* A new flow comes from a stem run past mark_processing, and from nothing else.
LEMMA EarlyStands ==
  ASSUME OneFate, SeparationInv, HeldInv, [Next]_vars, NEW j \in Jobs, Early(j),
         \A w \in Workers : MarkProcessing(w) => run[w].task.job # j
  PROVE  Early(j)'
<1>1. AttemptsInv /\ run \in [Workers -> RunRecord]
  BY DEF SeparationInv, AttemptsInv, PipelineInv, TypeOK
<1>2. ASSUME NEW w \in Workers, run'[w].task = StemTask(j)
      PROVE  run'[w].pc \in {"mark_processing", "mark_failed", "raise"}
  <2>1. CASE run'[w] = run[w]
    BY <1>2, <2>1 DEF Early
  <2>2. CASE Start(w)
    BY <1>1, <1>2, <2>2, StemIsNoFlowTask DEF Start, Started, FirstStep
  <2>3. CASE Raise(w) \/ Crash(w) \/ Return(w) \/ Reraise(w) \/ MarkFailed(w)
    <3>1. NoTask # StemTask(j)
      BY StemIsNoFlowTask, PipelineAssumption
    <3>. QED  BY <1>1, <1>2, <2>3, <3>1
              DEF Raise, OnError, Crash, Return, Reraise, MarkFailed, Idle, RunRecord
  <2>4. CASE HandlerStep(w) /\ ~(Return(w) \/ Reraise(w) \/ MarkFailed(w))
    <3>1. run[w].task = StemTask(j)
      BY <1>1, <1>2, <2>4, HandlersGoOn DEF GoesOn, HandlerStep
    <3>2. /\ run[w].pc \in {"mark_processing", "mark_failed", "raise"}
          /\ ~MarkProcessing(w)
      BY <3>1, StemIsNoFlowTask DEF Early
    <3>. QED  BY <2>4, <3>2 DEF HandlerStep, Separate, UploadDrum, UploadMelody,
                EnqueueFlow, DetectKicks, ExtractMelody, GetChildren, InsertBeatmap,
                MarkCompleted, MarkFailed, Return, Reraise
  <2>. QED  BY <1>1, <2>1, <2>2, <2>3, <2>4, OneRunMoves
<1>3. ASSUME NEW t \in FlowTasks, t.job = j PROVE tasks'[t].state = "none"
  <2>1. t \in Tasks /\ tasks[t].state = "none" /\ t # StemTask(j) /\ t.queue # "stem"
    BY <1>3, StemIsNoFlowTask DEF Early, NoFlows
  <2>2. ASSUME NEW i \in Jobs, EnqueueStem(i) PROVE tasks'[t] = tasks[t]
    <3>1. t # StemTask(i)
      BY <2>1, StemIsNoFlowTask
    <3>. QED  BY <1>1, <2>1, <2>2, <3>1 DEF EnqueueStem, AddStem, AttemptsInv, PipelineInv,
                                            TypeOK, QueueTypeOK
  <2>3. ASSUME NEW w \in Workers, EnqueueFlow(w) PROVE tasks'[t] = tasks[t]
    <3>1. /\ run[w].pc = "add_flow" /\ run[w].task.queue = "stem"
          /\ run[w].task = StemTask(run[w].task.job) /\ run[w].task.job \in Jobs
      BY <1>1, <2>3, TaskFields DEF EnqueueFlow, AttemptsInv, PipelineInv, RunInv, StemSteps
    <3>2. run[w].task.job # j
      BY <3>1 DEF Early
    <3>3. /\ QueueTypeOK /\ QueueInv /\ AddFlow(run[w].task.job, run[w].drum)
          /\ run[w].drum \in 1..MaxFlows
          /\ \A q \in FlowQueues :
               tasks[FlowTask(q, run[w].task.job, run[w].drum)].state = "none"
      BY <1>1, <2>3 DEF EnqueueFlow, AttemptsInv, PipelineInv, TypeOK, RunInv, Staging,
                        NoFlow
    <3>4. \A q \in FlowQueues : t # FlowTask(q, run[w].task.job, run[w].drum)
      BY <1>3, <3>2, FlowTaskFields
    <3>. QED  BY <2>1, <3>1, <3>3, <3>4, AddFlowKeeps
  <2>4. ASSUME NEW w \in Workers, Start(w) PROVE tasks'[t] = tasks[t]
    BY <1>1, <2>1, <2>4 DEF Start, Lock, AttemptsInv, PipelineInv, TypeOK, QueueTypeOK
  <2>5. ASSUME NEW w \in Workers, Settles(w, run[w].task), run[w].task \in Tasks
        PROVE  tasks'[t] = tasks[t]
    BY <2>1, <2>5 DEF Settles, Finishes, Releases
  <2>. QED  BY <1>1, <2>1, <2>2, <2>3, <2>4, <2>5, TasksMove, NoStall
<1>. QED  BY <1>2, <1>3 DEF Early, NoFlows

\* Two tasks of a job: while a stem run is short of its return there is no
\* other, and while the beatmap task runs the children are completed.
LEMMA OthersAtStem ==
  ASSUME OneFate, SeparationInv, NEW w \in Workers,
         run[w].pc \notin {"idle", "return"}, run[w].task.queue = "stem",
         NEW t \in Tasks, t.job = run[w].task.job
  PROVE  t = run[w].task \/ tasks[t].state = "none"
<1>1. NoFlows(run[w].task.job) /\ run[w].task = StemTask(run[w].task.job)
  BY StemRunBeforeFlow, StemRunOwns DEF OneFate
<1>. QED  BY <1>1, TaskFields DEF NoFlows, Tasks, StemTasks

LEMMA OthersAtBeatmap ==
  ASSUME OneFate, SeparationInv, HeldInv, NEW b \in Tasks, b.queue = "beatmap",
         tasks[b].state \in {"active", "completed"}, NEW t \in Tasks, t.job = b.job,
         t # b
  PROVE  \/ tasks[t].state \in {"none", "completed"}
         \/ /\ t = StemTask(t.job) /\ tasks[t].state = "active"
            /\ run[tasks[t].owner].task = t /\ run[tasks[t].owner].pc = "return"
<1>1. CASE t.queue = "stem"
  <2>1. t = StemTask(t.job) /\ t.job \in Jobs
    BY <1>1, TaskFields
  <2>2. ~NoFlows(t.job)
    BY DEF NoFlows, Tasks, StemTasks
  <2>. QED  BY <2>1, <2>2 DEF SeparationInv, Separated, StemInv
<1>2. CASE t.queue # "stem" /\ tasks[t].state # "none"
  <2>1. t.flow = b.flow
    BY <1>2, OneFlowOfJob
  <2>2. /\ t = FlowTask(t.queue, b.job, b.flow) /\ b = FlowTask("beatmap", b.job, b.flow)
        /\ t.queue \in FlowQueues
    BY <1>2, <2>1, TaskFields
  <2>3. t.queue \in {"kick", "melody"}
    BY <2>2 DEF FlowQueues
  <2>. QED  BY <2>2, <2>3 DEF HeldInv, ChildrenDone, Underway
<1>. QED  BY <1>1, <1>2

\* A task at work is neither done nor doomed.
LEMMA AtWork ==
  ASSUME OneFate, SeparationInv, NEW w \in Workers,
         run[w].pc \notin {"idle", "return", "raise"}
  PROVE  ~Done(run[w].task) /\ ~Doomed(run[w].task)
<1>1. tasks[run[w].task].owner = w /\ tasks[run[w].task].state = "active"
  BY RunOwns
<1>2. \A v \in Workers : run[v].task = run[w].task /\ run[v].pc # "idle" => v = w
  BY <1>1, RunOwns
<1>. QED  BY <1>1, <1>2 DEF Done, Doomed

\* An untouched task is neither.
LEMMA Unborn ==
  ASSUME OneFate, SeparationInv, NEW t \in Tasks, tasks[t].state = "none"
  PROVE  ~Done(t) /\ ~Doomed(t)
BY RunOwns DEF Done, Doomed

\* mark_processing meets a job that has not settled.
LEMMA ProcessingInTime ==
  ASSUME OneFate, OutcomeInv, NEW w \in Workers, MarkProcessing(w)
  PROVE  ~Settled(run[w].task.job)
<1> DEFINE j == run[w].task.job
<1>1. /\ run[w].pc = "mark_processing" /\ run[w].task.queue = "stem"
      /\ run[w].task \in Tasks /\ j \in Jobs
  BY RunOwns DEF MarkProcessing, OutcomeInv, SeparationInv, AttemptsInv, PipelineInv,
                 RunInv, StemSteps
<1>2. ASSUME NEW t \in Tasks, t.job = j PROVE ~Done(t) /\ ~Doomed(t)
  BY <1>1, <1>2, OthersAtStem, AtWork, Unborn DEF OutcomeInv
<1>. QED  BY <1>1, <1>2 DEF OutcomeInv, FateInv, Settled, Terminal

\* mark_failed meets a job that is not completed.
LEMMA FailedInTime ==
  ASSUME OneFate, OutcomeInv, NEW w \in Workers, MarkFailed(w)
  PROVE  mapJobs[run[w].task.job].status # "completed"
<1> DEFINE u == run[w].task
<1>1. /\ run[w].pc = "mark_failed" /\ u \in Tasks /\ u.job \in Jobs
      /\ tasks[u].owner = w /\ tasks[u].state = "active"
  BY RunOwns DEF MarkFailed, OutcomeInv
<1>2. ASSUME NEW b \in Tasks, b.job = u.job, b.queue = "beatmap", Done(b) PROVE FALSE
  <2>1. b # u
    BY <1>1, <1>2, AtWork DEF OutcomeInv
  <2>2. tasks[b].state \in {"active", "completed"}
    BY <1>2, RunOwns DEF Done, OutcomeInv
  <2>. QED  BY <1>1, <1>2, <2>1, <2>2, OthersAtBeatmap DEF OutcomeInv
<1>. QED  BY <1>1, <1>2 DEF OutcomeInv, FateInv

\* mark_completed meets a job that is under way.
LEMMA CompletedInTime ==
  ASSUME OneFate, OutcomeInv, NEW w \in Workers, MarkCompleted(w)
  PROVE  mapJobs[run[w].task.job].status = "processing"
<1> DEFINE b == run[w].task
<1>1. /\ run[w].pc = "mark_completed" /\ b \in Tasks /\ b.job \in Jobs
      /\ b.queue = "beatmap" /\ tasks[b].owner = w /\ tasks[b].state = "active"
  BY RunOwns DEF MarkCompleted, OutcomeInv, SeparationInv, AttemptsInv, PipelineInv,
                 RunInv, BeatmapSteps
<1>2. ASSUME NEW t \in Tasks, t.job = b.job
      PROVE  ~Doomed(t) /\ (t.queue = "beatmap" => ~Done(t))
  <2>1. CASE t = b
    BY <1>1, <2>1, AtWork DEF OutcomeInv
  <2>2. CASE t # b
    <3>1. \/ tasks[t].state \in {"none", "completed"}
          \/ /\ t = StemTask(t.job) /\ tasks[t].state = "active"
             /\ run[tasks[t].owner].task = t /\ run[tasks[t].owner].pc = "return"
      BY <1>1, <1>2, <2>2, OthersAtBeatmap DEF OutcomeInv
    <3>2. ASSUME tasks[t].state = "completed" PROVE ~Doomed(t)
      BY <3>2, RunOwns DEF Doomed, OutcomeInv
    <3>3. ASSUME t = StemTask(t.job), tasks[t].state = "active",
                 run[tasks[t].owner].pc = "return"
          PROVE  ~Doomed(t)
      BY <3>3, RunOwns DEF Doomed, OutcomeInv
    <3>4. t.queue = "beatmap" => tasks[t].state = "none"
      <4>1. t.queue = "beatmap" /\ tasks[t].state # "none" => t.flow = b.flow
        BY <1>1, <1>2, OneFlowOfJob DEF OutcomeInv
      <4>. QED  BY <1>1, <1>2, <2>2, <4>1, TaskFields
    <3>. QED  BY <3>1, <3>2, <3>3, <3>4, Unborn DEF OutcomeInv
  <2>. QED  BY <2>1, <2>2
<1>3. ~Early(b.job)
  BY <1>1 DEF Early, NoFlows, Tasks, StemTasks
<1>4. mapJobs[b.job].status \in Status \cup {"none"}
  BY <1>1 DEF OutcomeInv, SeparationInv, AttemptsInv, PipelineInv, TypeOK,
              RepositoryTypeOK, MapJobDoc
<1>. QED  BY <1>1, <1>2, <1>3, <1>4 DEF OutcomeInv, FateInv, Status

-----------------------------------------------------------------------------
(* How the documents move.                                                 *)

\* What each writer leaves in the document of the job it is about.
LEMMA DocsWritten ==
  ASSUME PipelineInv, NEW j \in Jobs
  PROVE  LET old == mapJobs[j]
             new == mapJobs'[j]
         IN  /\ InsertMapJob(j) =>
                  /\ old.status = "none"
                  /\ new.status = "queued" /\ new.beatmap_id = 0 /\ ~new.error
             /\ SetObjectKey(j) =>
                  /\ new.status = old.status
                  /\ new.beatmap_id = old.beatmap_id /\ new.error = old.error
             /\ \A w \in Workers : run[w].task.job = j =>
                  /\ MarkProcessing(w) =>
                       /\ new.status = "processing"
                       /\ new.beatmap_id = old.beatmap_id /\ new.error = old.error
                  /\ MarkCompleted(w) =>
                       /\ new.status = "completed"
                       /\ new.beatmap_id # 0 /\ new.error = old.error
                  /\ MarkFailed(w) =>
                       /\ new.beatmap_id = old.beatmap_id
                       /\ \/ new.status = old.status /\ new.error = old.error
                          \/ new.status = "failed" /\ new.error = TRUE
<1>1. mapJobs \in [Jobs -> MapJobDoc] /\ mapJobs[j] \in MapJobDoc
  BY DEF PipelineInv, TypeOK, RepositoryTypeOK
<1>2. ASSUME InsertMapJob(j)
      PROVE  /\ mapJobs[j].status = "none"
             /\ mapJobs'[j].status = "queued" /\ mapJobs'[j].beatmap_id = 0
             /\ ~mapJobs'[j].error
  BY <1>1, <1>2 DEF InsertMapJob, insert_map_job, NoDoc, PipelineInv, RequestInv
<1>3. ASSUME SetObjectKey(j)
      PROVE  /\ mapJobs'[j].status = mapJobs[j].status
             /\ mapJobs'[j].beatmap_id = mapJobs[j].beatmap_id
             /\ mapJobs'[j].error = mapJobs[j].error
  BY <1>1, <1>3 DEF SetObjectKey, set_job_object_key, MapJobDoc
<1>4. ASSUME NEW w \in Workers, run[w].task.job = j, MarkProcessing(w)
      PROVE  /\ mapJobs'[j].status = "processing"
             /\ mapJobs'[j].beatmap_id = mapJobs[j].beatmap_id
             /\ mapJobs'[j].error = mapJobs[j].error
  BY <1>1, <1>4 DEF MarkProcessing, mark_job_processing, MapJobDoc
<1>5. ASSUME NEW w \in Workers, run[w].task.job = j, MarkCompleted(w)
      PROVE  /\ mapJobs'[j].status = "completed"
             /\ mapJobs'[j].beatmap_id # 0 /\ mapJobs'[j].error = mapJobs[j].error
  <2>1. run[w].beatmap # 0
    BY <1>5 DEF MarkCompleted, PipelineInv, RunInv
  <2>2. mapJobs' = [mapJobs EXCEPT ![j].status = "completed",
                                   ![j].beatmap_id = run[w].beatmap]
    BY <1>5 DEF MarkCompleted, mark_job_completed
  <2>. QED  BY <1>1, <2>1, <2>2 DEF MapJobDoc
<1>6. ASSUME NEW w \in Workers, run[w].task.job = j, MarkFailed(w)
      PROVE  /\ mapJobs'[j].beatmap_id = mapJobs[j].beatmap_id
             /\ \/ mapJobs'[j].status = mapJobs[j].status
                   /\ mapJobs'[j].error = mapJobs[j].error
                \/ mapJobs'[j].status = "failed" /\ mapJobs'[j].error = TRUE
  <2>1. CASE UNCHANGED mapJobs
    BY <2>1
  <2>2. CASE mapJobs' = [mapJobs EXCEPT ![j].status = "failed", ![j].error = TRUE]
    BY <1>1, <2>2 DEF MapJobDoc
  <2>. QED  BY <1>6, <2>1, <2>2 DEF MarkFailed, mark_job_failed
<1>. QED  BY <1>2, <1>3, <1>4, <1>5, <1>6

\* A step writes the document of one job, by one of five calls.
Writes(j) ==
  \/ InsertMapJob(j) \/ SetObjectKey(j)
  \/ \E w \in Workers :
       /\ run[w].task.job = j
       /\ MarkProcessing(w) \/ MarkCompleted(w) \/ MarkFailed(w)

LEMMA OneDocMoves ==
  ASSUME PipelineInv, [Next]_vars
  PROVE  \/ mapJobs' = mapJobs
         \/ \E j \in Jobs : /\ Writes(j)
                            /\ \A i \in Jobs : i # j => mapJobs'[i] = mapJobs[i]
<1>1. mapJobs \in [Jobs -> MapJobDoc]
  BY DEF PipelineInv, TypeOK, RepositoryTypeOK
<1>2. ASSUME NEW j \in Jobs, Request(j) \/ AbortRequest(j)
      PROVE  \/ mapJobs' = mapJobs
             \/ Writes(j) /\ \A i \in Jobs : i # j => mapJobs'[i] = mapJobs[i]
  BY <1>1, <1>2 DEF Request, AbortRequest, Validate, InsertMapJob, insert_map_job,
                    SetObjectKey, set_job_object_key, UploadOriginal, EnqueueStem, Writes
<1>3. ASSUME NEW w \in Workers, MarkProcessing(w) \/ MarkCompleted(w) \/ MarkFailed(w)
      PROVE  /\ Writes(run[w].task.job) /\ run[w].task.job \in Jobs
             /\ \A i \in Jobs : i # run[w].task.job => mapJobs'[i] = mapJobs[i]
  <2>1. run[w].task.job \in Jobs
    BY <1>3, TaskFields DEF MarkProcessing, MarkCompleted, MarkFailed, PipelineInv, RunInv
  <2>. QED  BY <1>1, <1>3, <2>1
            DEF MarkProcessing, mark_job_processing, MarkCompleted, mark_job_completed,
                MarkFailed, mark_job_failed, Writes
<1>4. ASSUME NEW w \in Workers, HandlerStep(w),
             ~(MarkProcessing(w) \/ MarkCompleted(w) \/ MarkFailed(w))
      PROVE  mapJobs' = mapJobs
  BY <1>4 DEF HandlerStep, Separate, UploadDrum, UploadMelody, EnqueueFlow, DetectKicks,
              ExtractMelody, GetChildren, InsertBeatmap, insert_beatmap, Return, Reraise
<1>5. ASSUME NEW w \in Workers, Start(w) \/ Raise(w) \/ Crash(w) PROVE mapJobs' = mapJobs
  BY <1>5 DEF Start, Raise, Crash
<1>6. CASE \E t \in Tasks : Stall(t)
  BY <1>6 DEF Stall
<1>7. CASE UNCHANGED vars
  BY <1>7 DEF vars
<1>. QED  BY <1>2, <1>3, <1>4, <1>5, <1>6, <1>7 DEF Next

\* The run that completes a job is about to return, and the one that fails it
\* to give its task up.
LEMMA WriterMovesOn ==
  ASSUME OneFate, SeparationInv, NEW w \in Workers, NEW t, t = run[w].task
  PROVE  /\ MarkCompleted(w) => t \in Tasks /\ t.queue = "beatmap" /\ Done(t)'
         /\ MarkFailed(w) => t \in Tasks /\ Doomed(t)'
<1>1. run \in [Workers -> RunRecord]
  BY DEF SeparationInv, AttemptsInv, PipelineInv, TypeOK
<1>2. ASSUME MarkCompleted(w) PROVE t \in Tasks /\ t.queue = "beatmap" /\ Done(t)'
  <2>1. t \in Tasks /\ t.queue = "beatmap"
    BY <1>2 DEF MarkCompleted, SeparationInv, AttemptsInv, PipelineInv, RunInv, BeatmapSteps
  <2>2. run'[w].task = t /\ run'[w].pc = "return"
    BY <1>1, <1>2 DEF MarkCompleted, Resume, OneFate, RunRecord
  <2>. QED  BY <2>1, <2>2 DEF Done
<1>3. ASSUME MarkFailed(w) PROVE t \in Tasks /\ Doomed(t)'
  <2>1. t \in Tasks /\ is_final_attempt(w)
    BY <1>3 DEF MarkFailed, SeparationInv, AttemptsInv, PipelineInv, RunInv, CountInv
  <2>2. run'[w].task = t /\ run'[w].pc = "raise" /\ run'[w].made = run[w].made
    BY <1>1, <1>3 DEF MarkFailed, RunRecord
  <2>. QED  BY <2>1, <2>2 DEF Doomed, is_final_attempt
<1>. QED  BY <1>2, <1>3

\* The moves of a document, each with the reason for it.
LEMMA FateMoves ==
  ASSUME OneFate, OutcomeInv, [Next]_vars, NEW j \in Jobs
  PROVE  LET old == mapJobs[j]
             new == mapJobs'[j]
         IN  \/ /\ new.status = old.status
                /\ new.beatmap_id = old.beatmap_id /\ new.error = old.error
             \/ /\ old.status = "none" /\ new.status = "queued"
                /\ new.beatmap_id = 0 /\ ~new.error
             \/ /\ old.status = "queued" /\ new.status = "processing"
                /\ new.beatmap_id = old.beatmap_id /\ new.error = old.error
             \/ /\ old.status = "processing" /\ new.status = "completed"
                /\ new.beatmap_id # 0 /\ new.error = old.error
                /\ \E t \in Tasks : t.job = j /\ t.queue = "beatmap" /\ Done(t)'
             \/ /\ old.status \in {"queued", "processing"} /\ new.status = "failed"
                /\ new.beatmap_id = old.beatmap_id /\ new.error
                /\ \E t \in Tasks : t.job = j /\ Doomed(t)'
<1>1. PipelineInv /\ SeparationInv /\ FateInv(j)
      /\ mapJobs[j].status \in Status \cup {"none"} /\ mapJobs[j].error \in BOOLEAN
  BY DEF OutcomeInv, SeparationInv, AttemptsInv, PipelineInv, TypeOK, RepositoryTypeOK,
         MapJobDoc
<1>2. ASSUME NEW w \in Workers, run[w].pc # "idle", run[w].task.job = j
      PROVE  mapJobs[j].status # "none"
  BY <1>1, <1>2 DEF PipelineInv, RunInv, StagedBeforeQueued
<1>3. ASSUME NEW w \in Workers, run[w].task.job = j, MarkProcessing(w)
      PROVE  mapJobs[j].status \in {"queued", "processing"}
  BY <1>1, <1>2, <1>3, ProcessingInTime DEF MarkProcessing, Settled, Terminal, Status
<1>4. ASSUME NEW w \in Workers, run[w].task.job = j, MarkCompleted(w)
      PROVE  /\ mapJobs[j].status = "processing"
             /\ \E t \in Tasks : t.job = j /\ t.queue = "beatmap" /\ Done(t)'
  <2>1. mapJobs[j].status = "processing"
    BY <1>4, CompletedInTime
  <2>. QED  BY <1>1, <1>4, <2>1, WriterMovesOn
<1>5. ASSUME NEW w \in Workers, run[w].task.job = j, MarkFailed(w)
      PROVE  /\ mapJobs[j].status \in {"queued", "processing", "failed"}
             /\ \E t \in Tasks : t.job = j /\ Doomed(t)'
  <2>1. mapJobs[j].status \in {"queued", "processing", "failed"}
    BY <1>1, <1>2, <1>5, FailedInTime DEF MarkFailed, Status
  <2>. QED  BY <1>1, <1>5, <2>1, WriterMovesOn
<1>6. mapJobs[j].status = "failed" <=> mapJobs[j].error
  BY <1>1 DEF FateInv
<1>7. CASE mapJobs'[j] = mapJobs[j]
  BY <1>7
<1>8. CASE InsertMapJob(j) \/ SetObjectKey(j)
  BY <1>1, <1>8, DocsWritten
<1>9. CASE \E w \in Workers : run[w].task.job = j /\ MarkProcessing(w)
  BY <1>1, <1>3, <1>9, DocsWritten
<1>10. CASE \E w \in Workers : run[w].task.job = j /\ MarkCompleted(w)
  BY <1>1, <1>4, <1>10, DocsWritten
<1>11. CASE \E w \in Workers : run[w].task.job = j /\ MarkFailed(w)
  <2>1. /\ mapJobs'[j].beatmap_id = mapJobs[j].beatmap_id
        /\ \/ mapJobs'[j].status = mapJobs[j].status
              /\ mapJobs'[j].error = mapJobs[j].error
           \/ mapJobs'[j].status = "failed" /\ mapJobs'[j].error = TRUE
    BY <1>1, <1>11, DocsWritten
  <2>2. mapJobs[j].status = "failed" => mapJobs[j].error = TRUE
    BY <1>1, <1>6
  <2>3. /\ mapJobs[j].status \in {"queued", "processing", "failed"}
        /\ \E t \in Tasks : t.job = j /\ Doomed(t)'
    BY <1>5, <1>11
  <2>. QED  BY <2>1, <2>2, <2>3
<1>12. \/ mapJobs'[j] = mapJobs[j]
       \/ InsertMapJob(j) \/ SetObjectKey(j)
       \/ \E w \in Workers :
            /\ run[w].task.job = j
            /\ MarkProcessing(w) \/ MarkCompleted(w) \/ MarkFailed(w)
  BY <1>1, OneDocMoves DEF Writes
<1>. QED  BY <1>7, <1>8, <1>9, <1>10, <1>11, <1>12

\* The document and the queues go on agreeing.
LEMMA FateNext ==
  ASSUME OneFate, OutcomeInv, [Next]_vars, NEW j \in Jobs
  PROVE  FateInv(j)'
<1>1. FateInv(j) /\ SeparationInv /\ HeldInv /\ PipelineInv
      /\ mapJobs[j].error \in BOOLEAN
  BY DEF OutcomeInv, SeparationInv, AttemptsInv, PipelineInv, TypeOK, RepositoryTypeOK,
         MapJobDoc
<1>2. (mapJobs[j].status = "failed" <=> mapJobs[j].error)'
  BY <1>1, FateMoves DEF FateInv
<1>3. (mapJobs[j].status = "completed" <=> mapJobs[j].beatmap_id # 0)'
  BY <1>1, FateMoves DEF FateInv
<1>4. (mapJobs[j].error => \E t \in Tasks : t.job = j /\ Doomed(t))'
  <2>1. mapJobs[j].error => \E t \in Tasks : t.job = j /\ Doomed(t)'
    BY <1>1, FatesStand DEF FateInv
  <2>. QED  BY <2>1, FateMoves
<1>5. (mapJobs[j].status = "completed" =>
         \E t \in Tasks : t.job = j /\ t.queue = "beatmap" /\ Done(t))'
  <2>1. mapJobs[j].status = "completed" =>
          \E t \in Tasks : t.job = j /\ t.queue = "beatmap" /\ Done(t)'
    BY <1>1, FatesStand DEF FateInv
  <2>. QED  BY <2>1, FateMoves
<1>6. ASSUME NEW t \in Tasks, t.job = j, t.queue = "beatmap", Done(t)'
      PROVE  mapJobs'[j].status = "completed"
  <2>1. CASE Done(t)
    <3>1. mapJobs[j].status = "completed"
      BY <1>1, <1>6, <2>1 DEF FateInv
    <3>. QED  BY <3>1, FateMoves
  <2>2. CASE \E w \in Workers : MarkCompleted(w) /\ run[w].task = t
    BY <1>1, <1>6, <2>2, DocsWritten
  <2>. QED  BY <1>1, <1>6, <2>1, <2>2, NewlyDone
<1>7. ASSUME mapJobs'[j].status \in {"none", "queued"} PROVE Early(j)'
  <2>1. mapJobs[j].status \in {"none", "queued"}
    BY <1>7, FateMoves
  <2>2. Early(j)
    BY <1>1, <2>1 DEF FateInv
  <2>3. \A w \in Workers : MarkProcessing(w) => run[w].task.job # j
    BY <1>1, <1>7, DocsWritten
  <2>. QED  BY <1>1, <2>2, <2>3, EarlyStands
<1>. QED  BY <1>2, <1>3, <1>4, <1>5, <1>6, <1>7 DEF FateInv

LEMMA FateInit == ASSUME NEW j \in Jobs, Init PROVE FateInv(j)
<1>1. mapJobs[j] = NoDoc
  BY DEF Init, RepositoryInit
<1>2. \A t \in Tasks : tasks[t].state = "none"
  BY DEF Init, QueueInit, NewTask
<1>3. \A w \in Workers : run[w] = Idle
  BY DEF Init
<1>4. \A t \in Tasks : ~Done(t)
  BY <1>2, <1>3 DEF Done, Idle
<1>5. Early(j)
  <2>1. NoFlows(j)
    BY <1>2 DEF NoFlows, Tasks
  <2>2. NoTask # StemTask(j)
    BY StemIsNoFlowTask, PipelineAssumption
  <2>. QED  BY <1>3, <2>1, <2>2 DEF Early, Idle
<1>. QED  BY <1>1, <1>4, <1>5 DEF FateInv, NoDoc

LEMMA OutcomeInvariant ==
  ASSUME OneFate
  PROVE  Spec => []OutcomeInv
<1>1. Init => \A j \in Jobs : FateInv(j)
  BY FateInit
<1>2. /\ SeparationInv /\ HeldInv /\ (SeparationInv /\ HeldInv)'
      /\ (\A j \in Jobs : FateInv(j)) /\ [Next]_vars
      => (\A j \in Jobs : FateInv(j))'
  BY FateNext DEF OutcomeInv
<1>3. Spec => [](SeparationInv /\ HeldInv)
  BY HeldInvariant DEF OneFate
<1>. QED  BY <1>1, <1>2, <1>3, PTL DEF Spec, OutcomeInv

-----------------------------------------------------------------------------
(* What a client is promised.                                              *)

\* The fields of a polled answer agree: the repository never checks the status
\* it overwrites, yet no write comes when another outcome is there.
THEOREM AnswersSafe ==
  ASSUME OneFate
  PROVE  Spec => []AnswersAgree
<1>1. OutcomeInv => AnswersAgree
  BY DEF OutcomeInv, FateInv, AnswersAgree, get_job_status, NotFound
<1>. QED  BY <1>1, OutcomeInvariant, PTL

\* The pipeline implements what JobLifecycle promises a client that polls.
THEOREM LifecycleKept ==
  ASSUME OneFate
  PROVE  Spec => FollowsLifecycle
<1>1. Init => Lifecycle!LifecycleInit
  <2>. SUFFICES ASSUME Init PROVE Lifecycle!LifecycleInit
    OBVIOUS
  <2>1. \A j \in Jobs : mapJobs[j].status = "none" /\ mapJobs[j].beatmap_id = 0
    BY DEF Init, RepositoryInit, NoDoc
  <2>2. /\ [j \in Jobs |-> mapJobs[j].status] = [j \in Jobs |-> "none"]
        /\ [j \in Jobs |-> mapJobs[j].beatmap_id # 0] = [j \in Jobs |-> FALSE]
    BY <2>1
  <2>. QED  BY <2>2 DEF Lifecycle!LifecycleInit
<1>2. OutcomeInv /\ [Next]_vars
      => [Lifecycle!LifecycleNext]_(Lifecycle!lifecycle)
  <2> DEFINE status == [j \in Jobs |-> mapJobs[j].status]
             published == [j \in Jobs |-> mapJobs[j].beatmap_id # 0]
  <2>. SUFFICES ASSUME OutcomeInv, [Next]_vars
                PROVE  \/ Lifecycle!LifecycleNext
                       \/ status' = status /\ published' = published
    BY DEF Lifecycle!lifecycle
  <2>1. ASSUME mapJobs' = mapJobs PROVE status' = status /\ published' = published
    BY <2>1
  <2>2. ASSUME NEW j \in Jobs, \A i \in Jobs : i # j => mapJobs'[i] = mapJobs[i]
        PROVE  \/ Lifecycle!LifecycleNext
               \/ status' = status /\ published' = published
    <3>1. /\ status' = [status EXCEPT ![j] = mapJobs'[j].status]
          /\ published' = [published EXCEPT ![j] = (mapJobs'[j].beatmap_id # 0)]
      BY <2>2
    <3>2. /\ status[j] = mapJobs[j].status
          /\ published[j] = (mapJobs[j].beatmap_id # 0)
          /\ mapJobs[j].status = "completed" <=> mapJobs[j].beatmap_id # 0
      BY DEF OutcomeInv, FateInv
    <3>3. CASE /\ mapJobs'[j].status = mapJobs[j].status
               /\ mapJobs'[j].beatmap_id = mapJobs[j].beatmap_id
      BY <2>2, <3>3
    <3>4. CASE /\ mapJobs[j].status = "none" /\ mapJobs'[j].status = "queued"
               /\ mapJobs'[j].beatmap_id = 0
      <4>1. published' = published
        BY <2>2, <3>2, <3>4
      <4>. QED  BY <3>1, <3>2, <3>4, <4>1 DEF Lifecycle!LifecycleNext, Lifecycle!Accept
    <3>5. CASE /\ mapJobs[j].status = "queued" /\ mapJobs'[j].status = "processing"
               /\ mapJobs'[j].beatmap_id = mapJobs[j].beatmap_id
      <4>1. published' = published
        BY <2>2, <3>5
      <4>. QED  BY <3>1, <3>2, <3>5, <4>1 DEF Lifecycle!LifecycleNext, Lifecycle!Process
    <3>6. CASE /\ mapJobs[j].status = "processing" /\ mapJobs'[j].status = "completed"
               /\ mapJobs'[j].beatmap_id # 0
      <4>1. published' = [published EXCEPT ![j] = TRUE]
        BY <3>1, <3>6
      <4>. QED  BY <3>1, <3>2, <3>6, <4>1 DEF Lifecycle!LifecycleNext, Lifecycle!Publish
    <3>7. CASE /\ mapJobs[j].status \in {"queued", "processing"}
               /\ mapJobs'[j].status = "failed"
               /\ mapJobs'[j].beatmap_id = mapJobs[j].beatmap_id
      <4>1. published' = published
        BY <2>2, <3>7
      <4>. QED  BY <3>1, <3>2, <3>7, <4>1 DEF Lifecycle!LifecycleNext, Lifecycle!GiveUp
    <3>. QED  BY <3>3, <3>4, <3>5, <3>6, <3>7, FateMoves
  <2>. QED  BY <2>1, <2>2, OneDocMoves DEF OutcomeInv, SeparationInv, AttemptsInv
<1>. QED  BY <1>1, <1>2, OutcomeInvariant, PTL DEF Spec, FollowsLifecycle,
                                               Lifecycle!LifecycleSpec

-----------------------------------------------------------------------------
(* No song is forgotten.                                                   *)

\* Every link of the chain from the request to the beatmap task is there once
\* the one before it is done, and no task is given up by the stalled checker.
RecordInv ==
  /\ \A j \in Jobs : api[j] = "accepted" => tasks[StemTask(j)].state # "none"
  /\ \A j \in Jobs : Done(StemTask(j)) => ~NoFlows(j)
  /\ \A t \in FlowTasks :
       tasks[t].state # "none" => tasks[FlowTask("beatmap", t.job, t.flow)].state # "none"
  /\ \A t \in Tasks : tasks[t].stalls = 0

\* No task vanishes.
LEMMA TasksStay ==
  ASSUME OneFate, SeparationInv, HeldInv, [Next]_vars, NEW t \in Tasks,
         tasks[t].state # "none"
  PROVE  tasks'[t].state # "none"
<1>1. AttemptsInv
  BY DEF SeparationInv
<1>2. ASSUME NEW j \in Jobs, EnqueueStem(j) PROVE tasks'[t].state # "none"
  BY <1>1, <1>2 DEF EnqueueStem, AddStem, AttemptsInv, PipelineInv, TypeOK, QueueTypeOK,
                    TaskRecord
<1>3. ASSUME NEW w \in Workers, EnqueueFlow(w) PROVE tasks'[t].state # "none"
  BY <1>1, <1>3, FlowWaits
<1>4. ASSUME NEW w \in Workers, Start(w) PROVE tasks'[t].state # "none"
  <2>1. PICK u \in Tasks : Lock(u, w)
    BY <1>4 DEF Start
  <2>. QED  BY <1>1, <2>1 DEF Lock, AttemptsInv, PipelineInv, TypeOK, QueueTypeOK,
                              TaskRecord
<1>5. ASSUME NEW w \in Workers, Settles(w, run[w].task), run[w].task \in Tasks
      PROVE  tasks'[t].state # "none"
  BY <1>5 DEF Settles, Finishes, Releases
<1>. QED  BY <1>1, <1>2, <1>3, <1>4, <1>5, TasksMove, NoStall

\* Tasks of flows are created by add_flow, three at a time.
LEMMA FlowsCreated ==
  ASSUME OneFate, SeparationInv, HeldInv, [Next]_vars, NEW t \in FlowTasks,
         tasks[t].state = "none", tasks'[t].state # "none"
  PROVE  tasks'[FlowTask("beatmap", t.job, t.flow)].state # "none"
<1>1. AttemptsInv /\ t \in Tasks /\ t.queue # "stem"
  BY StemIsNoFlowTask, TaskFields DEF SeparationInv, Tasks, FlowTasks, FlowQueues
<1>2. ASSUME NEW j \in Jobs, EnqueueStem(j) PROVE tasks'[t] = tasks[t]
  <2>1. t # StemTask(j)
    BY StemIsNoFlowTask
  <2>. QED  BY <1>1, <1>2, <2>1 DEF EnqueueStem, AddStem, AttemptsInv, PipelineInv,
                                    TypeOK, QueueTypeOK
<1>3. ASSUME NEW w \in Workers, EnqueueFlow(w)
      PROVE  tasks'[FlowTask("beatmap", t.job, t.flow)].state # "none"
  <2>1. \E q \in FlowQueues : t = FlowTask(q, run[w].task.job, run[w].drum)
    BY <1>1, <1>3, FlowWaits
  <2>2. t.job = run[w].task.job /\ t.flow = run[w].drum
    BY <2>1 DEF FlowTask
  <2>3. tasks'[FlowTask("beatmap", run[w].task.job, run[w].drum)].state
          \in {"wait", "children"}
    BY <1>1, <1>3, FlowWaits DEF FlowQueues
  <2>. QED  BY <2>2, <2>3
<1>4. ASSUME NEW w \in Workers, Start(w) PROVE tasks'[t] = tasks[t]
  BY <1>1, <1>4 DEF Start, Lock, AttemptsInv, PipelineInv, TypeOK, QueueTypeOK
<1>5. ASSUME NEW w \in Workers, Settles(w, run[w].task), run[w].task \in Tasks
      PROVE  tasks'[t] = tasks[t]
  BY <1>1, <1>5 DEF Settles, Finishes, Releases
<1>. QED  BY <1>1, <1>2, <1>3, <1>4, <1>5, TasksMove, NoStall

\* A stem task is done by adding its flow.
LEMMA NewlySeparated ==
  ASSUME OneFate, SeparationInv, HeldInv, [Next]_vars,
         NEW j \in Jobs, Done(StemTask(j))'
  PROVE  Done(StemTask(j)) \/ \E w \in Workers : EnqueueFlow(w) /\ run[w].task = StemTask(j)
<1> DEFINE t == StemTask(j)
<1>1. /\ AttemptsInv /\ run \in [Workers -> RunRecord]
      /\ t \in Tasks /\ t.queue = "stem"
  BY StemIsNoFlowTask DEF SeparationInv, AttemptsInv, PipelineInv, TypeOK
<1>2. ASSUME NEW w \in Workers, run'[w].task = t, run'[w].pc = "return"
      PROVE  Done(t) \/ (EnqueueFlow(w) /\ run[w].task = t)
  <2>1. CASE run'[w] = run[w]
    BY <1>2, <2>1 DEF Done
  <2>2. CASE Start(w)
    BY <1>1, <1>2, <2>2, TaskFields DEF Start, Started, FirstStep, Queues, FlowQueues
  <2>3. CASE Raise(w) \/ Crash(w) \/ Return(w) \/ Reraise(w) \/ MarkFailed(w)
    BY <1>1, <1>2, <2>3 DEF Raise, OnError, Crash, Return, Reraise, MarkFailed, Idle,
                            RunRecord
  <2>4. CASE HandlerStep(w) /\ ~(Return(w) \/ Reraise(w) \/ MarkFailed(w))
    <3>1. GoesOn(w)
      BY <1>1, <2>4, HandlersGoOn DEF HandlerStep
    <3>2. run[w].task = t /\ RunInv(w)
      BY <1>1, <1>2, <3>1 DEF GoesOn, AttemptsInv, PipelineInv
    <3>3. ~(DetectKicks(w) \/ ExtractMelody(w) \/ GetChildren(w) \/ InsertBeatmap(w)
            \/ MarkCompleted(w))
      BY <1>1, <3>2 DEF RunInv, BeatmapSteps, DetectKicks, ExtractMelody, GetChildren,
                        InsertBeatmap, MarkCompleted
    <3>4. ASSUME MarkProcessing(w) \/ UploadDrum(w) \/ UploadMelody(w) \/ Separate(w)
          PROVE  run'[w].pc # "return"
      BY <1>1, <3>4 DEF MarkProcessing, UploadDrum, UploadMelody, Separate, Resume, OnError,
                        RunRecord
    <3>. QED  BY <1>2, <2>4, <3>2, <3>3, <3>4 DEF HandlerStep
  <2>. QED  BY <1>1, <2>1, <2>2, <2>3, <2>4, OneRunMoves
<1>3. tasks'[t].state = "completed" => Done(t)
  BY <1>1, NewlyCompleted
<1>. QED  BY <1>2, <1>3 DEF Done

\* Nothing stalls.
LEMMA NothingStalls ==
  ASSUME OneFate, SeparationInv, HeldInv, [Next]_vars, \A t \in Tasks : tasks[t].stalls = 0,
         NEW t \in Tasks
  PROVE  tasks'[t].stalls = 0
<1>1. AttemptsInv /\ tasks \in [Tasks -> TaskRecord]
  BY DEF SeparationInv, AttemptsInv, PipelineInv, TypeOK, QueueTypeOK
<1>2. ASSUME NEW j \in Jobs, EnqueueStem(j) PROVE tasks'[t].stalls = 0
  BY <1>1, <1>2 DEF EnqueueStem, AddStem, TaskRecord
<1>3. ASSUME NEW w \in Workers, EnqueueFlow(w) PROVE tasks'[t].stalls = 0
  BY <1>1, <1>3 DEF EnqueueFlow, AddFlow, TaskRecord
<1>4. ASSUME NEW w \in Workers, Start(w) PROVE tasks'[t].stalls = 0
  <2>1. PICK u \in Tasks : Lock(u, w)
    BY <1>4 DEF Start
  <2>. QED  BY <1>1, <2>1 DEF Lock, TaskRecord
<1>5. ASSUME NEW w \in Workers, Settles(w, run[w].task), run[w].task \in Tasks
      PROVE  tasks'[t].stalls = 0
  <2>1. QueueTypeOK /\ run[w].made \in Nat
    BY <1>1 DEF QueueTypeOK, AttemptsInv, PipelineInv, TypeOK, RunRecord
  <2>2. CASE Return(w)
    <3>1. Complete(run[w].task, Result(w))
      BY <1>5, <2>2 DEF Settles, Return
    <3>. QED  BY <1>5, <2>1, <3>1, CompleteCounts DEF Uncounted
  <2>3. CASE Reraise(w)
    <3>1. Fail(run[w].task, run[w].made)
      BY <1>5, <2>3 DEF Settles, Reraise
    <3>. QED  BY <1>5, <2>1, <3>1, FailCounts DEF Uncounted
  <2>. QED  BY <1>5, <2>2, <2>3 DEF Settles
<1>. QED  BY <1>1, <1>2, <1>3, <1>4, <1>5, TasksMove, NoStall

LEMMA RecordNext ==
  ASSUME OneFate, SeparationInv, HeldInv, RecordInv, [Next]_vars
  PROVE  RecordInv'
<1>1. AttemptsInv /\ api \in [Jobs -> ApiPC] /\ QueueTypeOK
  BY DEF SeparationInv, AttemptsInv, PipelineInv, TypeOK
<1>2. ASSUME NEW j \in Jobs, api'[j] = "accepted" PROVE tasks'[StemTask(j)].state # "none"
  <2>1. StemTask(j) \in Tasks
    BY StemTaskType
  <2>2. CASE api[j] = "accepted"
    BY <2>1, <2>2, TasksStay DEF RecordInv
  <2>3. CASE EnqueueStem(j)
    BY <1>1, <2>1, <2>3 DEF EnqueueStem, AddStem, QueueTypeOK, TaskRecord
  <2>4. api[j] = "accepted" \/ EnqueueStem(j)
    <3>1. ASSUME NEW i \in Jobs, Request(i) \/ AbortRequest(i)
          PROVE  api[j] = "accepted" \/ EnqueueStem(j)
      BY <1>1, <1>2, <3>1 DEF Request, AbortRequest, Validate, InsertMapJob, SetObjectKey,
           UploadOriginal, EnqueueStem, ApiGoto
    <3>2. ASSUME NEW w \in Workers, Start(w) \/ HandlerStep(w) \/ Raise(w) \/ Crash(w)
          PROVE  api' = api
      BY <3>2 DEF Start, Raise, Crash, HandlerStep, MarkProcessing, Separate, UploadDrum,
           UploadMelody, EnqueueFlow, DetectKicks, ExtractMelody, GetChildren,
           InsertBeatmap, MarkCompleted, MarkFailed, Return, Reraise
    <3>. QED  BY <1>2, <3>1, <3>2 DEF Next, vars, Stall
  <2>. QED  BY <2>2, <2>3, <2>4
<1>3. ASSUME NEW j \in Jobs, Done(StemTask(j))' PROVE ~NoFlows(j)'
  <2>1. CASE Done(StemTask(j))
    <3>1. PICK t \in FlowTasks : t.job = j /\ tasks[t].state # "none"
      BY <2>1 DEF RecordInv, NoFlows
    <3>2. tasks'[t].state # "none"
      BY <3>1, TasksStay, StemIsNoFlowTask
    <3>. QED  BY <3>1, <3>2 DEF NoFlows
  <2>2. ASSUME NEW w \in Workers, EnqueueFlow(w), run[w].task = StemTask(j)
        PROVE  ~NoFlows(j)'
    <3> DEFINE t == FlowTask("kick", j, run[w].drum)
    <3>1. run[w].task.job = j
      BY <2>2, StemIsNoFlowTask
    <3>2. run[w].drum \in 1..MaxFlows /\ tasks'[t].state \in {"wait", "children"}
      BY <1>1, <2>2, <3>1, FlowWaits DEF FlowQueues
    <3>3. t \in FlowTasks /\ t.job = j
      BY <3>2, FlowTaskType, FlowTaskFields DEF FlowQueues
    <3>. HIDE DEF t
    <3>. QED  BY <3>2, <3>3 DEF NoFlows
  <2>. QED  BY <1>3, <2>1, <2>2, NewlySeparated
<1>4. ASSUME NEW t \in FlowTasks, tasks'[t].state # "none"
      PROVE  tasks'[FlowTask("beatmap", t.job, t.flow)].state # "none"
  <2>1. FlowTask("beatmap", t.job, t.flow) \in Tasks
    BY FlowTaskType DEF FlowTasks, FlowQueues
  <2>2. CASE tasks[t].state # "none"
    BY <2>1, <2>2, TasksStay DEF RecordInv
  <2>. QED  BY <1>4, <2>2, FlowsCreated
<1>5. \A t \in Tasks : tasks'[t].stalls = 0
  BY NothingStalls DEF RecordInv
<1>. QED  BY <1>2, <1>3, <1>4, <1>5 DEF RecordInv

LEMMA RecordInit == Init => RecordInv
<1>. SUFFICES ASSUME Init PROVE RecordInv
  OBVIOUS
<1>1. \A t \in Tasks : tasks[t] = NewTask
  BY DEF Init, QueueInit
<1>2. ASSUME NEW j \in Jobs PROVE api[j] = "validate" /\ ~Done(StemTask(j))
  <2>1. StemTask(j) \in Tasks /\ api[j] = "validate" /\ \A w \in Workers : run[w] = Idle
    BY StemTaskType DEF Init
  <2>2. tasks[StemTask(j)].state = "none"
    BY <1>1, <2>1 DEF NewTask
  <2>. QED  BY <2>1, <2>2 DEF Done, Idle
<1>. QED  BY <1>1, <1>2 DEF RecordInv, NewTask, Tasks

LEMMA RecordInvariant ==
  ASSUME OneFate
  PROVE  Spec => []RecordInv
<1>1. SeparationInv /\ HeldInv /\ RecordInv /\ [Next]_vars => RecordInv'
  BY RecordNext
<1>2. Spec => [](SeparationInv /\ HeldInv)
  BY HeldInvariant DEF OneFate
<1>. QED  BY <1>1, <1>2, RecordInit, PTL DEF Spec

\* An accepted job says how it ended unless one of its tasks is waiting for a
\* worker or has one, and unless MongoDB refuses to mark it failed: whatever else
\* fails, and however often, no task ends without a task to follow it or an
\* outcome in the document, and no beatmap task waits for children that are over.
THEOREM OutcomesRecorded ==
  ASSUME OneFate, "mark_failed" \notin FailAt
  PROVE  Spec => []OutcomeRecorded
<1>1. ASSUME OutcomeInv, RecordInv, ParentsAwaitWork PROVE OutcomeRecorded
  <2>. SUFFICES ASSUME NEW j \in Jobs, api[j] = "accepted", Drained(j)
                PROVE  Settled(j)
    BY DEF OutcomeRecorded
  <2>1. FateInv(j) /\ SeparationInv /\ FailureReported
    BY <1>1 DEF OutcomeInv, SeparationInv, AttemptsInv
  <2>2. ASSUME NEW t \in Tasks, t.job = j, tasks[t].state = "failed" PROVE Settled(j)
    <3>1. ~LostToStalls(t)
      <4>1. /\ tasks[t].stalls = 0
            /\ t.queue = "beatmap" =>
                 \A q \in {"kick", "melody"} : tasks[FlowTask(q, t.job, t.flow)].stalls = 0
        BY <1>1, TaskFields, FlowTaskType DEF RecordInv, FlowQueues
      <4>. QED  BY <4>1, BullMQAssumption DEF LostToStalls
    <3>. QED  BY <2>1, <2>2, <3>1 DEF FailureReported, FateInv, Settled, Terminal
  <2>3. ASSUME NEW t \in Tasks, t.job = j PROVE tasks[t].state \in {"none", "completed", "failed"}
    <3>1. tasks[t].state \notin {"wait", "active"} /\ tasks[t].state \in TaskStates
      BY <2>1, <2>3 DEF Drained, SeparationInv, AttemptsInv, PipelineInv, TypeOK,
                        QueueTypeOK, TaskRecord
    <3>2. CASE tasks[t].state = "children"
      <4>1. PICK q \in {"kick", "melody"} :
              tasks[FlowTask(q, t.job, t.flow)].state \in {"wait", "active"}
        BY <1>1, <3>2 DEF ParentsAwaitWork, Expecting
      <4>2. FlowTask(q, t.job, t.flow) \in Tasks /\ FlowTask(q, t.job, t.flow).job = j
        BY <1>1, <2>3, <3>2, Family DEF ParentsAwaitWork, Expecting, FlowTask
      <4>. QED  BY <4>1, <4>2 DEF Drained
    <3>. QED  BY <3>1, <3>2 DEF TaskStates
  <2>4. CASE tasks[StemTask(j)].state = "completed"
    <3>1. PICK t \in FlowTasks : t.job = j /\ tasks[t].state # "none"
      BY <1>1, <2>4 DEF RecordInv, Done, NoFlows
    <3> DEFINE b == FlowTask("beatmap", j, t.flow)
    <3>2. b \in Tasks /\ b.job = j /\ b.queue = "beatmap"
      BY <3>1, FlowTaskType, FlowTaskFields DEF FlowTasks, FlowQueues
    <3>3. tasks[b].state # "none"
      BY <1>1, <3>1 DEF RecordInv
    <3>. HIDE DEF b
    <3>4. tasks[b].state \in {"completed", "failed"}
      BY <2>3, <3>2, <3>3
    <3>. QED  BY <2>1, <2>2, <3>2, <3>4 DEF FateInv, Done, Settled, Terminal
  <2>5. tasks[StemTask(j)].state \in {"completed", "failed"}
    BY <1>1, <2>3, StemIsNoFlowTask DEF RecordInv
  <2>. QED  BY <2>2, <2>4, <2>5, StemIsNoFlowTask
<1>. QED  BY <1>1, OutcomeInvariant, RecordInvariant, ParentsReleased, PTL

-----------------------------------------------------------------------------
(* Worker processes that come and go.                                      *)

\* What main() holds open while the worker may still have a run, and that a
\* process past that point has none.
ClientsInv(w) ==
  /\ proc[w] \in {"running", "signalled", "closing"} => clients[w] = Opened(w)
  /\ proc[w] \in {"off", "closing_flow"} => run[w] = Idle
  /\ run[w].pc # "idle" => run[w].task.queue = WorkerQueue[w]

ProcInv ==
  /\ PipelineInv
  /\ ProcTypeOK
  /\ \A w \in Workers : ClientsInv(w)

\* A run that makes a step is under way, and it alone moves: it stays with its
\* task or ends.
LEMMA WorkMoves ==
  ASSUME PipelineInv, NEW w \in Workers, HandlerStep(w) \/ Raise(w)
  PROVE  /\ run[w].pc # "idle"
         /\ \A v \in Workers \ {w} : run'[v] = run[v]
         /\ run'[w] = Idle \/ run'[w].task = run[w].task
<1>1. run \in [Workers -> RunRecord] /\ run[w] \in RunRecord
  BY DEF PipelineInv, TypeOK
<1>2. ASSUME NEW local \in RunRecord, NEW next, Resume(w, local, next),
             local.task = run[w].task
      PROVE  /\ \A v \in Workers \ {w} : run'[v] = run[v]
             /\ run'[w].task = run[w].task
  BY <1>1, <1>2 DEF Resume, RunRecord
<1>3. CASE MarkProcessing(w) \/ UploadDrum(w) \/ UploadMelody(w)
           \/ EnqueueFlow(w) \/ MarkCompleted(w)
  BY <1>1, <1>2, <1>3 DEF MarkProcessing, UploadDrum, UploadMelody, EnqueueFlow,
                          MarkCompleted
<1>4. CASE InsertBeatmap(w)
  <2>1. [run[w] EXCEPT !.beatmap = Len(beatmaps) + 1] \in RunRecord
    <3>1. Len(beatmaps) \in Nat
      BY DEF PipelineInv, TypeOK, RepositoryTypeOK
    <3>2. Len(beatmaps) + 1 \in Nat
      BY <3>1
    <3>3. ASSUME NEW n \in Nat PROVE [run[w] EXCEPT !.beatmap = n] \in RunRecord
      BY <1>1 DEF RunRecord
    <3>. QED  BY <3>2, <3>3
  <2>2. [run[w] EXCEPT !.beatmap = Len(beatmaps) + 1].task = run[w].task
    BY <1>1 DEF RunRecord
  <2>. QED  BY <1>2, <1>4, <2>1, <2>2 DEF InsertBeatmap
<1>5. CASE Separate(w) \/ DetectKicks(w) \/ ExtractMelody(w) \/ GetChildren(w)
           \/ MarkFailed(w) \/ Raise(w)
  <2>1. CASE Separate(w)
    BY <1>1, <2>1 DEF Separate, RunRecord
  <2>2. CASE DetectKicks(w) \/ ExtractMelody(w)
    BY <1>1, <2>2 DEF DetectKicks, ExtractMelody, RunRecord
  <2>3. CASE GetChildren(w)
    BY <1>1, <2>3 DEF GetChildren, RunRecord
  <2>4. CASE MarkFailed(w)
    BY <1>1, <2>4 DEF MarkFailed, RunRecord
  <2>5. CASE Raise(w)
    BY <1>1, <2>5 DEF Raise, RunRecord, HandlerSteps, StemSteps, BeatmapSteps
  <2>. QED  BY <1>5, <2>1, <2>2, <2>3, <2>4, <2>5
<1>6. CASE Return(w) \/ Reraise(w)
  BY <1>1, <1>6 DEF Return, Reraise
<1>. QED  BY <1>3, <1>4, <1>5, <1>6 DEF HandlerStep

\* A run starts on a task of the queue its worker serves.
LEMMA TakeMoves ==
  ASSUME PipelineInv, NEW w \in Workers, Start(w)
  PROVE  /\ \A v \in Workers \ {w} : run'[v] = run[v]
         /\ run'[w].task.queue = WorkerQueue[w]
<1>1. PICK t \in Tasks :
        t.queue = WorkerQueue[w] /\ run' = [run EXCEPT ![w] = Started(t)]
  BY DEF Start
<1>. QED  BY <1>1 DEF PipelineInv, TypeOK, Started

\* What BeatmapPipeline does keeps the process part of the invariant.
LEMMA RunsKeepClients ==
  ASSUME ProcInv, NEW w \in Workers, UNCHANGED procVars,
         \A v \in Workers \ {w} : run'[v] = run[v],
         proc[w] \notin {"off", "closing_flow"},
         run'[w].pc # "idle" => run'[w].task.queue = WorkerQueue[w]
  PROVE  ProcTypeOK' /\ \A v \in Workers : ClientsInv(v)'
BY DEF ProcInv, ProcTypeOK, ClientsInv, procVars, Opened

\* A step of main() is none of the pipeline, and keeps the invariant.
LEMMA MainStep ==
  ASSUME ProcInv, NEW w \in Workers, Launch(w) \/ Signal(w) \/ Shutdown(w)
  PROVE  /\ UNCHANGED vars
         /\ ProcTypeOK' /\ \A v \in Workers : ClientsInv(v)'
<1>1. /\ proc \in [Workers -> ProcStates] /\ clients \in [Workers -> SUBSET Clients]
      /\ stops \in 0..MaxStops /\ run \in [Workers -> RunRecord]
      /\ \A v \in Workers : ClientsInv(v)
  BY DEF ProcInv, ProcTypeOK, PipelineInv, TypeOK
<1>2. ASSUME run[w] = Idle, ProcessEnds(w) PROVE UNCHANGED vars
  BY <1>1, <1>2 DEF ProcessEnds, vars
<1>3. UNCHANGED vars
  <2>1. CASE Launch(w) \/ Signal(w) \/ Stop(w)
    BY <2>1 DEF Launch, Signal, Stop
  <2>2. CASE CloseWorker(w)
    BY <1>2, <2>2 DEF CloseWorker, WorkerClosed
  <2>3. CASE CloseProducer(w)
    BY <1>1, <1>2, <2>3 DEF CloseProducer, ClientsInv
  <2>. QED  BY <2>1, <2>2, <2>3 DEF Shutdown
<1>4. run' = run
  BY <1>3 DEF vars
<1>5. PICK p \in ProcStates, c \in SUBSET Clients :
        /\ proc' = [proc EXCEPT ![w] = p]
        /\ clients' = [clients EXCEPT ![w] = c]
        /\ p \in {"running", "signalled", "closing"} => c = Opened(w)
        /\ p \in {"off", "closing_flow"} => run[w] = Idle
  <2>1. CASE Launch(w)
    BY <1>1, <2>1 DEF Launch, ProcStates, Opened, Clients
  <2>2. CASE Signal(w) \/ Stop(w)
    BY <1>1, <2>2 DEF Signal, Stop, ProcStates, ClientsInv
  <2>3. CASE CloseWorker(w) \/ CloseProducer(w)
    BY <1>1, <2>3 DEF CloseWorker, CloseProducer, WorkerClosed, ProcessEnds,
                      ProcStates, ClientsInv
  <2>. QED  BY <2>1, <2>2, <2>3 DEF Shutdown
<1>6. stops' \in 0..MaxStops
  BY <1>1, ProcessAssumption DEF Launch, Signal, Shutdown, Stop, CloseWorker,
                                 WorkerClosed, CloseProducer
<1>7. ASSUME NEW v \in Workers PROVE ClientsInv(v)'
  BY <1>1, <1>4, <1>5 DEF ClientsInv, Opened
<1>. QED  BY <1>1, <1>3, <1>5, <1>6, <1>7 DEF ProcTypeOK

\* A process that dies takes its run and its clients with it.
LEMMA DieStep ==
  ASSUME ProcInv, NEW w \in Workers, Die(w)
  PROVE  ProcTypeOK' /\ \A v \in Workers : ClientsInv(v)'
<1>1. /\ proc \in [Workers -> ProcStates] /\ clients \in [Workers -> SUBSET Clients]
      /\ stops' \in 0..MaxStops /\ run \in [Workers -> RunRecord]
      /\ \A v \in Workers : ClientsInv(v)
  BY DEF ProcInv, ProcTypeOK, PipelineInv, TypeOK, Die
<1>2. /\ proc' = [proc EXCEPT ![w] = "off"] /\ clients' = [clients EXCEPT ![w] = {}]
      /\ run' = [run EXCEPT ![w] = Idle]
  BY DEF Die, Crash
<1>3. ASSUME NEW v \in Workers PROVE ClientsInv(v)'
  BY <1>1, <1>2 DEF ClientsInv, Opened, Idle
<1>. QED  BY <1>1, <1>2, <1>3 DEF ProcTypeOK, ProcStates

\* Every step is one of BeatmapPipeline or leaves its variables alone.
LEMMA ProcStepIsNext ==
  ASSUME ProcInv, [ProcNext]_allVars
  PROVE  [Next]_vars
<1>1. ASSUME NEW w \in Workers, Launch(w) \/ Signal(w) \/ Shutdown(w)
      PROVE  UNCHANGED vars
  BY <1>1, MainStep
<1>2. ASSUME NEW w \in Workers,
             Die(w) \/ Take(w) \/ Work(w) \/ Raise(w)
      PROVE  Next
  BY <1>2 DEF Die, Take, Work, Next
<1>3. ASSUME \/ \E j \in Jobs : Request(j) \/ AbortRequest(j)
             \/ \E t \in Tasks : Stall(t)
      PROVE  Next
  BY <1>3 DEF Next
<1>4. CASE UNCHANGED allVars
  BY <1>4 DEF allVars
<1>. QED  BY <1>1, <1>2, <1>3, <1>4 DEF ProcNext

\* The process part of the invariant holds after every step.
LEMMA ClientsNext ==
  ASSUME ProcInv, [ProcNext]_allVars
  PROVE  ProcTypeOK' /\ \A v \in Workers : ClientsInv(v)'
<1>1. ASSUME NEW w \in Workers, Launch(w) \/ Signal(w) \/ Shutdown(w) \/ Die(w)
      PROVE  ProcTypeOK' /\ \A v \in Workers : ClientsInv(v)'
  BY <1>1, MainStep, DieStep
<1>2. ASSUME NEW w \in Workers, Take(w)
      PROVE  ProcTypeOK' /\ \A v \in Workers : ClientsInv(v)'
  BY <1>2, TakeMoves, RunsKeepClients DEF ProcInv, Take
<1>3. ASSUME NEW w \in Workers, Work(w) \/ (Raise(w) /\ UNCHANGED procVars)
      PROVE  ProcTypeOK' /\ \A v \in Workers : ClientsInv(v)'
  <2>1. /\ HandlerStep(w) \/ Raise(w)
        /\ UNCHANGED procVars /\ PipelineInv /\ ClientsInv(w)
    BY <1>3 DEF Work, ProcInv
  <2>2. proc[w] \notin {"off", "closing_flow"}
    BY <2>1, WorkMoves DEF ClientsInv, Idle
  <2>3. run'[w].pc # "idle" => run'[w].task.queue = WorkerQueue[w]
    BY <2>1, WorkMoves DEF ClientsInv, Idle
  <2>. QED  BY <2>1, <2>2, <2>3, WorkMoves, RunsKeepClients
<1>4. ASSUME UNCHANGED procVars, UNCHANGED run
      PROVE  ProcTypeOK' /\ \A v \in Workers : ClientsInv(v)'
  BY <1>4 DEF ProcInv, ProcTypeOK, ClientsInv, procVars, Opened
<1>5. ASSUME NEW j \in Jobs, Request(j) \/ AbortRequest(j) PROVE UNCHANGED run
  BY <1>5 DEF Request, AbortRequest, Validate, InsertMapJob, SetObjectKey,
              UploadOriginal, EnqueueStem
<1>6. ASSUME NEW t \in Tasks, Stall(t) PROVE UNCHANGED run
  BY <1>6 DEF Stall
<1>7. CASE UNCHANGED allVars
  BY <1>4, <1>7 DEF allVars, vars
<1>. QED  BY <1>1, <1>2, <1>3, <1>4, <1>5, <1>6, <1>7 DEF ProcNext

\* The inductive invariant holds in every reachable state.
LEMMA ProcInvariant == ProcSpec => []ProcInv
<1>1. ProcInit => ProcInv
  BY InitInv, ProcessAssumption
  DEF ProcInit, Init, ProcInv, ProcTypeOK, ProcStates, ClientsInv, Idle
<1>2. ProcInv /\ [ProcNext]_allVars => ProcInv'
  BY NextInv, ProcStepIsNext, ClientsNext DEF ProcInv
<1>. QED  BY <1>1, <1>2, PTL DEF ProcSpec

-----------------------------------------------------------------------------
(* What follows for every instance.                                        *)

\* Processes that come and go do nothing BeatmapPipeline does not allow: a
\* stopped process has returned its task (WorkerRuntime.stop), so that nothing
\* need be said of signals in the proofs about the pipeline.
THEOREM PipelineKept == ProcSpec => KeepsPipeline
<1>1. ProcInit => Init
  BY DEF ProcInit
<1>2. ProcInv /\ [ProcNext]_allVars => [Next]_vars
  BY ProcStepIsNext
<1>. QED  BY <1>1, <1>2, ProcInvariant, PTL DEF ProcSpec, KeepsPipeline, Spec

\* The client of the next await of any run is open: main() closes what its
\* handler uses only after the worker is closed, the flow producer last.
THEOREM ClientsSafe == ProcSpec => []ClientsOutliveRuns
<1>1. ProcInv => ClientsOutliveRuns
  <2>. SUFFICES ASSUME ProcInv, NEW w \in Workers
                PROVE  Needs(run[w].pc) \subseteq clients[w]
    BY DEF ClientsOutliveRuns
  <2>1. ClientsInv(w) /\ RunInv(w) /\ proc[w] \in ProcStates
    BY DEF ProcInv, PipelineInv, ProcTypeOK
  <2>2. CASE run[w].pc = "idle"
    BY <2>2 DEF Needs
  <2>3. CASE run[w].pc # "idle"
    <3>1. clients[w] = Opened(w)
      BY <2>1, <2>3 DEF ClientsInv, ProcStates, Idle
    <3>2. run[w].pc = "add_flow" => WorkerQueue[w] = "stem"
      BY <2>1, <2>3 DEF ClientsInv, RunInv, StemSteps
    <3>. QED  BY <3>1, <3>2 DEF Needs, Opened, Clients
  <2>. QED  BY <2>2, <2>3
<1>. QED  BY <1>1, ProcInvariant, PTL

-----------------------------------------------------------------------------
(* A deployment: nothing fails, and only signals stop processes.           *)

\* No call fails, no process dies, no event loop is blocked.
NoFailure == FailAt = {} /\ LostAt = {} /\ CrashQueues = {} /\ BlockQueues = {}

CostInv ==
  /\ ShutdownCostsNothing
  /\ \A w \in Workers : run[w].pc \notin {"mark_failed", "raise"}

\* A run finds what it needs: what it downloads was staged before its task was
\* queued, and the children of a beatmap task that runs have answered.
LEMMA NothingMissing ==
  ASSUME NoFailure, SeparationInv, HeldInv, NEW w \in Workers
  PROVE  ~Raise(w)
<1> DEFINE t == run[w].task
<1>. SUFFICES ASSUME run[w].pc \in HandlerSteps, Missing(w) PROVE FALSE
  BY DEF Raise, NoFailure
<1>1. /\ run[w].pc # "idle" /\ RunInv(w) /\ CountInv(w) /\ StagedBeforeQueued
      /\ t \in Tasks /\ tasks[t].state # "none"
  BY DEF SeparationInv, AttemptsInv, PipelineInv, RunInv, HandlerSteps, StemSteps,
         BeatmapSteps
<1>2. run[w].pc = "download" => Stored(t.job, "original")
  BY <1>1 DEF StagedBeforeQueued
<1>3. run[w].pc = "detect_kicks" => Stored(t.job, "drum") /\ Stored(t.job, "original")
  BY <1>1 DEF RunInv, StagedBeforeQueued
<1>4. run[w].pc = "extract_melody" => Stored(t.job, "melody")
  BY <1>1 DEF RunInv, StagedBeforeQueued
<1>5. ASSUME run[w].pc = "get_children", NEW q \in {"kick", "melody"}
      PROVE  tasks[FlowTask(q, t.job, t.flow)].value # 0
  <2>1. t.queue = "beatmap"
    BY <1>1, <1>5 DEF RunInv, BeatmapSteps
  <2>2. tasks[t].owner = w
    BY <1>1 DEF CountInv, NoFailure
  <2>3. tasks[t].state = "active"
    BY <1>1, <2>2, OwnedActive DEF SeparationInv, AttemptsInv
  <2>4. FlowTask(q, t.job, t.flow) \in Tasks /\ IsChild(FlowTask(q, t.job, t.flow))
    BY <1>1, <2>1, TaskFields, FlowTaskType, FlowTaskFields DEF FlowQueues, IsChild
  <2>5. tasks[FlowTask(q, t.job, t.flow)].state = "completed"
    BY <1>1, <2>1, <2>3 DEF HeldInv, ChildrenDone, Underway
  <2>. QED  BY <2>4, <2>5 DEF HeldInv, ResultsKept
<1>. QED  BY <1>2, <1>3, <1>4, <1>5 DEF Missing

\* No run comes to an exception.
LEMMA NoRunFails ==
  ASSUME NoFailure, SeparationInv, HeldInv, CostInv, [Next]_vars, NEW w \in Workers
  PROVE  run'[w].pc \notin {"mark_failed", "raise"}
<1>1. /\ AttemptsInv /\ run \in [Workers -> RunRecord] /\ run[w] \in RunRecord
      /\ run[w].pc \notin {"mark_failed", "raise"}
  BY DEF SeparationInv, AttemptsInv, PipelineInv, TypeOK, CostInv
<1>2. ASSUME NEW local \in RunRecord, NEW next, Resume(w, local, next)
      PROVE  run'[w].pc = next
  BY <1>1, <1>2 DEF Resume, NoFailure, RunRecord
<1>3. CASE run'[w] = run[w]
  BY <1>1, <1>3
<1>4. CASE Start(w)
  BY <1>1, <1>4, TaskFields DEF Start, Started, FirstStep, Queues, FlowQueues
<1>5. CASE Crash(w) \/ Return(w)
  BY <1>1, <1>5 DEF Crash, Return, Idle
<1>6. CASE MarkProcessing(w) \/ UploadDrum(w) \/ UploadMelody(w) \/ EnqueueFlow(w)
           \/ MarkCompleted(w)
  BY <1>1, <1>2, <1>6 DEF MarkProcessing, UploadDrum, UploadMelody, EnqueueFlow,
                          MarkCompleted
<1>7. CASE InsertBeatmap(w)
  <2>1. Len(beatmaps) + 1 \in Nat
    <3>1. Len(beatmaps) \in Nat
      BY DEF SeparationInv, AttemptsInv, PipelineInv, TypeOK, RepositoryTypeOK
    <3>. QED  BY <3>1
  <2>2. ASSUME NEW n \in Nat PROVE [run[w] EXCEPT !.beatmap = n] \in RunRecord
    BY <1>1 DEF RunRecord
  <2>3. [run[w] EXCEPT !.beatmap = Len(beatmaps) + 1] \in RunRecord
    BY <2>1, <2>2
  <2>. QED  BY <1>2, <1>7, <2>3 DEF InsertBeatmap
<1>8. CASE Separate(w) \/ DetectKicks(w) \/ ExtractMelody(w)
  <2>1. CASE Separate(w)
    BY <1>1, <2>1 DEF Separate, RunRecord
  <2>2. CASE DetectKicks(w) \/ ExtractMelody(w)
    BY <1>1, <2>2 DEF DetectKicks, ExtractMelody, RunRecord
  <2>. QED  BY <1>8, <2>1, <2>2
<1>9. CASE GetChildren(w)
  BY <1>1, <1>9 DEF GetChildren, RunRecord
<1>10. ~MarkFailed(w) /\ ~Reraise(w) /\ ~Raise(w)
  BY <1>1, NothingMissing DEF MarkFailed, Reraise
<1>. QED  BY <1>1, <1>3, <1>4, <1>5, <1>6, <1>7, <1>8, <1>9, <1>10, OneRunMoves
          DEF HandlerStep

\* No task is charged.
LEMMA NoTaskCharged ==
  ASSUME NoFailure, SeparationInv, HeldInv, CostInv, [Next]_vars, NEW t \in Tasks
  PROVE  tasks'[t].made = 0 /\ tasks'[t].stalls = 0 /\ tasks'[t].state # "failed"
<1>1. /\ AttemptsInv /\ tasks \in [Tasks -> TaskRecord] /\ QueueTypeOK
      /\ tasks[t].made = 0 /\ tasks[t].stalls = 0 /\ tasks[t].state # "failed"
  BY DEF SeparationInv, AttemptsInv, PipelineInv, TypeOK, QueueTypeOK, CostInv,
         ShutdownCostsNothing
<1>2. ASSUME NEW j \in Jobs, EnqueueStem(j)
      PROVE  tasks'[t].made = 0 /\ tasks'[t].stalls = 0 /\ tasks'[t].state # "failed"
  BY <1>1, <1>2 DEF EnqueueStem, AddStem, TaskRecord
<1>3. ASSUME NEW w \in Workers, EnqueueFlow(w)
      PROVE  tasks'[t].made = 0 /\ tasks'[t].stalls = 0 /\ tasks'[t].state # "failed"
  <2>1. AddFlow(run[w].task.job, run[w].drum)
    BY <1>3 DEF EnqueueFlow
  <2>2. tasks'[t].made = 0
    BY <1>1, <2>1 DEF AddFlow, TaskRecord
  <2>3. tasks'[t].stalls = 0
    BY <1>1, <2>1 DEF AddFlow, TaskRecord
  <2>4. tasks'[t].state # "failed"
    BY <1>1, <2>1 DEF AddFlow, TaskRecord
  <2>. QED  BY <2>2, <2>3, <2>4
<1>4. ASSUME NEW w \in Workers, Start(w)
      PROVE  tasks'[t].made = 0 /\ tasks'[t].stalls = 0 /\ tasks'[t].state # "failed"
  <2>1. PICK u \in Tasks : Lock(u, w)
    BY <1>4 DEF Start
  <2>. QED  BY <1>1, <2>1 DEF Lock, TaskRecord
<1>5. ASSUME NEW w \in Workers, Settles(w, run[w].task), run[w].task \in Tasks
      PROVE  tasks'[t].made = 0 /\ tasks'[t].stalls = 0 /\ tasks'[t].state # "failed"
  <2>1. Complete(run[w].task, Result(w))
    BY <1>5 DEF Settles, Return, Reraise, CostInv
  <2>2. /\ tasks'[run[w].task].made = tasks[run[w].task].made
        /\ tasks'[run[w].task].stalls = tasks[run[w].task].stalls
        /\ \A u \in Tasks \ {run[w].task} : Uncounted(u)
        /\ \A u \in Tasks : tasks'[u].state = "failed" => tasks[u].state = "failed"
    BY <1>1, <1>5, <2>1, CompleteCounts
  <2>. QED  BY <1>1, <2>2 DEF Uncounted
<1>6. ASSUME NEW u \in Tasks PROVE ~Stall(u)
  BY DEF Stall, NoFailure, HeldInv, NoneAbandoned
<1>. QED  BY <1>1, <1>2, <1>3, <1>4, <1>5, <1>6, TasksMove

\* A deployment costs no song an attempt: a stopped process has settled its
\* task before it ends, and no handler raises of itself.
THEOREM ShutdownsFree ==
  ASSUME NoFailure
  PROVE  ProcSpec => []ShutdownCostsNothing
<1>1. Init => CostInv
  BY DEF Init, QueueInit, NewTask, Idle, CostInv, ShutdownCostsNothing
<1>2. SeparationInv /\ HeldInv /\ CostInv /\ [Next]_vars => CostInv'
  BY NoRunFails, NoTaskCharged DEF CostInv, ShutdownCostsNothing
<1>3. Spec => [](SeparationInv /\ HeldInv)
  BY HeldInvariant DEF NoFailure, OneFlow
<1>4. CostInv => ShutdownCostsNothing
  BY DEF CostInv
<1>5. Spec => []ShutdownCostsNothing
  BY <1>1, <1>2, <1>3, <1>4, PTL DEF Spec
<1>6. ProcSpec => Spec
  BY PipelineKept DEF KeepsPipeline
<1>. QED  BY <1>5, <1>6, PTL

\* Deployments list no song twice: main() lets a beatmap run that inserted its
\* beatmap go on to the return value, so no other process inserts again.
THEOREM DeploymentsListOnce ==
  ASSUME OneInsert
  PROVE  ProcSpec => []OneBeatmapPerJob
BY PipelineKept, PublishedOnce, PTL DEF KeepsPipeline

\* What clients are promised of outcomes holds however processes are replaced
\* while they poll.
THEOREM DeploymentsKeepOutcomes ==
  ASSUME OneFate
  PROVE  ProcSpec => []AnswersAgree /\ FollowsLifecycle
BY PipelineKept, AnswersSafe, LifecycleKept, PTL DEF KeepsPipeline
=============================================================================

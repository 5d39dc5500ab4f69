---------------------------- MODULE RetryProofs -----------------------------
(***************************************************************************)
(* What retries may do, for every number of jobs, workers and attempts.    *)
(*                                                                         *)
(* Attempts are counted in two places: BullMQ counts them for each task,   *)
(* and a handler judges on the count it read when its run began whether    *)
(* this one is the last (app/common/job_retry.py).  The first part relates *)
(* the two counts.                                                         *)
(*                                                                         *)
(* One song, one separation: the second part shows that every song gets    *)
(* one flow at most, and that the stems stay as they were when the flow    *)
(* was added, where no stem worker dies and no reply to add_flow is lost.  *)
(* Everything else may still fail, lose its reply, crash or run twice.  The*)
(* last section adds what is known of the tasks under way: who runs them,  *)
(* and what came before.                                                   *)
(***************************************************************************)
EXTENDS BeatmapPipelineProofs

-----------------------------------------------------------------------------
(* The inductive invariant.                                                *)

\* A run never counts more attempts than BullMQ, and exactly as many while it
\* holds the lock; only a handler that blocks the loop can lose the lock.
CountInv(w) ==
  LET t == run[w].task
  IN  /\ run[w].pc = "idle" => run[w] = Idle
      /\ run[w].pc # "idle" =>
           /\ run[w].made <= tasks[t].made
           /\ tasks[t].owner = w => run[w].made = tasks[t].made
           /\ t.queue \notin BlockQueues => tasks[t].owner = w
      /\ run[w].pc = "mark_failed" => is_final_attempt(w)

\* A run that gives up for good has left the error, unless MongoDB refused it.
ReportInv(w) ==
  /\ "mark_failed" \notin FailAt
  /\ run[w].pc = "raise" /\ is_final_attempt(w)
  => mapJobs[run[w].task.job].error

ErrorInv == \A j \in Jobs : mapJobs[j].error => mapJobs[j].status # "none"

AttemptsInv ==
  /\ PipelineInv
  /\ \A w \in Workers : CountInv(w) /\ ReportInv(w)
  /\ ErrorInv
  /\ ErrorOnlyWhenExhausted
  /\ "mark_failed" \notin FailAt => FailureReported

-----------------------------------------------------------------------------
(* What the operations of the queues do to the counts.                     *)

\* The counters of u are left alone.
Uncounted(u) ==
  /\ tasks'[u].made = tasks[u].made
  /\ tasks'[u].stalls = tasks[u].stalls
  /\ tasks'[u].owner = tasks[u].owner

\* Burying a task touches no counter, and fails nothing but the task and its
\* parent.
LEMMA BuryCounts ==
  ASSUME NEW t \in Tasks, NEW counted \in [Tasks -> TaskRecord],
         tasks' = Bury(counted, t)
  PROVE  \A u \in Tasks :
           /\ tasks'[u].made = counted[u].made
           /\ tasks'[u].stalls = counted[u].stalls
           /\ tasks'[u].owner = counted[u].owner
           /\ tasks'[u].state = "failed" =>
                \/ counted[u].state = "failed"
                \/ u = t \/ (IsChild(t) /\ u = Parent(t))
<1>. \A u \in Tasks : counted[u] \in TaskRecord
  OBVIOUS
<1>1. CASE IsChild(t) /\ counted[Parent(t)].state = "children"
  <2>1. tasks' = [counted EXCEPT ![t].state = "failed",
                                 ![Parent(t)].state = "failed"]
    BY <1>1 DEF Bury
  <2>2. Parent(t) \in Tasks /\ Parent(t) # t
    BY <1>1, FamilyDistinct
  <2>. HIDE DEF TaskRecord
  <2>3. /\ tasks'[t] = [counted[t] EXCEPT !.state = "failed"]
        /\ tasks'[Parent(t)] = [counted[Parent(t)] EXCEPT !.state = "failed"]
        /\ \A u \in Tasks : u # t /\ u # Parent(t) => tasks'[u] = counted[u]
    BY <2>1, <2>2
  <2>. QED  BY <1>1, <2>2, <2>3 DEF TaskRecord
<1>2. CASE ~(IsChild(t) /\ counted[Parent(t)].state = "children")
  <2>1. tasks' = [counted EXCEPT ![t].state = "failed"]
    BY <1>2 DEF Bury
  <2>2. /\ tasks'[t] = [counted[t] EXCEPT !.state = "failed"]
        /\ \A u \in Tasks : u # t => tasks'[u] = counted[u]
    BY <2>1
  <2>. QED  BY <2>2 DEF TaskRecord
<1>. QED  BY <1>1, <1>2

\* A failed attempt counts once, for its own task, and fails tasks only when
\* no attempt remains.
LEMMA FailCounts ==
  ASSUME QueueTypeOK, NEW t \in Tasks, NEW made \in Nat, Fail(t, made)
  PROVE  /\ tasks'[t].made = made + 1 /\ tasks'[t].owner = NoWorker
         /\ tasks'[t].stalls = tasks[t].stalls
         /\ \A u \in Tasks \ {t} : Uncounted(u)
         /\ \A u \in Tasks : tasks'[u].state = "failed" =>
              \/ tasks[u].state = "failed"
              \/ u.job = t.job /\ made + 1 >= Attempts[t.queue]
<1> DEFINE counted == [tasks EXCEPT ![t].made = made + 1, ![t].owner = NoWorker]
<1>1. tasks[t] \in TaskRecord
  BY DEF QueueTypeOK
<1>2. /\ counted[t] = [tasks[t] EXCEPT !.made = made + 1, !.owner = NoWorker]
      /\ \A u \in Tasks : u # t => counted[u] = tasks[u]
      /\ DOMAIN counted = Tasks
      /\ counted = [u \in Tasks |-> counted[u]]
  BY DEF QueueTypeOK
<1>3. counted[t] \in TaskRecord
  <2>1. made + 1 \in Nat
    OBVIOUS
  <2>. QED  BY <1>1, <1>2, <2>1, CountedType
<1>4. counted \in [Tasks -> TaskRecord]
  BY <1>2, <1>3 DEF QueueTypeOK
<1>5. /\ counted[t].made = made + 1 /\ counted[t].owner = NoWorker
      /\ counted[t].stalls = tasks[t].stalls /\ counted[t].state = tasks[t].state
  BY <1>1, <1>2 DEF TaskRecord
<1>6. tasks' = IF made + 1 < Attempts[t.queue]
               THEN [counted EXCEPT ![t].state = "wait"]
               ELSE Bury(counted, t)
  BY DEF Fail
<1>7. Attempts[t.queue] \in Int
  BY TaskFields, BullMQAssumption
<1>. HIDE DEF counted
<1>8. CASE made + 1 < Attempts[t.queue]
  <2>1. /\ tasks'[t] = [counted[t] EXCEPT !.state = "wait"]
        /\ \A u \in Tasks : u # t => tasks'[u] = counted[u]
    BY <1>4, <1>6, <1>8
  <2>2. /\ tasks'[t].made = counted[t].made /\ tasks'[t].stalls = counted[t].stalls
        /\ tasks'[t].owner = counted[t].owner /\ tasks'[t].state = "wait"
    BY <1>3, <2>1 DEF TaskRecord
  <2>3. \A u \in Tasks \ {t} : Uncounted(u)
    BY <1>2, <2>1 DEF Uncounted
  <2>4. \A u \in Tasks : tasks'[u].state = "failed" => tasks[u].state = "failed"
    <3>1. \A u \in Tasks : u = t \/ tasks'[u] = tasks[u]
      BY <1>2, <2>1
    <3>. QED  BY <2>2, <3>1
  <2>. QED  BY <1>5, <2>2, <2>3, <2>4
<1>9. CASE ~(made + 1 < Attempts[t.queue])
  <2>1. tasks' = Bury(counted, t) /\ made + 1 >= Attempts[t.queue]
    BY <1>6, <1>7, <1>9
  <2>2. Parent(t).job = t.job
    BY DEF Parent, FlowTask
  <2>3. \A u \in Tasks :
          /\ tasks'[u].made = counted[u].made
          /\ tasks'[u].stalls = counted[u].stalls
          /\ tasks'[u].owner = counted[u].owner
          /\ tasks'[u].state = "failed" =>
               counted[u].state = "failed" \/ u.job = t.job
    BY <1>4, <2>1, <2>2, BuryCounts
  <2>4. \A u \in Tasks \ {t} : Uncounted(u)
    BY <1>2, <2>3 DEF Uncounted
  <2>5. \A u \in Tasks :
          tasks'[u].state = "failed" => tasks[u].state = "failed" \/ u.job = t.job
    BY <1>2, <1>5, <2>3
  <2>. QED  BY <1>5, <2>1, <2>3, <2>4, <2>5
<1>. QED  BY <1>8, <1>9

\* A stall counts as one, takes the lock, and fails only what is LostToStalls.
LEMMA RecoverCounts ==
  ASSUME QueueTypeOK, NEW t \in Tasks, Recover(t)
  PROVE  /\ tasks'[t].made = tasks[t].made /\ tasks'[t].owner = NoWorker
         /\ tasks'[t].stalls = tasks[t].stalls + 1
         /\ \A u \in Tasks \ {t} : Uncounted(u)
         /\ \A u \in Tasks : tasks'[u].state = "failed" =>
              tasks[u].state = "failed" \/ LostToStalls(u)'
<1> DEFINE counted == [tasks EXCEPT ![t].stalls = @ + 1, ![t].owner = NoWorker]
<1>1. tasks[t] \in TaskRecord /\ tasks[t].stalls \in Nat
  BY DEF QueueTypeOK, TaskRecord
<1>2. /\ counted[t] = [tasks[t] EXCEPT !.stalls = tasks[t].stalls + 1,
                                       !.owner = NoWorker]
      /\ \A u \in Tasks : u # t => counted[u] = tasks[u]
      /\ counted = [u \in Tasks |-> counted[u]]
  BY DEF QueueTypeOK
<1>3. counted[t] \in TaskRecord
  <2>1. tasks[t].stalls + 1 \in Nat
    BY <1>1
  <2>. QED  BY <1>1, <1>2, <2>1, CountedType
<1>4. counted \in [Tasks -> TaskRecord]
  BY <1>2, <1>3 DEF QueueTypeOK
<1>5. /\ counted[t].made = tasks[t].made /\ counted[t].owner = NoWorker
      /\ counted[t].stalls = tasks[t].stalls + 1 /\ counted[t].state = tasks[t].state
  BY <1>1, <1>2 DEF TaskRecord
<1>6. tasks' = IF tasks[t].stalls < MaxStalledCount
               THEN [counted EXCEPT ![t].state = "wait"]
               ELSE Bury(counted, t)
  BY DEF Recover
<1>. HIDE DEF counted
<1>7. CASE tasks[t].stalls < MaxStalledCount
  <2>1. /\ tasks'[t] = [counted[t] EXCEPT !.state = "wait"]
        /\ \A u \in Tasks : u # t => tasks'[u] = counted[u]
    BY <1>4, <1>6, <1>7
  <2>2. /\ tasks'[t].made = counted[t].made /\ tasks'[t].stalls = counted[t].stalls
        /\ tasks'[t].owner = counted[t].owner /\ tasks'[t].state = "wait"
    BY <1>3, <2>1 DEF TaskRecord
  <2>. QED  BY <1>2, <1>5, <2>1, <2>2 DEF Uncounted
<1>8. CASE ~(tasks[t].stalls < MaxStalledCount)
  <2>1. tasks' = Bury(counted, t) /\ tasks[t].stalls + 1 > MaxStalledCount
    BY <1>1, <1>6, <1>8, BullMQAssumption
  <2>2. tasks'[t].stalls > MaxStalledCount
    BY <1>4, <1>5, <2>1, BuryCounts
  <2>3. LostToStalls(t)' /\ (IsChild(t) => LostToStalls(Parent(t))')
    <3>1. IsChild(t) => /\ Parent(t).queue = "beatmap"
                        /\ \E q \in {"kick", "melody"} :
                             t = FlowTask(q, Parent(t).job, Parent(t).flow)
      BY TaskFields, FlowTaskFields DEF IsChild, Parent
    <3>. QED  BY <2>2, <3>1 DEF LostToStalls
  <2>4. \A u \in Tasks :
          /\ tasks'[u].made = counted[u].made
          /\ tasks'[u].stalls = counted[u].stalls
          /\ tasks'[u].owner = counted[u].owner
          /\ tasks'[u].state = "failed" =>
               counted[u].state = "failed" \/ LostToStalls(u)'
    BY <1>4, <2>1, <2>3, BuryCounts
  <2>. QED  BY <1>2, <1>5, <2>4 DEF Uncounted
<1>. QED  BY <1>7, <1>8

-----------------------------------------------------------------------------
(* What every step leaves behind it.                                       *)

\* A run that does not move keeps its lock, unless its handler may block.
Undisturbed(v) ==
  LET t == run[v].task
  IN  /\ tasks[t].made <= tasks'[t].made
      /\ tasks'[t].owner = v => tasks[t].owner = v /\ tasks'[t].made = tasks[t].made
      /\ t.queue \notin BlockQueues /\ tasks[t].owner = v => tasks'[t].owner = v

\* No count goes down, and a task fails only with a reason.
QueueEffect ==
  \A t \in Tasks :
    /\ tasks[t].made <= tasks'[t].made /\ tasks[t].stalls <= tasks'[t].stalls
    /\ tasks'[t].state = "failed" =>
         \/ tasks[t].state = "failed"
         \/ LostToStalls(t)'
         \/ "mark_failed" \in FailAt
         \/ mapJobs[t.job].error

\* An error stays, and is only written at the last attempt of some task.
DocEffect ==
  \A j \in Jobs :
    /\ mapJobs[j].error => mapJobs'[j].error
    /\ mapJobs'[j].error /\ ~mapJobs[j].error =>
         /\ mapJobs'[j].status # "none"
         /\ \E t \in Tasks : t.job = j /\ tasks[t].made + 1 >= Attempts[t.queue]
    /\ mapJobs[j].status # "none" => mapJobs'[j].status # "none"

RunEffect ==
  \A v \in Workers :
    \/ run'[v] = run[v] /\ (run[v].pc # "idle" => Undisturbed(v))
    \/ CountInv(v)' /\ ReportInv(v)'

\* A step with these effects keeps the invariant.
LEMMA EffectsKeep ==
  ASSUME AttemptsInv, PipelineInv', QueueEffect, DocEffect, RunEffect
  PROVE  AttemptsInv'
<1>1. \A v \in Workers : CountInv(v)' /\ ReportInv(v)'
  <2>. SUFFICES ASSUME NEW v \in Workers,
                       run'[v] = run[v], run[v].pc # "idle" => Undisturbed(v)
                PROVE  CountInv(v)' /\ ReportInv(v)'
    BY DEF RunEffect
  <2>1. CountInv(v) /\ ReportInv(v)
    BY DEF AttemptsInv
  <2>2. CASE run[v].pc = "idle"
    BY <2>1, <2>2 DEF CountInv, ReportInv
  <2>3. CASE run[v].pc # "idle"
    <3>1. /\ run[v].task \in Tasks /\ run[v].task.job \in Jobs
          /\ run[v].made \in Nat /\ tasks[run[v].task].made \in Nat
          /\ tasks'[run[v].task].made \in Nat
      BY <2>3, TaskFields
      DEF AttemptsInv, PipelineInv, RunInv, TypeOK, RunRecord, QueueTypeOK, TaskRecord
    <3>2. CountInv(v)'
      BY <2>1, <2>3, <3>1 DEF CountInv, Undisturbed, is_final_attempt
    <3>3. ReportInv(v)'
      BY <2>1, <3>1 DEF ReportInv, is_final_attempt, DocEffect
    <3>. QED  BY <3>2, <3>3
  <2>. QED  BY <2>2, <2>3
<1>2. ErrorInv'
  BY DEF AttemptsInv, ErrorInv, DocEffect
<1>3. ErrorOnlyWhenExhausted'
  <2>. SUFFICES ASSUME NEW j \in Jobs, mapJobs'[j].error
                PROVE  \E t \in Tasks :
                         t.job = j /\ tasks'[t].made + 1 >= Attempts[t.queue]
    BY DEF ErrorOnlyWhenExhausted
  <2>1. PICK t \in Tasks : t.job = j /\ tasks[t].made + 1 >= Attempts[t.queue]
    BY DEF AttemptsInv, ErrorOnlyWhenExhausted, DocEffect
  <2>2. /\ tasks[t].made \in Nat /\ tasks'[t].made \in Nat
        /\ Attempts[t.queue] \in Int
    BY TaskFields, BullMQAssumption
    DEF AttemptsInv, PipelineInv, TypeOK, QueueTypeOK, TaskRecord
  <2>. QED  BY <2>1, <2>2 DEF QueueEffect
<1>4. "mark_failed" \notin FailAt => FailureReported'
  <2>. SUFFICES ASSUME "mark_failed" \notin FailAt, NEW t \in Tasks,
                       tasks'[t].state = "failed", ~LostToStalls(t)'
                PROVE  mapJobs'[t.job].error
    BY DEF FailureReported
  <2>1. t.job \in Jobs
    BY TaskFields
  <2>2. ~LostToStalls(t)
    <3>1. ASSUME NEW u \in Tasks, tasks[u].stalls > MaxStalledCount
          PROVE  tasks'[u].stalls > MaxStalledCount
      <4>1. tasks[u].stalls \in Nat /\ tasks'[u].stalls \in Nat
        BY DEF AttemptsInv, PipelineInv, TypeOK, QueueTypeOK, TaskRecord
      <4>. QED  BY <3>1, <4>1, BullMQAssumption DEF QueueEffect
    <3>2. t.queue = "beatmap" =>
            \A q \in {"kick", "melody"} : FlowTask(q, t.job, t.flow) \in Tasks
      BY TaskFields, FlowTaskType DEF FlowQueues
    <3>. QED  BY <3>1, <3>2 DEF LostToStalls
  <2>. QED  BY <2>1, <2>2 DEF AttemptsInv, FailureReported, QueueEffect, DocEffect
<1>. QED  BY <1>1, <1>2, <1>3, <1>4 DEF AttemptsInv

\* Queues that are left alone, or get new tasks, lose no count and fail nothing.
LEMMA CountsUntouched ==
  ASSUME QueueTypeOK, \A u \in Tasks : Uncounted(u),
         \A u \in Tasks : tasks'[u].state = "failed" => tasks[u].state = "failed"
  PROVE  QueueEffect
BY DEF QueueTypeOK, TaskRecord, Uncounted, QueueEffect

\* A step that moves no run, and touches no counter, disturbs none.
LEMMA RunsUntouched ==
  ASSUME AttemptsInv, \A u \in Tasks : Uncounted(u), NEW w \in Workers,
         run'[w] = run[w], run[w].pc # "idle"
  PROVE  Undisturbed(w)
<1>1. run[w].task \in Tasks /\ tasks[run[w].task].made \in Nat
  BY DEF AttemptsInv, PipelineInv, RunInv, TypeOK, QueueTypeOK, TaskRecord
<1>. QED  BY <1>1 DEF Uncounted, Undisturbed

\* A run that goes on with its task to another await, or to its end, counts
\* on; an exception before the last attempt leaves nothing to report.
LEMMA RunGoesOn ==
  ASSUME AttemptsInv, NEW w \in Workers, run[w].pc # "idle",
         run'[w].task = run[w].task, run'[w].made = run[w].made,
         run'[w].pc \in HandlerSteps \cup {"return", OnError(w)},
         Uncounted(run[w].task)
  PROVE  CountInv(w)' /\ ReportInv(w)'
<1>1. \/ run'[w].pc \notin {"idle", "mark_failed", "raise"}
      \/ run'[w].pc = "mark_failed" /\ is_final_attempt(w)
      \/ run'[w].pc = "raise" /\ ~is_final_attempt(w)
  BY DEF HandlerSteps, StemSteps, BeatmapSteps, OnError
<1>. QED  BY <1>1 DEF AttemptsInv, CountInv, ReportInv, Uncounted, is_final_attempt

\* Nothing is known of a run that is over.
LEMMA RunIsOver ==
  ASSUME NEW w \in Workers, run'[w] = Idle
  PROVE  CountInv(w)' /\ ReportInv(w)'
BY DEF CountInv, ReportInv, Idle

\* Documents left alone.
LEMMA DocsUntouched ==
  ASSUME UNCHANGED mapJobs
  PROVE  DocEffect
BY DEF DocEffect

-----------------------------------------------------------------------------
(* The steps.                                                              *)

\* Run w goes on with its task; no other run moves.
GoesOn(w) ==
  /\ run[w].pc # "idle"
  /\ run'[w].task = run[w].task /\ run'[w].made = run[w].made
  /\ run'[w].pc \in HandlerSteps \cup {"return", OnError(w)}
  /\ \A v \in Workers \ {w} : run'[v] = run[v]

\* The awaits of the handlers move their run on and leave the tasks alone;
\* adding a flow creates tasks.
LEMMA HandlersGoOn ==
  ASSUME AttemptsInv, NEW w \in Workers,
         \/ MarkProcessing(w) \/ Separate(w) \/ UploadDrum(w) \/ UploadMelody(w)
         \/ EnqueueFlow(w) \/ DetectKicks(w) \/ ExtractMelody(w)
         \/ GetChildren(w) \/ InsertBeatmap(w) \/ MarkCompleted(w) \/ Raise(w)
  PROVE  GoesOn(w)
<1>1. run \in [Workers -> RunRecord] /\ run[w] \in RunRecord
  BY DEF AttemptsInv, PipelineInv, TypeOK
<1>2. ASSUME NEW r, run' = [run EXCEPT ![w] = r], run[w].pc # "idle",
             r.task = run[w].task, r.made = run[w].made,
             r.pc \in HandlerSteps \cup {"return", OnError(w)}
      PROVE  GoesOn(w)
  BY <1>1, <1>2 DEF GoesOn
<1>3. ASSUME NEW next \in HandlerSteps \cup {"return"}, Resume(w, run[w], next),
             run[w].pc # "idle"
      PROVE  GoesOn(w)
  <2>1. PICK pc \in HandlerSteps \cup {"return", OnError(w)} :
          run' = [run EXCEPT ![w] = [run[w] EXCEPT !.pc = pc]]
    BY <1>3 DEF Resume
  <2>. QED  BY <1>1, <1>2, <1>3, <2>1 DEF RunRecord
<1>4. CASE MarkProcessing(w) \/ UploadDrum(w) \/ UploadMelody(w)
           \/ EnqueueFlow(w) \/ MarkCompleted(w)
  BY <1>3, <1>4 DEF MarkProcessing, UploadDrum, UploadMelody, EnqueueFlow,
                    MarkCompleted, HandlerSteps, StemSteps, BeatmapSteps
<1>5. CASE InsertBeatmap(w)
  <2> DEFINE local == [run[w] EXCEPT !.beatmap = Len(beatmaps) + 1]
  <2>1. run[w].pc = "insert_beatmap" /\ Resume(w, local, "mark_completed")
    BY <1>5 DEF InsertBeatmap
  <2>2. local.task = run[w].task /\ local.made = run[w].made
    BY <1>1 DEF RunRecord
  <2>3. PICK pc \in {"mark_completed", OnError(w)} :
          run' = [run EXCEPT ![w] = [local EXCEPT !.pc = pc]]
    BY <2>1 DEF Resume
  <2>4. DOMAIN local = DOMAIN run[w] /\ "pc" \in DOMAIN run[w]
    BY <1>1 DEF RunRecord
  <2>. HIDE DEF local
  <2>5. /\ [local EXCEPT !.pc = pc].task = local.task
        /\ [local EXCEPT !.pc = pc].made = local.made
        /\ [local EXCEPT !.pc = pc].pc = pc
    BY <1>1, <2>4 DEF RunRecord
  <2>. QED  BY <1>2, <2>1, <2>2, <2>3, <2>5 DEF HandlerSteps, BeatmapSteps
<1>6. CASE Separate(w)
  BY <1>1, <1>6 DEF Separate, RunRecord, GoesOn, HandlerSteps, StemSteps
<1>7. CASE DetectKicks(w) \/ ExtractMelody(w)
  BY <1>1, <1>7 DEF DetectKicks, ExtractMelody, RunRecord, GoesOn
<1>8. CASE GetChildren(w)
  BY <1>1, <1>8 DEF GetChildren, RunRecord, GoesOn, HandlerSteps, BeatmapSteps
<1>9. CASE Raise(w)
  BY <1>1, <1>9 DEF Raise, RunRecord, GoesOn, HandlerSteps, StemSteps, BeatmapSteps
<1>. QED  BY <1>4, <1>5, <1>6, <1>7, <1>8, <1>9

\* A handler writes no error before mark_failed.
LEMMA HandlersWriteNoError ==
  ASSUME AttemptsInv, NEW w \in Workers,
         \/ MarkProcessing(w) \/ Separate(w) \/ UploadDrum(w) \/ UploadMelody(w)
         \/ EnqueueFlow(w) \/ DetectKicks(w) \/ ExtractMelody(w)
         \/ GetChildren(w) \/ InsertBeatmap(w) \/ MarkCompleted(w) \/ Raise(w)
  PROVE  DocEffect
<1>1. mapJobs \in [Jobs -> MapJobDoc]
  BY DEF AttemptsInv, PipelineInv, TypeOK, RepositoryTypeOK
<1>2. CASE MarkProcessing(w)
  BY <1>1, <1>2 DEF MarkProcessing, mark_job_processing, DocEffect, MapJobDoc
<1>3. CASE MarkCompleted(w)
  BY <1>1, <1>3 DEF MarkCompleted, mark_job_completed, DocEffect, MapJobDoc
<1>4. CASE ~(MarkProcessing(w) \/ MarkCompleted(w))
  BY <1>4, DocsUntouched DEF Separate, UploadDrum, UploadMelody, EnqueueFlow,
       DetectKicks, ExtractMelody, GetChildren, InsertBeatmap, insert_beatmap, Raise
<1>. QED  BY <1>2, <1>3, <1>4

\* They leave every task as it is, or create tasks with all counts at zero.
LEMMA HandlersTouchNoCount ==
  ASSUME AttemptsInv, NEW w \in Workers,
         \/ MarkProcessing(w) \/ Separate(w) \/ UploadDrum(w) \/ UploadMelody(w)
         \/ EnqueueFlow(w) \/ DetectKicks(w) \/ ExtractMelody(w)
         \/ GetChildren(w) \/ InsertBeatmap(w) \/ MarkCompleted(w) \/ Raise(w)
  PROVE  \A u \in Tasks :
           Uncounted(u) /\ (tasks'[u].state = "failed" => tasks[u].state = "failed")
<1>1. CASE EnqueueFlow(w)
  <2> DEFINE j == run[w].task.job
             n == run[w].drum
             b == FlowTask("beatmap", j, n)
             k == FlowTask("kick", j, n)
             m == FlowTask("melody", j, n)
  <2>1. tasks' = [tasks EXCEPT ![b].state = "children", ![k].state = "wait",
                               ![m].state = "wait"]
    BY <1>1 DEF EnqueueFlow, AddFlow
  <2>2. tasks \in [Tasks -> TaskRecord] /\ b # k /\ b # m /\ k # m
    BY DEF AttemptsInv, PipelineInv, TypeOK, QueueTypeOK, FlowTask
  <2>. HIDE DEF b, k, m
  <2>3. ASSUME NEW u \in Tasks
        PROVE  \/ tasks'[u] = tasks[u]
               \/ \E s \in {"children", "wait"} : tasks'[u] = [tasks[u] EXCEPT !.state = s]
    BY <2>1, <2>2
  <2>4. ASSUME NEW u \in Tasks
        PROVE  Uncounted(u) /\ (tasks'[u].state = "failed" => tasks[u].state = "failed")
    <3>1. tasks[u] \in TaskRecord
      BY <2>2
    <3>. QED  BY <2>3, <3>1 DEF TaskRecord, Uncounted
  <2>. QED  BY <2>4
<1>2. CASE ~EnqueueFlow(w)
  <2>1. tasks' = tasks
    BY <1>2 DEF MarkProcessing, Separate, UploadDrum, UploadMelody, DetectKicks,
         ExtractMelody, GetChildren, InsertBeatmap, MarkCompleted, Raise
  <2>. QED  BY <2>1 DEF Uncounted
<1>. QED  BY <1>1, <1>2

\* A step that takes a lock away from one run, or from none, disturbs no other.
LEMMA Released ==
  ASSUME AttemptsInv, NEW t \in Tasks, \A u \in Tasks \ {t} : Uncounted(u),
         tasks[t].made <= tasks'[t].made, tasks'[t].owner = NoWorker,
         NEW v \in Workers, run'[v] = run[v], run[v].pc # "idle",
         run[v].task = t /\ tasks[t].owner = v => t.queue \in BlockQueues
  PROVE  Undisturbed(v)
<1>1. run[v].task \in Tasks /\ tasks[run[v].task].made \in Nat
  BY DEF AttemptsInv, PipelineInv, RunInv, TypeOK, QueueTypeOK, TaskRecord
<1>2. v # NoWorker
  BY BullMQAssumption
<1>3. CASE run[v].task = t
  BY <1>2, <1>3 DEF Undisturbed
<1>4. CASE run[v].task # t
  BY <1>1, <1>4 DEF Uncounted, Undisturbed
<1>. QED  BY <1>3, <1>4

\* The awaits of the handlers keep the counts in step.
LEMMA HandlerStepCounts ==
  ASSUME AttemptsInv, PipelineInv', NEW w \in Workers,
         \/ MarkProcessing(w) \/ Separate(w) \/ UploadDrum(w) \/ UploadMelody(w)
         \/ EnqueueFlow(w) \/ DetectKicks(w) \/ ExtractMelody(w)
         \/ GetChildren(w) \/ InsertBeatmap(w) \/ MarkCompleted(w) \/ Raise(w)
  PROVE  AttemptsInv'
<1>1. GoesOn(w)
  BY HandlersGoOn
<1>2. \A u \in Tasks :
        Uncounted(u) /\ (tasks'[u].state = "failed" => tasks[u].state = "failed")
  BY HandlersTouchNoCount
<1>3. QueueEffect
  BY <1>2, CountsUntouched DEF AttemptsInv, PipelineInv, TypeOK
<1>4. DocEffect
  BY HandlersWriteNoError
<1>5. run[w].task \in Tasks
  BY <1>1 DEF GoesOn, AttemptsInv, PipelineInv, RunInv
<1>6. CountInv(w)' /\ ReportInv(w)'
  BY <1>1, <1>2, <1>5, RunGoesOn DEF GoesOn
<1>7. RunEffect
  BY <1>1, <1>2, <1>6, RunsUntouched DEF GoesOn, RunEffect
<1>. QED  BY <1>3, <1>4, <1>7, EffectsKeep

\* The error is written by a run at its last attempt, whose task counts as
\* many attempts or more.
LEMMA MarkFailedCounts ==
  ASSUME AttemptsInv, PipelineInv', NEW w \in Workers, MarkFailed(w)
  PROVE  AttemptsInv'
<1> DEFINE t == run[w].task
<1>1. /\ run[w] \in RunRecord /\ run[w].pc = "mark_failed"
      /\ mapJobs \in [Jobs -> MapJobDoc] /\ QueueTypeOK
      /\ is_final_attempt(w) /\ run[w].made <= tasks[t].made /\ t \in Tasks
      /\ run[w].made \in Nat
  BY DEF AttemptsInv, PipelineInv, TypeOK, RepositoryTypeOK, MarkFailed, CountInv,
         RunInv, RunRecord
<1>2. t.job \in Jobs /\ Attempts[t.queue] \in Int /\ tasks[t].made \in Nat
  BY <1>1, TaskFields, BullMQAssumption DEF QueueTypeOK, TaskRecord
<1>3. tasks[t].made + 1 >= Attempts[t.queue]
  BY <1>1, <1>2 DEF is_final_attempt
<1>4. /\ run'[w].pc = "raise" /\ run'[w].task = t /\ run'[w].made = run[w].made
      /\ \A v \in Workers \ {w} : run'[v] = run[v]
  BY <1>1 DEF MarkFailed, AttemptsInv, PipelineInv, TypeOK, RunRecord
<1>5. mapJobs[t.job].status # "none"
  BY <1>1, JobInserted DEF AttemptsInv
<1>6. \/ UNCHANGED mapJobs /\ "mark_failed" \in FailAt
      \/ mapJobs' = [mapJobs EXCEPT ![t.job].status = "failed", ![t.job].error = TRUE]
  BY DEF MarkFailed, mark_job_failed
<1>7. DocEffect
  <2>1. CASE UNCHANGED mapJobs
    BY <2>1, DocsUntouched
  <2>2. CASE mapJobs' = [mapJobs EXCEPT ![t.job].status = "failed", ![t.job].error = TRUE]
    <3>1. /\ mapJobs'[t.job].status = "failed" /\ mapJobs'[t.job].error
          /\ \A j \in Jobs : j # t.job => mapJobs'[j] = mapJobs[j]
      BY <1>1, <1>2, <2>2 DEF MapJobDoc
    <3>. QED  BY <1>1, <1>3, <3>1 DEF DocEffect
  <2>. QED  BY <1>6, <2>1, <2>2
<1>8. \A u \in Tasks : Uncounted(u) /\ (tasks'[u].state = "failed" => tasks[u].state = "failed")
  BY DEF MarkFailed, Uncounted
<1>9. QueueEffect
  BY <1>1, <1>8, CountsUntouched
<1>10. "mark_failed" \notin FailAt => mapJobs'[t.job].error
  BY <1>1, <1>2, <1>6 DEF MapJobDoc
<1>11. CountInv(w)' /\ ReportInv(w)'
  BY <1>1, <1>4, <1>8, <1>10 DEF AttemptsInv, CountInv, ReportInv, Uncounted
<1>12. RunEffect
  BY <1>4, <1>8, <1>11, RunsUntouched DEF RunEffect
<1>. QED  BY <1>7, <1>9, <1>12, EffectsKeep

\* A run reads the count of its task when it takes the lock.
LEMMA StartCounts ==
  ASSUME AttemptsInv, PipelineInv', NEW w \in Workers, Start(w)
  PROVE  AttemptsInv'
<1>1. PICK t \in Tasks : Lock(t, w) /\ run' = [run EXCEPT ![w] = Started(t)]
  BY DEF Start
<1>2. run \in [Workers -> RunRecord] /\ tasks \in [Tasks -> TaskRecord]
  BY DEF AttemptsInv, PipelineInv, TypeOK, QueueTypeOK
<1>3. tasks[t].state = "wait" /\ tasks[t].owner = NoWorker
  BY <1>1 DEF Lock, AttemptsInv, PipelineInv, QueueInv
<1>4. /\ tasks'[t] = [tasks[t] EXCEPT !.state = "active", !.owner = w]
      /\ \A u \in Tasks \ {t} : tasks'[u] = tasks[u]
  BY <1>1, <1>2 DEF Lock
<1>5. /\ tasks'[t].made = tasks[t].made /\ tasks'[t].stalls = tasks[t].stalls
      /\ tasks'[t].owner = w /\ tasks'[t].state = "active"
      /\ tasks[t].made \in Nat /\ tasks[t].stalls \in Nat
  BY <1>2, <1>4 DEF TaskRecord
<1>6. QueueEffect
  <2>1. \A u \in Tasks : tasks[u].made \in Nat /\ tasks[u].stalls \in Nat
    BY <1>2 DEF TaskRecord
  <2>2. \A u \in Tasks : u # t => tasks'[u] = tasks[u]
    BY <1>4
  <2>. QED  BY <1>5, <2>1, <2>2 DEF QueueEffect
<1>7. DocEffect
  BY DocsUntouched DEF Start
<1>8. /\ run'[w].task = t /\ run'[w].made = tasks[t].made
      /\ run'[w].pc \notin {"idle", "mark_failed", "raise"}
      /\ \A v \in Workers \ {w} : run'[v] = run[v]
  BY <1>1, <1>2, TaskFields DEF Started, FirstStep, Queues, FlowQueues
<1>9. CountInv(w)' /\ ReportInv(w)'
  BY <1>5, <1>8 DEF CountInv, ReportInv
<1>10. ASSUME NEW v \in Workers \ {w}, run[v].pc # "idle"
       PROVE  Undisturbed(v)
  <2>1. run[v].task \in Tasks /\ v # NoWorker
    BY <1>10, BullMQAssumption DEF AttemptsInv, PipelineInv, RunInv
  <2>2. tasks[run[v].task].made \in Nat
    BY <1>2, <2>1 DEF TaskRecord
  <2>3. CASE run[v].task = t
    BY <1>3, <1>5, <1>10, <2>1, <2>3 DEF Undisturbed
  <2>4. CASE run[v].task # t
    BY <1>4, <2>1, <2>2, <2>4 DEF Undisturbed
  <2>. QED  BY <2>3, <2>4
<1>11. RunEffect
  BY <1>8, <1>9, <1>10 DEF RunEffect
<1>. QED  BY <1>6, <1>7, <1>11, EffectsKeep

\* Completing a task counts nothing and fails nothing.
LEMMA CompleteCounts ==
  ASSUME QueueTypeOK, NEW t \in Tasks, NEW value, Complete(t, value)
  PROVE  /\ tasks'[t].made = tasks[t].made /\ tasks'[t].owner = NoWorker
         /\ tasks'[t].stalls = tasks[t].stalls
         /\ \A u \in Tasks \ {t} : Uncounted(u)
         /\ \A u \in Tasks : tasks'[u].state = "failed" => tasks[u].state = "failed"
<1> DEFINE done == [tasks EXCEPT ![t].state = "completed", ![t].owner = NoWorker,
                                 ![t].value = value]
<1>1. tasks \in [Tasks -> TaskRecord]
  BY DEF QueueTypeOK
<1>2. /\ done[t] = [tasks[t] EXCEPT !.state = "completed", !.owner = NoWorker,
                                    !.value = value]
      /\ \A u \in Tasks : u # t => done[u] = tasks[u]
      /\ DOMAIN done = Tasks
  BY <1>1
<1>3. /\ tasks'[t] = done[t]
      /\ \A u \in Tasks : u # t =>
           tasks'[u] = tasks[u] \/ tasks'[u] = [tasks[u] EXCEPT !.state = "wait"]
  <2>1. \/ tasks' = done
        \/ IsChild(t) /\ tasks' = [done EXCEPT ![Parent(t)].state = "wait"]
    BY DEF Complete
  <2>. HIDE DEF done
  <2>2. IsChild(t) => Parent(t) \in Tasks /\ Parent(t) # t
    BY FamilyDistinct
  <2>. QED  BY <1>2, <2>1, <2>2
<1>. HIDE DEF done
<1>4. tasks'[t].made = tasks[t].made /\ tasks'[t].owner = NoWorker
      /\ tasks'[t].stalls = tasks[t].stalls /\ tasks'[t].state = "completed"
  BY <1>1, <1>2, <1>3 DEF TaskRecord
<1>5. ASSUME NEW u \in Tasks \ {t}
      PROVE  Uncounted(u) /\ (tasks'[u].state = "failed" => tasks[u].state = "failed")
  <2>1. tasks[u] \in TaskRecord
    BY <1>1
  <2>. QED  BY <1>3, <2>1 DEF TaskRecord, Uncounted
<1>. QED  BY <1>4, <1>5

\* A run that returns gives its lock back, if it still holds it.
LEMMA ReturnCounts ==
  ASSUME AttemptsInv, PipelineInv', NEW w \in Workers, Return(w)
  PROVE  AttemptsInv'
<1> DEFINE t == run[w].task
<1>1. /\ QueueTypeOK /\ run[w].pc = "return" /\ t \in Tasks
      /\ run'[w] = Idle /\ \A v \in Workers \ {w} : run'[v] = run[v]
  BY DEF AttemptsInv, PipelineInv, TypeOK, Return, RunInv
<1>2. DocEffect
  BY DocsUntouched DEF Return
<1>3. CASE tasks[t].owner = w
  <2>1. Complete(t, Result(w))
    BY <1>3 DEF Return
  <2>2. /\ tasks'[t].made = tasks[t].made /\ tasks'[t].owner = NoWorker
        /\ tasks'[t].stalls = tasks[t].stalls
        /\ \A u \in Tasks \ {t} : Uncounted(u)
        /\ \A u \in Tasks : tasks'[u].state = "failed" => tasks[u].state = "failed"
    BY <1>1, <2>1, CompleteCounts
  <2>3. \A u \in Tasks : tasks[u].made \in Nat /\ tasks[u].stalls \in Nat
    BY <1>1 DEF QueueTypeOK, TaskRecord
  <2>4. QueueEffect
    BY <2>2, <2>3 DEF QueueEffect, Uncounted
  <2>5. \A v \in Workers \ {w} : run[v].pc # "idle" => Undisturbed(v)
    BY <1>1, <1>3, <2>2, <2>3, Released
  <2>6. RunEffect
    BY <1>1, <2>5, RunIsOver DEF RunEffect
  <2>. QED  BY <1>2, <2>4, <2>6, EffectsKeep
<1>4. CASE tasks[t].owner # w
  <2>1. tasks' = tasks
    BY <1>4 DEF Return
  <2>2. \A u \in Tasks : Uncounted(u)
    BY <2>1 DEF Uncounted
  <2>3. QueueEffect
    BY <1>1, <2>1, <2>2, CountsUntouched
  <2>4. RunEffect
    BY <1>1, <2>2, RunIsOver, RunsUntouched DEF RunEffect
  <2>. QED  BY <1>2, <2>3, <2>4, EffectsKeep
<1>. QED  BY <1>3, <1>4

\* The attempt BullMQ counts is the one the run judged on: a task fails for
\* good only after its run has left the error.
LEMMA ReraiseCounts ==
  ASSUME AttemptsInv, PipelineInv', NEW w \in Workers, Reraise(w)
  PROVE  AttemptsInv'
<1> DEFINE t == run[w].task
           made == run[w].made
<1>1. /\ QueueTypeOK /\ run[w].pc = "raise" /\ t \in Tasks /\ made \in Nat
      /\ run'[w] = Idle /\ \A v \in Workers \ {w} : run'[v] = run[v]
  BY DEF AttemptsInv, PipelineInv, TypeOK, Reraise, RunInv, RunRecord
<1>2. DocEffect
  BY DocsUntouched DEF Reraise
<1>3. CASE tasks[t].owner = w
  <2>1. Fail(t, made) /\ made = tasks[t].made
    BY <1>1, <1>3 DEF Reraise, AttemptsInv, CountInv
  <2>2. /\ tasks'[t].made = made + 1 /\ tasks'[t].owner = NoWorker
        /\ tasks'[t].stalls = tasks[t].stalls
        /\ \A u \in Tasks \ {t} : Uncounted(u)
        /\ \A u \in Tasks : tasks'[u].state = "failed" =>
             \/ tasks[u].state = "failed"
             \/ u.job = t.job /\ made + 1 >= Attempts[t.queue]
    BY <1>1, <2>1, FailCounts
  <2>3. \A u \in Tasks : tasks[u].made \in Nat /\ tasks[u].stalls \in Nat
    BY <1>1 DEF QueueTypeOK, TaskRecord
  <2>4. made + 1 >= Attempts[t.queue] =>
          "mark_failed" \in FailAt \/ mapJobs[t.job].error
    BY <1>1 DEF AttemptsInv, ReportInv, is_final_attempt
  <2>5. QueueEffect
    BY <2>1, <2>2, <2>3, <2>4 DEF QueueEffect, Uncounted
  <2>6. \A v \in Workers \ {w} : run[v].pc # "idle" => Undisturbed(v)
    BY <1>1, <1>3, <2>1, <2>2, <2>3, Released
  <2>7. RunEffect
    BY <1>1, <2>6, RunIsOver DEF RunEffect
  <2>. QED  BY <1>2, <2>5, <2>7, EffectsKeep
<1>4. CASE tasks[t].owner # w
  <2>1. tasks' = tasks
    BY <1>4 DEF Reraise
  <2>2. \A u \in Tasks : Uncounted(u)
    BY <2>1 DEF Uncounted
  <2>3. QueueEffect
    BY <1>1, <2>1, <2>2, CountsUntouched
  <2>4. RunEffect
    BY <1>1, <2>2, RunIsOver, RunsUntouched DEF RunEffect
  <2>. QED  BY <1>2, <2>3, <2>4, EffectsKeep
<1>. QED  BY <1>3, <1>4

\* Only a blocked handler, or one that is gone, loses its lock.
LEMMA StallCounts ==
  ASSUME AttemptsInv, PipelineInv', NEW t \in Tasks, Stall(t)
  PROVE  AttemptsInv'
<1>1. QueueTypeOK /\ run' = run /\ Recover(t)
  BY DEF AttemptsInv, PipelineInv, TypeOK, Stall
<1>2. /\ tasks'[t].made = tasks[t].made /\ tasks'[t].owner = NoWorker
      /\ tasks'[t].stalls = tasks[t].stalls + 1
      /\ \A u \in Tasks \ {t} : Uncounted(u)
      /\ \A u \in Tasks : tasks'[u].state = "failed" =>
           tasks[u].state = "failed" \/ LostToStalls(u)'
  BY <1>1, RecoverCounts
<1>3. \A u \in Tasks : tasks[u].made \in Nat /\ tasks[u].stalls \in Nat
  BY <1>1 DEF QueueTypeOK, TaskRecord
<1>4. QueueEffect
  <2>1. \A u \in Tasks :
          tasks[u].made <= tasks'[u].made /\ tasks[u].stalls <= tasks'[u].stalls
    BY <1>2, <1>3 DEF Uncounted
  <2>. QED  BY <1>2, <2>1 DEF QueueEffect
<1>5. DocEffect
  BY DocsUntouched DEF Stall
<1>6. ASSUME NEW v \in Workers, run[v].pc # "idle" PROVE Undisturbed(v)
  <2>1. run[v].task = t /\ tasks[t].owner = v => t.queue \in BlockQueues
    BY DEF Stall, Abandoned
  <2>. QED  BY <1>1, <1>2, <1>3, <1>6, <2>1, Released
<1>7. RunEffect
  BY <1>1, <1>6 DEF RunEffect
<1>. QED  BY <1>4, <1>5, <1>7, EffectsKeep

\* A worker that dies forgets its run; its lock lapses later.
LEMMA CrashCounts ==
  ASSUME AttemptsInv, PipelineInv', NEW w \in Workers, Crash(w)
  PROVE  AttemptsInv'
<1>1. /\ run'[w] = Idle /\ \A v \in Workers \ {w} : run'[v] = run[v]
      /\ tasks' = tasks /\ QueueTypeOK
  BY DEF AttemptsInv, PipelineInv, TypeOK, Crash
<1>2. \A u \in Tasks : Uncounted(u)
  BY <1>1 DEF Uncounted
<1>3. QueueEffect
  BY <1>1, <1>2, CountsUntouched
<1>4. DocEffect
  BY DocsUntouched DEF Crash
<1>5. RunEffect
  BY <1>1, <1>2, RunIsOver, RunsUntouched DEF RunEffect
<1>. QED  BY <1>3, <1>4, <1>5, EffectsKeep

\* A request writes its document before anything is queued, and counts nothing.
LEMMA RequestCounts ==
  ASSUME AttemptsInv, PipelineInv', NEW j \in Jobs, Request(j) \/ AbortRequest(j)
  PROVE  AttemptsInv'
<1>1. /\ QueueTypeOK /\ mapJobs \in [Jobs -> MapJobDoc]
      /\ api[j] = "insert_map_job" => mapJobs[j].status = "none"
  BY DEF AttemptsInv, PipelineInv, TypeOK, RepositoryTypeOK, RequestInv
<1>2. run' = run
  BY DEF Request, AbortRequest, Validate, InsertMapJob, SetObjectKey,
         UploadOriginal, EnqueueStem
<1>3. DocEffect
  <2>1. CASE InsertMapJob(j)
    <3>1. mapJobs' = [mapJobs EXCEPT ![j] = [NoDoc EXCEPT !.status = "queued"]]
      BY <2>1 DEF InsertMapJob, insert_map_job
    <3>2. ~mapJobs[j].error /\ mapJobs[j].status = "none"
      BY <1>1, <2>1 DEF InsertMapJob, AttemptsInv, ErrorInv
    <3>3. ~[NoDoc EXCEPT !.status = "queued"].error
      BY DEF NoDoc
    <3>4. mapJobs'[j] = [NoDoc EXCEPT !.status = "queued"]
      BY <1>1, <3>1
    <3>5. \A i \in Jobs : i # j => mapJobs'[i] = mapJobs[i]
      BY <1>1, <3>1
    <3>. QED  BY <3>2, <3>3, <3>4, <3>5 DEF DocEffect
  <2>2. CASE SetObjectKey(j)
    BY <1>1, <2>2 DEF SetObjectKey, set_job_object_key, DocEffect, MapJobDoc
  <2>3. CASE Validate(j) \/ UploadOriginal(j) \/ EnqueueStem(j) \/ AbortRequest(j)
    BY <2>3, DocsUntouched DEF Validate, UploadOriginal, EnqueueStem, AbortRequest
  <2>. QED  BY <2>1, <2>2, <2>3 DEF Request
<1>4. \A u \in Tasks :
        Uncounted(u) /\ (tasks'[u].state = "failed" => tasks[u].state = "failed")
  <2>1. CASE EnqueueStem(j)
    <3>1. tasks' = [tasks EXCEPT ![StemTask(j)].state = "wait"]
      BY <2>1 DEF EnqueueStem, AddStem
    <3>2. ASSUME NEW u \in Tasks
          PROVE  \/ tasks'[u] = tasks[u]
                 \/ tasks'[u] = [tasks[u] EXCEPT !.state = "wait"]
      BY <1>1, <3>1 DEF QueueTypeOK
    <3>3. ASSUME NEW u \in Tasks
          PROVE  Uncounted(u) /\ (tasks'[u].state = "failed" => tasks[u].state = "failed")
      <4>1. tasks[u] \in TaskRecord
        BY <1>1 DEF QueueTypeOK
      <4>. QED  BY <3>2, <4>1 DEF TaskRecord, Uncounted
    <3>. QED  BY <3>3
  <2>2. CASE ~EnqueueStem(j)
    BY <2>2 DEF Request, AbortRequest, Validate, InsertMapJob, SetObjectKey,
                UploadOriginal, Uncounted
  <2>. QED  BY <2>1, <2>2
<1>5. QueueEffect
  BY <1>1, <1>4, CountsUntouched
<1>6. RunEffect
  BY <1>2, <1>4, RunsUntouched DEF RunEffect
<1>. QED  BY <1>3, <1>5, <1>6, EffectsKeep

\* Nothing is counted before the first task.
LEMMA AttemptsInit == Init => AttemptsInv
<1>. SUFFICES ASSUME Init PROVE AttemptsInv
  OBVIOUS
<1>1. PipelineInv
  BY InitInv
<1>2. \A w \in Workers : CountInv(w) /\ ReportInv(w)
  BY DEF Init, CountInv, ReportInv, Idle
<1>3. \A j \in Jobs : ~mapJobs[j].error
  BY DEF Init, RepositoryInit, NoDoc
<1>4. \A t \in Tasks : tasks[t].state = "none"
  BY DEF Init, QueueInit, NewTask
<1>. QED  BY <1>1, <1>2, <1>3, <1>4
     DEF AttemptsInv, ErrorInv, ErrorOnlyWhenExhausted, FailureReported

\* Every step keeps the counts in step.
LEMMA AttemptsNext == AttemptsInv /\ [Next]_vars => AttemptsInv'
<1>. SUFFICES ASSUME AttemptsInv, [Next]_vars PROVE AttemptsInv'
  OBVIOUS
<1>1. PipelineInv'
  BY NextInv DEF AttemptsInv
<1>2. CASE UNCHANGED vars
  <2>1. QueueEffect /\ DocEffect /\ RunEffect
    <3>1. tasks' = tasks /\ mapJobs' = mapJobs /\ run' = run /\ QueueTypeOK
      BY <1>2 DEF vars, AttemptsInv, PipelineInv, TypeOK
    <3>2. \A u \in Tasks : Uncounted(u)
      BY <3>1 DEF Uncounted
    <3>. QED  BY <3>1, <3>2, CountsUntouched, DocsUntouched, RunsUntouched DEF RunEffect
  <2>. QED  BY <1>1, <2>1, EffectsKeep
<1>3. ASSUME NEW w \in Workers, Start(w) \/ HandlerStep(w) \/ Raise(w) \/ Crash(w)
      PROVE  AttemptsInv'
  BY <1>1, <1>3, StartCounts, HandlerStepCounts, MarkFailedCounts, ReturnCounts,
     ReraiseCounts, CrashCounts DEF HandlerStep
<1>. QED  BY <1>1, <1>2, <1>3, RequestCounts, StallCounts DEF Next

\* The inductive invariant holds in every reachable state.
LEMMA AttemptsInvariant == Spec => []AttemptsInv
BY AttemptsInit, AttemptsNext, PTL DEF Spec

-----------------------------------------------------------------------------
(* What follows for every instance.                                        *)

\* An error in a job document means that BullMQ has no attempt left for some
\* task of the job: is_final_attempt never judges too early, whatever crashes,
\* stalls and retries came between reading the count and judging on it.
THEOREM ErrorsAreFinal == Spec => []ErrorOnlyWhenExhausted
<1>1. AttemptsInv => ErrorOnlyWhenExhausted
  BY DEF AttemptsInv
<1>. QED  BY <1>1, AttemptsInvariant, PTL

\* Nor too late: where mark_failed itself does not fail, a task BullMQ has
\* failed after its attempts has left its error in the job document.
THEOREM FailuresReported ==
  ASSUME "mark_failed" \notin FailAt
  PROVE  Spec => []FailureReported
<1>1. AttemptsInv => FailureReported
  BY DEF AttemptsInv
<1>. QED  BY <1>1, AttemptsInvariant, PTL

-----------------------------------------------------------------------------
(* Who moves: the facts that the proofs about outcomes start from.         *)

\* A run moves by a step of its own worker.
LEMMA OneRunMoves ==
  ASSUME AttemptsInv, [Next]_vars, NEW v \in Workers
  PROVE  run'[v] = run[v] \/ Start(v) \/ HandlerStep(v) \/ Raise(v) \/ Crash(v)
<1>1. run \in [Workers -> RunRecord]
  BY DEF AttemptsInv, PipelineInv, TypeOK
<1>2. ASSUME NEW w \in Workers, HandlerStep(w) \/ Raise(w), v # w
      PROVE  run'[v] = run[v]
  <2>1. CASE MarkFailed(w) \/ Return(w) \/ Reraise(w)
    BY <1>1, <1>2, <2>1 DEF MarkFailed, Return, Reraise
  <2>2. CASE ~(MarkFailed(w) \/ Return(w) \/ Reraise(w))
    BY <1>2, <2>2, HandlersGoOn DEF GoesOn, HandlerStep
  <2>. QED  BY <2>1, <2>2
<1>3. ASSUME NEW w \in Workers, Start(w) \/ Crash(w), v # w
      PROVE  run'[v] = run[v]
  BY <1>1, <1>3 DEF Start, Crash
<1>4. ASSUME NEW j \in Jobs, Request(j) \/ AbortRequest(j) PROVE run' = run
  BY <1>4 DEF Request, AbortRequest, Validate, InsertMapJob, SetObjectKey,
              UploadOriginal, EnqueueStem
<1>5. ASSUME NEW t \in Tasks, Stall(t) PROVE run' = run
  BY <1>5 DEF Stall
<1>. QED  BY <1>2, <1>3, <1>4, <1>5 DEF Next, vars

\* Run w, which holds the lock, settles task t.
Settles(w, t) ==
  /\ run[w].task = t /\ tasks[t].owner = w /\ tasks[t].state = "active"
  /\ \/ Return(w) /\ Finishes(t)
     \/ /\ Reraise(w) /\ Releases(t)
        /\ is_final_attempt(w) => tasks'[t].state = "failed"

\* A run that ends with the lock in its hands settles its task.
LEMMA RunSettles ==
  ASSUME AttemptsInv, NEW w \in Workers, Return(w) \/ Reraise(w),
         tasks[run[w].task].owner = w
  PROVE  Settles(w, run[w].task) /\ run[w].task \in Tasks
<1> DEFINE t == run[w].task
<1>1. QueueTypeOK /\ QueueInv
  BY DEF AttemptsInv, PipelineInv, TypeOK
<1>2. /\ t \in Tasks /\ run[w].made \in Nat
      /\ run[w].pc # "idle"
  BY DEF Return, Reraise, AttemptsInv, PipelineInv, TypeOK, RunInv, RunRecord
<1>3. tasks[t].state = "active"
  BY <1>2, OwnedActive DEF AttemptsInv
<1>4. ASSUME Return(w) PROVE Finishes(t)
  <2>1. Complete(t, Result(w))
    BY <1>4 DEF Return
  <2>. QED  BY <1>1, <1>2, <2>1, CompleteFinishes
<1>5. ASSUME Reraise(w)
      PROVE  Releases(t) /\ (is_final_attempt(w) => tasks'[t].state = "failed")
  <2>1. Fail(t, run[w].made)
    BY <1>5 DEF Reraise
  <2>. QED  BY <1>1, <1>2, <2>1, FailReleases DEF is_final_attempt
<1>. QED  BY <1>2, <1>3, <1>4, <1>5 DEF Settles

\* Tasks move only when they are added, locked, settled or stalled.
LEMMA TasksMove ==
  ASSUME AttemptsInv, [Next]_vars
  PROVE  \/ tasks' = tasks
         \/ \E j \in Jobs : EnqueueStem(j)
         \/ \E w \in Workers : EnqueueFlow(w) \/ Start(w)
         \/ \E t \in Tasks : Stall(t) /\ Releases(t)
         \/ \E w \in Workers : Settles(w, run[w].task) /\ run[w].task \in Tasks
<1>1. QueueTypeOK /\ QueueInv
  BY DEF AttemptsInv, PipelineInv, TypeOK
<1>2. ASSUME NEW w \in Workers, Return(w) \/ Reraise(w), tasks[run[w].task].owner = w
      PROVE  Settles(w, run[w].task) /\ run[w].task \in Tasks
  BY <1>2, RunSettles
<1>3. ASSUME NEW w \in Workers, Return(w) \/ Reraise(w), tasks[run[w].task].owner # w
      PROVE  tasks' = tasks
  BY <1>3 DEF Return, Reraise
<1>4. ASSUME NEW t \in Tasks, Stall(t) PROVE Releases(t)
  BY <1>1, <1>4, RecoverReleases DEF Stall
<1>5. ASSUME NEW w \in Workers, Raise(w) \/ Crash(w) \/ HandlerStep(w),
             ~(EnqueueFlow(w) \/ Return(w) \/ Reraise(w))
      PROVE  tasks' = tasks
  BY <1>5 DEF Raise, Crash, HandlerStep, MarkProcessing, Separate, UploadDrum,
              UploadMelody, DetectKicks, ExtractMelody, GetChildren, InsertBeatmap,
              MarkCompleted, MarkFailed
<1>6. ASSUME NEW j \in Jobs, Request(j) \/ AbortRequest(j), ~EnqueueStem(j)
      PROVE  tasks' = tasks
  BY <1>6 DEF Request, AbortRequest, Validate, InsertMapJob, SetObjectKey, UploadOriginal
<1>7. CASE UNCHANGED vars
  BY <1>7 DEF vars
<1>. QED  BY <1>2, <1>3, <1>4, <1>5, <1>6, <1>7 DEF Next, HandlerStep

\* A task that is finished stays so, and one under way is left alone, stalled
\* or settled by the run that holds its lock.
LEMMA TaskMoves ==
  ASSUME AttemptsInv, [Next]_vars, NEW t \in Tasks
  PROVE  /\ tasks[t].state \in {"completed", "failed"} => tasks'[t] = tasks[t]
         /\ tasks[t].state = "active" =>
              \/ tasks'[t] = tasks[t]
              \/ Stall(t)
              \/ \E w \in Workers : Settles(w, t)
<1>1. QueueTypeOK /\ QueueInv
  BY DEF AttemptsInv, PipelineInv, TypeOK
<1>2. ASSUME NEW j \in Jobs, EnqueueStem(j), tasks[t].state # "none"
      PROVE  tasks'[t] = tasks[t]
  <2>1. AddStem(j) /\ tasks[StemTask(j)].state = "none"
    BY <1>2 DEF EnqueueStem, AttemptsInv, PipelineInv, RequestInv, ApiSteps
  <2>. QED  BY <1>1, <1>2, <2>1, AddStemKeeps
<1>3. ASSUME NEW w \in Workers, EnqueueFlow(w), tasks[t].state # "none"
      PROVE  tasks'[t] = tasks[t]
  <2> DEFINE j == run[w].task.job
             n == run[w].drum
  <2>1. /\ AddFlow(j, n) /\ n \in 1..MaxFlows /\ j \in Jobs
        /\ \A q \in FlowQueues : tasks[FlowTask(q, j, n)].state = "none"
    BY <1>3, TaskFields DEF EnqueueFlow, AttemptsInv, PipelineInv, RunInv, Staging, NoFlow
  <2>. QED  BY <1>1, <1>3, <2>1, AddFlowKeeps
<1>4. ASSUME NEW w \in Workers, Start(w), tasks[t].state # "wait"
      PROVE  tasks'[t] = tasks[t]
  BY <1>1, <1>4 DEF Start, Lock, QueueTypeOK
<1>5. ASSUME NEW u \in Tasks, Releases(u), tasks[u].state = "active", u # t,
             tasks[t].state # "children"
      PROVE  tasks'[t] = tasks[t]
  BY <1>5 DEF Releases
<1>6. ASSUME NEW u \in Tasks, Finishes(u), u # t, tasks[t].state # "children"
      PROVE  tasks'[t] = tasks[t]
  BY <1>6 DEF Finishes
<1>7. ASSUME NEW u \in Tasks, Stall(u) PROVE tasks[u].state = "active"
  BY <1>7 DEF Stall
<1>. QED  BY <1>2, <1>3, <1>4, <1>5, <1>6, <1>7, TasksMove DEF Settles

-----------------------------------------------------------------------------
(* No parent waits in vain.                                                *)

\* The children of a beatmap task, seen from either side.
LEMMA Family ==
  ASSUME NEW t \in Tasks, t.queue = "beatmap"
  PROVE  LET k == FlowTask("kick", t.job, t.flow)
             m == FlowTask("melody", t.job, t.flow)
         IN  /\ k \in Tasks /\ IsChild(k) /\ Parent(k) = t /\ Sibling(k) = m
             /\ m \in Tasks /\ IsChild(m) /\ Parent(m) = t /\ Sibling(m) = k
             /\ k # m /\ k # t /\ m # t
<1>1. t.job \in Jobs /\ t.flow \in 1..MaxFlows /\ t = FlowTask("beatmap", t.job, t.flow)
  BY TaskFields
<1>2. /\ FlowTask("kick", t.job, t.flow) \in Tasks
      /\ FlowTask("melody", t.job, t.flow) \in Tasks
  BY <1>1, FlowTaskType DEF FlowQueues
<1>. QED  BY <1>1, <1>2 DEF FlowTask, IsChild, Parent, Sibling

\* A child given back waits again; one that fails leaves no parent waiting.
LEMMA CountedTakesParent ==
  ASSUME NEW t \in Tasks, IsChild(t), NEW counted \in [Tasks -> TaskRecord],
         \/ tasks' = [counted EXCEPT ![t].state = "wait"]
         \/ tasks' = Bury(counted, t)
  PROVE  tasks'[t].state = "wait" \/ tasks'[Parent(t)].state # "children"
<1>1. Parent(t) \in Tasks /\ Parent(t) # t
  BY FamilyDistinct
<1>2. \A u \in Tasks : counted[u] \in TaskRecord
  OBVIOUS
<1>3. CASE tasks' = [counted EXCEPT ![t].state = "wait"]
  BY <1>2, <1>3 DEF TaskRecord
<1>4. CASE tasks' = Bury(counted, t)
  BY <1>1, <1>2, <1>4 DEF Bury, TaskRecord
<1>. QED  BY <1>3, <1>4

LEMMA FailTakesParent ==
  ASSUME QueueTypeOK, NEW t \in Tasks, IsChild(t), NEW made \in Nat, Fail(t, made)
  PROVE  tasks'[t].state = "wait" \/ tasks'[Parent(t)].state # "children"
<1> DEFINE counted == [tasks EXCEPT ![t].made = made + 1, ![t].owner = NoWorker]
<1>1. counted \in [Tasks -> TaskRecord]
  <2>1. tasks[t] \in TaskRecord /\ made + 1 \in Nat
    BY DEF QueueTypeOK, TaskRecord
  <2>2. counted[t] = [tasks[t] EXCEPT !.made = made + 1, !.owner = NoWorker]
    BY DEF QueueTypeOK
  <2>3. \A u \in Tasks : u # t => counted[u] = tasks[u]
    BY DEF QueueTypeOK
  <2>4. counted = [u \in Tasks |-> counted[u]]
    BY DEF QueueTypeOK
  <2> HIDE DEF counted
  <2>5. \A u \in Tasks : counted[u] \in TaskRecord
    BY <2>1, <2>2, <2>3, CountedType DEF QueueTypeOK
  <2>. QED  BY <2>4, <2>5
<1>2. \/ tasks' = [counted EXCEPT ![t].state = "wait"]
      \/ tasks' = Bury(counted, t)
  BY DEF Fail
<1> HIDE DEF counted
<1>. QED  BY <1>1, <1>2, CountedTakesParent

LEMMA RecoverTakesParent ==
  ASSUME QueueTypeOK, NEW t \in Tasks, IsChild(t), Recover(t)
  PROVE  tasks'[t].state = "wait" \/ tasks'[Parent(t)].state # "children"
<1> DEFINE counted == [tasks EXCEPT ![t].stalls = @ + 1, ![t].owner = NoWorker]
<1>1. counted \in [Tasks -> TaskRecord]
  <2>1. tasks[t] \in TaskRecord /\ tasks[t].stalls + 1 \in Nat
    BY DEF QueueTypeOK, TaskRecord
  <2>2. counted[t] = [tasks[t] EXCEPT !.stalls = tasks[t].stalls + 1, !.owner = NoWorker]
    BY DEF QueueTypeOK
  <2>3. \A u \in Tasks : u # t => counted[u] = tasks[u]
    BY DEF QueueTypeOK
  <2>4. counted = [u \in Tasks |-> counted[u]]
    BY DEF QueueTypeOK
  <2> HIDE DEF counted
  <2>5. \A u \in Tasks : counted[u] \in TaskRecord
    BY <2>1, <2>2, <2>3, CountedType DEF QueueTypeOK
  <2>. QED  BY <2>4, <2>5
<1>2. \/ tasks' = [counted EXCEPT ![t].state = "wait"]
      \/ tasks' = Bury(counted, t)
  BY DEF Recover
<1> HIDE DEF counted
<1>. QED  BY <1>1, <1>2, CountedTakesParent

\* The second child to complete releases its parent.
LEMMA LastReleasesParent ==
  ASSUME QueueTypeOK, NEW t \in Tasks, IsChild(t), NEW v, Complete(t, v),
         tasks[Sibling(t)].state = "completed"
  PROVE  tasks'[Parent(t)].state # "children"
<1>1. Parent(t) \in Tasks /\ Parent(t) # t
  BY FamilyDistinct
<1>2. tasks \in [Tasks -> TaskRecord]
  BY DEF QueueTypeOK
<1> DEFINE done == [tasks EXCEPT ![t].state = "completed", ![t].owner = NoWorker,
                                 ![t].value = v]
<1>3. DOMAIN done = Tasks /\ done[Parent(t)] = tasks[Parent(t)]
  BY <1>1, <1>2
<1>4. tasks' = IF tasks[Parent(t)].state = "children"
               THEN [done EXCEPT ![Parent(t)].state = "wait"] ELSE done
  BY DEF Complete
<1> HIDE DEF done
<1>5. tasks[Parent(t)] \in TaskRecord
  BY <1>1, <1>2
<1>. QED  BY <1>1, <1>3, <1>4, <1>5 DEF TaskRecord

\* While a parent waits on, a child of it that a step settles waits again or is
\* the first to complete.
LEMMA ChildSettled ==
  ASSUME AttemptsInv, NEW t \in Tasks, IsChild(t), tasks'[Parent(t)].state = "children",
         \/ Stall(t) /\ Releases(t)
         \/ \E w \in Workers : Settles(w, t)
  PROVE  \/ tasks'[t].state = "wait"
         \/ tasks'[t].state = "completed" /\ tasks[Sibling(t)].state # "completed"
<1>1. QueueTypeOK
  BY DEF AttemptsInv, PipelineInv, TypeOK
<1>2. CASE Stall(t) /\ Releases(t)
  BY <1>1, <1>2, RecoverTakesParent DEF Stall
<1>3. ASSUME NEW w \in Workers, Settles(w, t)
      PROVE  \/ tasks'[t].state = "wait"
             \/ tasks'[t].state = "completed" /\ tasks[Sibling(t)].state # "completed"
  <2>1. run[w].made \in Nat
    BY DEF AttemptsInv, PipelineInv, TypeOK, RunRecord
  <2>2. CASE Return(w) /\ Finishes(t)
    <3>1. Complete(t, Result(w)) /\ tasks'[t].state = "completed"
      BY <1>3, <2>2 DEF Settles, Return, Finishes
    <3>. QED  BY <1>1, <3>1, LastReleasesParent
  <2>3. CASE Reraise(w)
    <3>1. Fail(t, run[w].made)
      BY <1>3, <2>3 DEF Settles, Reraise
    <3>. QED  BY <1>1, <2>1, <3>1, FailTakesParent
  <2>. QED  BY <1>3, <2>2, <2>3 DEF Settles
<1>. QED  BY <1>2, <1>3

\* A beatmap task begins to wait with both its children in the queue.
LEMMA ParentsBegin ==
  ASSUME AttemptsInv, [Next]_vars, NEW t \in Tasks,
         tasks[t].state # "children", tasks'[t].state = "children"
  PROVE  Expecting(t)'
<1>1. QueueTypeOK /\ tasks \in [Tasks -> TaskRecord]
  BY DEF AttemptsInv, PipelineInv, TypeOK, QueueTypeOK
<1>2. ASSUME NEW w \in Workers, EnqueueFlow(w) PROVE Expecting(t)'
  <2> DEFINE j == run[w].task.job
             n == run[w].drum
             b == FlowTask("beatmap", j, n)
             k == FlowTask("kick", j, n)
             m == FlowTask("melody", j, n)
  <2>1. AddFlow(j, n) /\ n \in 1..MaxFlows /\ j \in Jobs
    BY <1>2, TaskFields DEF EnqueueFlow, AttemptsInv, PipelineInv, RunInv, Staging, NoFlow
  <2>2. /\ b \in Tasks /\ k \in Tasks /\ m \in Tasks /\ b # k /\ b # m /\ k # m
        /\ b.queue = "beatmap" /\ b.job = j /\ b.flow = n
    BY <2>1, FlowTaskType DEF FlowQueues, FlowTask
  <2>3. tasks' = [tasks EXCEPT ![b].state = "children", ![k].state = "wait",
                              ![m].state = "wait"]
    BY <2>1 DEF AddFlow
  <2> HIDE DEF j, n, b, k, m
  <2>4. tasks'[k].state = "wait" /\ tasks'[m].state = "wait"
    BY <1>1, <2>2, <2>3 DEF TaskRecord
  <2>5. t = b
    BY <1>1, <2>2, <2>3, <2>4
  <2>6. FlowTask("kick", t.job, t.flow) = k /\ FlowTask("melody", t.job, t.flow) = m
    BY <2>2, <2>5 DEF k, m
  <2>. QED  BY <2>2, <2>4, <2>5, <2>6 DEF Expecting
<1>3. ASSUME NEW j \in Jobs, EnqueueStem(j) PROVE FALSE
  BY <1>1, <1>3 DEF EnqueueStem, AddStem, TaskRecord
<1>4. ASSUME NEW w \in Workers, Start(w) PROVE FALSE
  BY <1>1, <1>4 DEF Start, Lock, TaskRecord
<1>5. ASSUME NEW u \in Tasks, Releases(u) \/ Finishes(u) PROVE FALSE
  BY <1>5 DEF Releases, Finishes
<1>. QED  BY <1>2, <1>3, <1>4, <1>5, TasksMove DEF Settles

\* As long as it waits, one of them goes on.
LEMMA ParentsExpect ==
  ASSUME AttemptsInv, ParentsAwaitWork, [Next]_vars, NEW t \in Tasks,
         tasks[t].state = "children", tasks'[t].state = "children"
  PROVE  Expecting(t)'
<1> DEFINE k == FlowTask("kick", t.job, t.flow)
           m == FlowTask("melody", t.job, t.flow)
           GoesOnFor(c, d) ==
             \/ tasks'[c] = tasks[c]
             \/ tasks[c].state = "wait" /\ tasks'[c].state = "active"
             \/ tasks[c].state = "active" /\ tasks'[c].state = "wait"
             \/ /\ tasks[c].state = "active" /\ tasks'[c].state = "completed"
                /\ tasks[d].state # "completed" /\ tasks'[d] = tasks[d]
<1>1. /\ QueueTypeOK /\ tasks \in [Tasks -> TaskRecord]
      /\ Expecting(t) /\ t.queue = "beatmap"
  BY DEF AttemptsInv, PipelineInv, TypeOK, QueueTypeOK, ParentsAwaitWork, Expecting
<1>2. /\ k \in Tasks /\ IsChild(k) /\ Parent(k) = t /\ Sibling(k) = m
      /\ m \in Tasks /\ IsChild(m) /\ Parent(m) = t /\ Sibling(m) = k
      /\ k # m /\ k # t /\ m # t
  BY <1>1, Family
<1>3. /\ tasks[k].state \in {"wait", "active", "completed"}
      /\ tasks[m].state \in {"wait", "active", "completed"}
      /\ tasks[k].state # "completed" \/ tasks[m].state # "completed"
  BY <1>1 DEF Expecting
<1> HIDE DEF k, m
<1>4. ASSUME NEW c \in {k, m}, NEW d \in {k, m}, c # d
      PROVE  GoesOnFor(c, d)
  <2>1. /\ c \in Tasks /\ d \in Tasks /\ IsChild(c) /\ Parent(c) = t /\ Sibling(c) = d
        /\ tasks[c].state \in {"wait", "active", "completed"}
        /\ tasks[d].state \in {"wait", "active", "completed"}
    BY <1>2, <1>3, <1>4
  <2>2. CASE tasks[c].state = "completed"
    BY <2>1, <2>2, TaskMoves
  <2>3. CASE tasks[c].state = "active"
    <3>1. ASSUME Stall(c) \/ \E w \in Workers : Settles(w, c)
          PROVE  GoesOnFor(c, d)
      <4>1. \/ Stall(c) /\ Releases(c)
            \/ \E w \in Workers : Settles(w, c)
        BY <1>1, <2>1, <2>3, <3>1, RecoverReleases DEF Stall
      <4>2. \/ tasks'[c].state = "wait"
            \/ tasks'[c].state = "completed" /\ tasks[d].state # "completed"
        BY <2>1, <4>1, ChildSettled
      <4>3. Releases(c) \/ Finishes(c)
        BY <4>1 DEF Settles
      <4>4. d # t
        BY <1>2
      <4>5. tasks'[d] = tasks[d]
        BY <1>4, <2>1, <4>3, <4>4 DEF Releases, Finishes
      <4>. QED  BY <2>3, <4>2, <4>5
    <3>. QED  BY <2>1, <2>3, <3>1, TaskMoves
  <2>4. CASE tasks[c].state = "wait"
    <3>1. ASSUME NEW j \in Jobs, EnqueueStem(j) PROVE tasks'[c] = tasks[c]
      <4>1. AddStem(j) /\ tasks[StemTask(j)].state = "none"
        BY <3>1 DEF EnqueueStem, AttemptsInv, PipelineInv, RequestInv, ApiSteps
      <4>. QED  BY <1>1, <2>1, <2>4, <4>1 DEF AddStem
    <3>2. ASSUME NEW w \in Workers, EnqueueFlow(w) PROVE tasks'[c] = tasks[c]
      <4> DEFINE j == run[w].task.job
                 n == run[w].drum
      <4>1. /\ AddFlow(j, n) /\ n \in 1..MaxFlows /\ j \in Jobs
            /\ \A q \in FlowQueues : tasks[FlowTask(q, j, n)].state = "none"
        BY <3>2, TaskFields DEF EnqueueFlow, AttemptsInv, PipelineInv, RunInv, Staging, NoFlow
      <4>2. QueueInv /\ \A q \in FlowQueues : c # FlowTask(q, j, n)
        BY <2>4, <4>1 DEF AttemptsInv, PipelineInv
      <4>. QED  BY <1>1, <2>1, <4>1, <4>2, AddFlowKeeps
    <3>3. ASSUME NEW w \in Workers, Start(w)
          PROVE  tasks'[c] = tasks[c] \/ tasks'[c].state = "active"
      BY <1>1, <2>1, <3>3 DEF Start, Lock, TaskRecord
    <3>4. ASSUME NEW u \in Tasks, Releases(u) \/ Finishes(u), tasks[u].state = "active"
          PROVE  tasks'[c] = tasks[c]
      BY <2>1, <2>4, <3>4 DEF Releases, Finishes
    <3>. QED  BY <2>4, <3>1, <3>2, <3>3, <3>4, TasksMove DEF Settles, Stall
  <2>. QED  BY <2>1, <2>2, <2>3, <2>4
<1>5. GoesOnFor(k, m) /\ GoesOnFor(m, k)
  BY <1>2, <1>4
<1>6. /\ tasks'[k].state \in {"wait", "active", "completed"}
      /\ tasks'[m].state \in {"wait", "active", "completed"}
      /\ tasks'[k].state # "completed" \/ tasks'[m].state # "completed"
  BY <1>3, <1>5
<1>. QED  BY <1>1, <1>6 DEF Expecting, k, m

\* Every parent task that waits has a child that will release it or take it
\* along, whatever fails, crashes, stalls or is run twice.
THEOREM ParentsReleased == Spec => []ParentsAwaitWork
<1>1. Init => ParentsAwaitWork
  BY DEF Init, QueueInit, NewTask, ParentsAwaitWork
<1>2. AttemptsInv /\ ParentsAwaitWork /\ [Next]_vars => ParentsAwaitWork'
  BY ParentsBegin, ParentsExpect DEF ParentsAwaitWork
<1>. QED  BY <1>1, <1>2, AttemptsInvariant, PTL DEF Spec

-----------------------------------------------------------------------------
(* One song, one separation.                                               *)

\* The hazards that would make a second flow of a song.
OneFlow ==
  /\ "add_flow" \notin LostAt
  /\ "stem" \notin CrashQueues
  /\ "stem" \notin BlockQueues

-----------------------------------------------------------------------------
(* The inductive invariant.                                                *)

NoFlows(j) == \A t \in FlowTasks : t.job = j => tasks[t].state = "none"

\* A stem task under way has its run, and only a run that is about to return
\* has added a flow.
StemInv(j) ==
  LET t == StemTask(j)
      w == tasks[t].owner
  IN  /\ tasks[t].state = "active" => run[w].task = t
      /\ \/ NoFlows(j)
         \/ tasks[t].state = "completed"
         \/ tasks[t].state = "active" /\ run[w].pc = "return"

\* What the run of a worker knows of the stems in the bucket.
StemsInv(w) ==
  LET stem(k) == objects[run[w].task.job][k]
  IN  /\ run[w].pc # "idle" => run[w].task.queue = WorkerQueue[w]
      /\ run[w].pc \in {"upload_melody", "add_flow"} => stem("drum") = run[w].drum
      /\ run[w].pc = "add_flow" => stem("melody") = run[w].drum

\* Notes come from the separation their flow is numbered by.
NotesInv(w) ==
  run[w].pc = "return" =>
    /\ run[w].task.queue = "kick" => run[w].drum = run[w].task.flow
    /\ run[w].task.queue = "melody" => run[w].melody = run[w].task.flow

\* The bucket holds the stems of the one flow.
FlowStems ==
  \A t \in FlowTasks : tasks[t].state # "none" =>
    objects[t.job]["drum"] = t.flow /\ objects[t.job]["melody"] = t.flow

ValueInv == \A t \in Tasks : IsChild(t) => tasks[t].value \in {0, t.flow}

Separated ==
  /\ \A j \in Jobs : StemInv(j)
  /\ \A w \in Workers : StemsInv(w) /\ NotesInv(w)
  /\ FlowStems
  /\ ValueInv

SeparationInv == AttemptsInv /\ Separated

-----------------------------------------------------------------------------
(* Facts about one state.                                                  *)

\* The stem task of a job is told from the tasks of its flows.
LEMMA StemIsNoFlowTask ==
  ASSUME NEW j \in Jobs
  PROVE  /\ StemTask(j) \in Tasks /\ StemTask(j).queue = "stem"
         /\ StemTask(j).job = j
         /\ \A t \in FlowTasks :
              t \in Tasks /\ t.queue # "stem" /\ t # StemTask(j) /\ t.job \in Jobs
BY StemTaskType DEF StemTask, FlowTasks, FlowQueues, Tasks

\* A stem run holds the lock of the stem task of its job, alone.
LEMMA StemRunOwns ==
  ASSUME OneFlow, SeparationInv, NEW w \in Workers, run[w].pc # "idle",
         run[w].task.queue = "stem"
  PROVE  /\ run[w].task.job \in Jobs /\ run[w].task = StemTask(run[w].task.job)
         /\ tasks[run[w].task].state = "active" /\ tasks[run[w].task].owner = w
<1>1. run[w].task \in Tasks
  BY DEF SeparationInv, AttemptsInv, PipelineInv, RunInv
<1>2. tasks[run[w].task].owner = w /\ w # NoWorker
  BY BullMQAssumption DEF SeparationInv, AttemptsInv, CountInv, OneFlow
<1>3. tasks[run[w].task].state = "active"
  BY <1>1, <1>2 DEF SeparationInv, AttemptsInv, PipelineInv, QueueInv
<1>. QED  BY <1>1, <1>2, <1>3, TaskFields

\* As long as it has not returned, its job has no flow.
LEMMA StemRunBeforeFlow ==
  ASSUME OneFlow, SeparationInv, NEW w \in Workers,
         run[w].pc \notin {"idle", "return"}, run[w].task.queue = "stem"
  PROVE  NoFlows(run[w].task.job)
<1>1. /\ run[w].task.job \in Jobs /\ run[w].task = StemTask(run[w].task.job)
      /\ tasks[run[w].task].state = "active" /\ tasks[run[w].task].owner = w
  BY StemRunOwns
<1>. QED  BY <1>1 DEF SeparationInv, Separated, StemInv

\* The run that owns a stem task is under way.
LEMMA StemOwner ==
  ASSUME SeparationInv, NEW j \in Jobs, tasks[StemTask(j)].state = "active"
  PROVE  LET w == tasks[StemTask(j)].owner
         IN  w \in Workers /\ run[w].task = StemTask(j) /\ run[w].pc # "idle"
<1> DEFINE w == tasks[StemTask(j)].owner
<1>1. StemTask(j) \in Tasks
  BY StemTaskType
<1>2. w \in Workers
  <2>1. tasks[StemTask(j)] \in TaskRecord
    BY <1>1 DEF SeparationInv, AttemptsInv, PipelineInv, TypeOK, QueueTypeOK
  <2>2. w # NoWorker
    BY <1>1 DEF SeparationInv, AttemptsInv, PipelineInv, QueueInv
  <2>. QED  BY <2>1, <2>2 DEF TaskRecord
<1>3. run[w].task = StemTask(j)
  BY DEF SeparationInv, Separated, StemInv
<1>4. run[w].pc # "idle"
  BY <1>1, <1>2, <1>3, PipelineAssumption DEF SeparationInv, AttemptsInv, CountInv, Idle
<1>. QED  BY <1>2, <1>3, <1>4

-----------------------------------------------------------------------------
(* What the steps do to the stem tasks and the values.                     *)

\* No value is set, no task is created, and no stem task but t moves.
OnlyMoves(t) ==
  \A u \in Tasks :
    /\ tasks'[u].value = tasks[u].value
    /\ u.queue = "stem" /\ u # t => tasks'[u] = tasks[u]

\* Burying a task sets no value and moves no stem task but itself.
LEMMA BuryMoves ==
  ASSUME NEW t \in Tasks, NEW counted \in [Tasks -> TaskRecord],
         tasks' = Bury(counted, t)
  PROVE  \A u \in Tasks :
           /\ tasks'[u].value = counted[u].value
           /\ u.queue = "stem" /\ u # t => tasks'[u] = counted[u]
           /\ tasks'[t].state = "failed"
<1>. \A u \in Tasks : counted[u] \in TaskRecord
  OBVIOUS
<1>1. CASE IsChild(t) /\ counted[Parent(t)].state = "children"
  <2>1. tasks' = [counted EXCEPT ![t].state = "failed",
                                 ![Parent(t)].state = "failed"]
    BY <1>1 DEF Bury
  <2>2. Parent(t) \in Tasks /\ Parent(t) # t /\ Parent(t).queue = "beatmap"
    BY <1>1, FamilyDistinct, FlowTaskFields DEF Parent
  <2>3. /\ tasks'[t] = [counted[t] EXCEPT !.state = "failed"]
        /\ tasks'[Parent(t)] = [counted[Parent(t)] EXCEPT !.state = "failed"]
        /\ \A u \in Tasks : u # t /\ u # Parent(t) => tasks'[u] = counted[u]
    BY <2>1, <2>2
  <2>. QED  BY <2>2, <2>3 DEF TaskRecord
<1>2. CASE ~(IsChild(t) /\ counted[Parent(t)].state = "children")
  <2>1. tasks' = [counted EXCEPT ![t].state = "failed"]
    BY <1>2 DEF Bury
  <2>2. /\ tasks'[t] = [counted[t] EXCEPT !.state = "failed"]
        /\ \A u \in Tasks : u # t => tasks'[u] = counted[u]
    BY <2>1
  <2>. QED  BY <2>2 DEF TaskRecord
<1>. QED  BY <1>1, <1>2

\* Nor does failing or recovering it.
LEMMA CountedMoves ==
  ASSUME NEW t \in Tasks, NEW counted \in [Tasks -> TaskRecord],
         counted[t].value = tasks[t].value,
         \A u \in Tasks : u # t => counted[u] = tasks[u],
         tasks' = [counted EXCEPT ![t].state = "wait"] \/ tasks' = Bury(counted, t)
  PROVE  OnlyMoves(t) /\ tasks'[t].state \in {"wait", "failed"}
<1>1. counted[t] \in TaskRecord
  OBVIOUS
<1>2. CASE tasks' = [counted EXCEPT ![t].state = "wait"]
  <2>1. /\ tasks'[t] = [counted[t] EXCEPT !.state = "wait"]
        /\ \A u \in Tasks : u # t => tasks'[u] = counted[u]
    BY <1>2
  <2>2. tasks'[t].value = tasks[t].value /\ tasks'[t].state = "wait"
    BY <1>1, <2>1 DEF TaskRecord
  <2>. QED  BY <2>1, <2>2 DEF OnlyMoves
<1>3. CASE tasks' = Bury(counted, t)
  <2>1. \A u \in Tasks : tasks'[u].value = tasks[u].value
    BY <1>3, BuryMoves
  <2>2. \A u \in Tasks : u.queue = "stem" /\ u # t => tasks'[u] = tasks[u]
    BY <1>3, BuryMoves
  <2>3. tasks'[t].state = "failed"
    BY <1>3, BuryMoves
  <2>. QED  BY <2>1, <2>2, <2>3 DEF OnlyMoves
<1>. QED  BY <1>2, <1>3

\* A failed attempt puts its task back or fails it.
LEMMA FailMoves ==
  ASSUME QueueTypeOK, NEW t \in Tasks, NEW made \in Nat, Fail(t, made)
  PROVE  OnlyMoves(t) /\ tasks'[t].state \in {"wait", "failed"}
<1> DEFINE counted == [tasks EXCEPT ![t].made = made + 1, ![t].owner = NoWorker]
<1>1. tasks[t] \in TaskRecord /\ made + 1 \in Nat
  BY DEF QueueTypeOK
<1>2. /\ counted[t] = [tasks[t] EXCEPT !.made = made + 1, !.owner = NoWorker]
      /\ \A u \in Tasks : u # t => counted[u] = tasks[u]
      /\ counted = [u \in Tasks |-> counted[u]]
  BY DEF QueueTypeOK
<1>3. counted[t] \in TaskRecord
  BY <1>1, <1>2, CountedType
<1>4. counted \in [Tasks -> TaskRecord]
  BY <1>2, <1>3 DEF QueueTypeOK
<1>5. counted[t].value = tasks[t].value
  BY <1>1, <1>2 DEF TaskRecord
<1>6. tasks' = [counted EXCEPT ![t].state = "wait"] \/ tasks' = Bury(counted, t)
  BY DEF Fail
<1>. HIDE DEF counted
<1>. QED  BY <1>2, <1>4, <1>5, <1>6, CountedMoves

\* So does a stall.
LEMMA RecoverMoves ==
  ASSUME QueueTypeOK, NEW t \in Tasks, Recover(t)
  PROVE  OnlyMoves(t)
<1> DEFINE counted == [tasks EXCEPT ![t].stalls = @ + 1, ![t].owner = NoWorker]
<1>1. tasks[t] \in TaskRecord /\ tasks[t].stalls + 1 \in Nat
  BY DEF QueueTypeOK, TaskRecord
<1>2. /\ counted[t] = [tasks[t] EXCEPT !.stalls = tasks[t].stalls + 1,
                                       !.owner = NoWorker]
      /\ \A u \in Tasks : u # t => counted[u] = tasks[u]
      /\ counted = [u \in Tasks |-> counted[u]]
  BY DEF QueueTypeOK
<1>3. counted[t] \in TaskRecord
  BY <1>1, <1>2, CountedType
<1>4. counted \in [Tasks -> TaskRecord]
  BY <1>2, <1>3 DEF QueueTypeOK
<1>5. counted[t].value = tasks[t].value
  BY <1>1, <1>2 DEF TaskRecord
<1>6. tasks' = [counted EXCEPT ![t].state = "wait"] \/ tasks' = Bury(counted, t)
  BY DEF Recover
<1>. HIDE DEF counted
<1>. QED  BY <1>2, <1>4, <1>5, <1>6, CountedMoves

\* Completing a task sets its value, and moves no stem task but itself.
LEMMA CompleteMoves ==
  ASSUME QueueTypeOK, NEW t \in Tasks, NEW v, Complete(t, v)
  PROVE  /\ tasks'[t].state = "completed" /\ tasks'[t].value = v
         /\ \A u \in Tasks : u # t => tasks'[u].value = tasks[u].value
         /\ \A u \in Tasks : u.queue = "stem" /\ u # t => tasks'[u] = tasks[u]
<1> DEFINE done == [tasks EXCEPT ![t].state = "completed", ![t].owner = NoWorker,
                                 ![t].value = v]
<1>1. tasks \in [Tasks -> TaskRecord]
  BY DEF QueueTypeOK
<1>2. /\ done[t] = [tasks[t] EXCEPT !.state = "completed", !.owner = NoWorker,
                                    !.value = v]
      /\ \A u \in Tasks : u # t => done[u] = tasks[u]
      /\ DOMAIN done = Tasks
  BY <1>1
<1>3. \/ tasks' = done
      \/ IsChild(t) /\ tasks' = [done EXCEPT ![Parent(t)].state = "wait"]
  BY DEF Complete
<1>. HIDE DEF done
<1>4. IsChild(t) => /\ Parent(t) \in Tasks /\ Parent(t) # t
                    /\ Parent(t).queue = "beatmap"
  BY FamilyDistinct, FlowTaskFields DEF Parent
<1>5. /\ tasks'[t] = done[t]
      /\ \A u \in Tasks : u # t =>
           \/ tasks'[u] = tasks[u]
           \/ u.queue = "beatmap" /\ tasks'[u] = [tasks[u] EXCEPT !.state = "wait"]
  BY <1>2, <1>3, <1>4
<1>6. tasks'[t].state = "completed" /\ tasks'[t].value = v
  BY <1>1, <1>2, <1>5 DEF TaskRecord
<1>7. ASSUME NEW u \in Tasks, u # t PROVE tasks'[u].value = tasks[u].value
  <2>1. tasks[u] \in TaskRecord
    BY <1>1
  <2>. QED  BY <1>5, <1>7, <2>1 DEF TaskRecord
<1>8. \A u \in Tasks : u.queue = "stem" /\ u # t => tasks'[u] = tasks[u]
  BY <1>5
<1>. QED  BY <1>6, <1>7, <1>8

-----------------------------------------------------------------------------
(* What is kept where nothing moves.                                       *)

\* Flows keep their stems while none is added and no stem is uploaded.
LEMMA FlowsKept ==
  ASSUME SeparationInv, NoNewTask,
         \A j \in Jobs : \A k \in {"drum", "melody"} : objects'[j][k] = objects[j][k]
  PROVE  FlowStems' /\ \A j \in Jobs : NoFlows(j) => NoFlows(j)'
<1>1. \A t \in FlowTasks : t \in Tasks /\ t.job \in Jobs
  BY TaskFields DEF Tasks
<1>2. \A t \in FlowTasks : tasks[t].state = "none" => tasks'[t].state = "none"
  BY <1>1 DEF NoNewTask
<1>3. FlowStems'
  BY <1>1, <1>2 DEF SeparationInv, Separated, FlowStems
<1>4. \A j \in Jobs : NoFlows(j) => NoFlows(j)'
  BY <1>2 DEF NoFlows
<1>. QED  BY <1>3, <1>4

\* A run that does not move knows what it knew, if the stems of its job stand.
LEMMA StandingRun ==
  ASSUME SeparationInv, NEW v \in Workers, run'[v] = run[v],
         run[v].pc \in {"upload_melody", "add_flow"} =>
           \A k \in {"drum", "melody"} :
             objects'[run[v].task.job][k] = objects[run[v].task.job][k]
  PROVE  StemsInv(v)' /\ NotesInv(v)'
BY DEF SeparationInv, Separated, StemsInv, NotesInv

\* A stem task that does not move keeps its run.
LEMMA StandingStem ==
  ASSUME SeparationInv, NEW j \in Jobs,
         tasks'[StemTask(j)] = tasks[StemTask(j)], NoFlows(j) => NoFlows(j)',
         tasks[StemTask(j)].state = "active" =>
           LET w == tasks[StemTask(j)].owner
           IN  /\ run'[w].task = run[w].task
               /\ run[w].pc = "return" => run'[w].pc = "return"
  PROVE  StemInv(j)'
BY DEF SeparationInv, Separated, StemInv

\* A run moves on, short of its end, and leaves tasks and stems alone.
LEMMA RunMovesOn ==
  ASSUME SeparationInv, NEW w \in Workers, tasks' = tasks,
         \A j \in Jobs : \A k \in {"drum", "melody"} : objects'[j][k] = objects[j][k],
         \A v \in Workers \ {w} : run'[v] = run[v],
         run[w].pc \notin {"idle", "return"}, run'[w].task = run[w].task,
         run'[w].pc \notin {"upload_melody", "add_flow"},
         NotesInv(w)'
  PROVE  Separated'
<1>1. FlowStems' /\ \A j \in Jobs : NoFlows(j) => NoFlows(j)'
  BY FlowsKept DEF NoNewTask
<1>2. \A j \in Jobs : StemInv(j)'
  BY <1>1, StandingStem, StemOwner
<1>3. StemsInv(w)'
  BY DEF SeparationInv, Separated, StemsInv
<1>4. \A v \in Workers \ {w} : StemsInv(v)' /\ NotesInv(v)'
  <2>. SUFFICES ASSUME NEW v \in Workers \ {w} PROVE StemsInv(v)' /\ NotesInv(v)'
    OBVIOUS
  <2>1. run[v].pc # "idle" => run[v].task.job \in Jobs
    BY TaskFields DEF SeparationInv, AttemptsInv, PipelineInv, RunInv
  <2>. QED  BY <2>1, StandingRun
<1>5. ValueInv'
  BY DEF SeparationInv, Separated, ValueInv
<1>. QED  BY <1>1, <1>2, <1>3, <1>4, <1>5 DEF Separated

-----------------------------------------------------------------------------
(* The steps.                                                              *)

\* Requests touch neither the stems nor the flows.
LEMMA RequestSeparated ==
  ASSUME OneFlow, SeparationInv, NEW j \in Jobs, Request(j) \/ AbortRequest(j)
  PROVE  Separated'
<1>1. /\ run' = run /\ QueueTypeOK /\ objects \in [Jobs -> [Keys -> Nat]]
      /\ RequestInv(j)
  BY DEF Request, AbortRequest, Validate, InsertMapJob, SetObjectKey,
         UploadOriginal, EnqueueStem, SeparationInv, AttemptsInv, PipelineInv,
         TypeOK, StorageTypeOK
<1>2. \A i \in Jobs : \A k \in {"drum", "melody"} : objects'[i][k] = objects[i][k]
  BY <1>1 DEF Request, AbortRequest, Validate, InsertMapJob, SetObjectKey,
              UploadOriginal, upload, EnqueueStem, Keys
<1>3. \A v \in Workers : StemsInv(v)' /\ NotesInv(v)'
  <2>. SUFFICES ASSUME NEW v \in Workers PROVE StemsInv(v)' /\ NotesInv(v)'
    OBVIOUS
  <2>1. run[v].pc # "idle" => run[v].task.job \in Jobs
    BY TaskFields DEF SeparationInv, AttemptsInv, PipelineInv, RunInv
  <2>. QED  BY <1>1, <1>2, <2>1, StandingRun
<1>4. CASE EnqueueStem(j)
  <2>1. /\ tasks' = [tasks EXCEPT ![StemTask(j)].state = "wait"]
        /\ tasks[StemTask(j)].state = "none"
    BY <1>1, <1>4 DEF EnqueueStem, AddStem, RequestInv, ApiSteps
  <2>2. \A u \in Tasks : u # StemTask(j) => tasks'[u] = tasks[u]
    BY <1>1, <2>1 DEF QueueTypeOK
  <2>3. \A t \in FlowTasks : tasks'[t] = tasks[t]
    BY <2>2, StemIsNoFlowTask
  <2>4. FlowStems' /\ \A i \in Jobs : NoFlows(i) => NoFlows(i)'
    BY <1>2, <2>3, StemIsNoFlowTask
    DEF SeparationInv, Separated, FlowStems, NoFlows
  <2>5. ValueInv'
    <3>1. \A u \in Tasks : IsChild(u) => u # StemTask(j)
      BY StemIsNoFlowTask DEF IsChild
    <3>. QED  BY <2>2, <3>1 DEF SeparationInv, Separated, ValueInv
  <2>6. tasks'[StemTask(j)].state = "wait"
    <3>1. StemTask(j) \in Tasks /\ tasks[StemTask(j)] \in TaskRecord
      BY <1>1, StemTaskType DEF QueueTypeOK
    <3>2. tasks'[StemTask(j)] = [tasks[StemTask(j)] EXCEPT !.state = "wait"]
      BY <1>1, <2>1, <3>1 DEF QueueTypeOK
    <3>. QED  BY <3>1, <3>2 DEF TaskRecord
  <2>7. StemInv(j)'
    <3>1. NoFlows(j)
      BY <2>1 DEF SeparationInv, Separated, StemInv
    <3>. QED  BY <2>4, <2>6, <3>1 DEF StemInv
  <2>8. \A i \in Jobs : i # j => StemInv(i)'
    <3>1. \A i \in Jobs : i # j => StemTask(i) # StemTask(j) /\ StemTask(i) \in Tasks
      BY StemIsNoFlowTask
    <3>. QED  BY <1>1, <2>2, <2>4, <3>1, StandingStem
  <2>. QED  BY <1>3, <2>4, <2>5, <2>7, <2>8 DEF Separated
<1>5. CASE ~EnqueueStem(j)
  <2>1. tasks' = tasks
    BY <1>5 DEF Request, AbortRequest, Validate, InsertMapJob, SetObjectKey,
                UploadOriginal
  <2>2. FlowStems' /\ \A i \in Jobs : NoFlows(i) => NoFlows(i)'
    BY <1>2, <2>1, FlowsKept DEF NoNewTask
  <2>3. ValueInv'
    BY <2>1 DEF SeparationInv, Separated, ValueInv
  <2>4. \A i \in Jobs : StemInv(i)'
    BY <1>1, <2>1, <2>2, StandingStem
  <2>. QED  BY <1>3, <2>2, <2>3, <2>4 DEF Separated
<1>. QED  BY <1>4, <1>5

\* The awaits that store no stem.  A detection reads the stems of its flow.
LEMMA HandlersSeparated ==
  ASSUME OneFlow, SeparationInv, NEW w \in Workers,
         \/ MarkProcessing(w) \/ Separate(w) \/ DetectKicks(w) \/ ExtractMelody(w)
         \/ GetChildren(w) \/ InsertBeatmap(w) \/ MarkCompleted(w) \/ Raise(w)
         \/ MarkFailed(w)
  PROVE  Separated'
<1>1. run[w] \in RunRecord /\ run \in [Workers -> RunRecord]
  BY DEF SeparationInv, AttemptsInv, PipelineInv, TypeOK
<1>2. /\ run[w].pc \notin {"idle", "return"} /\ run'[w].task = run[w].task
      /\ \A v \in Workers \ {w} : run'[v] = run[v]
  <2>1. CASE MarkFailed(w)
    BY <1>1, <2>1 DEF MarkFailed, RunRecord
  <2>2. CASE ~MarkFailed(w)
    <3>1. GoesOn(w)
      BY <2>2, HandlersGoOn DEF SeparationInv
    <3>2. run[w].pc # "return"
      BY <2>2 DEF MarkProcessing, Separate, DetectKicks, ExtractMelody, GetChildren,
                  InsertBeatmap, MarkCompleted, Raise, HandlerSteps, StemSteps,
                  BeatmapSteps
    <3>. QED  BY <3>1, <3>2 DEF GoesOn
  <2>. QED  BY <2>1, <2>2
<1>3. tasks' = tasks /\ objects' = objects
  BY DEF MarkProcessing, Separate, DetectKicks, ExtractMelody, GetChildren,
         InsertBeatmap, MarkCompleted, Raise, MarkFailed
<1>4. run[w].task \in Tasks /\ tasks[run[w].task].state # "none" /\ RunInv(w)
  BY <1>2 DEF SeparationInv, AttemptsInv, PipelineInv, RunInv
<1>5. ASSUME NEW local \in RunRecord, NEW next, Resume(w, local, next)
      PROVE  run'[w].pc \in {next, "mark_failed", "raise"}
  BY <1>1, <1>5, OnErrorType DEF Resume, RunRecord
<1>6. /\ run'[w].pc \notin {"upload_melody", "add_flow"}
      /\ NotesInv(w)'
  <2>1. CASE DetectKicks(w)
    <3>1. run'[w].pc = "return" /\ run'[w].drum = objects[run[w].task.job]["drum"]
      BY <1>1, <2>1 DEF DetectKicks, RunRecord
    <3>2. run[w].task.queue = "kick" /\ run[w].task \in FlowTasks
      BY <1>4, <2>1, TaskFields, FlowTaskType DEF DetectKicks, RunInv
    <3>3. run'[w].drum = run[w].task.flow
      BY <1>4, <3>1, <3>2 DEF SeparationInv, Separated, FlowStems
    <3>. QED  BY <1>2, <3>1, <3>2, <3>3 DEF NotesInv
  <2>2. CASE ExtractMelody(w)
    <3>1. run'[w].pc = "return" /\ run'[w].melody = objects[run[w].task.job]["melody"]
      BY <1>1, <2>2 DEF ExtractMelody, RunRecord
    <3>2. run[w].task.queue = "melody" /\ run[w].task \in FlowTasks
      BY <1>4, <2>2, TaskFields, FlowTaskType DEF ExtractMelody, RunInv
    <3>3. run'[w].melody = run[w].task.flow
      BY <1>4, <3>1, <3>2 DEF SeparationInv, Separated, FlowStems
    <3>. QED  BY <1>2, <3>1, <3>2, <3>3 DEF NotesInv
  <2>3. CASE MarkCompleted(w)
    <3>1. run'[w].pc \in {"return", "mark_failed", "raise"}
      BY <1>1, <1>5, <2>3 DEF MarkCompleted
    <3>2. run[w].task.queue = "beatmap"
      BY <1>4, <2>3 DEF MarkCompleted, RunInv, BeatmapSteps
    <3>. QED  BY <1>2, <3>1, <3>2 DEF NotesInv
  <2>4. CASE MarkProcessing(w)
    BY <1>1, <1>5, <2>4 DEF MarkProcessing, NotesInv
  <2>5. CASE InsertBeatmap(w)
    <3>1. [run[w] EXCEPT !.beatmap = Len(beatmaps) + 1] \in RunRecord
      <4>1. Len(beatmaps) + 1 \in Nat
        BY DEF SeparationInv, AttemptsInv, PipelineInv, TypeOK, RepositoryTypeOK
      <4>2. ASSUME NEW n \in Nat PROVE [run[w] EXCEPT !.beatmap = n] \in RunRecord
        BY <1>1 DEF RunRecord
      <4>. QED  BY <4>1, <4>2
    <3>. QED  BY <1>5, <2>5, <3>1 DEF InsertBeatmap, NotesInv
  <2>6. CASE Separate(w)
    BY <1>1, <2>6 DEF Separate, RunRecord, NotesInv
  <2>7. CASE GetChildren(w)
    BY <1>1, <2>7 DEF GetChildren, RunRecord, NotesInv
  <2>8. CASE Raise(w) \/ MarkFailed(w)
    BY <1>1, <2>8, OnErrorType DEF Raise, MarkFailed, RunRecord, NotesInv
  <2>. QED  BY <2>1, <2>2, <2>3, <2>4, <2>5, <2>6, <2>7, <2>8
<1>. QED  BY <1>2, <1>3, <1>6, RunMovesOn

\* A stem run replaces the stems of its job before there is a flow, and no
\* other stem run of the job is under way.
LEMMA UploadSeparated ==
  ASSUME OneFlow, SeparationInv, NEW w \in Workers, UploadDrum(w) \/ UploadMelody(w)
  PROVE  Separated'
<1> DEFINE j == run[w].task.job
<1>1. /\ run[w] \in RunRecord /\ run \in [Workers -> RunRecord]
      /\ objects \in [Jobs -> [Keys -> Nat]]
  BY DEF SeparationInv, AttemptsInv, PipelineInv, TypeOK, StorageTypeOK
<1>2. run[w].pc \in {"upload_drum", "upload_melody"} /\ run[w].melody = run[w].drum
  BY DEF UploadDrum, UploadMelody, SeparationInv, AttemptsInv, PipelineInv, RunInv,
         Staging
<1>3. run[w].task.queue = "stem"
  BY <1>2 DEF SeparationInv, AttemptsInv, PipelineInv, RunInv, StemSteps
<1>4. /\ j \in Jobs /\ run[w].task = StemTask(j)
      /\ tasks[run[w].task].state = "active" /\ tasks[run[w].task].owner = w
      /\ NoFlows(j)
  BY <1>2, <1>3, StemRunOwns, StemRunBeforeFlow
<1>5. GoesOn(w) /\ tasks' = tasks
  BY HandlersGoOn DEF SeparationInv, UploadDrum, UploadMelody
<1>6. \A i \in Jobs : i # j => objects'[i] = objects[i]
  BY <1>1 DEF UploadDrum, UploadMelody, upload
<1>7. FlowStems'
  <2>. SUFFICES ASSUME NEW t \in FlowTasks, tasks'[t].state # "none"
                PROVE  objects'[t.job]["drum"] = t.flow /\ objects'[t.job]["melody"] = t.flow
    BY DEF FlowStems
  <2>1. t.job \in Jobs /\ t.job # j
    BY <1>4, <1>5, StemIsNoFlowTask DEF NoFlows
  <2>. QED  BY <1>5, <1>6, <2>1 DEF SeparationInv, Separated, FlowStems
<1>8. \A i \in Jobs : StemInv(i)'
  <2>. SUFFICES ASSUME NEW i \in Jobs PROVE StemInv(i)'
    OBVIOUS
  <2>1. NoFlows(i) => NoFlows(i)'
    BY <1>5 DEF NoFlows
  <2>2. run[w].pc # "return"
    BY <1>2
  <2>. QED  BY <1>5, <2>1, <2>2, StandingStem, StemOwner DEF GoesOn
<1>9. \A v \in Workers \ {w} : StemsInv(v)' /\ NotesInv(v)'
  <2>. SUFFICES ASSUME NEW v \in Workers \ {w} PROVE StemsInv(v)' /\ NotesInv(v)'
    OBVIOUS
  <2>1. ASSUME run[v].pc \in {"upload_melody", "add_flow"}
        PROVE  run[v].task.job \in Jobs /\ run[v].task.job # j
    <3>1. run[v].task.queue = "stem"
      BY <2>1 DEF SeparationInv, AttemptsInv, PipelineInv, RunInv, StemSteps
    <3>2. /\ run[v].task.job \in Jobs /\ run[v].task = StemTask(run[v].task.job)
          /\ tasks[run[v].task].owner = v
      BY <2>1, <3>1, StemRunOwns
    <3>. QED  BY <1>4, <3>2
  <2>. QED  BY <1>5, <1>6, <2>1, StandingRun DEF GoesOn
<1>10. NotesInv(w)'
  BY <1>3, <1>5 DEF NotesInv, GoesOn
<1>11. StemsInv(w)'
  <2>1. run[w].task.queue = WorkerQueue[w]
    BY <1>2 DEF SeparationInv, Separated, StemsInv
  <2>2. CASE UploadDrum(w)
    <3>1. run'[w].pc \in {"upload_melody", "mark_failed", "raise"} /\ run'[w].drum = run[w].drum
      BY <1>1, <2>2, OnErrorType DEF UploadDrum, Resume, RunRecord
    <3>2. objects'[j]["drum"] = run[w].drum
      BY <1>1, <1>4, <2>2 DEF UploadDrum, upload, Keys
    <3>. QED  BY <1>5, <2>1, <3>1, <3>2 DEF StemsInv, GoesOn
  <2>3. CASE UploadMelody(w)
    <3>1. run'[w].pc \in {"add_flow", "mark_failed", "raise"} /\ run'[w].drum = run[w].drum
      BY <1>1, <2>3, OnErrorType DEF UploadMelody, Resume, RunRecord
    <3>2. objects'[j]["melody"] = run[w].drum /\ objects'[j]["drum"] = objects[j]["drum"]
      BY <1>1, <1>2, <1>4, <2>3 DEF UploadMelody, upload, Keys
    <3>3. objects[j]["drum"] = run[w].drum
      BY <2>3 DEF UploadMelody, SeparationInv, Separated, StemsInv
    <3>. QED  BY <1>5, <2>1, <3>1, <3>2, <3>3 DEF StemsInv, GoesOn
  <2>. QED  BY <2>2, <2>3
<1>12. ValueInv'
  BY <1>5 DEF SeparationInv, Separated, ValueInv
<1>. QED  BY <1>7, <1>8, <1>9, <1>10, <1>11, <1>12 DEF Separated

\* The flow is added for the stems in the bucket, and its run returns.
LEMMA FlowSeparated ==
  ASSUME OneFlow, SeparationInv, NEW w \in Workers, EnqueueFlow(w)
  PROVE  Separated'
<1> DEFINE j == run[w].task.job
           n == run[w].drum
<1>1. /\ run[w] \in RunRecord /\ run \in [Workers -> RunRecord] /\ QueueTypeOK
      /\ run[w].pc = "add_flow"
  BY DEF EnqueueFlow, SeparationInv, AttemptsInv, PipelineInv, TypeOK
<1>2. run[w].task.queue = "stem" /\ n \in 1..MaxFlows
  BY <1>1 DEF SeparationInv, AttemptsInv, PipelineInv, RunInv, StemSteps, Staging
<1>3. /\ j \in Jobs /\ run[w].task = StemTask(j)
      /\ tasks[run[w].task].state = "active" /\ tasks[run[w].task].owner = w
      /\ NoFlows(j)
  BY <1>1, <1>2, StemRunOwns, StemRunBeforeFlow
<1>4. /\ run' = [run EXCEPT ![w] = [run[w] EXCEPT !.pc = "return"]]
      /\ AddFlow(j, n) /\ objects' = objects
  BY <1>1 DEF EnqueueFlow, Resume, OneFlow
<1>5. /\ run'[w].pc = "return" /\ run'[w].task = run[w].task
      /\ \A v \in Workers \ {w} : run'[v] = run[v]
  BY <1>1, <1>4 DEF RunRecord
<1>6. \A t \in Tasks :
        /\ (\A q \in FlowQueues : t # FlowTask(q, j, n)) => tasks'[t] = tasks[t]
        /\ tasks'[t].value = tasks[t].value
  <2>1. tasks' = [tasks EXCEPT ![FlowTask("beatmap", j, n)].state = "children",
                               ![FlowTask("kick", j, n)].state = "wait",
                               ![FlowTask("melody", j, n)].state = "wait"]
    BY <1>4 DEF AddFlow
  <2> DEFINE b == FlowTask("beatmap", j, n)
             k == FlowTask("kick", j, n)
             m == FlowTask("melody", j, n)
  <2>2. tasks \in [Tasks -> TaskRecord] /\ b # k /\ b # m /\ k # m
    BY <1>1 DEF QueueTypeOK, FlowTask
  <2>3. \A t \in Tasks : (\A q \in FlowQueues : t # FlowTask(q, j, n)) =>
                          t # b /\ t # k /\ t # m
    BY DEF FlowQueues
  <2>. HIDE DEF b, k, m
  <2>4. ASSUME NEW t \in Tasks
        PROVE  /\ t # b /\ t # k /\ t # m => tasks'[t] = tasks[t]
               /\ \/ tasks'[t] = tasks[t]
                  \/ \E s \in {"children", "wait"} :
                       tasks'[t] = [tasks[t] EXCEPT !.state = s]
    BY <2>1, <2>2 DEF b, k, m
  <2>5. ASSUME NEW t \in Tasks PROVE tasks'[t].value = tasks[t].value
    <3>1. tasks[t] \in TaskRecord
      BY <2>2
    <3>. QED  BY <2>4, <3>1 DEF TaskRecord
  <2>. QED  BY <2>3, <2>4, <2>5
<1>7. /\ \A i \in Jobs : tasks'[StemTask(i)] = tasks[StemTask(i)]
      /\ \A t \in FlowTasks : t.job # j \/ t.flow # n => tasks'[t] = tasks[t]
  <2>1. ASSUME NEW i \in Jobs PROVE tasks'[StemTask(i)] = tasks[StemTask(i)]
    <3>1. \A q \in FlowQueues : StemTask(i) # FlowTask(q, j, n)
      BY <1>2, <1>3, FlowTaskType, StemIsNoFlowTask
    <3>. QED  BY <1>6, <3>1, StemTaskType
  <2>2. ASSUME NEW t \in FlowTasks, t.job # j \/ t.flow # n
        PROVE  tasks'[t] = tasks[t]
    <3>1. \A q \in FlowQueues : t # FlowTask(q, j, n)
      BY <2>2, FlowTaskFields
    <3>2. t \in Tasks
      BY DEF Tasks
    <3>. QED  BY <1>6, <3>1, <3>2
  <2>. QED  BY <2>1, <2>2
<1>8. FlowStems'
  <2>. SUFFICES ASSUME NEW t \in FlowTasks, tasks'[t].state # "none"
                PROVE  objects[t.job]["drum"] = t.flow /\ objects[t.job]["melody"] = t.flow
    BY <1>4 DEF FlowStems
  <2>1. CASE t.job = j /\ t.flow = n
    BY <1>1, <2>1 DEF SeparationInv, Separated, StemsInv
  <2>2. CASE t.job # j \/ t.flow # n
    BY <1>7, <2>2 DEF SeparationInv, Separated, FlowStems
  <2>. QED  BY <2>1, <2>2
<1>9. ASSUME NEW i \in Jobs, i = j PROVE StemInv(i)'
  <2>1. tasks'[StemTask(i)] = tasks[StemTask(i)]
    BY <1>7
  <2>. QED  BY <1>3, <1>5, <1>9, <2>1 DEF StemInv
<1>10. \A i \in Jobs : i # j => StemInv(i)'
  <2>. SUFFICES ASSUME NEW i \in Jobs, i # j PROVE StemInv(i)'
    OBVIOUS
  <2>1. NoFlows(i) => NoFlows(i)'
    BY <1>7 DEF NoFlows
  <2>2. tasks[StemTask(i)].state = "active" =>
          LET u == tasks[StemTask(i)].owner
          IN  run'[u].task = run[u].task /\ (run[u].pc = "return" => run'[u].pc = "return")
    BY <1>5, StemOwner
  <2>. QED  BY <1>7, <2>1, <2>2, StandingStem
<1>11. \A i \in Jobs : StemInv(i)'
  BY <1>9, <1>10
<1>12. ASSUME NEW v \in Workers \ {w} PROVE StemsInv(v)' /\ NotesInv(v)'
  BY <1>4, <1>5, StandingRun
<1>13. StemsInv(w)' /\ NotesInv(w)'
  BY <1>1, <1>2, <1>5 DEF SeparationInv, Separated, StemsInv, NotesInv
<1>14. \A v \in Workers : StemsInv(v)' /\ NotesInv(v)'
  BY <1>12, <1>13
<1>15. ValueInv'
  BY <1>6 DEF SeparationInv, Separated, ValueInv
<1>. QED  BY <1>8, <1>11, <1>14, <1>15 DEF Separated

\* What the steps that end or begin a run, or take its lock, have in common:
\* stems and flows stand, and a value is the number of its flow.
LEMMA QueueSeparated ==
  ASSUME SeparationInv, NoNewTask, objects' = objects,
         \A j \in Jobs : StemInv(j)',
         \A v \in Workers :
           run'[v] = run[v] \/ (StemsInv(v)' /\ NotesInv(v)'),
         ValueInv'
  PROVE  Separated'
<1>1. FlowStems'
  BY FlowsKept
<1>2. \A v \in Workers : StemsInv(v)' /\ NotesInv(v)'
  BY StandingRun
<1>. QED  BY <1>1, <1>2 DEF Separated

\* A run that begins has read nothing yet.
LEMMA StartSeparated ==
  ASSUME OneFlow, SeparationInv, NEW w \in Workers, Start(w)
  PROVE  Separated'
<1>1. PICK t \in Tasks : /\ t.queue = WorkerQueue[w] /\ Lock(t, w)
                         /\ run' = [run EXCEPT ![w] = Started(t)]
  BY DEF Start
<1>2. /\ tasks \in [Tasks -> TaskRecord] /\ run \in [Workers -> RunRecord]
      /\ objects' = objects /\ run[w] = Idle
  BY DEF Start, SeparationInv, AttemptsInv, PipelineInv, TypeOK, QueueTypeOK
<1>3. NoNewTask
  BY <1>1, LockKeeps DEF SeparationInv, AttemptsInv, PipelineInv, TypeOK
<1>4. /\ tasks[t].state = "wait"
      /\ tasks'[t] = [tasks[t] EXCEPT !.state = "active", !.owner = w]
      /\ \A u \in Tasks : u # t => tasks'[u] = tasks[u]
  BY <1>1, <1>2 DEF Lock
<1>5. /\ tasks'[t].state = "active" /\ tasks'[t].owner = w
      /\ tasks'[t].value = tasks[t].value
  BY <1>2, <1>4 DEF TaskRecord
<1>6. /\ run'[w].task = t
      /\ run'[w].pc \notin {"idle", "return", "upload_melody", "add_flow"}
      /\ \A v \in Workers : v # w => run'[v] = run[v]
  BY <1>1, <1>2, TaskFields DEF Started, FirstStep, Queues, FlowQueues
<1>7. StemsInv(w)' /\ NotesInv(w)'
  BY <1>1, <1>6 DEF StemsInv, NotesInv
<1>8. ASSUME NEW j \in Jobs PROVE StemInv(j)'
  <2>1. NoFlows(j) => NoFlows(j)'
    BY <1>2, <1>3, FlowsKept
  <2>2. CASE StemTask(j) = t
    <3>1. NoFlows(j)
      BY <1>4, <2>2 DEF SeparationInv, Separated, StemInv
    <3>. QED  BY <1>5, <1>6, <2>1, <2>2, <3>1 DEF StemInv
  <2>3. CASE StemTask(j) # t
    <3>1. tasks'[StemTask(j)] = tasks[StemTask(j)]
      BY <1>4, <2>3, StemTaskType
    <3>2. tasks[StemTask(j)].state = "active" => tasks[StemTask(j)].owner # w
      BY <1>2, StemOwner DEF Idle
    <3>3. tasks[StemTask(j)].state = "active" =>
            run'[tasks[StemTask(j)].owner] = run[tasks[StemTask(j)].owner]
      BY <1>6, <3>2, StemOwner
    <3>. QED  BY <2>1, <3>1, <3>3, StandingStem
  <2>. QED  BY <2>2, <2>3
<1>9. ValueInv'
  BY <1>4, <1>5 DEF SeparationInv, Separated, ValueInv
<1>. QED  BY <1>2, <1>3, <1>6, <1>7, <1>8, <1>9, QueueSeparated

\* A run that is over knows nothing.
LEMMA IdleSeparated ==
  ASSUME NEW w \in Workers, run'[w] = Idle
  PROVE  StemsInv(w)' /\ NotesInv(w)'
BY DEF StemsInv, NotesInv, Idle

\* Stem tasks but that of run w keep their runs when w ends.
LEMMA OtherStems ==
  ASSUME SeparationInv, NoNewTask, objects' = objects, NEW w \in Workers,
         \A v \in Workers \ {w} : run'[v] = run[v],
         NEW j \in Jobs, tasks'[StemTask(j)] = tasks[StemTask(j)],
         tasks[StemTask(j)].state = "active" => tasks[StemTask(j)].owner # w
  PROVE  StemInv(j)'
<1>1. NoFlows(j) => NoFlows(j)'
  BY FlowsKept
<1>2. tasks[StemTask(j)].state = "active" =>
        run'[tasks[StemTask(j)].owner] = run[tasks[StemTask(j)].owner]
  BY StemOwner
<1>. QED  BY <1>1, <1>2, StandingStem

\* A child returns what it read: the number of its flow.
LEMMA ReturnSeparated ==
  ASSUME OneFlow, SeparationInv, NEW w \in Workers, Return(w)
  PROVE  Separated'
<1> DEFINE t == run[w].task
<1>1. /\ run[w].pc = "return" /\ t \in Tasks /\ objects' = objects
      /\ run'[w] = Idle /\ \A v \in Workers \ {w} : run'[v] = run[v]
      /\ QueueTypeOK /\ QueueInv /\ run[w] \in RunRecord
  BY DEF Return, SeparationInv, AttemptsInv, PipelineInv, TypeOK, RunInv
<1>2. CASE tasks[t].owner = w
  <2>1. Complete(t, Result(w)) /\ tasks[t].state = "active"
    BY <1>1, <1>2, OwnedActive DEF Return, SeparationInv, AttemptsInv
  <2>2. Result(w) \in Nat
    BY <1>1 DEF Result, RunRecord
  <2>3. NoNewTask
    BY <1>1, <2>1, <2>2, CompleteKeeps
  <2>4. /\ tasks'[t].state = "completed" /\ tasks'[t].value = Result(w)
        /\ \A u \in Tasks : u # t => tasks'[u].value = tasks[u].value
        /\ \A u \in Tasks : u.queue = "stem" /\ u # t => tasks'[u] = tasks[u]
    BY <1>1, <2>1, CompleteMoves
  <2>5. ASSUME NEW j \in Jobs PROVE StemInv(j)'
    <3>1. CASE StemTask(j) = t
      BY <2>4, <3>1 DEF StemInv
    <3>2. CASE StemTask(j) # t
      <4>1. tasks'[StemTask(j)] = tasks[StemTask(j)]
        BY <2>4, <3>2, StemIsNoFlowTask
      <4>2. tasks[StemTask(j)].state = "active" => tasks[StemTask(j)].owner # w
        BY <3>2, StemOwner
      <4>. QED  BY <1>1, <2>3, <4>1, <4>2, OtherStems
    <3>. QED  BY <3>1, <3>2
  <2>6. IsChild(t) => Result(w) = t.flow
    BY <1>1 DEF IsChild, Result, SeparationInv, Separated, NotesInv
  <2>7. ValueInv'
    BY <2>4, <2>6 DEF SeparationInv, Separated, ValueInv
  <2>. QED  BY <1>1, <2>3, <2>5, <2>7, IdleSeparated, QueueSeparated
<1>3. CASE tasks[t].owner # w
  <2>1. tasks' = tasks
    BY <1>3 DEF Return
  <2>2. NoNewTask /\ ValueInv'
    BY <2>1 DEF NoNewTask, SeparationInv, Separated, ValueInv
  <2>3. ASSUME NEW j \in Jobs PROVE StemInv(j)'
    <3>1. tasks[StemTask(j)].state = "active" => tasks[StemTask(j)].owner # w
      BY <1>3, StemOwner
    <3>. QED  BY <1>1, <2>1, <2>2, <3>1, OtherStems
  <2>. QED  BY <1>1, <2>2, <2>3, IdleSeparated, QueueSeparated
<1>. QED  BY <1>2, <1>3

\* A stem run that raises has added no flow, so its task may be retried.
LEMMA ReraiseSeparated ==
  ASSUME OneFlow, SeparationInv, NEW w \in Workers, Reraise(w)
  PROVE  Separated'
<1> DEFINE t == run[w].task
<1>1. /\ run[w].pc = "raise" /\ t \in Tasks /\ objects' = objects
      /\ run'[w] = Idle /\ \A v \in Workers \ {w} : run'[v] = run[v]
      /\ QueueTypeOK /\ QueueInv /\ run[w].made \in Nat
  BY DEF Reraise, SeparationInv, AttemptsInv, PipelineInv, TypeOK, RunInv, RunRecord
<1>2. CASE tasks[t].owner = w
  <2>1. Fail(t, run[w].made) /\ tasks[t].state = "active"
    BY <1>1, <1>2, OwnedActive DEF Reraise, SeparationInv, AttemptsInv
  <2>2. NoNewTask
    BY <1>1, <2>1, FailKeeps
  <2>3. OnlyMoves(t) /\ tasks'[t].state \in {"wait", "failed"}
    BY <1>1, <2>1, FailMoves
  <2>4. ASSUME NEW j \in Jobs PROVE StemInv(j)'
    <3>1. CASE StemTask(j) = t
      <4>1. NoFlows(j)
        BY <1>1, <3>1, StemRunBeforeFlow, StemIsNoFlowTask
      <4>2. NoFlows(j)'
        BY <1>1, <2>2, <4>1, FlowsKept
      <4>. QED  BY <2>3, <3>1, <4>2 DEF StemInv
    <3>2. CASE StemTask(j) # t
      <4>1. tasks'[StemTask(j)] = tasks[StemTask(j)]
        BY <2>3, <3>2, StemIsNoFlowTask DEF OnlyMoves
      <4>2. tasks[StemTask(j)].state = "active" => tasks[StemTask(j)].owner # w
        BY <3>2, StemOwner
      <4>. QED  BY <1>1, <2>2, <4>1, <4>2, OtherStems
    <3>. QED  BY <3>1, <3>2
  <2>5. ValueInv'
    BY <2>3 DEF OnlyMoves, SeparationInv, Separated, ValueInv
  <2>. QED  BY <1>1, <2>2, <2>4, <2>5, IdleSeparated, QueueSeparated
<1>3. CASE tasks[t].owner # w
  <2>1. tasks' = tasks
    BY <1>3 DEF Reraise
  <2>2. NoNewTask /\ ValueInv'
    BY <2>1 DEF NoNewTask, SeparationInv, Separated, ValueInv
  <2>3. ASSUME NEW j \in Jobs PROVE StemInv(j)'
    <3>1. tasks[StemTask(j)].state = "active" => tasks[StemTask(j)].owner # w
      BY <1>3, StemOwner
    <3>. QED  BY <1>1, <2>1, <2>2, <3>1, OtherStems
  <2>. QED  BY <1>1, <2>2, <2>3, IdleSeparated, QueueSeparated
<1>. QED  BY <1>2, <1>3

\* No stem task stalls, and no stem worker dies.
LEMMA StallSeparated ==
  ASSUME OneFlow, SeparationInv, NEW t \in Tasks, Stall(t)
  PROVE  Separated'
<1>1. /\ run' = run /\ objects' = objects /\ QueueTypeOK /\ QueueInv
      /\ tasks[t].state = "active" /\ Recover(t)
  BY DEF Stall, SeparationInv, AttemptsInv, PipelineInv, TypeOK
<1>2. NoNewTask /\ OnlyMoves(t)
  BY <1>1, RecoverKeeps, RecoverMoves
<1>3. t.queue # "stem"
  <2>. SUFFICES ASSUME t.queue = "stem" PROVE FALSE
    OBVIOUS
  <2>1. t.job \in Jobs /\ t = StemTask(t.job)
    BY TaskFields
  <2>2. run[tasks[t].owner].task = t
    BY <1>1, <2>1, StemOwner
  <2>. QED  BY <2>2 DEF Stall, Abandoned, OneFlow
<1>4. ASSUME NEW j \in Jobs PROVE StemInv(j)'
  <2>1. tasks'[StemTask(j)] = tasks[StemTask(j)]
    BY <1>2, <1>3, StemIsNoFlowTask DEF OnlyMoves
  <2>2. NoFlows(j) => NoFlows(j)'
    BY <1>1, <1>2, FlowsKept
  <2>. QED  BY <1>1, <2>1, <2>2, StandingStem
<1>5. ValueInv'
  BY <1>2 DEF OnlyMoves, SeparationInv, Separated, ValueInv
<1>. QED  BY <1>1, <1>2, <1>4, <1>5, QueueSeparated

\* A worker that dies was no stem worker, so no stem task loses its run.
LEMMA CrashSeparated ==
  ASSUME OneFlow, SeparationInv, NEW w \in Workers, Crash(w)
  PROVE  Separated'
<1>1. /\ tasks' = tasks /\ objects' = objects /\ WorkerQueue[w] # "stem"
      /\ run'[w] = Idle /\ \A v \in Workers \ {w} : run'[v] = run[v]
  BY DEF Crash, OneFlow, SeparationInv, AttemptsInv, PipelineInv, TypeOK
<1>2. NoNewTask /\ ValueInv'
  BY <1>1 DEF NoNewTask, SeparationInv, Separated, ValueInv
<1>3. ASSUME NEW j \in Jobs PROVE StemInv(j)'
  <2>1. tasks[StemTask(j)].state = "active" => tasks[StemTask(j)].owner # w
    BY <1>1, StemOwner, StemIsNoFlowTask DEF SeparationInv, Separated, StemsInv
  <2>. QED  BY <1>1, <1>2, <2>1, OtherStems
<1>. QED  BY <1>1, <1>2, <1>3, IdleSeparated, QueueSeparated

-----------------------------------------------------------------------------
(* What follows for every instance.                                        *)

\* There is no stem and no flow before the first request.
LEMMA SeparationInit == Init => SeparationInv
<1>. SUFFICES ASSUME Init PROVE SeparationInv
  OBVIOUS
<1>1. tasks = [t \in Tasks |-> NewTask] /\ run = [w \in Workers |-> Idle]
  BY DEF Init, QueueInit
<1>2. \A t \in Tasks : tasks[t].state = "none" /\ tasks[t].value = 0
  BY <1>1 DEF NewTask
<1>3. \A j \in Jobs : StemInv(j)
  BY <1>2, StemIsNoFlowTask DEF StemInv, NoFlows
<1>4. \A w \in Workers : StemsInv(w) /\ NotesInv(w)
  BY <1>1 DEF StemsInv, NotesInv, Idle
<1>5. FlowStems /\ ValueInv
  BY <1>2, StemIsNoFlowTask DEF FlowStems, ValueInv, Tasks
<1>. QED  BY <1>3, <1>4, <1>5, AttemptsInit DEF SeparationInv, Separated

\* Every step keeps the stems of a song with its flow.
LEMMA SeparationNext ==
  ASSUME OneFlow, SeparationInv, [Next]_vars
  PROVE  SeparationInv'
<1>1. AttemptsInv'
  BY AttemptsNext DEF SeparationInv
<1>2. CASE UNCHANGED vars
  <2>1. tasks' = tasks /\ run' = run /\ objects' = objects
    BY <1>2 DEF vars
  <2>2. NoNewTask /\ ValueInv' /\ \A j \in Jobs : StemInv(j)'
    BY <2>1 DEF NoNewTask, SeparationInv, Separated, ValueInv, StemInv, NoFlows
  <2>. QED  BY <1>1, <2>1, <2>2, QueueSeparated DEF SeparationInv
<1>3. ASSUME NEW w \in Workers, Start(w) \/ HandlerStep(w) \/ Raise(w) \/ Crash(w)
      PROVE  Separated'
  BY <1>3, StartSeparated, HandlersSeparated, UploadSeparated, FlowSeparated,
     ReturnSeparated, ReraiseSeparated, CrashSeparated DEF HandlerStep
<1>4. ASSUME Next PROVE Separated'
  BY <1>3, <1>4, RequestSeparated, StallSeparated DEF Next
<1>. QED  BY <1>1, <1>2, <1>4 DEF SeparationInv

\* The drum notes and the melody notes of a beatmap come from one separation of
\* its song, although a retried stem run replaces the stems in place and a
\* redelivered detection reads them again: StemHandler adds the flow last, and
\* only a lost reply to that call, or a stem worker lost after it, would let
\* the stems change under the flow.
THEOREM SeparationSafe ==
  ASSUME OneFlow
  PROVE  Spec => []OneSeparation
<1>1. Init => SeparationInv
  BY SeparationInit
<1>2. SeparationInv /\ [Next]_vars => SeparationInv'
  BY SeparationNext
<1>3. SeparationInv => OneSeparation
  <2>. SUFFICES ASSUME SeparationInv, NEW b \in 1..Len(beatmaps)
                PROVE  beatmaps[b].drum = beatmaps[b].melody
    BY DEF OneSeparation
  <2>1. beatmaps[b] \in BeatmapDoc
    BY DEF SeparationInv, AttemptsInv, PipelineInv, TypeOK, RepositoryTypeOK
  <2>2. ASSUME NEW q \in {"kick", "melody"}
        PROVE  LET t == FlowTask(q, beatmaps[b].job, beatmaps[b].flow)
               IN  tasks[t].value \in {0, beatmaps[b].flow}
    <3>1. beatmaps[b].job \in Jobs /\ beatmaps[b].flow \in 1..MaxFlows
      BY <2>1 DEF SeparationInv, AttemptsInv, PipelineInv, FlowInv, BeatmapDoc
    <3>2. FlowTask(q, beatmaps[b].job, beatmaps[b].flow) \in Tasks
      BY <3>1, FlowTaskType DEF FlowQueues
    <3>. QED  BY <3>2, FlowTaskFields
              DEF SeparationInv, Separated, ValueInv, IsChild
  <2>3. beatmaps[b].drum # 0 /\ beatmaps[b].melody # 0
    BY <2>1 DEF BeatmapDoc
  <2>. QED  BY <2>2, <2>3
            DEF SeparationInv, AttemptsInv, PipelineInv, MergesOwnChildren
<1>. QED  BY <1>1, <1>2, <1>3, PTL DEF Spec

-----------------------------------------------------------------------------
(* Tasks under way: who works on them, and what came before them.          *)

\* Where no worker dies, an active task has the run that locked it.
NoneAbandoned ==
  \A t \in Tasks :
    tasks[t].state = "active" /\ t.queue \notin CrashQueues => ~Abandoned(t)

\* A beatmap task is only released by the results of both children.
Underway == {"wait", "active", "completed"}
ChildrenDone ==
  \A t \in Tasks :
    t.queue = "beatmap" /\ tasks[t].state \in Underway =>
      \A q \in {"kick", "melody"} :
        tasks[FlowTask(q, t.job, t.flow)].state = "completed"

ResultsKept == \A t \in Tasks : IsChild(t) /\ tasks[t].state = "completed" => tasks[t].value # 0

HeldInv == NoneAbandoned /\ ChildrenDone /\ ResultsKept

\* The run of an active task.
LEMMA HeldRun ==
  ASSUME SeparationInv, HeldInv, NEW t \in Tasks, tasks[t].state = "active",
         t.queue \notin CrashQueues
  PROVE  LET w == tasks[t].owner
         IN  w \in Workers /\ run[w].task = t /\ run[w].pc # "idle"
<1> DEFINE w == tasks[t].owner
<1>1. w \in Workers
  <2>1. tasks[t] \in TaskRecord
    BY DEF SeparationInv, AttemptsInv, PipelineInv, TypeOK, QueueTypeOK
  <2>2. w # NoWorker
    BY DEF SeparationInv, AttemptsInv, PipelineInv, QueueInv
  <2>. QED  BY <2>1, <2>2 DEF TaskRecord
<1>2. run[w].task = t
  BY DEF HeldInv, NoneAbandoned, Abandoned
<1>3. run[w].pc # "idle"
  BY <1>1, <1>2, PipelineAssumption DEF SeparationInv, AttemptsInv, CountInv, Idle
<1>. QED  BY <1>1, <1>2, <1>3

\* What a step must do to keep the invariant.
LEMMA HeldKept ==
  ASSUME SeparationInv, HeldInv, QueueProgress,
         \A t \in Tasks :
           tasks'[t].state = "active" /\ t.queue \notin CrashQueues =>
             \/ /\ tasks'[t] = tasks[t]
                /\ run'[tasks[t].owner].task = run[tasks[t].owner].task
             \/ run'[tasks'[t].owner].task = t,
         \A t \in Tasks :
           t.queue = "beatmap" /\ tasks'[t].state \in Underway =>
             \/ tasks[t].state \in Underway
             \/ \A q \in {"kick", "melody"} :
                  tasks'[FlowTask(q, t.job, t.flow)].state = "completed",
         \A t \in Tasks :
           IsChild(t) /\ tasks'[t].state = "completed" =>
             tasks[t].state = "completed" \/ tasks'[t].value # 0
  PROVE  HeldInv'
<1>1. NoneAbandoned'
  BY DEF HeldInv, NoneAbandoned, Abandoned
<1>2. ChildrenDone'
  <2>. SUFFICES ASSUME NEW t \in Tasks, t.queue = "beatmap", tasks[t].state \in Underway,
                       NEW q \in {"kick", "melody"}
                PROVE  tasks'[FlowTask(q, t.job, t.flow)].state = "completed"
    BY DEF ChildrenDone
  <2>1. FlowTask(q, t.job, t.flow) \in Tasks
    BY TaskFields, FlowTaskType DEF FlowQueues
  <2>. QED  BY <2>1 DEF HeldInv, ChildrenDone, QueueProgress
<1>3. ResultsKept'
  BY DEF HeldInv, ResultsKept, QueueProgress
<1>. QED  BY <1>1, <1>2, <1>3 DEF HeldInv

\* A step that leaves the tasks alone and every run with its task.
LEMMA HeldStands ==
  ASSUME SeparationInv, HeldInv, tasks' = tasks,
         \A v \in Workers : run'[v].task = run[v].task
  PROVE  HeldInv'
BY HeldRun, HeldKept DEF QueueProgress

LEMMA HandlersHeld ==
  ASSUME SeparationInv, HeldInv, NEW w \in Workers,
         \/ MarkProcessing(w) \/ Separate(w) \/ UploadDrum(w) \/ UploadMelody(w)
         \/ DetectKicks(w) \/ ExtractMelody(w) \/ GetChildren(w)
         \/ InsertBeatmap(w) \/ MarkCompleted(w) \/ MarkFailed(w) \/ Raise(w)
  PROVE  HeldInv'
<1>1. tasks' = tasks
  BY DEF MarkProcessing, Separate, UploadDrum, UploadMelody, DetectKicks, ExtractMelody,
         GetChildren, InsertBeatmap, MarkCompleted, MarkFailed, Raise
<1>2. ASSUME MarkFailed(w) PROVE \A v \in Workers : run'[v].task = run[v].task
  BY <1>2 DEF MarkFailed, SeparationInv, AttemptsInv, PipelineInv, TypeOK, RunRecord
<1>3. ASSUME ~MarkFailed(w) PROVE \A v \in Workers : run'[v].task = run[v].task
  BY <1>3, HandlersGoOn DEF GoesOn, SeparationInv
<1>. QED  BY <1>1, <1>2, <1>3, HeldStands

\* Requests move no run; the stem task they add waits.
LEMMA RequestHeld ==
  ASSUME SeparationInv, HeldInv, NEW j \in Jobs, Request(j) \/ AbortRequest(j)
  PROVE  HeldInv'
<1>1. run' = run
  BY DEF Request, AbortRequest, Validate, InsertMapJob, SetObjectKey, UploadOriginal,
         EnqueueStem
<1>2. CASE EnqueueStem(j)
  <2>1. /\ QueueTypeOK /\ QueueInv /\ AddStem(j) /\ tasks[StemTask(j)].state = "none"
        /\ StemTask(j) \in Tasks /\ StemTask(j).queue = "stem"
    BY <1>2, StemIsNoFlowTask DEF EnqueueStem, SeparationInv, AttemptsInv, PipelineInv,
                                  TypeOK, RequestInv, ApiSteps
  <2>2. /\ QueueProgress
        /\ \A t \in Tasks : t # StemTask(j) => tasks'[t] = tasks[t]
    BY <2>1, AddStemKeeps
  <2>3. tasks'[StemTask(j)].state = "wait"
    BY <2>1 DEF AddStem, QueueTypeOK, TaskRecord
  <2>. QED  BY <1>1, <2>1, <2>2, <2>3, HeldRun, HeldKept DEF IsChild
<1>3. CASE ~EnqueueStem(j)
  <2>1. tasks' = tasks
    BY <1>3 DEF Request, AbortRequest, Validate, InsertMapJob, SetObjectKey,
                UploadOriginal
  <2>. QED  BY <1>1, <2>1, HeldStands
<1>. QED  BY <1>2, <1>3

\* The tasks of a new flow wait, the parent for its children.
LEMMA FlowHeld ==
  ASSUME SeparationInv, HeldInv, NEW w \in Workers, EnqueueFlow(w)
  PROVE  HeldInv'
<1> DEFINE j == run[w].task.job
           n == run[w].drum
<1>1. /\ QueueTypeOK /\ QueueInv /\ AddFlow(j, n) /\ n \in 1..MaxFlows /\ j \in Jobs
      /\ \A q \in FlowQueues : tasks[FlowTask(q, j, n)].state = "none"
  BY TaskFields DEF EnqueueFlow, SeparationInv, AttemptsInv, PipelineInv, TypeOK, RunInv,
                    Staging, NoFlow
<1>2. /\ QueueProgress
      /\ \A t \in Tasks :
           (\A q \in FlowQueues : t # FlowTask(q, j, n)) => tasks'[t] = tasks[t]
  BY <1>1, AddFlowKeeps
<1>3. \A v \in Workers : run'[v].task = run[v].task
  BY HandlersGoOn DEF GoesOn, SeparationInv
<1>4. /\ tasks'[FlowTask("beatmap", j, n)].state = "children"
      /\ \A q \in {"kick", "melody"} : tasks'[FlowTask(q, j, n)].state = "wait"
  <2>1. \A q \in FlowQueues : FlowTask(q, j, n) \in Tasks
    BY <1>1, FlowTaskType
  <2>2. \A p, q \in FlowQueues : p # q => FlowTask(p, j, n) # FlowTask(q, j, n)
    BY FlowTaskFields
  <2>. QED  BY <1>1, <2>1, <2>2 DEF AddFlow, QueueTypeOK, TaskRecord, FlowQueues
<1>5. ASSUME NEW t \in Tasks, tasks'[t].state \in {"active", "completed"}
      PROVE  tasks'[t] = tasks[t]
  BY <1>2, <1>4, <1>5 DEF FlowQueues
<1>6. ASSUME NEW t \in Tasks, t.queue = "beatmap", tasks'[t].state \in Underway
      PROVE  tasks[t].state \in Underway
  <2>1. \A q \in {"kick", "melody"} : t # FlowTask(q, j, n)
    BY <1>6, FlowTaskFields
  <2>. QED  BY <1>2, <1>4, <1>6, <2>1 DEF FlowQueues, Underway
<1>. QED  BY <1>2, <1>3, <1>5, <1>6, HeldRun, HeldKept

\* A run that begins is the run of its task.
LEMMA StartHeld ==
  ASSUME SeparationInv, HeldInv, NEW w \in Workers, Start(w)
  PROVE  HeldInv'
<1>1. PICK t \in Tasks : Lock(t, w) /\ run' = [run EXCEPT ![w] = Started(t)]
  BY DEF Start
<1>2. /\ QueueTypeOK /\ QueueInv /\ run[w] = Idle /\ run \in [Workers -> RunRecord]
  BY DEF Start, SeparationInv, AttemptsInv, PipelineInv, TypeOK
<1>3. QueueProgress
  BY <1>1, <1>2, LockKeeps
<1>4. /\ tasks[t].state = "wait"
      /\ tasks'[t] = [tasks[t] EXCEPT !.state = "active", !.owner = w]
      /\ \A u \in Tasks : u # t => tasks'[u] = tasks[u]
  BY <1>1, <1>2 DEF Lock, QueueTypeOK
<1>5. tasks'[t].state = "active" /\ tasks'[t].owner = w
  BY <1>2, <1>4 DEF QueueTypeOK, TaskRecord
<1>6. run'[w].task = t /\ \A v \in Workers : v # w => run'[v] = run[v]
  BY <1>1, <1>2 DEF Started
<1>7. ASSUME NEW u \in Tasks, u # t, tasks'[u].state = "active", u.queue \notin CrashQueues
      PROVE  run'[tasks[u].owner].task = run[tasks[u].owner].task
  BY <1>2, <1>4, <1>6, <1>7, HeldRun DEF Idle
<1>. QED  BY <1>3, <1>4, <1>5, <1>6, <1>7, HeldKept DEF Underway

\* Only the run of a task ends with it.
LEMMA SettledHeld ==
  ASSUME SeparationInv, HeldInv, NEW w \in Workers, run[w].pc # "idle",
         \A v \in Workers \ {w} : run'[v] = run[v],
         tasks[run[w].task].owner = w, QueueProgress,
         Finishes(run[w].task) \/ Releases(run[w].task),
         tasks[run[w].task].state = "active",
         IsChild(run[w].task) /\ Finishes(run[w].task) => tasks'[run[w].task].value # 0
  PROVE  HeldInv'
<1> DEFINE t == run[w].task
<1>1. t \in Tasks
  BY DEF SeparationInv, AttemptsInv, PipelineInv, RunInv
<1>2. ASSUME NEW u \in Tasks, tasks'[u].state = "active"
      PROVE  u # t /\ tasks'[u] = tasks[u]
  BY <1>1, <1>2 DEF Finishes, Releases
<1>3. ASSUME NEW u \in Tasks, tasks'[u].state = "active", u.queue \notin CrashQueues
      PROVE  run'[tasks[u].owner].task = run[tasks[u].owner].task
  BY <1>2, <1>3, HeldRun
<1>4. ASSUME NEW u \in Tasks, u.queue = "beatmap", tasks'[u].state \in Underway
      PROVE  \/ tasks[u].state \in Underway
             \/ \A q \in {"kick", "melody"} :
                  tasks'[FlowTask(q, u.job, u.flow)].state = "completed"
  <2>1. CASE u = t
    BY <2>1 DEF Underway
  <2>2. CASE u # t /\ tasks'[u] = tasks[u]
    BY <1>4, <2>2
  <2>3. CASE u # t /\ tasks'[u] # tasks[u]
    <3>1. /\ Finishes(t) /\ IsChild(t) /\ u = Parent(t)
          /\ tasks[Sibling(t)].state = "completed" /\ tasks'[t].state = "completed"
      BY <1>1, <1>4, <2>3 DEF Finishes, Releases, Underway
    <3>2. Sibling(t) \in Tasks
      BY <1>1, <3>1, FamilyDistinct
    <3>3. tasks'[Sibling(t)].state = "completed"
      BY <3>1, <3>2 DEF QueueProgress
    <3>4. /\ u.job = t.job /\ u.flow = t.flow
          /\ t.queue \in {"kick", "melody"} /\ t = FlowTask(t.queue, t.job, t.flow)
      BY <1>1, <3>1, TaskFields, FlowTaskFields DEF IsChild, Parent
    <3>. QED  BY <3>1, <3>3, <3>4 DEF Sibling
  <2>. QED  BY <2>1, <2>2, <2>3
<1>5. ASSUME NEW u \in Tasks, IsChild(u), tasks'[u].state = "completed"
      PROVE  tasks[u].state = "completed" \/ tasks'[u].value # 0
  BY <1>1, <1>5 DEF Finishes, Releases
<1>. QED  BY <1>2, <1>3, <1>4, <1>5, HeldKept

\* A run without the lock was not the run of an active task.
LEMMA UnlockedHeld ==
  ASSUME SeparationInv, HeldInv, NEW w \in Workers, tasks' = tasks,
         \A v \in Workers \ {w} : run'[v] = run[v],
         \A t \in Tasks :
           tasks[t].owner = w /\ t.queue \notin CrashQueues => run[w].task # t
  PROVE  HeldInv'
<1>1. ASSUME NEW t \in Tasks, tasks[t].state = "active", t.queue \notin CrashQueues
      PROVE  run'[tasks[t].owner].task = run[tasks[t].owner].task
  BY <1>1, HeldRun
<1>. QED  BY <1>1, HeldKept DEF QueueProgress

LEMMA ReturnHeld ==
  ASSUME SeparationInv, HeldInv, NEW w \in Workers, Return(w)
  PROVE  HeldInv'
<1> DEFINE t == run[w].task
<1>1. /\ run[w].pc = "return" /\ t \in Tasks /\ QueueTypeOK /\ QueueInv
      /\ \A v \in Workers \ {w} : run'[v] = run[v]
      /\ run[w] \in RunRecord
  BY DEF Return, SeparationInv, AttemptsInv, PipelineInv, TypeOK, RunInv
<1>2. CASE tasks[t].owner = w
  <2>1. Complete(t, Result(w)) /\ tasks[t].state = "active"
    BY <1>1, <1>2, OwnedActive DEF Return, SeparationInv, AttemptsInv
  <2>2. Result(w) \in Nat
    BY <1>1 DEF Result, RunRecord
  <2>3. QueueProgress /\ Finishes(t) /\ tasks'[t].value = Result(w)
    BY <1>1, <2>1, <2>2, CompleteKeeps, CompleteFinishes, CompleteMoves
  <2>4. IsChild(t) => Result(w) # 0
    <3>1. IsChild(t) => Result(w) = t.flow
      BY <1>1 DEF IsChild, Result, SeparationInv, Separated, NotesInv
    <3>2. IsChild(t) => t.flow \in 1..MaxFlows
      BY <1>1, TaskFields DEF IsChild
    <3>. QED  BY <3>1, <3>2, BullMQAssumption
  <2>. QED  BY <1>1, <1>2, <2>1, <2>3, <2>4, SettledHeld
<1>3. CASE tasks[t].owner # w
  BY <1>1, <1>3, UnlockedHeld DEF Return
<1>. QED  BY <1>2, <1>3

LEMMA ReraiseHeld ==
  ASSUME SeparationInv, HeldInv, NEW w \in Workers, Reraise(w)
  PROVE  HeldInv'
<1> DEFINE t == run[w].task
<1>1. /\ run[w].pc = "raise" /\ t \in Tasks /\ QueueTypeOK /\ QueueInv
      /\ \A v \in Workers \ {w} : run'[v] = run[v]
      /\ run[w].made \in Nat
  BY DEF Reraise, SeparationInv, AttemptsInv, PipelineInv, TypeOK, RunInv, RunRecord
<1>2. CASE tasks[t].owner = w
  <2>1. Fail(t, run[w].made) /\ tasks[t].state = "active"
    BY <1>1, <1>2, OwnedActive DEF Reraise, SeparationInv, AttemptsInv
  <2>2. QueueProgress /\ Releases(t) /\ ~Finishes(t)
    BY <1>1, <2>1, FailKeeps, FailReleases DEF Releases, Finishes
  <2>. QED  BY <1>1, <1>2, <2>1, <2>2, SettledHeld
<1>3. CASE tasks[t].owner # w
  BY <1>1, <1>3, UnlockedHeld DEF Reraise
<1>. QED  BY <1>2, <1>3

LEMMA StallHeld ==
  ASSUME SeparationInv, HeldInv, NEW t \in Tasks, Stall(t)
  PROVE  HeldInv'
<1>1. /\ run' = run /\ QueueTypeOK /\ QueueInv /\ tasks[t].state = "active" /\ Recover(t)
  BY DEF Stall, SeparationInv, AttemptsInv, PipelineInv, TypeOK
<1>2. QueueProgress /\ Releases(t)
  BY <1>1, RecoverKeeps, RecoverReleases
<1>. QED  BY <1>1, <1>2, HeldKept DEF Releases, Underway

\* A worker that dies served a queue whose workers may.
LEMMA CrashHeld ==
  ASSUME SeparationInv, HeldInv, NEW w \in Workers, Crash(w)
  PROVE  HeldInv'
<1>1. /\ tasks' = tasks /\ WorkerQueue[w] \in CrashQueues
      /\ run \in [Workers -> RunRecord] /\ run' = [run EXCEPT ![w] = Idle]
  BY DEF Crash, SeparationInv, AttemptsInv, PipelineInv, TypeOK
<1>2. run[w].pc = "idle" => run[w].task \notin Tasks
  BY PipelineAssumption DEF SeparationInv, AttemptsInv, CountInv, Idle
<1>3. run[w].pc # "idle" => run[w].task.queue = WorkerQueue[w]
  BY DEF SeparationInv, Separated, StemsInv
<1>. QED  BY <1>1, <1>2, <1>3, UnlockedHeld

\* Every step keeps tasks with their runs and parents behind their children.
LEMMA HeldNext ==
  ASSUME SeparationInv, HeldInv, [Next]_vars
  PROVE  HeldInv'
<1>1. CASE UNCHANGED vars
  BY <1>1, HeldStands DEF vars
<1>2. ASSUME NEW w \in Workers, Start(w) \/ HandlerStep(w) \/ Raise(w) \/ Crash(w)
      PROVE  HeldInv'
  BY <1>2, StartHeld, HandlersHeld, FlowHeld, ReturnHeld, ReraiseHeld, CrashHeld
  DEF HandlerStep
<1>. QED  BY <1>1, <1>2, RequestHeld, StallHeld DEF Next

LEMMA HeldInit == Init => HeldInv
<1>. SUFFICES ASSUME Init PROVE HeldInv
  OBVIOUS
<1>1. \A t \in Tasks : tasks[t].state = "none"
  BY DEF Init, QueueInit, NewTask
<1>. QED  BY <1>1 DEF HeldInv, NoneAbandoned, ChildrenDone, ResultsKept, Underway

\* Both invariants in every reachable state.
LEMMA HeldInvariant ==
  ASSUME OneFlow
  PROVE  Spec => [](SeparationInv /\ HeldInv)
<1>1. Init => SeparationInv /\ HeldInv
  BY SeparationInit, HeldInit
<1>2. SeparationInv /\ HeldInv /\ [Next]_vars => (SeparationInv /\ HeldInv)'
  BY SeparationNext, HeldNext
<1>. QED  BY <1>1, <1>2, PTL DEF Spec
=============================================================================

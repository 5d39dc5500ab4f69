----------------------- MODULE BeatmapPipelineProofs -----------------------
(***************************************************************************)
(* The safety of BeatmapPipeline for every number of jobs, workers and     *)
(* attempts, and for every choice of the calls that fail, lose their reply,*)
(* crash or outlive their lock.  What the operations of BullMQ keep comes  *)
(* first, then the invariant of the pipeline.                              *)
(***************************************************************************)
EXTENDS BeatmapPipeline, TLAPS

-----------------------------------------------------------------------------
(* What the queue operations of BullMQ keep, for every set of tasks.       *)

\* A task has an owner exactly while it is active, and a return value only
\* once it completed.
QueueInv ==
  \A t \in Tasks :
    /\ tasks[t].owner # NoWorker <=> tasks[t].state = "active"
    /\ tasks[t].value # 0 => tasks[t].state = "completed"

\* A completed task never changes again, and no task vanishes.
QueueProgress ==
  \A t \in Tasks :
    /\ tasks[t].state # "none" => tasks'[t].state # "none"
    /\ tasks[t].state = "completed" => tasks'[t] = tasks[t]

\* No task is created.
NoNewTask ==
  \A t \in Tasks : tasks[t].state = "none" => tasks'[t].state = "none"

\* The identities of tasks: the members of a flow are tasks, and a child, its
\* sibling and its parent differ.
LEMMA FlowTaskType ==
  ASSUME NEW q \in FlowQueues, NEW j \in Jobs, NEW n \in 1..MaxFlows
  PROVE  FlowTask(q, j, n) \in FlowTasks /\ FlowTask(q, j, n) \in Tasks
BY DEF FlowTask, FlowTasks, Tasks

\* The stem task of a job is a task.
LEMMA StemTaskType ==
  ASSUME NEW j \in Jobs
  PROVE  StemTask(j) \in StemTasks /\ StemTask(j) \in Tasks
BY DEF StemTask, StemTasks, Tasks

\* The fields of a task are what its name says.
LEMMA TaskFields ==
  ASSUME NEW t \in Tasks
  PROVE  /\ t.queue \in Queues /\ t.job \in Jobs /\ t.flow \in Nat
         /\ t.queue = "stem" => t = StemTask(t.job)
         /\ t.queue # "stem" =>
              /\ t.queue \in FlowQueues /\ t.flow \in 1..MaxFlows
              /\ t = FlowTask(t.queue, t.job, t.flow)
<1>. MaxFlows \in Nat
  BY BullMQAssumption
<1>1. CASE t \in StemTasks
  BY <1>1 DEF StemTasks, StemTask, Queues
<1>2. CASE t \in FlowTasks
  BY <1>2 DEF FlowTasks, FlowTask, Queues, FlowQueues
<1>. QED  BY <1>1, <1>2 DEF Tasks

\* A child, its sibling and its parent are three tasks.
LEMMA FamilyDistinct ==
  ASSUME NEW t \in Tasks, IsChild(t)
  PROVE  /\ Parent(t) \in Tasks /\ Sibling(t) \in Tasks
         /\ Parent(t) # t
<1>1. t.queue \in {"kick", "melody"}
  BY DEF IsChild
<1>2. t.queue # "stem" /\ t.job \in Jobs /\ t.flow \in 1..MaxFlows
  BY <1>1, TaskFields
<1>3. Parent(t) \in Tasks /\ Sibling(t) \in Tasks
  BY <1>2, FlowTaskType DEF Parent, Sibling, FlowQueues
<1>4. Parent(t).queue = "beatmap"
  BY DEF Parent, FlowTask
<1>. QED  BY <1>1, <1>3, <1>4

-----------------------------------------------------------------------------
(* What the code adds.                                                     *)

\* Adding a stem task changes no other task.
LEMMA AddStemKeeps ==
  ASSUME QueueTypeOK, QueueInv,
         NEW j \in Jobs, tasks[StemTask(j)].state = "none", AddStem(j)
  PROVE  /\ QueueTypeOK' /\ QueueInv' /\ QueueProgress
         /\ \A t \in Tasks : t # StemTask(j) => tasks'[t] = tasks[t]
<1>1. StemTask(j) \in Tasks
  BY StemTaskType
<1>2. tasks' = [tasks EXCEPT ![StemTask(j)].state = "wait"]
  BY DEF AddStem
<1>3. tasks'[StemTask(j)] = [tasks[StemTask(j)] EXCEPT !.state = "wait"]
  BY <1>1, <1>2 DEF QueueTypeOK
<1>4. \A t \in Tasks : t # StemTask(j) => tasks'[t] = tasks[t]
  BY <1>2 DEF QueueTypeOK
<1>5. QueueTypeOK'
  BY <1>2 DEF QueueTypeOK, TaskRecord, TaskStates
<1>6. QueueInv' /\ QueueProgress
  BY <1>1, <1>3, <1>4 DEF QueueTypeOK, TaskRecord, QueueInv, QueueProgress
<1>. QED  BY <1>4, <1>5, <1>6

\* Adding a flow whose number is free changes no task outside it.
LEMMA AddFlowKeeps ==
  ASSUME QueueTypeOK, QueueInv, NEW j \in Jobs, NEW n \in 1..MaxFlows,
         \A q \in FlowQueues : tasks[FlowTask(q, j, n)].state = "none",
         AddFlow(j, n)
  PROVE  /\ QueueTypeOK' /\ QueueInv' /\ QueueProgress
         /\ \A t \in Tasks :
              (\A q \in FlowQueues : t # FlowTask(q, j, n)) => tasks'[t] = tasks[t]
<1> DEFINE b == FlowTask("beatmap", j, n)
           k == FlowTask("kick", j, n)
           m == FlowTask("melody", j, n)
<1>1. b \in Tasks /\ k \in Tasks /\ m \in Tasks
  BY FlowTaskType DEF FlowQueues
<1>2. b # k /\ b # m /\ k # m
  BY DEF FlowTask
<1>3. tasks' = [tasks EXCEPT ![b].state = "children", ![k].state = "wait",
                            ![m].state = "wait"]
  BY DEF AddFlow
<1> HIDE DEF b, k, m
<1>4. /\ tasks'[b] = [tasks[b] EXCEPT !.state = "children"]
      /\ tasks'[k] = [tasks[k] EXCEPT !.state = "wait"]
      /\ tasks'[m] = [tasks[m] EXCEPT !.state = "wait"]
  BY <1>1, <1>2, <1>3 DEF QueueTypeOK
<1>5. \A t \in Tasks : t \notin {b, k, m} => tasks'[t] = tasks[t]
  BY <1>3 DEF QueueTypeOK
<1>6. /\ tasks[b].state = "none" /\ tasks[k].state = "none"
      /\ tasks[m].state = "none"
  BY DEF b, k, m, FlowQueues
<1>7. QueueTypeOK'
  <2>1. tasks'[b] \in TaskRecord /\ tasks'[k] \in TaskRecord /\ tasks'[m] \in TaskRecord
    BY <1>1, <1>4 DEF QueueTypeOK, TaskRecord, TaskStates
  <2>2. \A t \in Tasks : tasks'[t] \in TaskRecord
    BY <1>5, <2>1 DEF QueueTypeOK
  <2>3. tasks' = [t \in Tasks |-> tasks'[t]]
    BY <1>3 DEF QueueTypeOK
  <2>. QED  BY <2>2, <2>3 DEF QueueTypeOK
<1>8. QueueInv' /\ QueueProgress
  <2>. SUFFICES ASSUME NEW t \in Tasks
                PROVE  /\ tasks'[t].owner # NoWorker <=> tasks'[t].state = "active"
                       /\ tasks'[t].value # 0 => tasks'[t].state = "completed"
                       /\ tasks[t].state # "none" => tasks'[t].state # "none"
                       /\ tasks[t].state = "completed" => tasks'[t] = tasks[t]
    BY DEF QueueInv, QueueProgress
  <2>. tasks[t] \in TaskRecord
    BY DEF QueueTypeOK
  <2>1. CASE t \in {b, k, m}
    BY <1>4, <1>6, <2>1 DEF QueueInv, TaskRecord
  <2>2. CASE t \notin {b, k, m}
    BY <1>5, <2>2 DEF QueueInv
  <2>. QED  BY <2>1, <2>2
<1>9. \A t \in Tasks :
        (\A q \in FlowQueues : t # FlowTask(q, j, n)) => t \notin {b, k, m}
  BY DEF b, k, m, FlowQueues
<1>. QED  BY <1>5, <1>7, <1>8, <1>9

-----------------------------------------------------------------------------
(* What BullMQ does with a task.                                           *)

\* Locking a waiting task gives it its only owner.
LEMMA LockKeeps ==
  ASSUME QueueTypeOK, QueueInv, NEW t \in Tasks, NEW w \in Workers, Lock(t, w)
  PROVE  /\ QueueTypeOK' /\ QueueInv' /\ QueueProgress /\ NoNewTask
         /\ tasks[t].state # "none"
<1>1. /\ tasks[t].state = "wait"
      /\ tasks' = [tasks EXCEPT ![t].state = "active", ![t].owner = w]
  BY DEF Lock
<1>2. tasks'[t] = [tasks[t] EXCEPT !.state = "active", !.owner = w]
  BY <1>1 DEF QueueTypeOK
<1>3. \A u \in Tasks : u # t => tasks'[u] = tasks[u]
  BY <1>1 DEF QueueTypeOK
<1>4. QueueTypeOK'
  <2>1. tasks'[t] \in TaskRecord
    BY <1>2 DEF QueueTypeOK, TaskRecord, TaskStates
  <2>2. \A u \in Tasks : tasks'[u] \in TaskRecord
    BY <1>3, <2>1 DEF QueueTypeOK
  <2>3. tasks' = [u \in Tasks |-> tasks'[u]]
    BY <1>1 DEF QueueTypeOK
  <2>. QED  BY <2>2, <2>3 DEF QueueTypeOK
<1>5. tasks[t] \in TaskRecord
  BY DEF QueueTypeOK
<1>6. QueueInv'
  <2>1. /\ tasks'[t].state = "active" /\ tasks'[t].owner = w
        /\ tasks'[t].value = tasks[t].value
    BY <1>2, <1>5 DEF TaskRecord
  <2>2. w # NoWorker
    BY BullMQAssumption
  <2>3. tasks[t].value = 0
    BY <1>1 DEF QueueInv
  <2>. QED  BY <1>3, <2>1, <2>2, <2>3 DEF QueueInv
<1>7. QueueProgress /\ NoNewTask
  <2>1. tasks'[t].state = "active"
    BY <1>2, <1>5 DEF TaskRecord
  <2>. QED  BY <1>1, <1>3, <2>1 DEF QueueProgress, NoNewTask
<1>. QED  BY <1>1, <1>4, <1>6, <1>7

\* Completing a task ends it and at most wakes its parent.
LEMMA CompleteKeeps ==
  ASSUME QueueTypeOK, QueueInv, NEW t \in Tasks, NEW v \in Nat,
         tasks[t].state = "active", Complete(t, v)
  PROVE  QueueTypeOK' /\ QueueInv' /\ QueueProgress /\ NoNewTask
<1> DEFINE done == [tasks EXCEPT ![t].state = "completed",
                                 ![t].owner = NoWorker,
                                 ![t].value = v]
<1>1. done \in [Tasks -> TaskRecord]
  <2>1. ASSUME NEW r \in TaskRecord
        PROVE  [r EXCEPT !.state = "completed", !.owner = NoWorker, !.value = v]
                 \in TaskRecord
    BY DEF TaskRecord, TaskStates
  <2>2. done = [u \in Tasks |->
                  IF u = t
                  THEN [tasks[t] EXCEPT !.state = "completed", !.owner = NoWorker,
                                        !.value = v]
                  ELSE tasks[u]]
    BY DEF QueueTypeOK
  <2> HIDE DEF done
  <2>. QED  BY <2>1, <2>2 DEF QueueTypeOK
<1>2. /\ done[t] = [tasks[t] EXCEPT !.state = "completed", !.owner = NoWorker,
                                    !.value = v]
      /\ done[t].state = "completed" /\ done[t].owner = NoWorker
  <2>1. tasks[t] \in TaskRecord
    BY DEF QueueTypeOK
  <2>2. done[t] = [tasks[t] EXCEPT !.state = "completed", !.owner = NoWorker,
                                   !.value = v]
    BY DEF QueueTypeOK
  <2> HIDE DEF done
  <2>. QED  BY <2>1, <2>2 DEF TaskRecord
<1>3. \A u \in Tasks : u # t => done[u] = tasks[u]
  BY DEF QueueTypeOK
<1>4. \/ tasks' = done
      \/ /\ IsChild(t) /\ tasks[Parent(t)].state = "children"
         /\ tasks' = [done EXCEPT ![Parent(t)].state = "wait"]
  BY DEF Complete
<1> HIDE DEF done
<1>. \A u \in Tasks : tasks[u] \in TaskRecord
  BY DEF QueueTypeOK
<1>5. CASE tasks' = done
  <2>1. QueueTypeOK'
    BY <1>1, <1>5 DEF QueueTypeOK
  <2>2. QueueInv'
    BY <1>2, <1>3, <1>5 DEF QueueInv
  <2>3. QueueProgress /\ NoNewTask
    BY <1>2, <1>3, <1>5 DEF QueueProgress, NoNewTask
  <2>. QED  BY <2>1, <2>2, <2>3
<1>6. CASE /\ IsChild(t) /\ tasks[Parent(t)].state = "children"
           /\ tasks' = [done EXCEPT ![Parent(t)].state = "wait"]
  <2> DEFINE p == Parent(t)
  <2>1. p \in Tasks /\ p # t
    BY <1>6, FamilyDistinct
  <2>2. /\ tasks[p].state = "children"
        /\ tasks' = [done EXCEPT ![p].state = "wait"]
    BY <1>6
  <2> HIDE DEF p
  <2>3. tasks'[p] = [tasks[p] EXCEPT !.state = "wait"]
    BY <1>1, <1>3, <2>1, <2>2
  <2>4. tasks'[t] = done[t] /\ \A u \in Tasks : u \notin {p, t} => tasks'[u] = tasks[u]
    BY <1>1, <1>3, <2>1, <2>2
  <2>5. QueueTypeOK'
    <3>1. tasks'[p] \in TaskRecord
      BY <2>1, <2>3 DEF TaskRecord, TaskStates
    <3>2. \A u \in Tasks : tasks'[u] \in TaskRecord
      BY <1>1, <2>4, <3>1
    <3>3. tasks' = [u \in Tasks |-> tasks'[u]]
      BY <1>1, <2>2
    <3>. QED  BY <3>2, <3>3 DEF QueueTypeOK
  <2>6. /\ tasks'[t].state = "completed" /\ tasks'[t].owner = NoWorker
        /\ tasks'[p].state = "wait" /\ tasks'[p].owner = tasks[p].owner
        /\ tasks'[p].value = tasks[p].value
    <3>1. tasks[p] \in TaskRecord
      BY <2>1
    <3>. QED  BY <1>2, <2>3, <2>4, <3>1 DEF TaskRecord
  <2>7. QueueInv'
    BY <2>1, <2>2, <2>4, <2>6 DEF QueueInv
  <2>8. QueueProgress /\ NoNewTask
    BY <2>1, <2>2, <2>4, <2>6 DEF QueueProgress, NoNewTask
  <2>. QED  BY <2>5, <2>7, <2>8
<1>. QED  BY <1>4, <1>5, <1>6

\* Failing a task for good, after its owner was cleared.
LEMMA BuryKeeps ==
  ASSUME QueueTypeOK, QueueInv, NEW t \in Tasks, tasks[t].state = "active",
         NEW counted \in [Tasks -> TaskRecord],
         \A u \in Tasks : u # t => counted[u] = tasks[u],
         counted[t].owner = NoWorker, counted[t].value = tasks[t].value,
         tasks' = Bury(counted, t)
  PROVE  QueueTypeOK' /\ QueueInv' /\ QueueProgress /\ NoNewTask
<1>. \A u \in Tasks : tasks[u] \in TaskRecord /\ counted[u] \in TaskRecord
  BY DEF QueueTypeOK
<1>1. CASE IsChild(t) /\ counted[Parent(t)].state = "children"
  <2> DEFINE p == Parent(t)
  <2>1. p \in Tasks /\ p # t
    BY <1>1, FamilyDistinct
  <2>2. /\ tasks[p].state = "children"
        /\ tasks' = [counted EXCEPT ![t].state = "failed", ![p].state = "failed"]
    BY <1>1, <2>1 DEF Bury
  <2> HIDE DEF p
  <2>3. /\ tasks'[t] = [counted[t] EXCEPT !.state = "failed"]
        /\ tasks'[p] = [tasks[p] EXCEPT !.state = "failed"]
        /\ \A u \in Tasks : u \notin {t, p} => tasks'[u] = tasks[u]
    BY <2>1, <2>2
  <2>4. QueueTypeOK'
    <3>1. tasks'[t] \in TaskRecord /\ tasks'[p] \in TaskRecord
      BY <2>1, <2>3 DEF TaskRecord, TaskStates
    <3>2. \A u \in Tasks : tasks'[u] \in TaskRecord
      BY <2>3, <3>1
    <3>3. tasks' = [u \in Tasks |-> tasks'[u]]
      BY <2>2
    <3>. QED  BY <3>2, <3>3 DEF QueueTypeOK
  <2>5. /\ tasks'[t].state = "failed" /\ tasks'[t].owner = NoWorker
        /\ tasks'[t].value = tasks[t].value
    BY <2>3 DEF TaskRecord
  <2>6. /\ tasks'[p].state = "failed" /\ tasks'[p].owner = tasks[p].owner
        /\ tasks'[p].value = tasks[p].value
    BY <2>1, <2>3 DEF TaskRecord
  <2>7. QueueInv'
    BY <2>1, <2>2, <2>3, <2>5, <2>6 DEF QueueInv
  <2>8. QueueProgress /\ NoNewTask
    BY <2>1, <2>2, <2>3, <2>5, <2>6 DEF QueueProgress, NoNewTask
  <2>. QED  BY <2>4, <2>7, <2>8
<1>2. CASE ~(IsChild(t) /\ counted[Parent(t)].state = "children")
  <2>1. tasks' = [counted EXCEPT ![t].state = "failed"]
    BY <1>2 DEF Bury
  <2>2. /\ tasks'[t] = [counted[t] EXCEPT !.state = "failed"]
        /\ \A u \in Tasks : u # t => tasks'[u] = tasks[u]
    BY <2>1
  <2>3. QueueTypeOK'
    <3>1. tasks'[t] \in TaskRecord
      BY <2>2 DEF TaskRecord, TaskStates
    <3>2. \A u \in Tasks : tasks'[u] \in TaskRecord
      BY <2>2, <3>1
    <3>3. tasks' = [u \in Tasks |-> tasks'[u]]
      BY <2>1
    <3>. QED  BY <3>2, <3>3 DEF QueueTypeOK
  <2>4. /\ tasks'[t].state = "failed" /\ tasks'[t].owner = NoWorker
        /\ tasks'[t].value = tasks[t].value
    BY <2>2 DEF TaskRecord
  <2>5. QueueInv'
    <3>. SUFFICES ASSUME NEW u \in Tasks
                  PROVE  /\ tasks'[u].owner # NoWorker <=> tasks'[u].state = "active"
                         /\ tasks'[u].value # 0 => tasks'[u].state = "completed"
      BY DEF QueueInv
    <3>1. CASE u = t
      BY <2>4, <3>1 DEF QueueInv
    <3>2. CASE u # t
      BY <2>2, <3>2 DEF QueueInv
    <3>. QED  BY <3>1, <3>2
  <2>6. QueueProgress /\ NoNewTask
    BY <2>2, <2>4 DEF QueueProgress, NoNewTask
  <2>. QED  BY <2>3, <2>5, <2>6
<1>. QED  BY <1>1, <1>2

\* Putting a task back into the queue, after its owner was cleared.
LEMMA RequeueKeeps ==
  ASSUME QueueTypeOK, QueueInv, NEW t \in Tasks, tasks[t].state = "active",
         NEW counted \in [Tasks -> TaskRecord],
         \A u \in Tasks : u # t => counted[u] = tasks[u],
         counted[t].owner = NoWorker, counted[t].value = tasks[t].value,
         tasks' = [counted EXCEPT ![t].state = "wait"]
  PROVE  QueueTypeOK' /\ QueueInv' /\ QueueProgress /\ NoNewTask
<1>. \A u \in Tasks : tasks[u] \in TaskRecord /\ counted[u] \in TaskRecord
  BY DEF QueueTypeOK
<1>1. /\ tasks'[t] = [counted[t] EXCEPT !.state = "wait"]
      /\ \A u \in Tasks : u # t => tasks'[u] = tasks[u]
  OBVIOUS
<1>2. QueueTypeOK'
  <2>1. tasks'[t] \in TaskRecord
    BY <1>1 DEF TaskRecord, TaskStates
  <2>2. \A u \in Tasks : tasks'[u] \in TaskRecord
    BY <1>1, <2>1
  <2>3. tasks' = [u \in Tasks |-> tasks'[u]]
    OBVIOUS
  <2>. QED  BY <2>2, <2>3 DEF QueueTypeOK
<1>3. /\ tasks'[t].state = "wait" /\ tasks'[t].owner = NoWorker
      /\ tasks'[t].value = tasks[t].value
  BY <1>1 DEF TaskRecord
<1>4. QueueInv'
  BY <1>1, <1>3 DEF QueueInv
<1>5. QueueProgress /\ NoNewTask
  BY <1>1, <1>3 DEF QueueProgress, NoNewTask
<1>. QED  BY <1>2, <1>4, <1>5

\* What Fail and Recover write into the record of a task before they move it.
LEMMA CountedType ==
  ASSUME NEW r \in TaskRecord, NEW n \in Nat
  PROVE  /\ [r EXCEPT !.made = n, !.owner = NoWorker] \in TaskRecord
         /\ [r EXCEPT !.stalls = n, !.owner = NoWorker] \in TaskRecord
BY DEF TaskRecord

\* Failing an attempt requeues the task or fails it with its waiting parent.
LEMMA FailKeeps ==
  ASSUME QueueTypeOK, QueueInv, NEW t \in Tasks, NEW made \in Nat,
         tasks[t].state = "active", Fail(t, made)
  PROVE  QueueTypeOK' /\ QueueInv' /\ QueueProgress /\ NoNewTask
<1> DEFINE counted == [tasks EXCEPT ![t].made = made + 1, ![t].owner = NoWorker]
<1>1. /\ counted \in [Tasks -> TaskRecord]
      /\ \A u \in Tasks : u # t => counted[u] = tasks[u]
      /\ counted[t].owner = NoWorker /\ counted[t].value = tasks[t].value
  <2>1. tasks[t] \in TaskRecord
    BY DEF QueueTypeOK
  <2>2. counted[t] = [tasks[t] EXCEPT !.made = made + 1, !.owner = NoWorker]
    BY DEF QueueTypeOK
  <2>3. \A u \in Tasks : u # t => counted[u] = tasks[u]
    BY DEF QueueTypeOK
  <2>4. counted = [u \in Tasks |-> counted[u]]
    BY DEF QueueTypeOK
  <2> HIDE DEF counted
  <2>5. counted[t] \in TaskRecord
    <3>1. ASSUME NEW n \in Nat
          PROVE  [tasks[t] EXCEPT !.made = n, !.owner = NoWorker] \in TaskRecord
      BY <2>1, CountedType
    <3>2. made + 1 \in Nat
      OBVIOUS
    <3>. QED  BY <2>2, <3>1, <3>2
  <2>6. counted[t].owner = NoWorker /\ counted[t].value = tasks[t].value
    BY <2>1, <2>2 DEF TaskRecord
  <2>7. \A u \in Tasks : counted[u] \in TaskRecord
    BY <2>3, <2>5 DEF QueueTypeOK
  <2>. QED  BY <2>3, <2>4, <2>6, <2>7
<1>2. \/ tasks' = [counted EXCEPT ![t].state = "wait"]
      \/ tasks' = Bury(counted, t)
  BY DEF Fail
<1> HIDE DEF counted
<1>. QED  BY <1>1, <1>2, BuryKeeps, RequeueKeeps

\* Recovering a stalled task requeues it or fails it with its waiting parent.
LEMMA RecoverKeeps ==
  ASSUME QueueTypeOK, QueueInv, NEW t \in Tasks,
         tasks[t].state = "active", Recover(t)
  PROVE  QueueTypeOK' /\ QueueInv' /\ QueueProgress /\ NoNewTask
<1> DEFINE counted == [tasks EXCEPT ![t].stalls = @ + 1, ![t].owner = NoWorker]
<1>1. /\ counted \in [Tasks -> TaskRecord]
      /\ \A u \in Tasks : u # t => counted[u] = tasks[u]
      /\ counted[t].owner = NoWorker /\ counted[t].value = tasks[t].value
  <2>1. tasks[t] \in TaskRecord
    BY DEF QueueTypeOK
  <2>2. counted[t] = [tasks[t] EXCEPT !.stalls = tasks[t].stalls + 1,
                                      !.owner = NoWorker]
    BY DEF QueueTypeOK
  <2>3. \A u \in Tasks : u # t => counted[u] = tasks[u]
    BY DEF QueueTypeOK
  <2>4. counted = [u \in Tasks |-> counted[u]]
    BY DEF QueueTypeOK
  <2> HIDE DEF counted
  <2>5. counted[t] \in TaskRecord
    <3>1. tasks[t].stalls + 1 \in Nat
      BY <2>1 DEF TaskRecord
    <3>. QED  BY <2>1, <2>2, <3>1, CountedType
  <2>6. counted[t].owner = NoWorker /\ counted[t].value = tasks[t].value
    BY <2>1, <2>2 DEF TaskRecord
  <2>7. \A u \in Tasks : counted[u] \in TaskRecord
    BY <2>3, <2>5 DEF QueueTypeOK
  <2>. QED  BY <2>3, <2>4, <2>6, <2>7
<1>2. \/ tasks' = [counted EXCEPT ![t].state = "wait"]
      \/ tasks' = Bury(counted, t)
  BY DEF Recover
<1> HIDE DEF counted
<1>. QED  BY <1>1, <1>2, BuryKeeps, RequeueKeeps

-----------------------------------------------------------------------------
(* Which tasks a settled attempt moves.                                    *)

\* Task t is given back or failed; of the others, only a waiting parent moves.
Releases(t) ==
  /\ tasks'[t].state \in {"wait", "failed"}
  /\ \A u \in Tasks : u # t =>
       \/ tasks'[u] = tasks[u]
       \/ tasks[u].state = "children" /\ tasks'[u].state = "failed"

\* Task t is completed; of the others, only the parent of a finished family moves.
Finishes(t) ==
  /\ tasks'[t].state = "completed"
  /\ \A u \in Tasks : u # t =>
       \/ tasks'[u] = tasks[u]
       \/ /\ IsChild(t) /\ u = Parent(t) /\ tasks'[u].state = "wait"
          /\ tasks[u].state = "children" /\ tasks[Sibling(t)].state = "completed"
          /\ tasks'[u].made = tasks[u].made /\ tasks'[u].stalls = tasks[u].stalls

\* Giving back or burying a task whose count went up.
LEMMA CountedReleases ==
  ASSUME QueueTypeOK, NEW t \in Tasks, NEW counted \in [Tasks -> TaskRecord],
         \A u \in Tasks : u # t => counted[u] = tasks[u],
         tasks' = [counted EXCEPT ![t].state = "wait"] \/ tasks' = Bury(counted, t)
  PROVE  Releases(t) /\ (tasks' = Bury(counted, t) => tasks'[t].state = "failed")
<1>. \A u \in Tasks : counted[u] \in TaskRecord
  OBVIOUS
<1>1. ASSUME tasks' = [counted EXCEPT ![t].state = "wait"]
      PROVE  Releases(t) /\ tasks'[t].state = "wait"
  <2>1. /\ tasks'[t] = [counted[t] EXCEPT !.state = "wait"]
        /\ \A u \in Tasks : u # t => tasks'[u] = counted[u]
    BY <1>1
  <2>2. tasks'[t].state = "wait"
    BY <2>1 DEF TaskRecord
  <2>. QED  BY <2>1, <2>2 DEF Releases
<1>2. ASSUME tasks' = Bury(counted, t)
      PROVE  Releases(t) /\ tasks'[t].state = "failed"
  <2>1. CASE IsChild(t) /\ counted[Parent(t)].state = "children"
    <3>1. Parent(t) \in Tasks /\ Parent(t) # t
      BY <2>1, FamilyDistinct
    <3>2. tasks' = [counted EXCEPT ![t].state = "failed", ![Parent(t)].state = "failed"]
      BY <1>2, <2>1 DEF Bury
    <3>3. /\ tasks'[t] = [counted[t] EXCEPT !.state = "failed"]
          /\ tasks'[Parent(t)] = [counted[Parent(t)] EXCEPT !.state = "failed"]
          /\ \A u \in Tasks : u # t /\ u # Parent(t) => tasks'[u] = counted[u]
      BY <3>1, <3>2
    <3>4. tasks'[t].state = "failed" /\ tasks'[Parent(t)].state = "failed"
      BY <3>1, <3>3 DEF TaskRecord
    <3>. QED  BY <2>1, <3>1, <3>3, <3>4 DEF Releases
  <2>2. CASE ~(IsChild(t) /\ counted[Parent(t)].state = "children")
    <3>1. tasks' = [counted EXCEPT ![t].state = "failed"]
      BY <1>2, <2>2 DEF Bury
    <3>2. /\ tasks'[t] = [counted[t] EXCEPT !.state = "failed"]
          /\ \A u \in Tasks : u # t => tasks'[u] = counted[u]
      BY <3>1
    <3>3. tasks'[t].state = "failed"
      BY <3>2 DEF TaskRecord
    <3>. QED  BY <3>2, <3>3 DEF Releases
  <2>. QED  BY <2>1, <2>2
<1>. QED  BY <1>1, <1>2

\* A failed attempt gives its task back, and the last one fails it.
LEMMA FailReleases ==
  ASSUME QueueTypeOK, NEW t \in Tasks, NEW made \in Nat, Fail(t, made)
  PROVE  /\ Releases(t)
         /\ made + 1 >= Attempts[t.queue] => tasks'[t].state = "failed"
<1> DEFINE counted == [tasks EXCEPT ![t].made = made + 1, ![t].owner = NoWorker]
<1>1. tasks[t] \in TaskRecord /\ made + 1 \in Nat
  BY DEF QueueTypeOK
<1>2. /\ counted[t] = [tasks[t] EXCEPT !.made = made + 1, !.owner = NoWorker]
      /\ \A u \in Tasks : u # t => counted[u] = tasks[u]
      /\ counted = [u \in Tasks |-> counted[u]]
  BY DEF QueueTypeOK
<1>3. counted[t] \in TaskRecord
  BY <1>1, <1>2, CountedType
<1>4. counted \in [Tasks -> TaskRecord]
  BY <1>2, <1>3 DEF QueueTypeOK
<1>5. tasks' = IF made + 1 < Attempts[t.queue]
               THEN [counted EXCEPT ![t].state = "wait"]
               ELSE Bury(counted, t)
  BY DEF Fail
<1>6. Attempts[t.queue] \in Int
  BY TaskFields, BullMQAssumption
<1>. HIDE DEF counted
<1>7. made + 1 >= Attempts[t.queue] => tasks' = Bury(counted, t)
  BY <1>1, <1>5, <1>6
<1>8. Releases(t) /\ (tasks' = Bury(counted, t) => tasks'[t].state = "failed")
  BY <1>2, <1>4, <1>5, CountedReleases
<1>. QED  BY <1>7, <1>8

\* A stalled task is given back or failed.
LEMMA RecoverReleases ==
  ASSUME QueueTypeOK, NEW t \in Tasks, Recover(t)
  PROVE  Releases(t)
<1> DEFINE counted == [tasks EXCEPT ![t].stalls = @ + 1, ![t].owner = NoWorker]
<1>1. tasks[t] \in TaskRecord /\ tasks[t].stalls + 1 \in Nat
  BY DEF QueueTypeOK, TaskRecord
<1>2. /\ counted[t] = [tasks[t] EXCEPT !.stalls = tasks[t].stalls + 1,
                                       !.owner = NoWorker]
      /\ \A u \in Tasks : u # t => counted[u] = tasks[u]
      /\ counted = [u \in Tasks |-> counted[u]]
  BY DEF QueueTypeOK
<1>3. counted[t] \in TaskRecord
  BY <1>1, <1>2, CountedType
<1>4. counted \in [Tasks -> TaskRecord]
  BY <1>2, <1>3 DEF QueueTypeOK
<1>5. tasks' = [counted EXCEPT ![t].state = "wait"] \/ tasks' = Bury(counted, t)
  BY DEF Recover
<1>. HIDE DEF counted
<1>. QED  BY <1>2, <1>4, <1>5, CountedReleases

\* A completed task keeps its counts and may release its parent.
LEMMA CompleteFinishes ==
  ASSUME QueueTypeOK, NEW t \in Tasks, NEW v, Complete(t, v)
  PROVE  /\ Finishes(t)
         /\ tasks'[t].made = tasks[t].made /\ tasks'[t].stalls = tasks[t].stalls
<1> DEFINE done == [tasks EXCEPT ![t].state = "completed", ![t].owner = NoWorker,
                                 ![t].value = v]
<1>1. tasks \in [Tasks -> TaskRecord]
  BY DEF QueueTypeOK
<1>2. /\ done[t] = [tasks[t] EXCEPT !.state = "completed", !.owner = NoWorker,
                                    !.value = v]
      /\ \A u \in Tasks : u # t => done[u] = tasks[u]
      /\ DOMAIN done = Tasks
  BY <1>1
<1>3. \/ tasks' = done
      \/ /\ IsChild(t) /\ tasks[Sibling(t)].state = "completed"
         /\ tasks[Parent(t)].state = "children"
         /\ tasks' = [done EXCEPT ![Parent(t)].state = "wait"]
  BY DEF Complete
<1>. HIDE DEF done
<1>4. IsChild(t) => Parent(t) \in Tasks /\ Parent(t) # t
  BY FamilyDistinct
<1>5. /\ tasks'[t] = done[t]
      /\ \A u \in Tasks : u # t =>
           \/ tasks'[u] = tasks[u]
           \/ /\ IsChild(t) /\ u = Parent(t)
              /\ tasks'[u] = [tasks[u] EXCEPT !.state = "wait"]
              /\ tasks[u].state = "children" /\ tasks[Sibling(t)].state = "completed"
  BY <1>2, <1>3, <1>4
<1>6. /\ tasks'[t].state = "completed" /\ tasks'[t].made = tasks[t].made
      /\ tasks'[t].stalls = tasks[t].stalls
  BY <1>1, <1>2, <1>5 DEF TaskRecord
<1>7. ASSUME NEW u \in Tasks, tasks'[u] = [tasks[u] EXCEPT !.state = "wait"]
      PROVE  /\ tasks'[u].state = "wait" /\ tasks'[u].made = tasks[u].made
             /\ tasks'[u].stalls = tasks[u].stalls
  <2>1. tasks[u] \in TaskRecord
    BY <1>1
  <2>. QED  BY <1>7, <2>1 DEF TaskRecord
<1>. QED  BY <1>5, <1>6, <1>7 DEF Finishes

-----------------------------------------------------------------------------
(* The inductive invariant.                                                *)

\* A stem run between the separation and the flow it adds.
Staging == {"upload_drum", "upload_melody", "add_flow"}

NoFlow(j, n) == \A q \in FlowQueues : tasks[FlowTask(q, j, n)].state = "none"

\* How far a request is tells what it has stored, and that nothing is queued
\* before its last step.
RequestInv(j) ==
  /\ api[j] \in {"validate", "insert_map_job"} => mapJobs[j].status = "none"
  /\ api[j] \in ApiSteps \cup {"validate"} => tasks[StemTask(j)].state = "none"
  /\ api[j] \in ApiSteps \ {"insert_map_job"} => mapJobs[j].status # "none"
  /\ api[j] \in {"upload_original", "add_stem"} => mapJobs[j].object_key
  /\ api[j] = "add_stem" => Stored(j, "original")

\* How far a handler run is tells what it works on and what it left behind.
RunInv(w) ==
  LET r == run[w]
      t == run[w].task
  IN  /\ r.pc # "idle" => t \in Tasks /\ tasks[t].state # "none"
      /\ r.pc \in StemSteps => t.queue = "stem"
      /\ r.pc = "detect_kicks" => t.queue = "kick"
      /\ r.pc = "extract_melody" => t.queue = "melody"
      /\ r.pc \in BeatmapSteps => t.queue = "beatmap"
      /\ r.pc \in Staging =>
           /\ r.drum \in 1..MaxFlows /\ r.melody = r.drum
           /\ r.drum <= separations[t.job]
           /\ NoFlow(t.job, r.drum)
      /\ r.pc \in {"upload_melody", "add_flow"} => Stored(t.job, "drum")
      /\ r.pc = "add_flow" => Stored(t.job, "melody")
      /\ r.pc = "insert_beatmap" =>
           LET child(q) == tasks[FlowTask(q, t.job, t.flow)]
           IN  /\ child("kick").state = "completed"
               /\ child("kick").value = r.drum /\ r.drum # 0
               /\ child("melody").state = "completed"
               /\ child("melody").value = r.melody /\ r.melody # 0
      /\ r.pc = "mark_completed" =>
           /\ r.beatmap \in 1..Len(beatmaps)
           /\ beatmaps[r.beatmap].job = t.job

\* Flows are numbered by separations, and no two runs hold the same one.
FlowInv ==
  /\ \A t \in FlowTasks : tasks[t].state # "none" => t.flow <= separations[t.job]
  /\ \A b \in 1..Len(beatmaps) : beatmaps[b].flow \in 1..MaxFlows

StagingDisjoint ==
  \A v, w \in Workers :
    /\ v # w /\ run[v].pc \in Staging /\ run[w].pc \in Staging
    /\ run[v].task.job = run[w].task.job
    => run[v].drum # run[w].drum

PipelineInv ==
  /\ TypeOK
  /\ QueueInv
  /\ \A j \in Jobs : RequestInv(j)
  /\ \A w \in Workers : RunInv(w)
  /\ FlowInv
  /\ StagingDisjoint
  /\ BeatmapIdResolves
  /\ StagedBeforeQueued
  /\ MergesOwnChildren

-----------------------------------------------------------------------------
(* What every step leaves behind it: nothing stored is ever taken back.    *)

Grows ==
  /\ QueueProgress
  /\ \A j \in Jobs :
       /\ mapJobs[j].status # "none" =>
            /\ mapJobs'[j].status # "none"
            /\ mapJobs[j].object_key => mapJobs'[j].object_key
       /\ \A k \in Keys : objects[j][k] # 0 => objects'[j][k] # 0
       /\ separations[j] <= separations'[j]
  /\ Len(beatmaps) <= Len(beatmaps')
  /\ \A b \in 1..Len(beatmaps) : beatmaps'[b] = beatmaps[b]

\* A member of a flow is a task only for the numbers in use.
LEMMA FlowTaskFields ==
  ASSUME NEW q, NEW j, NEW n
  PROVE  /\ FlowTask(q, j, n).queue = q /\ FlowTask(q, j, n).job = j
         /\ FlowTask(q, j, n).flow = n
BY DEF FlowTask

\* No task is created: whatever is queued is still staged.
LEMMA StagedKept ==
  ASSUME TypeOK, StagedBeforeQueued, Grows, NoNewTask
  PROVE  StagedBeforeQueued'
<1>. SUFFICES ASSUME NEW t \in Tasks, tasks'[t].state # "none"
              PROVE  /\ mapJobs'[t.job].status # "none" /\ mapJobs'[t.job].object_key
                     /\ objects'[t.job]["original"] # 0
                     /\ t.queue # "stem" =>
                          objects'[t.job]["drum"] # 0 /\ objects'[t.job]["melody"] # 0
  BY DEF StagedBeforeQueued, Stored
<1>1. tasks[t].state # "none" /\ t.job \in Jobs
  BY TaskFields DEF NoNewTask
<1>2. /\ mapJobs[t.job].status # "none" /\ mapJobs[t.job].object_key
      /\ objects[t.job]["original"] # 0
      /\ t.queue # "stem" =>
           objects[t.job]["drum"] # 0 /\ objects[t.job]["melody"] # 0
  BY <1>1 DEF StagedBeforeQueued, Stored
<1>. QED  BY <1>1, <1>2 DEF Grows, Keys

\* No beatmap is inserted: the ones there keep their two children.
LEMMA MergesKept ==
  ASSUME TypeOK, MergesOwnChildren, FlowInv, Grows, UNCHANGED beatmaps
  PROVE  MergesOwnChildren'
<1>. SUFFICES ASSUME NEW b \in 1..Len(beatmaps), NEW q \in {"kick", "melody"}
              PROVE  LET c == FlowTask(q, beatmaps[b].job, beatmaps[b].flow)
                     IN  tasks'[c] = tasks[c]
  BY DEF MergesOwnChildren
<1> DEFINE c == FlowTask(q, beatmaps[b].job, beatmaps[b].flow)
<1>1. beatmaps[b].job \in Jobs /\ beatmaps[b].flow \in 1..MaxFlows
  <2>1. beatmaps[b] \in BeatmapDoc
    BY DEF TypeOK, RepositoryTypeOK
  <2>. QED  BY <2>1 DEF BeatmapDoc, FlowInv
<1>2. c \in Tasks
  BY <1>1, FlowTaskType DEF FlowQueues
<1>3. tasks[c].state = "completed"
  BY DEF MergesOwnChildren
<1>. HIDE DEF c
<1>4. tasks'[c] = tasks[c]
  BY <1>2, <1>3 DEF Grows, QueueProgress
<1>. QED  BY <1>4 DEF c

\* No job document changes: beatmap ids still resolve.
LEMMA ResolvesKept ==
  ASSUME TypeOK, TypeOK', BeatmapIdResolves, Grows, UNCHANGED mapJobs
  PROVE  BeatmapIdResolves'
<1>. SUFFICES ASSUME NEW j \in Jobs, mapJobs[j].beatmap_id # 0
              PROVE  LET b == mapJobs[j].beatmap_id
                     IN  b \in 1..Len(beatmaps') /\ beatmaps'[b] = beatmaps[b]
  BY DEF BeatmapIdResolves
<1>1. mapJobs[j].beatmap_id \in 1..Len(beatmaps)
  BY DEF BeatmapIdResolves
<1>2. Len(beatmaps) \in Nat /\ Len(beatmaps') >= Len(beatmaps)
  BY DEF Grows, TypeOK, RepositoryTypeOK
<1>. QED  BY <1>1, <1>2 DEF Grows

\* The request of a job goes on as it was while handlers run.
LEMMA RequestKept ==
  ASSUME TypeOK, NEW j \in Jobs, RequestInv(j), Grows, UNCHANGED api,
         mapJobs[j].status = "none" => mapJobs'[j].status = "none",
         tasks[StemTask(j)].state = "none" => tasks'[StemTask(j)].state = "none"
  PROVE  RequestInv(j)'
BY DEF RequestInv, Grows, Stored, Keys, ApiSteps

\* A run that does not move keeps what it knows, if its flow stays free.
LEMMA RunKept ==
  ASSUME TypeOK, TypeOK', NEW w \in Workers, RunInv(w), Grows,
         run'[w] = run[w],
         run[w].pc \in Staging => NoFlow(run[w].task.job, run[w].drum)'
  PROVE  RunInv(w)'
<1> DEFINE r == run[w]
           t == run[w].task
<1>1. CASE r.pc = "idle"
  BY <1>1 DEF RunInv, StemSteps, BeatmapSteps, Staging
<1>2. CASE r.pc # "idle"
  <2>1. t \in Tasks /\ tasks[t].state # "none" /\ tasks'[t].state # "none"
    BY <1>2 DEF RunInv, Grows, QueueProgress
  <2>2. t.job \in Jobs
    BY <2>1, TaskFields
  <2>3. /\ r.pc \in StemSteps => t.queue = "stem"
        /\ r.pc = "detect_kicks" => t.queue = "kick"
        /\ r.pc = "extract_melody" => t.queue = "melody"
        /\ r.pc \in BeatmapSteps => t.queue = "beatmap"
    BY DEF RunInv
  <2>4. r.pc \in Staging =>
          /\ r.drum \in 1..MaxFlows /\ r.melody = r.drum
          /\ r.drum <= separations'[t.job]
          /\ NoFlow(t.job, r.drum)'
    <3>. SUFFICES ASSUME r.pc \in Staging
                  PROVE  /\ r.drum \in 1..MaxFlows /\ r.melody = r.drum
                         /\ r.drum <= separations'[t.job]
      OBVIOUS
    <3>1. /\ r.drum \in 1..MaxFlows /\ r.melody = r.drum
          /\ r.drum <= separations[t.job]
      BY DEF RunInv
    <3>2. separations[t.job] <= separations'[t.job]
      BY <2>2 DEF Grows
    <3>3. separations[t.job] \in Nat /\ separations'[t.job] \in Nat
      BY <2>2 DEF TypeOK
    <3>. QED  BY <3>1, <3>2, <3>3, BullMQAssumption
  <2>5. /\ r.pc \in {"upload_melody", "add_flow"} => objects'[t.job]["drum"] # 0
        /\ r.pc = "add_flow" => objects'[t.job]["melody"] # 0
    BY <2>2 DEF RunInv, Grows, Stored, Keys
  <2>6. ASSUME r.pc = "insert_beatmap", NEW q \in {"kick", "melody"}
        PROVE  tasks'[FlowTask(q, t.job, t.flow)] = tasks[FlowTask(q, t.job, t.flow)]
    <3>1. t.queue = "beatmap"
      BY <2>3, <2>6 DEF BeatmapSteps
    <3>2. t.flow \in 1..MaxFlows
      BY <2>1, <3>1, TaskFields
    <3>3. FlowTask(q, t.job, t.flow) \in Tasks
      BY <2>2, <3>2, FlowTaskType DEF FlowQueues
    <3>4. tasks[FlowTask(q, t.job, t.flow)].state = "completed"
      BY <2>6 DEF RunInv
    <3>. QED  BY <3>3, <3>4 DEF Grows, QueueProgress
  <2>7. r.pc = "mark_completed" =>
          /\ r.beatmap \in 1..Len(beatmaps')
          /\ beatmaps'[r.beatmap].job = t.job
    <3>1. Len(beatmaps) \in Nat /\ Len(beatmaps') \in Nat /\ Len(beatmaps) <= Len(beatmaps')
      BY DEF Grows, TypeOK, RepositoryTypeOK
    <3>. QED  BY <3>1 DEF Grows, RunInv
  <2>8. r.pc = "insert_beatmap" =>
          LET child(q) == tasks'[FlowTask(q, t.job, t.flow)]
          IN  /\ child("kick").state = "completed"
              /\ child("kick").value = r.drum /\ r.drum # 0
              /\ child("melody").state = "completed"
              /\ child("melody").value = r.melody /\ r.melody # 0
    BY <2>6 DEF RunInv
  <2>. QED  BY <2>1, <2>3, <2>4, <2>5, <2>7, <2>8 DEF RunInv, Stored
<1>. QED  BY <1>1, <1>2

-----------------------------------------------------------------------------
(* Steps of one handler run.                                               *)

\* A step of worker w that creates no task keeps the invariant, provided what
\* it leaves w with does, and the parts about beatmaps do.
LEMMA RunMoves ==
  ASSUME PipelineInv, TypeOK', QueueInv', Grows, NoNewTask, UNCHANGED api,
         NEW w \in Workers,
         \A v \in Workers \ {w} : run'[v] = run[v],
         \A j \in Jobs : mapJobs[j].status = "none" => mapJobs'[j].status = "none",
         RunInv(w)',
         run'[w].pc \in Staging =>
           /\ run[w].pc \in Staging
           /\ run'[w].task = run[w].task /\ run'[w].drum = run[w].drum,
         \A b \in 1..Len(beatmaps') : beatmaps'[b].flow \in 1..MaxFlows,
         BeatmapIdResolves', MergesOwnChildren'
  PROVE  PipelineInv'
<1>1. StagedBeforeQueued'
  BY StagedKept DEF PipelineInv
<1>2. \A j \in Jobs : RequestInv(j)'
  <2>. TAKE j \in Jobs
  <2>1. tasks[StemTask(j)].state = "none" => tasks'[StemTask(j)].state = "none"
    BY StemTaskType DEF NoNewTask
  <2>. QED  BY <2>1, RequestKept DEF PipelineInv
<1>3. \A v \in Workers : RunInv(v)'
  <2>. SUFFICES ASSUME NEW v \in Workers, v # w
                PROVE  RunInv(v)'
    OBVIOUS
  <2>1. run[v].pc \in Staging => NoFlow(run[v].task.job, run[v].drum)'
    <3>. SUFFICES ASSUME run[v].pc \in Staging, NEW q \in FlowQueues
                  PROVE  tasks'[FlowTask(q, run[v].task.job, run[v].drum)].state = "none"
      BY DEF NoFlow
    <3>1. /\ run[v].task \in Tasks /\ run[v].drum \in 1..MaxFlows
          /\ tasks[FlowTask(q, run[v].task.job, run[v].drum)].state = "none"
      BY DEF PipelineInv, RunInv, Staging, NoFlow
    <3>2. FlowTask(q, run[v].task.job, run[v].drum) \in Tasks
      BY <3>1, TaskFields, FlowTaskType
    <3>. QED  BY <3>1, <3>2 DEF NoNewTask
  <2>. QED  BY <2>1, RunKept DEF PipelineInv
<1>4. FlowInv'
  <2>. SUFFICES ASSUME NEW t \in FlowTasks, tasks'[t].state # "none"
                PROVE  t.flow <= separations'[t.job]
    BY DEF FlowInv
  <2>1. t \in Tasks /\ t.job \in Jobs /\ t.flow \in Nat
    BY TaskFields DEF Tasks
  <2>2. t.flow <= separations[t.job]
    BY <2>1 DEF PipelineInv, FlowInv, NoNewTask
  <2>3. separations[t.job] <= separations'[t.job]
    BY <2>1 DEF Grows
  <2>4. separations[t.job] \in Nat /\ separations'[t.job] \in Nat
    BY <2>1 DEF PipelineInv, TypeOK
  <2>. QED  BY <2>1, <2>2, <2>3, <2>4
<1>5. StagingDisjoint'
  <2>. SUFFICES ASSUME NEW u \in Workers, NEW v \in Workers, u # v,
                       run'[u].pc \in Staging, run'[v].pc \in Staging,
                       run'[u].task.job = run'[v].task.job
                PROVE  run'[u].drum # run'[v].drum
    BY DEF StagingDisjoint
  <2>1. /\ run[u].pc \in Staging /\ run[u].task = run'[u].task
        /\ run[u].drum = run'[u].drum
    OBVIOUS
  <2>2. /\ run[v].pc \in Staging /\ run[v].task = run'[v].task
        /\ run[v].drum = run'[v].drum
    OBVIOUS
  <2>. QED  BY <2>1, <2>2 DEF PipelineInv, StagingDisjoint
<1>. QED  BY <1>1, <1>2, <1>3, <1>4, <1>5 DEF PipelineInv

\* The parts about beatmaps hold by themselves where MongoDB is left alone.
LEMMA QuietRunMoves ==
  ASSUME PipelineInv, TypeOK', QueueInv', Grows, NoNewTask,
         UNCHANGED <<api, mapJobs, beatmaps>>,
         NEW w \in Workers,
         \A v \in Workers \ {w} : run'[v] = run[v],
         RunInv(w)',
         run'[w].pc \in Staging =>
           /\ run[w].pc \in Staging
           /\ run'[w].task = run[w].task /\ run'[w].drum = run[w].drum
  PROVE  PipelineInv'
<1>1. BeatmapIdResolves'
  BY ResolvesKept DEF PipelineInv
<1>2. MergesOwnChildren'
  BY MergesKept DEF PipelineInv
<1>3. \A b \in 1..Len(beatmaps') : beatmaps'[b].flow \in 1..MaxFlows
  BY DEF PipelineInv, FlowInv
<1>4. \A j \in Jobs : mapJobs[j].status = "none" => mapJobs'[j].status = "none"
  OBVIOUS
<1>. QED  BY <1>1, <1>2, <1>3, <1>4, RunMoves

\* An exception sends a run to one of the two steps after it.
LEMMA OnErrorType ==
  ASSUME NEW w \in Workers
  PROVE  OnError(w) \in {"mark_failed", "raise"}
BY DEF OnError

\* Where an awaited call leaves its run.
LEMMA ResumeStep ==
  ASSUME TypeOK, NEW w \in Workers, NEW local \in RunRecord, NEW next \in RunPC,
         Resume(w, local, next)
  PROVE  /\ run' \in [Workers -> RunRecord]
         /\ \A v \in Workers \ {w} : run'[v] = run[v]
         /\ \E pc \in {next, "mark_failed", "raise"} :
              run'[w] = [local EXCEPT !.pc = pc]
<1>1. PICK pc \in {next, "mark_failed", "raise"} :
        run' = [run EXCEPT ![w] = [local EXCEPT !.pc = pc]]
  BY OnErrorType DEF Resume
<1>2. pc \in RunPC
  BY DEF RunPC
<1>3. [local EXCEPT !.pc = pc] \in RunRecord
  BY <1>2 DEF RunRecord
<1>. QED  BY <1>1, <1>3 DEF TypeOK

\* A run that only goes on to fail or to return keeps its task and needs
\* nothing more.
LEMMA RunEnds ==
  ASSUME TypeOK, NEW w \in Workers, RunInv(w), run[w].pc # "idle", Grows,
         run'[w].task = run[w].task,
         run'[w].pc \in {"mark_failed", "raise", "return"}
  PROVE  RunInv(w)' /\ run'[w].pc \notin Staging
BY DEF RunInv, Grows, QueueProgress, StemSteps, BeatmapSteps, Staging

\* A run that became idle is bound to nothing.
LEMMA IdleRun ==
  ASSUME NEW w \in Workers, run'[w] = Idle
  PROVE  RunInv(w)' /\ run'[w].pc \notin Staging
BY DEF RunInv, Idle, StemSteps, BeatmapSteps, Staging

\* The record of an idle worker is well typed.
LEMMA IdleType == Idle \in RunRecord
BY DEF Idle, RunRecord, RunPC

\* A step that leaves the stores and the queues alone takes nothing back.
LEMMA LocalStep ==
  ASSUME TypeOK, UNCHANGED <<tasks, mapJobs, beatmaps, objects, separations>>
  PROVE  Grows /\ NoNewTask
BY DEF Grows, NoNewTask, QueueProgress, TypeOK, RepositoryTypeOK

\* A step of the queues alone, which keeps completed tasks, takes nothing back.
LEMMA QueueStep ==
  ASSUME TypeOK, QueueProgress, UNCHANGED <<mapJobs, beatmaps, objects, separations>>
  PROVE  Grows
BY DEF Grows, TypeOK, RepositoryTypeOK

\* The state and type parts of a step that moves only run[w], and says where.
LEMMA RunTypeKept ==
  ASSUME TypeOK, NEW w \in Workers, NEW r \in RunRecord,
         run' = [run EXCEPT ![w] = r],
         UNCHANGED <<tasks, mapJobs, beatmaps, objects, api, separations>>
  PROVE  /\ TypeOK' /\ run'[w] = r
         /\ \A v \in Workers \ {w} : run'[v] = run[v]
BY DEF TypeOK, QueueTypeOK, RepositoryTypeOK, StorageTypeOK

\* An exception only moves the run that met it.
LEMMA RaiseInv ==
  ASSUME PipelineInv, NEW w \in Workers, Raise(w)
  PROVE  PipelineInv'
<1> DEFINE r == [run[w] EXCEPT !.pc = OnError(w)]
<1>1. run[w] \in RunRecord /\ run[w].pc # "idle"
  BY DEF PipelineInv, TypeOK, Raise, HandlerSteps, StemSteps, BeatmapSteps
<1>2. OnError(w) \in {"mark_failed", "raise"}
  BY OnErrorType
<1>3. r \in RunRecord /\ r.task = run[w].task /\ r.pc \in {"mark_failed", "raise"}
  BY <1>1, <1>2 DEF RunRecord, RunPC
<1>4. run' = [run EXCEPT ![w] = r]
  BY DEF Raise
<1> HIDE DEF r
<1>5. /\ TypeOK' /\ run'[w] = r /\ QueueInv'
      /\ \A v \in Workers \ {w} : run'[v] = run[v]
      /\ Grows /\ NoNewTask
  <2>1. UNCHANGED <<tasks, mapJobs, beatmaps, objects, api, separations>>
    BY DEF Raise
  <2>. QED  BY <1>3, <1>4, <2>1, RunTypeKept, LocalStep DEF PipelineInv, QueueInv
<1>6. RunInv(w)' /\ run'[w].pc \notin Staging
  BY <1>1, <1>3, <1>5, RunEnds DEF PipelineInv
<1>. QED  BY <1>5, <1>6, QuietRunMoves DEF Raise

\* A worker that dies forgets its run and changes no store.
LEMMA CrashInv ==
  ASSUME PipelineInv, NEW w \in Workers, Crash(w)
  PROVE  PipelineInv'
<1>1. /\ run' = [run EXCEPT ![w] = Idle]
      /\ UNCHANGED <<tasks, mapJobs, beatmaps, objects, api, separations>>
  BY DEF Crash
<1>2. /\ TypeOK' /\ run'[w] = Idle /\ QueueInv'
      /\ \A v \in Workers \ {w} : run'[v] = run[v]
      /\ Grows /\ NoNewTask
  BY <1>1, IdleType, RunTypeKept, LocalStep DEF PipelineInv, QueueInv
<1>3. RunInv(w)' /\ run'[w].pc \notin Staging
  BY <1>2, IdleRun
<1>. QED  BY <1>1, <1>2, <1>3, QuietRunMoves

\* Detecting kicks reads the stores and writes only the run.
LEMMA DetectKicksInv ==
  ASSUME PipelineInv, NEW w \in Workers, DetectKicks(w)
  PROVE  PipelineInv'
<1> DEFINE d == objects[run[w].task.job]["drum"]
           r == [run[w] EXCEPT !.pc = "return", !.drum = d]
<1>1. run[w] \in RunRecord /\ run[w].pc = "detect_kicks" /\ run[w].task \in Tasks
  BY DEF PipelineInv, TypeOK, DetectKicks, RunInv
<1>2. d \in Nat
  BY <1>1, TaskFields DEF PipelineInv, TypeOK, StorageTypeOK, Keys
<1>3. run' = [run EXCEPT ![w] = r]
  BY DEF DetectKicks
<1> HIDE DEF d
<1>4. r \in RunRecord /\ r.task = run[w].task /\ r.pc = "return"
  BY <1>1, <1>2 DEF RunRecord, RunPC
<1> HIDE DEF r
<1>5. UNCHANGED <<tasks, mapJobs, beatmaps, objects, api, separations>>
  BY DEF DetectKicks
<1>6. /\ TypeOK' /\ run'[w] = r /\ QueueInv'
      /\ \A v \in Workers \ {w} : run'[v] = run[v]
      /\ Grows /\ NoNewTask
  BY <1>3, <1>4, <1>5, RunTypeKept, LocalStep DEF PipelineInv, QueueInv
<1>7. RunInv(w)' /\ run'[w].pc \notin Staging
  BY <1>1, <1>4, <1>6, RunEnds DEF PipelineInv
<1>. QED  BY <1>5, <1>6, <1>7, QuietRunMoves

\* Extracting the melody reads the stores and writes only the run.
LEMMA ExtractMelodyInv ==
  ASSUME PipelineInv, NEW w \in Workers, ExtractMelody(w)
  PROVE  PipelineInv'
<1> DEFINE m == objects[run[w].task.job]["melody"]
           r == [run[w] EXCEPT !.pc = "return", !.melody = m]
<1>1. run[w] \in RunRecord /\ run[w].pc = "extract_melody" /\ run[w].task \in Tasks
  BY DEF PipelineInv, TypeOK, ExtractMelody, RunInv
<1>2. m \in Nat
  BY <1>1, TaskFields DEF PipelineInv, TypeOK, StorageTypeOK, Keys
<1>3. run' = [run EXCEPT ![w] = r]
  BY DEF ExtractMelody
<1> HIDE DEF m
<1>4. r \in RunRecord /\ r.task = run[w].task /\ r.pc = "return"
  BY <1>1, <1>2 DEF RunRecord, RunPC
<1> HIDE DEF r
<1>5. UNCHANGED <<tasks, mapJobs, beatmaps, objects, api, separations>>
  BY DEF ExtractMelody
<1>6. /\ TypeOK' /\ run'[w] = r /\ QueueInv'
      /\ \A v \in Workers \ {w} : run'[v] = run[v]
      /\ Grows /\ NoNewTask
  BY <1>3, <1>4, <1>5, RunTypeKept, LocalStep DEF PipelineInv, QueueInv
<1>7. RunInv(w)' /\ run'[w].pc \notin Staging
  BY <1>1, <1>4, <1>6, RunEnds DEF PipelineInv
<1>. QED  BY <1>5, <1>6, <1>7, QuietRunMoves

\* A run that got both results knows that both children completed: a value is
\* only there once its task is.
LEMMA GetChildrenInv ==
  ASSUME PipelineInv, NEW w \in Workers, GetChildren(w)
  PROVE  PipelineInv'
<1> DEFINE t == run[w].task
           kick == tasks[FlowTask("kick", t.job, t.flow)]
           melody == tasks[FlowTask("melody", t.job, t.flow)]
           r == [run[w] EXCEPT !.pc = "insert_beatmap", !.drum = kick.value,
                               !.melody = melody.value]
<1>1. run[w] \in RunRecord /\ run[w].pc = "get_children"
  BY DEF PipelineInv, TypeOK, GetChildren
<1>2. t \in Tasks /\ tasks[t].state # "none" /\ t.queue = "beatmap"
  BY <1>1 DEF PipelineInv, RunInv, BeatmapSteps
<1>3. /\ FlowTask("kick", t.job, t.flow) \in Tasks
      /\ FlowTask("melody", t.job, t.flow) \in Tasks
  BY <1>2, TaskFields, FlowTaskType DEF FlowQueues
<1>4. kick \in TaskRecord /\ melody \in TaskRecord
  BY <1>3 DEF PipelineInv, TypeOK, QueueTypeOK
<1>5. kick.value # 0 /\ melody.value # 0 /\ run' = [run EXCEPT ![w] = r]
  BY DEF GetChildren
<1>6. kick.state = "completed" /\ melody.state = "completed"
  BY <1>3, <1>5 DEF PipelineInv, QueueInv
<1>7. UNCHANGED <<tasks, mapJobs, beatmaps, objects, api, separations>>
  BY DEF GetChildren
<1>8. /\ r \in RunRecord /\ r.task = t /\ r.pc = "insert_beatmap"
      /\ r.drum = kick.value /\ r.melody = melody.value
  <2>1. kick.value \in Nat /\ melody.value \in Nat
    BY <1>4 DEF TaskRecord
  <2> HIDE DEF kick, melody
  <2>. QED  BY <1>1, <2>1 DEF RunRecord, RunPC, HandlerSteps, BeatmapSteps
<1> HIDE DEF r
<1>9. /\ TypeOK' /\ run'[w] = r /\ QueueInv'
      /\ \A v \in Workers \ {w} : run'[v] = run[v]
      /\ Grows /\ NoNewTask
  BY <1>5, <1>7, <1>8, RunTypeKept, LocalStep DEF PipelineInv, QueueInv
<1>10. RunInv(w)' /\ run'[w].pc \notin Staging
  BY <1>2, <1>5, <1>6, <1>7, <1>8, <1>9
  DEF RunInv, StemSteps, BeatmapSteps, Staging
<1>. QED  BY <1>7, <1>9, <1>10, QuietRunMoves

-----------------------------------------------------------------------------
(* Steps that settle or pick up a task.                                    *)

\* Picking up a task starts a run at the first step of its queue.
LEMMA StartInv ==
  ASSUME PipelineInv, NEW w \in Workers, Start(w)
  PROVE  PipelineInv'
<1>1. PICK t \in Tasks : /\ t.queue = WorkerQueue[w] /\ Lock(t, w)
                         /\ run' = [run EXCEPT ![w] = Started(t)]
  BY DEF Start
<1>2. UNCHANGED <<mapJobs, beatmaps, objects, api, separations>>
  BY DEF Start
<1>3. /\ QueueTypeOK' /\ QueueInv' /\ QueueProgress /\ NoNewTask
      /\ tasks[t].state # "none"
  BY <1>1, LockKeeps DEF PipelineInv, TypeOK
<1>4. Grows
  BY <1>2, <1>3, QueueStep DEF PipelineInv
<1>5. t.queue \in Queues /\ tasks[t] \in TaskRecord
  BY TaskFields DEF PipelineInv, TypeOK, QueueTypeOK
<1>6. Started(t) \in RunRecord
  BY <1>5 DEF Started, RunRecord, RunPC, FirstStep, HandlerSteps, StemSteps,
              BeatmapSteps, Queues, FlowQueues, TaskRecord
<1>7. TypeOK'
  BY <1>1, <1>2, <1>3, <1>6 DEF PipelineInv, TypeOK, RepositoryTypeOK, StorageTypeOK
<1>8. run'[w] = Started(t) /\ \A v \in Workers \ {w} : run'[v] = run[v]
  BY <1>1 DEF PipelineInv, TypeOK
<1>9. Started(t).task = t /\ Started(t).pc = FirstStep(t.queue)
  BY DEF Started
<1>10. tasks'[t].state # "none"
  BY <1>3 DEF QueueProgress
<1>11. \/ t.queue = "stem" /\ FirstStep(t.queue) = "mark_processing"
       \/ t.queue = "kick" /\ FirstStep(t.queue) = "detect_kicks"
       \/ t.queue = "melody" /\ FirstStep(t.queue) = "extract_melody"
       \/ t.queue = "beatmap" /\ FirstStep(t.queue) = "get_children"
  BY <1>5 DEF FirstStep, Queues, FlowQueues
<1>12. RunInv(w)' /\ run'[w].pc \notin Staging
  BY <1>8, <1>9, <1>10, <1>11 DEF RunInv, StemSteps, BeatmapSteps, Staging
<1>. QED  BY <1>2, <1>3, <1>4, <1>7, <1>8, <1>12, QuietRunMoves

\* What Return and Reraise have in common: the run ends, the task may move.
LEMMA RunOver ==
  ASSUME PipelineInv, NEW w \in Workers, run' = [run EXCEPT ![w] = Idle],
         UNCHANGED <<mapJobs, beatmaps, objects, api, separations>>,
         QueueTypeOK', QueueInv', QueueProgress, NoNewTask
  PROVE  PipelineInv'
<1>1. Grows
  BY QueueStep DEF PipelineInv
<1>2. TypeOK' /\ run'[w] = Idle /\ \A v \in Workers \ {w} : run'[v] = run[v]
  BY IdleType DEF PipelineInv, TypeOK, RepositoryTypeOK, StorageTypeOK
<1>3. RunInv(w)' /\ run'[w].pc \notin Staging
  BY <1>2, IdleRun
<1>. QED  BY <1>1, <1>2, <1>3, QuietRunMoves

\* Queues that stay as they are make the progress asked of every step.
LEMMA QueueUnchanged ==
  ASSUME QueueTypeOK, QueueInv, UNCHANGED tasks
  PROVE  QueueTypeOK' /\ QueueInv' /\ QueueProgress /\ NoNewTask
BY DEF QueueTypeOK, QueueInv, QueueProgress, NoNewTask

\* The task whose lock a run holds is active.
LEMMA OwnedActive ==
  ASSUME PipelineInv, NEW w \in Workers, run[w].pc # "idle",
         tasks[run[w].task].owner = w
  PROVE  run[w].task \in Tasks /\ tasks[run[w].task].state = "active"
<1>1. run[w].task \in Tasks
  BY DEF PipelineInv, RunInv
<1>2. w # NoWorker
  BY BullMQAssumption
<1>. QED  BY <1>1, <1>2 DEF PipelineInv, QueueInv

\* A run that returns completes its task, or is refused.
LEMMA ReturnInv ==
  ASSUME PipelineInv, NEW w \in Workers, Return(w)
  PROVE  PipelineInv'
<1>1. /\ run[w].pc = "return" /\ run' = [run EXCEPT ![w] = Idle]
      /\ UNCHANGED <<mapJobs, beatmaps, objects, api, separations>>
  BY DEF Return
<1>2. QueueTypeOK' /\ QueueInv' /\ QueueProgress /\ NoNewTask
  <2>1. CASE tasks[run[w].task].owner = w
    <3>1. Complete(run[w].task, Result(w))
      BY <2>1 DEF Return
    <3>2. run[w].task \in Tasks /\ tasks[run[w].task].state = "active"
      BY <1>1, <2>1, OwnedActive
    <3>3. run[w] \in RunRecord
      BY DEF PipelineInv, TypeOK
    <3>4. Result(w) \in Nat
      BY <3>3 DEF Result, RunRecord
    <3>. QED  BY <3>1, <3>2, <3>4, CompleteKeeps DEF PipelineInv, TypeOK
  <2>2. CASE tasks[run[w].task].owner # w
    <3>1. UNCHANGED tasks
      BY <2>2 DEF Return
    <3>. QED  BY <3>1, QueueUnchanged DEF PipelineInv, TypeOK
  <2>. QED  BY <2>1, <2>2
<1>. QED  BY <1>1, <1>2, RunOver

\* A run that raises fails its task, or is refused.
LEMMA ReraiseInv ==
  ASSUME PipelineInv, NEW w \in Workers, Reraise(w)
  PROVE  PipelineInv'
<1>1. /\ run[w].pc = "raise" /\ run' = [run EXCEPT ![w] = Idle]
      /\ UNCHANGED <<mapJobs, beatmaps, objects, api, separations>>
  BY DEF Reraise
<1>2. QueueTypeOK' /\ QueueInv' /\ QueueProgress /\ NoNewTask
  <2>1. CASE tasks[run[w].task].owner = w
    <3>1. Fail(run[w].task, run[w].made)
      BY <2>1 DEF Reraise
    <3>2. run[w].task \in Tasks /\ tasks[run[w].task].state = "active"
      BY <1>1, <2>1, OwnedActive
    <3>3. run[w].made \in Nat
      BY DEF PipelineInv, TypeOK, RunRecord
    <3>. QED  BY <3>1, <3>2, <3>3, FailKeeps DEF PipelineInv, TypeOK
  <2>2. CASE tasks[run[w].task].owner # w
    <3>1. UNCHANGED tasks
      BY <2>2 DEF Reraise
    <3>. QED  BY <3>1, QueueUnchanged DEF PipelineInv, TypeOK
  <2>. QED  BY <2>1, <2>2
<1>. QED  BY <1>1, <1>2, RunOver

\* The stalled checker moves no run.
LEMMA StallInv ==
  ASSUME PipelineInv, NEW t \in Tasks, Stall(t)
  PROVE  PipelineInv'
<1>1. /\ tasks[t].state = "active" /\ Recover(t)
      /\ UNCHANGED <<mapJobs, beatmaps, objects, api, run, separations>>
  BY DEF Stall
<1>2. QueueTypeOK' /\ QueueInv' /\ QueueProgress /\ NoNewTask
  BY <1>1, RecoverKeeps DEF PipelineInv, TypeOK
<1>3. Grows
  BY <1>1, <1>2, QueueStep DEF PipelineInv
<1>4. TypeOK'
  BY <1>1, <1>2 DEF PipelineInv, TypeOK, RepositoryTypeOK, StorageTypeOK
<1>5. BeatmapIdResolves' /\ MergesOwnChildren' /\ StagedBeforeQueued'
  BY <1>1, <1>2, <1>3, <1>4, ResolvesKept, MergesKept, StagedKept DEF PipelineInv
<1>6. \A j \in Jobs : RequestInv(j)'
  <2>. TAKE j \in Jobs
  <2>1. tasks[StemTask(j)].state = "none" => tasks'[StemTask(j)].state = "none"
    BY <1>2, StemTaskType DEF NoNewTask
  <2>. QED  BY <1>1, <1>3, <2>1, RequestKept DEF PipelineInv
<1>7. \A v \in Workers : RunInv(v)'
  <2>. TAKE v \in Workers
  <2>1. run[v].pc \in Staging => NoFlow(run[v].task.job, run[v].drum)'
    <3>. SUFFICES ASSUME run[v].pc \in Staging, NEW q \in FlowQueues
                  PROVE  tasks'[FlowTask(q, run[v].task.job, run[v].drum)].state = "none"
      BY <1>1 DEF NoFlow
    <3>1. /\ run[v].task \in Tasks /\ run[v].drum \in 1..MaxFlows
          /\ tasks[FlowTask(q, run[v].task.job, run[v].drum)].state = "none"
      BY DEF PipelineInv, RunInv, Staging, NoFlow
    <3>2. FlowTask(q, run[v].task.job, run[v].drum) \in Tasks
      BY <3>1, TaskFields, FlowTaskType
    <3>. QED  BY <1>2, <3>1, <3>2 DEF NoNewTask
  <2>. QED  BY <1>1, <1>3, <1>4, <2>1, RunKept DEF PipelineInv
<1>8. FlowInv' /\ StagingDisjoint'
  BY <1>1, <1>2 DEF PipelineInv, FlowInv, StagingDisjoint, NoNewTask, Tasks
<1>. QED  BY <1>2, <1>4, <1>5, <1>6, <1>7, <1>8 DEF PipelineInv

-----------------------------------------------------------------------------
(* Steps that write a job document.                                        *)

\* The job a run works on has its document.
LEMMA JobInserted ==
  ASSUME PipelineInv, NEW w \in Workers, run[w].pc # "idle"
  PROVE  /\ run[w].task \in Tasks /\ run[w].task.job \in Jobs
         /\ mapJobs[run[w].task.job].status # "none"
         /\ Stored(run[w].task.job, "original")
BY TaskFields DEF PipelineInv, RunInv, StagedBeforeQueued

\* What the steps that update one job document have in common.
LEMMA DocStep ==
  ASSUME TypeOK, TypeOK', UNCHANGED <<tasks, beatmaps, objects, separations>>,
         \A j \in Jobs : mapJobs[j].status # "none" =>
                          /\ mapJobs'[j].status # "none"
                          /\ mapJobs[j].object_key => mapJobs'[j].object_key
  PROVE  Grows /\ NoNewTask
BY DEF Grows, NoNewTask, QueueProgress, TypeOK, RepositoryTypeOK

\* Marking a job processing takes it neither its object key nor its beatmap.
LEMMA MarkProcessingInv ==
  ASSUME PipelineInv, NEW w \in Workers, MarkProcessing(w)
  PROVE  PipelineInv'
<1> DEFINE j == run[w].task.job
<1>1. /\ run[w].pc = "mark_processing" /\ run[w] \in RunRecord
      /\ Resume(w, run[w], "download")
      /\ mapJobs' = [mapJobs EXCEPT ![j].status = "processing"]
      /\ UNCHANGED <<tasks, beatmaps, objects, api, separations>>
  BY DEF MarkProcessing, mark_job_processing, PipelineInv, TypeOK
<1>2. run[w].task \in Tasks /\ j \in Jobs /\ mapJobs[j].status # "none"
  BY <1>1, JobInserted
<1> HIDE DEF j
<1>3. mapJobs \in [Jobs -> MapJobDoc]
  BY DEF PipelineInv, TypeOK, RepositoryTypeOK
<1>4. /\ mapJobs'[j] = [mapJobs[j] EXCEPT !.status = "processing"]
      /\ \A i \in Jobs : i # j => mapJobs'[i] = mapJobs[i]
      /\ mapJobs' = [i \in Jobs |-> mapJobs'[i]]
  BY <1>1, <1>2, <1>3
<1>5. /\ mapJobs'[j] \in MapJobDoc /\ mapJobs'[j].status = "processing"
      /\ mapJobs'[j].object_key = mapJobs[j].object_key
      /\ mapJobs'[j].beatmap_id = mapJobs[j].beatmap_id
  BY <1>2, <1>3, <1>4 DEF MapJobDoc, Status
<1>6. "download" \in RunPC
  BY DEF RunPC, HandlerSteps, StemSteps
<1>7. /\ run' \in [Workers -> RunRecord]
      /\ \A v \in Workers \ {w} : run'[v] = run[v]
      /\ \E pc \in {"download", "mark_failed", "raise"} :
           run'[w] = [run[w] EXCEPT !.pc = pc]
  BY <1>1, <1>6, ResumeStep DEF PipelineInv
<1>8. mapJobs' \in [Jobs -> MapJobDoc]
  <2>1. \A i \in Jobs : mapJobs'[i] \in MapJobDoc
    BY <1>3, <1>4, <1>5
  <2>. QED  BY <1>4, <2>1
<1>9. TypeOK' /\ QueueInv'
  BY <1>1, <1>7, <1>8 DEF PipelineInv, TypeOK, QueueTypeOK, RepositoryTypeOK,
                          StorageTypeOK, QueueInv
<1>10. Grows /\ NoNewTask
  BY <1>1, <1>2, <1>4, <1>5, <1>9, DocStep DEF PipelineInv
<1>11. RunInv(w)' /\ run'[w].pc \notin Staging
  <2>1. PICK pc \in {"download", "mark_failed", "raise"} :
          run'[w].pc = pc /\ run'[w].task = run[w].task
    BY <1>1, <1>7 DEF RunRecord
  <2>2. run[w].task.queue = "stem" /\ tasks[run[w].task].state # "none"
    BY <1>1 DEF PipelineInv, RunInv, StemSteps
  <2>. QED  BY <1>1, <1>2, <2>1, <2>2 DEF RunInv, StemSteps, BeatmapSteps, Staging
<1>12. BeatmapIdResolves'
  BY <1>1, <1>4, <1>5 DEF PipelineInv, BeatmapIdResolves
<1>13. MergesOwnChildren'
  BY <1>1, <1>10, MergesKept DEF PipelineInv
<1>14. \A b \in 1..Len(beatmaps') : beatmaps'[b].flow \in 1..MaxFlows
  BY <1>1 DEF PipelineInv, FlowInv
<1>15. \A i \in Jobs : mapJobs[i].status = "none" => mapJobs'[i].status = "none"
  BY <1>2, <1>4
<1>. QED  BY <1>1, <1>7, <1>9, <1>10, <1>11, <1>12, <1>13, <1>14, <1>15, RunMoves

\* What mark_job_failed writes into a document.
LEMMA FailedDoc ==
  ASSUME NEW d \in MapJobDoc
  PROVE  LET e == [d EXCEPT !.status = "failed", !.error = TRUE]
         IN  /\ e \in MapJobDoc /\ e.status = "failed"
             /\ e.object_key = d.object_key /\ e.beatmap_id = d.beatmap_id
BY DEF MapJobDoc, Status

\* Marking a job failed takes it neither its object key nor its beatmap.
LEMMA MarkFailedInv ==
  ASSUME PipelineInv, NEW w \in Workers, MarkFailed(w)
  PROVE  PipelineInv'
<1> DEFINE j == run[w].task.job
           r == [run[w] EXCEPT !.pc = "raise"]
<1>1. /\ run[w].pc = "mark_failed" /\ run[w] \in RunRecord
      /\ run' = [run EXCEPT ![w] = r]
      /\ UNCHANGED <<tasks, beatmaps, objects, api, separations>>
  BY DEF MarkFailed, mark_job_failed, PipelineInv, TypeOK
<1>2. run[w].task \in Tasks /\ j \in Jobs /\ mapJobs[j].status # "none"
  BY <1>1, JobInserted
<1>3. r \in RunRecord /\ r.pc = "raise" /\ r.task = run[w].task
  BY <1>1 DEF RunRecord, RunPC
<1>4. \/ UNCHANGED mapJobs
      \/ mapJobs' = [mapJobs EXCEPT ![j].status = "failed", ![j].error = TRUE]
  BY DEF MarkFailed, mark_job_failed
<1> HIDE DEF j, r
<1>5. mapJobs \in [Jobs -> MapJobDoc]
  BY DEF PipelineInv, TypeOK, RepositoryTypeOK
<1>6. /\ mapJobs'[j] \in MapJobDoc /\ mapJobs'[j].status # "none"
      /\ mapJobs'[j].object_key = mapJobs[j].object_key
      /\ mapJobs'[j].beatmap_id = mapJobs[j].beatmap_id
      /\ mapJobs'[j].status = "completed" => mapJobs[j].status = "completed"
      /\ \A i \in Jobs : i # j => mapJobs'[i] = mapJobs[i]
      /\ mapJobs' = [i \in Jobs |-> mapJobs'[i]]
  <2>1. CASE UNCHANGED mapJobs
    BY <1>2, <1>5, <2>1
  <2>2. CASE mapJobs' = [mapJobs EXCEPT ![j].status = "failed", ![j].error = TRUE]
    <3>1. /\ mapJobs'[j] = [mapJobs[j] EXCEPT !.status = "failed", !.error = TRUE]
          /\ \A i \in Jobs : i # j => mapJobs'[i] = mapJobs[i]
          /\ mapJobs' = [i \in Jobs |-> mapJobs'[i]]
      BY <1>2, <1>5, <2>2
    <3>2. mapJobs[j] \in MapJobDoc
      BY <1>2, <1>5
    <3>3. /\ mapJobs'[j] \in MapJobDoc /\ mapJobs'[j].status = "failed"
          /\ mapJobs'[j].object_key = mapJobs[j].object_key
          /\ mapJobs'[j].beatmap_id = mapJobs[j].beatmap_id
      BY <3>1, <3>2, FailedDoc
    <3>. QED  BY <3>1, <3>3
  <2>. QED  BY <1>4, <2>1, <2>2
<1>7. mapJobs' \in [Jobs -> MapJobDoc]
  <2>1. \A i \in Jobs : mapJobs'[i] \in MapJobDoc
    BY <1>5, <1>6
  <2>. QED  BY <1>6, <2>1
<1>8. /\ run' \in [Workers -> RunRecord] /\ run'[w] = r
      /\ \A v \in Workers \ {w} : run'[v] = run[v]
  BY <1>1, <1>3 DEF PipelineInv, TypeOK
<1>9. TypeOK' /\ QueueInv'
  BY <1>1, <1>7, <1>8 DEF PipelineInv, TypeOK, QueueTypeOK, RepositoryTypeOK,
                          StorageTypeOK, QueueInv
<1>10. Grows /\ NoNewTask
  BY <1>1, <1>2, <1>6, <1>9, DocStep DEF PipelineInv
<1>11. RunInv(w)' /\ run'[w].pc \notin Staging
  BY <1>1, <1>3, <1>8, <1>10, RunEnds DEF PipelineInv
<1>12. BeatmapIdResolves'
  BY <1>1, <1>6 DEF PipelineInv, BeatmapIdResolves
<1>13. MergesOwnChildren'
  BY <1>1, <1>10, MergesKept DEF PipelineInv
<1>14. \A b \in 1..Len(beatmaps') : beatmaps'[b].flow \in 1..MaxFlows
  BY <1>1 DEF PipelineInv, FlowInv
<1>15. \A i \in Jobs : mapJobs[i].status = "none" => mapJobs'[i].status = "none"
  BY <1>2, <1>6
<1>. QED  BY <1>1, <1>8, <1>9, <1>10, <1>11, <1>12, <1>13, <1>14, <1>15, RunMoves

\* What mark_job_completed writes into a document.
LEMMA CompletedDoc ==
  ASSUME NEW d \in MapJobDoc, NEW b \in Nat
  PROVE  LET e == [d EXCEPT !.status = "completed", !.beatmap_id = b]
         IN  /\ e \in MapJobDoc /\ e.status = "completed" /\ e.beatmap_id = b
             /\ e.object_key = d.object_key
BY DEF MapJobDoc, Status

\* The beatmap a job is completed with was inserted by the same run, for the
\* same job.
LEMMA MarkCompletedInv ==
  ASSUME PipelineInv, NEW w \in Workers, MarkCompleted(w)
  PROVE  PipelineInv'
<1> DEFINE j == run[w].task.job
           b == run[w].beatmap
<1>1. /\ run[w].pc = "mark_completed" /\ run[w] \in RunRecord
      /\ Resume(w, run[w], "return")
      /\ mapJobs' = [mapJobs EXCEPT ![j].status = "completed", ![j].beatmap_id = b]
      /\ UNCHANGED <<tasks, beatmaps, objects, api, separations>>
  BY DEF MarkCompleted, mark_job_completed, PipelineInv, TypeOK
<1>2. run[w].task \in Tasks /\ j \in Jobs /\ mapJobs[j].status # "none"
  BY <1>1, JobInserted
<1>3. b \in 1..Len(beatmaps) /\ beatmaps[b].job = j /\ b # 0 /\ b \in Nat
  <2>1. b \in 1..Len(beatmaps) /\ beatmaps[b].job = j
    BY <1>1 DEF PipelineInv, RunInv
  <2>2. Len(beatmaps) \in Nat
    BY DEF PipelineInv, TypeOK, RepositoryTypeOK
  <2>. QED  BY <2>1, <2>2
<1> HIDE DEF j, b
<1>4. mapJobs \in [Jobs -> MapJobDoc]
  BY DEF PipelineInv, TypeOK, RepositoryTypeOK
<1>5. /\ mapJobs'[j] = [mapJobs[j] EXCEPT !.status = "completed", !.beatmap_id = b]
      /\ \A i \in Jobs : i # j => mapJobs'[i] = mapJobs[i]
      /\ mapJobs' = [i \in Jobs |-> mapJobs'[i]]
  BY <1>1, <1>2, <1>4
<1>6. /\ mapJobs'[j] \in MapJobDoc /\ mapJobs'[j].status = "completed"
      /\ mapJobs'[j].object_key = mapJobs[j].object_key
      /\ mapJobs'[j].beatmap_id = b
  <2>1. mapJobs[j] \in MapJobDoc /\ b \in Nat
    BY <1>2, <1>3, <1>4
  <2> DEFINE e == [mapJobs[j] EXCEPT !.status = "completed", !.beatmap_id = b]
  <2>2. /\ e \in MapJobDoc /\ e.status = "completed" /\ e.beatmap_id = b
        /\ e.object_key = mapJobs[j].object_key
    BY <2>1, CompletedDoc
  <2>3. mapJobs'[j] = e
    BY <1>5
  <2> HIDE DEF e
  <2>. QED  BY <2>2, <2>3
<1>7. mapJobs' \in [Jobs -> MapJobDoc]
  <2>1. \A i \in Jobs : mapJobs'[i] \in MapJobDoc
    BY <1>4, <1>5, <1>6
  <2>. QED  BY <1>5, <2>1
<1>8. "return" \in RunPC
  BY DEF RunPC
<1>9. /\ run' \in [Workers -> RunRecord]
      /\ \A v \in Workers \ {w} : run'[v] = run[v]
      /\ \E pc \in {"return", "mark_failed", "raise"} :
           run'[w] = [run[w] EXCEPT !.pc = pc]
  BY <1>1, <1>8, ResumeStep DEF PipelineInv
<1>10. TypeOK' /\ QueueInv'
  BY <1>1, <1>7, <1>9 DEF PipelineInv, TypeOK, QueueTypeOK, RepositoryTypeOK,
                          StorageTypeOK, QueueInv
<1>11. Grows /\ NoNewTask
  BY <1>1, <1>2, <1>5, <1>6, <1>10, DocStep DEF PipelineInv
<1>12. RunInv(w)' /\ run'[w].pc \notin Staging
  <2>1. /\ run'[w].pc \in {"return", "mark_failed", "raise"}
        /\ run'[w].task = run[w].task
    BY <1>1, <1>9 DEF RunRecord
  <2>. QED  BY <1>1, <1>11, <2>1, RunEnds DEF PipelineInv
<1>13. BeatmapIdResolves'
  BY <1>1, <1>3, <1>5, <1>6 DEF PipelineInv, BeatmapIdResolves
<1>14. MergesOwnChildren'
  BY <1>1, <1>11, MergesKept DEF PipelineInv
<1>15. \A a \in 1..Len(beatmaps') : beatmaps'[a].flow \in 1..MaxFlows
  BY <1>1 DEF PipelineInv, FlowInv
<1>16. \A i \in Jobs : mapJobs[i].status = "none" => mapJobs'[i].status = "none"
  BY <1>2, <1>5
<1>. QED  BY <1>1, <1>9, <1>10, <1>11, <1>12, <1>13, <1>14, <1>15, <1>16, RunMoves

-----------------------------------------------------------------------------
(* Steps of the stem handler after the separation.                         *)

\* An upload replaces one object and removes none.
LEMMA UploadKeeps ==
  ASSUME TypeOK, NEW j \in Jobs, NEW k \in Keys, NEW n \in Nat \ {0},
         upload(j, k, n), UNCHANGED <<tasks, mapJobs, beatmaps, separations>>
  PROVE  /\ StorageTypeOK' /\ Grows /\ NoNewTask
         /\ objects'[j][k] # 0
<1>1. objects' = [objects EXCEPT ![j][k] = n] /\ objects \in [Jobs -> [Keys -> Nat]]
  BY DEF upload, TypeOK, StorageTypeOK
<1>2. StorageTypeOK'
  BY <1>1 DEF StorageTypeOK
<1>3. objects'[j][k] = n
  BY <1>1
<1>4. \A i \in Jobs, l \in Keys : objects[i][l] # 0 => objects'[i][l] # 0
  <2>. SUFFICES ASSUME NEW i \in Jobs, NEW l \in Keys
                PROVE  objects'[i][l] \in {objects[i][l], n}
    OBVIOUS
  <2>. QED  BY <1>1
<1>. QED  BY <1>2, <1>3, <1>4
          DEF Grows, NoNewTask, QueueProgress, TypeOK, RepositoryTypeOK

\* Uploading the drum stem keeps the flow of the run free.
LEMMA UploadDrumInv ==
  ASSUME PipelineInv, NEW w \in Workers, UploadDrum(w)
  PROVE  PipelineInv'
<1> DEFINE j == run[w].task.job
           n == run[w].drum
<1>1. /\ run[w].pc = "upload_drum" /\ run[w] \in RunRecord
      /\ upload(j, "drum", n)
      /\ Resume(w, run[w], "upload_melody")
      /\ UNCHANGED <<tasks, mapJobs, beatmaps, api, separations>>
  BY DEF UploadDrum, PipelineInv, TypeOK
<1>2. run[w].task \in Tasks /\ j \in Jobs /\ tasks[run[w].task].state # "none"
  BY <1>1, JobInserted DEF PipelineInv, RunInv
<1>3. /\ run[w].task.queue = "stem" /\ n \in 1..MaxFlows /\ run[w].melody = n
      /\ n <= separations[j] /\ NoFlow(j, n)
  BY <1>1 DEF PipelineInv, RunInv, StemSteps, Staging
<1>4. n \in Nat \ {0}
  BY <1>3, BullMQAssumption
<1> HIDE DEF j
<1>5. StorageTypeOK' /\ Grows /\ NoNewTask /\ objects'[j]["drum"] # 0
  BY <1>1, <1>2, <1>4, UploadKeeps DEF PipelineInv, Keys
<1>6. "upload_melody" \in RunPC
  BY DEF RunPC, HandlerSteps, StemSteps
<1>7. /\ run' \in [Workers -> RunRecord]
      /\ \A v \in Workers \ {w} : run'[v] = run[v]
      /\ \E pc \in {"upload_melody", "mark_failed", "raise"} :
           run'[w] = [run[w] EXCEPT !.pc = pc]
  BY <1>1, <1>6, ResumeStep DEF PipelineInv
<1>8. TypeOK' /\ QueueInv'
  BY <1>1, <1>5, <1>7 DEF PipelineInv, TypeOK, QueueTypeOK, RepositoryTypeOK,
                          QueueInv
<1>9. /\ run'[w].pc \in {"upload_melody", "mark_failed", "raise"}
      /\ run'[w].task = run[w].task /\ run'[w].drum = n /\ run'[w].melody = n
  BY <1>1, <1>3, <1>7 DEF RunRecord
<1>10. RunInv(w)'
  <2>1. /\ \A q \in FlowQueues : tasks'[FlowTask(q, j, n)].state = "none"
        /\ n <= separations'[j]
    BY <1>1, <1>3 DEF NoFlow
  <2>2. run'[w].task.job = j /\ tasks' = tasks
    BY <1>1, <1>9 DEF j
  <2>. QED  BY <1>2, <1>3, <1>5, <1>9, <2>1, <2>2
            DEF RunInv, StemSteps, BeatmapSteps, Staging, Stored, NoFlow
<1>11. run[w].pc \in Staging
  BY <1>1 DEF Staging
<1>. QED  BY <1>1, <1>5, <1>7, <1>8, <1>9, <1>10, <1>11, QuietRunMoves

\* Uploading the melody stem leaves both stems stored.
LEMMA UploadMelodyInv ==
  ASSUME PipelineInv, NEW w \in Workers, UploadMelody(w)
  PROVE  PipelineInv'
<1> DEFINE j == run[w].task.job
           n == run[w].drum
<1>1. /\ run[w].pc = "upload_melody" /\ run[w] \in RunRecord
      /\ upload(j, "melody", run[w].melody)
      /\ Resume(w, run[w], "add_flow")
      /\ UNCHANGED <<tasks, mapJobs, beatmaps, api, separations>>
  BY DEF UploadMelody, PipelineInv, TypeOK
<1>2. run[w].task \in Tasks /\ j \in Jobs /\ tasks[run[w].task].state # "none"
  BY <1>1, JobInserted DEF PipelineInv, RunInv
<1>3. /\ run[w].task.queue = "stem" /\ n \in 1..MaxFlows /\ run[w].melody = n
      /\ n <= separations[j] /\ NoFlow(j, n) /\ objects[j]["drum"] # 0
  BY <1>1 DEF PipelineInv, RunInv, StemSteps, Staging, Stored
<1>4. n \in Nat \ {0} /\ upload(j, "melody", n)
  BY <1>1, <1>3, BullMQAssumption
<1> HIDE DEF j
<1>5. StorageTypeOK' /\ Grows /\ NoNewTask /\ objects'[j]["melody"] # 0
  BY <1>1, <1>2, <1>4, UploadKeeps DEF PipelineInv, Keys
<1>6. "add_flow" \in RunPC
  BY DEF RunPC, HandlerSteps, StemSteps
<1>7. /\ run' \in [Workers -> RunRecord]
      /\ \A v \in Workers \ {w} : run'[v] = run[v]
      /\ \E pc \in {"add_flow", "mark_failed", "raise"} :
           run'[w] = [run[w] EXCEPT !.pc = pc]
  BY <1>1, <1>6, ResumeStep DEF PipelineInv
<1>8. TypeOK' /\ QueueInv'
  BY <1>1, <1>5, <1>7 DEF PipelineInv, TypeOK, QueueTypeOK, RepositoryTypeOK,
                          QueueInv
<1>9. /\ run'[w].pc \in {"add_flow", "mark_failed", "raise"}
      /\ run'[w].task = run[w].task /\ run'[w].drum = n /\ run'[w].melody = n
  BY <1>1, <1>3, <1>7 DEF RunRecord
<1>10. RunInv(w)'
  <2>1. /\ \A q \in FlowQueues : tasks'[FlowTask(q, j, n)].state = "none"
        /\ n <= separations'[j] /\ objects'[j]["drum"] # 0
    BY <1>1, <1>2, <1>3, <1>5 DEF NoFlow, Grows, Keys
  <2>2. run'[w].task.job = j /\ tasks' = tasks
    BY <1>1, <1>9 DEF j
  <2>. QED  BY <1>2, <1>3, <1>5, <1>9, <2>1, <2>2
            DEF RunInv, StemSteps, BeatmapSteps, Staging, Stored, NoFlow
<1>11. run[w].pc \in Staging
  BY <1>1 DEF Staging
<1>. QED  BY <1>1, <1>5, <1>7, <1>8, <1>9, <1>10, <1>11, QuietRunMoves

\* A separation takes a number above all those in use.
LEMMA SeparateInv ==
  ASSUME PipelineInv, NEW w \in Workers, Separate(w)
  PROVE  PipelineInv'
<1> DEFINE j == run[w].task.job
           n == separations[j] + 1
           r == [run[w] EXCEPT !.pc = "upload_drum", !.drum = n, !.melody = n]
<1>1. /\ run[w].pc = "download" /\ run[w] \in RunRecord /\ n <= MaxFlows
      /\ separations' = [separations EXCEPT ![j] = n]
      /\ UNCHANGED <<tasks, mapJobs, beatmaps, objects, api>>
  BY DEF Separate, PipelineInv, TypeOK
<1>2. run' = [run EXCEPT ![w] = r]
  BY DEF Separate, PipelineInv, TypeOK
<1>3. /\ run[w].task \in Tasks /\ j \in Jobs /\ tasks[run[w].task].state # "none"
      /\ run[w].task.queue = "stem"
  BY <1>1, JobInserted DEF PipelineInv, RunInv, StemSteps
<1>4. separations \in [Jobs -> Nat] /\ separations[j] \in Nat /\ n \in 1..MaxFlows
  BY <1>1, <1>3, BullMQAssumption DEF PipelineInv, TypeOK
<1>5. /\ separations'[j] = n /\ separations' \in [Jobs -> Nat]
      /\ \A i \in Jobs : i # j => separations'[i] = separations[i]
      /\ \A i \in Jobs : separations[i] <= separations'[i]
  BY <1>1, <1>3, <1>4
<1>6. n \in Nat /\ n > separations[j]
  BY <1>4
<1> HIDE DEF n
<1>7. /\ r \in RunRecord /\ r.task = run[w].task /\ r.pc = "upload_drum"
      /\ r.drum = n /\ r.melody = n
  BY <1>1, <1>6 DEF RunRecord, RunPC, HandlerSteps, StemSteps
<1> HIDE DEF r
<1>8. /\ run'[w] = r /\ run' \in [Workers -> RunRecord]
      /\ \A v \in Workers : v # w => run'[v] = run[v]
  BY <1>2, <1>7 DEF PipelineInv, TypeOK
<1>9. TypeOK' /\ QueueInv'
  BY <1>1, <1>5, <1>8 DEF PipelineInv, TypeOK, QueueTypeOK, RepositoryTypeOK,
                          StorageTypeOK, QueueInv
<1>10. Grows /\ NoNewTask
  BY <1>1, <1>5, <1>9 DEF Grows, NoNewTask, QueueProgress, PipelineInv, TypeOK,
                          RepositoryTypeOK
<1>11. ASSUME NEW q \in FlowQueues
       PROVE  tasks'[FlowTask(q, j, n)].state = "none"
  <2>1. FlowTask(q, j, n) \in FlowTasks
    BY <1>3, <1>4, FlowTaskType
  <2>2. FlowTask(q, j, n).job = j /\ FlowTask(q, j, n).flow = n
    BY DEF FlowTask
  <2>3. ~(n <= separations[j])
    BY <1>4, <1>6
  <2>. QED  BY <1>1, <2>1, <2>2, <2>3 DEF PipelineInv, FlowInv
<1>12. \A v \in Workers : RunInv(v)'
  <2>1. RunInv(w)'
    <3>1. run'[w].task.job = j /\ n <= separations'[j]
      BY <1>5, <1>6, <1>7, <1>8
    <3>. QED  BY <1>1, <1>3, <1>4, <1>7, <1>8, <1>11, <3>1
              DEF RunInv, StemSteps, BeatmapSteps, Staging, NoFlow
  <2>2. ASSUME NEW v \in Workers, v # w PROVE RunInv(v)'
    <3>1. run[v].pc \in Staging => NoFlow(run[v].task.job, run[v].drum)'
      BY <1>1, <1>8, <2>2 DEF NoFlow, PipelineInv, RunInv
    <3>. QED  BY <1>8, <1>9, <1>10, <2>2, <3>1, RunKept DEF PipelineInv
  <2>. QED  BY <2>1, <2>2
<1>13. StagingDisjoint'
  <2>1. ASSUME NEW v \in Workers, v # w, run'[v].pc \in Staging,
               run'[v].task.job = j
        PROVE  run'[v].drum # n
    <3>1. run[v].drum <= separations[j] /\ run[v].drum \in 1..MaxFlows
      BY <1>8, <2>1 DEF PipelineInv, RunInv
    <3>. QED  BY <1>4, <1>6, <1>8, <2>1, <3>1, BullMQAssumption
  <2>2. ASSUME NEW u \in Workers, NEW v \in Workers, u # w, v # w, u # v,
               run'[u].pc \in Staging, run'[v].pc \in Staging,
               run'[u].task.job = run'[v].task.job
        PROVE  run'[u].drum # run'[v].drum
    BY <1>8, <2>2 DEF PipelineInv, StagingDisjoint
  <2>3. run'[w].task.job = j /\ run'[w].drum = n
    BY <1>7, <1>8
  <2>. QED  BY <2>1, <2>2, <2>3 DEF StagingDisjoint
<1>14. FlowInv'
  <2>. SUFFICES ASSUME NEW t \in FlowTasks, tasks[t].state # "none"
                PROVE  t.flow <= separations'[t.job]
    BY <1>1 DEF FlowInv, PipelineInv
  <2>1. t \in Tasks /\ t.job \in Jobs /\ t.flow \in Nat
    BY TaskFields DEF Tasks
  <2>2. t.flow <= separations[t.job] /\ separations[t.job] <= separations'[t.job]
    BY <1>5, <2>1 DEF PipelineInv, FlowInv
  <2>. QED  BY <1>4, <1>5, <2>1, <2>2
<1>15. StagedBeforeQueued' /\ BeatmapIdResolves' /\ MergesOwnChildren'
  BY <1>1, <1>9, <1>10, StagedKept, ResolvesKept, MergesKept DEF PipelineInv
<1>16. \A i \in Jobs : RequestInv(i)'
  BY <1>1, <1>10, RequestKept DEF PipelineInv
<1>. QED  BY <1>9, <1>12, <1>13, <1>14, <1>15, <1>16 DEF PipelineInv

\* The flow of a run is new, and everything its tasks read is stored.
LEMMA EnqueueFlowInv ==
  ASSUME PipelineInv, NEW w \in Workers, EnqueueFlow(w)
  PROVE  PipelineInv'
<1> DEFINE j == run[w].task.job
           n == run[w].drum
           InFlow(t) == \E q \in FlowQueues : t = FlowTask(q, j, n)
<1>1. /\ run[w].pc = "add_flow" /\ run[w] \in RunRecord
      /\ AddFlow(j, n)
      /\ Resume(w, run[w], "return")
      /\ UNCHANGED <<mapJobs, beatmaps, objects, api, separations>>
  BY DEF EnqueueFlow, PipelineInv, TypeOK
<1>2. run[w].task \in Tasks /\ j \in Jobs /\ tasks[run[w].task].state # "none"
  BY <1>1, JobInserted DEF PipelineInv, RunInv
<1>3. /\ n \in 1..MaxFlows /\ n <= separations[j] /\ NoFlow(j, n)
      /\ Stored(j, "drum") /\ Stored(j, "melody")
  BY <1>1 DEF PipelineInv, RunInv, Staging
<1> HIDE DEF j, n
<1>4. /\ QueueTypeOK' /\ QueueInv' /\ QueueProgress
      /\ \A t \in Tasks : ~InFlow(t) => tasks'[t] = tasks[t]
  BY <1>1, <1>2, <1>3, AddFlowKeeps DEF PipelineInv, TypeOK, NoFlow
<1>5. Grows
  BY <1>1, <1>4, QueueStep DEF PipelineInv
<1>6. "return" \in RunPC
  BY DEF RunPC
<1>7. /\ run' \in [Workers -> RunRecord]
      /\ \A v \in Workers \ {w} : run'[v] = run[v]
      /\ \E pc \in {"return", "mark_failed", "raise"} :
           run'[w] = [run[w] EXCEPT !.pc = pc]
  BY <1>1, <1>6, ResumeStep DEF PipelineInv
<1>8. TypeOK'
  BY <1>1, <1>4, <1>7 DEF PipelineInv, TypeOK, RepositoryTypeOK, StorageTypeOK
<1>9. \A t : InFlow(t) => t.queue # "stem" /\ t.job = j /\ t.flow = n
  BY DEF FlowTask, FlowQueues
<1>10. StagedBeforeQueued'
  <2>. SUFFICES ASSUME NEW t \in Tasks, tasks'[t].state # "none"
                PROVE  /\ mapJobs[t.job].status # "none" /\ mapJobs[t.job].object_key
                       /\ Stored(t.job, "original")
                       /\ t.queue # "stem" =>
                            Stored(t.job, "drum") /\ Stored(t.job, "melody")
    BY <1>1 DEF StagedBeforeQueued, Stored
  <2>1. CASE InFlow(t)
    <3>1. run[w].task.job = j
      BY DEF j
    <3>. QED  BY <1>2, <1>3, <1>9, <2>1, <3>1 DEF PipelineInv, StagedBeforeQueued
  <2>2. CASE ~InFlow(t)
    BY <1>4, <2>2 DEF PipelineInv, StagedBeforeQueued
  <2>. QED  BY <2>1, <2>2
<1>11. \A i \in Jobs : RequestInv(i)'
  <2>. TAKE i \in Jobs
  <2>1. StemTask(i) \in Tasks /\ ~InFlow(StemTask(i))
    BY <1>9, StemTaskType DEF StemTask
  <2>2. tasks'[StemTask(i)] = tasks[StemTask(i)]
    BY <1>4, <2>1
  <2>. QED  BY <1>1, <1>5, <2>2, RequestKept DEF PipelineInv
<1>12. run'[w].pc \in {"return", "mark_failed", "raise"} /\ run'[w].task = run[w].task
  BY <1>1, <1>7 DEF RunRecord
<1>13. RunInv(w)' /\ run'[w].pc \notin Staging
  BY <1>1, <1>5, <1>12, RunEnds DEF PipelineInv
<1>14. ASSUME NEW v \in Workers, v # w PROVE RunInv(v)'
  <2>1. ASSUME run[v].pc \in Staging, NEW q \in FlowQueues
        PROVE  tasks'[FlowTask(q, run[v].task.job, run[v].drum)].state = "none"
    <3> DEFINE t == FlowTask(q, run[v].task.job, run[v].drum)
    <3>1. /\ run[v].task \in Tasks /\ run[v].drum \in 1..MaxFlows
          /\ tasks[t].state = "none"
      BY <2>1 DEF PipelineInv, RunInv, Staging, NoFlow
    <3>2. t \in Tasks
      BY <3>1, TaskFields, FlowTaskType
    <3>3. run[v].task.job = j => run[v].drum # n
      BY <1>1, <1>14, <2>1 DEF PipelineInv, StagingDisjoint, Staging, j, n
    <3>4. t.job = run[v].task.job /\ t.flow = run[v].drum
      BY DEF FlowTask
    <3> HIDE DEF t
    <3>5. ~InFlow(t)
      BY <1>9, <3>3, <3>4
    <3>. QED  BY <1>4, <3>1, <3>2, <3>5 DEF t
  <2>2. run[v].pc \in Staging => NoFlow(run[v].task.job, run[v].drum)'
    BY <1>7, <1>14, <2>1 DEF NoFlow
  <2>. QED  BY <1>5, <1>7, <1>8, <1>14, <2>2, RunKept DEF PipelineInv
<1>15. FlowInv'
  <2>. SUFFICES ASSUME NEW t \in FlowTasks, tasks'[t].state # "none"
                PROVE  t.flow <= separations[t.job]
    BY <1>1 DEF FlowInv, PipelineInv
  <2>1. CASE InFlow(t)
    BY <1>3, <1>9, <2>1
  <2>2. CASE ~InFlow(t)
    BY <1>4, <2>2 DEF PipelineInv, FlowInv, Tasks
  <2>. QED  BY <2>1, <2>2
<1>16. StagingDisjoint'
  BY <1>7, <1>13 DEF PipelineInv, StagingDisjoint
<1>17. BeatmapIdResolves' /\ MergesOwnChildren'
  BY <1>1, <1>5, <1>8, ResolvesKept, MergesKept DEF PipelineInv
<1>. QED  BY <1>4, <1>8, <1>10, <1>11, <1>13, <1>14, <1>15, <1>16, <1>17
          DEF PipelineInv

-----------------------------------------------------------------------------
(* MapJobService.finalize_beatmap.                                         *)

\* The new beatmap is appended: it merges the two results the run holds, and no
\* older beatmap changes.
LEMMA InsertBeatmapInv ==
  ASSUME PipelineInv, NEW w \in Workers, InsertBeatmap(w)
  PROVE  PipelineInv'
<1>0. PICK now \in Clock : insert_beatmap(NewBeatmap(w, now))
  BY DEF InsertBeatmap
<1> DEFINE t == run[w].task
           doc == NewBeatmap(w, now)
           id == Len(beatmaps) + 1
           local == [run[w] EXCEPT !.beatmap = id]
<1>1. /\ run[w].pc = "insert_beatmap" /\ run[w] \in RunRecord
      /\ beatmaps' = Append(beatmaps, doc)
      /\ Resume(w, local, "mark_completed")
      /\ UNCHANGED <<tasks, mapJobs, objects, api, separations>>
  BY <1>0 DEF InsertBeatmap, insert_beatmap, PipelineInv, TypeOK
<1>2. t \in Tasks /\ t.queue = "beatmap" /\ t.job \in Jobs /\ t.flow \in 1..MaxFlows
  BY <1>1, TaskFields DEF PipelineInv, RunInv, BeatmapSteps
<1>3. /\ tasks[FlowTask("kick", t.job, t.flow)].state = "completed"
      /\ tasks[FlowTask("kick", t.job, t.flow)].value = run[w].drum
      /\ tasks[FlowTask("melody", t.job, t.flow)].state = "completed"
      /\ tasks[FlowTask("melody", t.job, t.flow)].value = run[w].melody
      /\ run[w].drum \in Nat \ {0} /\ run[w].melody \in Nat \ {0}
  BY <1>1 DEF PipelineInv, RunInv, RunRecord
<1>4. /\ doc.job = t.job /\ doc.flow = t.flow
      /\ doc.drum = run[w].drum /\ doc.melody = run[w].melody
      /\ doc \in BeatmapDoc
  BY <1>2, <1>3, BullMQAssumption DEF NewBeatmap, BeatmapDoc
<1> HIDE DEF doc
<1>5. /\ Len(beatmaps) \in Nat /\ beatmaps' \in Seq(BeatmapDoc)
      /\ Len(beatmaps') = id /\ beatmaps'[id] = doc
      /\ \A b \in 1..Len(beatmaps) : beatmaps'[b] = beatmaps[b]
      /\ 1..Len(beatmaps') = 1..Len(beatmaps) \cup {id}
      /\ id \in Nat
  BY <1>1, <1>4 DEF PipelineInv, TypeOK, RepositoryTypeOK
<1> HIDE DEF id
<1>6. local \in RunRecord /\ local.task = t /\ local.beatmap = id
  BY <1>1, <1>5 DEF RunRecord
<1> HIDE DEF local
<1>7. "mark_completed" \in RunPC
  BY DEF RunPC, HandlerSteps, BeatmapSteps
<1>8. /\ run' \in [Workers -> RunRecord]
      /\ \A v \in Workers \ {w} : run'[v] = run[v]
      /\ \E pc \in {"mark_completed", "mark_failed", "raise"} :
           run'[w] = [local EXCEPT !.pc = pc]
  BY <1>1, <1>6, <1>7, ResumeStep DEF PipelineInv
<1>9. /\ run'[w].pc \in {"mark_completed", "mark_failed", "raise"}
      /\ run'[w].task = t /\ run'[w].beatmap = id
  BY <1>6, <1>8 DEF RunRecord
<1>10. TypeOK' /\ QueueInv'
  BY <1>1, <1>5, <1>8 DEF PipelineInv, TypeOK, QueueTypeOK, RepositoryTypeOK,
                          StorageTypeOK, QueueInv
<1>11. Len(beatmaps) <= Len(beatmaps')
  BY <1>5 DEF id
<1>12. Grows /\ NoNewTask
  BY <1>1, <1>5, <1>11 DEF Grows, NoNewTask, QueueProgress, PipelineInv, TypeOK
<1>13. RunInv(w)' /\ run'[w].pc \notin Staging
  <2>1. tasks'[t].state # "none"
    BY <1>1 DEF PipelineInv, RunInv
  <2>2. id \in 1..Len(beatmaps') /\ beatmaps'[id].job = t.job
    BY <1>4, <1>5
  <2> HIDE DEF t
  <2>. QED  BY <1>2, <1>9, <2>1, <2>2
            DEF RunInv, StemSteps, BeatmapSteps, Staging
<1>14. BeatmapIdResolves'
  <2>1. \A b \in 1..Len(beatmaps) : b \in 1..Len(beatmaps')
    BY <1>5
  <2>. QED  BY <1>1, <1>5, <2>1 DEF PipelineInv, BeatmapIdResolves
<1>15. MergesOwnChildren'
  <2> DEFINE kick(b) == tasks[FlowTask("kick", beatmaps'[b].job, beatmaps'[b].flow)]
             melody(b) ==
               tasks[FlowTask("melody", beatmaps'[b].job, beatmaps'[b].flow)]
  <2>. SUFFICES ASSUME NEW b \in 1..Len(beatmaps')
                PROVE  /\ kick(b).state = "completed"
                       /\ kick(b).value = beatmaps'[b].drum
                       /\ melody(b).state = "completed"
                       /\ melody(b).value = beatmaps'[b].melody
    BY <1>1 DEF MergesOwnChildren
  <2>1. CASE b \in 1..Len(beatmaps)
    <3>1. beatmaps'[b] = beatmaps[b]
      BY <1>5, <2>1
    <3>. QED  BY <2>1, <3>1 DEF PipelineInv, MergesOwnChildren
  <2>2. CASE b = id
    <3>1. beatmaps'[b] = doc
      BY <1>5, <2>2
    <3>. QED  BY <1>3, <1>4, <3>1
  <2>. QED  BY <1>5, <2>1, <2>2
<1>16. \A b \in 1..Len(beatmaps') : beatmaps'[b].flow \in 1..MaxFlows
  BY <1>2, <1>4, <1>5 DEF PipelineInv, FlowInv
<1>. QED  BY <1>1, <1>8, <1>10, <1>12, <1>13, <1>14, <1>15, <1>16, RunMoves

-----------------------------------------------------------------------------
(* Steps of a request.                                                     *)

\* A request moves no run and touches no flow.
LEMMA RequestMoves ==
  ASSUME PipelineInv, TypeOK', QueueInv', Grows,
         UNCHANGED <<beatmaps, run, separations>>,
         \A t \in FlowTasks : tasks'[t] = tasks[t],
         \A j \in Jobs : RequestInv(j)',
         BeatmapIdResolves', StagedBeforeQueued'
  PROVE  PipelineInv'
<1>1. MergesOwnChildren'
  BY MergesKept DEF PipelineInv
<1>2. FlowInv' /\ StagingDisjoint'
  BY DEF PipelineInv, FlowInv, StagingDisjoint
<1>3. \A v \in Workers : RunInv(v)'
  <2>. TAKE v \in Workers
  <2>1. run[v].pc \in Staging => NoFlow(run[v].task.job, run[v].drum)'
    <3>. SUFFICES ASSUME run[v].pc \in Staging, NEW q \in FlowQueues
                  PROVE  tasks'[FlowTask(q, run[v].task.job, run[v].drum)].state = "none"
      BY DEF NoFlow
    <3>1. /\ run[v].task \in Tasks /\ run[v].drum \in 1..MaxFlows
          /\ tasks[FlowTask(q, run[v].task.job, run[v].drum)].state = "none"
      BY DEF PipelineInv, RunInv, Staging, NoFlow
    <3>2. FlowTask(q, run[v].task.job, run[v].drum) \in FlowTasks
      BY <3>1, TaskFields, FlowTaskType
    <3>. QED  BY <3>1, <3>2
  <2>. QED  BY <2>1, RunKept DEF PipelineInv
<1>. QED  BY <1>1, <1>2, <1>3 DEF PipelineInv

\* What the steps of a request that leave the queues alone have in common.
LEMMA ApiStep ==
  ASSUME TypeOK, NEW j \in Jobs, NEW next \in ApiPC, ApiGoto(j, next)
  PROVE  /\ api' \in [Jobs -> ApiPC]
         /\ api'[j] \in {next, "aborted"}
         /\ \A i \in Jobs : i # j => api'[i] = api[i]
BY DEF TypeOK, ApiGoto, ApiPC

\* Requests of other jobs, whose task and stores this step leaves alone.
LEMMA OtherRequest ==
  ASSUME PipelineInv, NEW i \in Jobs, api'[i] = api[i],
         mapJobs'[i] = mapJobs[i], objects'[i] = objects[i],
         tasks'[StemTask(i)] = tasks[StemTask(i)]
  PROVE  RequestInv(i)'
BY DEF PipelineInv, RequestInv, Stored

\* Validate and AbortRequest only move the request.
LEMMA RequestOnly ==
  ASSUME PipelineInv, NEW j \in Jobs, NEW next \in ApiPC,
         api' = [api EXCEPT ![j] = next],
         UNCHANGED <<tasks, mapJobs, beatmaps, objects, run, separations>>,
         \/ api[j] = "validate" /\ next \in {"insert_map_job", "rejected"}
         \/ next = "aborted"
  PROVE  PipelineInv'
<1>1. /\ api' \in [Jobs -> ApiPC] /\ api'[j] = next
      /\ \A i \in Jobs : i # j => api'[i] = api[i]
  BY DEF PipelineInv, TypeOK
<1>2. TypeOK' /\ QueueInv'
  BY <1>1 DEF PipelineInv, TypeOK, QueueTypeOK, RepositoryTypeOK, StorageTypeOK,
              QueueInv
<1>3. Grows /\ NoNewTask
  BY LocalStep DEF PipelineInv
<1>4. RequestInv(j)'
  BY <1>1 DEF PipelineInv, RequestInv, ApiSteps
<1>5. \A i \in Jobs : RequestInv(i)'
  BY <1>1, <1>4, OtherRequest
<1>6. BeatmapIdResolves' /\ StagedBeforeQueued'
  BY <1>2, <1>3, ResolvesKept, StagedKept DEF PipelineInv
<1>. QED  BY <1>2, <1>3, <1>5, <1>6, RequestMoves

\* Validation stores nothing.
LEMMA ValidateInv ==
  ASSUME PipelineInv, NEW j \in Jobs, Validate(j)
  PROVE  PipelineInv'
<1>1. PICK next \in {"insert_map_job", "rejected"} : api' = [api EXCEPT ![j] = next]
  BY DEF Validate
<1>2. next \in ApiPC
  BY DEF ApiPC, ApiSteps
<1>. QED  BY <1>1, <1>2, RequestOnly DEF Validate

\* A request that ends early stores nothing more.
LEMMA AbortRequestInv ==
  ASSUME PipelineInv, NEW j \in Jobs, AbortRequest(j)
  PROVE  PipelineInv'
<1>1. "aborted" \in ApiPC
  BY DEF ApiPC
<1>. QED  BY <1>1, RequestOnly DEF AbortRequest

\* Inserting the document of a job happens before anything refers to it.
LEMMA InsertMapJobInv ==
  ASSUME PipelineInv, NEW j \in Jobs, InsertMapJob(j)
  PROVE  PipelineInv'
<1> DEFINE d == [NoDoc EXCEPT !.status = "queued"]
<1>1. /\ api[j] = "insert_map_job" /\ mapJobs[j].status = "none"
      /\ mapJobs' = [mapJobs EXCEPT ![j] = d]
      /\ ApiGoto(j, "set_object_key")
      /\ UNCHANGED <<tasks, beatmaps, objects, run, separations>>
  BY DEF InsertMapJob, insert_map_job, PipelineInv, RequestInv
<1>2. /\ d \in MapJobDoc /\ d.status = "queued" /\ d.beatmap_id = 0
  BY DEF NoDoc, MapJobDoc, Status
<1> HIDE DEF d
<1>3. /\ mapJobs' \in [Jobs -> MapJobDoc] /\ mapJobs'[j] = d
      /\ \A i \in Jobs : i # j => mapJobs'[i] = mapJobs[i]
  BY <1>1, <1>2 DEF PipelineInv, TypeOK, RepositoryTypeOK
<1>4. /\ api' \in [Jobs -> ApiPC] /\ api'[j] \in {"set_object_key", "aborted"}
      /\ \A i \in Jobs : i # j => api'[i] = api[i]
  BY <1>1, ApiStep DEF PipelineInv, ApiPC, ApiSteps
<1>5. TypeOK' /\ QueueInv'
  BY <1>1, <1>3, <1>4 DEF PipelineInv, TypeOK, QueueTypeOK, RepositoryTypeOK,
                          StorageTypeOK, QueueInv
<1>6. Grows /\ NoNewTask
  BY <1>1, <1>3, <1>5, DocStep DEF PipelineInv
<1>7. \A i \in Jobs : RequestInv(i)'
  <2>1. RequestInv(j)'
    BY <1>1, <1>2, <1>3, <1>4 DEF PipelineInv, RequestInv, ApiSteps
  <2>. QED  BY <1>1, <1>3, <1>4, <2>1, OtherRequest
<1>8. BeatmapIdResolves'
  BY <1>1, <1>2, <1>3 DEF PipelineInv, BeatmapIdResolves
<1>9. StagedBeforeQueued'
  BY <1>5, <1>6, StagedKept DEF PipelineInv
<1>. QED  BY <1>1, <1>5, <1>6, <1>7, <1>8, <1>9, RequestMoves

\* Setting the object key completes the document.
LEMMA SetObjectKeyInv ==
  ASSUME PipelineInv, NEW j \in Jobs, SetObjectKey(j)
  PROVE  PipelineInv'
<1>1. /\ api[j] = "set_object_key"
      /\ mapJobs' = [mapJobs EXCEPT ![j].object_key = TRUE]
      /\ ApiGoto(j, "upload_original")
      /\ UNCHANGED <<tasks, beatmaps, objects, run, separations>>
  BY DEF SetObjectKey, set_job_object_key
<1>2. /\ mapJobs \in [Jobs -> MapJobDoc] /\ mapJobs[j].status # "none"
      /\ tasks[StemTask(j)].state = "none"
  BY <1>1 DEF PipelineInv, RequestInv, ApiSteps, TypeOK, RepositoryTypeOK
<1>3. /\ mapJobs'[j] = [mapJobs[j] EXCEPT !.object_key = TRUE]
      /\ \A i \in Jobs : i # j => mapJobs'[i] = mapJobs[i]
      /\ mapJobs' = [i \in Jobs |-> mapJobs'[i]]
  BY <1>1, <1>2
<1>4. /\ mapJobs'[j] \in MapJobDoc /\ mapJobs'[j].object_key
      /\ mapJobs'[j].status = mapJobs[j].status
      /\ mapJobs'[j].beatmap_id = mapJobs[j].beatmap_id
  BY <1>2, <1>3 DEF MapJobDoc
<1>5. mapJobs' \in [Jobs -> MapJobDoc]
  <2>1. \A i \in Jobs : mapJobs'[i] \in MapJobDoc
    BY <1>2, <1>3, <1>4
  <2>. QED  BY <1>3, <2>1
<1>6. /\ api' \in [Jobs -> ApiPC] /\ api'[j] \in {"upload_original", "aborted"}
      /\ \A i \in Jobs : i # j => api'[i] = api[i]
  BY <1>1, ApiStep DEF PipelineInv, ApiPC, ApiSteps
<1>7. TypeOK' /\ QueueInv'
  BY <1>1, <1>5, <1>6 DEF PipelineInv, TypeOK, QueueTypeOK, RepositoryTypeOK,
                          StorageTypeOK, QueueInv
<1>8. Grows /\ NoNewTask
  BY <1>1, <1>3, <1>4, <1>7, DocStep DEF PipelineInv
<1>9. \A i \in Jobs : RequestInv(i)'
  <2>1. RequestInv(j)'
    BY <1>1, <1>2, <1>4, <1>6 DEF RequestInv, ApiSteps
  <2>. QED  BY <1>1, <1>3, <1>6, <2>1, OtherRequest
<1>10. BeatmapIdResolves'
  BY <1>1, <1>3, <1>4 DEF PipelineInv, BeatmapIdResolves
<1>11. StagedBeforeQueued'
  BY <1>7, <1>8, StagedKept DEF PipelineInv
<1>. QED  BY <1>1, <1>7, <1>8, <1>9, <1>10, <1>11, RequestMoves

\* Uploading the song stores the last thing the stem task reads.
LEMMA UploadOriginalInv ==
  ASSUME PipelineInv, NEW j \in Jobs, UploadOriginal(j)
  PROVE  PipelineInv'
<1>1. /\ api[j] = "upload_original" /\ upload(j, "original", 1)
      /\ ApiGoto(j, "add_stem")
      /\ UNCHANGED <<tasks, mapJobs, beatmaps, run, separations>>
  BY DEF UploadOriginal
<1>2. StorageTypeOK' /\ Grows /\ NoNewTask /\ objects'[j]["original"] # 0
  BY <1>1, UploadKeeps DEF PipelineInv, Keys
<1>3. \A i \in Jobs : i # j => objects'[i] = objects[i]
  BY <1>1 DEF upload, PipelineInv, TypeOK, StorageTypeOK
<1>4. /\ api' \in [Jobs -> ApiPC] /\ api'[j] \in {"add_stem", "aborted"}
      /\ \A i \in Jobs : i # j => api'[i] = api[i]
  BY <1>1, ApiStep DEF PipelineInv, ApiPC, ApiSteps
<1>5. TypeOK' /\ QueueInv'
  BY <1>1, <1>2, <1>4 DEF PipelineInv, TypeOK, QueueTypeOK, RepositoryTypeOK,
                          QueueInv
<1>6. \A i \in Jobs : RequestInv(i)'
  <2>1. RequestInv(j)'
    BY <1>1, <1>2, <1>4 DEF PipelineInv, RequestInv, ApiSteps, Stored
  <2>. QED  BY <1>1, <1>3, <1>4, <2>1, OtherRequest
<1>7. BeatmapIdResolves' /\ StagedBeforeQueued'
  BY <1>1, <1>2, <1>5, ResolvesKept, StagedKept DEF PipelineInv
<1>. QED  BY <1>1, <1>2, <1>5, <1>6, <1>7, RequestMoves

\* The stem task is added when its song and its document are complete.
LEMMA EnqueueStemInv ==
  ASSUME PipelineInv, NEW j \in Jobs, EnqueueStem(j)
  PROVE  PipelineInv'
<1>1. /\ api[j] = "add_stem" /\ AddStem(j) /\ ApiGoto(j, "accepted")
      /\ UNCHANGED <<mapJobs, beatmaps, objects, run, separations>>
  BY DEF EnqueueStem
<1>2. /\ tasks[StemTask(j)].state = "none" /\ mapJobs[j].status # "none"
      /\ mapJobs[j].object_key /\ Stored(j, "original")
  BY <1>1 DEF PipelineInv, RequestInv, ApiSteps
<1>3. /\ QueueTypeOK' /\ QueueInv' /\ QueueProgress
      /\ \A t \in Tasks : t # StemTask(j) => tasks'[t] = tasks[t]
  BY <1>1, <1>2, AddStemKeeps DEF PipelineInv, TypeOK
<1>4. Grows
  BY <1>1, <1>3, QueueStep DEF PipelineInv
<1>5. /\ api' \in [Jobs -> ApiPC] /\ api'[j] \in {"accepted", "aborted"}
      /\ \A i \in Jobs : i # j => api'[i] = api[i]
  BY <1>1, ApiStep DEF PipelineInv, ApiPC
<1>6. TypeOK'
  BY <1>1, <1>3, <1>5 DEF PipelineInv, TypeOK, RepositoryTypeOK, StorageTypeOK
<1>7. StemTask(j).queue = "stem" /\ StemTask(j).job = j
  BY DEF StemTask
<1>8. \A t \in FlowTasks : tasks'[t] = tasks[t]
  BY <1>3, <1>7 DEF FlowTasks, FlowQueues, Tasks
<1>9. \A i \in Jobs : RequestInv(i)'
  <2>1. RequestInv(j)'
    BY <1>5 DEF RequestInv, ApiSteps
  <2>2. \A i \in Jobs : i # j => tasks'[StemTask(i)] = tasks[StemTask(i)]
    BY <1>3, StemTaskType DEF StemTask
  <2>. QED  BY <1>1, <1>5, <2>1, <2>2, OtherRequest
<1>10. StagedBeforeQueued'
  <2>. SUFFICES ASSUME NEW t \in Tasks, tasks'[t].state # "none"
                PROVE  /\ mapJobs[t.job].status # "none" /\ mapJobs[t.job].object_key
                       /\ Stored(t.job, "original")
                       /\ t.queue # "stem" =>
                            Stored(t.job, "drum") /\ Stored(t.job, "melody")
    BY <1>1 DEF StagedBeforeQueued, Stored
  <2>1. CASE t = StemTask(j)
    BY <1>2, <1>7, <2>1
  <2>2. CASE t # StemTask(j)
    BY <1>3, <2>2 DEF PipelineInv, StagedBeforeQueued
  <2>. QED  BY <2>1, <2>2
<1>11. BeatmapIdResolves'
  BY <1>1, <1>4, <1>6, ResolvesKept DEF PipelineInv
<1>. QED  BY <1>1, <1>3, <1>4, <1>6, <1>8, <1>9, <1>10, <1>11, RequestMoves

-----------------------------------------------------------------------------
(* The invariant holds.                                                    *)

\* Initially nothing is stored, queued or running.
LEMMA InitInv == Init => PipelineInv
<1>. SUFFICES ASSUME Init PROVE PipelineInv
  OBVIOUS
<1>. USE DEF Init, QueueInit, RepositoryInit, StorageInit
<1>1. TypeOK
  <2>1. QueueTypeOK
    BY DEF QueueTypeOK, NewTask, TaskRecord, TaskStates
  <2>2. RepositoryTypeOK
    BY DEF RepositoryTypeOK, NoDoc, MapJobDoc
  <2>3. StorageTypeOK
    BY DEF StorageTypeOK
  <2>4. api \in [Jobs -> ApiPC] /\ separations \in [Jobs -> Nat]
    BY DEF ApiPC
  <2>5. run \in [Workers -> RunRecord]
    BY IdleType
  <2>. QED  BY <2>1, <2>2, <2>3, <2>4, <2>5 DEF TypeOK
<1>2. QueueInv
  BY DEF QueueInv, NewTask
<1>3. \A t \in Tasks : tasks[t].state = "none"
  BY DEF NewTask
<1>4. ASSUME NEW j \in Jobs PROVE RequestInv(j)
  <2>1. mapJobs[j].status = "none" /\ api[j] = "validate"
    BY DEF NoDoc
  <2>2. tasks[StemTask(j)].state = "none"
    BY <1>3, StemTaskType
  <2>. QED  BY <2>1, <2>2 DEF RequestInv, ApiSteps
<1>5. ASSUME NEW w \in Workers PROVE RunInv(w)
  <2>1. run[w].pc = "idle"
    BY DEF Idle
  <2>. QED  BY <2>1 DEF RunInv, StemSteps, BeatmapSteps, Staging
<1>6. FlowInv
  BY <1>3 DEF FlowInv, Tasks
<1>7. StagingDisjoint
  BY DEF StagingDisjoint, Idle, Staging
<1>8. BeatmapIdResolves
  BY DEF BeatmapIdResolves, NoDoc
<1>9. StagedBeforeQueued
  BY <1>3 DEF StagedBeforeQueued
<1>10. MergesOwnChildren
  BY DEF MergesOwnChildren
<1>. QED  BY <1>1, <1>2, <1>4, <1>5, <1>6, <1>7, <1>8, <1>9, <1>10 DEF PipelineInv

\* Steps that change nothing keep the invariant.
LEMMA StutterInv ==
  ASSUME PipelineInv, UNCHANGED vars
  PROVE  PipelineInv'
<1>1. /\ tasks' = tasks /\ mapJobs' = mapJobs /\ beatmaps' = beatmaps
      /\ objects' = objects /\ api' = api /\ run' = run
      /\ separations' = separations
  BY DEF vars
<1>2. TypeOK' /\ QueueInv'
  BY <1>1 DEF PipelineInv, TypeOK, QueueTypeOK, RepositoryTypeOK, StorageTypeOK,
              QueueInv
<1>3. ASSUME NEW j \in Jobs PROVE RequestInv(j)'
  <2>1. RequestInv(j)
    BY DEF PipelineInv
  <2>. QED  BY <1>1, <2>1 DEF RequestInv, Stored
<1>4. ASSUME NEW w \in Workers PROVE RunInv(w)'
  <2>1. RunInv(w)
    BY DEF PipelineInv
  <2>. QED  BY <1>1, <2>1 DEF RunInv, NoFlow, Stored
<1>5. FlowInv' /\ StagingDisjoint'
  BY <1>1 DEF PipelineInv, FlowInv, StagingDisjoint
<1>6. BeatmapIdResolves' /\ StagedBeforeQueued' /\ MergesOwnChildren'
  BY <1>1 DEF PipelineInv, BeatmapIdResolves, StagedBeforeQueued,
              MergesOwnChildren, Stored
<1>. QED  BY <1>2, <1>3, <1>4, <1>5, <1>6 DEF PipelineInv

\* Every step of a request, a worker or the stalled checker keeps the invariant.
LEMMA NextInv == PipelineInv /\ [Next]_vars => PipelineInv'
<1>. SUFFICES ASSUME PipelineInv, [Next]_vars PROVE PipelineInv'
  OBVIOUS
<1>1. ASSUME NEW j \in Jobs, Request(j) \/ AbortRequest(j)
      PROVE  PipelineInv'
  BY <1>1, ValidateInv, InsertMapJobInv, SetObjectKeyInv, UploadOriginalInv,
     EnqueueStemInv, AbortRequestInv DEF Request
<1>2. ASSUME NEW w \in Workers, Start(w) \/ Raise(w) \/ Crash(w)
      PROVE  PipelineInv'
  BY <1>2, StartInv, RaiseInv, CrashInv
<1>3. ASSUME NEW w \in Workers, HandlerStep(w)
      PROVE  PipelineInv'
  BY <1>3, MarkProcessingInv, SeparateInv, UploadDrumInv, UploadMelodyInv,
     EnqueueFlowInv, DetectKicksInv, ExtractMelodyInv, GetChildrenInv,
     InsertBeatmapInv, MarkCompletedInv, MarkFailedInv, ReturnInv, ReraiseInv
  DEF HandlerStep
<1>4. ASSUME NEW t \in Tasks, Stall(t)
      PROVE  PipelineInv'
  BY <1>4, StallInv
<1>5. CASE UNCHANGED vars
  BY <1>5, StutterInv
<1>. QED  BY <1>1, <1>2, <1>3, <1>4, <1>5 DEF Next

\* The inductive invariant holds in every reachable state.
LEMMA PipelineInvariant == Spec => []PipelineInv
BY InitInv, NextInv, PTL DEF Spec

-----------------------------------------------------------------------------
(* What follows for every instance.                                        *)

\* Every document, object, task and handler run keeps its type, whatever fails:
\* no handler writes a status the API does not declare (MapRepository).
THEOREM TypeCorrect == Spec => []TypeOK
<1>1. PipelineInv => TypeOK
  BY DEF PipelineInv
<1>. QED  BY <1>1, PipelineInvariant, PTL

\* The beatmap_id a client polls always leads to a beatmap of its own song
\* (MapJobService.finalize_beatmap inserts before it marks).
THEOREM IdsResolve == Spec => []BeatmapIdResolves
<1>1. PipelineInv => BeatmapIdResolves
  BY DEF PipelineInv
<1>. QED  BY <1>1, PipelineInvariant, PTL

\* Whatever a task reads is stored before the task is queued (create_map_job
\* and StemHandler._process upload before they add to the queue).
THEOREM StagingSafe == Spec => []StagedBeforeQueued
<1>1. PipelineInv => StagedBeforeQueued
  BY DEF PipelineInv
<1>. QED  BY <1>1, PipelineInvariant, PTL

\* Every beatmap merges the results of the two completed children of one flow,
\* however often stem runs, flows and handlers were repeated (BeatmapHandler).
THEOREM MergesSafe == Spec => []MergesOwnChildren
<1>1. PipelineInv => MergesOwnChildren
  BY DEF PipelineInv
<1>. QED  BY <1>1, PipelineInvariant, PTL
=============================================================================

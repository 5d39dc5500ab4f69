------------------------------- MODULE BullMQ -------------------------------
(***************************************************************************)
(* The four BullMQ queues of app/domains/maps/jobs/queues/queue.py, as far *)
(* as the handlers depend on them.  BullMQ itself lives outside the        *)
(* repository: its part here (locks, attempts, stalled jobs, parents and   *)
(* children) is what the options of queue.py and of WorkerRuntime select.  *)
(*                                                                         *)
(* A BullMQ job is called a task, to keep it apart from the map job that a *)
(* client submits.  A task in backoff is in state "wait" like one that is  *)
(* ready: only time tells the two apart.                                   *)
(***************************************************************************)
EXTENDS Integers, JobStatus

CONSTANTS
  Workers,          \* worker processes, each serving one queue
  Attempts,         \* attempts configured for each queue
  MaxStalledCount,  \* stalls a task survives (BullMQ's default is 1)
  MaxFlows,         \* bound on the flows of one map job
  NoWorker          \* no worker holds the lock of the task

VARIABLE tasks      \* tasks[t]: what Redis keeps of task t

FlowQueues == {"kick", "melody", "beatmap"}
Queues     == {"stem"} \cup FlowQueues

ASSUME BullMQAssumption ==
  /\ Attempts \in [Queues -> Int]
  /\ MaxStalledCount \in Nat
  /\ MaxFlows \in Nat
  /\ NoWorker \notin Workers

StemTasks == [queue : {"stem"}, job : Jobs, flow : {0}]
FlowTasks == [queue : FlowQueues, job : Jobs, flow : 1..MaxFlows]
Tasks     == StemTasks \cup FlowTasks

StemTask(j) == [queue |-> "stem", job |-> j, flow |-> 0]

FlowTask(q, j, n) == [queue |-> q, job |-> j, flow |-> n]

\* The orchestration task is the parent of the two detection tasks of its flow.
IsChild(t) == t.queue \in {"kick", "melody"}
Parent(t)  == FlowTask("beatmap", t.job, t.flow)
Sibling(t) ==
  FlowTask(IF t.queue = "kick" THEN "melody" ELSE "kick", t.job, t.flow)

TaskStates == {"none", "wait", "active", "children", "completed", "failed"}

TaskRecord ==
  [state  : TaskStates,
   made   : Nat,                      \* attemptsMade
   stalls : Nat,                      \* stalledCounter
   owner  : Workers \cup {NoWorker},  \* holder of the lock
   value  : Nat]                      \* return value, 0 before it is known

QueueTypeOK == tasks \in [Tasks -> TaskRecord]

NewTask ==
  [state |-> "none", made |-> 0, stalls |-> 0, owner |-> NoWorker, value |-> 0]

QueueInit == tasks = [t \in Tasks |-> NewTask]

Finished(t) == tasks[t].state \in {"none", "completed", "failed"}

-----------------------------------------------------------------------------
(* What the code adds to the queues.                                       *)

\* create_map_job adds a lone stem-separation job.
AddStem(j) == tasks' = [tasks EXCEPT ![StemTask(j)].state = "wait"]

\* The flow of build_generate_beatmap_flow, added in one Redis transaction:
\* the parent waits for its children.
AddFlow(j, n) ==
  tasks' = [tasks EXCEPT
              ![FlowTask("beatmap", j, n)].state = "children",
              ![FlowTask("kick", j, n)].state    = "wait",
              ![FlowTask("melody", j, n)].state  = "wait"]

-----------------------------------------------------------------------------
(* What BullMQ does with a task.                                           *)

Lock(t, w) ==
  /\ tasks[t].state = "wait"
  /\ tasks' = [tasks EXCEPT ![t].state = "active", ![t].owner = w]

\* moveToCompleted: the last child to complete releases the parent.
Complete(t, v) ==
  LET done == [tasks EXCEPT ![t].state = "completed",
                            ![t].owner = NoWorker,
                            ![t].value = v]
  IN  tasks' = IF /\ IsChild(t)
                  /\ tasks[Sibling(t)].state = "completed"
                  /\ tasks[Parent(t)].state = "children"
               THEN [done EXCEPT ![Parent(t)].state = "wait"]
               ELSE done

\* Slip: no child names its parent in fail_parent_on_failure.
BuryAlone(buried, t) == [buried EXCEPT ![t].state = "failed"]

\* A task that fails for good takes its waiting parent with it
\* (failParentOnFailure); no handler runs for the parent.
Bury(buried, t) ==
  IF IsChild(t) /\ buried[Parent(t)].state = "children"
  THEN [buried EXCEPT ![t].state = "failed", ![Parent(t)].state = "failed"]
  ELSE [buried EXCEPT ![t].state = "failed"]

\* moveToFailed after an attempt that started with `made` attempts behind it:
\* back to the queue while attempts remain.
Fail(t, made) ==
  LET counted == [tasks EXCEPT ![t].made = made + 1, ![t].owner = NoWorker]
  IN  tasks' = IF made + 1 < Attempts[t.queue]
               THEN [counted EXCEPT ![t].state = "wait"]
               ELSE Bury(counted, t)

\* The stalled checker has found the lock of the active task t lapsed.  Above
\* the limit it fails the task itself: the processor is not called.
Recover(t) ==
  LET counted == [tasks EXCEPT ![t].stalls = @ + 1, ![t].owner = NoWorker]
  IN  tasks' = IF tasks[t].stalls < MaxStalledCount
               THEN [counted EXCEPT ![t].state = "wait"]
               ELSE Bury(counted, t)

\* A task the stalled checker gave up, or the parent of one.
LostToStalls(t) ==
  LET gaveUp(u) == tasks[u].stalls > MaxStalledCount
  IN  \/ gaveUp(t)
      \/ /\ t.queue = "beatmap"
         /\ \/ gaveUp(FlowTask("kick", t.job, t.flow))
            \/ gaveUp(FlowTask("melody", t.job, t.flow))
=============================================================================

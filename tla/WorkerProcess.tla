--------------------------- MODULE WorkerProcess ---------------------------
(***************************************************************************)
(* The life of a worker process around its handler runs: main() of the     *)
(* four handler modules with WorkerRuntime, from opening the clients to    *)
(* closing them after SIGINT or SIGTERM, composed with BeatmapPipeline.    *)
(* Processes are stopped and started again while songs are in the queues.  *)
(*                                                                         *)
(* Storage opens a client for every call and is closed with it, so a       *)
(* process holds a MongoDB client and, for the stem queue, a flow producer.*)
(***************************************************************************)
EXTENDS BeatmapPipeline

CONSTANT MaxStops   \* bound on the signals sent

ASSUME ProcessAssumption == MaxStops \in Nat

VARIABLES
  proc,      \* proc[w]: where main() of worker process w is
  clients,   \* clients[w]: the clients it holds open
  stops      \* signals sent so far

procVars == <<proc, clients, stops>>
allVars  == <<vars, procVars>>

ProcStates == {"off", "running", "signalled", "closing", "closing_flow"}
Clients    == {"mongo", "flow"}

\* What main() opens before it starts the runtime.
Opened(w) == IF WorkerQueue[w] = "stem" THEN Clients ELSE {"mongo"}

\* The client the next await of a handler run is made on.
Needs(pc) ==
  CASE pc \in {"mark_processing", "insert_beatmap", "mark_completed",
               "mark_failed"} -> {"mongo"}
    [] pc = "add_flow"        -> {"flow"}
    [] OTHER                  -> {}

ProcTypeOK ==
  /\ proc \in [Workers -> ProcStates]
  /\ clients \in [Workers -> SUBSET Clients]
  /\ stops \in 0..MaxStops

ProcInit ==
  /\ Init
  /\ proc = [w \in Workers |-> "off"]
  /\ clients = [w \in Workers |-> {}]
  /\ stops = 0

-----------------------------------------------------------------------------
(* main(), from await to await.                                            *)

\* Nothing is awaited between opening the clients and waiting for a signal.
Launch(w) ==
  /\ proc[w] = "off"
  /\ proc' = [proc EXCEPT ![w] = "running"]
  /\ clients' = [clients EXCEPT ![w] = Opened(w)]
  /\ UNCHANGED <<vars, stops>>

\* The process is gone; a run it still had is cancelled with the event loop.
ProcessEnds(w) ==
  /\ proc' = [proc EXCEPT ![w] = "off"]
  /\ clients' = [clients EXCEPT ![w] = {}]
  /\ run' = [run EXCEPT ![w] = Idle]
  /\ UNCHANGED <<tasks, mapJobs, beatmaps, objects, api, separations>>

\* Slip: no signal handler; the signal ends the process.
SignalKills(w) ==
  /\ proc[w] = "running" /\ stops < MaxStops
  /\ ProcessEnds(w)
  /\ stops' = stops + 1

\* The signal handler sets stop_event; a second signal changes nothing.
Signal(w) ==
  /\ proc[w] = "running" /\ stops < MaxStops
  /\ proc' = [proc EXCEPT ![w] = "signalled"]
  /\ stops' = stops + 1
  /\ UNCHANGED <<vars, clients>>

\* Slip: the clients are closed before the worker.
StopClients(w) ==
  /\ proc[w] = "signalled"
  /\ proc' = [proc EXCEPT ![w] = "closing"]
  /\ clients' = [clients EXCEPT ![w] = {}]
  /\ UNCHANGED <<vars, stops>>

\* main() wakes up and closes the worker, which takes no more tasks.
Stop(w) ==
  /\ proc[w] = "signalled"
  /\ proc' = [proc EXCEPT ![w] = "closing"]
  /\ UNCHANGED <<vars, clients, stops>>

\* The worker is closed: on_stop closes the MongoDB client, and a process
\* without a flow producer ends.
WorkerClosed(w) ==
  /\ proc[w] = "closing"
  /\ IF "flow" \in clients[w]
     THEN /\ proc' = [proc EXCEPT ![w] = "closing_flow"]
          /\ clients' = [clients EXCEPT ![w] = @ \ {"mongo"}]
          /\ UNCHANGED vars
     ELSE ProcessEnds(w)
  /\ UNCHANGED stops

\* Slips: the close is not awaited; it waits for the queue to drain.
CloseInBackground(w) == WorkerClosed(w)
CloseWhenDrained(w) ==
  /\ run[w] = Idle
  /\ \A t \in Tasks : t.queue = WorkerQueue[w] => Finished(t)
  /\ WorkerClosed(w)

\* close() of the BullMQ worker returns once the run in flight has.
CloseWorker(w) == run[w] = Idle /\ WorkerClosed(w)

CloseProducer(w) ==
  /\ proc[w] = "closing_flow"
  /\ ProcessEnds(w)
  /\ UNCHANGED stops

\* BeatmapPipeline's Crash, at any point of main().
Die(w) ==
  /\ Crash(w)
  /\ proc' = [proc EXCEPT ![w] = "off"]
  /\ clients' = [clients EXCEPT ![w] = {}]
  /\ UNCHANGED stops

\* Only a process whose worker is open takes tasks.
Take(w) ==
  /\ proc[w] \in {"running", "signalled"}
  /\ Start(w)
  /\ UNCHANGED procVars

Work(w) == HandlerStep(w) /\ UNCHANGED procVars

Shutdown(w) == Stop(w) \/ CloseWorker(w) \/ CloseProducer(w)

ProcNext ==
  \/ \E w \in Workers :
       \/ Launch(w) \/ Signal(w) \/ Shutdown(w) \/ Die(w)
       \/ Take(w) \/ Work(w)
       \/ Raise(w) /\ UNCHANGED procVars
  \/ /\ \/ \E j \in Jobs : Request(j) \/ AbortRequest(j)
        \/ \E t \in Tasks : Stall(t)
     /\ UNCHANGED procVars

ProcSpec == ProcInit /\ [][ProcNext]_allVars

\* Requests, runs and main() go on where they can, open workers take what waits,
\* the stalled checker keeps running, and somebody starts the processes again.
\* Nothing is assumed to fail or to die.
ProcFairSpec ==
  /\ ProcSpec
  /\ \A j \in Jobs : WF_allVars(Request(j) /\ UNCHANGED procVars)
  /\ \A w \in Workers :
       /\ WF_allVars(Launch(w)) /\ WF_allVars(Shutdown(w))
       /\ WF_allVars(Take(w)) /\ WF_allVars(Work(w))
  /\ \A t \in Tasks :
       WF_allVars(Stall(t) /\ Abandoned(t) /\ UNCHANGED procVars)
-----------------------------------------------------------------------------
(* Properties.                                                             *)

\* No handler run reaches an await on a client its process has closed: main()
\* closes the worker, then the MongoDB client, then the flow producer.
ClientsOutliveRuns ==
  \A w \in Workers : Needs(run[w].pc) \subseteq clients[w]

\* When only signals stop the processes, no task loses an attempt, stalls or is
\* given up: a deployment hands every task over as it found it.
ShutdownCostsNothing ==
  \A t \in Tasks :
    tasks[t].made = 0 /\ tasks[t].stalls = 0 /\ tasks[t].state # "failed"

\* Then every accepted song is completed, however its workers are replaced
\* while it is under way.
SongsComplete ==
  \A j \in Jobs : api[j] = "accepted" ~> mapJobs[j].status = "completed"

\* A process told to stop ends, whatever its run meets.
StopCompletes ==
  \A w \in Workers : proc[w] = "signalled" ~> proc[w] = "off"

\* Starting and stopping processes adds nothing to what BeatmapPipeline lets
\* handler runs do: in particular a stopped process never takes a run with it.
KeepsPipeline == Spec
=============================================================================

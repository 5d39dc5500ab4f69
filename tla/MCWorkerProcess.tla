-------------------------- MODULE MCWorkerProcess --------------------------
(***************************************************************************)
(* Instances of WorkerProcess for TLC.                                     *)
(***************************************************************************)
EXTENDS WorkerProcess, TLC

CONSTANTS j1, j2, ws, wk, wm, wb

\* One worker process per queue, as scripts/dev.sh starts them.
OneEach      == {ws, wk, wm, wb}
OneEachQueue == ws :> "stem" @@ wk :> "kick" @@ wm :> "melody" @@ wb :> "beatmap"

AnyStep == ApiSteps \cup HandlerSteps

TwoAttempts == [q \in Queues |-> 2]
=============================================================================

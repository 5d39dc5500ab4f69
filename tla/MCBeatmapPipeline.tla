------------------------- MODULE MCBeatmapPipeline -------------------------
(***************************************************************************)
(* Instances of BeatmapPipeline and ReadEndpoints for TLC.                 *)
(***************************************************************************)
EXTENDS ReadEndpoints, TLC

CONSTANTS j1, j2, ws, wk, wm, wb, extra, extra2

\* One worker process per queue, as scripts/dev.sh starts them.
OneEach      == {ws, wk, wm, wb}
OneEachQueue == ws :> "stem" @@ wk :> "kick" @@ wm :> "melody" @@ wb :> "beatmap"

\* A second process on one queue: a task can be redelivered while the run that
\* lost it still goes on.
WithSpare    == OneEach \cup {extra}
SpareMelody  == OneEachQueue @@ extra :> "melody"

\* Two workers of one queue are interchangeable.
SpareSymmetry ==
  {p @@ q : p \in Permutations({wk, extra2}), q \in Permutations({wm, extra})}

\* The attempts of MapsJobConfig, or one that is not final and one that is.
ThreeAttempts == [q \in Queues |-> 3]
TwoAttempts == [q \in Queues |-> 2]
StemRetry   == [q \in Queues |-> IF q = "stem" THEN 2 ELSE 1]

WithSpares   == WithSpare \cup {extra2}
SpareBoth    == SpareMelody @@ extra2 :> "kick"
AnyStep      == ApiSteps \cup HandlerSteps
Repeatable   == AnyStep \ {"add_flow", "mark_completed"}
=============================================================================

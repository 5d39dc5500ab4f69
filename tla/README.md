# mxxsicbeat-backend in TLA+

The backend turns an uploaded song into a beatmap. An API process stores the
song and queues a task; four kinds of worker processes separate the stems,
detect kicks, extract the melody and merge the two; MongoDB, MinIO and BullMQ's
queues in Redis are all they share. This directory models that system, checks it
with TLC and proves most of its safety with TLAPS.

A *map job* is what a client submits. A *task* is a BullMQ job.

## 1. Inventory

| Part (source) | State | Operations | Interacts with |
|---|---|---|---|
| API, `maps/services/service.py`, `routes/` | none of its own | `create_map_job`: validate, insert, set key, upload, enqueue; three read endpoints | MongoDB, MinIO, queue `stem-separation` |
| Repository, `repositories/repository.py`, `services/job_service.py` | `map_jobs`, `beatmaps` | one insert or one unconditional update each; `finalize_beatmap` is two of them | all handlers |
| Storage, `core/storage.py`, `services/storage.py`, `configs/storage.py` | three objects per job | upload (replaces), download; `ensure_bucket` | API, stem, kick, melody |
| Queues, `jobs/queues/queue.py`, `configs/job.py` | tasks with attempts, lock, stall count, value, parent | add a stem task; add a flow (parent and two children) | API, stem handler, workers |
| Handlers, `jobs/handlers/*.py` | a run's local variables | stem, kick, melody, beatmap `_process`; the shared `except` | everything above |
| Retry rule, `common/job_retry.py` | none | `is_final_attempt` | handlers, BullMQ's count |
| Worker runtime, `common/worker_runtime.py`, `main()` of the handlers | one BullMQ worker, the clients of the process | start, wait for a signal, stop and close | handlers |
| Note building, `services/notes_service.py`, `dsp/` | none | drum notes, melody notes | kick and melody handler |
| Migrations, `migrations/runner.py` | `_migrations` | `run_migrations` | MongoDB |
| API process, `main.py`, `core/storage.py`, `domains/health/` | its MongoDB, Redis and flow clients; the bucket | start (`ensure_bucket`), serve, drain, close; `check_readiness` | MongoDB, Redis, MinIO |
| nginx, configuration, logging | a cache; constants | - | MinIO |

What is hard about it:

- **Two records of one outcome.** BullMQ decides whether a task is retried; the
  job document says `failed` or `completed`. They are updated by different calls,
  and the attempts are counted in two places.
- **Retries repeat effects.** A stem run overwrites the stems it uploaded and may
  add a second flow; a beatmap run may insert a second beatmap. No update of the
  repository is conditional on what it finds.
- **A call may take effect and raise.** A lost reply looks like a failure.
- **Redelivery.** A worker that dies, or whose event loop is blocked by
  `build_melody_notes`, loses its lock. The task is handed out again (two runs of
  one task) or failed without any handler being called.
- **Deployments.** Worker processes are stopped and started while songs are under
  way; runs in flight must be finished before their clients are closed.
- **What a client was told.** Polled answers, links and cached audio must stay
  good while retries write the same document and the same keys again.
- **Processes that start together** create the bucket together, and services that
  go down between two pings.
- **Rounding.** Frames, seconds, milliseconds and quantiles meet in the notes.
- **Overlapping migration runners** that may stop between `up()` and its record.

What makes each part correct is listed, line by line, as the hazards of
`PROJECT.json`, each with the properties that watch it.

## 2. Modules

| Module | Models | Variables |
|---|---|---|
| `JobStatus` | the statuses a client can read; `Jobs` | - |
| `BullMQ` | the four queues, flows, locks, attempts, stalls | `tasks` |
| `MapRepository` | the two collections | `mapJobs`, `beatmaps` |
| `SongStorage` | the bucket | `objects` |
| `BeatmapPipeline` | composes the three with the request and the handler runs | `api`, `run`, `separations` |
| `ReadEndpoints` | the three GET endpoints as functions of that state | - |
| `WorkerProcess` | composes `BeatmapPipeline` with `main()` of each worker process | `proc`, `clients`, `stops` |
| `JobLifecycle` | abstract: what a polling client is promised | `status`, `published` |
| `ApiProcess` | `lifespan()`, `ensure_bucket`, requests and readiness of several API processes | `server`, `clients`, `bucket`, `up`, `request`, `faults`, `stops` |
| `KickNotes` | `KickHandler._process` from its downloads to the drum notes | the temporary directory, the signal's values, `notes` |
| `MelodyNotes` | `build_melody_notes` after the signal processing | inputs and results of each call |
| `Rounding` | rounding half to even, for both | - |
| `Migrations` | `run_migrations` in several processes | `files`, `effect`, `latest`, `recorded`, `runner` |
| `MCBeatmapPipeline`, `MCWorkerProcess`, `MCApiProcess`, `MCMigrations` | instances for TLC | - |
| `BeatmapPipelineProofs`, `RetryProofs`, `ServiceProofs` | theorems about the pipeline, the read endpoints and the worker processes, each module building on the one before | - |
| `ApiProcessProofs`, `MigrationsProofs` | theorems about these modules | - |
| `NumberLemmas` | minima and maxima, induction over a set of numbers, rounding, ranks | - |
| `MelodyProofs`, `KickProofs` | theorems about the notes, both from `NumberLemmas` | - |

### BeatmapPipeline

A request (`api[j]`) and a handler run (`run[w]`) advance from await to await, so
each action is the code between two awaits together with the effect of the call
it awaits. `run[w]` holds what the code has in local variables: the task, the
attempts it had when it was picked up, the stems or notes at hand, the id of the
beatmap it inserted.

| Action | Code |
|---|---|
| `Validate`, `InsertMapJob`, `SetObjectKey`, `UploadOriginal`, `EnqueueStem` | `create_map_job`, one action per await |
| `AbortRequest` | one of these calls raises, or the API process stops |
| `Start` | BullMQ calls the processor with a task it locked |
| `MarkProcessing` ... `EnqueueFlow` | `StemHandler._process` |
| `DetectKicks`, `ExtractMelody` | `KickHandler._process`, `MelodyHandler._process` |
| `GetChildren`, `InsertBeatmap`, `MarkCompleted` | `BeatmapHandler._process`, `finalize_beatmap` |
| `Raise`, `MarkFailed`, `Reraise` | the `except` of every handler |
| `Return` | the handler's result reaches BullMQ |
| `Crash` | the worker process dies |
| `Stall` | the stalled checker finds the lock of an active task lapsed |

Failures are chosen by constants: `FailAt` (awaits that may raise without
effect), `LostAt` (awaits that may take effect and raise), `CrashQueues`,
`BlockQueues`. Each run and each theorem says which it allows.

Abstractions: a stem is the number of the separation that made it, and notes are
known by the stem they were taken from; filenames, titles, durations and errors'
texts are left out. Of the timestamps only `created_at` of a beatmap is kept, since
the list is sorted by it: it is any value of `Clock`, for it is read in the worker
before `insert_one` is awaited, and the clocks of workers differ. A task in backoff waits like one that is ready;
flows of a job are numbered by the separation their run made (BullMQ gives fresh
ids). BullMQ is outside the repository: locks, `moveToCompleted`, `moveToFailed`
and the stalled checker are modelled from the options this code gives it and
marked external in the map.

### ReadEndpoints

`get_job_status`, `get_beatmap` and `list_beatmaps` await one query each, so an
answer is an operator on the state. The properties compare the answer before a
step with the answer after it: what a client was told must stay true. The list
is sorted by `created_at` and by nothing else, so `list_beatmaps` is the set of
answers MongoDB may give: beatmaps of the same time come in any order, in another
one the next time. `LinksStand` therefore does not say that new entries come first
(a beatmap inserted later may have the earlier time) but that no entry vanishes or
changes and that two of different times keep their order. The public
base URL is taken to be set, since without it no `audio_url` is given at all. The
URL is the pair of job and object here; the code joins it from the object key
unescaped (`services/storage.py:45`), which the model cannot see.

### WorkerProcess

| Action | Code |
|---|---|
| `Launch` | `main()` up to `stop_event.wait()`: no await suspends it before |
| `Signal` | the signal handler sets `stop_event`; a second signal changes nothing |
| `Stop` | `WorkerRuntime.stop` begins to close the BullMQ worker |
| `CloseWorker` | the worker is closed, `on_stop` closes the MongoDB client |
| `CloseProducer` | `flow_producer.close()` of the stem handler returns, the process ends |
| `Take`, `Work`, `Die` | `Start`, `HandlerStep`, `Crash` of `BeatmapPipeline` in this process |

One thing is assumed of BullMQ: `close()` stops taking tasks and returns once the
run in flight has returned. The order in `stop()` only makes sense if it does,
and a run still alive when `main()` returns is cancelled with its event loop,
which `ProcessEnds` says. Clients are closed without failing.

### ApiProcess

`Launch`, `HeadBucket`, `HeadRefused`, `CreateBucket` and `Close` are `lifespan()`
from await to await; `Receive` and `Await` a request as the sequence of clients it
needs (`Calls`), the upload to MinIO among them; `Signal` and `Drained` are uvicorn's part, external. `ensure_bucket`
takes any `ClientError` for a missing bucket, so a refused `head_bucket`
(`HeadRefused`) goes on to create one that exists, and the start fails, as it
does for the second of two processes that start on an empty MinIO. An unreachable
MinIO raises no `ClientError`. One request at a time is followed in each process:
requests share nothing in a process but its clients. `up` and `down` of a request
record what the services did since it came in, for `HonestReadiness` only.

uvicorn exits when `lifespan()` raises, and nothing in the repository starts it
again (`docker-compose.yml` has no API service; `scripts/dev.sh` and
`docker/api.Dockerfile` have no restart). `Launch` is possible, never fair, and
`SomeProcessServes` says what is left: processes that start together on an empty
MinIO cannot all fail.

### KickNotes

The temporary directory is a function from names to recordings, so a download
replaces what is there under its name: an upload called `drums.wav` overwrites
the drum stem, and `HearsDrumStem` states exactly that exception. The energy gate
is a comparison of two levels (a tenth, as in `kick_detector.py`), written
without a division; strengths are fractions. Onsets are the picked frames in the
order of time (`Ascending`).

### MelodyNotes

The novelty curve, the fading of bands and the spectral centroids are inputs.
Exact is what the code does with them: merging peaks closer than the wait, cutting
each hold at the decay, the next onset, the maximum and the end of the track,
dealing notes to lanes by interpolated quantiles, rounding to milliseconds half
to even, and the combo. Times are audio samples, so that frame times are exact.
`bpm = 0` raises, as in the code.

Where floating point decides is modelled: a quantile edge that falls on a note.
`np.linspace(0, 1, 6)[3] * 5` is a little more than 3, so with five lanes and six
notes the third edge may lie above the fourth note, which then drops a lane.
`raised` is the set of edges that come out so; which ones do, and whether the
excess survives the interpolation, is left open, and an edge a little below its
note separates the same notes. Other errors, of one unit in the last place of a
brightness or a time, are not modelled.

### Migrations

Each runner reads the recorded names and discovers the files in one step (there
is no await between the two), then applies and records one file after the other.
A run may stop in `up()`, with a partial effect, or between any two awaits.
`redone` counts, for the properties only, the recorded migrations a runner
applies again, and `latest` is the migration whose `up()` changed the data last,
repeats included. "Forward-only, in filename order" (`migrations/README.md:26`)
does not hold of runners that overlap: with a stale list the data may see 1, 2, 1.
What holds is `InFilenameOrder`, that a step back only ever repeats a recorded
migration and that everything below a migration is recorded before it; and
`StaleRunnerStops`, that a runner repeats one at most. The README is silent about
overlapping runners, so no run calls this a disagreement.

### Slips

A definition commented as a *slip* is a plausible mistake in the code, placed
before the definition it would replace. Nothing uses it; `PROJECT.json` names the
property that fails when it is put in place.

## 3. Runs

| Run | What may go wrong | Shows |
|---|---|---|
| `retries` | three attempts; every await but `mark_failed` may raise; all but `add_flow` and `mark_completed` may take effect and raise; clocks that differ | `ErrorOnlyWhenExhausted`, `OneSeparation`, `OutcomeRecorded`, `AnswersAgree`, `LinksStand`; `FollowsLifecycle`, the refinement of `JobLifecycle` |
| `lost_replies` | every call may take effect and raise, `mark_failed` may raise | `TypeOK`, `BeatmapIdResolves`, `StagedBeforeQueued`, `ListedOncePerAttempt`, `AudioStands` |
| `faults` | kick workers die, a melody task is redelivered while its first run goes on, a lost reply makes two flows, downloads fail | `MergesOwnChildren`, `ParentsAwaitWork`, `FailureReported` |
| `deployment` | two signals, to any processes at any time; two songs | `ShutdownCostsNothing`, `SongsComplete`, `KeepsPipeline` (the refinement of `BeatmapPipeline`) |
| `shutdown` | one signal; every await but `mark_failed` may raise, beatmap workers may die | `ClientsOutliveRuns`, `StopCompletes`, `EverySongSettles` |
| `api_process` | two outages or refusals, one signal; two processes and perhaps no bucket | `TypeOK`, `BucketReady`, `ClientsOutliveRequests`, `HonestReadiness`, `SomeProcessServes` |
| `source_of_truth` | a stem worker dies | `OutcomeRecorded` **violated**, see below |
| `kick_notes` | an upload called `drums.wav`; all strengths and onsets on six frames | `TypeOK`, `HearsDrumStem`, `RhythmKept` |
| `melody_times` | all peaks and fades on ten frames | `TypeOK`, `AttacksMerged`, `NoAttackLost`, `NotesInTurn`, `ShortOnlyWhenCut` |
| `melody_lanes` | all brightness values of up to six notes, three and five lanes, edges rounded either way | `LanesBalanced`, `CrowdedByEqualsOnly` |
| `melody_combo` | notes of 0.5 to 2 s at 120 bpm | `ComboCountsBeats` **violated**, see below |
| `migrations` | two runners that stop anywhere, three files | `TypeOK`, `RecordedWasApplied`, `StaleRunnerStops`, `InFilenameOrder` |

The pipeline runs come to rest (finitely many requests), and so do the note
runs, which end with the notes: hence `CHECK_DEADLOCK FALSE`. `ApiProcess` and `Migrations` never rest and are checked for deadlock.

The properties of `retries` are not claimed beyond what it allows. With a lost
reply of `add_flow` a second flow appears; with a lost reply of `mark_completed`
the last attempt turns a completed job into a failed one, and an earlier one
inserts a second beatmap; with a redelivered task a late `mark_failed` may follow
a completion. Those are the limits of the design, and the theorems of section 4
name them as assumptions.

**Bounds.** One job is enough for the fault runs: jobs share nothing but workers,
and keys, documents and tasks all carry the job id; `deployment` has two, since
there a job waits for workers busy with another. `retries` has the three attempts of
`MapsJobConfig`; two, elsewhere, give one that is not final and one that is; `faults` and `source_of_truth`
leave the second to the stem task. `MaxStalledCount = 1` is BullMQ's default.
`Clock` has two times in `retries`, where the order of the list is looked at, and
one elsewhere. `MaxFlows` bounds the separations of a job; it is at least the attempts of the
stem task plus the stalls it survives, so that it never disables `Separate`, and
where no stem worker dies the attempts suffice. `faults` has a second kick and a
second melody worker, without which a task could not be redelivered while its
first run goes on. `MaxStops = 2` in `deployment` lets one process be stopped
twice, as often as a task must stall to be lost, or two processes at once;
`shutdown` has one signal and many failures. In `api_process` two faults let both
pings of one request fail, or a service go down after a refusal.

`kick_notes` has the hop and rate of the code. In `melody_times` the hop has 4
samples: 2.5 frames to the wait, as at 44.1 kHz, but fewer frames to the minimum
(4.25, as at 44.1 kHz) and maximum duration (6.5 instead of 344), so that every
cap is reached on ten frames. `melody_combo` uses frames of half a second to
reach long notes. `melody_lanes` has the smallest case in which the code's own
floats leave the exact edge (five lanes, six notes), and three lanes, where some
edges fall between notes.

**Fairness.** `ProcFairSpec` of `WorkerProcess`: a request, run or `main()` that can
take its next step does, since the event loop is fair and every awaited call
returns or raises; an open worker takes a waiting task; the stalled checker, a
timer in every BullMQ worker, notices a dead run; somebody starts a stopped
process again, which is what a deployment does. All weak, per process or request;
nothing is assumed to fail, crash or be signalled, and a task the checker gives up
is excepted from `EverySongSettles`. `FairSpec` of `ApiProcess`: a start that was
begun goes on, since every call of `ensure_bucket` returns or raises. Nothing starts
a process that ended, and no outage need end.

### Disagreements met

- `source_of_truth`: README.md:13 calls MongoDB the "source of truth for job
  status". A worker that dies twice on one task leaves `queued` (before
  `mark_processing`) or `processing` for ever: the stalled checker fails the task inside BullMQ and `mark_failed` is only ever
  called by a handler.
- `melody_combo`: `calculate_melody_combo` divides milliseconds by beats per
  minute. Its test is named `..._counts_beats_spanned_by_the_hold` but asserts 16
  for a hold of 2000 ms at 120 bpm, which spans 4 beats; `_MS_PER_MINUTE` is
  defined and never used.

## 4. Proofs

The theorems hold for every set of jobs, workers and processes and every number
of attempts, stalls, flows, outages and files. They use the named assumptions on
the constants (`BullMQAssumption`, `PipelineAssumption`, ...) and, where a theorem
says so, one of these about the failures:

| Assumption | Excludes |
|---|---|
| `OneFlow` | a lost reply of `add_flow`, stem workers that die or block |
| `OneInsert` | also: a lost reply of `insert_beatmap`, any failure of `mark_completed`, beatmap workers that die or block |
| `OneFate` | besides `OneFlow`: a lost reply of `mark_completed`, any worker that dies or blocks |
| `NoFailure` | every failure; signals remain |

| Theorem | Establishes | Assumes |
|---|---|---|
| `TypeCorrect`, `IdsResolve`, `StagingSafe`, `MergesSafe` | `TypeOK`, `BeatmapIdResolves`, `StagedBeforeQueued`, `MergesOwnChildren` | - |
| `ErrorsAreFinal`, `ParentsReleased`, `ListingBounded` | `ErrorOnlyWhenExhausted`, `ParentsAwaitWork`, `ListedOncePerAttempt` | - |
| `FailuresReported` | `FailureReported` | `mark_failed` does not raise |
| `SeparationSafe` | `OneSeparation` | `OneFlow` |
| `AudioSafe`, `LinksSafe` | `AudioStands`, `LinksStand` | - |
| `PublishedOnce`, `DeploymentsListOnce` | a song is listed once (`OneBeatmapPerJob`), of `Spec` and of `ProcSpec` | `OneInsert` |
| `AnswersSafe`, `LifecycleKept` | `AnswersAgree`, `FollowsLifecycle` | `OneFate` |
| `DeploymentsKeepOutcomes` | the same two, of `ProcSpec` | `OneFate` |
| `OutcomesRecorded` | `OutcomeRecorded` | `OneFate`, and `mark_failed` does not raise |
| `PipelineKept`, `ClientsSafe` | `KeepsPipeline`, `ClientsOutliveRuns` | - |
| `ShutdownsFree` | `ShutdownCostsNothing` | `NoFailure` |
| `ApiTypeCorrect`, `BucketSafe`, `RequestsSafe`, `ReadinessSafe` | `TypeOK`, `BucketReady`, `ClientsOutliveRequests`, `HonestReadiness` | - |
| `MelodyTypeCorrect`, `NotesKeepTurn`, `ShortNotesCut` | `TypeOK`, `NotesInTurn`, `ShortOnlyWhenCut` | - |
| `AttacksMerge`, `AttacksKept`, `LanesAreBalanced` | `AttacksMerged`, `NoAttackLost`, `LanesBalanced` | - |
| `KickTypes`, `KicksFromStem`, `RhythmIsKept` | `TypeOK`, `HearsDrumStem`, `RhythmKept` | - |
| `MigrationsTypeCorrect`, `RecordedCorrect`, `StaleCorrect`, `OrderCorrect` | `TypeOK`, `RecordedWasApplied`, `StaleRunnerStops`, `InFilenameOrder` | - |

**The pipeline** is proved in layers; each inductive invariant contains the one
before it, and there is one lemma per action.

1. `PipelineInv` (`BeatmapPipelineProofs`). That the beatmap a run completes its job
   with exists depends on what the run remembers, so `RunInv` says for each
   program counter what its run holds and what it left behind; `RequestInv` does
   the same for requests. `MergesOwnChildren` must survive a second run of the same
   beatmap task and a second flow of the same job: it rests on `QueueInv` and
   `QueueProgress` (a completed task never changes; lemmas of the first section,
   one per queue operation) and on `StagingDisjoint` with `FlowInv` (two runs never hold the
   same flow number, and it is unused until the flow is added). `Grows`, what no
   step takes back, carries the parts a step does not touch.
2. `AttemptsInv` (`RetryProofs`). `CountInv`: a run never counts more attempts
   than BullMQ, and exactly as many while it holds the lock, which only a blocked
   handler can lose. `ReportInv`: a run about to give up for good has left its
   error in the document. Together they tie the two counts of attempts.
   `ParentsAwaitWork` is inductive with them: a beatmap task that waits has a child that is waiting or active
   and none that failed. It needs no assumption on failures: the child that ends
   last releases its parent, and the one that fails first takes it along, also
   when the stalled checker fails it.
3. `SeparationInv` (`RetryProofs`). `StemInv`: under `OneFlow` a stem task with a
   flow is completed or about to return, so it is not retried; then the stems in
   the bucket are those of the one flow (`StemsInv`, `FlowStems`) and so are the
   notes (`NotesInv`, `ValueInv`). `HeldInv` adds that active tasks have their runs
   and that a released beatmap task has both children's results.
4. `PublishedInv`, `OutcomeInv`, `RecordInv` (`ServiceProofs`). `PublishedInv`:
   the task of every beatmap is past its insert and never comes back to it.
   `ListingBounded` needs none of this and no assumption: each insert is paid for by
   an attempt that was begun (`Begun`), whatever repeats it.
   `FateInv` ties the document to the queues: *completed* exactly when a beatmap
   task has returned or is about to (`Done`), *failed* only when a task has failed
   or is about to (`Doomed`), *queued* only before the stem task comes past
   `mark_processing` (`Early`). A task cannot be both, and a failed one leaves the
   rest of its job waiting for ever, so no second outcome is written. `RecordInv`
   is the chain from the accepted request to the beatmap task; with `ParentsAwaitWork` its
   last link cannot wait for ever, so an accepted job that has not settled always has
   a task in a worker's hands or waiting for one (`OutcomeRecorded`). This is the
   part of `EverySongSettles` that needs no fairness.

**Worker processes.** `ProcInv` adds `ClientsInv`: what is open while a run may
exist, that none exists in a process past that point, and that a run works on a
task of its own queue, since only the stem handler holds a flow producer. It makes
every step one of `BeatmapPipeline`, so all of the above holds with processes that
come and go. `CostInv` says that no run is on its way to `raise`; with `HeldInv`
nothing a run needs is missing.

**API processes.** `ApiInv`: serving processes hold all clients, a request under way
has seen the services as they are (`WatchInv`), and each ping that is over agrees
with what was seen (`PingInv`).

**Migrations.** `ListInv`: below any file on a runner's list, each file is on the list
or recorded, so the smallest one is always next in order. `LatestInv`: everything
below the migration that changed the data last is recorded, so a step back in the
order can only be a repeat.

**Melody notes.** `MelodyInv` says where every end lies (`EndsInTurn`: between the start
and the next onset, and short only if cut), for any set of onsets.
`RoundError` bounds what `round` loses, and `MillisAddUp` what rounding start and
duration separately may add. `MelodyAssumption` asks that the minimum duration
not exceed the maximum, as the two constants of the code do.

What the scan of `onset_detect` keeps is a recursive function (`LastKept`). `SetInduction`
proves of a set of numbers that it holds them all, if it holds 0 and with each number
the next: the frames up to which the scan is defined are such a set (`ScanExists`),
and so are the distances over which it does not fall back (`ScanGrows`). Hence two
onsets are more than the wait apart (`PickedApartEnough`), and a dropped peak lies within
the wait of the onset kept last before it (`DroppedBehindOnset`), for every set of peaks.
`WaitInFrames` turns frames into milliseconds again, with the half frame that
rounding the wait may cost in either direction.

`LanesBalanced` rests on ranks: `Rank(S, v, x)` counts the members of `S` below `x`, and
`Ranks` shows that different values have the ranks 0 to |S| - 1. The k-th value
(`Kth`, a `CHOOSE`) is then the one of rank k, and a note has reached an edge if its
rank is beyond it, and has not if its rank falls short; where the two meet,
rounding decides (`EdgeByRank`). So the notes of a lane lie between two intervals
of ranks (`LaneByRank`), `RanksInInterval` counts both, and each is within one of
the share (`LaneSize`).

**Kick notes.** `KickInv`: from the second download on, the directory is `Files`, where
an upload of that name has replaced `drums.wav`, and each note stands at its onset
(`NotesFollow`). `AscendingOrders` shows by ranks that the onsets are the picked
frames, each once, in order; `CurveHasPeak` that the peak by which strengths are
divided exists. `MillisKeepDistance` bounds the distance of two rounded times,
whichever the two are: this is why errors do not add up over a song.

**Only model-checked**: the liveness properties `SongsComplete`, `StopCompletes`,
`EverySongSettles` and `SomeProcessServes`, which need fairness and `ENABLED`, and
`CrowdedByEqualsOnly`, where notes share a brightness and ranks no longer tell them
apart. Every other invariant and action property of the passing runs is proved.

## 5. Not modelled

- Signal processing (`_superflux`, filterbanks, the kick band, demucs): floating
  point in library calls. Its results enter as inputs.
- nginx: configuration of a cache. What makes caching safe is `AudioStands`.
- Configuration, logging, error classes, schema validation: constants and data
  classes; producers and consumers of a payload use the same classes.
- The golden-track tests: test support, called by nothing in the running system.
- Backoff delays: there is no clock, and a task that backs off waits like another.
- Hazards without a property. What the code does not guard against cannot be
  claimed, so the properties exclude it by name, in the constants of their runs and
  the assumptions of their theorems: a stem run repeated after its flow was queued
  (`stem_handler.py:72`) and a late attempt of it that takes a settled job back
  (`stem_handler.py:54`); a completion that keeps the error of an earlier failure
  (`repository.py:57`); `mark_failed` itself raising (`stem_handler.py:44`); the
  queued document an aborted request leaves behind (`service.py:56`); an upload
  called `drums.wav` (`kick_handler.py:54`). All of these are reachable in the
  models. `runner.py:37`, a lower-numbered migration merged late, is ruled out by
  `migrations/README.md`; `notes_service.py:258`, `bpm = 0`, raises in the model as
  in the code, and nothing in the repository says what should happen.

## 6. Plan

Done: the pipeline with its stores and queues, the read endpoints, worker and API
processes, both note builders, migrations; every safety property the runs check but
`CrowdedByEqualsOnly` proved.

Left:

1. An abstract queue that runs every task at least once and gives it up only after
   its last attempt or stall, refined by `BullMQ` with the handlers.
2. `CrowdedByEqualsOnly` for any number of notes, with ranks that count equals.
3. `compare_onsets` of the golden tests against a maximal matching.

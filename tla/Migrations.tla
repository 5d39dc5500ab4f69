----------------------------- MODULE Migrations -----------------------------
(***************************************************************************)
(* migrations/runner.py: several processes may run run_migrations against  *)
(* one database, each may stop anywhere, and new files are merged between  *)
(* runs.  A migration is known by its number; migrations/README.md asks    *)
(* for the next free number, so the files are always 1..files.             *)
(***************************************************************************)
EXTENDS Naturals, FiniteSets

CONSTANTS
  Runners,     \* processes running `python -m migrations.runner`
  MaxFiles     \* bound on the migration files ever written

ASSUME MigrationsAssumption == MaxFiles \in Nat

VARIABLES
  files,       \* how many migration files the folder holds
  effect,      \* effect[m]: how far some run of up() of migration m has come
  latest,      \* the migration whose up() changed the data last, 0 before any
  recorded,    \* names in the _migrations collection
  runner,      \* runner[r]: where run_migrations of process r is
  redone       \* redone[r]: migrations r applied although they were recorded

vars == <<files, effect, latest, recorded, runner, redone>>

Numbers == 1..MaxFiles

\* `todo` is what the loop has still to visit: discovered, and not among the
\* names read at the start.
RunnerRecord ==
  [pc : {"idle", "loop", "record"}, todo : SUBSET Numbers]

Stopped == [pc |-> "idle", todo |-> {}]

TypeOK ==
  /\ files \in 0..MaxFiles
  /\ effect \in [Numbers -> {"none", "partial", "full"}]
  /\ latest \in 0..MaxFiles
  /\ recorded \in SUBSET Numbers
  /\ runner \in [Runners -> RunnerRecord]
  /\ redone \in [Runners -> Nat]

Init ==
  /\ files = 0
  /\ effect = [m \in Numbers |-> "none"]
  /\ latest = 0
  /\ recorded = {}
  /\ runner = [r \in Runners |-> Stopped]
  /\ redone = [r \in Runners |-> 0]

\* A developer adds the next-numbered file.
AddFile ==
  /\ files < MaxFiles
  /\ files' = files + 1
  /\ UNCHANGED <<effect, latest, recorded, runner, redone>>

\* Slip: the glob is not sorted.
AnyOf(r, m) == m \in runner[r].todo

\* The loop visits the files in the order _discover sorted them.
NextOf(r, m) == m \in runner[r].todo /\ \A k \in runner[r].todo : m <= k

\* Slip: the glob takes every file, and runner.py (0) is run as a migration.
StartAnyFile(r) ==
  /\ runner[r].pc = "idle"
  /\ runner' = [runner EXCEPT ![r] = [pc |-> "loop", todo |-> (0..files) \ recorded]]
  /\ redone' = [redone EXCEPT ![r] = 0]
  /\ UNCHANGED <<files, effect, latest, recorded>>

\* Read _migrations and discover the files, with no await in between.
Start(r) ==
  /\ runner[r].pc = "idle"
  /\ runner' = [runner EXCEPT ![r] = [pc |-> "loop", todo |-> (1..files) \ recorded]]
  /\ redone' = [redone EXCEPT ![r] = 0]
  /\ UNCHANGED <<files, effect, latest, recorded>>

\* `await module.up(db)` returns.  A migration recorded since this runner read
\* the names is run all the same, and changes the data a second time.
Up(r, m) ==
  /\ runner[r].pc = "loop"
  /\ NextOf(r, m)
  /\ effect' = [effect EXCEPT ![m] = "full"]
  /\ latest' = m
  /\ runner' = [runner EXCEPT ![r].pc = "record"]
  /\ redone' = [redone EXCEPT ![r] = IF m \in recorded THEN @ + 1 ELSE @]
  /\ UNCHANGED <<files, recorded>>

\* Slip: an exception of up() is caught, and the migration recorded all the
\* same.
UpCaught(r, m) ==
  /\ runner[r].pc = "loop"
  /\ NextOf(r, m)
  /\ effect' = [effect EXCEPT ![m] = IF @ = "full" THEN @ ELSE "partial"]
  /\ latest' = m
  /\ runner' = [runner EXCEPT ![r].pc = "record"]
  /\ UNCHANGED <<files, recorded, redone>>

\* up() raises, or the process stops inside it: part of it is done.  Nothing
\* catches the exception, the run ends.
UpStopped(r, m) ==
  /\ runner[r].pc = "loop"
  /\ NextOf(r, m)
  /\ effect' = [effect EXCEPT ![m] = IF @ = "full" THEN @ ELSE "partial"]
  /\ latest' = m
  /\ runner' = [runner EXCEPT ![r] = Stopped]
  /\ UNCHANGED <<files, recorded, redone>>

\* Slip: the name is upserted, so a second insert succeeds.
UpsertRecord(r, m) ==
  /\ runner[r].pc = "record"
  /\ NextOf(r, m)
  /\ recorded' = recorded \cup {m}
  /\ runner' = [runner EXCEPT ![r] = [pc |-> "loop", todo |-> @.todo \ {m}]]
  /\ UNCHANGED <<files, effect, latest, redone>>

\* insert_one under the name as _id: the second insert of a name raises
\* DuplicateKeyError and the run ends.
Record(r, m) ==
  /\ runner[r].pc = "record"
  /\ NextOf(r, m)
  /\ IF m \in recorded
     THEN runner' = [runner EXCEPT ![r] = Stopped]
     ELSE runner' = [runner EXCEPT ![r] = [pc |-> "loop", todo |-> @.todo \ {m}]]
  /\ recorded' = recorded \cup {m}
  /\ UNCHANGED <<files, effect, latest, redone>>

\* Every file has been visited.
Finish(r) ==
  /\ runner[r].pc = "loop" /\ runner[r].todo = {}
  /\ runner' = [runner EXCEPT ![r] = Stopped]
  /\ UNCHANGED <<files, effect, latest, recorded, redone>>

\* The process stops between two awaits, or the insert raises.
Crash(r) ==
  /\ runner[r].pc # "idle"
  /\ runner' = [runner EXCEPT ![r] = Stopped]
  /\ UNCHANGED <<files, effect, latest, recorded, redone>>

Next ==
  \/ AddFile
  \/ \E r \in Runners :
       \/ Start(r) \/ Finish(r) \/ Crash(r)
       \/ \E m \in Numbers : Up(r, m) \/ UpStopped(r, m) \/ Record(r, m)

Spec == Init /\ [][Next]_vars
-----------------------------------------------------------------------------
\* A name in _migrations means its up() ran to the end, whoever ran it and
\* wherever other runs of it stopped: skipping it is safe.
RecordedWasApplied == \A m \in recorded : effect[m] = "full"

\* "Migrations run forward-only, in filename order": an up() changes the data
\* only when all lower-numbered migrations are recorded, also when several
\* runners overlap.  Forward-only is too much to say of an overlap: with a
\* stale list the data may see 1, 2, 1.  But a step back only ever repeats a
\* recorded migration, so StaleRunnerStops bounds it.
InFilenameOrder ==
  [][latest' # latest =>
       /\ \A k \in 1..(latest' - 1) : k \in recorded
       /\ latest' < latest => latest' \in recorded]_vars

\* A runner that works from a stale list of names repeats at most one recorded
\* migration before the duplicate insert stops it: it never replays history.
StaleRunnerStops == \A r \in Runners : redone[r] <= 1
=============================================================================

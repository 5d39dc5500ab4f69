-------------------------- MODULE MigrationsProofs --------------------------
(***************************************************************************)
(* The properties of Migrations for any number of runners and files.       *)
(*                                                                         *)
(* MigrationsInv adds to them what each runner may rely on: below the file *)
(* it looks at, every file is either still on its list or recorded.        *)
(***************************************************************************)
EXTENDS Migrations, TLAPS

\* Nothing below a file on the list was skipped; a runner about to record a
\* migration has applied it.
ListInv ==
  \A r \in Runners :
    /\ \A m \in runner[r].todo : \A k \in 1..(m - 1) :
         k \in runner[r].todo \/ k \in recorded
    /\ runner[r].pc = "record" =>
         \A m \in Numbers : NextOf(r, m) => effect[m] = "full"

\* A runner that has repeated a recorded migration is about to insert its name
\* again, or has stopped.
RedoneInv ==
  \A r \in Runners :
    redone[r] # 0 =>
      /\ redone[r] = 1
      /\ runner[r].pc # "loop"
      /\ runner[r].pc = "record" =>
           \A m \in Numbers : NextOf(r, m) => m \in recorded

\* Every migration below the one that changed the data last is recorded.
LatestInv == \A k \in 1..(latest - 1) : k \in recorded

MigrationsInv ==
  TypeOK /\ RecordedWasApplied /\ ListInv /\ RedoneInv /\ LatestInv

\* The invariant holds initially: nothing is recorded and no runner is busy.
LEMMA InitInv == Init => MigrationsInv
BY MigrationsAssumption
   DEF Init, MigrationsInv, TypeOK, RecordedWasApplied, ListInv, RedoneInv,
       LatestInv, RunnerRecord, Stopped, NextOf

\* A new run starts from the names it reads: files below one on its list are
\* on the list or were read as recorded.
LEMMA StartInv ==
  ASSUME NEW r \in Runners, MigrationsInv, Start(r)
  PROVE  MigrationsInv'
<1>1. TypeOK'
  <2>1. (1..files) \ recorded \in SUBSET Numbers
    BY MigrationsAssumption DEF MigrationsInv, TypeOK, Numbers
  <2>2. QED  BY <2>1 DEF MigrationsInv, TypeOK, Start, RunnerRecord
<1>2. RecordedWasApplied'  BY DEF MigrationsInv, Start, RecordedWasApplied
<1>3. ListInv'
  <2> SUFFICES ASSUME NEW q \in Runners
               PROVE  /\ \A m \in runner'[q].todo : \A k \in 1..(m - 1) :
                           k \in runner'[q].todo \/ k \in recorded'
                      /\ runner'[q].pc = "record" =>
                           \A m \in Numbers : NextOf(q, m)' => effect'[m] = "full"
    BY DEF ListInv
  <2>1. CASE q = r
    BY <2>1 DEF MigrationsInv, TypeOK, Start, RunnerRecord, Numbers
  <2>2. CASE q # r
    BY <2>2 DEF MigrationsInv, TypeOK, Start, ListInv, NextOf
  <2>3. QED  BY <2>1, <2>2
<1>4. RedoneInv'
  BY DEF MigrationsInv, TypeOK, Start, RedoneInv, NextOf, RunnerRecord
<1>5. LatestInv'  BY DEF MigrationsInv, Start, LatestInv
<1>6. QED  BY <1>1, <1>2, <1>3, <1>4, <1>5 DEF MigrationsInv

\* Everything below the file a runner is at is recorded.
LEMMA LowerRecorded ==
  ASSUME NEW r \in Runners, NEW m \in Numbers, MigrationsInv, NextOf(r, m)
  PROVE  \A k \in 1..(m - 1) : k \in recorded
<1> SUFFICES ASSUME NEW k \in 1..(m - 1) PROVE k \in recorded
  OBVIOUS
<1>1. k \notin runner[r].todo  BY DEF NextOf, Numbers
<1>2. QED  BY <1>1 DEF MigrationsInv, ListInv, NextOf

\* Applying a migration disturbs no other runner: effects only grow to full.
LEMMA UpInv ==
  ASSUME NEW r \in Runners, NEW m \in Numbers, MigrationsInv, Up(r, m)
  PROVE  MigrationsInv'
<1>1. TypeOK'
  <2>1. latest' \in 0..MaxFiles
    BY MigrationsAssumption DEF Up, Numbers
  <2>2. /\ effect' \in [Numbers -> {"none", "partial", "full"}]
        /\ redone' \in [Runners -> Nat]
        /\ runner' \in [Runners -> RunnerRecord]
    BY DEF MigrationsInv, TypeOK, Up, RunnerRecord
  <2>3. QED  BY <2>1, <2>2 DEF MigrationsInv, TypeOK, Up
<1>2. RecordedWasApplied'
  BY DEF MigrationsInv, TypeOK, Up, RecordedWasApplied
<1>3. ListInv'
  <2> SUFFICES ASSUME NEW q \in Runners
               PROVE  /\ \A n \in runner'[q].todo : \A k \in 1..(n - 1) :
                           k \in runner'[q].todo \/ k \in recorded'
                      /\ runner'[q].pc = "record" =>
                           \A n \in Numbers : NextOf(q, n)' => effect'[n] = "full"
    BY DEF ListInv
  <2>1. runner'[q].todo = runner[q].todo
    BY DEF MigrationsInv, TypeOK, Up, RunnerRecord
  <2>2. \A n \in Numbers : NextOf(q, n)' <=> NextOf(q, n)
    BY <2>1 DEF NextOf
  <2>3. CASE q = r
    <3>1. \A n \in Numbers : NextOf(r, n) => n = m
      BY DEF Up, NextOf, MigrationsInv, TypeOK, Numbers
    <3>2. QED
      BY <2>1, <2>2, <2>3, <3>1 DEF MigrationsInv, TypeOK, Up, ListInv
  <2>4. CASE q # r
    BY <2>1, <2>2, <2>4 DEF MigrationsInv, TypeOK, Up, ListInv
  <2>5. QED  BY <2>3, <2>4
<1>4. RedoneInv'
  <2> SUFFICES ASSUME NEW q \in Runners, redone'[q] # 0
               PROVE  /\ redone'[q] = 1
                      /\ runner'[q].pc # "loop"
                      /\ runner'[q].pc = "record" =>
                           \A n \in Numbers : NextOf(q, n)' => n \in recorded'
    BY DEF RedoneInv
  <2>1. runner'[q].todo = runner[q].todo
    BY DEF MigrationsInv, TypeOK, Up, RunnerRecord
  <2>2. \A n \in Numbers : NextOf(q, n)' <=> NextOf(q, n)
    BY <2>1 DEF NextOf
  <2>3. CASE q = r
    <3>1. redone[r] = 0
      BY DEF MigrationsInv, TypeOK, RedoneInv, Up
    <3>2. m \in recorded /\ redone'[r] = 1 /\ runner'[r].pc = "record"
      BY <2>3, <3>1 DEF MigrationsInv, TypeOK, Up
    <3>3. \A n \in Numbers : NextOf(r, n) => n = m
      BY DEF Up, NextOf, MigrationsInv, TypeOK, Numbers
    <3>4. QED  BY <2>2, <2>3, <3>2, <3>3 DEF Up
  <2>4. CASE q # r
    <3>1. redone'[q] = redone[q] /\ runner'[q] = runner[q] /\ recorded' = recorded
      BY <2>4 DEF MigrationsInv, TypeOK, Up
    <3>2. QED  BY <2>2, <3>1 DEF MigrationsInv, RedoneInv
  <2>5. QED  BY <2>3, <2>4
<1>5. LatestInv'
  <2>1. latest' = m /\ recorded' = recorded /\ NextOf(r, m)  BY DEF Up
  <2>2. QED  BY <2>1, LowerRecorded DEF LatestInv
<1>6. QED  BY <1>1, <1>2, <1>3, <1>4, <1>5 DEF MigrationsInv

\* Every way a run ends leaves the runner idle with an empty list, keeps what
\* is recorded and undoes no migration that was applied in full.
LEMMA StopInv ==
  ASSUME NEW r \in Runners, MigrationsInv,
         runner' = [runner EXCEPT ![r] = Stopped],
         effect' \in [Numbers -> {"none", "partial", "full"}],
         \A m \in Numbers : effect[m] = "full" => effect'[m] = "full",
         latest' \in 0..MaxFiles, LatestInv',
         UNCHANGED <<files, recorded, redone>>
  PROVE  MigrationsInv'
<1>1. TypeOK'  BY DEF MigrationsInv, TypeOK, Stopped, RunnerRecord
<1>2. RecordedWasApplied'
  BY DEF MigrationsInv, TypeOK, RecordedWasApplied
<1>3. \A q \in Runners : \/ runner'[q] = Stopped
                         \/ runner'[q] = runner[q]
  BY DEF MigrationsInv, TypeOK
<1>4. ListInv'
  BY <1>3 DEF MigrationsInv, TypeOK, ListInv, Stopped, NextOf
<1>5. RedoneInv'
  BY <1>3 DEF MigrationsInv, TypeOK, RedoneInv, Stopped, NextOf
<1>6. QED  BY <1>1, <1>2, <1>4, <1>5 DEF MigrationsInv

\* Recording the file the loop is at takes it off the list and puts it where
\* the list's promise still finds it.
LEMMA RecordInv ==
  ASSUME NEW r \in Runners, NEW m \in Numbers, MigrationsInv, Record(r, m)
  PROVE  MigrationsInv'
<1>1. CASE m \in recorded
  <2>1. recorded' = recorded  BY <1>1 DEF Record
  <2>2. runner' = [runner EXCEPT ![r] = Stopped]  BY <1>1 DEF Record
  <2>3. UNCHANGED <<files, effect, latest, redone>>  BY DEF Record
  <2>4. LatestInv'  BY <2>1, <2>3 DEF MigrationsInv, LatestInv
  <2>5. QED  BY <2>1, <2>2, <2>3, <2>4, StopInv DEF MigrationsInv, TypeOK
<1>2. CASE m \notin recorded
  <2>1. /\ runner[r].pc = "record" /\ NextOf(r, m)
        /\ recorded' = recorded \cup {m}
        /\ UNCHANGED <<files, effect, latest, redone>>
    BY DEF Record
  <2>2. /\ runner'[r] = [pc |-> "loop", todo |-> runner[r].todo \ {m}]
        /\ \A q \in Runners \ {r} : runner'[q] = runner[q]
        /\ runner' \in [Runners -> RunnerRecord]
    BY <1>2 DEF MigrationsInv, TypeOK, Record, RunnerRecord
  <2>3. TypeOK'  BY <2>1, <2>2 DEF MigrationsInv, TypeOK
  <2>4. RecordedWasApplied'
    BY <2>1 DEF MigrationsInv, RecordedWasApplied, ListInv
  <2>5. ListInv'
    <3> SUFFICES ASSUME NEW q \in Runners
                 PROVE  /\ \A n \in runner'[q].todo : \A k \in 1..(n - 1) :
                             k \in runner'[q].todo \/ k \in recorded'
                        /\ runner'[q].pc = "record" =>
                             \A n \in Numbers : NextOf(q, n)' => effect'[n] = "full"
      BY DEF ListInv
    <3>1. CASE q = r
      BY <2>1, <2>2, <3>1 DEF MigrationsInv, ListInv
    <3>2. CASE q # r
      BY <2>1, <2>2, <3>2 DEF MigrationsInv, ListInv, NextOf
    <3>3. QED  BY <3>1, <3>2
  <2>6. redone[r] = 0
    BY <1>2, <2>1 DEF MigrationsInv, RedoneInv
  <2>7. RedoneInv'
    <3> SUFFICES ASSUME NEW q \in Runners, redone'[q] # 0
                 PROVE  /\ redone'[q] = 1
                        /\ runner'[q].pc # "loop"
                        /\ runner'[q].pc = "record" =>
                             \A n \in Numbers : NextOf(q, n)' => n \in recorded'
      BY DEF RedoneInv
    <3>1. q # r  BY <2>1, <2>6
    <3>2. QED  BY <2>1, <2>2, <3>1 DEF MigrationsInv, RedoneInv, NextOf
  <2>8. LatestInv'  BY <2>1 DEF MigrationsInv, LatestInv
  <2>9. QED  BY <2>3, <2>4, <2>5, <2>7, <2>8 DEF MigrationsInv
<1>3. QED  BY <1>1, <1>2

\* Every step of every runner keeps the invariant.
LEMMA NextInv == MigrationsInv /\ [Next]_vars => MigrationsInv'
<1> SUFFICES ASSUME MigrationsInv, [Next]_vars PROVE MigrationsInv'
  OBVIOUS
<1>1. CASE AddFile
  BY <1>1, MigrationsAssumption
     DEF AddFile, MigrationsInv, TypeOK, RecordedWasApplied, ListInv, RedoneInv,
         LatestInv, NextOf
<1>2. ASSUME NEW r \in Runners, Start(r) PROVE MigrationsInv'
  BY <1>2, StartInv
<1>3. ASSUME NEW r \in Runners, Finish(r) PROVE MigrationsInv'
  BY <1>3, StopInv DEF Finish, MigrationsInv, TypeOK, LatestInv
<1>4. ASSUME NEW r \in Runners, Crash(r) PROVE MigrationsInv'
  BY <1>4, StopInv DEF Crash, MigrationsInv, TypeOK, LatestInv
<1>5. ASSUME NEW r \in Runners, NEW m \in Numbers, Up(r, m) PROVE MigrationsInv'
  BY <1>5, UpInv
<1>6. ASSUME NEW r \in Runners, NEW m \in Numbers, UpStopped(r, m)
      PROVE  MigrationsInv'
  <2>1. /\ effect' \in [Numbers -> {"none", "partial", "full"}]
        /\ \A k \in Numbers : effect[k] = "full" => effect'[k] = "full"
    BY <1>6 DEF UpStopped, MigrationsInv, TypeOK
  <2>2. latest' = m /\ recorded' = recorded /\ NextOf(r, m)
    BY <1>6 DEF UpStopped
  <2>3. LatestInv'  BY <1>6, <2>2, LowerRecorded DEF LatestInv
  <2>4. latest' \in 0..MaxFiles  BY <2>2, MigrationsAssumption DEF Numbers
  <2>5. QED  BY <1>6, <2>1, <2>3, <2>4, StopInv DEF UpStopped
<1>7. ASSUME NEW r \in Runners, NEW m \in Numbers, Record(r, m)
      PROVE  MigrationsInv'
  BY <1>7, RecordInv
<1>8. CASE UNCHANGED vars
  BY <1>8 DEF vars, MigrationsInv, TypeOK, RecordedWasApplied, ListInv, RedoneInv,
              LatestInv, NextOf
<1>9. QED  BY <1>1, <1>2, <1>3, <1>4, <1>5, <1>6, <1>7, <1>8 DEF Next

\* The inductive invariant holds in every reachable state.
LEMMA InvHolds == Spec => []MigrationsInv
BY InitInv, NextInv, PTL DEF Spec

\* The variables keep their types.
THEOREM MigrationsTypeCorrect == Spec => []TypeOK
<1>1. MigrationsInv => TypeOK  BY DEF MigrationsInv
<1>2. QED  BY <1>1, InvHolds, PTL

\* Whatever runners overlap and wherever they stop, a name in _migrations
\* stands for a migration that was applied in full.
THEOREM RecordedCorrect == Spec => []RecordedWasApplied
<1>1. MigrationsInv => RecordedWasApplied  BY DEF MigrationsInv
<1>2. QED  BY <1>1, InvHolds, PTL

\* A runner repeats at most one migration that another one had recorded.
THEOREM StaleCorrect == Spec => []StaleRunnerStops
<1>1. MigrationsInv => StaleRunnerStops
  BY DEF MigrationsInv, TypeOK, RedoneInv, StaleRunnerStops
<1>2. QED  BY <1>1, InvHolds, PTL

\* An up() changes the data only when all lower-numbered migrations are
\* recorded, and goes back only to repeat a recorded one.
THEOREM OrderCorrect == Spec => InFilenameOrder
<1>1. ASSUME MigrationsInv, [Next]_vars
      PROVE  [latest' # latest =>
                /\ \A k \in 1..(latest' - 1) : k \in recorded
                /\ latest' < latest => latest' \in recorded]_vars
  <2> SUFFICES ASSUME Next, latest' # latest
               PROVE  /\ \A k \in 1..(latest' - 1) : k \in recorded
                      /\ latest' < latest => latest' \in recorded
    BY <1>1 DEF vars
  <2>1. PICK r \in Runners, m \in Numbers : Up(r, m) \/ UpStopped(r, m)
    BY DEF Next, AddFile, Start, Finish, Crash, Record
  <2>2. latest' = m /\ NextOf(r, m)
    BY <2>1 DEF Up, UpStopped
  <2>3. \A k \in 1..(latest' - 1) : k \in recorded
    BY <1>1, <2>2, LowerRecorded
  <2>4. latest' < latest => latest' \in recorded
    BY <1>1, <2>2, MigrationsAssumption
       DEF MigrationsInv, TypeOK, LatestInv, Numbers
  <2>5. QED  BY <2>3, <2>4
<1>2. QED  BY <1>1, InvHolds, PTL DEF Spec, InFilenameOrder
=============================================================================

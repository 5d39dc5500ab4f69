---------------------------- MODULE MCMigrations ----------------------------
(***************************************************************************)
(* Instances of Migrations for TLC: the runners are interchangeable.       *)
(***************************************************************************)
EXTENDS Migrations, TLC

RunnerSymmetry == Permutations(Runners)
=============================================================================

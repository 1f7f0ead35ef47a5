----------------------------- MODULE MCMigrate ------------------------------
(* Migrate with two interchangeable runners. *)
EXTENDS Migrate, TLC

Symmetry == Permutations(Runners)
=============================================================================

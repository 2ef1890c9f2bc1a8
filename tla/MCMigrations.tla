----------------------------- MODULE MCMigrations ------------------------------
(***************************************************************************)
(* Three processes and a user, from a new file or any version of it.       *)
(***************************************************************************)
EXTENDS Migrations, TLC

Interchangeable == Permutations(Processes)
===============================================================================

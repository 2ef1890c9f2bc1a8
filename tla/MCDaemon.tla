------------------------------ MODULE MCDaemon --------------------------------
(***************************************************************************)
(* Three processes at a time, a start and a stop under way beside them,    *)
(* one file.  A start that has forked is a process, so two starts at once  *)
(* are a child and the command.  Process ids are interchangeable; the run  *)
(* has no liveness.                                                        *)
(***************************************************************************)
EXTENDS Daemon, TLC

Interchangeable == Permutations(Pids)
===============================================================================

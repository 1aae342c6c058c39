---------------------------- MODULE MCTaskRunner ----------------------------
(***************************************************************************)
(* Small instances of TaskRunner for TLC.                                  *)
(***************************************************************************)
EXTENDS TaskRunner, TLC

Executors == Permutations(Procs)
=============================================================================

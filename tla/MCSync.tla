-------------------------------- MODULE MCSync --------------------------------
(* Small instances of Sync for TLC; the processes are interchangeable. *)
EXTENDS Sync, TLC

Symmetry == Permutations(Procs)
=============================================================================

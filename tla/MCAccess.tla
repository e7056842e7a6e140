------------------------------- MODULE MCAccess -------------------------------
(* Small instances of Access for TLC; the sessions are interchangeable. *)
EXTENDS Access, TLC

Symmetry == Permutations(Sess)
=============================================================================

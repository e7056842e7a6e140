---------------------------- MODULE MCWorkspaces ----------------------------
(* Small instances of Workspaces for TLC. *)
EXTENDS Workspaces, TLC

Symmetry == Permutations(Users) \cup Permutations(Titles)
=============================================================================

------------------------------ MODULE MCEmbedDim ------------------------------
(* Small instances of EmbedDim for TLC. *)
EXTENDS EmbedDim

CONSTANTS old, new

(* Two releases of the program on one store. *)
MCVersion == [p \in Procs |-> IF p = old THEN 1 ELSE 2]
=============================================================================

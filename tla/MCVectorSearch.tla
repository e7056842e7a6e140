---------------------------- MODULE MCVectorSearch ----------------------------
(* Small instances of VectorSearch for TLC. *)
EXTENDS VectorSearch

(* Two pairs of rows at equal distance and one far row. *)
MCDist == [i \in Ids |-> i \div 2]
=============================================================================

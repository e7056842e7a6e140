------------------------------ MODULE MCMemories ------------------------------
(* Small instances of Memories for TLC. *)
EXTENDS Memories, TLC

CONSTANTS t1, t2, t3

(* t1 and t2 are near-duplicates of each other, t3 is far from both. *)
MCDist == [p \in Texts \X Texts |->
             IF p[1] = p[2] THEN 0 ELSE IF t3 \in {p[1], p[2]} THEN 5 ELSE 1]

(* t3 apart, nothing tells calls, processes, scopes or texts from another. *)
Symmetry == Permutations(Calls) \cup Permutations(Handles)
              \cup Permutations(Scopes) \cup Permutations({t1, t2})
=============================================================================

------------------------------ MODULE MCChunker ------------------------------
(* A small instance of Chunker for TLC: every text of up to MaxLen characters. *)
EXTENDS Chunker

(***************************************************************************)
(* Size 5 with overlap 3 is the edge of the second part of Advances, and   *)
(* overlap 4, one short of the size, lies beyond it; size 6 is the least   *)
(* at which a pick of the smaller kind leaves text between itself and the  *)
(* end of the window.                                                      *)
(***************************************************************************)
MCSizes == {0, 5, 6}
MCOverlaps == {-1, 0, 3, 4}
=============================================================================

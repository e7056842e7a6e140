------------------------------- MODULE MCImport -------------------------------
(* Small instances of Import for TLC. *)
EXTENDS Import

(* Files 2 and 3 are copies of one session. *)
MCOrigin == [f \in Files |-> IF f = 3 THEN 2 ELSE f]

(* File 2 grows after an import too, the others get all messages at once. *)
MCMaxVersion == [f \in Files |-> IF f = 2 THEN 3 ELSE 2]
=============================================================================

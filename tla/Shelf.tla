--------------------------------- MODULE Shelf ---------------------------------
(***************************************************************************)
(* What the document store promises a reader, without chunks, vectors or   *)
(* calls.  A document is listed first, then its text is found, then its    *)
(* meaning; each of these all at once.  A document that is gone never      *)
(* comes back, and one that lost its scope never gets another.             *)
(***************************************************************************)
CONSTANTS Docs, Places, Nowhere

VARIABLES
    phase,      \* [Docs -> Phases], how much of a document a reader finds
    place       \* [Docs -> Places or Nowhere], the scope it is found under

shelf == <<phase, place>>

Phases == {"new", "listed", "readable", "searchable", "gone"}

Init ==
    /\ phase = [d \in Docs |-> "new"]
    /\ place = [d \in Docs |-> Nowhere]

Add(d) ==
    /\ phase[d] = "new"
    /\ phase' = [phase EXCEPT ![d] = "listed"]
    /\ \E p \in Places : place' = [place EXCEPT ![d] = p]

Read(d) ==
    /\ phase[d] = "listed"
    /\ phase' = [phase EXCEPT ![d] = "readable"]
    /\ UNCHANGED place

(* Any set of readable documents becomes searchable and any other set of   *)
(* searchable ones stops being so: an index is rebuilt as a whole.         *)
Reindex(on, off) ==
    /\ \A d \in on : phase[d] = "readable"
    /\ \A d \in off : phase[d] = "searchable"
    /\ phase' = [d \in Docs |-> IF d \in on THEN "searchable"
                                ELSE IF d \in off THEN "readable" ELSE phase[d]]
    /\ UNCHANGED place

Remove(d) ==
    /\ phase[d] \in {"listed", "readable", "searchable"}
    /\ phase' = [phase EXCEPT ![d] = "gone"]
    /\ place' = [place EXCEPT ![d] = Nowhere]

Close(p) ==
    /\ place' = [d \in Docs |-> IF place[d] = p THEN Nowhere ELSE place[d]]
    /\ UNCHANGED phase

Next ==
    \/ \E d \in Docs : Add(d) \/ Read(d) \/ Remove(d)
    \/ \E on, off \in SUBSET Docs : Reindex(on, off)
    \/ \E p \in Places : Close(p)

Spec == Init /\ [][Next]_shelf
=============================================================================

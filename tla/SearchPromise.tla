---------------------------- MODULE SearchPromise ----------------------------
(***************************************************************************)
(* What a store of texts with a search index promises, whatever the        *)
(* interleaving of its asynchronous writers (docs/ARCHITECTURE.md, section *)
(* Storage):                                                               *)
(*   - an id names one row for ever: it is used once, and a row that was   *)
(*     dropped does not come back;                                         *)
(*   - what a search can serve under an id is a live row, ranked by a text *)
(*     that this row holds or held.                                        *)
(* The index may lag behind (a stale or a missing entry); it is never      *)
(* wrong about whose entry it is.                                          *)
(***************************************************************************)
CONSTANTS Ids, Texts, None

VARIABLES
    text,   \* [Ids -> Texts or None], what each live row holds
    entry,  \* [Ids -> Texts or None], what a search can serve
    held    \* [Ids -> SUBSET Texts], everything each row has held

pvars == <<text, entry, held>>

PInit ==
    /\ text = [i \in Ids |-> None]
    /\ entry = [i \in Ids |-> None]
    /\ held = [i \in Ids |-> {}]

(* Entries may change with any step, within what their rows hold or held. *)
Honest ==
    /\ DOMAIN entry = Ids
    /\ \A i \in Ids : entry[i] # None => text[i] # None /\ entry[i] \in held[i]

Add(i, t) ==
    /\ held[i] = {}
    /\ text' = [text EXCEPT ![i] = t]
    /\ held' = [held EXCEPT ![i] = {t}]

Absorb(i, t) ==
    /\ text[i] # None
    /\ text' = [text EXCEPT ![i] = t]
    /\ held' = [held EXCEPT ![i] = @ \cup {t}]

Drop(i) ==
    /\ text[i] # None
    /\ text' = [text EXCEPT ![i] = None]
    /\ UNCHANGED held

PNext ==
    /\ \/ \E i \in Ids, t \in Texts : Add(i, t) \/ Absorb(i, t)
       \/ \E i \in Ids : Drop(i)
       \/ UNCHANGED <<text, held>>
    /\ Honest'

PSpec == PInit /\ [][PNext]_pvars
=============================================================================

---------------------------------- MODULE Store ----------------------------------
(***************************************************************************)
(* The gate of the store file (core/store/db.ts, openDb): processes may    *)
(* run different releases of the program, and a release refuses a store    *)
(* that a newer one has written.  It reads the version in `meta`, compares *)
(* it with its own, applies its schema and stamps its own version, in      *)
(* separate statements, while others do the same.  What openDb does after  *)
(* the stamp is in EmbedDim, which composes the two.                       *)
(***************************************************************************)
EXTENDS Integers

CONSTANTS
    Procs,      \* processes that open the store
    Version     \* [Procs -> SCHEMA_VERSION of the release each one runs]

ASSUME VersionAssumption == \A p \in Procs : Version[p] \in Nat \ {0}

VARIABLES
    stored,     \* schema_version in meta; 0 before the first stamp
    handle,     \* [Procs -> "closed", "checked" or "open"]: "checked"
                \* between the check and the stamp
    newest,     \* history variable: the highest version ever stamped
    overtaken   \* history variable: a newer release stamped the store
                \* while an older one stood between its check and its stamp

store == <<stored, handle, newest, overtaken>>

InitStore ==
    /\ stored = 0
    /\ handle = [p \in Procs |-> "closed"]
    /\ newest = 0
    /\ overtaken = FALSE

(* Mistake: the version is compared after it has been stamped.             *)
CheckNothing(p) ==
    /\ handle[p] = "closed"
    /\ handle' = [handle EXCEPT ![p] = "checked"]
    /\ UNCHANGED <<stored, newest, overtaken>>

(* Up to the gate; a newer version is refused and the file closed again.   *)
CheckVersion(p) ==
    /\ handle[p] = "closed"
    /\ stored <= Version[p]
    /\ handle' = [handle EXCEPT ![p] = "checked"]
    /\ UNCHANGED <<stored, newest, overtaken>>

(* runSchema only adds; stampSchemaVersion writes whatever lies there.     *)
Stamp(p) ==
    /\ handle[p] = "checked"
    /\ handle' = [handle EXCEPT ![p] = "open"]
    /\ stored' = Version[p]
    /\ newest' = IF Version[p] > newest THEN Version[p] ELSE newest
    /\ overtaken' = (overtaken \/ \E q \in Procs : /\ handle[q] = "checked"
                                                    /\ Version[q] < Version[p])

(* AppContext.close, or the end of the process, however far it had come:   *)
(* what throws in openDb behind the gate ends its command, too.            *)
Close(p) ==
    /\ handle[p] # "closed"
    /\ handle' = [handle EXCEPT ![p] = "closed"]
    /\ UNCHANGED <<stored, newest, overtaken>>

TypeOKStore ==
    /\ stored \in {0} \cup {Version[p] : p \in Procs}
    /\ handle \in [Procs -> {"closed", "checked", "open"}]
    /\ newest \in {0} \cup {Version[p] : p \in Procs}
    /\ overtaken \in BOOLEAN

(***************************************************************************)
(* db.ts:83-90: the version in a store never goes back, and no release     *)
(* gets past the gate of a store that a newer one has stamped - unless     *)
(* that one stamped it while an older one stood between its check and its  *)
(* stamp.  It says nothing of a handle that is open already: an older      *)
(* release goes on with it whatever a newer one stamps.                    *)
(***************************************************************************)
GateHolds ==
    ~overtaken =>
        /\ stored = newest
        /\ \A p \in Procs : handle[p] = "checked" => newest <= Version[p]
=============================================================================

-------------------------------- MODULE Import --------------------------------
(***************************************************************************)
(* Importing conversations (cli/commands/import.ts, core/importers,        *)
(* core/conversations/conversations.ts).  `dcx import auto` sweeps the     *)
(* session files of agent CLIs, meant to run on a schedule while sessions  *)
(* grow, and `dcx import <kind> <path>` imports one file.  A conversation  *)
(* is known by its source and external id; one without an id is given a    *)
(* fingerprint of its content.  `dcx reindex` embeds what is stored anew,  *)
(* and searches look for messages by meaning or by words.                  *)
(*                                                                         *)
(* A file holds one conversation.  Its first version has no message yet    *)
(* (or there is no file), each further one adds messages.  One root stands *)
(* for the two that a sweep visits one after the other.  Scopes and the    *)
(* source a search may be restricted to are left out.                      *)
(***************************************************************************)
EXTENDS Integers

CONSTANTS
    Files,      \* session files, integers: sorted as a sweep visits them
    Origin,     \* [Files -> Files], equal for copies of one session
    Identified, \* files whose lines carry a session id
    Undated,    \* files with a message that carries no date
    Sweepers,   \* processes the schedule starts for a sweep
    Manual,     \* processes the operator starts for one file
    MaxVersion, \* [Files -> Nat \ {0}], bound on the growth of a file
    MaxId,      \* bound on the rows AUTOINCREMENT hands out
    MaxTime,    \* bound on the times of parsing told apart
    MaxFaults,  \* bound on deletions, deaths and failures but an embedding's
    None        \* no row, no file, no content

Ids == 1..MaxId
Importers == Sweepers \cup Manual

ASSUME FilesAssumption == Files \subseteq Int /\ Origin \in [Files -> Files]
ASSUME FileKindsAssumption == Identified \subseteq Files /\ Undated \subseteq Files
ASSUME BoundsAssumption ==
    MaxVersion \in [Files -> Nat \ {0}] /\ {MaxId, MaxTime, MaxFaults} \subseteq Nat

(* Copies of a session consist of the same lines. *)
ASSUME CopiesAssumption ==
    \A f, g \in Files : Origin[f] = Origin[g] => (f \in Identified <=> g \in Identified)

VARIABLES
    disk,       \* [Files -> Versions], what a file holds
    rows,       \* [Ids -> Row or None], tables conversations and messages
    nextId,     \* AUTOINCREMENT
    vectors,    \* [Ids -> Row or None], messages_vec: what was embedded
    imp,        \* the importing processes
    faults      \* deletions, deaths and failures so far

varsImport == <<disk, rows, nextId, vectors, imp, faults>>

(***************************************************************************)
(* What identifies a conversation: its session, and unless it has an id of *)
(* its own its messages and the time given to those without a date.        *)
(***************************************************************************)
Versions == UNION {0..MaxVersion[f] : f \in Files}
Key == [session: Files, version: Versions, time: 0..MaxTime]

(* The file a row came from and the version read are history. *)
Row == [key: Key, file: Files, version: Versions \ {0, 1}]

ASSUME NoneAssumption == None \notin Files \cup Ids \cup Row

(***************************************************************************)
(* A process: `sweep` looks for its next file, `parsed` has read one, and  *)
(* `embed` has committed the conversation `id` and awaits its embeddings;  *)
(* `reindex` awaits those of the conversations it has read.                *)
(***************************************************************************)
Importer == [stage: {"off", "sweep", "parsed", "embed", "reindex"}, todo: SUBSET Files,
             read: Row \cup {None}, id: Ids \cup {None},
             all: [Ids -> Row \cup {None}]]

Empty == [i \in Ids |-> None]
Off == [stage |-> "off", todo |-> {}, read |-> None, id |-> None, all |-> Empty]

InitImport ==
    /\ disk = [f \in Files |-> 1]
    /\ rows = Empty
    /\ nextId = 1
    /\ vectors = Empty
    /\ imp = [p \in Importers |-> Off]
    /\ faults = 0

Store == <<rows, nextId, vectors>>

-----------------------------------------------------------------------------
(* A session appends to its file, or a copy of the file is renewed. *)
Grow(f) ==
    /\ disk[f] < MaxVersion[f]
    /\ disk' = [disk EXCEPT ![f] = @ + 1]
    /\ UNCHANGED <<Store, imp, faults>>

Fault == faults < MaxFaults /\ faults' = faults + 1

(* dcx import auto: the files there are. *)
StartSweep(p) ==
    /\ p \in Sweepers
    /\ imp[p].stage = "off"
    /\ imp' = [imp EXCEPT ![p] = [Off EXCEPT !.stage = "sweep", !.todo = Files]]
    /\ UNCHANGED <<disk, Store, faults>>

(***************************************************************************)
(* The external id a file's conversation may get: its session, or the      *)
(* fingerprint, in which the time of the parse stands for a missing date.  *)
(***************************************************************************)
KeysOf(f) ==
    [session: {Origin[f]},
     version: IF f \in Identified THEN {0} ELSE {disk[f]},
     time: IF f \in Undated \ Identified THEN 0..MaxTime ELSE {0}]

(* parseFile; a file without a message yet has no conversation. *)
Parse(p, f, todo) ==
    /\ \E key \in KeysOf(f) :
         imp' = [imp EXCEPT ![p] =
                   IF disk[f] = 1
                   THEN [@ EXCEPT !.todo = todo]
                   ELSE [@ EXCEPT !.todo = todo, !.stage = "parsed",
                           !.read = [key |-> key, file |-> f, version |-> disk[f]]]]
    /\ UNCHANGED <<disk, Store, faults>>

(* The next file of the sweep. *)
ParseNext(p) ==
    /\ imp[p].stage = "sweep"
    /\ \E f \in imp[p].todo :
         /\ \A g \in imp[p].todo : f <= g
         /\ Parse(p, f, imp[p].todo \ {f})

(* A file that cannot be read is reported, and the sweep goes on. *)
Unreadable(p) ==
    /\ imp[p].stage = "sweep"
    /\ Fault
    /\ \E f \in imp[p].todo :
         /\ \A g \in imp[p].todo : f <= g
         /\ imp' = [imp EXCEPT ![p].todo = @ \ {f}]
    /\ UNCHANGED <<disk, Store>>

(* dcx import <kind> <path>: read before the store is opened. *)
ImportOne(p, f) ==
    /\ p \in Manual
    /\ imp[p].stage = "off"
    /\ disk[f] > 1
    /\ Parse(p, f, {})

EndSweep(p) ==
    /\ imp[p].stage = "sweep" /\ imp[p].todo = {}
    /\ imp' = [imp EXCEPT ![p] = Off]
    /\ UNCHANGED <<disk, Store, faults>>

Present(key) == \E i \in Ids : rows[i] # None /\ rows[i].key = key

(* A manual import, or the last file of a sweep, leaves nothing to do. *)
Resume(p) == [imp EXCEPT ![p] = [@ EXCEPT !.stage = "sweep", !.read = None, !.id = None]]

(* Mistake: insert without looking for the key. *)
IngestAnyway(p) ==
    /\ imp[p].stage = "parsed"
    /\ nextId \in Ids
    /\ rows' = [rows EXCEPT ![nextId] = imp[p].read]
    /\ nextId' = nextId + 1
    /\ imp' = [imp EXCEPT ![p] = [@ EXCEPT !.stage = "embed", !.id = nextId]]
    /\ UNCHANGED <<disk, vectors, faults>>

(***************************************************************************)
(* The transaction of ingest: a known conversation is skipped, also when   *)
(* it has grown or was never embedded; else it is inserted, and committed  *)
(* before its embeddings are asked for.                                    *)
(***************************************************************************)
Ingest(p) ==
    /\ imp[p].stage = "parsed"
    /\ IF Present(imp[p].read.key)
       THEN imp' = Resume(p) /\ UNCHANGED <<rows, nextId>>
       ELSE /\ nextId \in Ids
            /\ rows' = [rows EXCEPT ![nextId] = imp[p].read]
            /\ nextId' = nextId + 1
            /\ imp' = [imp EXCEPT ![p] = [@ EXCEPT !.stage = "embed", !.id = nextId]]
    /\ UNCHANGED <<disk, vectors, faults>>

(***************************************************************************)
(* The vectors are written, also when the conversation was deleted in the  *)
(* meantime; a reindex that had it has written them, and they collide.     *)
(***************************************************************************)
WriteVectors(p) ==
    /\ imp[p].stage = "embed"
    /\ IF vectors[imp[p].id] = None
       THEN /\ vectors' = [vectors EXCEPT ![imp[p].id] = imp[p].read]
            /\ imp' = Resume(p)
       ELSE imp' = [imp EXCEPT ![p] = Off] /\ UNCHANGED vectors
    /\ UNCHANGED <<disk, rows, nextId, faults>>

(* dcx reindex: every message is read, and if there is none it is done. *)
StartReindex(p) ==
    /\ p \in Manual
    /\ imp[p].stage = "off"
    /\ IF rows = Empty
       THEN vectors' = Empty /\ UNCHANGED imp
       ELSE /\ imp' = [imp EXCEPT ![p] = [Off EXCEPT !.stage = "reindex", !.all = rows]]
            /\ UNCHANGED vectors
    /\ UNCHANGED <<disk, rows, nextId, faults>>

(* Its transaction: the whole index becomes what was read. *)
EndReindex(p) ==
    /\ imp[p].stage = "reindex"
    /\ vectors' = imp[p].all
    /\ imp' = [imp EXCEPT ![p] = Off]
    /\ UNCHANGED <<disk, rows, nextId, faults>>

(* Mistake: the conversation goes again when its embedding fails. *)
EmbedFailsAndUndoes(p) ==
    /\ imp[p].stage = "embed"
    /\ rows' = [rows EXCEPT ![imp[p].id] = None]
    /\ imp' = [imp EXCEPT ![p] = Off]
    /\ UNCHANGED <<disk, nextId, vectors, faults>>

(* The provider fails: the error ends the process, the store stays as is. *)
EmbedFails(p) ==
    /\ imp[p].stage \in {"embed", "reindex"}
    /\ imp' = [imp EXCEPT ![p] = Off]
    /\ UNCHANGED <<disk, Store, faults>>

(* Any process may die, or find the store locked when it wants to commit. *)
Die(p) ==
    /\ imp[p].stage # "off"
    /\ Fault
    /\ imp' = [imp EXCEPT ![p] = Off]
    /\ UNCHANGED <<disk, Store>>

(* Mistake: rowids without AUTOINCREMENT, the last one is given out again. *)
DeleteFreeingId(i) ==
    /\ rows[i] # None
    /\ Fault
    /\ rows' = [rows EXCEPT ![i] = None]
    /\ vectors' = [vectors EXCEPT ![i] = None]
    /\ nextId' = IF nextId = i + 1 THEN i ELSE nextId
    /\ UNCHANGED <<disk, imp>>

(* dcx history remove, and prune: the vectors, the messages and the row. *)
Delete(i) ==
    /\ rows[i] # None
    /\ Fault
    /\ rows' = [rows EXCEPT ![i] = None]
    /\ vectors' = [vectors EXCEPT ![i] = None]
    /\ UNCHANGED <<disk, nextId, imp>>

(* dcx vacuum: vectors without a message go. *)
Vacuum ==
    /\ vectors' = [i \in Ids |-> IF rows[i] = None THEN None ELSE vectors[i]]
    /\ UNCHANGED <<disk, rows, nextId, imp, faults>>

Run(p) ==
    \/ ParseNext(p) \/ EndSweep(p) \/ Ingest(p)
    \/ WriteVectors(p) \/ EmbedFails(p) \/ EndReindex(p)

NextImport ==
    \/ \E f \in Files : Grow(f)
    \/ \E p \in Importers :
         \/ StartSweep(p) \/ StartReindex(p) \/ Run(p) \/ Unreadable(p) \/ Die(p)
         \/ \E f \in Files : ImportOne(p, f)
    \/ \E i \in Ids : Delete(i)
    \/ Vacuum

(***************************************************************************)
(* The operator's schedule starts sweep after sweep, and a process that    *)
(* runs takes its steps.  The provider may fail every time.                *)
(***************************************************************************)
SpecImport ==
    /\ InitImport /\ [][NextImport]_varsImport
    /\ \A p \in Importers : WF_varsImport(StartSweep(p)) /\ WF_varsImport(Run(p))

-----------------------------------------------------------------------------
(***************************************************************************)
(* What is looked at without a change: the conversations there are, those  *)
(* that hold the messages looked for, and the search for them.  It goes by *)
(* meaning, keeping of the vectors it finds those of stored messages, or   *)
(* by words on a handle that knows of no vectors.                          *)
(***************************************************************************)
Listed == {i \in Ids : rows[i] # None}
Holding(text) == {i \in Listed : rows[i] = text}
VectorHits(text) == {i \in Listed : vectors[i] = text}
Words == rows    \* messages_fts, which triggers keep
KeywordHits(text) == {i \in Listed : Words[i] = text}
Hits(text) == {VectorHits(text), KeywordHits(text)}

-----------------------------------------------------------------------------
(* Types of the state. *)
TypeOKImport ==
    /\ disk \in [Files -> Versions \ {0}]
    /\ rows \in [Ids -> Row \cup {None}]
    /\ nextId \in 1..(MaxId + 1)
    /\ vectors \in [Ids -> Row \cup {None}]
    /\ imp \in [Importers -> Importer]
    /\ faults \in 0..MaxFaults

Once(files) ==
    \A i, j \in Ids :
      /\ rows[i] # None /\ rows[j] # None
      /\ {rows[i].file, rows[j].file} \subseteq files
      /\ Origin[rows[i].file] = Origin[rows[j].file]
      /\ rows[i].version = rows[j].version
      => i = j

(***************************************************************************)
(* However often a file or a copy of it is swept, by one process or by     *)
(* several at once, and whatever fails, what it holds is stored once,      *)
(* unless a message of it has no date.                                     *)
(***************************************************************************)
DatedOnce == TypeOKImport /\ Once(Files \ (Undated \ Identified))

(***************************************************************************)
(* conversations.ts:212 keys what a search finds by id: whatever it finds  *)
(* holds what was looked for, also when a conversation is deleted while    *)
(* its vectors are made, reindexed meanwhile and imported again.           *)
(***************************************************************************)
HitsHoldText == \A i \in Ids : vectors[i] # None =>
                  \A found \in Hits(vectors[i]) : found \subseteq Holding(vectors[i])

Stored(f) == \E key \in KeysOf(f) : Present(key)

(***************************************************************************)
(* import.ts:169 fears "sessions unimported forever".  Sweep after sweep,  *)
(* every session with messages gets stored and stays so, even when every   *)
(* embedding fails and ends its sweep: the next one finds that             *)
(* conversation committed, and gets one file further.                      *)
(***************************************************************************)
EventuallyStored == <>[](\A f \in Files : disk[f] > 1 => Stored(f))
=============================================================================

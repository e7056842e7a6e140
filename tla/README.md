# A verification of DarkContext in TLA+

DarkContext keeps a person's memories, documents and chat history in one SQLite file and serves them
to AI tools over MCP, with `dcx` as the operator's command line.  Every server, every command and
every scheduled job is a process of its own on that file.  This directory models the parts of it in
which order, failure and concurrency matter, checks them with TLC on small instances, and proves
every safety property of those runs for every instance with TLAPS.

Paths below are relative to `src/src/` of the repository unless they say otherwise. `PROJECT.json`
maps each definition to the lines it stands for, and lists the hazards, the runs, the mutants each
property must catch, and the theorems.

## 1. The system

### Components

| component | code | state | operations |
|---|---|---|---|
| Store | `core/store/db.ts`, `schema.sql` | `meta` (schema version, embedding dimension), the tables, FTS5 tables kept by triggers | open, apply schema, create vec0 tables, close |
| Memories | `core/memories/memories.ts` | rows of `memories` | remember, rememberOrMerge, forget, recall, reindex |
| Vector index | `core/store/vectorIndex.ts` | `memories_vec`, `chunks_vec`, `messages_vec`; the dimension cached in the open handle | write, replaceOne, deleteOne, deleteMany, truncate, reindex |
| Vector search | `core/store/vectorSearch.ts` | the window, its count, the survivors of one search | k-NN, hydrate in slices, count, widen |
| Documents, chunker | `core/documents` | `documents`, `chunks` | ingest, delete, search, reindex; `chunkText` |
| Conversations, import | `core/conversations`, `core/importers`, `cli/commands/import.ts` | `conversations`, `messages` | ingest, delete, search; import of a file, sweep of all session files |
| Scopes, tools, tokens | `core/scopes`, `core/tools`, `core/store/scopeHelpers.ts` | `scopes`, `tools`, `tool_scopes` | create, remove; add, authenticate, rotate, revoke |
| Server session | `mcp/server.ts`, `mcp/scopeFilter.ts`, `mcp/audit.ts`, `mcp/ui/api.ts`, `core/audit` | the authenticated tool with its grants, for the life of the process; `audit_log` | every MCP tool call, wrapped in a scope check and an audit row |
| Workspaces | `core/workspace` | `workspaces`, `workspace_items`, which one is active | create, setActive, add and remove items |
| Retention | `core/retention` | `retention_rules` | set and remove rules, preview, prune |
| Sync | `core/sync/sync.ts` | remote file, lock file, temporary file, sidecars | push, pull |
| Backup, restore, vacuum, reindex | `cli/commands` | the files, the vector tables | one command each |
| HTTP server | `mcp/httpServer.ts`, `mcp/server.ts`, `cli/commands/serve.ts` | connections, session, store handle | start, serve, close |
| Providers | `core/embeddings`, `core/llm`, `core/summarize` | batch probe, the shared ONNX pipeline | embed, generate |
| Export | `core/export` | none | one snapshot of all tables, whole or of a scope |

### How they interact

* Inside a process, JavaScript: a call runs until it awaits something, and that is nearly always an
  embedding.  better-sqlite3 is synchronous, so a statement or a transaction is one step.
* Between processes, the SQLite file in WAL mode: any statement of another process may come between
  two statements of this one.  Nothing tells a process what another one changed, and what it cached
  (grants, the embedding dimension) stays as it was.
* Between hosts, files: `dcx push` and `dcx pull` share a remote path and a lock file.
* Releases may differ between the processes on one file; `openDb` compares their schema versions.

### What is hard here, and what makes each part correct

* **Memories and index.**  The row is committed before the embedding is asked for, on purpose: a
  failing provider must not lose content.  So rows and vectors differ while calls wait, after
  failures and after deaths; a late vector, a merge found before an await, a vacuum or a reindex may
  meet a row that has gone.  Correct: no memory is ever found under another one's vector; a merge
  stays in its scope; nothing but a reindex takes the vector of a live row; a vector without a row
  has one of two known causes; used one call at a time, index and rows agree as the documentation
  says.
* **Vector search.**  sqlite-vec knows no filter, so the neighbours are filtered afterwards and the
  window is widened.  Correct: exact on a table at rest; ends and ranks soundly on one that changes
  between the statements.
* **Embedding dimension.**  Pin and tables are made by separate statements, and handles cache the
  pin.  Correct: the first dimension stays, and the tables have it.
* **Sync.**  Every file-system call is a step, processes die, locks go stale.  Correct: mutual
  exclusion, atomic publication, pulls of one whole store, no sidecar of an earlier store but after
  one kind of death.
* **Sessions and audit.**  Grants are cached by name while scopes and tools come and go by id.
  Correct: writes stay within the grants, what a tool is shown was told to scopes it may read,
  summaries included, what was done is in the audit log, a token opens the tool it was issued for
  and no other.
* **Chunker.**  Boundaries are looked for backwards and the next window starts before the last cut.
  Correct: no text is lost, chunks fit, the loop ends.
* **Import.**  Sweeps run on a schedule while sessions grow; an embedding failure ends a sweep
  half-way; vectors arrive after a deletion or a reindex.  Correct: nothing is stored twice, every
  session gets stored in the end, a search finds nothing that does not hold what was looked for.
* **Documents.**  Row, pieces and vectors are three writes with an await before the last. Correct: a
  document is found whole or not at all, and a deleted one leaves nothing but what a call under way
  puts back.
* **Workspaces.**  A command looks a workspace up by name and writes by id later, and a session
  checks the scope of the active workspace before it adds to it.  Correct: at most one is active,
  the one that becomes active bears the name it was asked by, it is not lost, items stay within the
  grants.
* **Retention, export.**  A prune knows its rules by scope names and works through them while
  scopes, rules and rows change.  Correct: it removes what a rule of the row's own scope has
  expired; exports agree with each other at every moment.
* **Server, opening, providers.**  A server is opened, started and closed in steps that may each
  fail, with requests in flight, connections that stay and a second signal coming; releases race at
  the version gate; calls share provider state across awaits.  Correct: what is not closed in the
  end is what threw, and is reported; no waiting HTTP client meets a closed store; a store never
  comes back to an older release; one failing call misleads no other.

## 2. The modules

Each component has one module with its state as VARIABLES and one action per statement, transaction
or file-system call that others can interleave with.  `MC<Component>.tla` gives constants values
that a `.cfg` cannot write; `<Component>Proofs.tla` holds the proofs. `VectorsProofs` is about
`VectorSearch` and `EmbedDim` with `Store`, `DocumentsProofs` about `Documents` and the `Chunker`
that cuts their texts, and `ProcessesProofs` about `Server`, with `Providers`, and `Import`.
`EmbedDim`, `Chunker` and `Import` call their specifications `SpecDim`, `SpecChunker` and
`SpecImport` so that they can be extended together with another one. `Server` needs no `MC` module.

A definition under a comment that begins with "Mistake:" is not part of the model: it is the
definition below it with a plausible bug, and shows that a property would notice that bug.

### Memories, SearchPromise

`rows` is table `memories`, `vec` is `memories_vec`.  `call` holds the asynchronous calls in flight,
each at the point where it is suspended: `find` in `findDuplicate`, `insert` and `merge` after it,
`write` and `replace` in `VectorIndex.write` and `replaceOne`, `reindex` in `VectorIndex.reindex`.
`Forget`, `RemoveScope` and `Vacuum` are single transactions. `EmbedFails` rejects a waiting call.
Every call and every forget is made through one of the `Handles`, the open stores of processes;
`aware` has those whose cached `embedDim` is not 0, and `Restart` is the end or the death of a
process, also between pinning the dimension and writing the vector, and the opening of the next.  A
handle that is not aware deletes no vector, truncates nothing and finds no duplicate, whatever
others have written.  Embedding is deterministic, so a vector is identified with its text; `Dist` is
any function to the naturals.  `kind`, `source` and the times are left out: nothing here branches on
them.  Keyword recall, `list` and `getById` change nothing.  `versions` and `explained` are history:
what a row has held, and the rows whose forget may have left a vector behind.  `Overlap` tells a
client that sends calls at any time from one that awaits each reply.

`SearchPromise` is the abstract specification: memories are added, edited and dropped, and what a
search ranks a memory by is at all times a text that it has held, or nothing.  `Memories` implements
it under the mapping at its end: what a search sees is the join of `vec` and `rows`.

### VectorSearch

`widenedVectorSearch`, shared by recall, document search and history search.  `Knn`, `HydrateSlice`
and `Judge` (finish, or count once and widen) are its steps.  `OtherWrites` is another process
between two of them, and `index` and `visible` are what it changes. Ties fall any way.  `throughout`
and `disturbed` are history.

### Store, EmbedDim

`Store` is the version gate of `openDb`: `CheckVersion` and `Stamp` are separate steps of processes
of different releases.  `newest` and `overtaken` are history.

`EmbedDim` extends it and goes on behind the gate.  `meta` is the pinned dimension, `vec0` that of
the vec0 tables, 0 when absent; each process has the dimension its handle read at `Open`, which
takes a handle the gate let through, and a provider of its own.  `Pin` and `CreateTables` are
separate statements in `VectorIndex.write`, as are `EnsureOnOpen` and the read in `openDb`.  `Exit`
is the end or the death of a process at any of them.  `stale` is history: whether a process has ever
had the store open without a dimension when another one pinned it.  Which rows have which vector is
`Memories`' subject.

### Sync

One process performs one push or pull; `stage` names the next file-system call.  Files are followed
by inode: who opened a file goes on writing to it after its path has been renamed or removed, which
a model of paths alone would miss.  A file may be `mixed`: SQLite has replayed the -wal of an
earlier store into it, as `OpenRemote` does where one lies beside it.  A process that died between
rename and clear is `uncleared`, any other that died `dead`; `robbed` has the live processes whose
lock a process has removed.  The lock of a dead one may be broken at any time, and what the next
process finds then is part of the run.  `Torn` says whether another host can see the lock file
between its creation and its body, and `MayForce` whether an operator may pass `--force`.

### Access

The operator's commands (`Connect`, of which `ToolAdd` is one way, `Revoke`, `RotateFind` then
`RotateUpdate`, `RemoveScope`, `CliRemember`, `CliSummarize`) beside sessions.  A session reads its
tool and then its grants, once, and then runs calls: `Remember` checks and resolves the scope,
`InsertRow` inserts; `CheckForget` reads and checks, `DeleteRow` deletes; `Answer` searches;
`Summarize` searches, waits for the model, and goes on in `Summarized` or `LlmFails`; `Record`
writes the audit row.  `UiSearch` answers before it records, and answers a blank query without a
check.  Memories stand for all content. History: `issuedTo` (tokens), `owed` (calls that changed
content or were answered), and `made` on rows and sessions: the names of the scopes a content was
told to, which a summary inherits from everything it was made of.

### Chunker

One turn of the loop of `chunkText` is one step, on a text whose characters are of the kinds the
boundaries tell apart: a letter, the end of a sentence, a space, a line break.  Chunks are sets of
positions, not strings.  `0.4` and `0.6` are exact fractions.  Normalising line ends and trimming
the text come before the loop: `InitChunker` has every text they can yield.

### Import

`dcx import auto` (`Sweepers`) and `dcx import <kind> <path>` (`Manual`) over session files that
`Grow`.  `Parse` decides three things: whether there is a conversation, what identifies it (the
session id, or a fingerprint of the content), and when its messages are dated (their date, or the
time of the parse).  `Ingest` is the transaction; `WriteVectors` follows the wait for the
embeddings, and `EmbedFails` ends the process.  `vectors` is `messages_vec`, a conversation's
messages standing and falling together; `StartReindex` and `EndReindex` are `dcx reindex`, `Vacuum`
drops what has no row.  Searches by meaning and by words are operators of the state (`Hits`).  A
file holds one conversation, and one root stands for two.  Copies of a session either all have its
id or none has, as it stands in the lines that are copied (`core/importers/claudeCode.ts:33`).

### Documents, Shelf

`docs`, `doc_of` and `vec` are the three tables; a call stands at `cut` (row written), `embed`
(pieces written) or `reindex`.  `InsertDoc`, `InsertPieces`, `WriteVectors` are one ingest;
`Delete`, `RemoveScope`, `Vacuum`, `StartReindex` and `CommitReindex` come between.  What a piece
says does not matter, so a vector is its rowid.  `parts`, `overtaken` (pieces deleted while a call
held them) and `lapsed` (documents a step failed to complete) are history.

`Shelf` is the abstract specification: a document is added to a place, becomes readable, becomes and
stops being searchable as a whole, and is removed for good; places close.  `Documents` implements it
(`KeepsShelf`): the phase of a document is read off what the two kinds of search find, and a
document of which a search finds some pieces and not others has none.

### Workspaces

`Users` are processes that run `dcx workspace`; `Tool` is a session.  `Create` and `Insert`, `Use`
and `SetActive`, `AddItem` or `AddToWorkspace` and `InsertItem` are pairs of a lookup and a write by
id; `Remove` and `RemoveScope` are single statements.  `GetActive`, `List` and what a session sees
of them are operators.  `born` is history: the name of the scope a workspace began under, so that
ids used twice would show; `name`, in the record of a `use`, is what it was asked for.

### Retention

`StartPrune` takes the time and lists the rules by the names of their scopes, `FindScope` looks one
up again and `Sweep` is the transaction of `pruneScope`.  `Set`, `SetCreates` and `SetRule` are the
statements of `Retention.set`; `Clear`, `Write`, `WriteItem`, `Delete` and `RemoveScope` are
everyone else.  The export is an operator: the collectors as the joins they are, on one state, as
`export.ts` reads one snapshot.  `ruled` is history: which row of `scopes` had which rule when the
prune listed them; `listed` is the list as the code has it, by names.

### Providers, Server

`Providers` is what the calls of one process share: `batchSupported` of Ollama, read before a
request and written after it, and `pipelinePromise` of ONNX, joined by concurrent first calls and
cleared by a failed load.

`Server` extends it: a server opens the store, authenticates, connects, listens, and unwinds what it
holds when a step fails; requests `Arrive` on connections, new or kept alive, half of them at first
(`Receive` is the rest), `Begin`, wait for the shared provider and `Finish`; others are streams or
are answered at once.  `client` says whether the connection of a request is open, whether or not it
has one in hand: `httpServer.close` ends those that are idle and waits for all others.  `Signal`
begins a shutdown (listener, wait for connections, MCP server, transport, store), and a second one
begins the same steps again; its `httpServer.close` waits as the first one does, and then has an
error.  `mode` tells the HTTP server from the stdio one, which has no listener and waits for
nothing.

Each step may fail.  What is `left` was opened and not closed: a store whose schema, stamp or tables
threw in `AppContext.open`, which is outside the `try`, or a part that threw as it was closed;
`AppContext.close` sets `closed` first, so nobody tries the store again.  `reported` is the error a
caller is to get, `first` the first that threw in its flow, and `cut` says that a request met a
closed store while its client waited; the last two are history.  What the opening means beside other
processes is in `Store` and `EmbedDim`.

## 3. What the runs check

Each component is checked for itself on every interleaving of the steps its module names, `EmbedDim`
together with `Store`, and `Server` with `Providers`.

| run | instance | shows |
|---|---|---|
| `MemoriesOverlap` | two calls in flight, two processes, two scopes, two texts, two rows | `OwnVector`, `NoOrphans`, `MergeStaysInScope`, `VectorsSurvive` in every interleaving, and `KeepsPromise`, the refinement |
| `MemoriesSerial` | one call at a time, of either of two processes, three texts of which two are near-duplicates, three rows | `SuccessMeansIndexed`, `ReindexSyncs`, with failures and restarts at every await |
| `Search` | four rows with ties, limit up to 2, slices of 2, windows doubled | `Exact`, `NearestFirst`, `Terminates` beside writes of another process |
| `Dimension` | two processes, of release 1 and of release 2, two dimensions, three rows | `GateHolds`, `TablesMatchPin`, `DimensionPinned`, `ForgetUnindexes` |
| `SyncUnbroken` | three processes, torn locks, `--force`, stale locks, deaths | `DestCompleteUnlessBroken`, `PullsComplete`, `NoForeignWal` |
| `AccessLive` | one session of two calls; two tools of one name, one after the other, three tokens, three scope ids, two rows | `WritesConfined`, `AnswersConfined`, `AuditedUnlessRevoked`, `AuditNamesTool`, `TokenOfItsTool` |
| `Chunker` | every text of up to 7 characters, sizes 0, 5, 6, overlaps -1, 0, 3, 4 | `NoTextLost`, `ChunksFit`, `Advances` |
| `Import` | three files, one with an id, two copies of one session without, of which one grows on; a sweep and a manual import | `DatedOnce`, `HitsHoldText`, `EventuallyStored` |
| `Documents` | two calls in flight, two scopes, two documents of one or two pieces | `NoLeftovers`, `GapsExplained`, `KeepsShelf`, the refinement |
| `Workspaces` | two users and a session, two scope names, two titles, three scope ids, three workspace ids | `OneActive`, `ItemsConfined`, `ActiveKept` |
| `Retention` | a prune and a setter, two scope names, two scope ids, two rows, three days | `PrunesByRule`, `ExportsAgree` |
| `Server` | two requests, two loads of the model, two signals, both transports, both providers, any step failing | `EndsWhole`, `OpenWhileAnswering`, `ProviderShared`, `Stops` |

The invariant on types is proved for every module, so the runs do not repeat it, but where it is a
part of a property of theirs (`TokenOfItsTool`, `NoLeftovers`, `OneActive`, `ExportsAgree`,
`EndsWhole`, `ProviderShared`, `DatedOnce`).  `ExclusiveUnlessBroken` and `ReleasesOwnLock` of
`Sync` are the means to the three properties of its run, and are proved.

### Where a promise ends

Where a promise of the code fails in a known corner, the property holds outside of that corner and
names it:

* `NoOrphans`: a row forgotten while a call in flight held it, whose vector then arrives; and a row
  forgotten by a handle that was opened before the first vector and has written none.  The second
  needs no overlap: the first embedding of a server fails, `dcx reindex` writes the vectors, and a
  forget in the server skips the delete (`core/store/vectorIndex.ts:74`).  The orphan stays until a
  vacuum or a reindex.
* The three properties of `Sync`: the lock of a live process was removed, because it outlasted the
  TTL, had no body yet, by force, or because the file looked at was a dead one's that a third
  process had replaced meanwhile.  A push that outlasts the TTL of its lock is joined by a second
  one at the same temporary path, and what is published is still being written.  Locks of dead
  processes may be broken.
* `NoForeignWal`: beside the store of a push that stands between rename and clear, or died there,
  the -wal of an earlier store may lie; into the store of one that died there SQLite replays it,
  which is the exception of `DestCompleteUnlessBroken` and `PullsComplete`.  The next push clears
  it.
* `DimensionPinned` and the others of `EmbedDim`: a handle older than the pin is in use.
* `AuditedUnlessRevoked`: a tool revoked while its server runs.  The call works, its audit row
  violates a foreign key.
* `DatedOnce`: a message without a date is given the time of the parse, which enters the
  fingerprint, so that the same file is stored twice.
* The properties of `MemoriesSerial`: one call at a time, of whichever process.  A forget between
  `findDuplicate` and `mergeInto` leaves a call that answers `merged: true` and content that is
  nowhere.
* `NoLeftovers`: vectors of a document deleted while a call held its pieces stay until a vacuum.
  `GapsExplained`: an ingest that dies after its row leaves a listed document without pieces.
* `ActiveKept`: a `use` whose workspace is removed between its two steps leaves none active.  A
  workspace that takes the name anew is not hit.
* `PrunesByRule`: conversations bring their own dates.  Those of a scope made anew under the name of
  a removed one may go by the rule of the old one, but by no rule of another name.
* `GateHolds` (`overtaken`): a newer release stamped the store between an older one's check and its
  stamp, which then goes back.  A handle that is open already is not stopped by a newer stamp, and
  no property says so.
* `ProviderShared` (`beside`): batch probes of two calls in flight.  The second that fails rejects
  where it would have fallen back, and one that succeeds late turns batching on again.
* `EndsWhole`: what threw as it was opened or closed stays open; some caller has the error.
* `OpenWhileAnswering`: over stdio nothing waits for the calls in flight.  Over HTTP every signal
  waits for the connections, so only a request whose client has gone may meet a closed store.
* `Stops`: the connections are waited for before the transport is closed, so a client that keeps a
  stream open, or sends half a request, holds up the end for as long as it likes, however many
  signals come.  The property assumes that from some point on none does.

The models also take steps that no property speaks about.  Two merges into one row in flight lose
the tag of one of them.  A handle that is not aware of the vectors of others inserts a second row
where `rememberOrMerge` should have merged, and so does one whose window another scope fills.  A
memory remembered while a reindex waits loses its vector until the next one; an import whose write
meets a finished reindex collides with it and ends.  A search that widens to a count taken before
other processes added rows may miss a match.  A session that grew after its import is not read
again, one whose embedding failed is not embedded by the next sweep, and an import brings a pruned
conversation back.  `Retention.set` inserts a scope without `ON CONFLICT` and fails beside another
writer that makes it.  Over stdio an error of closing hides the error of the start.  A store whose
pin a handle older than it has moved accepts no vector any more, and no call leads back.

### Bounds, and why they are enough

* Rows, tools, scopes and tokens are numbered as AUTOINCREMENT does, up to a bound; an insert beyond
  it is disabled.  Two rows are the fewest of which one can be given the other's vector, and an id
  that is freed and, in a mutant, reused needs no more.  Three rows allow a duplicate, its merge and
  a third one in `MemoriesSerial`.
* Two calls suffice for every hazard listed for `Memories`: one call is suspended while another one,
  or a single transaction, comes in.
* `DedupK = 2` with two rows makes the window the table; the proofs hold for every window.
* Four rows, limit 2 and factor 2 give windows of 2 and 4, slices that end inside and at the end of
  a window, and a table that shrinks or grows after the count.
* Two processes suffice for a stale handle, in `EmbedDim`, where they also are an older and a newer
  release, and in `Memories`.  Three for `Sync`: the holder of a lock, the one who breaks it and the
  one who comes in between.  `TTL = 0`, `MaxTime = 1` tell fresh from stale.
* `Access` needs a tool that is revoked and its name given away during a rotation (two tools, three
  tokens), and a scope that is removed and re-created (three scope ids).  Two rows are a private one
  and a summary of it, two calls the save and the search that would show it.  One session suffices,
  as sessions share nothing but the store, whose changes by others the operator's commands cover.
* Seven characters and a size of 5 or 6 give two to five turns of the loop, with boundaries on both
  sides of 0.4 and 0.6.  Overlap 4 of size 5 is the largest that is legal.
* `Import` needs a file that is a copy of another, one that grows after its import (versions 2 and
  3), an id for each content and one to spare for a deletion, and one fault.  `MaxFaults` bounds
  deletions, deaths and unreadable files; embeddings may fail every time, and reindexes are not
  bounded.
* `Documents`: two pieces are the fewest that can be found in part, two documents the fewest of
  which one is deleted while a reindex holds both, two calls an ingest and a reindex.
* `Workspaces`: three ids of scopes and of workspaces allow one of each to be removed and its name
  taken anew while the third stays.  Two users are one between its two steps and one who changes
  what it found.
* `Retention`: two scope ids of one name are the one a prune listed and the one it finds.  Three
  days and periods of one tell expired, fresh, and expired while the prune runs.  A document stands
  for memories too, which are dated and swept as it is.
* `Server`: two requests the fewest that share a probe or a load, two loads a failed one and the
  next, two signals the second of which finds the first anywhere in its shutdown.  `MaxLoads` bounds
  failures: the last load works.

Symmetry is used for processes in `Sync`, calls, processes, scopes and the two texts that are alike
in `Memories`, names in `Retention`, users and titles in `Workspaces`, where only safety is checked.
`CHECK_DEADLOCK FALSE` stands where the system stops by design: a search, a chunking or a sync that
has ended, a bounded session, a schedule at its bounds, a server that has exited.

### Fairness

* `VectorSearch`: weak fairness of the search itself.  It awaits nothing between its statements, so
  it keeps running whatever others write.
* `Import`: weak fairness of starting a sweep, which is the schedule that `import.ts` says `auto` is
  safe on, and of the steps of a process that runs.  None of a successful embedding: `EmbedFails`
  may be taken each time, and `EventuallyStored` holds all the same.
* `Server`: weak fairness of the start, of serving (handlers, the provider's answers, an error being
  one, loads that settle and the time limit of idle connections) and of the shutdowns, each as a
  whole, as the event loop runs what is ready.  None of a client that finishes its request or goes
  away, of a signal or of a request.
* The other modules state safety only.

## 4. What is proved

Every safety property of every run is a theorem: it holds for all values of the constants that
satisfy the named ASSUMEs of the module.  These say that bounds are natural numbers, `None` is no
value, defaults, files and flags are of their kind, distances are naturals, a window grows when it
is widened, that a release has a positive version, that "start" is no signal, and that copies of a
session carry its id alike.  The two properties of `MemoriesSerial` have one hypothesis more,
`~Overlap`: clients take turns, each awaiting its reply.

| module | theorems |
|---|---|
| `MemoriesProofs` | `TypeCorrect`, `VectorOwnership`, `ScopedMerge`, `VectorsAreKept`, `Implements` (of `SearchPromise`), `OrphansAreExplained`; where calls take turns `SuccessIsIndexed`, `ReindexIsCurrent` |
| `VectorsProofs` | `SearchIsExact`, `SearchIsRanked`; of the dimension `DimensionTyped`, `PinAndTablesAgree`, `PinIsPermanent`, `ForgetLeavesNoVector`; of the gate `NewerStoresAreLeft` |
| `SyncProofs` | `TypeCorrect`, `MutualExclusion`, `AtomicPublish`, `WholePulls`, `OwnRelease`, `SidecarsCleared` |
| `AccessProofs` | `TypeCorrect`, `TokensOpenTheirTool`, `AuditIsTheirs`, `EffectsAreAudited`, `AnswersStayInGrants`, `WritesStayInGrants` |
| `DocumentsProofs` | `TypeCorrect`, `DeletionsLeaveNothing`, `GapsHaveReasons`, `ImplementsShelf`; of the chunker `ChunksTyped`, `NothingIsLost`, `EveryChunkFits`, `EveryTurnAdvances` |
| `WorkspacesProofs` | `TypeCorrect`, `ReadersAgree`, `ItemsStayInGrants`, `UsesKeepTheirName`, `ActiveIsKept` |
| `RetentionProofs` | `TypeCorrect`, `EveryExportAgrees`, `SweptByName`, `PrunedByItsRule` |
| `ProcessesProofs` | of the server `TypeCorrect`, `EndingsAreWhole`, `AnswersOnAnOpenStore`, `SharingMisleadsNobody`; of the import `StoredOnce`, `HitsAreTheirs` |

The arguments, each by an inductive invariant that a run of TLC held first:

* **Memories.**  `OwnVector` is not inductive: it says nothing of vectors that are still on their
  way, nor of those that wait at an id no row has yet.  The invariant adds that the text of a call
  about to write, and every text of a reindex's snapshot, is one its row has held, and that ids not
  handed out have neither row nor vector nor call.  A late vector may then land whenever it likes;
  that ids are never used twice is what carries the proof.
* **Orphans.**  A vector is written by a call that holds its row, and a call that starts finds only
  live rows; so whoever may yet write a vector of a row that is gone held the row when it was
  forgotten (`HeldOK`), which is then explained.  A forget leaves a vector only in a handle that is
  not aware.
* **Memories, one call at a time.**  With `~Overlap` at most one call is in flight (`OneCall`), and
  nothing moves while it waits, so what it read or wrote before the await is still so after it
  (`Awaited`): its row is live and under its text, and a reindex has the rows there are.  A step of
  the call is then the whole of what a test would see.
* **VectorSearch.**  The invariant holds the slices together: what has been hydrated is the window's
  matches without the rest, all of it nearer than what is left; every row that matched throughout is
  among the survivors, or behind them, or outside the window.  At rest these are equalities, and
  `Exact` follows when the window is the table or the survivors are enough.
* **EmbedDim.**  As long as no handle is stale, every open handle knows the pinned dimension, the
  tables have it or do not exist, and before the pin there is no vector.  Only a process that knows
  a dimension is about to create tables or to write.  `GateHolds` is inductive with the types.
* **Sync.**  Until a live lock is broken, the lock file exists while a process is past it and is
  that process's (`Guarded`), for whoever removes it finds it a dead one's; the temporary inode
  belongs to the pusher that holds the lock, the inode at the remote path is whole, but for the
  named exception, and nobody writes to it (`Files`).  `NoForeignWal` is inductive with these:
  between rename and clear nobody else is past the lock, and the next push ends with a store of its
  own.
* **Access.**  Ids and tokens are handed out once (`FreshIds`, `TokensOK`), so what a session has
  read of its tool is still so or the tool is gone.  `RowsTold` says of the store, and `Fits` of a
  session's hands, what `AnswersConfined` needs of each other: what a row in a scope was made of was
  told to scopes of that name, and what a session has in hand was told to scopes it may read.  A
  saved summary moves from the one to the other; that its target is the one scope it was made from,
  or gone, keeps the first.  `WritesConfined` follows from the same `Fits`: the row or scope a
  session is about to touch is within its grants unless it is gone, and ids do not come back.
* **Documents.**  The pieces of a live document are there all or none, and so they are in the index
  and in what a call holds (`AllOrNone`): each of these sets only changes by whole documents. An
  ingest works for a document that no other one works for, and holds all pieces of it while it lives
  (`CallOK`); pieces deleted under a call are recorded as overtaken, and what is not searchable has
  a call or a failure to explain it (`Gaps`).  Under these invariants every step is one of `Shelf`
  or a stutter; a reindex is one step of it, with all the documents that it adds and drops.
* **Chunker.**  At the head of the loop every character before `start` that is not whitespace is in
  a chunk, the last cut lies at most the overlap ahead, and the text begins and ends with a
  character that is not whitespace.  A cut lies behind `start`, and so does the next window, at most
  at the cut; for overlaps up to 0.4 of the size and one more, the cut lies behind the cut before
  it: a boundary is only taken beyond those thresholds.
* **Workspaces.**  `SetActive` clears every flag and sets one in one transaction and nothing else
  sets one, so at most one is set whoever overlaps.  For `ItemsConfined` the scope of a workspace is
  still the one it began under (`KeysOK`): a removed scope sets it to NULL and a scope made anew has
  another id.  A session that is about to add an item holds a workspace that began under a granted
  scope (`Holds`), which no one can change any more.  For `ActiveKept`, rows keep their names and
  ids are not handed out anew, so the workspace of a `use` bears the name it was asked for as long
  as it is there (`UsesNamed`).
* **Retention.**  Rows are never dated ahead of the clock, and a scope made since a prune began has
  only content that is younger than the prune (`Fresh`).  The scope a prune finds under the name of
  a rule either had that rule when it was listed, or was made since and has nothing old enough to
  expire by any rule (`Covered`).  The rule a sweep applies is one the prune listed under the name
  its scope bears (`ByName`), conversations included.  The exports agree by the foreign keys alone
  (`RowsOK`).
* **Server.**  One part for each flow of control: what is open at each point of the start
  (`StartOK`), that nobody is served before it is over (`QuietStart`), what each shutdown has closed
  at each of its points (`ShutdownOK`), that no connection is left once the listener has been waited
  for (`Drained`), that what is left open has been reported and over HTTP the first error is kept
  (`Told`), and that only stdio cuts a request (`CutOK`).  Of the providers, which calls may be left
  with a batch request (`Fallback`), and that whoever waits for a load waits for the one that runs
  (`OneLoad`).
* **Import.**  The key of a row tells where it came from: its session, the version unless the
  session has an id, and no time unless a message has no date (`Telling`).  `Ingest` looks for the
  key and inserts in one transaction, so keys are unique and `DatedOnce` follows.  For
  `HitsHoldText`, whoever holds messages under an id, the index, an import that embeds or a reindex,
  holds that conversation's, or it is gone (`Owned`).

### What is model-checked only

Liveness (`Terminates`, `EventuallyStored`, `Stops`), which needs fairness and ENABLED and is out of
the prover's reach.  The searches and the listings are proved as operators of the state, where a
property speaks of them.

## 5. What is not modelled, and why

* SQLite itself: atomic statements and transactions, AUTOINCREMENT, foreign keys, triggers and WAL
  recovery are taken as documented; so is sqlite-vec's exact k-NN.
* Query text, highlighting, formatting, argument parsing, HTML, logging: nothing else depends on
  them.
* `dcx restore` copies files over a store that may be open, for which SQLite defines no behaviour;
  `dcx backup` is SQLite's own.
* The formats of the importers: `Import` has what a parse decides.  Several conversations in one
  file go through `Ingest` one by one and add no step of another kind.
* Pruning of the audit log, configuration, error types, the web page.  Tests, evaluations and
  examples are not part of the program.

## 6. Plan

The order is by what goes wrong most quietly: content and its index first, then the search that
reads it, then the file that holds it, then who may reach it, then what feeds it, then what groups,
expires and serves it.

Done: every module of section 2, checked, and every safety property of the runs proved, with the two
refinements (`SearchPromise`, `Shelf`).

Left, in this order:

1. An abstract specification of `Sync`: a remote store that is replaced and read as a whole, which
   `Sync` implements as long as no live lock is broken; and one of `Import`, the set of contents
   stored.
2. ChatGPT's walk of its message tree as a module, with a reference definition of the path it should
   find.

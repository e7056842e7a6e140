--------------------------------- MODULE Sync ---------------------------------
(***************************************************************************)
(* dcx push and dcx pull against one remote store (core/sync/sync.ts).     *)
(*                                                                         *)
(* A push copies its local store to `<dest>.dcx-tmp` with SQLite's backup  *)
(* API and renames that file over the remote; a pull copies the remote     *)
(* into a file of its own.  Both hold `<remote>.lock` meanwhile.  Every    *)
(* process performs one operation and ends; every file-system call is a    *)
(* step, and a process may die between any two of them.  A lock left by a  *)
(* dead process is broken once its time is up, and the next one goes on    *)
(* with what it finds.                                                     *)
(*                                                                         *)
(* Files are followed by inode: removing or renaming a path does not stop  *)
(* a process that still writes to the file it opened.  The inode created   *)
(* by process p is named p, the store the remote had at first is Origin.   *)
(***************************************************************************)
EXTENDS Integers

CONSTANTS
    Procs,      \* processes, one push or pull each
    None,       \* no file at a path
    Origin,     \* the remote store before any push
    TTL,        \* LOCK_TTL_MS
    MaxTime,    \* bound on the clock
    Torn,       \* can another process see a lock file before its body?
    MayForce    \* may operators pass --force?

ASSUME TimeAssumption == TTL \in Nat /\ MaxTime \in Nat
ASSUME FlagAssumption == Torn \in BOOLEAN /\ MayForce \in BOOLEAN
ASSUME NameAssumption ==
    /\ None \notin Procs /\ Origin \notin Procs /\ None # Origin
    /\ None \notin [by: Procs, ts: Nat \cup {-1}]

VARIABLES
    clock,      \* wall clock
    lock,       \* None, or what the lock file holds; ts = -1: no valid body
    tmp,        \* inode at <dest>.dcx-tmp, or None
    dest,       \* inode at the remote path
    sidecar,    \* inode whose -wal and -shm lie beside the remote, or None
    file,       \* state of each inode
    proc        \* the processes

vars == <<clock, lock, tmp, dest, sidecar, file, proc>>

Inodes == Procs \cup {Origin}

(* mixed: a store into which SQLite has replayed the -wal of an earlier one. *)
FileStates == {"absent", "partial", "complete", "mixed"}

LockFile == [by: Procs, ts: Nat \cup {-1}]

(***************************************************************************)
(* Stages of a process; those from sweep to release hold the lock.         *)
(*   check    existsSync of the lock       read     readLock               *)
(*   break    rmSync of a stale lock       create   open with flag wx      *)
(*   body     write the lock's body        sweep    cleanupTmp             *)
(*   open     the backup opens its file    copy     the backup runs        *)
(*   rename   renameSync                   clear    clearWalSidecars       *)
(*   release  releaseLock                                                  *)
(* and at last done, refused, dead, or uncleared: died between renameSync  *)
(* and clearWalSidecars.                                                   *)
(***************************************************************************)
Critical == {"sweep", "open", "copy", "rename", "clear", "release"}
Dead == {"dead", "uncleared"}
Over == {"done", "refused"} \cup Dead
Stages == {"start", "check", "read", "break", "create", "body"} \cup Critical \cup Over

(* robbed: the processes whose lock file it has removed while they were at work. *)
Process == [stage: Stages, op: {"push", "pull"}, ts: Nat, robbed: SUBSET Procs,
            inode: Inodes \cup {None}]

Init ==
    /\ clock = 0
    /\ lock = None /\ tmp = None
    /\ dest = Origin /\ sidecar = None
    /\ file = [f \in Inodes |-> IF f = Origin THEN "complete" ELSE "absent"]
    /\ proc \in [Procs -> [stage: {"start"}, op: {"push", "pull"}, ts: {0},
                           robbed: {{}}, inode: {None}]]

At(p, stage) == proc[p].stage = stage
Go(p, stage) == proc' = [proc EXCEPT ![p].stage = stage]
Push(p) == proc[p].op = "push"

-----------------------------------------------------------------------------
Tick ==
    /\ clock < MaxTime
    /\ clock' = clock + 1
    /\ UNCHANGED <<lock, tmp, dest, sidecar, file, proc>>

(* `now` is read once, when the operation begins. *)
Begin(p) ==
    /\ At(p, "start")
    /\ proc' = [proc EXCEPT ![p] = [@ EXCEPT !.stage = "check", !.ts = clock]]
    /\ UNCHANGED <<clock, lock, tmp, dest, sidecar, file>>

CheckLock(p) ==
    /\ At(p, "check")
    /\ Go(p, IF lock = None THEN "create" ELSE "read")
    /\ UNCHANGED <<clock, lock, tmp, dest, sidecar, file>>

(* A lock without a valid body is stale, and so is one gone meanwhile. *)
Stale(now) == lock = None \/ lock.ts = -1 \/ now - lock.ts > TTL

ReadLock(p) ==
    /\ At(p, "read")
    /\ \E force \in {FALSE, MayForce} :
         Go(p, IF Stale(proc[p].ts) \/ force THEN "break" ELSE "refused")
    /\ UNCHANGED <<clock, lock, tmp, dest, sidecar, file>>

(* Who wrote the lock file, if it is alive. *)
Keepers == {q \in Procs : lock # None /\ lock.by = q /\ proc[q].stage \notin Dead}

(* rmSync, of whatever lies there by now. *)
BreakLock(p) ==
    /\ At(p, "break")
    /\ lock' = None
    /\ proc' = [proc EXCEPT ![p] = [proc[p] EXCEPT !.stage = "create",
                                                   !.robbed = @ \cup Keepers]]
    /\ UNCHANGED <<clock, tmp, dest, sidecar, file>>

(* Mistake: overwrite an existing lock file, flag w for wx. *)
CreateLockAnyway(p) ==
    /\ At(p, "create")
    /\ lock' = [by |-> p, ts |-> proc[p].ts]
    /\ Go(p, "sweep")
    /\ UNCHANGED <<clock, tmp, dest, sidecar, file>>

(***************************************************************************)
(* writeFileSync with flag wx: the open creates the file or fails with     *)
(* EEXIST, before the try block that releases; the body follows.           *)
(***************************************************************************)
CreateLock(p) ==
    /\ At(p, "create")
    /\ IF lock # None
       THEN Go(p, "refused") /\ UNCHANGED lock
       ELSE /\ lock' = [by |-> p, ts |-> IF Torn THEN -1 ELSE proc[p].ts]
            /\ Go(p, IF Torn THEN "body" ELSE "sweep")
    /\ UNCHANGED <<clock, tmp, dest, sidecar, file>>

(* The body goes to the file opened, which may have been removed since. *)
WriteBody(p) ==
    /\ At(p, "body")
    /\ lock' = IF lock # None /\ lock.by = p
               THEN [by |-> p, ts |-> proc[p].ts] ELSE lock
    /\ Go(p, "sweep")
    /\ UNCHANGED <<clock, tmp, dest, sidecar, file>>

-----------------------------------------------------------------------------
(* cleanupTmp; the temporary file of a pull lies beside its own local store. *)
Sweep(p) ==
    /\ At(p, "sweep")
    /\ tmp' = IF Push(p) THEN None ELSE tmp
    /\ Go(p, "open")
    /\ UNCHANGED <<clock, lock, dest, sidecar, file>>

(* SQLite replays the -wal it finds when the store at the remote is opened. *)
OpenRemote ==
    /\ file' = IF sidecar \in {None, dest} THEN file ELSE [file EXCEPT ![dest] = "mixed"]
    /\ sidecar' = dest

(***************************************************************************)
(* The backup opens its files.  A push creates the temporary file, or      *)
(* opens the one another process has just put there; a pull opens the      *)
(* remote with openDb, which gives it sidecars until it is closed.         *)
(***************************************************************************)
OpenFiles(p) ==
    /\ At(p, "open")
    /\ LET f == IF ~Push(p) THEN dest ELSE IF tmp = None THEN p ELSE tmp
       IN /\ proc' = [proc EXCEPT ![p] = [@ EXCEPT !.stage = "copy", !.inode = f]]
          /\ IF Push(p)
             THEN /\ file' = [file EXCEPT ![f] = "partial"]
                  /\ tmp' = f
                  /\ UNCHANGED sidecar
             ELSE OpenRemote /\ UNCHANGED tmp
    /\ UNCHANGED <<clock, lock, dest>>

(***************************************************************************)
(* The backup ends.  A pull then publishes its copy at its local path and  *)
(* closing the remote removes the sidecars it had there.                   *)
(***************************************************************************)
EndCopy(p) ==
    /\ At(p, "copy")
    /\ IF Push(p)
       THEN /\ file' = [file EXCEPT ![proc[p].inode] = "complete"]
            /\ Go(p, "rename")
            /\ UNCHANGED sidecar
       ELSE /\ sidecar' = None
            /\ Go(p, "release")
            /\ UNCHANGED file
    /\ UNCHANGED <<clock, lock, tmp, dest>>

(* The backup throws: finally closes the source and releases the lock. *)
CopyFails(p) ==
    /\ At(p, "copy")
    /\ Go(p, "release")
    /\ sidecar' = IF Push(p) THEN sidecar ELSE None
    /\ UNCHANGED <<clock, lock, tmp, dest, file>>

(* Mistake: publish before the backup has ended. *)
RenameEarly(p) ==
    /\ At(p, "rename") \/ (At(p, "copy") /\ Push(p))
    /\ IF tmp = None
       THEN Go(p, "release") /\ UNCHANGED <<tmp, dest>>
       ELSE dest' = tmp /\ tmp' = None /\ Go(p, "clear")
    /\ UNCHANGED <<clock, lock, sidecar, file>>

(* renameSync moves whatever lies at the temporary path; ENOENT when nothing. *)
Rename(p) ==
    /\ At(p, "rename")
    /\ IF tmp = None
       THEN Go(p, "release") /\ UNCHANGED <<tmp, dest>>
       ELSE dest' = tmp /\ tmp' = None /\ Go(p, "clear")
    /\ UNCHANGED <<clock, lock, sidecar, file>>

(* Mistake: the previous occupant's sidecars stay. *)
ClearNothing(p) ==
    /\ At(p, "clear")
    /\ Go(p, "release")
    /\ UNCHANGED <<clock, lock, tmp, dest, sidecar, file>>

ClearSidecars(p) ==
    /\ At(p, "clear")
    /\ sidecar' = None
    /\ Go(p, "release")
    /\ UNCHANGED <<clock, lock, tmp, dest, file>>

(* releaseLock removes the lock file, whoever wrote it. *)
Release(p) ==
    /\ At(p, "release")
    /\ lock' = None
    /\ Go(p, "done")
    /\ UNCHANGED <<clock, tmp, dest, sidecar, file>>

(* The process dies; what it left on disk stays. *)
Crash(p) ==
    /\ proc[p].stage \notin Over \cup {"start"}
    /\ Go(p, IF At(p, "clear") THEN "uncleared" ELSE "dead")
    /\ UNCHANGED <<clock, lock, tmp, dest, sidecar, file>>

(* Somebody who uses the remote store directly, between the operations of  *)
(* sync, leaves sidecars beside it.                                        *)
RemoteUsed ==
    /\ \A p \in Procs : proc[p].stage \in Over \cup {"start"}
    /\ OpenRemote
    /\ UNCHANGED <<clock, lock, tmp, dest, proc>>

Next ==
    \/ Tick \/ RemoteUsed
    \/ \E p \in Procs :
         \/ Begin(p) \/ CheckLock(p) \/ ReadLock(p) \/ BreakLock(p)
         \/ CreateLock(p) \/ WriteBody(p)
         \/ Sweep(p) \/ OpenFiles(p) \/ EndCopy(p) \/ CopyFails(p)
         \/ Rename(p) \/ ClearSidecars(p) \/ Release(p)
         \/ Crash(p)

Spec == Init /\ [][Next]_vars

-----------------------------------------------------------------------------
(* Types of the state. *)
TypeOK ==
    /\ clock \in 0..MaxTime
    /\ lock \in LockFile \cup {None}
    /\ tmp \in Inodes \cup {None}
    /\ dest \in Inodes
    /\ sidecar \in Inodes \cup {None}
    /\ file \in [Inodes -> FileStates]
    /\ proc \in [Procs -> Process]

(***************************************************************************)
(* No process has removed the lock file of another that was still at work: *)
(* because that one took longer than the time to live, its lock file had   *)
(* no body yet, the operator said --force, or because it had been looking  *)
(* at the file of a dead process that a third one replaced meanwhile.      *)
(***************************************************************************)
Unbroken == \A p \in Procs : proc[p].robbed = {}

(***************************************************************************)
(* docs/SYNC.md:22: two pushes "against the same destination are blocked": *)
(* no two processes are past the lock at once.                             *)
(***************************************************************************)
Exclusive ==
    \A p, q \in Procs :
      proc[p].stage \in Critical /\ proc[q].stage \in Critical => p = q

(* The same, in every run in which no live lock was broken. *)
ExclusiveUnlessBroken == Unbroken => Exclusive

(* The push that made this store died before it cleared the sidecars. *)
Uncleared(f) == f \in Procs /\ proc[f].stage = "uncleared"

(***************************************************************************)
(* docs/SYNC.md:30: a push "never half-overwrites the destination".  Until *)
(* a live lock is broken, the file at the remote path is the whole of one  *)
(* store, whoever dies when and however often dead locks are broken; with  *)
(* one exception: the push that published it died between renameSync and   *)
(* clearWalSidecars, and SQLite has replayed the old -wal into it.         *)
(***************************************************************************)
DestComplete ==
    \/ file[dest] = "complete"
    \/ file[dest] = "mixed" /\ Uncleared(dest)

DestCompleteUnlessBroken == Unbroken => DestComplete

(***************************************************************************)
(* A pull copies one and the same store from start to end: until a live    *)
(* lock is broken, the file it opened stays the one at the remote path as  *)
(* long as it reads, and whole but for the same exception.                 *)
(***************************************************************************)
PullsComplete ==
    Unbroken =>
      \A p \in Procs :
        At(p, "copy") /\ ~Push(p) => proc[p].inode = dest /\ DestComplete

(***************************************************************************)
(* releaseLock removes the lock file unseen.  Until a live lock is broken  *)
(* it is the process's own that it removes, never that of another one.     *)
(***************************************************************************)
ReleasesOwnLock ==
    Unbroken =>
      \A p \in Procs : proc[p].stage \in Critical => lock # None /\ lock.by = p

(***************************************************************************)
(* A -wal of an earlier store beside the remote, which SQLite would replay *)
(* into it, has one cause: the push that published the remote stands       *)
(* between renameSync and clearWalSidecars, or died there.  A later push   *)
(* clears what an earlier one left.                                        *)
(***************************************************************************)
NoForeignWal ==
    Unbroken =>
      \/ sidecar \in {None, dest}
      \/ dest \in Procs /\ proc[dest].stage \in {"clear", "uncleared"}
=============================================================================

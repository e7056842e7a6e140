------------------------------ MODULE SyncProofs ------------------------------
(***************************************************************************)
(* Sync, proved for any number of processes, any time to live, with torn   *)
(* lock files and with --force: until a process breaks the lock of another *)
(* that lives, one process at a time is past it, and the remote path holds *)
(* one whole store, also after deaths and the breaking of dead locks.  A   *)
(* live lock broken ends all of that: two processes are then past it.      *)
(***************************************************************************)
EXTENDS Sync, TLAPS

USE NameAssumption, FlagAssumption, TimeAssumption

(* A process that has made the lock file finds it, and finds it its own. *)
Guarded ==
    \A p \in Procs :
      proc[p].stage \in Critical \cup {"body"} => lock # None /\ lock.by = p

(* The stages in which a process has not created a file yet. *)
Unopened == {"start", "check", "read", "break", "create", "body", "sweep", "open", "refused"}

(***************************************************************************)
(* Where the inodes lie: a process that has created none is named nowhere; *)
(* the one that copies or is about to rename has its own at the temporary  *)
(* path; the store at the remote path is whole and is not the one being    *)
(* written.                                                                *)
(***************************************************************************)
Files ==
    /\ \A p \in Procs : proc[p].stage \in Unopened => dest # p /\ tmp # p
    /\ \A p \in Procs : At(p, "open") /\ Push(p) => tmp = None
    /\ \A p \in Procs : At(p, "copy") /\ Push(p) => proc[p].inode = p /\ tmp = p
    /\ \A p \in Procs : At(p, "copy") /\ ~Push(p) => proc[p].inode = dest
    /\ \A p \in Procs : At(p, "rename") => tmp = p /\ file[p] = "complete"
    /\ tmp # dest
    /\ DestComplete

Held == Guarded /\ Files /\ NoForeignWal

(* The inductive invariant. *)
IInv == TypeOK /\ (Unbroken => Held)

-----------------------------------------------------------------------------
(* Every step keeps the types. *)
LEMMA TypeStep == TypeOK /\ [Next]_vars => TypeOK'
<1> SUFFICES ASSUME TypeOK, [Next]_vars PROVE TypeOK'
  OBVIOUS
<1> USE DEF TypeOK, At, Go, Push, LockFile, Process, Stages, Over, Dead, Critical, Inodes,
            FileStates
<1>1. CASE Tick
  BY <1>1 DEF Tick
<1>2. CASE RemoteUsed
  BY <1>2 DEF RemoteUsed, OpenRemote
<1>3. ASSUME NEW p \in Procs, Begin(p) PROVE TypeOK'
  <2>1. proc[p] \in Process /\ clock \in Nat
    OBVIOUS
  <2>2. [proc[p] EXCEPT !.stage = "check"] \in Process
    BY <2>1
  <2>3. [proc[p] EXCEPT !.stage = "check", !.ts = clock] \in Process
    BY <2>1, <2>2
  <2>4. proc' \in [Procs -> Process]
    BY <1>3, <2>3 DEF Begin
  <2> QED
    BY <1>3, <2>4 DEF Begin
<1>4. ASSUME NEW p \in Procs, CheckLock(p) PROVE TypeOK'
  BY <1>4 DEF CheckLock
<1>5. ASSUME NEW p \in Procs, ReadLock(p) PROVE TypeOK'
  BY <1>5 DEF ReadLock
<1>6. ASSUME NEW p \in Procs, BreakLock(p) PROVE TypeOK'
  <2>1. proc[p] \in Process
    OBVIOUS
  <2>2. [proc[p] EXCEPT !.stage = "create"] \in Process
    BY <2>1
  <2> DEFINE robbed == proc[p].robbed \cup Keepers
  <2>3. robbed \in SUBSET Procs
    BY <2>1 DEF Keepers
  <2> HIDE DEF robbed
  <2>4. [proc[p] EXCEPT !.stage = "create", !.robbed = robbed] \in Process
    BY <2>1, <2>2, <2>3
  <2>5. proc' = [proc EXCEPT ![p] = [proc[p] EXCEPT !.stage = "create", !.robbed = robbed]]
    BY <1>6 DEF BreakLock, robbed
  <2>6. proc' \in [Procs -> Process]
    BY <2>4, <2>5
  <2> QED
    BY <1>6, <2>6 DEF BreakLock
<1>7. ASSUME NEW p \in Procs, CreateLock(p) PROVE TypeOK'
  BY <1>7 DEF CreateLock
<1>8. ASSUME NEW p \in Procs, WriteBody(p) PROVE TypeOK'
  BY <1>8 DEF WriteBody
<1>9. ASSUME NEW p \in Procs, Sweep(p) PROVE TypeOK'
  BY <1>9 DEF Sweep
<1>10. ASSUME NEW p \in Procs, OpenFiles(p) PROVE TypeOK'
  <2> DEFINE f == IF ~Push(p) THEN dest ELSE IF tmp = None THEN p ELSE tmp
  <2>1. f \in Inodes /\ proc[p] \in Process
    OBVIOUS
  <2>2. [proc[p] EXCEPT !.stage = "copy"] \in Process
    BY <2>1
  <2> HIDE DEF f
  <2>3. [proc[p] EXCEPT !.stage = "copy", !.inode = f] \in Process
    BY <2>1, <2>2
  <2> USE DEF f
  <2>4. proc' \in [Procs -> Process]
    BY <1>10, <2>3 DEF OpenFiles
  <2> QED
    BY <1>10, <2>1, <2>4 DEF OpenFiles, OpenRemote
<1>11. ASSUME NEW p \in Procs, EndCopy(p) PROVE TypeOK'
  BY <1>11 DEF EndCopy
<1>12. ASSUME NEW p \in Procs, CopyFails(p) PROVE TypeOK'
  BY <1>12 DEF CopyFails
<1>13. ASSUME NEW p \in Procs, Rename(p) PROVE TypeOK'
  BY <1>13 DEF Rename
<1>14. ASSUME NEW p \in Procs, ClearSidecars(p) PROVE TypeOK'
  BY <1>14 DEF ClearSidecars
<1>15. ASSUME NEW p \in Procs, Release(p) PROVE TypeOK'
  BY <1>15 DEF Release
<1>16. ASSUME NEW p \in Procs, Crash(p) PROVE TypeOK'
  BY <1>16 DEF Crash
<1>17. CASE UNCHANGED vars
  BY <1>17 DEF vars
<1> QED
  BY <1>1, <1>2, <1>3, <1>4, <1>5, <1>6, <1>7, <1>8, <1>9, <1>10, <1>11,
     <1>12, <1>13, <1>14, <1>15, <1>16, <1>17 DEF Next

-----------------------------------------------------------------------------
(***************************************************************************)
(* A step after which no live lock has been broken keeps Held.             *)
(***************************************************************************)
LEMMA HeldStep == TypeOK /\ Held /\ [Next]_vars /\ Unbroken' => Held'
<1> SUFFICES ASSUME TypeOK, Held, [Next]_vars, Unbroken' PROVE Held'
  OBVIOUS
<1> USE DEF TypeOK, Held, Guarded, Files, NoForeignWal, Unbroken, At, Go, Push,
            LockFile, Process, Stages, Over, Dead, Critical, Inodes, FileStates, Unopened,
            DestComplete, Uncleared
<1>1. CASE Tick
  BY <1>1 DEF Tick
<1>2. CASE RemoteUsed
  BY <1>2 DEF RemoteUsed, OpenRemote
<1>3. ASSUME NEW p \in Procs, Begin(p) PROVE Held'
  BY <1>3 DEF Begin
<1>4. ASSUME NEW p \in Procs, CheckLock(p) PROVE Held'
  BY <1>4 DEF CheckLock
<1>5. ASSUME NEW p \in Procs, ReadLock(p) PROVE Held'
  BY <1>5 DEF ReadLock
<1>6. ASSUME NEW p \in Procs, BreakLock(p) PROVE Held'
  <2>1. proc[p] \in Process /\ At(p, "break")
    BY <1>6 DEF BreakLock
  <2>2. Keepers = {}
    BY <1>6, <2>1 DEF BreakLock
  <2>3. \A q \in Procs : proc[q].stage \notin Critical \cup {"body"}
    BY <2>2 DEF Keepers
  <2>4. /\ \A q \in Procs : /\ proc'[q].inode = proc[q].inode /\ proc'[q].op = proc[q].op
                            /\ proc'[q].stage = IF q = p THEN "create" ELSE proc[q].stage
        /\ UNCHANGED <<tmp, dest, sidecar, file>>
    BY <1>6, <2>1 DEF BreakLock
  <2>5. Guarded'
    BY <2>3, <2>4
  <2>6. Files'
    BY <2>1, <2>3, <2>4
  <2>7. Unbroken
    BY <1>6, <2>1 DEF BreakLock
  <2>8. NoForeignWal'
    BY <2>1, <2>4, <2>7
  <2> QED
    BY <2>5, <2>6, <2>8
<1>7. ASSUME NEW p \in Procs, CreateLock(p) PROVE Held'
  BY <1>7 DEF CreateLock
<1>8. ASSUME NEW p \in Procs, WriteBody(p) PROVE Held'
  BY <1>8 DEF WriteBody
<1>9. ASSUME NEW p \in Procs, Sweep(p) PROVE Held'
  BY <1>9 DEF Sweep
<1>10. ASSUME NEW p \in Procs, OpenFiles(p) PROVE Held'
  BY <1>10 DEF OpenFiles, OpenRemote
<1>11. ASSUME NEW p \in Procs, EndCopy(p) PROVE Held'
  BY <1>11 DEF EndCopy
<1>12. ASSUME NEW p \in Procs, CopyFails(p) PROVE Held'
  BY <1>12 DEF CopyFails
<1>13. ASSUME NEW p \in Procs, Rename(p) PROVE Held'
  BY <1>13 DEF Rename
<1>14. ASSUME NEW p \in Procs, ClearSidecars(p) PROVE Held'
  BY <1>14 DEF ClearSidecars
<1>15. ASSUME NEW p \in Procs, Release(p) PROVE Held'
  BY <1>15 DEF Release
<1>16. ASSUME NEW p \in Procs, Crash(p) PROVE Held'
  BY <1>16 DEF Crash
<1>17. CASE UNCHANGED vars
  BY <1>17 DEF vars
<1> QED
  BY <1>1, <1>2, <1>3, <1>4, <1>5, <1>6, <1>7, <1>8, <1>9, <1>10, <1>11,
     <1>12, <1>13, <1>14, <1>15, <1>16, <1>17 DEF Next

(* A live lock once broken stays recorded as broken. *)
LEMMA BrokenForGood == TypeOK /\ [Next]_vars /\ Unbroken' => Unbroken
<1> SUFFICES ASSUME TypeOK, [Next]_vars, NEW q \in Procs, proc[q].robbed # {}
             PROVE proc'[q].robbed # {}
  BY DEF Unbroken
<1> USE DEF TypeOK, At, Go, Process
<1>1. CASE Tick \/ RemoteUsed \/ UNCHANGED vars
  BY <1>1 DEF Tick, RemoteUsed, vars
<1>2. ASSUME NEW p \in Procs, NEW s, proc' = [proc EXCEPT ![p].stage = s]
      PROVE proc'[q].robbed # {}
  BY <1>2
<1>3. ASSUME NEW p \in Procs,
             \/ CheckLock(p) \/ ReadLock(p) \/ CreateLock(p) \/ WriteBody(p)
             \/ Sweep(p) \/ EndCopy(p) \/ CopyFails(p) \/ Rename(p) \/ ClearSidecars(p)
             \/ Release(p) \/ Crash(p)
      PROVE \E s : proc' = [proc EXCEPT ![p].stage = s]
  BY <1>3, ZenonT(30) DEF CheckLock, ReadLock, CreateLock, WriteBody, Sweep, EndCopy, CopyFails,
              Rename, ClearSidecars, Release, Crash
<1>4. ASSUME NEW p \in Procs, Begin(p) PROVE proc'[q].robbed # {}
  BY <1>4 DEF Begin
<1>5. ASSUME NEW p \in Procs, BreakLock(p) PROVE proc'[q].robbed # {}
  <2>1. proc[p] \in Process
    OBVIOUS
  <2> QED
    BY <1>5, <2>1 DEF BreakLock
<1>6. ASSUME NEW p \in Procs, OpenFiles(p) PROVE proc'[q].robbed # {}
  BY <1>6 DEF OpenFiles
<1> QED
  BY <1>1, <1>2, <1>3, <1>4, <1>5, <1>6 DEF Next

-----------------------------------------------------------------------------
(* The invariant holds in every reachable state. *)
THEOREM InductiveInvariant == Spec => []IInv
<1>1. Init => IInv
  <2> SUFFICES ASSUME Init PROVE TypeOK /\ Held
    BY DEF IInv
  <2> DEFINE P0 == [stage: {"start"}, op: {"push", "pull"}, ts: {0},
                    robbed: {{}}, inode: {None}]
  <2>0. ASSUME NEW r \in P0 PROVE r \in Process /\ r.stage = "start"
    <3>1. /\ r = [stage |-> r.stage, op |-> r.op, ts |-> r.ts,
                  robbed |-> r.robbed, inode |-> r.inode]
          /\ r.stage = "start" /\ r.op \in {"push", "pull"} /\ r.ts = 0
          /\ r.robbed = {} /\ r.inode = None
      OBVIOUS
    <3>2. r.stage \in Stages /\ r.ts \in Nat /\ r.inode \in Inodes \cup {None}
      BY <3>1 DEF Stages
    <3> QED
      BY <3>1, <3>2 DEF Process
  <2>1. \A p \in Procs : proc[p] \in Process /\ At(p, "start")
    BY <2>0 DEF Init, At
  <2> HIDE DEF P0
  <2>2. TypeOK
    BY <2>1 DEF Init, TypeOK, Inodes, FileStates
  <2>3. Held
    BY <2>1 DEF Init, Held, Guarded, Files, NoForeignWal, At, Critical, Inodes, Unopened,
                   DestComplete
  <2> QED
    BY <2>2, <2>3
<1>2. IInv /\ [Next]_vars => IInv'
  BY TypeStep, HeldStep, BrokenForGood DEF IInv
<1> QED
  BY <1>1, <1>2, PTL DEF Spec

(* Every reachable state is well typed. *)
THEOREM TypeCorrect == Spec => []TypeOK
BY InductiveInvariant, PTL DEF IInv

(* Until a live lock is broken, two processes are never both past the lock. *)
THEOREM MutualExclusion == Spec => []ExclusiveUnlessBroken
<1>1. IInv => ExclusiveUnlessBroken
  BY DEF IInv, Held, Guarded, ExclusiveUnlessBroken, Exclusive
<1> QED
  BY <1>1, InductiveInvariant, PTL

(***************************************************************************)
(* Until a live lock is broken, the remote path holds one whole store,     *)
(* unless the push that published it died before it cleared the sidecars   *)
(* and an old -wal has been replayed into it.                              *)
(***************************************************************************)
THEOREM AtomicPublish == Spec => []DestCompleteUnlessBroken
<1>1. IInv => DestCompleteUnlessBroken
  BY DEF IInv, Held, Files, DestCompleteUnlessBroken
<1> QED
  BY <1>1, InductiveInvariant, PTL

(* Until a live lock is broken, a pull reads the remote and no other file, *)
(* and it is whole, with the same exception.                               *)
THEOREM WholePulls == Spec => []PullsComplete
<1>1. IInv => PullsComplete
  BY DEF IInv, Held, Files, PullsComplete
<1> QED
  BY <1>1, InductiveInvariant, PTL

(* Until a live lock is broken, a process only releases a lock of its own. *)
THEOREM OwnRelease == Spec => []ReleasesOwnLock
<1>1. IInv => ReleasesOwnLock
  BY DEF IInv, Held, Guarded, ReleasesOwnLock
<1> QED
  BY <1>1, InductiveInvariant, PTL

(***************************************************************************)
(* Until a live lock is broken, a -wal of an earlier store lies beside the *)
(* remote only while the push that published it is about to clear it, or   *)
(* after that push has died at that very step.                             *)
(***************************************************************************)
THEOREM SidecarsCleared == Spec => []NoForeignWal
<1>1. IInv => NoForeignWal
  BY DEF IInv, Held, NoForeignWal
<1> QED
  BY <1>1, InductiveInvariant, PTL
=============================================================================

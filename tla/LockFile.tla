------------------------------ MODULE LockFile ------------------------------
(***************************************************************************)
(* `LockFile`: write-then-rename update of one target file, guarded by an  *)
(* exclusively created `.lock` file and an `.owner` side file that holds   *)
(* the pid (crates/arc-fs-ops/src/lock.rs), with the shutdown cleanup of   *)
(* the temporary-file registry (tempfile.rs, devtools/interrupt.rs).       *)
(*                                                                         *)
(* Every file-system call is one step.  A file is a record of the process  *)
(* that created it, whether that process still has it open, how much of    *)
(* the payload is in it, and whether it is older than STALE_LOCK_TTL: a    *)
(* write goes to the file the process opened, at whatever path it is now,  *)
(* while a rename or a removal takes whatever file is at the path.         *)
(* The POSIX build is modelled: publish_lockfile is a single rename.  The  *)
(* processes are of one user: `kill -0` is refused for those of another,   *)
(* which is taken for their death (module LockMarker has such processes).  *)
(***************************************************************************)
EXTENDS Integers, FiniteSets

CONSTANTS
    Proc,       \* the writers; one process, one pid
    NoFile,     \* no file at a path
    NoPid,      \* an owner file without a readable pid= line
    MaxCrashes, \* bound on the processes that die
    MaxFaults   \* bound on I/O errors and signals

ASSUME LockFileAssumption ==
    /\ NoPid \notin Proc
    /\ NoFile \notin Proc
    /\ NoFile \notin [by : Proc, open : BOOLEAN, body : {"part", "whole"}, old : BOOLEAN]
    /\ NoFile \notin [by : Proc, pid : Proc \cup {NoPid}]
    /\ MaxCrashes \in Nat
    /\ MaxFaults \in Nat

VARIABLES
    lock,       \* the file at target.lock
    owner,      \* the file at target.lock.owner
    target,     \* the file at the target path
    pc,         \* where each process is
    seenPid,    \* the pid read_pid returned to each process, until it is used
    expired,    \* should_fail_now answers TRUE for this acquire
    registered, \* target.lock is in the process's temporary-file registry
    faults,     \* I/O errors and signals so far
    reaped      \* history: some process has removed a lock as stale

vars == <<lock, owner, target, pc, seenPid, expired, registered, faults, reaped>>
local == <<seenPid, expired, registered, faults, reaped>>

File == [by : Proc, open : BOOLEAN, body : {"part", "whole"}, old : BOOLEAN]
Owner == [by : Proc, pid : Proc \cup {NoPid}]

PC == {"idle", "create", "owner", "ownerpid", "undo",
       "stat", "read", "kill", "reap", "reapowner", "retry",
       "write", "sync", "publish", "unowner", "dirsync", "drop", "dropowner",
       "failed", "dead"}

\* The steps between a successful create_new and the rename.
Inside == {"owner", "ownerpid", "write", "sync", "publish"}

\* Types, and the registry: the lock path is registered for the clean-up of a
\* signal only from the end of the acquire to the end of commit or drop.
TypeOK ==
    /\ lock \in File \cup {NoFile}
    /\ owner \in Owner \cup {NoFile}
    /\ target \in File \cup {NoFile}
    /\ pc \in [Proc -> PC]
    /\ seenPid \in [Proc -> Proc \cup {NoPid}]
    /\ expired \in [Proc -> BOOLEAN]
    /\ registered \in [Proc -> BOOLEAN]
    /\ \A p \in Proc : registered[p] => pc[p] \in {"write", "sync", "publish", "unowner", "drop"}
    /\ faults \in Nat
    /\ reaped \in BOOLEAN

Init ==
    /\ lock = NoFile /\ owner = NoFile /\ target = NoFile
    /\ pc = [p \in Proc |-> "idle"]
    /\ seenPid = [p \in Proc |-> NoPid]
    /\ expired = [p \in Proc |-> FALSE]
    /\ registered = [p \in Proc |-> FALSE]
    /\ faults = 0
    /\ reaped = FALSE

Goto(p, l) == pc' = [pc EXCEPT ![p] = l]
Opened(f, p) == f # NoFile /\ f.by = p /\ f.open
Fault == faults < MaxFaults /\ faults' = faults + 1

-----------------------------------------------------------------------------
(* acquire_for_update_with.                                                *)

Acquire(p) ==
    /\ pc[p] \in {"idle", "failed"}
    /\ Goto(p, "create")
    /\ \E immediately \in BOOLEAN : expired' = [expired EXCEPT ![p] = immediately]
    /\ UNCHANGED <<lock, owner, target, seenPid, registered, faults, reaped>>

CreateNew(p) ==
    /\ pc[p] = "create"
    /\ lock = NoFile
    /\ lock' = [by |-> p, open |-> TRUE, body |-> "part", old |-> FALSE]
    /\ Goto(p, "owner")
    /\ UNCHANGED <<owner, target, local>>

CreateExists(p) ==
    /\ pc[p] = "create"
    /\ lock # NoFile
    /\ Goto(p, "stat")
    /\ UNCHANGED <<lock, owner, target, local>>

\* write_owner_file, open(create_new): an owner file that exists is an error.
OwnerCreate(p) ==
    /\ pc[p] = "owner"
    /\ IF owner = NoFile
       THEN owner' = [by |-> p, pid |-> NoPid] /\ Goto(p, "ownerpid")
       ELSE UNCHANGED owner /\ Goto(p, "undo")
    /\ UNCHANGED <<lock, target, local>>

\* write_owner_file, the pid= line, through the descriptor; then register.
OwnerPid(p) ==
    /\ pc[p] = "ownerpid"
    /\ owner' = IF owner # NoFile /\ owner.by = p
                THEN [owner EXCEPT !.pid = p] ELSE owner
    /\ registered' = [registered EXCEPT ![p] = TRUE]
    /\ Goto(p, "write")
    /\ UNCHANGED <<lock, target, seenPid, expired, faults, reaped>>

\* The write or the fsync of the owner file fails.
OwnerPidError(p) ==
    /\ pc[p] = "ownerpid"
    /\ Fault
    /\ Goto(p, "undo")
    /\ UNCHANGED <<lock, owner, target, seenPid, expired, registered, reaped>>

\* write_owner_file failed: remove the lock path and return the error.
UndoCreate(p) ==
    /\ pc[p] = "undo"
    /\ lock' = NoFile
    /\ Goto(p, "failed")
    /\ UNCHANGED <<owner, target, local>>

\* can_reap_lock: age of the lock file, pid of the owner file, liveness.
StatLock(p) ==
    /\ pc[p] = "stat"
    /\ Goto(p, IF lock # NoFile /\ lock.old THEN "read" ELSE "retry")
    /\ UNCHANGED <<lock, owner, target, local>>

ReadOwner(p) ==
    /\ pc[p] = "read"
    /\ LET pid == IF owner = NoFile THEN NoPid ELSE owner.pid
       IN  /\ seenPid' = [seenPid EXCEPT ![p] = pid]
           /\ Goto(p, IF pid = NoPid THEN "retry" ELSE "kill")
    /\ UNCHANGED <<lock, owner, target, expired, registered, faults, reaped>>

KillZero(p) ==
    /\ pc[p] = "kill"
    /\ Goto(p, IF pc[seenPid[p]] = "dead" THEN "reap" ELSE "retry")
    /\ seenPid' = [seenPid EXCEPT ![p] = NoPid]
    /\ UNCHANGED <<lock, owner, target, expired, registered, faults, reaped>>

\* Reap: remove the lock path, then the owner path, then `continue`.
ReapLock(p) ==
    /\ pc[p] = "reap"
    /\ lock' = NoFile
    /\ reaped' = TRUE
    /\ Goto(p, "reapowner")
    /\ UNCHANGED <<owner, target, seenPid, expired, registered, faults>>

ReapOwner(p) ==
    /\ pc[p] = "reapowner"
    /\ owner' = NoFile
    /\ Goto(p, "create")
    /\ UNCHANGED <<lock, target, local>>

\* Mutant: the deadline is not looked at.
RetryForever(p) ==
    /\ pc[p] = "retry"
    /\ Goto(p, "create")
    /\ UNCHANGED <<lock, owner, target, local>>

Retry(p) ==
    /\ pc[p] = "retry"
    /\ Goto(p, IF expired[p] THEN "failed" ELSE "create")
    /\ UNCHANGED <<lock, owner, target, local>>

-----------------------------------------------------------------------------
(* write_all, commit, Drop.                                                *)

\* Mutant: the payload is published without sync and close.
WriteAllThenPublish(p) ==
    /\ pc[p] = "write"
    /\ lock' = IF Opened(lock, p)
               THEN [lock EXCEPT !.body = "whole", !.old = FALSE] ELSE lock
    /\ target' = IF Opened(target, p) THEN [target EXCEPT !.body = "whole"] ELSE target
    /\ Goto(p, "publish")
    /\ UNCHANGED <<owner, local>>

\* The payload goes to the file this process opened, wherever it is now.
WriteAll(p) ==
    /\ pc[p] = "write"
    /\ lock' = IF Opened(lock, p)
               THEN [lock EXCEPT !.body = "whole", !.old = FALSE] ELSE lock
    /\ target' = IF Opened(target, p) THEN [target EXCEPT !.body = "whole"] ELSE target
    /\ Goto(p, "sync")
    /\ UNCHANGED <<owner, local>>

\* write_all fails, or the guard is dropped before commit.
Abandon(p) ==
    /\ pc[p] = "write"
    /\ Goto(p, "drop")
    /\ UNCHANGED <<lock, owner, target, local>>

\* commit: fsync and close.
Sync(p) ==
    /\ pc[p] = "sync"
    /\ lock' = IF Opened(lock, p) THEN [lock EXCEPT !.open = FALSE] ELSE lock
    /\ target' = IF Opened(target, p) THEN [target EXCEPT !.open = FALSE] ELSE target
    /\ Goto(p, "publish")
    /\ UNCHANGED <<owner, local>>

SyncError(p) ==
    /\ pc[p] = "sync"
    /\ Fault
    /\ Goto(p, "drop")
    /\ UNCHANGED <<lock, owner, target, seenPid, expired, registered, reaped>>

\* publish_lockfile: rename whatever is at the lock path onto the target; an
\* absent source is an error, and the guard is dropped.
Publish(p) ==
    /\ pc[p] = "publish"
    /\ IF lock = NoFile
       THEN Goto(p, "drop") /\ UNCHANGED <<lock, target>>
       ELSE Goto(p, "unowner") /\ target' = lock /\ lock' = NoFile
    /\ UNCHANGED <<owner, local>>

\* commit: remove the owner path, deregister.
RemoveOwner(p) ==
    /\ pc[p] = "unowner"
    /\ owner' = NoFile
    /\ registered' = [registered EXCEPT ![p] = FALSE]
    /\ Goto(p, "dirsync")
    /\ UNCHANGED <<lock, target, seenPid, expired, faults, reaped>>

DirSync(p) ==
    /\ pc[p] = "dirsync"
    /\ Goto(p, "idle")
    /\ UNCHANGED <<lock, owner, target, local>>

\* sync_directory fails: `committed` is still false, so Drop runs.
DirSyncError(p) ==
    /\ pc[p] = "dirsync"
    /\ Fault
    /\ Goto(p, "drop")
    /\ UNCHANGED <<lock, owner, target, seenPid, expired, registered, reaped>>

\* Drop: close, deregister, remove the lock path, then the owner path.
DropLock(p) ==
    /\ pc[p] = "drop"
    /\ lock' = NoFile
    /\ target' = IF Opened(target, p) THEN [target EXCEPT !.open = FALSE] ELSE target
    /\ registered' = [registered EXCEPT ![p] = FALSE]
    /\ Goto(p, "dropowner")
    /\ UNCHANGED <<owner, seenPid, expired, faults, reaped>>

\* Mutant: Drop removes the lock path once more, after the owner path.
DropOwnerAndLock(p) ==
    /\ pc[p] = "dropowner"
    /\ owner' = NoFile
    /\ lock' = NoFile
    /\ Goto(p, "failed")
    /\ UNCHANGED <<target, local>>

DropOwner(p) ==
    /\ pc[p] = "dropowner"
    /\ owner' = NoFile
    /\ Goto(p, "failed")
    /\ UNCHANGED <<lock, target, local>>

-----------------------------------------------------------------------------
(* Signals, crashes and time.                                              *)

\* cleanup_signal_safe on Ctrl+C, or on SIGTERM before the exit: the lock path
\* is removed if registered, the owner path never; the process runs on.
Signal(p) ==
    /\ pc[p] # "dead"
    /\ registered[p]
    /\ Fault
    /\ lock' = NoFile
    /\ registered' = [registered EXCEPT ![p] = FALSE]
    /\ UNCHANGED <<owner, target, pc, seenPid, expired, reaped>>

Crash(p) ==
    /\ pc[p] # "dead"
    /\ Cardinality({q \in Proc : pc[q] = "dead"}) < MaxCrashes
    /\ Goto(p, "dead")
    /\ registered' = [registered EXCEPT ![p] = FALSE]
    /\ UNCHANGED <<lock, owner, target, seenPid, expired, faults, reaped>>

Expire(p) ==
    /\ pc[p] \in {"create", "stat", "read", "kill", "reap", "reapowner", "retry"}
    /\ ~expired[p]
    /\ expired' = [expired EXCEPT ![p] = TRUE]
    /\ UNCHANGED <<lock, owner, target, pc, seenPid, registered, faults, reaped>>

Age ==
    /\ lock # NoFile
    /\ ~lock.old
    /\ lock' = [lock EXCEPT !.old = TRUE]
    /\ UNCHANGED <<owner, target, pc, local>>

AcquireStep(p) ==
    \/ CreateNew(p) \/ CreateExists(p) \/ OwnerCreate(p) \/ OwnerPid(p)
    \/ UndoCreate(p) \/ StatLock(p) \/ ReadOwner(p) \/ KillZero(p)
    \/ ReapLock(p) \/ ReapOwner(p) \/ Retry(p)

UpdateStep(p) ==
    \/ WriteAll(p) \/ Abandon(p) \/ Sync(p) \/ Publish(p) \/ RemoveOwner(p)
    \/ DirSync(p) \/ DropLock(p) \/ DropOwner(p)

ErrorStep(p) ==
    OwnerPidError(p) \/ SyncError(p) \/ DirSyncError(p) \/ Signal(p)

Next ==
    \/ \E p \in Proc :
          \/ Acquire(p) \/ AcquireStep(p) \/ UpdateStep(p) \/ ErrorStep(p)
          \/ Crash(p) \/ Expire(p)
    \/ Age

Spec == Init /\ [][Next]_vars

\* Running processes execute, deadlines pass, callers keep asking, files age.
RetrySpec ==
    /\ Spec
    /\ \A p \in Proc :
          /\ WF_vars(AcquireStep(p)) /\ WF_vars(UpdateStep(p))
          /\ WF_vars(Expire(p)) /\ WF_vars(Acquire(p))
    /\ WF_vars(Age)

-----------------------------------------------------------------------------
(* Properties.                                                             *)

\* No I/O error, no signal, no stale lock taken over.  Crashes are allowed.
Undisturbed == faults = 0 /\ ~reaped

\* Between its create_new and its rename a live process is alone, and the
\* file at the lock path is the one it created, wherever the other processes
\* crashed, timed out or failed on the owner file.
WriterAlone ==
    Undisturbed =>
       \A p \in Proc : pc[p] \in Inside =>
          /\ lock # NoFile /\ lock.by = p
          /\ \A q \in Proc \ {p} : pc[q] \notin Inside

\* lock.rs:24: readers of the target never see a partially written file.
TargetWhole == target # NoFile => target.body = "whole"

\* A crash at any step of any writer leaves the target whole, and nobody
\* still has it open for writing.
CrashConsistent ==
    Undisturbed => TargetWhole /\ (target # NoFile => ~target.open)

\* Every acquire returns and every commit or drop ends.
UpdateReturns ==
    \A p \in Proc : (pc[p] = "create") ~> (pc[p] \in {"idle", "failed", "dead"})

DeadOwner == owner # NoFile /\ pc[owner.by] = "dead"
SomeAlive == \E p \in Proc : pc[p] # "dead"

\* lock.rs:14: "If a process exits unexpectedly, stale lock cleanup on next
\* acquire allows bounded recovery": the owner file of a process that died
\* after writing its pid does not stay while somebody keeps asking.
DeadOwnerReaped ==
    (DeadOwner /\ owner.pid # NoPid) ~> (~DeadOwner \/ ~SomeAlive)
=============================================================================

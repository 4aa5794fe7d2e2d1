----------------------------- MODULE LockMarker -----------------------------
(***************************************************************************)
(* `LockMarker`: mutual exclusion by an exclusively created marker file    *)
(* (crates/arc-fs-ops/src/lock.rs), together with the shutdown cleanup of  *)
(* the temporary-file registry (tempfile.rs, devtools/interrupt.rs).       *)
(*                                                                         *)
(* One marker path is shared by a set of processes.  Every file-system     *)
(* call of the code is one step, so other processes run between the age    *)
(* check, the pid read and the removal of a stale marker.  A marker file   *)
(* is a record: who created it (its identity, for writes go through the    *)
(* creator's descriptor), the pid readable in it, and whether its          *)
(* modification time is more than STALE_LOCK_TTL ago.                      *)
(***************************************************************************)
EXTENDS Integers, FiniteSets

CONSTANTS
    Proc,         \* the processes that use the marker; one process, one pid
    Foreign,      \* those of another user, who share the repository
    NoFile,       \* no marker file at the path
    NoPid,        \* a marker without a readable pid= line
    MaxCrashes,   \* bound on the processes that die
    MaxInterrupts \* bound on the Ctrl+C and SIGTERM signals delivered

ASSUME LockMarkerAssumption ==
    /\ Foreign \subseteq Proc
    /\ NoPid \notin Proc
    /\ NoFile \notin [creator : Proc, pid : Proc \cup {NoPid}, old : BOOLEAN]
    /\ MaxCrashes \in Nat
    /\ MaxInterrupts \in Nat

VARIABLES
    marker,     \* the file at the marker path, or NoFile
    pc,         \* where each process is
    seenPid,    \* the pid read_pid returned to each process, until it is used
    expired,    \* should_fail_now answers TRUE for this acquire
    registered, \* the path is in the process's temporary-file registry
    interrupts, \* signals delivered so far
    misjudged   \* history: a living process has been taken for dead

vars == <<marker, pc, seenPid, expired, registered, interrupts, misjudged>>

File == [creator : Proc, pid : Proc \cup {NoPid}, old : BOOLEAN]

PC == {"idle",    \* outside
       "create",  \* about to create_new
       "write",   \* created, pid= line not yet written
       "stat",    \* the path exists: about to check its age
       "read",    \* it is old: about to read its pid
       "kill",    \* about to ask whether that pid is alive
       "reap",    \* decided: about to remove the path
       "retry",   \* not reapable: deadline check, then sleep
       "hold",    \* acquire returned Ok
       "failed",  \* acquire returned TimedOut
       "dead"}

\* Types, and the registry: the path is registered for the clean-up of a signal
\* only while its process holds the marker.
TypeOK ==
    /\ marker \in File \cup {NoFile}
    /\ pc \in [Proc -> PC]
    /\ seenPid \in [Proc -> Proc \cup {NoPid}]
    /\ expired \in [Proc -> BOOLEAN]
    /\ registered \in [Proc -> BOOLEAN]
    /\ \A p \in Proc : registered[p] => pc[p] = "hold"
    /\ interrupts \in Nat
    /\ misjudged \in BOOLEAN

Init ==
    /\ marker = NoFile
    /\ pc = [p \in Proc |-> "idle"]
    /\ seenPid = [p \in Proc |-> NoPid]
    /\ expired = [p \in Proc |-> FALSE]
    /\ registered = [p \in Proc |-> FALSE]
    /\ interrupts = 0
    /\ misjudged = FALSE

Alive(q) == pc[q] # "dead"

\* `kill -0`, run by p, succeeds: on a process that lives and that p may signal.
\* A refusal (EPERM) counts as a death.
is_pid_alive(p, q) == Alive(q) /\ (p \in Foreign <=> q \in Foreign)

Goto(p, l) == pc' = [pc EXCEPT ![p] = l]

-----------------------------------------------------------------------------
(* acquire_with.                                                           *)

\* Enter acquire_with.  Under LockFailMode::Immediately should_fail_now holds
\* from the start; otherwise it holds once the deadline has passed.
Acquire(p) ==
    /\ pc[p] \in {"idle", "failed"}
    /\ Goto(p, "create")
    /\ \E immediately \in BOOLEAN : expired' = [expired EXCEPT ![p] = immediately]
    /\ UNCHANGED <<marker, seenPid, registered, interrupts, misjudged>>

\* open(create_new) succeeds.
CreateNew(p) ==
    /\ pc[p] = "create"
    /\ marker = NoFile
    /\ marker' = [creator |-> p, pid |-> NoPid, old |-> FALSE]
    /\ Goto(p, "write")
    /\ UNCHANGED <<seenPid, expired, registered, interrupts, misjudged>>

\* open(create_new) answers AlreadyExists.
CreateExists(p) ==
    /\ pc[p] = "create"
    /\ marker # NoFile
    /\ Goto(p, "stat")
    /\ UNCHANGED <<marker, seenPid, expired, registered, interrupts, misjudged>>

\* Write the pid= line through the descriptor (lost with the inode when the
\* path has been removed meanwhile) and register the path.
WritePid(p) ==
    /\ pc[p] = "write"
    /\ marker' = IF marker # NoFile /\ marker.creator = p
                 THEN [marker EXCEPT !.pid = p, !.old = FALSE] ELSE marker
    /\ registered' = [registered EXCEPT ![p] = TRUE]
    /\ Goto(p, "hold")
    /\ UNCHANGED <<seenPid, expired, interrupts, misjudged>>

\* can_reap_marker, metadata and age: gone or young is not reapable.
StatMarker(p) ==
    /\ pc[p] = "stat"
    /\ Goto(p, IF marker # NoFile /\ marker.old THEN "read" ELSE "retry")
    /\ UNCHANGED <<marker, seenPid, expired, registered, interrupts, misjudged>>

\* can_reap_marker, read_pid: whatever file is at the path now.
ReadPid(p) ==
    /\ pc[p] = "read"
    /\ LET pid == IF marker = NoFile THEN NoPid ELSE marker.pid
       IN  /\ seenPid' = [seenPid EXCEPT ![p] = pid]
           /\ Goto(p, IF pid = NoPid THEN "retry" ELSE "kill")
    /\ UNCHANGED <<marker, expired, registered, interrupts, misjudged>>

\* Mutant: an old marker is reaped whether or not its process lives.
KillZeroByAge(p) ==
    /\ pc[p] = "kill"
    /\ Goto(p, "reap")
    /\ seenPid' = [seenPid EXCEPT ![p] = NoPid]
    /\ misjudged' = misjudged
    /\ UNCHANGED <<marker, expired, registered, interrupts>>

\* can_reap_marker, is_pid_alive.
KillZero(p) ==
    /\ pc[p] = "kill"
    /\ Goto(p, IF is_pid_alive(p, seenPid[p]) THEN "retry" ELSE "reap")
    /\ seenPid' = [seenPid EXCEPT ![p] = NoPid]
    /\ misjudged' = (misjudged \/ (Alive(seenPid[p]) /\ ~is_pid_alive(p, seenPid[p])))
    /\ UNCHANGED <<marker, expired, registered, interrupts>>

\* remove_file on the path, then `continue`.
Reap(p) ==
    /\ pc[p] = "reap"
    /\ marker' = NoFile
    /\ Goto(p, "create")
    /\ UNCHANGED <<seenPid, expired, registered, interrupts, misjudged>>

\* Mutant: the deadline is not looked at.
RetryForever(p) ==
    /\ pc[p] = "retry"
    /\ Goto(p, "create")
    /\ UNCHANGED <<marker, seenPid, expired, registered, interrupts, misjudged>>

\* Past the deadline (or Immediately): TimedOut; else sleep and try again.
Retry(p) ==
    /\ pc[p] = "retry"
    /\ Goto(p, IF expired[p] THEN "failed" ELSE "create")
    /\ UNCHANGED <<marker, seenPid, expired, registered, interrupts, misjudged>>

-----------------------------------------------------------------------------
(* Holding, releasing, signals and time.                                   *)

\* release and Drop: deregister, and remove the path without looking at it.
Release(p) ==
    /\ pc[p] = "hold"
    /\ marker' = NoFile
    /\ registered' = [registered EXCEPT ![p] = FALSE]
    /\ Goto(p, "idle")
    /\ UNCHANGED <<seenPid, expired, interrupts, misjudged>>

\* cleanup_signal_safe: remove every registered path of this process.
Cleanup(p) ==
    /\ marker' = IF registered[p] THEN NoFile ELSE marker
    /\ registered' = [registered EXCEPT ![p] = FALSE]

\* The Ctrl+C handler marks the state interrupted and cleans up; the process
\* goes on with what it was doing.  The SIGTERM thread does the same before it
\* exits (then Crash), while the main thread runs on.
Signal(p) ==
    /\ pc[p] # "dead"
    /\ interrupts < MaxInterrupts
    /\ interrupts' = interrupts + 1
    /\ Cleanup(p)
    /\ UNCHANGED <<pc, seenPid, expired, misjudged>>

\* The process ends at any point: a crash, SIGKILL, or exit(143) after a
\* SIGTERM cleanup.
Crash(p) ==
    /\ pc[p] # "dead"
    /\ Cardinality({q \in Proc : pc[q] = "dead"}) < MaxCrashes
    /\ Goto(p, "dead")
    /\ registered' = [registered EXCEPT ![p] = FALSE]
    /\ UNCHANGED <<marker, seenPid, expired, interrupts, misjudged>>

\* The deadline of an acquire passes.
Expire(p) ==
    /\ pc[p] \notin {"idle", "hold", "failed", "dead"}
    /\ ~expired[p]
    /\ expired' = [expired EXCEPT ![p] = TRUE]
    /\ UNCHANGED <<marker, pc, seenPid, registered, interrupts, misjudged>>

\* The marker's modification time falls behind STALE_LOCK_TTL.
Age ==
    /\ marker # NoFile
    /\ ~marker.old
    /\ marker' = [marker EXCEPT !.old = TRUE]
    /\ UNCHANGED <<pc, seenPid, expired, registered, interrupts, misjudged>>

\* The steps of acquire_with after its entry.
AcquireStep(p) ==
    \/ CreateNew(p) \/ CreateExists(p) \/ WritePid(p)
    \/ StatMarker(p) \/ ReadPid(p) \/ KillZero(p) \/ Reap(p) \/ Retry(p)

Next ==
    \/ \E p \in Proc :
          \/ Acquire(p) \/ AcquireStep(p) \/ Release(p)
          \/ Signal(p) \/ Crash(p) \/ Expire(p)
    \/ Age

Spec == Init /\ [][Next]_vars

\* A running process executes its acquire, and deadlines pass.
FairSpec ==
    /\ Spec
    /\ \A p \in Proc : WF_vars(AcquireStep(p)) /\ WF_vars(Expire(p))

\* Besides, the callers keep asking for the marker, and files age.
RetrySpec ==
    /\ FairSpec
    /\ \A p \in Proc : WF_vars(Acquire(p)) /\ WF_vars(Release(p))
    /\ WF_vars(Age)

-----------------------------------------------------------------------------
(* Properties.                                                             *)

Holders == {p \in Proc : pc[p] = "hold"}

\* The claim at lock.rs:70: the marker "cannot be simultaneously acquired by
\* competing writers".
Exclusion == \A p, q \in Holders : p = q

\* Every process lives, no signal was delivered, and no process was taken for
\* dead by one of another user.
Undisturbed == interrupts = 0 /\ ~misjudged /\ \A p \in Proc : Alive(p)

\* As long as no process has died or been taken for dead, and no signal was
\* delivered, the marker excludes: at most one acquire has returned Ok, however long a holder keeps
\* the marker (age alone never makes it reapable), and the file at the path
\* is the holder's, with the holder's pid in it.
ExclusionUndisturbed ==
    Undisturbed =>
       /\ Exclusion
       /\ \A p \in Holders : marker # NoFile /\ marker.creator = p /\ marker.pid = p

\* Every acquire returns: it ends in Ok or TimedOut, or its process dies
\* (lock.rs:94-119: `continue` after a reap skips the deadline check, yet
\* cannot go round for ever, unless it reaps the markers of the living).
AcquireReturns ==
    \A p \in Proc :
       (pc[p] = "create") ~> (pc[p] \in {"hold", "failed", "dead"} \/ misjudged)

DeadMarker == marker # NoFile /\ ~Alive(marker.creator)
SomeAlive == \E p \in Proc : Alive(p)

\* While somebody keeps asking, a marker whose process died after writing its
\* pid does not stay: the next acquires reap it (lock.rs:14, "bounded
\* recovery").
DeadHolderReaped ==
    (DeadMarker /\ marker.pid # NoPid) ~> (~DeadMarker \/ ~SomeAlive)

\* The lock comes free, however its holders end.
LockComesFree == AcquireReturns /\ DeadHolderReaped
=============================================================================

--------------------------- MODULE LockFileProofs ---------------------------
(***************************************************************************)
(* Proofs about LockFile, for every set of writers and every bound.        *)
(***************************************************************************)
EXTENDS LockFile, TLAPS

\* The steps at which a process counts on its own file at the lock path.
Owning == Inside \cup {"undo", "drop"}

OwnLock == \A p \in Proc : pc[p] \in Owning => lock \in File /\ lock.by = p

\* How far the payload is when the rename comes nearer.
Payload ==
    \A p \in Proc :
       /\ pc[p] \in Inside \ {"publish"} => lock.open
       /\ pc[p] = "sync" => lock.body = "whole"
       /\ pc[p] = "publish" => lock.body = "whole" /\ ~lock.open

\* The published file is complete and closed.
Published == target # NoFile => target.body = "whole" /\ ~target.open

\* The inductive invariant: WriterAlone does not cover the two error paths
\* that remove the lock path (undo, drop), and CrashConsistent says nothing of
\* the file that is to be renamed.
IInv ==
    /\ TypeOK
    /\ Undisturbed => OwnLock /\ Payload /\ Published

\* No file is taken for the mark of none.
LEMMA FileIsThere == \A f \in File : f # NoFile
  BY LockFileAssumption DEF File

\* The invariant holds at the start.
LEMMA IInvInit == Init => IInv
  <1> SUFFICES ASSUME Init PROVE IInv
    OBVIOUS
  <1>1. TypeOK
    BY LockFileAssumption DEF Init, TypeOK, PC
  <1>2. OwnLock /\ Payload /\ Published
    BY DEF Init, Owning, Inside, OwnLock, Payload, Published
  <1> QED
    BY <1>1, <1>2 DEF IInv

\* Types are kept.
LEMMA TypeStep == TypeOK /\ [Next]_vars => TypeOK'
  <1> SUFFICES ASSUME TypeOK, [Next]_vars PROVE TypeOK'
    OBVIOUS
  <1> USE LockFileAssumption DEF TypeOK, PC, File, Owner, Goto, Opened, Fault, local
  <1>1. ASSUME NEW p \in Proc, Acquire(p) \/ Crash(p) \/ Expire(p) PROVE TypeOK'
    BY <1>1 DEF Acquire, Crash, Expire
  <1>2. ASSUME NEW p \in Proc, AcquireStep(p) PROVE TypeOK'
    <2>1. CASE CreateNew(p)
      <3>1. lock' \in File
        BY <2>1 DEF CreateNew
      <3> QED
        BY <2>1, <3>1 DEF CreateNew
    <2>2. CASE OwnerCreate(p)
      BY <2>2 DEF OwnerCreate
    <2>3. CASE OwnerPid(p)
      BY <2>3 DEF OwnerPid
    <2>4. CASE UndoCreate(p) \/ StatLock(p)
      BY <2>4 DEF UndoCreate, StatLock
    <2>5. CASE ReadOwner(p)
      BY <2>5 DEF ReadOwner
    <2>6. CASE KillZero(p)
      BY <2>6 DEF KillZero
    <2>7. CASE CreateExists(p) \/ ReapLock(p) \/ ReapOwner(p) \/ Retry(p)
      BY <2>7 DEF CreateExists, ReapLock, ReapOwner, Retry
    <2> QED
      BY <1>2, <2>1, <2>2, <2>3, <2>4, <2>5, <2>6, <2>7 DEF AcquireStep
  <1>3. ASSUME NEW p \in Proc, UpdateStep(p) PROVE TypeOK'
    <2>1. CASE WriteAll(p)
      BY <2>1 DEF WriteAll
    <2>2. CASE Sync(p)
      BY <2>2 DEF Sync
    <2>3. CASE Abandon(p) \/ Publish(p) \/ RemoveOwner(p)
      BY <2>3 DEF Abandon, Publish, RemoveOwner
    <2>4. CASE DirSync(p) \/ DropOwner(p)
      BY <2>4 DEF DirSync, DropOwner
    <2>5. CASE DropLock(p)
      BY <2>5 DEF DropLock
    <2> QED
      BY <1>3, <2>1, <2>2, <2>3, <2>4, <2>5 DEF UpdateStep
  <1>4. ASSUME NEW p \in Proc, ErrorStep(p) PROVE TypeOK'
    <2>1. CASE OwnerPidError(p)
      BY <2>1 DEF OwnerPidError
    <2>2. CASE SyncError(p)
      BY <2>2 DEF SyncError
    <2>3. CASE DirSyncError(p)
      BY <2>3 DEF DirSyncError
    <2>4. CASE Signal(p)
      BY <2>4 DEF Signal
    <2> QED
      BY <1>4, <2>1, <2>2, <2>3, <2>4 DEF ErrorStep
  <1>5. CASE Age
    BY <1>5 DEF Age
  <1>6. CASE UNCHANGED vars
    BY <1>6 DEF vars
  <1> QED
    BY <1>1, <1>2, <1>3, <1>4, <1>5, <1>6 DEF Next

\* Faults are counted up, and a take-over is remembered.
LEMMA DisturbedForGood == TypeOK /\ [Next]_vars /\ Undisturbed' => Undisturbed
  <1> SUFFICES ASSUME TypeOK, [Next]_vars, Undisturbed' PROVE Undisturbed
    OBVIOUS
  <1> USE DEF TypeOK, Undisturbed, Fault, local
  <1>1. ASSUME NEW p \in Proc, Acquire(p) \/ Crash(p) \/ Expire(p) PROVE Undisturbed
    BY <1>1 DEF Acquire, Crash, Expire
  <1>2. ASSUME NEW p \in Proc, AcquireStep(p) PROVE Undisturbed
    BY <1>2 DEF AcquireStep, CreateNew, CreateExists, OwnerCreate, OwnerPid, UndoCreate,
                StatLock, ReadOwner, KillZero, ReapLock, ReapOwner, Retry
  <1>3. ASSUME NEW p \in Proc, UpdateStep(p) PROVE Undisturbed
    BY <1>3 DEF UpdateStep, WriteAll, Abandon, Sync, Publish, RemoveOwner, DirSync, DropLock,
                DropOwner
  <1>4. ASSUME NEW p \in Proc, ErrorStep(p) PROVE Undisturbed
    BY <1>4 DEF ErrorStep, OwnerPidError, SyncError, DirSyncError, Signal
  <1>5. CASE Age \/ UNCHANGED vars
    BY <1>5 DEF Age, vars
  <1> QED
    BY <1>1, <1>2, <1>3, <1>4, <1>5 DEF Next

\* Every step keeps the invariant.
LEMMA IInvStep == IInv /\ [Next]_vars => IInv'
  <1> SUFFICES ASSUME IInv, [Next]_vars PROVE IInv'
    OBVIOUS
  <1> DEFINE Safe == OwnLock /\ Payload /\ Published
  <1>1. TypeOK'
    BY TypeStep DEF IInv
  <1>2. SUFFICES ASSUME Undisturbed' PROVE Safe'
    BY <1>1 DEF IInv
  <1>3. TypeOK /\ Undisturbed /\ Safe
    BY <1>2, DisturbedForGood DEF IInv
  <1> USE LockFileAssumption, <1>3
      DEF TypeOK, PC, File, Goto, Opened, local, Owning, Inside, OwnLock, Payload, Published
  <1>4. ASSUME NEW p \in Proc, Acquire(p) \/ Expire(p) PROVE Safe'
    BY <1>4 DEF Acquire, Expire
  \* A dead process counts on nothing; its lock file stays.
  <1>5. ASSUME NEW p \in Proc, Crash(p) PROVE Safe'
    BY <1>5 DEF Crash
  <1>6. ASSUME NEW p \in Proc, AcquireStep(p) PROVE Safe'
    <2>1. CASE CreateNew(p)
      <3>1. \A q \in Proc : pc[q] \notin Owning
        BY <2>1, FileIsThere DEF CreateNew
      <3>2. lock' \in File /\ lock'.by = p /\ lock'.open
        BY <2>1 DEF CreateNew
      <3> QED
        BY <2>1, <3>1, <3>2 DEF CreateNew
    <2>2. CASE CreateExists(p) \/ StatLock(p)
      BY <2>2 DEF CreateExists, StatLock
    <2>3. CASE OwnerCreate(p)
      BY <2>3 DEF OwnerCreate
    <2>4. CASE OwnerPid(p)
      BY <2>4 DEF OwnerPid
    \* The lock removed is the process's own, so nobody else counted on it.
    <2>5. CASE UndoCreate(p)
      BY <2>5 DEF UndoCreate
    <2>6. CASE ReadOwner(p) \/ KillZero(p)
      BY <2>6 DEF ReadOwner, KillZero
    <2>7. CASE ReapLock(p)
      BY <1>2, <2>7 DEF ReapLock, Undisturbed
    <2>8. CASE ReapOwner(p) \/ Retry(p)
      BY <2>8 DEF ReapOwner, Retry
    <2> QED
      BY <1>6, <2>1, <2>2, <2>3, <2>4, <2>5, <2>6, <2>7, <2>8 DEF AcquireStep
  <1>7. ASSUME NEW p \in Proc, UpdateStep(p) PROVE Safe'
    \* The published file is closed, so the payload goes to the lock file.
    <2>1. CASE WriteAll(p)
      <3>1. target' = target
        BY <2>1 DEF WriteAll
      <3>2. lock \in File /\ Opened(lock, p)
        BY <2>1, FileIsThere DEF WriteAll
      <3>3. lock' \in File /\ lock'.by = p /\ lock'.open /\ lock'.body = "whole"
        BY <2>1, <3>2 DEF WriteAll
      <3> QED
        BY <2>1, <3>1, <3>2, <3>3 DEF WriteAll
    <2>2. CASE Sync(p)
      BY <2>2 DEF Sync
    <2>3. CASE Publish(p)
      BY <2>3, FileIsThere DEF Publish
    <2>4. CASE Abandon(p) \/ RemoveOwner(p) \/ DirSync(p) \/ DropOwner(p)
      BY <2>4 DEF Abandon, RemoveOwner, DirSync, DropOwner
    <2>5. CASE DropLock(p)
      BY <2>5 DEF DropLock
    <2> QED
      BY <1>7, <2>1, <2>2, <2>3, <2>4, <2>5 DEF UpdateStep
  <1>8. ASSUME NEW p \in Proc, ErrorStep(p) PROVE FALSE
    BY <1>2, <1>8 DEF ErrorStep, OwnerPidError, SyncError, DirSyncError, Signal, Fault, Undisturbed
  <1>9. CASE Age
    <2>1. lock' \in File /\ lock'.by = lock.by /\ lock'.body = lock.body /\ lock'.open = lock.open
      BY <1>9 DEF Age
    <2> QED
      BY <1>9, <2>1 DEF Age
  <1>10. CASE UNCHANGED vars
    BY <1>10 DEF vars
  <1> QED
    BY <1>4, <1>5, <1>6, <1>7, <1>8, <1>9, <1>10 DEF Next

\* The invariant holds in every state.
LEMMA IInvHolds == Spec => []IInv
  BY IInvInit, IInvStep, PTL DEF Spec

\* The three paths, the writers and their registries are always well formed;
\* in particular target.lock is in the clean-up registry of no process that is
\* not between its acquire and its commit or drop.
THEOREM TypeCorrect == Spec => []TypeOK
  <1>1. Init => TypeOK
    BY IInvInit DEF IInv
  <1> QED
    BY <1>1, TypeStep, PTL DEF Spec

\* Without I/O errors, signals and take-overs a writer is alone between its
\* create_new and its rename, wherever the others crash, time out or fail on
\* the owner file.
THEOREM WriterAlwaysAlone == Spec => []WriterAlone
  <1>1. IInv => WriterAlone
    BY FileIsThere DEF IInv, WriterAlone, OwnLock, Owning, Inside
  <1> QED
    BY <1>1, IInvHolds, PTL

\* Under the same conditions the target is complete and closed at every step,
\* and so after a crash at any step of any writer.
THEOREM AlwaysCrashConsistent == Spec => []CrashConsistent
  <1>1. IInv => CrashConsistent
    BY DEF IInv, CrashConsistent, TargetWhole, Published
  <1> QED
    BY <1>1, IInvHolds, PTL
=============================================================================

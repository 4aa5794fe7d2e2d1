---------------------------- MODULE CommandProofs ----------------------------
(***************************************************************************)
(* Proofs about what a command takes and leaves: LockMarker, for every set *)
(* of processes, and Rewrite, for every history, command and mishap.       *)
(***************************************************************************)
EXTENDS LockMarker, Rewrite, Induction, TLAPS

-----------------------------------------------------------------------------
(* The marker that excludes.                                                 *)

\* A process that asks whether a pid is alive has read one.
PidRead == \A p \in Proc : pc[p] = "kill" => seenPid[p] \in Proc

\* Nobody is about to remove the path without holding the marker.
NobodyReaps == \A p \in Proc : pc[p] # "reap"

\* The file at the path is that of the one process past its create_new.
OwnFile ==
    \A p \in Proc : pc[p] \in {"write", "hold"} => marker # NoFile /\ marker.creator = p

\* A holder has written its pid.
OwnPid == \A p \in Proc : pc[p] = "hold" => marker.pid = p

\* The inductive invariant.  ExclusionUndisturbed alone is not inductive: it
\* does not say who is between create_new and the pid= line, nor that nobody
\* has decided to reap.
IInv ==
    /\ TypeOK
    /\ PidRead
    /\ Undisturbed => NobodyReaps /\ OwnFile /\ OwnPid

\* No file is taken for the mark of none.
LEMMA FileIsThere == \A f \in File : f # NoFile
  BY LockMarkerAssumption DEF File

\* The invariant holds at the start.
LEMMA IInvInit == Init => IInv
  <1> SUFFICES ASSUME Init PROVE IInv
    OBVIOUS
  <1>1. TypeOK
    <2>1. misjudged \in BOOLEAN
      BY Zenon DEF Init
    <2>2. interrupts \in Nat
      BY DEF Init
    <2>3. marker \in File \cup {NoFile}
      BY Zenon DEF Init
    <2> QED
      BY <2>1, <2>2, <2>3, LockMarkerAssumption DEF Init, TypeOK, PC
  <1> QED
    BY <1>1 DEF Init, IInv, PidRead, NobodyReaps, OwnFile, OwnPid

\* Types are kept.
LEMMA TypeStep == TypeOK /\ [Next]_vars => TypeOK'
  <1> SUFFICES ASSUME TypeOK, [Next]_vars PROVE TypeOK'
    OBVIOUS
  <1> USE LockMarkerAssumption DEF TypeOK, PC, File, Goto
  <1>1. ASSUME NEW p \in Proc, Acquire(p) PROVE TypeOK'
    BY <1>1 DEF Acquire
  <1>2. ASSUME NEW p \in Proc, AcquireStep(p) PROVE TypeOK'
    <2>1. CASE CreateNew(p)
      BY <2>1 DEF CreateNew
    <2>2. CASE CreateExists(p)
      BY <2>2 DEF CreateExists
    <2>3. CASE WritePid(p)
      BY <2>3 DEF WritePid
    <2>4. CASE StatMarker(p)
      BY <2>4 DEF StatMarker
    <2>5. CASE ReadPid(p)
      BY <2>5 DEF ReadPid
    <2>6. CASE KillZero(p)
      BY <2>6 DEF KillZero
    <2>7. CASE Reap(p)
      BY <2>7 DEF Reap
    <2>8. CASE Retry(p)
      BY <2>8 DEF Retry
    <2> QED
      BY <1>2, <2>1, <2>2, <2>3, <2>4, <2>5, <2>6, <2>7, <2>8 DEF AcquireStep
  <1>3. ASSUME NEW p \in Proc, Release(p) PROVE TypeOK'
    BY <1>3 DEF Release
  <1>4. ASSUME NEW p \in Proc, Signal(p) PROVE TypeOK'
    BY <1>4 DEF Signal, Cleanup
  <1>5. ASSUME NEW p \in Proc, Crash(p) PROVE TypeOK'
    BY <1>5 DEF Crash
  <1>6. ASSUME NEW p \in Proc, Expire(p) PROVE TypeOK'
    BY <1>6 DEF Expire
  <1>7. CASE Age
    BY <1>7 DEF Age
  <1>8. CASE UNCHANGED vars
    BY <1>8 DEF vars
  <1> QED
    BY <1>1, <1>2, <1>3, <1>4, <1>5, <1>6, <1>7, <1>8 DEF Next

\* Only read_pid leads to the liveness question, and only with a pid.
LEMMA PidReadStep == TypeOK /\ PidRead /\ [Next]_vars => PidRead'
  <1> SUFFICES ASSUME TypeOK, PidRead, [Next]_vars PROVE PidRead'
    OBVIOUS
  <1> USE LockMarkerAssumption DEF TypeOK, PC, File, Goto, PidRead
  <1>1. ASSUME NEW p \in Proc, Acquire(p) \/ Release(p) \/ Crash(p) PROVE PidRead'
    BY <1>1 DEF Acquire, Release, Crash
  <1>2. ASSUME NEW p \in Proc, AcquireStep(p) PROVE PidRead'
    <2>1. CASE CreateNew(p) \/ CreateExists(p) \/ WritePid(p) \/ StatMarker(p)
      BY <2>1 DEF CreateNew, CreateExists, WritePid, StatMarker
    <2>2. CASE ReadPid(p)
      BY <2>2 DEF ReadPid
    <2>3. CASE KillZero(p) \/ Reap(p) \/ Retry(p)
      BY <2>3 DEF KillZero, Reap, Retry
    <2> QED
      BY <1>2, <2>1, <2>2, <2>3 DEF AcquireStep
  <1>3. ASSUME NEW p \in Proc, Signal(p) \/ Expire(p) PROVE PidRead'
    BY <1>3 DEF Signal, Expire
  <1>4. CASE Age \/ UNCHANGED vars
    BY <1>4 DEF Age, vars
  <1> QED
    BY <1>1, <1>2, <1>3, <1>4 DEF Next

\* Signals are counted up and the dead stay dead.
LEMMA DisturbedForGood == TypeOK /\ [Next]_vars /\ Undisturbed' => Undisturbed
  <1> SUFFICES ASSUME TypeOK, [Next]_vars, Undisturbed' PROVE Undisturbed
    OBVIOUS
  <1> USE DEF TypeOK, Goto, Undisturbed, Alive
  <1>1. ASSUME NEW p \in Proc, Acquire(p) \/ Release(p) \/ Crash(p) PROVE Undisturbed
    BY <1>1 DEF Acquire, Release, Crash
  <1>2. ASSUME NEW p \in Proc, AcquireStep(p) PROVE Undisturbed
    BY <1>2 DEF AcquireStep, CreateNew, CreateExists, WritePid, StatMarker, ReadPid,
                KillZero, Reap, Retry
  <1>3. ASSUME NEW p \in Proc, Signal(p) \/ Expire(p) PROVE Undisturbed
    BY <1>3 DEF Signal, Expire
  <1>4. CASE Age \/ UNCHANGED vars
    BY <1>4 DEF Age, vars
  <1> QED
    BY <1>1, <1>2, <1>3, <1>4 DEF Next

\* Every step keeps the invariant.
LEMMA IInvStep == IInv /\ [Next]_vars => IInv'
  <1> SUFFICES ASSUME IInv, [Next]_vars PROVE IInv'
    OBVIOUS
  <1>1. TypeOK' /\ PidRead'
    BY TypeStep, PidReadStep DEF IInv
  <1>2. SUFFICES ASSUME Undisturbed' PROVE (NobodyReaps /\ OwnFile /\ OwnPid)'
    BY <1>1 DEF IInv
  <1>3. Undisturbed /\ NobodyReaps /\ OwnFile /\ OwnPid
    BY <1>2, DisturbedForGood DEF IInv
  <1>4. TypeOK /\ PidRead
    BY DEF IInv
  <1> USE LockMarkerAssumption, <1>3, <1>4
      DEF TypeOK, PC, File, Goto, NobodyReaps, OwnFile, OwnPid
  <1>5. ASSUME NEW p \in Proc, AcquireStep(p) PROVE (NobodyReaps /\ OwnFile /\ OwnPid)'
    \* The file is new: nobody else is past its create_new.
    <2>1. CASE CreateNew(p)
      <3>1. marker' \in File
        BY <2>1 DEF CreateNew
      <3>2. \A q \in Proc : pc[q] \notin {"write", "hold"}
        BY <2>1 DEF CreateNew
      <3> QED
        BY <2>1, <3>1, <3>2, FileIsThere DEF CreateNew
    <2>2. CASE CreateExists(p)
      BY <2>2 DEF CreateExists
    <2>3. CASE WritePid(p)
      <3>1. marker # NoFile /\ marker.creator = p /\ marker \in File
        BY <2>3 DEF WritePid
      <3>2. marker' = [marker EXCEPT !.pid = p, !.old = FALSE]
        BY <2>3, <3>1 DEF WritePid
      <3>3. marker' \in File /\ marker'.creator = p /\ marker'.pid = p
        BY <3>1, <3>2
      <3>4. marker' # NoFile
        BY <3>3, FileIsThere
      <3>5. \A q \in Proc : pc'[q] = IF q = p THEN "hold" ELSE pc[q]
        BY <2>3 DEF WritePid
      <3>6. \A q \in Proc \ {p} : pc[q] \notin {"write", "hold"}
        BY <3>1
      <3> QED
        BY <3>3, <3>4, <3>5, <3>6
    <2>4. CASE StatMarker(p)
      BY <2>4 DEF StatMarker
    <2>5. CASE ReadPid(p)
      BY <2>5 DEF ReadPid
    \* The pid that was read is alive, as everyone is, and is not misjudged.
    <2>6. CASE KillZero(p)
      <3>1. Alive(seenPid[p]) /\ is_pid_alive(p, seenPid[p])
        <4>1. seenPid[p] \in Proc
          BY <2>6 DEF KillZero, PidRead
        <4> QED
          BY <1>2, <2>6, <4>1, Zenon DEF KillZero, Undisturbed
      <3> QED
        BY <2>6, <3>1 DEF KillZero
    <2>7. CASE Reap(p)
      BY <2>7 DEF Reap
    <2>8. CASE Retry(p)
      BY <2>8 DEF Retry
    <2> QED
      BY <1>5, <2>1, <2>2, <2>3, <2>4, <2>5, <2>6, <2>7, <2>8 DEF AcquireStep
  <1>6. ASSUME NEW p \in Proc, Acquire(p) \/ Expire(p) PROVE (NobodyReaps /\ OwnFile /\ OwnPid)'
    BY <1>6 DEF Acquire, Expire
  \* The one holder removes its own file.
  <1>7. ASSUME NEW p \in Proc, Release(p) PROVE (NobodyReaps /\ OwnFile /\ OwnPid)'
    BY <1>7 DEF Release
  <1>8. ASSUME NEW p \in Proc, Signal(p) \/ Crash(p) PROVE FALSE
    BY <1>2, <1>8 DEF Signal, Crash, Undisturbed, Alive
  <1>9. CASE Age
    <2>1. marker' \in File /\ marker'.creator = marker.creator /\ marker'.pid = marker.pid
      BY <1>9 DEF Age
    <2> QED
      BY <1>9, <2>1, FileIsThere DEF Age
  <1>10. CASE UNCHANGED vars
    BY <1>10 DEF vars
  <1> QED
    BY <1>5, <1>6, <1>7, <1>8, <1>9, <1>10 DEF Next

\* The invariant excludes two owners.
LEMMA IInvImpliesExclusion == IInv => ExclusionUndisturbed
  BY DEF IInv, ExclusionUndisturbed, Exclusion, Holders, OwnFile, OwnPid

\* The marker, the processes and their registries are always well formed; in
\* particular only a holder has the marker path in its clean-up registry.
THEOREM TypeCorrect == Spec => []TypeOK
  <1>1. Init => TypeOK
    BY IInvInit DEF IInv
  <1> QED
    BY <1>1, TypeStep, PTL DEF Spec

\* While nobody dies, is signalled or is taken for dead, LockMarker excludes, for any number of
\* processes, any ages of the file and any interleaving of acquire_with,
\* can_reap_marker and release; and the file at the path is the holder's.
THEOREM MarkerExcludes == Spec => []ExclusionUndisturbed
  BY IInvInit, IInvStep, IInvImpliesExclusion, PTL DEF Spec

-----------------------------------------------------------------------------
(* Sequences of whatever they hold.                                          *)

\* A sequence of its own elements.
IsSeq(s) == s \in Seq({s[i] : i \in DOMAIN s})

\* A sequence over any set is one.
LEMMA SeqIsSeq == ASSUME NEW S, NEW s \in Seq(S) PROVE IsSeq(s)
  <1> DEFINE T == {s[i] : i \in DOMAIN s}
  <1>1. s \in [1..Len(s) -> S] /\ Len(s) \in Nat /\ DOMAIN s = 1..Len(s)
    OBVIOUS
  <1>2. \A i \in 1..Len(s) : s[i] \in T
    BY <1>1
  <1> HIDE DEF T
  <1>3. s \in [1..Len(s) -> T]
    BY <1>1, <1>2
  <1>4. s \in Seq(T)
    BY <1>1, <1>3
  <1> QED
    BY <1>4 DEF T, IsSeq

\* Two sequences are over one set.
LEMMA OverOneSet ==
  ASSUME NEW a, NEW b, IsSeq(a), IsSeq(b)
  PROVE  \E S : a \in Seq(S) /\ b \in Seq(S)
  <1> DEFINE A == {a[i] : i \in DOMAIN a}
             B == {b[i] : i \in DOMAIN b}
  <1>1. a \in Seq(A) /\ b \in Seq(B)
    BY DEF IsSeq
  <1> HIDE DEF A, B
  <1>2. a \in Seq(A \cup B) /\ b \in Seq(A \cup B)
    BY <1>1
  <1> QED
    BY <1>2

\* One put after the other is a sequence, with the places of each.
LEMMA JoinedSeq ==
  ASSUME NEW a, NEW b, IsSeq(a), IsSeq(b)
  PROVE  /\ IsSeq(a \o b) /\ Len(a \o b) = Len(a) + Len(b)
         /\ Len(a) \in Nat /\ Len(b) \in Nat
         /\ \A i \in 1..Len(a) : (a \o b)[i] = a[i]
         /\ \A i \in 1..Len(b) : (a \o b)[i + Len(a)] = b[i]
  <1>1. PICK S : a \in Seq(S) /\ b \in Seq(S)
    BY OverOneSet
  <1>2. a \o b \in Seq(S)
    BY <1>1
  <1>3. IsSeq(a \o b)
    BY <1>2, SeqIsSeq
  <1>4. Len(a \o b) = Len(a) + Len(b) /\ Len(a) \in Nat /\ Len(b) \in Nat
    BY <1>1
  <1>5. \A i \in 1..Len(a) : (a \o b)[i] = a[i]
    BY <1>1
  <1>6. \A i \in 1..Len(b) : (a \o b)[i + Len(a)] = b[i]
    BY <1>1
  <1> QED
    BY <1>3, <1>4, <1>5, <1>6

\* What is in the one put after the other is in one of them.
FromEither(a, b) ==
  \A i \in 1..Len(a \o b) :
    (\E j \in 1..Len(a) : (a \o b)[i] = a[j]) \/ (\E j \in 1..Len(b) : (a \o b)[i] = b[j])

LEMMA JoinedElements == ASSUME NEW a, NEW b, IsSeq(a), IsSeq(b) PROVE FromEither(a, b)
  <1> SUFFICES ASSUME NEW i \in 1..Len(a \o b)
               PROVE  (\E j \in 1..Len(a) : (a \o b)[i] = a[j]) \/ (\E j \in 1..Len(b) : (a \o b)[i] = b[j])
    BY DEF FromEither
  <1>1. CASE i \in 1..Len(a)
    BY <1>1, JoinedSeq
  <1>2. CASE i \notin 1..Len(a)
    <2>1. i - Len(a) \in 1..Len(b) /\ (i - Len(a)) + Len(a) = i
      BY <1>2, JoinedSeq
    <2> QED
      BY <2>1, JoinedSeq
  <1> QED
    BY <1>1, <1>2

\* The first and the rest of a sequence that is not empty.
LEMMA TailSeq ==
  ASSUME NEW s, IsSeq(s), s # <<>>
  PROVE  /\ IsSeq(Tail(s)) /\ Len(s) \in Nat /\ Len(s) >= 1 /\ Len(Tail(s)) = Len(s) - 1
         /\ Head(s) = s[1] /\ \A i \in 1..Len(Tail(s)) : Tail(s)[i] = s[i + 1]
  <1> DEFINE S == {s[i] : i \in DOMAIN s}
  <1>1. s \in Seq(S)
    BY DEF IsSeq
  <1> HIDE DEF S
  <1>2. Tail(s) \in Seq(S)
    BY <1>1
  <1>3. Len(s) \in Nat /\ Len(s) >= 1 /\ Len(Tail(s)) = Len(s) - 1 /\ Head(s) = s[1]
    BY <1>1
  <1>4. \A i \in 1..Len(Tail(s)) : Tail(s)[i] = s[i + 1]
    BY <1>1
  <1> QED
    BY <1>2, <1>3, <1>4, SeqIsSeq

\* What was appended is all that Front takes away.
LEMMA AppendedSeq ==
  ASSUME NEW s, NEW x, IsSeq(s)
  PROVE  /\ IsSeq(Append(s, x)) /\ Append(s, x) # <<>> /\ Front(Append(s, x)) = s
         /\ Last(Append(s, x)) = x
  <1> DEFINE S == {s[i] : i \in DOMAIN s} \cup {x}
  <1>1. s \in Seq({s[i] : i \in DOMAIN s})
    BY DEF IsSeq
  <1>2. s \in Seq(S) /\ x \in S
    BY <1>1
  <1> HIDE DEF S
  <1>3. Append(s, x) \in Seq(S) /\ Append(s, x) # <<>> /\ Len(Append(s, x)) = Len(s) + 1 /\ Len(s) \in Nat
    BY <1>2
  <1>4. SubSeq(Append(s, x), 1, Len(s)) = s
    BY <1>2, <1>3
  <1>5. Front(Append(s, x)) = s
    BY <1>3, <1>4 DEF Front
  <1>6. Append(s, x)[Len(s) + 1] = x
    BY <1>2
  <1>7. Last(Append(s, x)) = x
    BY <1>3, <1>6 DEF Last
  <1> QED
    BY <1>3, <1>5, <1>7, SeqIsSeq

\* Without its last element it is a sequence.
LEMMA FrontSeq == ASSUME NEW s, IsSeq(s), s # <<>> PROVE IsSeq(Front(s))
  <1> DEFINE S == {s[i] : i \in DOMAIN s}
  <1>1. s \in Seq(S)
    BY DEF IsSeq
  <1> HIDE DEF S
  <1>2. Front(s) \in Seq(S)
    BY <1>1 DEF Front
  <1> QED
    BY <1>2, SeqIsSeq

\* And it is shorter.
LEMMA FrontLen ==
  ASSUME NEW s, IsSeq(s), s # <<>>
  PROVE  Len(Front(s)) < Len(s) /\ Len(Front(s)) \in Nat /\ Len(s) \in Nat
  <1> DEFINE S == {s[i] : i \in DOMAIN s}
  <1>1. s \in Seq(S)
    BY DEF IsSeq
  <1> HIDE DEF S
  <1>2. Len(s) \in Nat /\ Len(s) >= 1
    BY <1>1
  <1>3. Front(s) = [i \in 1..(Len(s) - 1) |-> s[i]]
    BY <1>1, <1>2 DEF Front
  <1>4. Len(Front(s)) = Len(s) - 1
    BY <1>2, <1>3
  <1> QED
    BY <1>2, <1>4

\* None and one.
LEMMA ShortSeqs == IsSeq(<<>>) /\ \A x : IsSeq(<<x>>)
  <1>1. <<>> \in Seq({})
    OBVIOUS
  <1>2. \A x : <<x>> \in Seq({x})
    OBVIOUS
  <1> QED
    BY <1>1, <1>2, SeqIsSeq

-----------------------------------------------------------------------------
(* The running command as its writes, and what each of them leads to.        *)

\* What a rewrite must leave as it was, what it was when the command began, and how
\* often a process was killed or a write failed.
Here ==
  [view |-> view, oplog |-> oplog, files |-> files, ckpt |-> ckpt, result |-> was.result,
   failed |-> was.failed, mishaps |-> kills + faults,
   home |-> [command |-> was.command, view |-> was.view, oplog |-> was.oplog, map |-> was.map]]

\* After the write x of the state s.
After(x, s) ==
  [view |-> IF x.w = "view" THEN x.arg ELSE s.view,
   oplog |-> Logged(x, s.oplog), files |-> Filed(x, s.files),
   ckpt |-> IF x.w = "ckpt" THEN x.arg ELSE s.ckpt,
   result |-> s.result, failed |-> s.failed, mishaps |-> s.mishaps, home |-> s.home]

\* The write x has failed; the command has given up; and x has failed in a recovery.
Failed(x, s) ==
  [view |-> s.view, oplog |-> s.oplog, files |-> PutBack(x, s.files), ckpt |-> s.ckpt,
   result |-> IF Forgiven(x) THEN s.result ELSE "failed",
   failed |-> IF Forgiven(x) THEN s.failed ELSE x.w, mishaps |-> s.mishaps + 1, home |-> s.home]
GivenUp(s) ==
  [view |-> s.view, oplog |-> s.oplog, files |-> s.files, ckpt |-> s.ckpt,
   result |-> "failed", failed |-> s.failed, mishaps |-> s.mishaps, home |-> s.home]
Halfway(x, s) ==
  [view |-> s.view, oplog |-> s.oplog, files |-> PutBack(x, s.files), ckpt |-> s.ckpt,
   result |-> "halfway", failed |-> s.failed, mishaps |-> s.mishaps + 1, home |-> s.home]

\* f is what the first m of the writes ws make of s, one after the other.
IsTrace(f, m, ws, s) == f[0] = s /\ \A n \in 1..m : f[n] = After(ws[n], f[n - 1])

\* The first m of the writes lead from s to t; all of them do.
Leads(m, ws, s, t) == \E f : IsTrace(f, m, ws, s) /\ f[m] = t
Ends(ws, s, t) == Leads(Len(ws), ws, s, t)

\* No write leads nowhere else.
LEMMA LeadsNowhere == \A ws, s, t : Leads(0, ws, s, t) <=> t = s
  <1> SUFFICES ASSUME NEW ws, NEW s, NEW t PROVE Leads(0, ws, s, t) <=> t = s
    OBVIOUS
  <1> DEFINE f == [n \in 0..0 |-> s]
  <1>1. f[0] = s /\ 1..0 = {}
    OBVIOUS
  <1> HIDE DEF f
  <1>2. IsTrace(f, 0, ws, s)
    BY <1>1 DEF IsTrace
  <1> QED
    BY <1>1, <1>2 DEF Leads, IsTrace

\* The last of some writes.
LEMMA LeadsLast ==
  ASSUME NEW m \in Nat, NEW ws, NEW s, NEW t, Leads(m + 1, ws, s, t)
  PROVE  \E u : Leads(m, ws, s, u) /\ t = After(ws[m + 1], u)
  <1>1. PICK f : IsTrace(f, m + 1, ws, s) /\ f[m + 1] = t
    BY DEF Leads
  <1>2. m + 1 \in 1..(m + 1) /\ (m + 1) - 1 = m /\ 1..m \subseteq 1..(m + 1)
    OBVIOUS
  <1>3. t = After(ws[m + 1], f[m])
    BY <1>1, <1>2, Zenon DEF IsTrace
  <1>4. IsTrace(f, m, ws, s)
    BY <1>1, <1>2, Zenon DEF IsTrace
  <1> QED
    BY <1>3, <1>4, Zenon DEF Leads

\* The first of some writes, and the rest.
LEMMA LeadsOn ==
  ASSUME NEW ws, IsSeq(ws), ws # <<>>, NEW m \in 0..Len(Tail(ws)), NEW s, NEW t,
         Leads(m, Tail(ws), After(Head(ws), s), t)
  PROVE  Leads(m + 1, ws, s, t)
  <1>1. PICK f : IsTrace(f, m, Tail(ws), After(Head(ws), s)) /\ f[m] = t
    BY DEF Leads
  <1> DEFINE g == [n \in 0..(m + 1) |-> IF n = 0 THEN s ELSE f[n - 1]]
  <1>2. m \in Nat /\ Len(Tail(ws)) \in Nat
    BY TailSeq
  <1>3. g[0] = s /\ g[m + 1] = t
    BY <1>1, <1>2
  <1>4. ASSUME NEW n \in 1..(m + 1) PROVE g[n] = After(ws[n], g[n - 1])
    <2>1. g[n] = f[n - 1] /\ n \in Nat
      BY <1>2
    <2>2. CASE n = 1
      <3>1. f[0] = After(Head(ws), s) /\ Head(ws) = ws[1]
        BY <1>1, TailSeq DEF IsTrace
      <3>2. g[n] = f[0] /\ g[n - 1] = s
        BY <1>2, <2>2
      <3> QED
        BY <3>1, <3>2, <2>2
    <2>3. CASE n # 1
      <3>1. n - 1 \in 1..m /\ n - 1 \in 1..Len(Tail(ws)) /\ (n - 1) + 1 = n
        BY <1>2, <2>3
      <3>2. Tail(ws)[n - 1] = ws[n]
        BY <3>1, TailSeq
      <3>3. f[n - 1] = After(Tail(ws)[n - 1], f[(n - 1) - 1])
        BY <1>1, <3>1, Zenon DEF IsTrace
      <3>4. g[n - 1] = f[(n - 1) - 1]
        BY <1>2, <2>3
      <3> QED
        BY <2>1, <3>2, <3>3, <3>4
    <2> QED
      BY <2>2, <2>3
  <1> HIDE DEF g
  <1>5. IsTrace(g, m + 1, ws, s)
    BY <1>3, <1>4 DEF IsTrace
  <1> QED
    BY <1>3, <1>5 DEF Leads

\* Writes within the first part of some.
LEMMA LeadsWithin ==
  ASSUME NEW a, NEW b, IsSeq(a), IsSeq(b), NEW m \in 0..Len(a), NEW s, NEW t,
         Leads(m, a \o b, s, t)
  PROVE  Leads(m, a, s, t)
  <1>1. PICK f : IsTrace(f, m, a \o b, s) /\ f[m] = t
    BY DEF Leads
  <1>2. \A n \in 1..m : n \in 1..Len(a)
    BY JoinedSeq
  <1>3. \A n \in 1..m : (a \o b)[n] = a[n]
    BY <1>2, JoinedSeq
  <1>4. IsTrace(f, m, a, s)
    BY <1>1, <1>3 DEF IsTrace
  <1> QED
    BY <1>1, <1>4 DEF Leads

\* Writes beyond the first part go on from where it ends.
LEMMA LeadsBeyond ==
  ASSUME NEW a, NEW b, IsSeq(a), IsSeq(b), NEW m \in 0..Len(b), NEW s, NEW t,
         Leads(Len(a) + m, a \o b, s, t)
  PROVE  \E u : Ends(a, s, u) /\ Leads(m, b, u, t)
  <1> DEFINE k == Len(a)
  <1>1. PICK f : IsTrace(f, k + m, a \o b, s) /\ f[k + m] = t
    BY DEF Leads
  <1>2. k \in Nat /\ m \in Nat /\ Len(b) \in Nat
    BY JoinedSeq
  <1>3. IsTrace(f, k, a, s)
    <2>1. \A n \in 1..k : n \in 1..(k + m) /\ (a \o b)[n] = a[n]
      BY <1>2, JoinedSeq
    <2> HIDE DEF k
    <2> QED
      BY <1>1, <2>1 DEF IsTrace
  <1> DEFINE g == [n \in 0..m |-> f[n + k]]
  <1>4. g[0] = f[k] /\ g[m] = t
    BY <1>1, <1>2
  <1>5. ASSUME NEW n \in 1..m PROVE g[n] = After(b[n], g[n - 1])
    <2>1. n + k \in 1..(k + m) /\ n \in 1..Len(b)
      BY <1>2
    <2>2. g[n] = f[n + k] /\ g[n - 1] = f[(n + k) - 1]
      BY <1>2
    <2>3. (a \o b)[n + k] = b[n]
      BY <2>1, JoinedSeq
    <2> HIDE DEF k, g
    <2>4. f[n + k] = After((a \o b)[n + k], f[(n + k) - 1])
      BY <1>1, <2>1, Zenon DEF IsTrace
    <2> QED
      BY <2>2, <2>3, <2>4
  <1> HIDE DEF g
  <1>6. IsTrace(g, m, b, f[k])
    BY <1>4, <1>5 DEF IsTrace
  <1>7. Ends(a, s, f[k]) /\ Leads(m, b, f[k], t)
    BY <1>3, <1>4, <1>6 DEF Ends, Leads
  <1> QED
    BY <1>7

\* The end of one part after another.
LEMMA EndsJoined ==
  ASSUME NEW a, NEW b, IsSeq(a), IsSeq(b), NEW s, NEW t, Ends(a \o b, s, t)
  PROVE  \E u : Ends(a, s, u) /\ Ends(b, u, t)
  <1>1. Len(a \o b) = Len(a) + Len(b) /\ Len(b) \in 0..Len(b)
    BY JoinedSeq
  <1>2. Leads(Len(a) + Len(b), a \o b, s, t)
    BY <1>1 DEF Ends
  <1> QED
    BY <1>1, <1>2, LeadsBeyond DEF Ends

\* No write, and one.
LEMMA EndsShort ==
  /\ \A s, t : Ends(<<>>, s, t) <=> t = s
  /\ \A x, s, t : Ends(<<x>>, s, t) => t = After(x, s)
  <1>1. Len(<<>>) = 0
    OBVIOUS
  <1>2. \A s, t : Ends(<<>>, s, t) <=> t = s
    BY <1>1, LeadsNowhere, Zenon DEF Ends
  <1>3. ASSUME NEW x, NEW s, NEW t, Ends(<<x>>, s, t) PROVE t = After(x, s)
    <2>1. Len(<<x>>) = 0 + 1 /\ <<x>>[0 + 1] = x
      OBVIOUS
    <2>2. Leads(0 + 1, <<x>>, s, t)
      BY <1>3, <2>1, Zenon DEF Ends
    <2>3. PICK u : Leads(0, <<x>>, s, u) /\ t = After(<<x>>[0 + 1], u)
      BY <2>2, LeadsLast
    <2>4. u = s
      BY <2>3, LeadsNowhere, Zenon
    <2>5. t = After(x, u)
      BY <2>1, <2>3
    <2> QED
      BY <2>4, <2>5
  <1> QED
    BY <1>2, <1>3

-----------------------------------------------------------------------------
(* What may go wrong at each write, and how it is taken back.                *)

Rewriters == {"squash", "reorder", "restack", "continue", "diffedit"}
Resumable == {"restack", "continue"}

\* All is as the command found it.
AtHome(s) == s.view = s.home.view /\ s.oplog = s.home.oplog /\ RawMap(s.files) = s.home.map

\* What an undo takes out of the epoch map.
Undone(home) == IF home.command = "undo" THEN DOMAIN Last(home.oplog).map ELSE {}

\* The map m has the redirections that the command found, and those of what it has
\* logged; so has the one that is read.
Covers(m, s) ==
  s.home.command # "snap" =>
    /\ DOMAIN s.home.map \ Undone(s.home) \subseteq DOMAIN m
    /\ Len(s.oplog) > Len(s.home.oplog) => DOMAIN Last(s.oplog).map \subseteq DOMAIN m
Mapped(s) == Covers(RawMap(s.files), s)

\* Nothing is left of an old map set aside, unless by a mishap.
Tidy(s) == s.mishaps = 0 => s.files.staged = {}

\* What a rewrite may leave that failed, once, at the write s.failed.
Leaves(s) ==
  \/ AtHome(s)
  \/ s.failed \in {"unbak", "bak"} /\ s.view = s.home.view /\ s.oplog = s.home.oplog
  \/ /\ s.failed = "ckpt" /\ s.ckpt # {}
     /\ s.oplog # <<>> /\ Front(s.oplog) = s.home.oplog /\ s.view \in {s.home.view, Last(s.oplog).after}

\* With one mishap at most, a rewrite that failed has left what it may, and no
\* redirection is lost, but by what failed while it was taken back.
EndsWell(s) ==
  /\ s.home.command \in Rewriters /\ s.result = "failed" /\ s.mishaps \in {0, 1} => Leaves(s)
  /\ s.result # "halfway" /\ s.mishaps \in {0, 1} => Mapped(s)
  /\ Tidy(s)

\* A restack has its checkpoint; or it has, or nothing else.
Pending(s) == s.home.command \in Resumable => s.ckpt # {}
Guarded(s) ==
  /\ s.home.command \in Resumable /\ s.ckpt = {} => AtHome(s)
  /\ s.mishaps = 0 => Mapped(s)

\* Writes each of which may be the last of a killed process.
Steady(ws, s) == IsSeq(ws) /\ \A n \in 1..Len(ws) : \A t : Leads(n - 1, ws, s, t) => Guarded(t)

\* Writes that do not give up, and leave the checkpoint.
Mild(ws) == IsSeq(ws) /\ \A n \in 1..Len(ws) : ws[n].w \notin {"ckpt", "fail"}

\* Writes of a recovery: each may be the last, or fail, and they end well.
Mends(ws, s) ==
  /\ Mild(ws) /\ (ws # <<>> => Pending(s))
  /\ Steady(ws, s)
  /\ \A t : Ends(ws, s, t) => EndsWell(t)

\* The process may be killed before the write x, and if x fails, its recovery ends well.
Undoes(x, s) ==
  /\ Guarded(s) /\ (Forgiven(x) => x.recover = <<>>)
  /\ x.w = "fail" => Mends(x.recover, GivenUp(s))
  /\ x.w # "fail" => Mends(x.recover, Failed(x, s))

\* So may each of the writes ws.
Safe(ws, s) ==
  /\ IsSeq(ws)
  /\ \A n \in 1..Len(ws) : \A t : Leads(n - 1, ws, s, t) => Undoes(ws[n], t)

\* To recover from nothing is to end well.
LEMMA MendsShort == \A s : Mends(<<>>, s) <=> EndsWell(s)
  <1>1. 1..Len(<<>>) = {}
    OBVIOUS
  <1>2. \A s : Mild(<<>>) /\ Steady(<<>>, s)
    BY <1>1, ShortSeqs, Zenon DEF Mild, Steady
  <1> QED
    BY <1>2, EndsShort, Zenon DEF Mends

\* No writes are safe, one is if it can be undone.
LEMMA SafeShort ==
  /\ \A s : Safe(<<>>, s)
  /\ \A x, s : Undoes(x, s) => Safe(<<x>>, s)
  <1>1. \A s : Safe(<<>>, s)
    <2>1. 1..Len(<<>>) = {}
      OBVIOUS
    <2> QED
      BY <2>1, ShortSeqs, Zenon DEF Safe
  <1>2. ASSUME NEW x, NEW s, Undoes(x, s) PROVE Safe(<<x>>, s)
    <2>1. SUFFICES ASSUME NEW n \in 1..Len(<<x>>), NEW t, Leads(n - 1, <<x>>, s, t)
                   PROVE  Undoes(<<x>>[n], t)
      BY ShortSeqs DEF Safe
    <2>2. n = 1 /\ n - 1 = 0 /\ <<x>>[n] = x
      OBVIOUS
    <2>3. Leads(0, <<x>>, s, t)
      BY <2>1, <2>2, Zenon
    <2>4. t = s
      BY <2>3, LeadsNowhere, Zenon
    <2> QED
      BY <1>2, <2>2, <2>4, Zenon
  <1> QED
    BY <1>1, <1>2

\* Safe writes after safe writes.
LEMMA SafeJoined ==
  ASSUME NEW a, NEW b, NEW s, Safe(a, s), IsSeq(b), \A u : Ends(a, s, u) => Safe(b, u)
  PROVE  Safe(a \o b, s)
  <1>1. IsSeq(a) /\ IsSeq(a \o b)
    BY JoinedSeq DEF Safe
  <1>2. SUFFICES ASSUME NEW n \in 1..Len(a \o b), NEW t, Leads(n - 1, a \o b, s, t)
                 PROVE  Undoes((a \o b)[n], t)
    BY <1>1 DEF Safe
  <1>3. Len(a) \in Nat /\ Len(b) \in Nat /\ Len(a \o b) = Len(a) + Len(b)
    BY <1>1, JoinedSeq
  <1>4. CASE n \in 1..Len(a)
    <2>1. n - 1 \in 0..Len(a)
      BY <1>3, <1>4
    <2>2. Leads(n - 1, a, s, t)
      BY <1>1, <1>2, <2>1, LeadsWithin
    <2>3. (a \o b)[n] = a[n]
      BY <1>1, <1>4, JoinedSeq
    <2>4. Undoes(a[n], t)
      BY <1>4, <2>2, Zenon DEF Safe
    <2> QED
      BY <2>3, <2>4, Zenon
  <1>5. CASE n \notin 1..Len(a)
    <2> DEFINE k == n - Len(a)
    <2>1. k \in 1..Len(b) /\ k - 1 \in 0..Len(b) /\ k + Len(a) = n /\ Len(a) + (k - 1) = n - 1
      BY <1>3, <1>5
    <2> HIDE DEF k
    <2>2. Leads(Len(a) + (k - 1), a \o b, s, t)
      BY <1>2, <2>1, Zenon
    <2>3. PICK u : Ends(a, s, u) /\ Leads(k - 1, b, u, t)
      BY <1>1, <2>1, <2>2, LeadsBeyond
    <2>4. Safe(b, u)
      BY <2>3, Zenon
    <2>5. Undoes(b[k], t)
      BY <2>1, <2>3, <2>4, Zenon DEF Safe
    <2>6. (a \o b)[n] = b[k]
      <3>1. \A i \in 1..Len(b) : (a \o b)[i + Len(a)] = b[i]
        BY <1>1, JoinedSeq
      <3>2. (a \o b)[k + Len(a)] = b[k]
        BY <2>1, <3>1, Zenon
      <3> QED
        BY <2>1, <3>2, Zenon
    <2> QED
      BY <2>5, <2>6, Zenon
  <1> QED
    BY <1>4, <1>5

\* The first of safe writes can be undone, and the rest are safe.
LEMMA SafeOn ==
  ASSUME NEW ws, NEW s, Safe(ws, s), ws # <<>>
  PROVE  Undoes(Head(ws), s) /\ Safe(Tail(ws), After(Head(ws), s))
  <1>1. IsSeq(ws)
    BY DEF Safe
  <1>2. Len(ws) \in Nat /\ Len(ws) >= 1 /\ Head(ws) = ws[1] /\ Len(Tail(ws)) = Len(ws) - 1 /\ IsSeq(Tail(ws))
    BY <1>1, TailSeq
  <1>3. Undoes(Head(ws), s)
    <2>1. 1 \in 1..Len(ws) /\ 1 - 1 = 0
      BY <1>2
    <2>2. Leads(0, ws, s, s)
      BY LeadsNowhere, Zenon
    <2>3. \A t : Leads(1 - 1, ws, s, t) => Undoes(ws[1], t)
      BY <2>1, Zenon DEF Safe
    <2>4. Undoes(ws[1], s)
      BY <2>1, <2>2, <2>3
    <2> QED
      BY <1>2, <2>4, Zenon
  <1>4. Safe(Tail(ws), After(Head(ws), s))
    <2>1. SUFFICES ASSUME NEW n \in 1..Len(Tail(ws)), NEW t, Leads(n - 1, Tail(ws), After(Head(ws), s), t)
                   PROVE  Undoes(Tail(ws)[n], t)
      BY <1>2 DEF Safe
    <2>2. n - 1 \in 0..Len(Tail(ws)) /\ n + 1 \in 1..Len(ws) /\ (n - 1) + 1 = n /\ (n + 1) - 1 = n
      BY <1>2
    <2>3. Leads((n - 1) + 1, ws, s, t)
      BY <1>1, <2>1, <2>2, LeadsOn
    <2>4. Leads((n + 1) - 1, ws, s, t)
      BY <2>2, <2>3, Zenon
    <2>5. Undoes(ws[n + 1], t)
      BY <2>2, <2>4, Zenon DEF Safe
    <2>6. Tail(ws)[n] = ws[n + 1]
      BY <1>1, TailSeq, Zenon
    <2> QED
      BY <2>5, <2>6, Zenon
  <1> QED
    BY <1>3, <1>4

\* What the rest of some writes ends in, they end in.
LEMMA EndsOn ==
  ASSUME NEW ws, IsSeq(ws), ws # <<>>, NEW s, NEW t, Ends(Tail(ws), After(Head(ws), s), t)
  PROVE  Ends(ws, s, t)
  <1>1. Len(ws) \in Nat /\ Len(ws) >= 1 /\ Len(Tail(ws)) = Len(ws) - 1
    BY TailSeq
  <1>2. Len(Tail(ws)) \in 0..Len(Tail(ws)) /\ Len(Tail(ws)) + 1 = Len(ws)
    BY <1>1
  <1>3. Leads(Len(Tail(ws)) + 1, ws, s, t)
    BY <1>2, LeadsOn DEF Ends
  <1> QED
    BY <1>2, <1>3, Zenon DEF Ends

\* Mild writes keep the checkpoint, the command, its result and the mishaps.
Stays(s, t) == t.ckpt = s.ckpt /\ t.home = s.home /\ t.result = s.result /\ t.mishaps = s.mishaps

LEMMA MildKeeps ==
  ASSUME NEW ws, Mild(ws), NEW s
  PROVE  \A m \in 0..Len(ws) : \A t : Leads(m, ws, s, t) => Stays(s, t)
  <1> DEFINE S == {m \in Nat : \A t : Leads(m, ws, s, t) => Stays(s, t)}
  <1>1. 0 \in S
    <2>1. \A t : Leads(0, ws, s, t) => t = s
      BY LeadsNowhere, Zenon
    <2> QED
      BY <2>1 DEF Stays
  <1>2. ASSUME NEW n \in 1..Len(ws), n - 1 \in S PROVE n \in S
    <2> DEFINE k == n - 1
    <2>1. /\ n \in Nat /\ k \in Nat /\ k + 1 = n
          /\ \A t : Leads(k, ws, s, t) => Stays(s, t)
      BY <1>2
    <2> HIDE DEF k
    <2>2. ASSUME NEW t, Leads(n, ws, s, t) PROVE Stays(s, t)
      <3>1. Leads(k + 1, ws, s, t)
        BY <2>1, <2>2, Zenon
      <3>2. k \in Nat
        BY <2>1
      <3>3. PICK u : Leads(k, ws, s, u) /\ t = After(ws[k + 1], u)
        BY <3>2, <3>1, LeadsLast
      <3>4. Stays(s, u)
        BY <2>1, <3>3, Zenon
      <3>5. ws[k + 1].w # "ckpt"
        BY <1>2, <2>1 DEF Mild
      <3>6. Stays(u, t)
        BY <3>3, <3>5 DEF After, Stays
      <3> QED
        BY <3>4, <3>6 DEF Stays
    <2> QED
      BY <2>1, <2>2
  <1>3. Len(ws) \in Nat
    <2>1. ws \in Seq({ws[i] : i \in DOMAIN ws})
      BY DEF Mild, IsSeq
    <2> QED
      BY <2>1
  <1> HIDE DEF S
  <1>4. 0..Len(ws) \subseteq S
    BY <1>1, <1>2, <1>3, UpToInduction
  <1> QED
    BY <1>4 DEF S

\* So after a mishap, with a checkpoint or in no need of one, they are steady; and
\* if something failed in the recovery before, they end well.
LEMMA MildSteady ==
  ASSUME NEW ws, Mild(ws), NEW s, Pending(s), s.mishaps # 0
  PROVE  /\ Steady(ws, s)
         /\ s.result = "halfway" => Mends(ws, s)
  <1>1. Len(ws) \in Nat
    <2>1. ws \in Seq({ws[i] : i \in DOMAIN ws})
      BY DEF Mild, IsSeq
    <2> QED
      BY <2>1
  <1>2. \A m \in 0..Len(ws) : \A t : Leads(m, ws, s, t) => Pending(t) /\ t.mishaps # 0 /\ t.result = s.result
    <2>1. \A m \in 0..Len(ws) : \A t : Leads(m, ws, s, t) => Stays(s, t)
      BY MildKeeps, Zenon
    <2> QED
      BY <2>1 DEF Pending, Stays
  <1>3. \A n \in 1..Len(ws) : n - 1 \in 0..Len(ws)
    BY <1>1
  <1>4. Len(ws) \in 0..Len(ws)
    BY <1>1
  <1>5. \A t : Pending(t) /\ t.mishaps # 0 => Guarded(t)
    BY Zenon DEF Pending, Guarded
  <1>6. Steady(ws, s)
    BY <1>2, <1>3, <1>5, Zenon DEF Steady, Mild
  <1>7. \A t : t.mishaps # 0 /\ t.result = "halfway" => EndsWell(t)
    BY DEF EndsWell, Tidy
  <1>8. \A t : Ends(ws, s, t) => t.mishaps # 0 /\ t.result = s.result
    BY <1>2, <1>4, Zenon DEF Ends
  <1> QED
    BY <1>6, <1>7, <1>8, Zenon DEF Mends

\* Steady writes after steady writes.
LEMMA SteadyJoined ==
  ASSUME NEW a, NEW b, NEW s, Steady(a, s), IsSeq(b), \A u : Ends(a, s, u) => Steady(b, u)
  PROVE  Steady(a \o b, s)
  <1>1. IsSeq(a) /\ IsSeq(a \o b)
    BY JoinedSeq DEF Steady
  <1>2. SUFFICES ASSUME NEW n \in 1..Len(a \o b), NEW t, Leads(n - 1, a \o b, s, t)
                 PROVE  Guarded(t)
    BY <1>1 DEF Steady
  <1>3. Len(a) \in Nat /\ Len(b) \in Nat /\ Len(a \o b) = Len(a) + Len(b)
    BY <1>1, JoinedSeq
  <1>4. CASE n \in 1..Len(a)
    <2>1. n - 1 \in 0..Len(a)
      BY <1>3, <1>4
    <2>2. Leads(n - 1, a, s, t)
      BY <1>1, <1>2, <2>1, LeadsWithin
    <2> QED
      BY <1>4, <2>2, Zenon DEF Steady
  <1>5. CASE n \notin 1..Len(a)
    <2> DEFINE k == n - Len(a)
    <2>1. k \in 1..Len(b) /\ k - 1 \in 0..Len(b) /\ Len(a) + (k - 1) = n - 1
      BY <1>3, <1>5
    <2> HIDE DEF k
    <2>2. Leads(Len(a) + (k - 1), a \o b, s, t)
      BY <1>2, <2>1, Zenon
    <2>3. PICK u : Ends(a, s, u) /\ Leads(k - 1, b, u, t)
      BY <1>1, <2>1, <2>2, LeadsBeyond
    <2> QED
      BY <2>1, <2>3, Zenon DEF Steady
  <1> QED
    BY <1>4, <1>5

\* One write where the process may be killed is steady.
LEMMA SteadyShort == \A x, s : Guarded(s) => Steady(<<x>>, s)
  <1>1. ASSUME NEW x, NEW s, Guarded(s) PROVE Steady(<<x>>, s)
    <2>1. SUFFICES ASSUME NEW n \in 1..Len(<<x>>), NEW t, Leads(n - 1, <<x>>, s, t) PROVE Guarded(t)
      BY ShortSeqs DEF Steady
    <2>2. n - 1 = 0
      OBVIOUS
    <2>3. Leads(0, <<x>>, s, t)
      BY <2>1, <2>2, Zenon
    <2>4. t = s
      BY <2>3, LeadsNowhere
    <2> QED
      BY <1>1, <2>4
  <1> QED
    BY <1>1

\* After one write of a recovery, the rest is one still.
LEMMA MendsOn ==
  ASSUME NEW ws, NEW s, Mends(ws, s), ws # <<>>
  PROVE  /\ Guarded(s) /\ Pending(s) /\ Head(ws).w # "fail"
         /\ Mild(Tail(ws)) /\ Mends(Tail(ws), After(Head(ws), s))
  <1>1. IsSeq(ws) /\ Mild(ws) /\ Pending(s)
    BY DEF Mends, Mild
  <1>2. /\ Len(ws) \in Nat /\ Len(ws) >= 1 /\ Head(ws) = ws[1] /\ Len(Tail(ws)) = Len(ws) - 1
        /\ IsSeq(Tail(ws)) /\ \A i \in 1..Len(Tail(ws)) : Tail(ws)[i] = ws[i + 1]
    BY <1>1, TailSeq
  <1>3. Guarded(s)
    <2>1. 1 \in 1..Len(ws) /\ 1 - 1 = 0
      BY <1>2
    <2>2. Leads(0, ws, s, s)
      BY LeadsNowhere, Zenon
    <2>3. \A t : Leads(1 - 1, ws, s, t) => Guarded(t)
      BY <2>1, Zenon DEF Mends, Steady
    <2> QED
      BY <2>1, <2>2, <2>3
  <1>4. ws[1].w \notin {"ckpt", "fail"} /\ Mild(Tail(ws))
    <2>1. 1 \in 1..Len(ws) /\ \A i \in 1..Len(Tail(ws)) : i + 1 \in 1..Len(ws)
      BY <1>2
    <2> QED
      BY <1>1, <1>2, <2>1, Zenon DEF Mild
  <1>5. Pending(After(Head(ws), s))
    BY <1>1, <1>2, <1>4 DEF Pending, After
  <1>6. Steady(Tail(ws), After(Head(ws), s))
    <2>1. SUFFICES ASSUME NEW n \in 1..Len(Tail(ws)), NEW t, Leads(n - 1, Tail(ws), After(Head(ws), s), t)
                   PROVE  Guarded(t)
      BY <1>2 DEF Steady
    <2>2. n - 1 \in 0..Len(Tail(ws)) /\ n + 1 \in 1..Len(ws) /\ (n - 1) + 1 = (n + 1) - 1
      BY <1>2
    <2>3. Leads((n - 1) + 1, ws, s, t)
      BY <1>1, <2>1, <2>2, LeadsOn
    <2>4. Leads((n + 1) - 1, ws, s, t)
      BY <2>2, <2>3, Zenon
    <2> QED
      BY <2>2, <2>4, Zenon DEF Mends, Steady
  <1>7. \A t : Ends(Tail(ws), After(Head(ws), s), t) => EndsWell(t)
    <2>1. \A t : Ends(Tail(ws), After(Head(ws), s), t) => Ends(ws, s, t)
      BY <1>1, EndsOn
    <2> QED
      BY <2>1, Zenon DEF Mends
  <1> QED
    BY <1>1, <1>2, <1>3, <1>4, <1>5, <1>6, <1>7, Zenon DEF Mends

-----------------------------------------------------------------------------
(* The epoch map on disk, and the metadata of a rewrite.                     *)

\* The four files of the epoch map.
IsFiles(f) == f = [canon |-> f.canon, staged |-> f.staged, bak |-> f.bak, tmp |-> f.tmp]

\* What the writes of persist_epoch_map_raw make of the files, and that any other
\* leaves files.
LEMMA FiledFields ==
  ASSUME NEW x, NEW f, IsFiles(f)
  PROVE  /\ IsFiles(Filed(x, f))
         /\ x.w = "tmp" => Filed(x, f) = [canon |-> f.canon, staged |-> f.staged, bak |-> f.bak, tmp |-> {x.arg}]
         /\ x.w = "unstage" => Filed(x, f) = [canon |-> f.canon, staged |-> {}, bak |-> f.bak, tmp |-> f.tmp]
         /\ x.w = "stage" => Filed(x, f) = IF f.canon = {} THEN f ELSE
              [canon |-> {}, staged |-> f.canon, bak |-> f.bak, tmp |-> f.tmp]
         /\ x.w = "publish" => Filed(x, f) = [canon |-> f.tmp, staged |-> f.staged, bak |-> f.bak, tmp |-> {}]
         /\ x.w = "unbak" => Filed(x, f) = IF f.staged = {} THEN f ELSE
              [canon |-> f.canon, staged |-> f.staged, bak |-> {}, tmp |-> f.tmp]
         /\ x.w = "bak" => Filed(x, f) = IF f.staged = {} THEN f ELSE
              [canon |-> f.canon, staged |-> {}, bak |-> f.staged, tmp |-> f.tmp]
  <1> DEFINE g == Filed(x, f)
  <1>1. CASE x.w = "tmp"
    <2>1. g = [canon |-> f.canon, staged |-> f.staged, bak |-> f.bak, tmp |-> {x.arg}]
      BY <1>1 DEF Filed, IsFiles
    <2> QED
      BY <1>1, <2>1 DEF IsFiles
  <1>2. CASE x.w = "unstage"
    <2>1. g = [canon |-> f.canon, staged |-> {}, bak |-> f.bak, tmp |-> f.tmp]
      BY <1>2 DEF Filed, IsFiles
    <2> QED
      BY <1>2, <2>1 DEF IsFiles
  <1>3. CASE x.w = "stage" /\ f.canon # {}
    <2>1. g = [canon |-> {}, staged |-> f.canon, bak |-> f.bak, tmp |-> f.tmp]
      BY <1>3 DEF Filed, IsFiles
    <2> QED
      BY <1>3, <2>1 DEF IsFiles
  <1>4. CASE x.w = "discard"
    <2>1. g = [canon |-> {}, staged |-> f.staged, bak |-> f.bak, tmp |-> f.tmp]
      BY <1>4 DEF Filed, IsFiles
    <2> QED
      BY <1>4, <2>1 DEF IsFiles
  <1>5. CASE x.w = "publish"
    <2>1. g = [canon |-> f.tmp, staged |-> f.staged, bak |-> f.bak, tmp |-> {}]
      BY <1>5 DEF Filed, IsFiles
    <2> QED
      BY <1>5, <2>1 DEF IsFiles
  <1>6. CASE x.w = "unbak" /\ f.staged # {}
    <2>1. g = [canon |-> f.canon, staged |-> f.staged, bak |-> {}, tmp |-> f.tmp]
      BY <1>6 DEF Filed, IsFiles
    <2> QED
      BY <1>6, <2>1 DEF IsFiles
  <1>7. CASE x.w = "bak" /\ f.staged # {}
    <2>1. g = [canon |-> f.canon, staged |-> {}, bak |-> f.staged, tmp |-> f.tmp]
      BY <1>7 DEF Filed, IsFiles
    <2> QED
      BY <1>7, <2>1 DEF IsFiles
  <1>8. CASE x.w \notin {"tmp", "unstage", "discard", "publish"} /\ ~(x.w = "stage" /\ f.canon # {})
             /\ ~(x.w = "unbak" /\ f.staged # {}) /\ ~(x.w = "bak" /\ f.staged # {})
    <2>1. g = f
      BY <1>8 DEF Filed
    <2> QED
      BY <1>8, <2>1
  <1> QED
    BY <1>1, <1>2, <1>3, <1>4, <1>5, <1>6, <1>7, <1>8

\* All but the files of the epoch map is as it was.
SameBut(s, t) ==
  /\ t.view = s.view /\ t.oplog = s.oplog /\ t.ckpt = s.ckpt /\ t.result = s.result
  /\ t.failed = s.failed /\ t.mishaps = s.mishaps /\ t.home = s.home

\* Such a write leaves the rest.
LEMMA FileWriteKeeps ==
  \A x, s : x.w \in MapWrites => SameBut(s, After(x, s)) /\ After(x, s).files = Filed(x, s.files)
  <1> SUFFICES ASSUME NEW x, NEW s, x.w \in MapWrites
               PROVE  SameBut(s, After(x, s)) /\ After(x, s).files = Filed(x, s.files)
    OBVIOUS
  <1>1. x.w # "view" /\ x.w # "ckpt" /\ x.w # "op" /\ x.w # "pop"
    BY DEF MapWrites
  <1>2. Logged(x, s.oplog) = s.oplog
    BY <1>1 DEF Logged
  <1> QED
    BY <1>1, <1>2 DEF After, SameBut

\* A map in the one file that is read first.
LEMMA RawMapThere == \A f, m : f.canon = {m} => RawMap(f) = m
  <1> SUFFICES ASSUME NEW f, NEW m, f.canon = {m} PROVE RawMap(f) = m
    OBVIOUS
  <1>1. f.canon # {}
    OBVIOUS
  <1>2. RawMap(f) = Only({m})
    BY <1>1 DEF RawMap, OrEmpty
  <1> QED
    BY <1>2 DEF Only

\* What is put back where the new map could not be is the map that was read.
LEMMA PutBackMap ==
  ASSUME NEW x, NEW f, IsFiles(f)
  PROVE  /\ IsFiles(PutBack(x, f))
         /\ (x.w = "publish" => f.canon = {}) => RawMap(PutBack(x, f)) = RawMap(f)
  <1>1. CASE x.w = "publish" /\ f.staged # {}
    <2>1. PutBack(x, f) = [canon |-> f.staged, staged |-> {}, bak |-> f.bak, tmp |-> f.tmp]
      BY <1>1 DEF PutBack, IsFiles
    <2> QED
      BY <1>1, <2>1 DEF IsFiles, RawMap
  <1>2. CASE ~(x.w = "publish" /\ f.staged # {})
    BY <1>2 DEF PutBack
  <1> QED
    BY <1>1, <1>2

\* persist_epoch_map_raw is six mild writes of these, with no recovery.
LEMMA PersistMild ==
  \A m : /\ Mild(persist_epoch_map_raw(m)) /\ Len(persist_epoch_map_raw(m)) = 6
         /\ \A n \in 1..6 : /\ persist_epoch_map_raw(m)[n].w \in MapWrites
                            /\ persist_epoch_map_raw(m)[n].recover = <<>>
  <1> SUFFICES ASSUME NEW m
               PROVE  /\ Mild(persist_epoch_map_raw(m)) /\ Len(persist_epoch_map_raw(m)) = 6
                      /\ \A n \in 1..6 : /\ persist_epoch_map_raw(m)[n].w \in MapWrites
                                         /\ persist_epoch_map_raw(m)[n].recover = <<>>
    OBVIOUS
  <1> DEFINE ws == persist_epoch_map_raw(m)
             S == {Do("tmp", m), Do("unstage", {}), Do("stage", {}), Do("publish", {}), Do("unbak", {}), Do("bak", {})}
  <1>1. ws \in Seq(S)
    BY DEF persist_epoch_map_raw
  <1>7. Len(ws) = 6
    BY DEF persist_epoch_map_raw
  <1>2. IsSeq(ws)
    <2> HIDE DEF ws, S
    <2> QED
      BY <1>1, SeqIsSeq
  <1>3. \A x \in S : x.recover = <<>> /\ x.w \in MapWrites
    BY DEF Do, Risk, MapWrites
  <1>4. \A n \in 1..Len(ws) : ws[n] \in S
    <2> HIDE DEF ws, S
    <2> QED
      BY <1>1
  <1> HIDE DEF ws, S
  <1>5. Mild(ws)
    BY <1>2, <1>3, <1>4 DEF Mild, MapWrites
  <1>6. Len(ws) = 6 /\ \A n \in 1..6 : ws[n].recover = <<>> /\ ws[n].w \in MapWrites
    BY <1>3, <1>4, <1>7
  <1> QED
    BY <1>5, <1>6 DEF ws

\* What the state t has of s after k of its writes: while the old map is not set
\* aside from before, one of the two can be read throughout.
Along(k, m, s, t) ==
  /\ SameBut(s, t) /\ IsFiles(t.files)
  /\ k \in 1..3 => t.files.tmp = {m}
  /\ k \in 4..6 => t.files.canon = {m}
  /\ k = 3 => t.files.canon = {}
  /\ k \in {2, 6} => t.files.staged = {}
  /\ s.files.staged = {} /\ k \in 0..2 => t.files.staged = {}
  /\ s.files.staged = {} /\ k \in 0..3 => RawMap(t.files) = RawMap(s.files)

\* A write of the six after another.
LEMMA AlongOn ==
  ASSUME NEW m, NEW s, NEW t, NEW k \in 0..5, Along(k, m, s, t)
  PROVE  Along(k + 1, m, s, After(persist_epoch_map_raw(m)[k + 1], t))
  <1> DEFINE x == persist_epoch_map_raw(m)[k + 1]
             u == After(x, t)
             f == t.files
             g == u.files
  <1>1. /\ k = 0 => x = Do("tmp", m)
        /\ k = 1 => x = Do("unstage", {})
        /\ k = 2 => x = Do("stage", {})
        /\ k = 3 => x = Do("publish", {})
        /\ k = 4 => x = Do("unbak", {})
        /\ k = 5 => x = Do("bak", {})
    BY DEF persist_epoch_map_raw
  <1> HIDE DEF x
  <1>2. /\ k = 0 => x.w = "tmp" /\ x.arg = m
        /\ k = 1 => x.w = "unstage"
        /\ k = 2 => x.w = "stage"
        /\ k = 3 => x.w = "publish"
        /\ k = 4 => x.w = "unbak"
        /\ k = 5 => x.w = "bak"
    BY <1>1 DEF Do, Risk
  <1>3. x.w \in MapWrites
    BY <1>2 DEF MapWrites
  <1>4. SameBut(t, u) /\ g = Filed(x, f)
    BY <1>3, FileWriteKeeps
  <1> HIDE DEF u
  <1>5. SameBut(s, u)
    BY <1>4 DEF SameBut, Along
  <1>6. IsFiles(f)
    BY DEF Along
  <1>7. IsFiles(g)
    BY <1>4, <1>6, FiledFields
  <1> HIDE DEF f, g
  <1>8. ASSUME k = 0 PROVE Along(k + 1, m, s, u)
    <2>1. g = [canon |-> f.canon, staged |-> f.staged, bak |-> f.bak, tmp |-> {m}]
      BY <1>2, <1>4, <1>6, <1>8, FiledFields
    <2>2. RawMap(g) = RawMap(f)
      BY <2>1 DEF RawMap
    <2> QED
      BY <1>5, <1>7, <1>8, <2>1, <2>2 DEF Along, f, g
  <1>9. ASSUME k = 1 PROVE Along(k + 1, m, s, u)
    <2>1. g = [canon |-> f.canon, staged |-> {}, bak |-> f.bak, tmp |-> f.tmp]
      BY <1>2, <1>4, <1>6, <1>9, FiledFields
    <2>2. f.staged = {} => RawMap(g) = RawMap(f)
      BY <2>1 DEF RawMap
    <2> QED
      BY <1>5, <1>7, <1>9, <2>1, <2>2 DEF Along, f, g
  <1>10. ASSUME k = 2 PROVE Along(k + 1, m, s, u)
    <2>1. f.staged = {}
      BY <1>10 DEF Along, f
    <2>2. g = IF f.canon = {} THEN f ELSE [canon |-> {}, staged |-> f.canon, bak |-> f.bak, tmp |-> f.tmp]
      BY <1>2, <1>4, <1>6, <1>10, FiledFields
    <2>3. RawMap(g) = RawMap(f) /\ g.tmp = f.tmp /\ g.canon = {}
      BY <2>1, <2>2 DEF RawMap
    <2> QED
      BY <1>5, <1>7, <1>10, <2>3 DEF Along, f, g
  <1>11. ASSUME k = 3 PROVE Along(k + 1, m, s, u)
    <2>1. g = [canon |-> f.tmp, staged |-> f.staged, bak |-> f.bak, tmp |-> {}]
      BY <1>2, <1>4, <1>6, <1>11, FiledFields
    <2> QED
      BY <1>5, <1>7, <1>11, <2>1 DEF Along, f, g
  <1>12. ASSUME k = 4 PROVE Along(k + 1, m, s, u)
    <2>1. g = IF f.staged = {} THEN f ELSE [canon |-> f.canon, staged |-> f.staged, bak |-> {}, tmp |-> f.tmp]
      BY <1>2, <1>4, <1>6, <1>12, FiledFields
    <2>2. g.canon = f.canon
      BY <2>1
    <2> QED
      BY <1>5, <1>7, <1>12, <2>2 DEF Along, f, g
  <1>13. ASSUME k = 5 PROVE Along(k + 1, m, s, u)
    <2>1. g = IF f.staged = {} THEN f ELSE [canon |-> f.canon, staged |-> {}, bak |-> f.staged, tmp |-> f.tmp]
      BY <1>2, <1>4, <1>6, <1>13, FiledFields
    <2>2. g.canon = f.canon /\ g.staged = {}
      BY <2>1
    <2> QED
      BY <1>5, <1>7, <1>13, <2>2 DEF Along, f, g
  <1>14. Along(k + 1, m, s, u)
    BY <1>8, <1>9, <1>10, <1>11, <1>12, <1>13
  <1> QED
    BY <1>14 DEF u, x

\* So after any number of them.
LEMMA PersistAlong ==
  ASSUME NEW m, NEW s, IsFiles(s.files)
  PROVE  \A k \in 0..6 : \A t : Leads(k, persist_epoch_map_raw(m), s, t) => Along(k, m, s, t)
  <1> DEFINE ws == persist_epoch_map_raw(m)
             S == {k \in Nat : \A t : Leads(k, ws, s, t) => Along(k, m, s, t)}
  <1>1. 0 \in S
    <2>1. \A t : Leads(0, ws, s, t) => t = s
      BY LeadsNowhere, Zenon
    <2>2. Along(0, m, s, s)
      BY DEF Along, SameBut
    <2> QED
      BY <2>1, <2>2
  <1>2. ASSUME NEW n \in 1..6, n - 1 \in S PROVE n \in S
    <2> DEFINE k == n - 1
    <2>1. k \in 0..5 /\ k + 1 = n /\ n \in Nat
      BY <1>2
    <2>2. \A t : Leads(k, ws, s, t) => Along(k, m, s, t)
      BY <1>2
    <2> HIDE DEF k, ws
    <2>3. ASSUME NEW t, Leads(n, ws, s, t) PROVE Along(n, m, s, t)
      <3>1. Leads(k + 1, ws, s, t)
        BY <2>1, <2>3, Zenon
      <3>2. k \in Nat
        BY <2>1
      <3>3. PICK u : Leads(k, ws, s, u) /\ t = After(ws[k + 1], u)
        BY <3>1, <3>2, LeadsLast
      <3>4. Along(k, m, s, u)
        BY <2>2, <3>3, Zenon
      <3>5. Along(k + 1, m, s, After(ws[k + 1], u))
        BY <2>1, <3>4, AlongOn DEF ws
      <3> QED
        BY <2>1, <3>3, <3>5, Zenon
    <2> QED
      BY <2>1, <2>3
  <1> HIDE DEF S
  <1>3. 0..6 \subseteq S
    <2>1. 6 \in Nat
      OBVIOUS
    <2> QED
      BY <1>1, <1>2, <2>1, UpToInduction
  <1> QED
    BY <1>3 DEF S

\* The six end with the map in place and the old one no more set aside, and leave the rest.
LEMMA PersistEnds ==
  ASSUME NEW m, NEW s, IsFiles(s.files), NEW t, Ends(persist_epoch_map_raw(m), s, t)
  PROVE  SameBut(s, t) /\ IsFiles(t.files) /\ RawMap(t.files) = m /\ t.files.staged = {}
  <1>1. Len(persist_epoch_map_raw(m)) = 6 /\ 6 \in 0..6
    BY DEF persist_epoch_map_raw
  <1>2. Leads(6, persist_epoch_map_raw(m), s, t)
    BY <1>1, Zenon DEF Ends
  <1>3. Along(6, m, s, t)
    BY <1>1, <1>2, PersistAlong
  <1>4. SameBut(s, t) /\ IsFiles(t.files) /\ t.files.canon = {m} /\ t.files.staged = {}
    BY <1>3 DEF Along
  <1> QED
    BY <1>4, RawMapThere

\* One mild write.
LEMMA MildOne == \A w, x : w \notin {"ckpt", "fail"} => Mild(<<Do(w, x)>>)
  <1> SUFFICES ASSUME NEW w, NEW x, w \notin {"ckpt", "fail"} PROVE Mild(<<Do(w, x)>>)
    OBVIOUS
  <1>1. Do(w, x).w = w
    BY DEF Do, Risk
  <1>2. Len(<<Do(w, x)>>) = 1 /\ <<Do(w, x)>>[1] = Do(w, x)
    OBVIOUS
  <1> QED
    BY <1>1, <1>2, ShortSeqs DEF Mild

\* Mild writes after mild writes.
LEMMA MildJoined == ASSUME NEW a, NEW b, Mild(a), Mild(b) PROVE Mild(a \o b)
  <1>1. IsSeq(a) /\ IsSeq(b)
    BY DEF Mild
  <1>9. FromEither(a, b)
    BY <1>1, JoinedElements, Zenon
  <1>2. ASSUME NEW n \in 1..Len(a \o b) PROVE (a \o b)[n].w \notin {"ckpt", "fail"}
    <2>1. (\E j \in 1..Len(a) : (a \o b)[n] = a[j]) \/ (\E j \in 1..Len(b) : (a \o b)[n] = b[j])
      BY <1>9, Zenon DEF FromEither
    <2> QED
      BY <2>1, Zenon DEF Mild
  <1>3. IsSeq(a \o b)
    BY <1>1, JoinedSeq
  <1> QED
    BY <1>2, <1>3 DEF Mild

-----------------------------------------------------------------------------
(* A rewrite, from its first write to its last.                              *)

\* The files are the four, the log was one, and a restack has its checkpoint.
Ready(s) == IsFiles(s.files) /\ IsSeq(s.home.oplog) /\ Pending(s) /\ s.mishaps \in Nat /\ Tidy(s)

\* The operation of the rewrite is the last of the log, and in the map; the view is
\* that before it or the one after it.
InLog(s) ==
  /\ Ready(s) /\ Mapped(s) /\ s.files.staged = {}
  /\ \E op : s.oplog = Append(s.home.oplog, op) /\ s.view \in {s.home.view, op.after}

\* The writes ws may be killed anywhere, and end well.
Goes(ws, s) == Safe(ws, s) /\ \A t : Ends(ws, s, t) => EndsWell(t)

\* What must be in the map is a matter of the command and of the log.
LEMMA CoversSame ==
  ASSUME NEW s, NEW t, t.oplog = s.oplog, t.home = s.home
  PROVE  \A m : Covers(m, t) <=> Covers(m, s)
  BY SMT DEF Covers

\* What is the same but for the files is as ready, and needs the same in the map.
LEMMA ReadyKept ==
  ASSUME NEW s, NEW t, Ready(s), SameBut(s, t), IsFiles(t.files), t.files.staged = {}
  PROVE  Ready(t) /\ \A m : Covers(m, t) <=> Covers(m, s)
  <1>1. Ready(t)
    BY DEF Ready, SameBut, Pending, Tidy
  <1>2. t.oplog = s.oplog /\ t.home = s.home
    BY DEF SameBut
  <1>3. \A m : Covers(m, t) <=> Covers(m, s)
    BY <1>2, CoversSame
  <1> QED
    BY <1>1, <1>3

\* With the log as the command found it, the map it found will do.
LEMMA CoveredAtHome ==
  ASSUME NEW s, s.oplog = s.home.oplog, IsSeq(s.home.oplog)
  PROVE  \A m : DOMAIN s.home.map \ Undone(s.home) \subseteq DOMAIN m => Covers(m, s)
  <1>1. s.oplog \in Seq({s.oplog[i] : i \in DOMAIN s.oplog})
    BY Zenon DEF IsSeq
  <1>2. Len(s.oplog) \in Nat
    BY <1>1
  <1>3. ~(Len(s.oplog) > Len(s.home.oplog))
    BY <1>2
  <1> QED
    BY <1>3 DEF Covers

\* Where all is as it was, a command may end.
LEMMA HomeMapped == ASSUME NEW s, AtHome(s), IsSeq(s.home.oplog) PROVE Mapped(s)
  BY CoveredAtHome DEF Mapped, AtHome

\* And if nothing is set aside, it ends well there.
LEMMA HomeWell == ASSUME NEW s, AtHome(s), Ready(s) PROVE EndsWell(s)
  BY HomeMapped DEF EndsWell, Ready, Leaves

\* A write that failed, but for the publication of a map, leaves what was there.
LEMMA FailedKeeps ==
  \A x, s : x.w \notin {"publish", "target"} =>
    /\ Failed(x, s).view = s.view /\ Failed(x, s).oplog = s.oplog /\ Failed(x, s).files = s.files
    /\ Failed(x, s).ckpt = s.ckpt /\ Failed(x, s).home = s.home /\ Failed(x, s).failed = x.w
    /\ Failed(x, s).mishaps = s.mishaps + 1
  BY DEF Failed, Forgiven, PutBack

\* So what was ready is, and nothing is asked of the kills that follow.
LEMMA FailedReady ==
  ASSUME NEW x, x.w \notin {"publish", "target"}, NEW s, Ready(s)
  PROVE  /\ Ready(Failed(x, s)) /\ Failed(x, s).mishaps # 0 /\ Pending(Failed(x, s))
         /\ InLog(s) => InLog(Failed(x, s))
  <1> DEFINE u == Failed(x, s)
  <1>1. /\ u.view = s.view /\ u.oplog = s.oplog /\ u.files = s.files
        /\ u.ckpt = s.ckpt /\ u.home = s.home /\ u.mishaps = s.mishaps + 1
    BY FailedKeeps
  <1> HIDE DEF u
  <1>2. s.mishaps \in Nat /\ s.mishaps + 1 # 0 /\ s.mishaps + 1 \in Nat
    BY DEF Ready
  <1>3. u.mishaps # 0 /\ Pending(u)
    BY <1>1, <1>2 DEF Ready, Pending
  <1>4. Ready(u)
    BY <1>1, <1>2, <1>3 DEF Ready, Tidy
  <1>5. Mapped(s) => Mapped(u)
    BY <1>1, Zenon DEF Mapped, Covers
  <1>6. InLog(s) => InLog(u)
    BY <1>1, <1>4, <1>5 DEF InLog
  <1> QED
    BY <1>3, <1>4, <1>6 DEF u

\* A command that gives up is as ready.
LEMMA GivenUpReady ==
  ASSUME NEW s, Ready(s)
  PROVE  /\ Ready(GivenUp(s)) /\ Pending(GivenUp(s)) /\ GivenUp(s).home = s.home
         /\ InLog(s) => InLog(GivenUp(s))
         /\ AtHome(s) => AtHome(GivenUp(s))
  <1> DEFINE u == GivenUp(s)
  <1>1. /\ u.view = s.view /\ u.oplog = s.oplog /\ u.files = s.files
        /\ u.ckpt = s.ckpt /\ u.home = s.home /\ u.mishaps = s.mishaps
    BY DEF GivenUp
  <1> HIDE DEF u
  <1>2. Pending(u)
    BY <1>1 DEF Ready, Pending
  <1>3. Ready(u)
    BY <1>1, <1>2 DEF Ready, Tidy
  <1>4. Mapped(s) => Mapped(u)
    <2>1. Covers(RawMap(s.files), u) <=> Covers(RawMap(s.files), s)
      BY <1>1, CoversSame
    <2> QED
      BY <1>1, <2>1 DEF Mapped
  <1>5. InLog(s) => InLog(u)
    BY <1>1, <1>3, <1>4 DEF InLog
  <1>6. AtHome(s) => AtHome(u)
    BY <1>1 DEF AtHome
  <1> QED
    BY <1>1, <1>2, <1>3, <1>5, <1>6 DEF u

\* A first mishap at a write that nothing takes back is well if what it leaves is.
LEMMA FailsWell ==
  ASSUME NEW x, NEW s, s.mishaps \in Nat, s.mishaps = 0 => Mapped(s), IsFiles(s.files),
         x.w = "publish" => s.files.canon = {},
         s.home.command \in Rewriters /\ s.mishaps = 0 =>
           (Forgiven(x) /\ s.result = "ok") \/ Leaves(Failed(x, s))
  PROVE  EndsWell(Failed(x, s))
  <1> DEFINE u == Failed(x, s)
  <1>1. /\ u.oplog = s.oplog /\ u.files = PutBack(x, s.files) /\ u.home = s.home
        /\ u.mishaps = s.mishaps + 1
    BY DEF Failed
  <1>2. Forgiven(x) => u.result = s.result
    BY DEF Failed
  <1> HIDE DEF u
  <1>3. u.mishaps # 0 /\ (u.mishaps \in {0, 1} => s.mishaps = 0)
    BY <1>1
  <1>4. RawMap(u.files) = RawMap(s.files)
    BY <1>1, PutBackMap
  <1>5. s.mishaps = 0 => Mapped(u)
    <2>1. Covers(RawMap(s.files), u) <=> Covers(RawMap(s.files), s)
      BY <1>1, CoversSame
    <2> QED
      BY <1>4, <2>1 DEF Mapped
  <1>6. s.home.command \in Rewriters /\ s.mishaps = 0 => Leaves(u) \/ u.result = "ok"
    BY <1>2 DEF u
  <1>7. EndsWell(u)
    BY <1>1, <1>3, <1>5, <1>6 DEF EndsWell, Tidy
  <1> QED
    BY <1>7 DEF u

\* A write with no recovery, where the process may be killed.
LEMMA DoUndoes ==
  ASSUME NEW x, x.recover = <<>>, x.w # "fail", NEW s, Guarded(s), s.mishaps \in Nat, IsFiles(s.files),
         x.w = "publish" => s.files.canon = {},
         s.home.command \in Rewriters /\ s.mishaps = 0 =>
           (Forgiven(x) /\ s.result = "ok") \/ Leaves(Failed(x, s))
  PROVE  Undoes(x, s)
  <1>1. EndsWell(Failed(x, s))
    <2>1. s.mishaps = 0 => Mapped(s)
      BY Zenon DEF Guarded
    <2> QED
      BY <2>1, FailsWell
  <1> QED
    BY <1>1, MendsShort, Zenon DEF Undoes

\* In a ready state with its map the process may be killed.
LEMMA ReadyGuarded == \A s : Ready(s) /\ Mapped(s) => Guarded(s)
  BY Zenon DEF Ready, Pending, Guarded

\* persist_epoch_map_raw may be killed at any write, if the map before and the map
\* after have what they should.
LEMMA PersistSteady ==
  ASSUME NEW m, NEW s, Ready(s), Mapped(s), Covers(m, s)
  PROVE  Steady(persist_epoch_map_raw(m), s)
  <1> DEFINE ws == persist_epoch_map_raw(m)
  <1>1. IsSeq(ws) /\ Len(ws) = 6
    BY PersistMild DEF Mild
  <1>2. \A k \in 0..6 : \A t : Leads(k, ws, s, t) => Along(k, m, s, t)
    BY PersistAlong DEF Ready
  <1> HIDE DEF ws
  <1>3. ASSUME NEW n \in 1..Len(ws), NEW t, Leads(n - 1, ws, s, t) PROVE Guarded(t)
    <2>1. n - 1 \in 0..6
      BY <1>1
    <2>2. Along(n - 1, m, s, t)
      BY <1>2, <1>3, <2>1, Zenon
    <2>3. SameBut(s, t)
      BY <2>2 DEF Along
    <2>4. Pending(t) /\ (t.mishaps = 0 => s.files.staged = {}) /\ \A e : Covers(e, t) <=> Covers(e, s)
      <3>1. t.oplog = s.oplog /\ t.home = s.home
        BY <2>3 DEF SameBut
      <3>2. \A e : Covers(e, t) <=> Covers(e, s)
        BY <3>1, CoversSame
      <3> QED
        BY <2>3, <3>2 DEF SameBut, Ready, Pending, Tidy
    <2>5. ASSUME t.mishaps = 0 PROVE Mapped(t)
      <3>1. CASE n - 1 \in 0..3
        <4>1. RawMap(t.files) = RawMap(s.files)
          BY <2>2, <2>4, <2>5, <3>1 DEF Along
        <4> QED
          BY <2>4, <4>1 DEF Mapped
      <3>2. CASE n - 1 \in 4..6
        <4>1. t.files.canon = {m}
          BY <2>2, <3>2 DEF Along
        <4>2. RawMap(t.files) = m
          BY <4>1, RawMapThere
        <4> QED
          BY <2>4, <4>2 DEF Mapped
      <3> QED
        BY <2>1, <3>1, <3>2
    <2> QED
      BY <2>4, <2>5 DEF Guarded, Pending
  <1>4. Steady(ws, s)
    BY <1>1, <1>3 DEF Steady
  <1> QED
    BY <1>4 DEF ws

\* Where a write of it fails, the log is as it was, and the map too before the new one
\* is published.
LEMMA PersistFails ==
  ASSUME NEW m, NEW s, Ready(s), NEW k \in 0..5, NEW t, Along(k, m, s, t), NEW x,
         x.w = persist_epoch_map_raw(m)[k + 1].w
  PROVE  /\ SameBut(s, t) /\ IsFiles(t.files) /\ x.w \in MapWrites /\ (x.w = "publish" => t.files.canon = {})
         /\ s.mishaps = 0 => RawMap(t.files) = RawMap(s.files) \/ x.w \in {"unbak", "bak"}
  <1>1. /\ k = 0 => x.w = "tmp"
        /\ k = 1 => x.w = "unstage"
        /\ k = 2 => x.w = "stage"
        /\ k = 3 => x.w = "publish"
        /\ k = 4 => x.w = "unbak"
        /\ k = 5 => x.w = "bak"
    BY DEF persist_epoch_map_raw, Do, Risk
  <1>2. x.w \in MapWrites
    BY <1>1 DEF MapWrites
  <1>3. x.w = "publish" => k = 3
    BY <1>1
  <1>4. s.mishaps = 0 => s.files.staged = {}
    BY DEF Ready, Tidy
  <1>5. ASSUME s.mishaps = 0 PROVE RawMap(t.files) = RawMap(s.files) \/ x.w \in {"unbak", "bak"}
    <2>1. CASE k \in 0..3
      BY <1>4, <1>5, <2>1 DEF Along
    <2>2. CASE k \in 4..5
      BY <1>1, <2>2
    <2> QED
      BY <2>1, <2>2
  <1>6. SameBut(s, t) /\ IsFiles(t.files) /\ (k = 3 => t.files.canon = {})
    BY DEF Along
  <1> QED
    BY <1>2, <1>3, <1>5, <1>6

\* A rewrite that writes the map first may fail at any of its writes.
LEMMA PersistSafe ==
  ASSUME NEW m, NEW s, Ready(s), Covers(m, s), AtHome(s)
  PROVE  Safe(persist_epoch_map_raw(m), s)
  <1> DEFINE ws == persist_epoch_map_raw(m)
  <1>1. IsSeq(ws) /\ Len(ws) = 6 /\ \A n \in 1..6 : ws[n].recover = <<>>
    BY PersistMild DEF Mild
  <1>2. \A k \in 0..6 : \A t : Leads(k, ws, s, t) => Along(k, m, s, t)
    BY PersistAlong DEF Ready
  <1>3. Steady(ws, s)
    BY HomeMapped, PersistSteady DEF Ready
  <1>4. \A k \in 0..5 : \A t : Along(k, m, s, t) =>
          /\ SameBut(s, t) /\ IsFiles(t.files) /\ ws[k + 1].w \in MapWrites
          /\ ws[k + 1].w = "publish" => t.files.canon = {}
          /\ s.mishaps = 0 => RawMap(t.files) = RawMap(s.files) \/ ws[k + 1].w \in {"unbak", "bak"}
    BY PersistFails
  <1> HIDE DEF ws
  <1>5. ASSUME NEW n \in 1..Len(ws), NEW t, Leads(n - 1, ws, s, t) PROVE Undoes(ws[n], t)
    <2> DEFINE x == ws[n]
               u == Failed(x, t)
               k == n - 1
    <2>1. k \in 0..5 /\ k \in 0..6 /\ k + 1 = n /\ n \in 1..6
      BY <1>1
    <2>2. Guarded(t)
      BY <1>3, <1>5, Zenon DEF Steady
    <2>3. Along(k, m, s, t)
      BY <1>2, <1>5, <2>1, Zenon
    <2> HIDE DEF k
    <2>4. /\ SameBut(s, t) /\ IsFiles(t.files) /\ x.w \in MapWrites
          /\ x.w = "publish" => t.files.canon = {}
          /\ s.mishaps = 0 => RawMap(t.files) = RawMap(s.files) \/ x.w \in {"unbak", "bak"}
      BY <1>4, <2>1, <2>3, Zenon
    <2>5. x.w # "fail" /\ x.w # "target" /\ x.recover = <<>>
      BY <1>1, <2>1, <2>4 DEF MapWrites
    <2> HIDE DEF x
    <2>6. /\ u.view = t.view /\ u.oplog = t.oplog /\ u.files = PutBack(x, t.files) /\ u.home = t.home
          /\ u.failed = x.w
      BY <2>5 DEF Failed, Forgiven
    <2> HIDE DEF u
    <2>7. u.view = u.home.view /\ u.oplog = u.home.oplog /\ u.home.map = RawMap(s.files) /\ t.mishaps = s.mishaps
      BY <2>4, <2>6 DEF SameBut, AtHome
    <2>8. RawMap(u.files) = RawMap(t.files)
      BY <2>4, <2>6, PutBackMap
    <2>9. t.mishaps = 0 => Leaves(u)
      BY <2>4, <2>6, <2>7, <2>8 DEF Leaves, AtHome
    <2>10. t.mishaps \in Nat
      BY <2>7 DEF Ready
    <2>11. Undoes(x, t)
      BY <2>2, <2>4, <2>5, <2>9, <2>10, DoUndoes DEF u
    <2> QED
      BY <2>11 DEF x
  <1>6. Safe(ws, s)
    BY <1>1, <1>5 DEF Safe
  <1> QED
    BY <1>6 DEF ws

\* The operation is taken off the log.
LEMMA PopWritten ==
  ASSUME NEW s, InLog(s), NEW u, u = After(Do("pop", {}), s)
  PROVE  /\ u.view = s.view /\ u.oplog = s.home.oplog /\ u.files = s.files /\ u.ckpt = s.ckpt
         /\ u.home = s.home /\ u.mishaps = s.mishaps
         /\ Ready(u) /\ Mapped(u) /\ Covers(s.home.map, u)
  <1> DEFINE x == Do("pop", {})
  <1>1. x.w = "pop"
    BY DEF Do, Risk
  <1>2. PICK op : s.oplog = Append(s.home.oplog, op)
    BY DEF InLog
  <1>3. Ready(s) /\ IsSeq(s.home.oplog) /\ Mapped(s)
    BY DEF InLog, Ready
  <1>4. s.oplog # <<>> /\ Front(s.oplog) = s.home.oplog
    BY <1>2, <1>3, AppendedSeq
  <1> HIDE DEF x
  <1>5. Logged(x, s.oplog) = s.home.oplog
    BY <1>1, <1>4 DEF Logged
  <1>6. Filed(x, s.files) = s.files
    BY <1>1 DEF Filed
  <1>7. /\ u.view = s.view /\ u.oplog = s.home.oplog /\ u.files = s.files /\ u.ckpt = s.ckpt
        /\ u.home = s.home /\ u.mishaps = s.mishaps
    <2>1. u = After(x, s)
      BY DEF x
    <2> QED
      BY <1>1, <1>5, <1>6, <2>1 DEF After
  <1>8. Ready(u)
    BY <1>3, <1>7 DEF Ready, Pending, Tidy
  <1>9. \A m : DOMAIN s.home.map \ Undone(s.home) \subseteq DOMAIN m => Covers(m, u)
    BY <1>3, <1>7, CoveredAtHome
  <1>10. Covers(s.home.map, u)
    BY <1>9
  <1>11. Mapped(u)
    <2>1. CASE s.home.command = "snap"
      BY <1>7, <2>1 DEF Mapped, Covers
    <2>2. CASE s.home.command # "snap"
      <3>1. DOMAIN s.home.map \ Undone(s.home) \subseteq DOMAIN RawMap(s.files)
        BY <1>3, <2>2 DEF Mapped, Covers
      <3> QED
        BY <1>7, <1>9, <3>1 DEF Mapped
    <2> QED
      BY <2>1, <2>2
  <1> QED
    BY <1>7, <1>8, <1>10, <1>11

\* Where rollback_rewrite_metadata ends, the operation is off the log, the map is
\* what it was, and the view has not moved; and it may be killed on the way.
LEMMA RollbackEnds ==
  ASSUME NEW s, InLog(s)
  PROVE  /\ Steady(rollback_rewrite_metadata(s.home.map), s)
         /\ \A t : Ends(rollback_rewrite_metadata(s.home.map), s, t) =>
                     /\ Ready(t) /\ t.oplog = t.home.oplog /\ RawMap(t.files) = t.home.map
                     /\ t.view = s.view /\ t.home = s.home
  <1> DEFINE x == Do("pop", {})
             p == persist_epoch_map_raw(s.home.map)
  <1>1. IsSeq(<<x>>) /\ IsSeq(p)
    BY ShortSeqs, PersistMild DEF Mild
  <1>2. rollback_rewrite_metadata(s.home.map) = <<x>> \o p
    BY DEF rollback_rewrite_metadata
  <1>3. Guarded(s)
    BY ReadyGuarded DEF InLog
  <1>4. \A u : u = After(x, s) =>
          /\ u.view = s.view /\ u.oplog = s.home.oplog /\ u.files = s.files
          /\ u.home = s.home
          /\ Ready(u) /\ Mapped(u) /\ Covers(s.home.map, u)
    BY PopWritten
  <1>5. \A u : Ready(u) /\ Mapped(u) /\ Covers(s.home.map, u) => Steady(p, u)
    BY PersistSteady
  <1>6. \A u, t : IsFiles(u.files) /\ Ends(p, u, t) =>
          SameBut(u, t) /\ IsFiles(t.files) /\ RawMap(t.files) = s.home.map /\ t.files.staged = {}
    BY PersistEnds
  <1> HIDE DEF x, p
  <1>7. Steady(<<x>>, s)
    BY <1>3, SteadyShort, Zenon
  <1>8. \A u : Ends(<<x>>, s, u) => Steady(p, u)
    BY <1>4, <1>5, EndsShort, Zenon
  <1>9. Steady(<<x>> \o p, s)
    BY <1>1, <1>7, <1>8, SteadyJoined
  <1>10. ASSUME NEW t, Ends(<<x>> \o p, s, t)
         PROVE  /\ Ready(t) /\ t.oplog = t.home.oplog /\ RawMap(t.files) = t.home.map
                /\ t.view = s.view /\ t.home = s.home
    <2>1. PICK u : Ends(<<x>>, s, u) /\ Ends(p, u, t)
      BY <1>1, <1>10, EndsJoined
    <2>2. u = After(x, s)
      BY <2>1, EndsShort, Zenon
    <2>3. u.view = s.view /\ u.oplog = s.home.oplog /\ u.home = s.home /\ Ready(u)
      BY <1>4, <2>2, Zenon
    <2>4. SameBut(u, t) /\ IsFiles(t.files) /\ RawMap(t.files) = s.home.map /\ t.files.staged = {}
      BY <1>6, <2>1, <2>3, Zenon DEF Ready
    <2>5. Ready(t)
      BY <2>3, <2>4, ReadyKept
    <2> QED
      BY <2>3, <2>4, <2>5 DEF SameBut
  <1> QED
    BY <1>2, <1>9, <1>10

\* It is mild.
LEMMA RollbackMild == \A m : Mild(rollback_rewrite_metadata(m))
  <1> SUFFICES ASSUME NEW m PROVE Mild(rollback_rewrite_metadata(m))
    OBVIOUS
  <1>1. Mild(<<Do("pop", {})>>)
    BY MildOne
  <1> QED
    BY <1>1, PersistMild, MildJoined, Zenon DEF rollback_rewrite_metadata

\* With the view put back first, all is as it was.
Back(v, m) == <<Do("view", v)>> \o rollback_rewrite_metadata(m)

\* The write that puts the view back is mild too.
LEMMA BackMild == \A v, m : Mild(Back(v, m))
  <1> SUFFICES ASSUME NEW v, NEW m PROVE Mild(Back(v, m))
    OBVIOUS
  <1>1. Mild(<<Do("view", v)>>)
    BY MildOne
  <1> QED
    BY <1>1, RollbackMild, MildJoined, Zenon DEF Back

\* A view that is saved: the log and the files stay.
LEMMA ViewWritten ==
  ASSUME NEW x, x.w = "view", NEW s
  PROVE  After(x, s) = [view |-> x.arg, oplog |-> s.oplog, files |-> s.files, ckpt |-> s.ckpt,
                        result |-> s.result, failed |-> s.failed, mishaps |-> s.mishaps, home |-> s.home]
  <1>1. Logged(x, s.oplog) = s.oplog
    BY DEF Logged
  <1>2. Filed(x, s.files) = s.files
    BY DEF Filed
  <1> QED
    BY <1>1, <1>2 DEF After

\* The view is moved, or put back; the operation is still in the log.
LEMMA ViewBack ==
  ASSUME NEW x, x.w = "view", NEW s, InLog(s), x.arg = s.home.view \/ x.arg = Last(s.oplog).after
  PROVE  InLog(After(x, s))
  <1> DEFINE u == After(x, s)
  <1>1. /\ u.view = x.arg /\ u.oplog = s.oplog /\ u.files = s.files /\ u.ckpt = s.ckpt
        /\ u.mishaps = s.mishaps /\ u.home = s.home
    BY ViewWritten
  <1> HIDE DEF u
  <1>2. Mapped(u)
    <2>1. Mapped(s)
      BY DEF InLog
    <2>2. Covers(RawMap(s.files), u) <=> Covers(RawMap(s.files), s)
      BY <1>1, CoversSame
    <2> QED
      BY <1>1, <2>1, <2>2 DEF Mapped
  <1>3. \E op : s.oplog = Append(s.home.oplog, op) /\ x.arg \in {s.home.view, op.after}
    <2>1. PICK op : s.oplog = Append(s.home.oplog, op)
      BY DEF InLog
    <2>2. Last(s.oplog) = op
      BY <2>1, AppendedSeq DEF InLog, Ready
    <2> QED
      BY <2>1, <2>2
  <1>4. Ready(u)
    BY <1>1 DEF InLog, Ready, Pending, Tidy
  <1>5. InLog(u)
    BY <1>1, <1>2, <1>3, <1>4 DEF InLog
  <1> QED
    BY <1>5 DEF u

\* Where the view and the metadata are put back, nothing is left.
LEMMA BackEnds ==
  ASSUME NEW s, InLog(s)
  PROVE  /\ Steady(Back(s.home.view, s.home.map), s)
         /\ \A t : Ends(Back(s.home.view, s.home.map), s, t) =>
                     AtHome(t) /\ Ready(t) /\ t.home = s.home
  <1> DEFINE x == Do("view", s.home.view)
             r == rollback_rewrite_metadata(s.home.map)
  <1>1. IsSeq(<<x>>) /\ IsSeq(r)
    BY ShortSeqs, RollbackMild DEF Mild
  <1>2. Back(s.home.view, s.home.map) = <<x>> \o r
    BY DEF Back
  <1>3. x.w = "view" /\ x.arg = s.home.view
    BY DEF Do, Risk
  <1>4. \A u : InLog(u) /\ u.home = s.home =>
          /\ Steady(r, u)
          /\ \A t : Ends(r, u, t) =>
                      /\ Ready(t) /\ t.oplog = t.home.oplog /\ RawMap(t.files) = t.home.map
                      /\ t.view = u.view /\ t.home = u.home
    BY RollbackEnds
  <1> HIDE DEF x, r
  <1>5. ASSUME NEW u, Ends(<<x>>, s, u)
        PROVE  InLog(u) /\ u.home = s.home /\ u.view = s.home.view
    <2>1. u = After(x, s)
      BY <1>5, EndsShort, Zenon
    <2>2. u.home = s.home /\ u.view = s.home.view
      BY <1>3, <2>1, ViewWritten
    <2>3. InLog(u)
      BY <1>3, <2>1, ViewBack
    <2> QED
      BY <2>2, <2>3
  <1>6. Guarded(s)
    BY ReadyGuarded DEF InLog
  <1>7. Steady(<<x>>, s)
    BY <1>6, SteadyShort, Zenon
  <1>8. \A u : Ends(<<x>>, s, u) => Steady(r, u)
    BY <1>4, <1>5, Zenon
  <1>9. Steady(<<x>> \o r, s)
    BY <1>1, <1>7, <1>8, SteadyJoined
  <1>10. ASSUME NEW t, Ends(<<x>> \o r, s, t) PROVE AtHome(t) /\ Ready(t) /\ t.home = s.home
    <2>1. PICK u : Ends(<<x>>, s, u) /\ Ends(r, u, t)
      BY <1>1, <1>10, EndsJoined
    <2>2. InLog(u) /\ u.home = s.home /\ u.view = s.home.view
      BY <1>5, <2>1
    <2>3. /\ Ready(t) /\ t.oplog = t.home.oplog /\ RawMap(t.files) = t.home.map
          /\ t.view = u.view /\ t.home = u.home
      BY <1>4, <2>1, <2>2, Zenon
    <2> QED
      BY <2>2, <2>3 DEF AtHome
  <1> QED
    BY <1>2, <1>9, <1>10

\* Writes that go on from where safe ones end.
LEMMA GoesJoined ==
  ASSUME NEW a, NEW b, NEW s, Safe(a, s), IsSeq(b), \A u : Ends(a, s, u) => Goes(b, u)
  PROVE  Goes(a \o b, s)
  <1>1. IsSeq(a)
    BY DEF Safe
  <1>2. Safe(a \o b, s)
    BY SafeJoined, Zenon DEF Goes
  <1>3. ASSUME NEW t, Ends(a \o b, s, t) PROVE EndsWell(t)
    <2>1. PICK u : Ends(a, s, u) /\ Ends(b, u, t)
      BY <1>1, <1>3, EndsJoined
    <2> QED
      BY <2>1, Zenon DEF Goes
  <1> QED
    BY <1>2, <1>3 DEF Goes

\* stage_rewrite_metadata can be killed or fail at any write, and ends with the
\* operation in the log and the view where it was.
LEMMA StageGoes ==
  ASSUME NEW op, NEW s, Ready(s), AtHome(s), load_epoch_map_raw = s.home.map
  PROVE  /\ Safe(stage_rewrite_metadata(op), s)
         /\ \A t : Ends(stage_rewrite_metadata(op), s, t) =>
                     /\ InLog(t) /\ t.view = s.home.view /\ Last(t.oplog) = op
                     /\ t.result = s.result /\ t.home = s.home
  <1> DEFINE new == Overridden(load_epoch_map_raw, op.map)
             a == persist_epoch_map_raw(new)
             r == persist_epoch_map_raw(load_epoch_map_raw)
             x == Risk("op", op, r)
  <1>1. stage_rewrite_metadata(op) = a \o <<x>>
    BY DEF stage_rewrite_metadata
  <1>2. Mild(a) /\ Mild(r)
    BY PersistMild, Zenon
  <1>3. x.w = "op" /\ x.arg = op /\ x.recover = r
    BY DEF Risk
  <1>4. \A u, t : IsFiles(u.files) /\ Ends(a, u, t) =>
          SameBut(u, t) /\ IsFiles(t.files) /\ RawMap(t.files) = new /\ t.files.staged = {}
    BY PersistEnds
  <1>5. \A u, t : IsFiles(u.files) /\ Ends(r, u, t) =>
          SameBut(u, t) /\ IsFiles(t.files) /\ RawMap(t.files) = s.home.map /\ t.files.staged = {}
    BY PersistEnds
  <1>6. DOMAIN new = DOMAIN s.home.map \cup DOMAIN op.map
    BY DEF Overridden
  <1>7. IsSeq(s.home.oplog) /\ s.oplog = s.home.oplog
    BY DEF Ready, AtHome
  <1> HIDE DEF new
  <1>8. Covers(new, s)
    BY <1>6, <1>7, CoveredAtHome
  <1>9. Safe(a, s)
    BY <1>8, PersistSafe
  <1> HIDE DEF a, r, x
  <1>10. ASSUME NEW u, Ends(a, s, u)
        PROVE  /\ Ready(u) /\ u.view = s.home.view /\ u.oplog = s.home.oplog
               /\ u.result = s.result /\ u.home = s.home
               /\ RawMap(u.files) = new /\ u.files.staged = {} /\ Mapped(u)
    <2>1. SameBut(s, u) /\ IsFiles(u.files) /\ RawMap(u.files) = new /\ u.files.staged = {}
      BY <1>4, <1>10, Zenon DEF Ready
    <2>2. Ready(u) /\ (Covers(new, u) <=> Covers(new, s))
      BY <2>1, ReadyKept
    <2>3. Mapped(u)
      BY <1>8, <2>1, <2>2 DEF Mapped
    <2> QED
      BY <2>1, <2>2, <2>3 DEF SameBut, AtHome
  <1>11. ASSUME NEW u, Ends(a, s, u) PROVE Undoes(x, u)
    <2> DEFINE v == Failed(x, u)
    <2>1. /\ Ready(u) /\ u.view = s.home.view /\ u.oplog = s.home.oplog /\ u.home = s.home
          /\ Mapped(u)
      BY <1>10, <1>11
    <2>2. Guarded(u)
      BY <2>1, ReadyGuarded
    <2>3. Ready(v) /\ v.mishaps # 0 /\ Pending(v)
      BY <1>3, <2>1, FailedReady
    <2>4. Steady(r, v)
      BY <1>2, <2>3, MildSteady
    <2>5. v.view = u.view /\ v.oplog = u.oplog /\ v.home = u.home
      BY <1>3, FailedKeeps
    <2> HIDE DEF v
    <2>6. ASSUME NEW t, Ends(r, v, t) PROVE EndsWell(t)
      <3>1. SameBut(v, t) /\ IsFiles(t.files) /\ RawMap(t.files) = s.home.map /\ t.files.staged = {}
        BY <1>5, <2>3, <2>6, Zenon DEF Ready
      <3>2. Ready(t)
        BY <2>3, <3>1, ReadyKept
      <3>3. AtHome(t)
        BY <2>1, <2>5, <3>1 DEF AtHome, SameBut
      <3> QED
        BY <3>2, <3>3, HomeWell
    <2>7. Mends(r, v)
      BY <1>2, <2>3, <2>4, <2>6, Zenon DEF Mends
    <2>8. ~Forgiven(x) /\ x.w # "fail"
      BY <1>3 DEF Forgiven
    <2> QED
      BY <1>3, <2>2, <2>7, <2>8, Zenon DEF Undoes, v
  <1>12. IsSeq(a) /\ IsSeq(<<x>>)
    BY <1>2, ShortSeqs DEF Mild
  <1>13. \A u : Ends(a, s, u) => Safe(<<x>>, u)
    BY <1>11, SafeShort, Zenon
  <1>14. Safe(a \o <<x>>, s)
    BY <1>9, <1>12, <1>13, SafeJoined
  <1>15. ASSUME NEW t, Ends(a \o <<x>>, s, t)
         PROVE  /\ InLog(t) /\ t.view = s.home.view /\ Last(t.oplog) = op
                /\ t.result = s.result /\ t.home = s.home
    <2>1. PICK u : Ends(a, s, u) /\ Ends(<<x>>, u, t)
      BY <1>12, <1>15, EndsJoined
    <2>2. t = After(x, u)
      BY <2>1, EndsShort, Zenon
    <2>3. /\ Ready(u) /\ u.view = s.home.view /\ u.oplog = s.home.oplog
          /\ u.result = s.result /\ u.home = s.home
          /\ RawMap(u.files) = new /\ u.files.staged = {}
      BY <1>10, <2>1
    <2>4. Logged(x, u.oplog) = Append(u.oplog, op)
      BY <1>3 DEF Logged
    <2>5. Filed(x, u.files) = u.files
      BY <1>3 DEF Filed
    <2>6. /\ t.view = u.view /\ t.oplog = Append(u.oplog, op) /\ t.files = u.files /\ t.ckpt = u.ckpt
          /\ t.result = u.result /\ t.mishaps = u.mishaps /\ t.home = u.home
      BY <1>3, <2>2, <2>4, <2>5 DEF After
    <2>7. Ready(t)
      BY <2>3, <2>6 DEF Ready, Pending, Tidy
    <2> DEFINE last == Last(t.oplog)
    <2>10. last = op
      BY <1>7, <2>3, <2>6, AppendedSeq
    <2>8. Mapped(t)
      <3>2. RawMap(t.files) = new /\ t.home.map = s.home.map
        BY <2>3, <2>6
      <3> QED
        BY <1>6, <2>10, <3>2 DEF Mapped, Covers
    <2>9. InLog(t)
      BY <2>3, <2>6, <2>7, <2>8 DEF InLog
    <2> QED
      BY <2>3, <2>6, <2>9, <2>10
  <1> QED
    BY <1>1, <1>14, <1>15

\* A restack writes its checkpoint between, or nothing is.
IsBetween(ws, home) == ws = <<>> \/ (home.command \in Resumable /\ \E p : ws = <<Do("ckpt", {p})>>)

\* The command clears what it has noted last, or has noted nothing.
IsLast(ws, home) ==
  \/ ws \in {<<>>, <<Do("target", {})>>}
  \/ home.command \in Resumable /\ ws = <<Do("ckpt", {})>>

\* A write of the checkpoint leaves the rest.
LEMMA CheckpointWritten ==
  ASSUME NEW x, x.w = "ckpt", NEW s
  PROVE  After(x, s) = [view |-> s.view, oplog |-> s.oplog, files |-> s.files, ckpt |-> x.arg,
                        result |-> s.result, failed |-> s.failed, mishaps |-> s.mishaps, home |-> s.home]
  <1>1. Logged(x, s.oplog) = s.oplog
    BY DEF Logged
  <1>2. Filed(x, s.files) = s.files
    BY DEF Filed
  <1> QED
    BY <1>1, <1>2 DEF After

\* A checkpoint that cannot be saved or cleared stays, with what is in the log.
LEMMA CheckpointUndoes ==
  ASSUME NEW x, x.w = "ckpt", x.recover = <<>>, NEW s, InLog(s), s.home.command \in Resumable
  PROVE  Undoes(x, s)
  <1> DEFINE u == Failed(x, s)
  <1>1. Guarded(s) /\ s.mishaps \in Nat /\ IsFiles(s.files) /\ s.ckpt # {} /\ IsSeq(s.home.oplog)
    BY ReadyGuarded DEF InLog, Ready, Pending
  <1>2. /\ u.view = s.view /\ u.oplog = s.oplog /\ u.ckpt = s.ckpt /\ u.home = s.home /\ u.failed = "ckpt"
    BY FailedKeeps
  <1> HIDE DEF u
  <1>3. PICK op : s.oplog = Append(s.home.oplog, op) /\ s.view \in {s.home.view, op.after}
    BY DEF InLog
  <1>4. s.oplog # <<>> /\ Front(s.oplog) = s.home.oplog /\ Last(s.oplog) = op
    BY <1>1, <1>3, AppendedSeq
  <1>5. Leaves(u)
    BY <1>1, <1>2, <1>3, <1>4 DEF Leaves
  <1> QED
    BY <1>1, <1>5, DoUndoes DEF u

\* What leaves the files and the log leaves them fit for each other.
LEMMA LogKept ==
  ASSUME NEW s, NEW t, t.oplog = s.oplog, t.files = s.files, t.mishaps = s.mishaps, t.home = s.home
  PROVE  /\ Mapped(s) => Mapped(t)
         /\ Ready(s) /\ Pending(t) => Ready(t)
         /\ InLog(s) /\ Pending(t) /\ t.view = s.view => InLog(t)
  <1>1. Mapped(s) => Mapped(t)
    <2>1. Covers(RawMap(s.files), t) <=> Covers(RawMap(s.files), s)
      BY CoversSame
    <2> QED
      BY <2>1 DEF Mapped
  <1>2. Ready(s) /\ Pending(t) => Ready(t)
    BY DEF Ready, Tidy
  <1> QED
    BY <1>1, <1>2 DEF InLog

\* What the operation in the log needs it keeps when the checkpoint is written.
LEMMA BetweenGoes ==
  ASSUME NEW ws, NEW s, IsBetween(ws, s.home), InLog(s)
  PROVE  /\ Safe(ws, s) /\ IsSeq(ws)
         /\ \A t : Ends(ws, s, t) =>
                     InLog(t) /\ t.view = s.view /\ t.oplog = s.oplog /\ t.result = s.result /\ t.home = s.home
  <1>1. CASE ws = <<>>
    BY <1>1, SafeShort, ShortSeqs, EndsShort
  <1>2. ASSUME NEW p, ws = <<Do("ckpt", {p})>>, s.home.command \in Resumable
        PROVE  /\ Safe(ws, s) /\ IsSeq(ws)
               /\ \A t : Ends(ws, s, t) =>
                           InLog(t) /\ t.view = s.view /\ t.oplog = s.oplog /\ t.result = s.result /\ t.home = s.home
    <2> DEFINE x == Do("ckpt", {p})
    <2>1. x.w = "ckpt" /\ x.arg = {p} /\ x.recover = <<>>
      BY DEF Do, Risk
    <2>2. ws = <<x>>
      BY <1>2
    <2> HIDE DEF x
    <2>3. Undoes(x, s)
      BY <1>2, <2>1, CheckpointUndoes
    <2>4. Safe(ws, s) /\ IsSeq(ws)
      BY <2>2, <2>3, SafeShort, ShortSeqs
    <2>5. ASSUME NEW t, Ends(ws, s, t)
          PROVE  InLog(t) /\ t.view = s.view /\ t.oplog = s.oplog /\ t.result = s.result /\ t.home = s.home
      <3>1. t = After(x, s)
        BY <2>2, <2>5, EndsShort, Zenon
      <3>2. /\ t.view = s.view /\ t.oplog = s.oplog /\ t.files = s.files /\ t.ckpt = {p}
            /\ t.result = s.result /\ t.mishaps = s.mishaps /\ t.home = s.home
        BY <2>1, <3>1, CheckpointWritten
      <3>3. Pending(t)
        BY <3>2 DEF Pending
      <3>4. InLog(t)
        BY <3>2, <3>3, LogKept
      <3> QED
        BY <3>2, <3>4
    <2> QED
      BY <2>4, <2>5
  <1> QED
    BY <1>1, <1>2 DEF IsBetween

\* The last writes of a rewrite that did not fail.
LEMMA LastGoes ==
  ASSUME NEW ws, NEW s, IsLast(ws, s.home), InLog(s), s.result = "ok"
  PROVE  Goes(ws, s) /\ IsSeq(ws)
  <1>1. Mapped(s) /\ Pending(s) /\ Tidy(s)
    BY DEF InLog, Ready
  <1>2. CASE ws = <<>>
    <2>1. EndsWell(s)
      BY <1>1 DEF EndsWell
    <2> QED
      BY <1>2, <2>1, SafeShort, ShortSeqs, EndsShort, Zenon DEF Goes
  <1>3. ASSUME NEW x, x.recover = <<>>, ws = <<x>>,
               Forgiven(x) \/ (x.w = "ckpt" /\ s.home.command \in Resumable)
        PROVE  Goes(ws, s) /\ IsSeq(ws)
    <2>1. Undoes(x, s)
      <3>1. CASE Forgiven(x)
        <4>1. x.w = "target"
          BY <3>1 DEF Forgiven
        <4>2. Guarded(s) /\ s.mishaps \in Nat /\ IsFiles(s.files)
          BY <1>1, ReadyGuarded DEF InLog, Ready
        <4> QED
          BY <1>3, <3>1, <4>1, <4>2, DoUndoes
      <3>2. CASE x.w = "ckpt" /\ s.home.command \in Resumable
        BY <1>3, <3>2, CheckpointUndoes
      <3> QED
        BY <1>3, <3>1, <3>2
    <2>3. x.w \in {"ckpt", "target"}
      BY <1>3 DEF Forgiven
    <2>2. ASSUME NEW t, Ends(ws, s, t) PROVE EndsWell(t)
      <3>1. t = After(x, s)
        BY <1>3, <2>2, EndsShort, Zenon
      <3>2. Logged(x, s.oplog) = s.oplog /\ Filed(x, s.files) = s.files
        BY <2>3 DEF Logged, Filed
      <3>3. /\ t.result = "ok" /\ t.oplog = s.oplog /\ t.files = s.files
            /\ t.mishaps = s.mishaps /\ t.home = s.home
        BY <2>3, <3>1, <3>2 DEF After
      <3>4. Mapped(t) /\ Tidy(t)
        BY <1>1, <3>3, LogKept DEF Tidy
      <3> QED
        BY <3>3, <3>4 DEF EndsWell
    <2> QED
      BY <1>3, <2>1, <2>2, SafeShort, ShortSeqs, Zenon DEF Goes
  <1>4. Do("ckpt", {}).w = "ckpt" /\ Do("ckpt", {}).recover = <<>>
    BY DEF Do, Risk
  <1>5. Forgiven(Do("target", {})) /\ Do("target", {}).recover = <<>>
    BY DEF Do, Risk, Forgiven
  <1> QED
    BY <1>2, <1>3, <1>4, <1>5 DEF IsLast

\* A command that gives up where all is as it was.
LEMMA GivesUp ==
  ASSUME NEW s, AtHome(s), Ready(s)
  PROVE  Goes(<<Fail(<<>>)>>, s)
  <1> DEFINE x == Fail(<<>>)
  <1>1. x.w = "fail" /\ x.recover = <<>>
    BY DEF Fail, Risk
  <1> HIDE DEF x
  <1>2. Undoes(x, s)
    <2>1. Guarded(s)
      BY HomeMapped, ReadyGuarded DEF Ready
    <2>2. EndsWell(GivenUp(s))
      BY GivenUpReady, HomeWell
    <2> QED
      BY <1>1, <2>1, <2>2, MendsShort, Zenon DEF Undoes
  <1>3. ASSUME NEW t, Ends(<<x>>, s, t) PROVE EndsWell(t)
    <2>1. t = After(x, s)
      BY <1>3, EndsShort, Zenon
    <2>2. Logged(x, s.oplog) = s.oplog /\ Filed(x, s.files) = s.files
      BY <1>1 DEF Logged, Filed
    <2>3. /\ t.view = s.view /\ t.oplog = s.oplog /\ t.files = s.files /\ t.ckpt = s.ckpt
          /\ t.mishaps = s.mishaps /\ t.home = s.home
      BY <1>1, <2>1, <2>2 DEF After
    <2>4. AtHome(t)
      BY <2>3 DEF AtHome
    <2>5. Pending(t)
      BY <2>3 DEF Ready, Pending
    <2>6. Ready(t)
      BY <2>3, <2>5, LogKept
    <2> QED
      BY <2>4, <2>6, HomeWell
  <1>4. Goes(<<x>>, s)
    BY <1>2, <1>3, SafeShort, Zenon DEF Goes
  <1> QED
    BY <1>4 DEF x

\* What can be taken back with the view and the metadata, or the metadata alone.
LEMMA BackUndoes ==
  ASSUME NEW s, InLog(s), NEW x, x.w \in {"view", "wd"},
         x.recover = Back(s.home.view, s.home.map)
         \/ (x.recover = rollback_rewrite_metadata(s.home.map) /\ s.view = s.home.view)
  PROVE  Undoes(x, s)
  <1> DEFINE u == Failed(x, s)
  <1>1. /\ InLog(u) /\ Pending(u) /\ u.mishaps # 0 /\ u.view = s.view /\ u.home = s.home
    BY FailedKeeps, FailedReady DEF InLog
  <1>2. Guarded(s)
    BY ReadyGuarded DEF InLog
  <1> HIDE DEF u
  <1>3. Mild(x.recover)
    BY BackMild, RollbackMild
  <1>4. Steady(x.recover, u)
    BY <1>1, <1>3, MildSteady
  <1>5. ASSUME NEW t, Ends(x.recover, u, t) PROVE EndsWell(t)
    <2>1. CASE x.recover = Back(s.home.view, s.home.map)
      <3>1. Ends(Back(u.home.view, u.home.map), u, t)
        BY <1>1, <1>5, <2>1
      <3>2. AtHome(t) /\ Ready(t)
        BY <1>1, <3>1, BackEnds
      <3> QED
        BY <3>2, HomeWell
    <2>2. CASE x.recover = rollback_rewrite_metadata(s.home.map) /\ s.view = s.home.view
      <3>1. Ends(rollback_rewrite_metadata(u.home.map), u, t)
        BY <1>1, <1>5, <2>2
      <3>2. /\ Ready(t) /\ t.oplog = t.home.oplog /\ RawMap(t.files) = t.home.map
            /\ t.view = u.view /\ t.home = u.home
        BY <1>1, <3>1, RollbackEnds
      <3>3. AtHome(t)
        BY <1>1, <2>2, <3>2 DEF AtHome
      <3> QED
        BY <3>2, <3>3, HomeWell
    <2> QED
      BY <2>1, <2>2
  <1>6. Mends(x.recover, u)
    BY <1>1, <1>3, <1>4, <1>5, Zenon DEF Mends
  <1>7. x.w # "fail" /\ ~Forgiven(x)
    BY DEF Forgiven
  <1> QED
    BY <1>2, <1>6, <1>7, Zenon DEF Undoes, u

\* A command that finds it cannot read what it needs takes all back.
LEMMA BackGivesUp ==
  ASSUME NEW s, InLog(s), s.result = "ok"
  PROVE  Goes(<<Fail(Back(s.home.view, s.home.map))>>, s)
  <1> DEFINE r == Back(s.home.view, s.home.map)
             x == Fail(r)
             u == GivenUp(s)
  <1>1. x.w = "fail" /\ x.recover = r
    BY DEF Fail, Risk
  <1>2. InLog(u) /\ Pending(u) /\ u.home = s.home
    BY GivenUpReady DEF InLog
  <1>3. Mild(r) /\ Steady(r, u) /\ \A t : Ends(r, u, t) => AtHome(t) /\ Ready(t)
    <2>1. /\ Steady(Back(u.home.view, u.home.map), u)
          /\ \A t : Ends(Back(u.home.view, u.home.map), u, t) => AtHome(t) /\ Ready(t)
      BY <1>2, BackEnds
    <2> QED
      BY <1>2, <2>1, BackMild
  <1> HIDE DEF x, u, r
  <1>4. Mends(r, u)
    BY <1>2, <1>3, HomeWell, Zenon DEF Mends
  <1>5. Undoes(x, s)
    <2>1. Guarded(s)
      BY ReadyGuarded DEF InLog
    <2>2. ~Forgiven(x)
      BY <1>1 DEF Forgiven
    <2> QED
      BY <1>1, <1>4, <2>1, <2>2, Zenon DEF Undoes, u
  <1>6. ASSUME NEW t, Ends(<<x>>, s, t) PROVE EndsWell(t)
    <2>1. t = After(x, s)
      BY <1>6, EndsShort, Zenon
    <2>2. Logged(x, s.oplog) = s.oplog /\ Filed(x, s.files) = s.files
      BY <1>1 DEF Logged, Filed
    <2>3. /\ t.view = s.view /\ t.oplog = s.oplog /\ t.files = s.files /\ t.ckpt = s.ckpt
          /\ t.mishaps = s.mishaps /\ t.home = s.home /\ t.result = s.result
      BY <1>1, <2>1, <2>2 DEF After
    <2>4. Mapped(t) /\ Tidy(t)
      BY <2>3, LogKept DEF InLog, Ready, Tidy
    <2> QED
      BY <2>3, <2>4 DEF EndsWell
  <1> QED
    BY <1>5, <1>6, SafeShort, Zenon DEF Goes, x, r

\* A rewrite goes well: killed anywhere, with any one of its writes failing, or to its end.
LEMMA RewritingGoes ==
  ASSUME NEW op, NEW between, NEW tree, NEW last,
         NEW s, IsBetween(between, s.home), IsLast(last, s.home), Ready(s), AtHome(s), s.result = "ok",
         load_epoch_map_raw = s.home.map, view = s.home.view
  PROVE  Goes(Rewriting(op, between, tree, last), s) /\ IsSeq(Rewriting(op, between, tree, last))
  <1> DEFINE stage == stage_rewrite_metadata(op)
             back == Back(view, load_epoch_map_raw)
             x == Risk("view", op.after, rollback_rewrite_metadata(load_epoch_map_raw))
             y == Risk("wd", CHOOSE t \in tree : TRUE, back)
             fail == <<Fail(back)>>
             done == <<y>> \o last
             a == stage \o between
             b == a \o <<x>>
             rest == IF tree = {} THEN fail ELSE done
             Fine(t) == /\ InLog(t) /\ t.view = s.home.view /\ Last(t.oplog) = op
                        /\ t.result = "ok" /\ t.home = s.home
  <1>1. Rewriting(op, between, tree, last) = b \o rest
    BY DEF Rewriting, Back
  <1>2. Safe(stage, s) /\ \A t : Ends(stage, s, t) => Fine(t)
    BY StageGoes
  <1>3. x.w = "view" /\ x.arg = op.after /\ x.recover = rollback_rewrite_metadata(s.home.map)
    BY DEF Risk
  <1>4. y.w = "wd" /\ y.recover = Back(s.home.view, s.home.map)
    BY DEF Risk
  <1>6. back = Back(s.home.view, s.home.map)
    BY Zenon
  <1> HIDE DEF stage, back, x, y
  <1>7. IsSeq(stage) /\ IsSeq(between)
    BY <1>2, ShortSeqs DEF Safe, IsBetween
  <1>8. IsSeq(a) /\ IsSeq(<<x>>)
    BY <1>7, JoinedSeq, ShortSeqs
  <1>9. Safe(a, s) /\ \A t : Ends(a, s, t) => Fine(t)
    <2>1. \A t : Fine(t) => Safe(between, t)
      BY BetweenGoes
    <2>2. Safe(a, s)
      <3> HIDE DEF Fine
      <3> QED
        BY <1>2, <1>7, <2>1, SafeJoined
    <2>3. ASSUME NEW t, Ends(a, s, t) PROVE Fine(t)
      <3>1. PICK u : Ends(stage, s, u) /\ Ends(between, u, t)
        BY <1>7, <2>3, EndsJoined
      <3>2. Fine(u)
        BY <1>2, <3>1
      <3> QED
        BY <3>1, <3>2, BetweenGoes
    <2> QED
      BY <2>2, <2>3
  <1>10. Safe(b, s)
    <2>1. ASSUME NEW t, Fine(t) PROVE Undoes(x, t)
      <3>1. x.recover = rollback_rewrite_metadata(t.home.map) /\ t.view = t.home.view
        BY <1>3, <2>1
      <3> QED
        BY <1>3, <2>1, <3>1, BackUndoes
    <2>2. \A t : Ends(a, s, t) => Safe(<<x>>, t)
      <3> HIDE DEF Fine, a
      <3> QED
        BY <1>9, <2>1, SafeShort, Zenon
    <2> HIDE DEF a
    <2> QED
      BY <1>8, <1>9, <2>2, SafeJoined
  <1> DEFINE Moved(t) == InLog(t) /\ t.result = "ok" /\ t.home = s.home
  <1>11. ASSUME NEW t, Ends(b, s, t) PROVE Moved(t)
    <2>1. PICK u : Ends(a, s, u) /\ Ends(<<x>>, u, t)
      <3> HIDE DEF a
      <3> QED
        BY <1>8, <1>11, EndsJoined
    <2>2. Fine(u)
      BY <1>9, <2>1
    <2>3. t = After(x, u)
      BY <2>1, EndsShort, Zenon
    <2>4. t.result = u.result /\ t.home = u.home
      BY <1>3, <2>3, ViewWritten
    <2>5. InLog(t)
      BY <1>3, <2>2, <2>3, ViewBack
    <2> QED
      BY <2>2, <2>4, <2>5
  <1>12. ASSUME NEW t, Moved(t) PROVE Goes(fail, t)
    BY <1>6, <1>12, BackGivesUp
  <1>13. ASSUME NEW t, Moved(t) PROVE Goes(done, t) /\ IsSeq(last)
    <2>2. Undoes(y, t)
      BY <1>4, <1>13, BackUndoes
    <2>3. Safe(<<y>>, t)
      BY <2>2, SafeShort, Zenon
    <2>4. ASSUME NEW u, Ends(<<y>>, t, u) PROVE InLog(u) /\ u.result = "ok" /\ u.home = s.home
      <3>1. u = After(y, t)
        BY <2>4, EndsShort, Zenon
      <3>2. Filed(y, t.files) = t.files
        BY <1>4 DEF Filed
      <3>3. Logged(y, t.oplog) = t.oplog
        BY <1>4 DEF Logged
      <3>4. /\ u.view = t.view /\ u.files = t.files /\ u.oplog = t.oplog /\ u.ckpt = t.ckpt /\ u.result = t.result
            /\ u.mishaps = t.mishaps /\ u.home = t.home
        BY <1>4, <3>1, <3>2, <3>3 DEF After
      <3>5. Pending(u)
        BY <1>13, <3>4 DEF InLog, Ready, Pending
      <3> QED
        BY <1>13, <3>4, <3>5, LogKept
    <2>5. \A u : Ends(<<y>>, t, u) => Goes(last, u)
      BY <2>4, LastGoes
    <2>6. IsSeq(last)
      BY ShortSeqs DEF IsLast
    <2> QED
      BY <2>3, <2>5, <2>6, GoesJoined
  <1>14. IsSeq(fail) /\ IsSeq(done)
    <2>2. IsSeq(last)
      BY ShortSeqs DEF IsLast
    <2> QED
      BY <2>2, ShortSeqs, JoinedSeq
  <1>15. IsSeq(rest) /\ IsSeq(b)
    <2> HIDE DEF fail, done
    <2>1. IsSeq(rest)
      BY <1>14
    <2>2. IsSeq(b)
      BY <1>10 DEF Safe
    <2> QED
      BY <2>1, <2>2
  <1>16. \A t : Ends(b, s, t) => Goes(rest, t)
    <2> HIDE DEF b, fail, done, Moved
    <2> QED
      BY <1>11, <1>12, <1>13
  <1>17. Goes(b \o rest, s) /\ IsSeq(b \o rest)
    <2> HIDE DEF b, rest
    <2> QED
      BY <1>10, <1>15, <1>16, GoesJoined, JoinedSeq
  <1> QED
    BY <1>1, <1>17

-----------------------------------------------------------------------------
(* The commands that do not rewrite.                                         *)

\* Writes that touch neither the log nor the epoch map; and such writes, with
\* such mild writes to recover.
Quiet(ws) == IsSeq(ws) /\ \A n \in 1..Len(ws) : ws[n].w \in {"view", "wd", "target", "ckpt", "fail"}
Simple(ws) ==
  /\ Quiet(ws)
  /\ \A n \in 1..Len(ws) :
       /\ Mild(ws[n].recover) /\ Quiet(ws[n].recover)
       /\ Forgiven(ws[n]) => ws[n].recover = <<>>

\* What quiet writes leave: the log, the epoch map, the command and the mishaps.
Untouched(s, t) == t.home = s.home /\ t.oplog = s.oplog /\ t.files = s.files /\ t.mishaps = s.mishaps

\* Quiet writes leave it, however many are made.
LEMMA QuietKeeps ==
  ASSUME NEW ws, Quiet(ws), NEW s
  PROVE  \A m \in 0..Len(ws) : \A t : Leads(m, ws, s, t) => Untouched(s, t)
  <1> DEFINE S == {m \in Nat : \A t : Leads(m, ws, s, t) => Untouched(s, t)}
  <1>1. 0 \in S
    <2>1. \A t : Leads(0, ws, s, t) => t = s
      BY LeadsNowhere, Zenon
    <2> QED
      BY <2>1 DEF Untouched
  <1>2. ASSUME NEW n \in 1..Len(ws), n - 1 \in S PROVE n \in S
    <2> DEFINE k == n - 1
    <2>1. n \in Nat /\ k \in Nat /\ k + 1 = n /\ \A t : Leads(k, ws, s, t) => Untouched(s, t)
      BY <1>2
    <2> HIDE DEF k
    <2>2. ASSUME NEW t, Leads(n, ws, s, t) PROVE Untouched(s, t)
      <3>1. Leads(k + 1, ws, s, t)
        BY <2>1, <2>2, Zenon
      <3>2. PICK u : Leads(k, ws, s, u) /\ t = After(ws[k + 1], u)
        BY <2>1, <3>1, LeadsLast
      <3>3. Untouched(s, u)
        BY <2>1, <3>2, Zenon
      <3> DEFINE x == ws[k + 1]
      <3>4. x.w \in {"view", "wd", "target", "ckpt", "fail"}
        BY <1>2, <2>1 DEF Quiet
      <3> HIDE DEF x
      <3>5. Logged(x, u.oplog) = u.oplog /\ Filed(x, u.files) = u.files
        BY <3>4 DEF Logged, Filed
      <3>6. t = After(x, u)
        BY <3>2 DEF x
      <3>7. Untouched(u, t)
        BY <3>5, <3>6 DEF After, Untouched
      <3> QED
        BY <3>3, <3>7 DEF Untouched
    <2> QED
      BY <2>1, <2>2
  <1>3. Len(ws) \in Nat
    <2>1. ws \in Seq({ws[i] : i \in DOMAIN ws})
      BY DEF Quiet, IsSeq
    <2> QED
      BY <2>1
  <1> HIDE DEF S
  <1>4. 0..Len(ws) \subseteq S
    BY <1>1, <1>2, <1>3, UpToInduction
  <1> QED
    BY <1>4 DEF S

\* They may be killed anywhere, where a command that does not rewrite may be, and end.
LEMMA QuietGoes ==
  ASSUME NEW ws, Quiet(ws), NEW s, s.home.command \notin Rewriters, Mapped(s)
  PROVE  /\ \A n \in 1..Len(ws) : \A t : Leads(n - 1, ws, s, t) => Guarded(t) /\ Untouched(s, t)
         /\ \A t : Ends(ws, s, t) => (Tidy(s) => EndsWell(t))
  <1>1. ASSUME NEW t, Untouched(s, t) PROVE Guarded(t) /\ (Tidy(s) => EndsWell(t))
    <2>1. Mapped(t)
      BY <1>1, LogKept DEF Untouched
    <2>2. t.home.command \notin Rewriters /\ t.home.command \notin Resumable
      BY <1>1 DEF Untouched, Rewriters, Resumable
    <2>3. Tidy(s) => Tidy(t)
      BY <1>1 DEF Untouched, Tidy
    <2> QED
      BY <2>1, <2>2, <2>3, Zenon DEF Guarded, EndsWell
  <1>2. \A m \in 0..Len(ws) : \A t : Leads(m, ws, s, t) => Untouched(s, t)
    BY QuietKeeps
  <1>3. Len(ws) \in Nat
    <2>1. ws \in Seq({ws[i] : i \in DOMAIN ws})
      BY DEF Quiet, IsSeq
    <2> QED
      BY <2>1
  <1>4. Len(ws) \in 0..Len(ws) /\ \A n \in 1..Len(ws) : n - 1 \in 0..Len(ws)
    BY <1>3
  <1>5. ASSUME NEW n \in 1..Len(ws), NEW t, Leads(n - 1, ws, s, t) PROVE Guarded(t) /\ Untouched(s, t)
    <2>1. Untouched(s, t)
      BY <1>2, <1>4, <1>5, Zenon
    <2> QED
      BY <1>1, <2>1
  <1>6. ASSUME NEW t, Ends(ws, s, t) PROVE Tidy(s) => EndsWell(t)
    <2>1. Untouched(s, t)
      BY <1>2, <1>4, <1>6, Zenon DEF Ends
    <2> QED
      BY <1>1, <2>1
  <1> QED
    BY <1>5, <1>6

\* A command that does not rewrite may be killed or fail anywhere.
LEMMA OthersGo ==
  ASSUME NEW ws, Simple(ws), NEW s, s.home.command \notin Rewriters, Mapped(s), Tidy(s), s.mishaps \in Nat
  PROVE  Goes(ws, s) /\ IsSeq(ws)
  <1>1. Quiet(ws) /\ IsSeq(ws)
    BY Zenon DEF Simple, Quiet
  <1>2. /\ \A n \in 1..Len(ws) : \A t : Leads(n - 1, ws, s, t) => Guarded(t) /\ Untouched(s, t)
        /\ \A t : Ends(ws, s, t) => (Tidy(s) => EndsWell(t))
    BY <1>1, QuietGoes
  <1>5. ASSUME NEW r, Mild(r), Quiet(r), NEW u, u.home = s.home, u.oplog = s.oplog, u.files = s.files,
               u.mishaps \in {s.mishaps, s.mishaps + 1}
        PROVE  Mends(r, u)
    <2>1. u.home.command \notin Rewriters /\ Pending(u)
      BY <1>5 DEF Pending, Rewriters, Resumable
    <2>2. Tidy(u)
      BY <1>5 DEF Tidy
    <2>3. Mapped(u)
      <3>1. Covers(RawMap(s.files), u) <=> Covers(RawMap(s.files), s)
        BY <1>5, CoversSame
      <3> QED
        BY <1>5, <3>1 DEF Mapped
    <2>4. /\ \A i \in 1..Len(r) : \A v : Leads(i - 1, r, u, v) => Guarded(v)
          /\ \A v : Ends(r, u, v) => EndsWell(v)
      BY <1>5, <2>1, <2>2, <2>3, QuietGoes
    <2> QED
      BY <1>5, <2>1, <2>4, Zenon DEF Mends, Steady, Mild
  <1>3. ASSUME NEW n \in 1..Len(ws), NEW t, Leads(n - 1, ws, s, t)
        PROVE  Undoes(ws[n], t)
    <2> DEFINE x == ws[n]
    <2>1. Guarded(t) /\ Untouched(s, t)
      BY <1>2, <1>3, Zenon
    <2>2. Mild(x.recover) /\ Quiet(x.recover) /\ (Forgiven(x) => x.recover = <<>>)
      BY Zenon DEF Simple
    <2>3. x.w \in {"view", "wd", "target", "ckpt", "fail"}
      BY <1>1, Zenon DEF Quiet
    <2> HIDE DEF x
    <2>4. Mends(x.recover, GivenUp(t))
      <3> DEFINE u == GivenUp(t)
      <3>1. u.home = s.home /\ u.oplog = s.oplog /\ u.files = s.files /\ u.mishaps = s.mishaps
        BY <2>1 DEF GivenUp, Untouched
      <3> HIDE DEF u
      <3>2. Mends(x.recover, u)
        BY <1>5, <2>2, <3>1
      <3> QED
        BY <3>2 DEF u
    <2>5. Mends(x.recover, Failed(x, t))
      <3> DEFINE u == Failed(x, t)
      <3>1. u.home = s.home /\ u.oplog = s.oplog /\ u.files = s.files /\ u.mishaps = s.mishaps + 1
        BY <2>1, <2>3 DEF Failed, PutBack, Untouched
      <3> HIDE DEF u
      <3>2. Mends(x.recover, u)
        BY <1>5, <2>2, <3>1
      <3> QED
        BY <3>2 DEF u
    <2>6. Undoes(x, t)
      BY <2>1, <2>2, <2>4, <2>5, Zenon DEF Undoes
    <2> QED
      BY <2>6 DEF x
  <1>4. Safe(ws, s)
    BY <1>1, <1>3, Zenon DEF Safe
  <1> QED
    BY <1>1, <1>2, <1>4, Zenon DEF Goes

\* One write is simple, with a recovery of two or none.
LEMMA SimpleShort ==
  /\ \A w, x : w \in {"view", "wd", "target", "ckpt"} => Simple(<<Do(w, x)>>)
  /\ Simple(<<Fail(<<>>)>>)
  /\ \A x, v, t : Simple(<<Risk("wd", x, <<Do("view", v), Do("wd", t)>>)>>)
  <1>1. ASSUME NEW y, y.w \in {"view", "wd", "target", "ckpt", "fail"}, Forgiven(y) => y.recover = <<>>,
               Mild(y.recover), Quiet(y.recover)
        PROVE  Simple(<<y>>)
    <2>1. Len(<<y>>) = 1 /\ <<y>>[1] = y
      OBVIOUS
    <2>2. \A n \in 1..Len(<<y>>) : <<y>>[n] = y
      BY <2>1
    <2>3. Quiet(<<y>>)
      BY <1>1, <2>2, ShortSeqs, Zenon DEF Quiet
    <2> QED
      BY <1>1, <2>2, <2>3, Zenon DEF Simple
  <1>2. Mild(<<>>) /\ Quiet(<<>>)
    <2>1. 1..Len(<<>>) = {}
      OBVIOUS
    <2> QED
      BY <2>1, ShortSeqs, Zenon DEF Mild, Quiet
  <1>3. ASSUME NEW w \in {"view", "wd", "target", "ckpt"}, NEW x PROVE Simple(<<Do(w, x)>>)
    <2> DEFINE y == Do(w, x)
    <2>1. y.w \in {"view", "wd", "target", "ckpt", "fail"} /\ y.recover = <<>>
      BY DEF Do, Risk
    <2> HIDE DEF y
    <2>2. Simple(<<y>>)
      BY <1>1, <1>2, <2>1
    <2> QED
      BY <2>2 DEF y
  <1>4. Simple(<<Fail(<<>>)>>)
    <2> DEFINE y == Fail(<<>>)
    <2>1. y.w \in {"view", "wd", "target", "ckpt", "fail"} /\ y.recover = <<>>
      BY DEF Fail, Risk
    <2> HIDE DEF y
    <2>2. Simple(<<y>>)
      BY <1>1, <1>2, <2>1
    <2> QED
      BY <2>2 DEF y
  <1>5. ASSUME NEW x, NEW v, NEW t PROVE Simple(<<Risk("wd", x, <<Do("view", v), Do("wd", t)>>)>>)
    <2> DEFINE r == <<Do("view", v), Do("wd", t)>>
               y == Risk("wd", x, r)
    <2>1. r \in Seq({Do("view", v), Do("wd", t)}) /\ Len(r) = 2 /\ r[1] = Do("view", v) /\ r[2] = Do("wd", t)
      OBVIOUS
    <2>2. \A i \in 1..Len(r) : r[i].w \in {"view", "wd"}
      <3> HIDE DEF r
      <3> QED
        BY <2>1 DEF Do, Risk
    <2>3. y.w = "wd" /\ y.recover = r
      BY DEF Risk
    <2> HIDE DEF r, y
    <2>4. Quiet(r) /\ Mild(r)
      BY <2>1, <2>2, SeqIsSeq DEF Quiet, Mild
    <2>5. ~Forgiven(y)
      BY <2>3 DEF Forgiven
    <2>6. Simple(<<y>>)
      BY <1>1, <2>3, <2>4, <2>5
    <2> QED
      BY <2>6 DEF y, r
  <1> QED
    BY <1>3, <1>4, <1>5

\* Simple writes after simple writes.
LEMMA SimpleJoined == ASSUME NEW a, NEW b, Simple(a), Simple(b) PROVE Simple(a \o b)
  <1> DEFINE Fine(x) ==
        /\ x.w \in {"view", "wd", "target", "ckpt", "fail"}
        /\ Mild(x.recover) /\ Quiet(x.recover) /\ (Forgiven(x) => x.recover = <<>>)
  <1>1. IsSeq(a) /\ IsSeq(b)
    BY DEF Simple, Quiet
  <1>2. (\A n \in 1..Len(a) : Fine(a[n])) /\ (\A n \in 1..Len(b) : Fine(b[n]))
    BY Zenon DEF Simple, Quiet
  <1> HIDE DEF Fine
  <1>9. FromEither(a, b)
    BY <1>1, JoinedElements, Zenon
  <1>3. ASSUME NEW n \in 1..Len(a \o b) PROVE Fine((a \o b)[n])
    <2>1. (\E j \in 1..Len(a) : (a \o b)[n] = a[j]) \/ (\E j \in 1..Len(b) : (a \o b)[n] = b[j])
      BY <1>9, Zenon DEF FromEither
    <2> QED
      BY <1>2, <2>1, Zenon
  <1>4. IsSeq(a \o b)
    BY <1>1, JoinedSeq
  <1> QED
    BY <1>3, <1>4, Zenon DEF Simple, Quiet, Fine

\* Two writes are one after the other.
LEMMA TwoWrites == \A x, y : <<x, y>> = <<x>> \o <<y>>
  <1>1. ASSUME NEW S, NEW a \in Seq(S), NEW b \in Seq(S), NEW d \in Seq(S), Len(a) = 1, Len(b) = 1,
               Len(d) = 2, d[1] = a[1], d[2] = b[1]
        PROVE  d = a \o b
    <2>1. a \o b \in Seq(S) /\ Len(a \o b) = 2
      BY <1>1
    <2>2. IsSeq(a) /\ IsSeq(b)
      BY <1>1, SeqIsSeq
    <2>3. /\ \A i \in 1..Len(a) : (a \o b)[i] = a[i]
          /\ \A i \in 1..Len(b) : (a \o b)[i + Len(a)] = b[i]
      BY <2>2, JoinedSeq
    <2>4. 1 \in 1..Len(a) /\ 1 \in 1..Len(b) /\ 1 + Len(a) = 2
      BY <1>1
    <2>5. (a \o b)[1] = a[1] /\ (a \o b)[1 + Len(a)] = b[1]
      BY <2>3, <2>4, Zenon
    <2> QED
      BY <1>1, <2>1, <2>4, <2>5
  <1> SUFFICES ASSUME NEW x, NEW y PROVE <<x, y>> = <<x>> \o <<y>>
    OBVIOUS
  <1> DEFINE S == {x, y}
             a == <<x>>
             b == <<y>>
             d == <<x, y>>
  <1>2. a \in Seq(S) /\ b \in Seq(S) /\ Len(a) = 1 /\ Len(b) = 1 /\ a[1] = x /\ b[1] = y
    OBVIOUS
  <1>3. d \in Seq(S) /\ Len(d) = 2 /\ d[1] = x /\ d[2] = y
    OBVIOUS
  <1> HIDE DEF a, b, d, S
  <1>4. d = a \o b
    BY <1>1, <1>2, <1>3
  <1> QED
    BY <1>4 DEF a, b, d

-----------------------------------------------------------------------------
(* The inductive invariant of the rewrites.                                  *)

\* What the running command has left to write may be killed at any write and ends
\* well; so does what is left of a recovery; and a killed restack was guarded.
\* WhatFailureLeaves says nothing of a command that still runs: this says what its
\* writes will come to.
RewriteIInv ==
  /\ IsSeq(oplog) /\ IsFiles(files) /\ kills \in Nat /\ faults \in Nat
  /\ was = [command |-> was.command, result |-> was.result, failed |-> was.failed,
            view |-> was.view, oplog |-> was.oplog, map |-> was.map]
  /\ was.result = "ok" => Goes(todo, Here)
  /\ was.result # "ok" => Mends(todo, Here)
  /\ was.result = "killed" => todo = <<>> /\ Guarded(Here)

\* Where nothing runs, what ran has ended well.
LEMMA EndedWell == RewriteIInv /\ todo = <<>> => EndsWell(Here)
  <1> SUFFICES ASSUME RewriteIInv, todo = <<>> PROVE EndsWell(Here)
    OBVIOUS
  <1>1. CASE was.result = "ok"
    <2>1. Goes(<<>>, Here)
      BY <1>1 DEF RewriteIInv
    <2> QED
      BY <2>1, EndsShort, Zenon DEF Goes
  <1>2. CASE was.result # "ok"
    <2>1. Mends(<<>>, Here)
      BY <1>2 DEF RewriteIInv
    <2> QED
      BY <2>1, MendsShort
  <1> QED
    BY <1>1, <1>2

\* A command as it begins.
Begun(command) ==
  [view |-> view, oplog |-> oplog, files |-> files, ckpt |-> ckpt, result |-> "ok",
   failed |-> "", mishaps |-> kills + faults,
   home |-> [command |-> command, view |-> view, oplog |-> oplog, map |-> load_epoch_map_raw]]

\* It finds all as it is.
LEMMA BegunAtHome ==
  ASSUME NEW command
  PROVE  /\ AtHome(Begun(command)) /\ Begun(command).result = "ok"
         /\ Begun(command).home.view = view /\ Begun(command).home.map = load_epoch_map_raw
         /\ Begun(command).home.command = command /\ Begun(command).home.oplog = oplog
         /\ Begun(command).files = files /\ Begun(command).mishaps = kills + faults
  BY DEF Begun, AtHome, load_epoch_map_raw

\* A command that begins has a log and an epoch map that are fit for each other.
LEMMA BegunMapped ==
  ASSUME RewriteIInv, todo = <<>>, NEW command
  PROVE  /\ Mapped(Begun(command)) /\ Tidy(Begun(command)) /\ Begun(command).mishaps \in Nat
         /\ Pending(Begun(command)) => Ready(Begun(command))
  <1>1. /\ IsFiles(files) /\ IsSeq(oplog) /\ kills + faults \in Nat
    BY DEF RewriteIInv
  <1>2. EndsWell(Here)
    BY EndedWell
  <1>3. Tidy(Begun(command)) /\ Begun(command).mishaps \in Nat
    BY <1>1, <1>2, BegunAtHome DEF EndsWell, Tidy, Here
  <1>4. Mapped(Begun(command))
    BY <1>1, BegunAtHome, HomeMapped
  <1> QED
    BY <1>1, <1>3, <1>4, BegunAtHome DEF Ready

\* A command whose plan goes well keeps the invariant.
LEMMA BeginStep ==
  ASSUME RewriteIInv, NEW command, NEW plan, Begin(command, plan), Goes(plan, Begun(command))
  PROVE  RewriteIInv'
  <1>1. /\ todo' = plan /\ view' = view /\ files' = files /\ oplog' = oplog /\ ckpt' = ckpt
        /\ kills' = kills /\ faults' = faults
        /\ was' = [command |-> command, result |-> "ok", failed |-> "", view |-> view, oplog |-> oplog,
                   map |-> load_epoch_map_raw]
    BY DEF Begin, stored
  <1>2. Here' = Begun(command)
    BY <1>1 DEF Here, Begun
  <1>3. IsSeq(oplog') /\ IsFiles(files') /\ kills' \in Nat /\ faults' \in Nat
    BY <1>1 DEF RewriteIInv
  <1>4. was'.result = "ok"
    BY <1>1
  <1>5. was' = [command |-> was'.command, result |-> was'.result, failed |-> was'.failed,
                view |-> was'.view, oplog |-> was'.oplog, map |-> was'.map]
    BY <1>1
  <1>6. Goes(todo', Here')
    BY <1>1, <1>2, Zenon
  <1> QED
    BY <1>3, <1>4, <1>5, <1>6, Zenon DEF RewriteIInv

\* A rewrite that has no checkpoint is ready from the start.
LEMMA RewriteBegins ==
  ASSUME RewriteIInv, NEW command \in {"squash", "reorder", "diffedit"}, NEW op, NEW tree,
         NEW last, last \in {<<>>, <<Do("target", {})>>}, Begin(command, Rewriting(op, <<>>, tree, last))
  PROVE  RewriteIInv'
  <1> DEFINE s == Begun(command)
  <1>1. /\ AtHome(s) /\ s.result = "ok" /\ s.home.view = view /\ s.home.map = load_epoch_map_raw
        /\ s.home.command = command /\ s.home.oplog = oplog /\ s.files = files
    BY BegunAtHome
  <1>2. Pending(s) => Ready(s)
    BY BegunMapped DEF Begin, Free
  <1> HIDE DEF s
  <1>3. IsBetween(<<>>, s.home) /\ IsLast(last, s.home) /\ Ready(s)
    BY <1>1, <1>2 DEF IsBetween, IsLast, Pending, Resumable
  <1>4. Goes(Rewriting(op, <<>>, tree, last), s)
    BY <1>1, <1>3, RewritingGoes
  <1> QED
    BY <1>4, BeginStep DEF s

\* A restack saves its checkpoint first; it may have to give up after that.
LEMMA RestackBegins ==
  ASSUME RewriteIInv, NEW command \in Resumable, NEW pending, NEW plan,
         Begin(command, <<Do("ckpt", {pending})>> \o plan),
         \/ plan = <<Fail(<<>>)>>
         \/ \E op, p, tree : plan = Rewriting(op, <<Do("ckpt", {p})>>, tree, <<Do("ckpt", {})>>)
  PROVE  RewriteIInv'
  <1> DEFINE s == Begun(command)
             x == Do("ckpt", {pending})
  <1>1. /\ AtHome(s) /\ s.result = "ok" /\ s.home.view = view /\ s.home.map = load_epoch_map_raw
        /\ s.home.command = command /\ s.home.oplog = oplog /\ s.files = files
    BY BegunAtHome
  <1>2. x.w = "ckpt" /\ x.arg = {pending} /\ x.recover = <<>>
    BY DEF Do, Risk
  <1>3. Mapped(s) /\ Tidy(s) /\ s.mishaps \in Nat /\ IsFiles(files) /\ IsSeq(oplog)
    BY BegunMapped DEF Begin, Free, RewriteIInv
  <1> HIDE DEF s, x
  <1>4. Safe(<<x>>, s)
    <2>1. Undoes(x, s)
      <3>1. Guarded(s)
        BY <1>1, <1>3 DEF Guarded
      <3>2. AtHome(Failed(x, s))
        BY <1>1, <1>2, FailedKeeps DEF AtHome
      <3> QED
        BY <1>1, <1>2, <1>3, <3>1, <3>2, DoUndoes DEF Leaves
    <2> QED
      BY <2>1, SafeShort, Zenon
  <1>5. ASSUME NEW t, Ends(<<x>>, s, t)
        PROVE  /\ AtHome(t) /\ Ready(t) /\ t.result = "ok"
               /\ load_epoch_map_raw = t.home.map /\ view = t.home.view /\ t.home.command \in Resumable
    <2>1. t = After(x, s)
      BY <1>5, EndsShort, Zenon
    <2>2. /\ t.view = s.view /\ t.oplog = s.oplog /\ t.files = s.files /\ t.ckpt = {pending}
          /\ t.result = s.result /\ t.mishaps = s.mishaps /\ t.home = s.home
      BY <1>2, <2>1, CheckpointWritten
    <2> QED
      BY <1>1, <1>3, <2>2 DEF AtHome, Ready, Pending, Tidy
  <1>6. IsSeq(plan) /\ \A t : Ends(<<x>>, s, t) => Goes(plan, t)
    <2>1. CASE plan = <<Fail(<<>>)>>
      BY <1>5, <2>1, GivesUp, ShortSeqs
    <2>2. ASSUME NEW op, NEW p, NEW tree,
                 plan = Rewriting(op, <<Do("ckpt", {p})>>, tree, <<Do("ckpt", {})>>)
          PROVE  IsSeq(plan) /\ \A t : Ends(<<x>>, s, t) => Goes(plan, t)
      <3> DEFINE between == <<Do("ckpt", {p})>>
                 last == <<Do("ckpt", {})>>
      <3>1. \A home : home.command \in Resumable => IsBetween(between, home) /\ IsLast(last, home)
        BY Zenon DEF IsBetween, IsLast
      <3> HIDE DEF between, last
      <3>2. \A t : Ends(<<x>>, s, t) =>
                     Goes(Rewriting(op, between, tree, last), t) /\ IsSeq(Rewriting(op, between, tree, last))
        BY <1>5, <3>1, RewritingGoes
      <3>3. \A t : Ends(<<x>>, s, t) => Goes(plan, t) /\ IsSeq(plan)
        BY <2>2, <3>2, Zenon DEF between, last
      <3>4. \E t : Ends(<<x>>, s, t)
        <4> DEFINE f == [n \in 0..1 |-> IF n = 0 THEN s ELSE After(x, s)]
        <4>1. f[0] = s /\ f[1] = After(x, s) /\ <<x>>[1] = x /\ Len(<<x>>) = 1
          OBVIOUS
        <4> HIDE DEF f
        <4>2. IsTrace(f, 1, <<x>>, s)
          BY <4>1 DEF IsTrace
        <4>3. Leads(Len(<<x>>), <<x>>, s, f[1])
          BY <4>1, <4>2, Zenon DEF Leads
        <4> QED
          BY <4>3 DEF Ends
      <3> QED
        BY <3>3, <3>4, Zenon
    <2> QED
      BY <2>1, <2>2
  <1>7. Goes(<<x>> \o plan, s)
    BY <1>4, <1>6, GoesJoined
  <1> QED
    BY <1>7, BeginStep DEF s, x

\* A command that does not rewrite, and whose writes are simple.
LEMMA OtherBegins ==
  ASSUME RewriteIInv, NEW command, command \notin Rewriters, NEW plan, Simple(plan), Begin(command, plan)
  PROVE  RewriteIInv'
  <1>1. Begun(command).home.command = command
    BY BegunAtHome
  <1>2. Mapped(Begun(command)) /\ Tidy(Begun(command)) /\ Begun(command).mishaps \in Nat
    BY BegunMapped DEF Begin, Free
  <1>3. Goes(plan, Begun(command))
    BY <1>1, <1>2, OthersGo
  <1> QED
    BY <1>3, BeginStep

-----------------------------------------------------------------------------
(* One step per action.                                                      *)

\* Nothing left to write goes well, and recovers, where all has ended well.
LEMMA RestsWell == \A s : EndsWell(s) => Goes(<<>>, s) /\ Mends(<<>>, s)
  BY SafeShort, EndsShort, MendsShort, Zenon DEF Goes

\* The invariant holds at the start: nothing runs.
LEMMA RewriteIInvInit == RewriteInit => RewriteIInv
  <1> SUFFICES ASSUME RewriteInit PROVE RewriteIInv
    OBVIOUS
  <1>1. todo = <<>> /\ oplog = <<>>
    BY DEF RewriteInit
  <1>2. IsSeq(oplog)
    BY <1>1, ShortSeqs
  <1>3. IsFiles(files)
    BY DEF RewriteInit, IsFiles
  <1>4. was = [command |-> "init", result |-> "ok", failed |-> "", view |-> {}, oplog |-> <<>>, map |-> Empty]
    BY DEF RewriteInit
  <1>5. EndsWell(Here)
    <2>1. view = {} /\ files = [canon |-> {}, staged |-> {}, bak |-> {}, tmp |-> {}]
      BY DEF RewriteInit
    <2>2. RawMap(files) = Empty
      BY <2>1 DEF RawMap, OrEmpty
    <2>3. AtHome(Here) /\ IsSeq(Here.home.oplog)
      BY <1>1, <1>2, <1>4, <2>1, <2>2 DEF Here, AtHome
    <2>4. Tidy(Here)
      BY <2>1 DEF Here, Tidy
    <2> QED
      BY <2>3, <2>4, HomeMapped DEF EndsWell, Leaves
  <1>6. Goes(todo, Here)
    BY <1>1, <1>5, SafeShort, EndsShort, Zenon DEF Goes
  <1>7. was.result = "ok"
    BY <1>4
  <1>8. was = [command |-> was.command, result |-> was.result, failed |-> was.failed,
               view |-> was.view, oplog |-> was.oplog, map |-> was.map]
    BY <1>4
  <1>9. kills \in Nat /\ faults \in Nat
    BY DEF RewriteInit
  <1> QED
    BY <1>2, <1>3, <1>6, <1>7, <1>8, <1>9, Zenon DEF RewriteIInv

\* The log stays a sequence.
LEMMA LoggedSeq == ASSUME NEW x, NEW log, IsSeq(log) PROVE IsSeq(Logged(x, log))
  <1>1. CASE x.w = "op"
    BY <1>1, AppendedSeq DEF Logged
  <1>2. CASE x.w = "pop" /\ log # <<>>
    BY <1>2, FrontSeq DEF Logged
  <1>3. CASE x.w # "op" /\ ~(x.w = "pop" /\ log # <<>>)
    BY <1>3 DEF Logged
  <1> QED
    BY <1>1, <1>2, <1>3

\* One write of the running command.
LEMMA WriteStep == RewriteIInv /\ Write => RewriteIInv'
  <1> SUFFICES ASSUME RewriteIInv, Write PROVE RewriteIInv'
    OBVIOUS
  <1> DEFINE x == Head(todo)
  <1>1. /\ todo # <<>> /\ todo' = Tail(todo)
        /\ view' = (IF x.w = "view" THEN x.arg ELSE view)
        /\ oplog' = Logged(x, oplog) /\ files' = Filed(x, files)
        /\ ckpt' = (IF x.w = "ckpt" THEN x.arg ELSE ckpt)
        /\ was' = was /\ kills' = kills /\ faults' = faults
    BY DEF Write, counters
  <1>2. ASSUME was.result = "ok" PROVE Goes(Tail(todo), After(x, Here))
    <2>1. Goes(todo, Here) /\ Safe(todo, Here) /\ IsSeq(todo)
      BY <1>2 DEF RewriteIInv, Goes, Safe
    <2>2. Safe(Tail(todo), After(x, Here))
      BY <1>1, <2>1, SafeOn
    <2>3. \A t : Ends(Tail(todo), After(x, Here), t) => Ends(todo, Here, t)
      BY <1>1, <2>1, EndsOn
    <2> QED
      BY <2>1, <2>2, <2>3, Zenon DEF Goes
  <1>3. ASSUME was.result # "ok" PROVE Mends(Tail(todo), After(x, Here))
    <2>1. Mends(todo, Here)
      BY <1>3 DEF RewriteIInv
    <2> QED
      BY <1>1, <2>1, MendsOn
  <1> HIDE DEF x
  <1>4. Here' = After(x, Here)
    BY <1>1 DEF Here, After
  <1>5. (was'.result = "ok" => Goes(todo', Here')) /\ (was'.result # "ok" => Mends(todo', Here'))
    BY <1>1, <1>2, <1>3, <1>4, Zenon
  <1>6. was'.result # "killed"
    BY <1>1 DEF RewriteIInv
  <1>7. IsSeq(oplog') /\ IsFiles(files') /\ kills' \in Nat /\ faults' \in Nat
    BY <1>1, LoggedSeq, FiledFields DEF RewriteIInv
  <1>8. was' = [command |-> was'.command, result |-> was'.result, failed |-> was'.failed,
                view |-> was'.view, oplog |-> was'.oplog, map |-> was'.map]
    BY <1>1 DEF RewriteIInv
  <1> QED
    BY <1>5, <1>6, <1>7, <1>8, Zenon DEF RewriteIInv

\* The command gives up: what it takes back is what is left to write.
LEMMA GiveUpStep == RewriteIInv /\ GiveUp => RewriteIInv'
  <1> SUFFICES ASSUME RewriteIInv, GiveUp PROVE RewriteIInv'
    OBVIOUS
  <1> DEFINE x == Head(todo)
  <1>1. /\ todo # <<>> /\ x.w = "fail" /\ todo' = x.recover
        /\ view' = view /\ oplog' = oplog /\ files' = files /\ ckpt' = ckpt
        /\ was' = [was EXCEPT !.result = "failed"] /\ kills' = kills /\ faults' = faults
    BY DEF GiveUp, stored, counters
  <1>2. was.result = "ok"
    <2>1. SUFFICES ASSUME was.result # "ok" PROVE FALSE
      OBVIOUS
    <2>2. Mends(todo, Here)
      BY <2>1 DEF RewriteIInv
    <2> QED
      BY <1>1, <2>2, MendsOn
  <1>3. Undoes(x, Here)
    <2>1. Safe(todo, Here)
      BY <1>2 DEF RewriteIInv, Goes
    <2> QED
      BY <1>1, <2>1, SafeOn
  <1> HIDE DEF x
  <1>4. Mends(x.recover, GivenUp(Here))
    BY <1>1, <1>3, Zenon DEF Undoes
  <1>5. was = [command |-> was.command, result |-> was.result, failed |-> was.failed,
               view |-> was.view, oplog |-> was.oplog, map |-> was.map]
    BY DEF RewriteIInv
  <1>6. was' = [command |-> was.command, result |-> "failed", failed |-> was.failed,
                view |-> was.view, oplog |-> was.oplog, map |-> was.map]
    BY <1>1, <1>5
  <1>7. Here' = GivenUp(Here)
    BY <1>1, <1>6 DEF Here, GivenUp
  <1>8. Mends(todo', Here')
    BY <1>1, <1>4, <1>7, Zenon
  <1>9. was'.result # "ok" /\ was'.result # "killed"
    BY <1>6
  <1>10. IsSeq(oplog') /\ IsFiles(files') /\ kills' \in Nat /\ faults' \in Nat
    BY <1>1 DEF RewriteIInv
  <1>11. was' = [command |-> was'.command, result |-> was'.result, failed |-> was'.failed,
                 view |-> was'.view, oplog |-> was'.oplog, map |-> was'.map]
    BY <1>6
  <1> QED
    BY <1>8, <1>9, <1>10, <1>11, Zenon DEF RewriteIInv

\* A write that fails: its recovery is what is left to write; or what is left of one.
LEMMA FaultStep == RewriteIInv /\ Fault => RewriteIInv'
  <1> SUFFICES ASSUME RewriteIInv, Fault PROVE RewriteIInv'
    OBVIOUS
  <1> DEFINE x == Head(todo)
  <1>1. /\ todo # <<>> /\ x.w # "fail"
        /\ todo' = (IF was.result = "ok" THEN x.recover ELSE IF x.w \in MapWrites THEN <<>> ELSE Tail(todo))
        /\ view' = view /\ oplog' = oplog /\ files' = PutBack(x, files) /\ ckpt' = ckpt
        /\ was' = (IF was.result # "ok" THEN [was EXCEPT !.result = "halfway"]
                   ELSE IF Forgiven(x) THEN was ELSE [was EXCEPT !.result = "failed", !.failed = x.w])
        /\ kills' = kills /\ faults' = faults + 1 /\ kills \in Nat /\ faults \in Nat
    BY DEF Fault, RewriteIInv
  <1>2. was = [command |-> was.command, result |-> was.result, failed |-> was.failed,
               view |-> was.view, oplog |-> was.oplog, map |-> was.map]
    BY DEF RewriteIInv
  <1>3. kills' + faults' = (kills + faults) + 1 /\ kills + faults \in Nat
    BY <1>1
  <1>4. IsSeq(oplog') /\ IsFiles(files') /\ kills' \in Nat /\ faults' \in Nat
    BY <1>1, PutBackMap DEF RewriteIInv
  <1>5. CASE was.result = "ok"
    <2>1. Undoes(x, Here)
      <3>1. Safe(todo, Here)
        BY <1>5 DEF RewriteIInv, Goes
      <3> QED
        BY <1>1, <3>1, SafeOn
    <2> HIDE DEF x
    <2>2. Mends(x.recover, Failed(x, Here)) /\ (Forgiven(x) => x.recover = <<>>)
      BY <1>1, <2>1, Zenon DEF Undoes
    <2>3. todo' = x.recover
      BY <1>1, <1>5
    <2>4. was' = [command |-> was.command, result |-> IF Forgiven(x) THEN "ok" ELSE "failed",
                  failed |-> IF Forgiven(x) THEN was.failed ELSE x.w,
                  view |-> was.view, oplog |-> was.oplog, map |-> was.map]
      <3>1. CASE Forgiven(x)
        BY <1>1, <1>2, <1>5, <3>1
      <3>2. CASE ~Forgiven(x)
        BY <1>1, <1>2, <1>5, <3>2
      <3> QED
        BY <3>1, <3>2
    <2>5. Here' = Failed(x, Here)
      BY <1>1, <1>3, <1>5, <2>4 DEF Here, Failed
    <2>6. Mends(todo', Here')
      BY <2>2, <2>3, <2>5, Zenon
    <2>7. was'.result = "ok" => Goes(todo', Here')
      <3> SUFFICES ASSUME was'.result = "ok" PROVE Goes(todo', Here')
        OBVIOUS
      <3>1. todo' = <<>>
        BY <2>2, <2>3, <2>4
      <3>2. EndsWell(Here')
        BY <2>6, <3>1, MendsShort, Zenon
      <3> QED
        BY <3>1, <3>2, RestsWell, Zenon
    <2>8. was'.result # "killed"
      BY <2>4
    <2>9. was' = [command |-> was'.command, result |-> was'.result, failed |-> was'.failed,
                  view |-> was'.view, oplog |-> was'.oplog, map |-> was'.map]
      BY <2>4
    <2> QED
      BY <1>4, <2>6, <2>7, <2>8, <2>9, Zenon DEF RewriteIInv
  <1>6. CASE was.result # "ok"
    <2>1. Pending(Here) /\ Mild(Tail(todo))
      <3>1. Mends(todo, Here)
        BY <1>6 DEF RewriteIInv
      <3> QED
        BY <1>1, <3>1, MendsOn
    <2> HIDE DEF x
    <2>2. was' = [command |-> was.command, result |-> "halfway", failed |-> was.failed,
                  view |-> was.view, oplog |-> was.oplog, map |-> was.map]
      BY <1>1, <1>2, <1>6
    <2>3. Here' = Halfway(x, Here)
      <3>1. view' = view /\ oplog' = oplog /\ files' = PutBack(x, files) /\ ckpt' = ckpt
        BY <1>1
      <3>2. was'.result = "halfway" /\ was'.failed = was.failed /\ was'.command = was.command
            /\ was'.view = was.view /\ was'.oplog = was.oplog /\ was'.map = was.map
        BY <2>2
      <3> QED
        BY <1>3, <3>1, <3>2 DEF Here, Halfway
    <2>4. Pending(Here') /\ Here'.mishaps # 0 /\ Here'.result = "halfway"
      <3> DEFINE s == Here
      <3>1. Pending(s) /\ s.mishaps \in Nat
        BY <1>3, <2>1 DEF Here
      <3> HIDE DEF s
      <3>2. Pending(Halfway(x, s)) /\ Halfway(x, s).mishaps # 0 /\ Halfway(x, s).result = "halfway"
        BY <3>1 DEF Pending, Halfway
      <3> QED
        BY <2>3, <3>2 DEF s
    <2>5. Mild(<<>>)
      <3>1. 1..Len(<<>>) = {}
        OBVIOUS
      <3> QED
        BY <3>1, ShortSeqs, Zenon DEF Mild
    <2>6. todo' \in {<<>>, Tail(todo)}
      BY <1>1, <1>6
    <2>7. Mends(todo', Here')
      <3>1. Mild(todo')
        BY <2>1, <2>5, <2>6
      <3>2. \A ws, s : Mild(ws) /\ Pending(s) /\ s.mishaps # 0 /\ s.result = "halfway" => Mends(ws, s)
        BY MildSteady
      <3> QED
        BY <2>4, <3>1, <3>2, Zenon
    <2>8. was'.result # "killed" /\ was'.result # "ok"
      BY <2>2
    <2>9. was' = [command |-> was'.command, result |-> was'.result, failed |-> was'.failed,
                  view |-> was'.view, oplog |-> was'.oplog, map |-> was'.map]
      BY <2>2
    <2> QED
      BY <1>4, <2>7, <2>8, <2>9, Zenon DEF RewriteIInv
  <1> QED
    BY <1>5, <1>6

\* The process is killed: nothing is left to write.
LEMMA KillStep == RewriteIInv /\ Kill => RewriteIInv'
  <1> SUFFICES ASSUME RewriteIInv, Kill PROVE RewriteIInv'
    OBVIOUS
  <1>1. /\ todo # <<>> /\ todo' = <<>>
        /\ view' = view /\ oplog' = oplog /\ files' = files /\ ckpt' = ckpt
        /\ was' = [was EXCEPT !.result = "killed"]
        /\ kills' = kills + 1 /\ faults' = faults /\ kills \in Nat /\ faults \in Nat
    BY DEF Kill, stored, RewriteIInv
  <1>3. Guarded(Here)
    <2>1. CASE was.result = "ok"
      <3>1. Safe(todo, Here)
        BY <2>1 DEF RewriteIInv, Goes
      <3>2. Undoes(Head(todo), Here)
        BY <1>1, <3>1, SafeOn
      <3> QED
        BY <3>2, Zenon DEF Undoes
    <2>2. CASE was.result # "ok"
      <3>1. Mends(todo, Here)
        BY <2>2 DEF RewriteIInv
      <3> QED
        BY <1>1, <3>1, MendsOn
    <2> QED
      BY <2>1, <2>2
  <1>4. was = [command |-> was.command, result |-> was.result, failed |-> was.failed,
               view |-> was.view, oplog |-> was.oplog, map |-> was.map]
    BY DEF RewriteIInv
  <1>5. was' = [command |-> was.command, result |-> "killed", failed |-> was.failed,
                view |-> was.view, oplog |-> was.oplog, map |-> was.map]
    BY <1>1, <1>4
  <1>6. /\ Here'.view = Here.view /\ Here'.oplog = Here.oplog /\ Here'.files = Here.files
        /\ Here'.ckpt = Here.ckpt /\ Here'.home = Here.home /\ Here'.result = "killed"
        /\ Here'.mishaps = Here.mishaps + 1 /\ Here.mishaps \in Nat
    BY <1>1, <1>5 DEF Here
  <1>7. Guarded(Here') /\ EndsWell(Here')
    <2> DEFINE s == Here
               t == Here'
    <2> HIDE DEF s, t
    <2>1. /\ t.view = s.view /\ t.oplog = s.oplog /\ t.files = s.files /\ t.ckpt = s.ckpt /\ t.home = s.home
          /\ t.result = "killed" /\ t.mishaps = s.mishaps + 1 /\ s.mishaps \in Nat /\ Guarded(s)
      BY <1>3, <1>6 DEF s, t
    <2>2. t.mishaps # 0 /\ (t.mishaps \in {0, 1} => s.mishaps = 0)
      BY <2>1
    <2>3. Covers(RawMap(s.files), t) <=> Covers(RawMap(s.files), s)
      BY <2>1, CoversSame
    <2>4. t.mishaps \in {0, 1} => Mapped(t)
      BY <2>1, <2>2, <2>3 DEF Guarded, Mapped
    <2>5. Guarded(t)
      BY <2>1, <2>2 DEF Guarded, AtHome
    <2>6. EndsWell(t)
      BY <2>1, <2>2, <2>4 DEF EndsWell, Tidy
    <2> QED
      BY <2>5, <2>6 DEF t
  <1>8. Mends(todo', Here') /\ was'.result = "killed"
    <2>1. Mends(<<>>, Here')
      BY <1>7, RestsWell
    <2> QED
      BY <1>1, <1>5, <2>1
  <1>9. IsSeq(oplog') /\ IsFiles(files') /\ kills' \in Nat /\ faults' \in Nat
    BY <1>1 DEF RewriteIInv
  <1>10. was' = [command |-> was'.command, result |-> was'.result, failed |-> was'.failed,
                 view |-> was'.view, oplog |-> was'.oplog, map |-> was'.map]
    BY <1>5
  <1> QED
    BY <1>1, <1>7, <1>8, <1>9, <1>10, Zenon DEF RewriteIInv

\* A snapshot, in one step.
LEMMA SnapStep == RewriteIInv /\ Snap => RewriteIInv'
  <1> SUFFICES ASSUME RewriteIInv, Snap PROVE RewriteIInv'
    OBVIOUS
  <1>1. /\ todo = <<>> /\ todo' = <<>> /\ files' = files
        /\ was' = [was EXCEPT !.command = "snap"]
        /\ kills' = kills /\ faults' = faults
    BY DEF Snap
  <1>2. PICK op : oplog' = Append(oplog, op)
    BY DEF Snap
  <1>3. was = [command |-> was.command, result |-> was.result, failed |-> was.failed,
               view |-> was.view, oplog |-> was.oplog, map |-> was.map]
    BY DEF RewriteIInv
  <1>4. was' = [command |-> "snap", result |-> was.result, failed |-> was.failed,
                view |-> was.view, oplog |-> was.oplog, map |-> was.map]
    BY <1>1, <1>3
  <1>5. Guarded(Here') /\ EndsWell(Here')
    <2>1. EndsWell(Here)
      BY <1>1, EndedWell
    <2>2. Here'.home.command = "snap" /\ Here'.files = Here.files /\ Here'.mishaps = Here.mishaps
      BY <1>1, <1>4 DEF Here
    <2>3. Mapped(Here')
      BY <2>2 DEF Mapped, Covers
    <2>4. Tidy(Here')
      BY <2>1, <2>2 DEF EndsWell, Tidy
    <2> QED
      BY <2>2, <2>3, <2>4 DEF Guarded, EndsWell, Rewriters, Resumable
  <1>6. Goes(todo', Here') /\ Mends(todo', Here')
    BY <1>1, <1>5, RestsWell, Zenon
  <1>7. IsSeq(oplog') /\ IsFiles(files') /\ kills' \in Nat /\ faults' \in Nat
    BY <1>1, <1>2, AppendedSeq DEF RewriteIInv
  <1>8. was' = [command |-> was'.command, result |-> was'.result, failed |-> was'.failed,
                 view |-> was'.view, oplog |-> was'.oplog, map |-> was'.map]
    BY <1>4
  <1> QED
    BY <1>1, <1>5, <1>6, <1>7, <1>8, Zenon DEF RewriteIInv

\* What a step leaves that leaves all but the graph and the tree.
LEMMA IdleStep ==
  ASSUME RewriteIInv, UNCHANGED <<view, oplog, files, ckpt, todo, was, kills, faults>>
  PROVE  RewriteIInv'
  <1>1. Here' = Here
    BY DEF Here
  <1> QED
    BY <1>1 DEF RewriteIInv

\* A command that squashes, reorders or applies an edit.
LEMMA PlainRewriteStep == RewriteIInv /\ (Squash \/ Reorder \/ DiffeditApply) => RewriteIInv'
  <1> SUFFICES ASSUME RewriteIInv, Squash \/ Reorder \/ DiffeditApply PROVE RewriteIInv'
    OBVIOUS
  <1>1. \E command \in {"squash", "reorder", "diffedit"} : \E op, tree :
          \E last \in {<<>>, <<Do("target", {})>>} : Begin(command, Rewriting(op, <<>>, tree, last))
    <2>1. CASE Squash
      BY <2>1, Zenon DEF Squash
    <2>2. CASE Reorder
      BY <2>2, Zenon DEF Reorder
    <2>3. CASE DiffeditApply
      BY <2>3, Zenon DEF DiffeditApply
    <2> QED
      BY <2>1, <2>2, <2>3
  <1>2. PICK command \in {"squash", "reorder", "diffedit"} : \E op, tree :
          \E last \in {<<>>, <<Do("target", {})>>} : Begin(command, Rewriting(op, <<>>, tree, last))
    BY <1>1
  <1>3. PICK op, tree : \E last \in {<<>>, <<Do("target", {})>>} : Begin(command, Rewriting(op, <<>>, tree, last))
    BY <1>2
  <1>4. PICK last \in {<<>>, <<Do("target", {})>>} : Begin(command, Rewriting(op, <<>>, tree, last))
    BY <1>3
  <1> QED
    BY <1>2, <1>4, RewriteBegins

\* A restack, begun or continued.
LEMMA RestackStep == RewriteIInv /\ (Restack \/ Continue) => RewriteIInv'
  <1> SUFFICES ASSUME RewriteIInv, Restack \/ Continue PROVE RewriteIInv'
    OBVIOUS
  <1>1. \E command \in Resumable : \E pending : execute_pending_restack(command, pending)
    <2>1. CASE Restack
      BY <2>1, Zenon DEF Restack, Resumable
    <2>2. CASE Continue
      BY <2>2, Zenon DEF Continue, Resumable
    <2> QED
      BY <2>1, <2>2
  <1>2. PICK command \in Resumable : \E pending : execute_pending_restack(command, pending)
    BY <1>1
  <1>3. PICK pending : execute_pending_restack(command, pending)
    BY <1>2
  <1>4. \E plan :
          /\ Begin(command, <<Do("ckpt", {pending})>> \o plan)
          /\ \/ plan = <<Fail(<<>>)>>
             \/ \E op, p, tree : plan = Rewriting(op, <<Do("ckpt", {p})>>, tree, <<Do("ckpt", {})>>)
    <2>1. CASE Begin(command, <<Do("ckpt", {pending})>> \o <<Fail(<<>>)>>)
      BY <2>1, Zenon
    <2>2. ASSUME NEW op, NEW tree, Begin(command, <<Do("ckpt", {pending})>> \o Checkpointed(op, pending, tree))
          PROVE  \E plan :
                   /\ Begin(command, <<Do("ckpt", {pending})>> \o plan)
                   /\ \/ plan = <<Fail(<<>>)>>
                      \/ \E o, p, tr : plan = Rewriting(o, <<Do("ckpt", {p})>>, tr, <<Do("ckpt", {})>>)
      BY <2>2, Zenon DEF Checkpointed
    <2>3. \/ Begin(command, <<Do("ckpt", {pending})>> \o <<Fail(<<>>)>>)
          \/ \E op, tree : Begin(command, <<Do("ckpt", {pending})>> \o Checkpointed(op, pending, tree))
      BY <1>3, Zenon DEF execute_pending_restack
    <2> QED
      BY <2>1, <2>2, <2>3, Zenon
  <1>5. PICK plan :
          /\ Begin(command, <<Do("ckpt", {pending})>> \o plan)
          /\ \/ plan = <<Fail(<<>>)>>
             \/ \E op, p, tree : plan = Rewriting(op, <<Do("ckpt", {p})>>, tree, <<Do("ckpt", {})>>)
    BY <1>4, Zenon
  <1> QED
    BY <1>5, RestackBegins

\* A restack that is given up: the view first, then the files, then the checkpoint.
LEMMA AbortStep == RewriteIInv /\ Abort => RewriteIInv'
  <1> SUFFICES ASSUME RewriteIInv, Abort PROVE RewriteIInv'
    OBVIOUS
  <1>1. PICK v, s, tree :
          Begin("abort", <<Do("view", v)>>
                         \o (IF tree = {} THEN <<Fail(<<>>)>>
                             ELSE <<Risk("wd", CHOOSE t \in tree : TRUE, <<Do("view", view), Do("wd", s)>>),
                                    Do("ckpt", {})>>))
    BY Zenon DEF Abort
  <1> DEFINE risk == Risk("wd", CHOOSE t \in tree : TRUE, <<Do("view", view), Do("wd", s)>>)
             rest == IF tree = {} THEN <<Fail(<<>>)>> ELSE <<risk, Do("ckpt", {})>>
  <1>2. Simple(<<risk>>)
    BY SimpleShort
  <1>3. Simple(rest)
    <2>1. Simple(<<Do("ckpt", {})>>) /\ Simple(<<Fail(<<>>)>>)
      BY SimpleShort
    <2>2. <<risk, Do("ckpt", {})>> = <<risk>> \o <<Do("ckpt", {})>>
      BY TwoWrites, Zenon
    <2> HIDE DEF risk
    <2>3. Simple(<<risk, Do("ckpt", {})>>)
      BY <1>2, <2>1, <2>2, SimpleJoined
    <2> QED
      BY <2>1, <2>3
  <1>4. Simple(<<Do("view", v)>>)
    BY SimpleShort
  <1>5. Begin("abort", <<Do("view", v)>> \o rest)
    BY <1>1
  <1> HIDE DEF rest
  <1>6. Simple(<<Do("view", v)>> \o rest)
    BY <1>3, <1>4, SimpleJoined
  <1>7. "abort" \notin Rewriters
    BY DEF Rewriters
  <1> QED
    BY <1>5, <1>6, <1>7, OtherBegins

\* The tree of a change is written out.
LEMMA PrepareStep == RewriteIInv /\ DiffeditPrepare => RewriteIInv'
  <1> SUFFICES ASSUME RewriteIInv, DiffeditPrepare PROVE RewriteIInv'
    OBVIOUS
  <1>1. PICK t, s : Begin("prepare", <<Do("target", {t}), Do("wd", s)>>)
    BY Zenon DEF DiffeditPrepare
  <1> DEFINE a == Do("target", {t})
             b == Do("wd", s)
  <1>2. Simple(<<a>>) /\ Simple(<<b>>)
    BY SimpleShort
  <1>3. Begin("prepare", <<a, b>>)
    BY <1>1
  <1> HIDE DEF a, b
  <1>4. Simple(<<a, b>>)
    BY <1>2, TwoWrites, SimpleJoined
  <1>5. "prepare" \notin Rewriters
    BY DEF Rewriters
  <1> QED
    BY <1>3, <1>4, <1>5, OtherBegins

\* What an undo puts in the epoch map has all but the redirections of its operation.
LEMMA RolledBackKeeps ==
  \A op : DOMAIN load_epoch_map_raw \ DOMAIN op.map \subseteq DOMAIN rolled_back(op)
  BY DEF rolled_back, Without

\* Writes that differ in their recoveries only lead to the same.
LEMMA LeadsSame ==
  ASSUME NEW a, NEW b, NEW k, \A n \in 1..k : a[n].w = b[n].w /\ a[n].arg = b[n].arg
  PROVE  \A s, t : Leads(k, a, s, t) <=> Leads(k, b, s, t)
  <1>1. \A x, y, s : x.w = y.w /\ x.arg = y.arg => After(x, s) = After(y, s)
    <2> SUFFICES ASSUME NEW x, NEW y, NEW s, x.w = y.w, x.arg = y.arg PROVE After(x, s) = After(y, s)
      OBVIOUS
    <2>1. Logged(x, s.oplog) = Logged(y, s.oplog) /\ Filed(x, s.files) = Filed(y, s.files)
      BY DEF Logged, Filed
    <2> QED
      BY <2>1 DEF After
  <1>2. \A n \in 1..k : \A s : After(a[n], s) = After(b[n], s)
    BY <1>1
  <1>3. \A f, s : IsTrace(f, k, a, s) <=> IsTrace(f, k, b, s)
    BY <1>2, Zenon DEF IsTrace
  <1> QED
    BY <1>3, Zenon DEF Leads

\* The writes of the epoch map are the same with another recovery.
LEMMA ReloggedWrites ==
  ASSUME NEW op, NEW m
  PROVE  LET a == Relogged(op, persist_epoch_map_raw(m))
             b == persist_epoch_map_raw(m)
         IN /\ IsSeq(a) /\ Len(a) = 6
            /\ \A n \in 1..6 : a[n].w = b[n].w /\ a[n].arg = b[n].arg /\ a[n].recover = <<Do("op", op)>>
  <1> DEFINE b == persist_epoch_map_raw(m)
             a == Relogged(op, b)
             e(n) == [b[n] EXCEPT !.recover = <<Do("op", op)>>]
  <1> DEFINE S == {Do("tmp", m), Do("unstage", {}), Do("stage", {}), Do("publish", {}), Do("unbak", {}), Do("bak", {})}
  <1>1. DOMAIN b = 1..6
    BY DEF persist_epoch_map_raw
  <1>7. b \in Seq(S)
    BY DEF persist_epoch_map_raw
  <1>8. Len(b) = 6
    BY DEF persist_epoch_map_raw
  <1>2. \A n \in 1..6 : b[n] = [w |-> b[n].w, arg |-> b[n].arg, recover |-> b[n].recover]
    <2>1. \A x \in S : x = [w |-> x.w, arg |-> x.arg, recover |-> x.recover]
      BY DEF Do, Risk
    <2>2. \A n \in 1..Len(b) : b[n] \in S
      <3> HIDE DEF b, S
      <3> QED
        BY <1>7
    <2> HIDE DEF b, S
    <2> QED
      BY <1>8, <2>1, <2>2
  <1> HIDE DEF S
  <1> HIDE DEF b
  <1>3. a = [n \in 1..6 |-> e(n)]
    BY <1>1 DEF Relogged
  <1>4. a \in Seq({e(n) : n \in 1..6}) /\ Len(a) = 6 /\ \A n \in 1..6 : a[n] = e(n)
    <2> HIDE DEF e
    <2> QED
      BY <1>3
  <1>5. IsSeq(a)
    <2> HIDE DEF a, e
    <2> QED
      BY <1>4, SeqIsSeq
  <1> HIDE DEF a
  <1>6. \A n \in 1..6 : a[n].w = b[n].w /\ a[n].arg = b[n].arg /\ a[n].recover = <<Do("op", op)>>
    BY <1>2, <1>4
  <1> QED
    BY <1>4, <1>5, <1>6 DEF a, b

\* An undo whose map cannot be written puts its operation into the log again.
LEMMA ReloggedSafe ==
  ASSUME NEW op, NEW m, NEW s, Ready(s), Mapped(s), Covers(m, s), s.home.command = "undo", IsSeq(s.oplog),
         Len(s.oplog) < Len(s.home.oplog)
  PROVE  LET a == Relogged(op, persist_epoch_map_raw(m))
             b == persist_epoch_map_raw(m)
         IN Safe(a, s) /\ \A t : Ends(a, s, t) <=> Ends(b, s, t)
  <1> DEFINE b == persist_epoch_map_raw(m)
             a == Relogged(op, b)
             y == Do("op", op)
  <1>1. /\ IsSeq(a) /\ Len(a) = 6
        /\ \A n \in 1..6 : a[n].w = b[n].w /\ a[n].arg = b[n].arg /\ a[n].recover = <<y>>
    BY ReloggedWrites
  <1>2. IsSeq(b) /\ Len(b) = 6
    BY PersistMild DEF Mild
  <1>3. \A k \in 0..6 : \A t : Leads(k, b, s, t) => Along(k, m, s, t)
    BY PersistAlong DEF Ready
  <1>4. Steady(b, s)
    BY PersistSteady
  <1>5. \A k \in 0..5 : \A t, x : Along(k, m, s, t) /\ x.w = b[k + 1].w =>
          /\ SameBut(s, t) /\ IsFiles(t.files) /\ x.w \in MapWrites
          /\ x.w = "publish" => t.files.canon = {}
    BY PersistFails
  <1>6. y.w = "op" /\ y.arg = op
    BY DEF Do, Risk
  <1>7. Mild(<<y>>)
    BY MildOne
  <1> HIDE DEF a, b, y
  <1>8. \A k \in 0..6 : \A t : Leads(k, a, s, t) <=> Leads(k, b, s, t)
    <2> SUFFICES ASSUME NEW k \in 0..6 PROVE \A t : Leads(k, a, s, t) <=> Leads(k, b, s, t)
      OBVIOUS
    <2>1. \A n \in 1..k : n \in 1..6
      OBVIOUS
    <2>2. \A n \in 1..k : a[n].w = b[n].w /\ a[n].arg = b[n].arg
      BY <1>1, <2>1
    <2> QED
      BY <2>2, LeadsSame
  <1>9. ASSUME NEW n \in 1..Len(a), NEW t, Leads(n - 1, a, s, t) PROVE Undoes(a[n], t)
    <2> DEFINE x == a[n]
               u == Failed(x, t)
               v == After(y, u)
               k == n - 1
    <2>1. k \in 0..5 /\ k \in 0..6 /\ k + 1 = n /\ n \in 1..6 /\ n \in 1..Len(b)
      BY <1>1, <1>2
    <2>2. Leads(k, b, s, t)
      BY <1>8, <1>9, <2>1, Zenon
    <2>3. Guarded(t)
      BY <1>4, <2>1, <2>2, Zenon DEF Steady
    <2>4. Along(k, m, s, t)
      BY <1>3, <2>1, <2>2, Zenon
    <2>5. x.w = b[k + 1].w /\ x.recover = <<y>>
      BY <1>1, <2>1
    <2> HIDE DEF k, x
    <2>6. /\ SameBut(s, t) /\ IsFiles(t.files) /\ x.w \in MapWrites
          /\ x.w = "publish" => t.files.canon = {}
      BY <1>5, <2>1, <2>4, <2>5
    <2>7. x.w # "fail" /\ ~Forgiven(x)
      BY <2>6 DEF MapWrites, Forgiven
    <2>8. /\ u.oplog = s.oplog /\ u.files = PutBack(x, t.files) /\ u.home = s.home
          /\ u.mishaps = s.mishaps + 1 /\ t.mishaps = s.mishaps /\ s.mishaps \in Nat
      BY <2>6, <2>7 DEF Failed, SameBut, Ready
    <2> HIDE DEF u
    <2>9. RawMap(u.files) = RawMap(t.files)
      BY <2>6, <2>8, PutBackMap
    <2>10. u.mishaps # 0 /\ Pending(u) /\ Guarded(u)
      <3>1. u.mishaps # 0
        BY <2>8
      <3>2. u.home.command \notin Resumable
        BY <2>8 DEF Resumable
      <3> QED
        BY <3>1, <3>2 DEF Pending, Guarded
    <2>11. Steady(<<y>>, u)
      BY <2>10, SteadyShort, Zenon
    <2>12. v.oplog = Append(s.oplog, op) /\ v.files = u.files /\ v.home = s.home /\ v.mishaps = u.mishaps
      <3>1. Logged(y, u.oplog) = Append(u.oplog, op) /\ Filed(y, u.files) = u.files
        BY <1>6 DEF Logged, Filed
      <3> QED
        BY <2>8, <3>1 DEF After
    <2> HIDE DEF v
    <2>13. ~(Len(v.oplog) > Len(v.home.oplog))
      <3>1. s.oplog \in Seq({s.oplog[i] : i \in DOMAIN s.oplog}) /\ IsSeq(s.home.oplog)
        BY DEF IsSeq, Ready
      <3>2. s.home.oplog \in Seq({s.home.oplog[i] : i \in DOMAIN s.home.oplog})
        BY <3>1 DEF IsSeq
      <3>3. Len(Append(s.oplog, op)) = Len(s.oplog) + 1 /\ Len(s.oplog) \in Nat /\ Len(s.home.oplog) \in Nat
        BY <3>1, <3>2
      <3> QED
        BY <2>12, <3>3
    <2>14. v.mishaps \in {0, 1} => Mapped(v)
      <3> SUFFICES ASSUME v.mishaps \in {0, 1} PROVE Mapped(v)
        OBVIOUS
      <3>1. t.mishaps = 0
        BY <2>8, <2>12
      <3>2. Mapped(t)
        BY <2>3, <3>1 DEF Guarded
      <3>3. t.home = s.home
        BY <2>6 DEF SameBut
      <3>4. DOMAIN s.home.map \ Undone(s.home) \subseteq DOMAIN RawMap(v.files)
        BY <2>9, <2>12, <3>2, <3>3 DEF Mapped, Covers
      <3> QED
        BY <2>12, <2>13, <3>4 DEF Mapped, Covers
    <2>15. EndsWell(v)
      <3>1. v.home.command \notin Rewriters
        BY <2>12 DEF Rewriters
      <3>2. Tidy(v)
        BY <2>10, <2>12 DEF Tidy
      <3> QED
        BY <2>14, <3>1, <3>2, Zenon DEF EndsWell
    <2>16. \A e : Ends(<<y>>, u, e) => EndsWell(e)
      BY <2>15, EndsShort, Zenon DEF v
    <2>17. Mends(<<y>>, u)
      BY <1>7, <2>10, <2>11, <2>16, Zenon DEF Mends
    <2>18. Undoes(x, t)
      BY <2>3, <2>5, <2>7, <2>17, Zenon DEF Undoes, u
    <2> QED
      BY <2>18 DEF x
  <1>10. Safe(a, s)
    BY <1>1, <1>9 DEF Safe
  <1>11. \A t : Ends(a, s, t) <=> Ends(b, s, t)
    <2>1. 6 \in 0..6
      OBVIOUS
    <2> QED
      BY <1>1, <1>2, <1>8, <2>1, Zenon DEF Ends
  <1> QED
    BY <1>10, <1>11 DEF a, b

\* Writes of an undo, which go well if what is left after the log and the map does.
LEMMA UndoingGoes ==
  ASSUME NEW s, Ready(s), AtHome(s), s.home.command = "undo", s.oplog # <<>>, NEW map, NEW rest, Simple(rest),
         s.home.map = load_epoch_map_raw, NEW op, op = Last(s.home.oplog), map = rolled_back(op),
         NEW persist, persist = <<>> \/ persist = Relogged(op, persist_epoch_map_raw(map))
  PROVE  Goes(<<Do("pop", {})>> \o persist \o rest, s)
  <1> DEFINE x == Do("pop", {})
  <1>1. x.w = "pop" /\ x.recover = <<>>
    BY DEF Do, Risk
  <1>2. IsSeq(s.home.oplog) /\ Mapped(s) /\ Pending(s)
    BY HomeMapped DEF Ready
  <1> HIDE DEF x
  <1>3. Undoes(x, s)
    <2>1. Guarded(s) /\ s.mishaps \in Nat /\ IsFiles(s.files) /\ s.home.command \notin Rewriters
      BY <1>2, ReadyGuarded DEF Ready, Rewriters
    <2> QED
      BY <1>1, <2>1, DoUndoes
  <1>4. Safe(<<x>>, s)
    BY <1>3, SafeShort, Zenon
  <1> DEFINE Shorter(t) == /\ t.home = s.home /\ t.mishaps = s.mishaps /\ Ready(t)
                           /\ Len(t.oplog) < Len(t.home.oplog) /\ Len(t.oplog) \in Nat /\ IsSeq(t.oplog)
                           /\ Len(t.home.oplog) \in Nat
  <1>5. ASSUME NEW t, Ends(<<x>>, s, t) PROVE Shorter(t) /\ RawMap(t.files) = s.home.map
    <2>1. t = After(x, s)
      BY <1>5, EndsShort, Zenon
    <2>2. Logged(x, s.oplog) = Front(s.oplog) /\ Filed(x, s.files) = s.files
      BY <1>1 DEF Logged, Filed
    <2>3. /\ t.oplog = Front(s.oplog) /\ t.files = s.files /\ t.home = s.home /\ t.ckpt = s.ckpt
          /\ t.mishaps = s.mishaps
      BY <1>1, <2>1, <2>2 DEF After
    <2>4. Len(Front(s.oplog)) < Len(s.oplog) /\ Len(Front(s.oplog)) \in Nat /\ Len(s.oplog) \in Nat
      BY <1>2, FrontLen DEF AtHome
    <2>6. IsSeq(t.oplog)
      BY <1>2, <2>3, FrontSeq DEF AtHome
    <2>5. Ready(t)
      BY <2>3 DEF Ready, Pending, Tidy
    <2> QED
      BY <2>3, <2>4, <2>5, <2>6 DEF AtHome
  <1>6. ASSUME NEW t, Shorter(t), NEW m, DOMAIN s.home.map \ DOMAIN op.map \subseteq DOMAIN m PROVE Covers(m, t)
    <2>1. Undone(t.home) = DOMAIN op.map
      BY <1>6 DEF Undone
    <2>2. ~(Len(t.oplog) > Len(t.home.oplog))
      BY <1>6
    <2> QED
      BY <1>6, <2>1, <2>2 DEF Covers
  <1>7. ASSUME NEW t, Ends(<<x>>, s, t)
        PROVE  /\ Safe(persist, t)
               /\ \A u : Ends(persist, t, u) => Shorter(u) /\ Mapped(u)
    <2>1. Shorter(t) /\ RawMap(t.files) = s.home.map
      BY <1>5, <1>7
    <2>2. Mapped(t)
      BY <1>6, <2>1 DEF Mapped
    <2>3. CASE persist = <<>>
      BY <2>1, <2>2, <2>3, SafeShort, EndsShort, Zenon
    <2>4. CASE persist = Relogged(op, persist_epoch_map_raw(map))
      <3>1. DOMAIN s.home.map \ DOMAIN op.map \subseteq DOMAIN map
        BY RolledBackKeeps, Zenon
      <3>2. Covers(map, t)
        BY <1>6, <2>1, <3>1
      <3>3. Safe(persist, t) /\ \A u : Ends(persist, t, u) => Ends(persist_epoch_map_raw(map), t, u)
        BY <2>1, <2>2, <2>4, <3>2, ReloggedSafe
      <3>4. ASSUME NEW u, Ends(persist, t, u) PROVE Shorter(u) /\ Mapped(u)
        <4>1. SameBut(t, u) /\ IsFiles(u.files) /\ RawMap(u.files) = map /\ u.files.staged = {}
          <5>1. Ends(persist_epoch_map_raw(map), t, u)
            BY <3>3, <3>4, Zenon
          <5> QED
            BY <2>1, <5>1, PersistEnds DEF Ready
        <4>2. Ready(u)
          BY <2>1, <4>1, ReadyKept
        <4>3. Shorter(u)
          BY <2>1, <4>1, <4>2 DEF SameBut
        <4>4. Mapped(u)
          BY <1>6, <3>1, <4>1, <4>3 DEF Mapped
        <4> QED
          BY <4>3, <4>4
      <3> QED
        BY <3>3, <3>4
    <2> QED
      BY <2>3, <2>4
  <1>8. IsSeq(<<x>>) /\ IsSeq(persist) /\ IsSeq(rest)
    BY ShortSeqs, ReloggedWrites DEF Simple, Quiet
  <1>9. "undo" \notin Rewriters
    BY DEF Rewriters
  <1>10. \A u : Shorter(u) /\ Mapped(u) => Goes(rest, u)
    BY <1>9, OthersGo DEF Ready
  <1> HIDE DEF Shorter
  <1>11. Safe(<<x>> \o persist, s)
    BY <1>4, <1>7, <1>8, SafeJoined
  <1>12. ASSUME NEW u, Ends(<<x>> \o persist, s, u) PROVE Goes(rest, u)
    <2>1. PICK t : Ends(<<x>>, s, t) /\ Ends(persist, t, u)
      BY <1>8, <1>12, EndsJoined
    <2> QED
      BY <1>7, <1>10, <2>1, Zenon
  <1>13. Goes((<<x>> \o persist) \o rest, s)
    BY <1>8, <1>11, <1>12, GoesJoined
  <1> QED
    BY <1>13 DEF x

\* An undo: the log, the epoch map, the view and the files.
LEMMA UndoStep == RewriteIInv /\ Undo => RewriteIInv'
  <1> SUFFICES ASSUME RewriteIInv, Undo PROVE RewriteIInv'
    OBVIOUS
  <1>1. oplog # <<>> /\ \E now, tree : Begin("undo", Undoing(Last(oplog), rolled_back(Last(oplog)), now, tree))
    BY Zenon DEF Undo
  <1>2. PICK now, tree : Begin("undo", Undoing(Last(oplog), rolled_back(Last(oplog)), now, tree))
    BY <1>1
  <1> DEFINE op == Last(oplog)
             map == rolled_back(op)
             pop == <<Do("pop", {})>>
             persist == IF op.command = "snap" THEN <<>> ELSE Relogged(op, persist_epoch_map_raw(map))
             stop == <<Fail(<<>>)>>
             wdw == <<Do("wd", CHOOSE t \in tree : TRUE)>>
             end == IF tree = {} THEN stop ELSE wdw
             vw == <<Do("view", op.before)>>
             rest == IF now = {} THEN stop ELSE vw \o end
             s == Begun("undo")
  <1>3. Simple(stop) /\ Simple(wdw) /\ Simple(vw)
    BY SimpleShort
  <1>4. Begin("undo", pop \o persist \o rest)
    BY <1>2 DEF Undoing
  <1>5. persist = <<>> \/ persist = Relogged(op, persist_epoch_map_raw(map))
    OBVIOUS
  <1>6. /\ AtHome(s) /\ s.home.command = "undo" /\ s.home.map = load_epoch_map_raw /\ s.home.oplog = oplog
        /\ s.oplog # <<>> /\ op = Last(s.home.oplog)
    BY <1>1, BegunAtHome DEF AtHome
  <1>7. Ready(s)
    <2>1. Pending(s)
      BY <1>6 DEF Pending, Resumable
    <2>2. todo = <<>>
      BY Zenon DEF Undo, Free
    <2> QED
      BY <2>1, <2>2, BegunMapped
  <1> HIDE DEF op, map, persist, stop, wdw, vw, s
  <1>8. Simple(end)
    BY <1>3
  <1> HIDE DEF end
  <1>9. Simple(rest)
    BY <1>3, <1>8, SimpleJoined
  <1> HIDE DEF rest
  <1>10. Goes(pop \o persist \o rest, s)
    BY <1>5, <1>6, <1>7, <1>9, UndoingGoes DEF map
  <1> QED
    BY <1>4, <1>10, BeginStep DEF s

\* Every step keeps the invariant.
LEMMA RewriteIInvStep == RewriteIInv /\ [RewriteNext]_rewriteVars => RewriteIInv'
  <1> SUFFICES ASSUME RewriteIInv, [RewriteNext]_rewriteVars PROVE RewriteIInv'
    OBVIOUS
  <1>1. CASE UNCHANGED rewriteVars
    BY <1>1, IdleStep DEF rewriteVars, stored, counters
  <1>2. CASE Log
    BY <1>2, IdleStep DEF Log, stored, counters
  <1>3. CASE Edit
    BY <1>3, IdleStep DEF Edit, counters
  <1> QED
    BY <1>1, <1>2, <1>3, SnapStep, PlainRewriteStep, RestackStep, AbortStep, PrepareStep, UndoStep,
       WriteStep, GiveUpStep, FaultStep, KillStep, Zenon DEF RewriteNext

\* Whatever the commands, their bounds and their mishaps, the invariant holds.
LEMMA RewriteInvariant == RewriteSpec => []RewriteIInv
  BY RewriteIInvInit, RewriteIInvStep, PTL DEF RewriteSpec

\* A squash, a reorder, a restack or a diffedit that fails, with no other mishap and at
\* whatever write, has put the view, the operation log and the epoch map back, unless
\* the old map could not be made the backup, or a checkpoint not be saved or cleared:
\* then what is left is the new map with nothing in the log, or the operation with a
\* checkpoint.
THEOREM FailureIsAccountedFor == RewriteSpec => []WhatFailureLeaves
  <1>1. RewriteIInv => WhatFailureLeaves
    <2> SUFFICES ASSUME RewriteIInv, Ended(Rewriters, "failed"), kills + faults <= 1
                 PROVE  Leaves(Here)
      BY DEF WhatFailureLeaves, Rewriters, Leaves, AtHome, Here, load_epoch_map_raw
    <2>1. todo = <<>> /\ was.command \in Rewriters /\ was.result = "failed"
      BY DEF Ended
    <2>2. EndsWell(Here)
      BY <2>1, EndedWell
    <2>3. kills + faults \in {0, 1}
      BY DEF RewriteIInv
    <2> QED
      BY <2>1, <2>2, <2>3 DEF EndsWell, Here
  <1> QED
    BY <1>1, RewriteInvariant, PTL

\* A restack that is killed, at whatever write, has its checkpoint or has changed
\* neither the view nor the log nor the epoch map.
THEOREM KilledRestackResumes == RewriteSpec => []KilledRestackIsPending
  <1>1. RewriteIInv => KilledRestackIsPending
    <2> SUFFICES ASSUME RewriteIInv, Ended(Resumable, "killed"), ckpt = {}
                 PROVE  view = was.view /\ oplog = was.oplog /\ load_epoch_map_raw = was.map
      BY DEF KilledRestackIsPending, Resumable
    <2>1. was.command \in Resumable /\ was.result = "killed"
      BY DEF Ended
    <2>2. Guarded(Here)
      BY <2>1 DEF RewriteIInv
    <2> QED
      BY <2>1, <2>2 DEF Guarded, AtHome, Here, load_epoch_map_raw
  <1> QED
    BY <1>1, RewriteInvariant, PTL

\* No command loses a redirection but those that an undo is to take out, and what
\* is in the log is in the map, though once a process was killed or a write failed.
THEOREM MapSurvives == RewriteSpec => []EpochMapKept
  <1>1. RewriteIInv => EpochMapKept
    <2> SUFFICES ASSUME RewriteIInv, todo = <<>>, was.command # "snap", was.result # "halfway", kills + faults <= 1
                 PROVE  Mapped(Here)
      BY DEF EpochMapKept, Mapped, Covers, Undone, Here, load_epoch_map_raw
    <2>1. EndsWell(Here)
      BY EndedWell
    <2>2. kills + faults \in {0, 1}
      BY DEF RewriteIInv
    <2> QED
      BY <2>1, <2>2 DEF EndsWell, Here
  <1> QED
    BY <1>1, RewriteInvariant, PTL

=============================================================================

----------------------------- MODULE OpLogProofs ----------------------------
(***************************************************************************)
(* Proofs about OpLog once heads.bin is in place (Established): for every  *)
(* set of processes, every number of operations, pops, crashes and retries.*)
(* What rests on publish.lock holds until a living holder is robbed of it, *)
(* which takes three processes and a death.                                *)
(***************************************************************************)
EXTENDS OpLog, Induction, TLAPS, SequenceTheorems, FiniteSetTheorems

HeadsState == [epoch : Nat, heads : SUBSET store]

\* Types, as far as the argument needs them.
Typed ==
    /\ headsFile \in HeadsState
    /\ loaded \in [Proc -> HeadsState]
    /\ pc \in [Proc -> PC \ {"migratelegacy", "migrateheads", "migraterename"}]
    /\ return \in [Proc -> {"idle", "load", "poplock", "popunlock"}]
    /\ clock \in 0..MaxOps
    /\ op \in [Proc -> 0..MaxOps]
    /\ lock \in Proc \cup {None}
    /\ robbed \in BOOLEAN

\* Where a call goes after the migration check, and after the projection.
ReturnSet ==
    \A p \in Proc :
       /\ pc[p] = "migrate" => return[p] \in {"load", "poplock"}
       /\ pc[p] = "unlock" => return[p] = "idle"
       /\ pc[p] \in {"projread", "projwrite"} => return[p] \in {"idle", "popunlock"}

\* The steps between the acquisition and the release of publish.lock.
Critical(p) ==
    \/ pc[p] \in {"compare", "publish", "unlock", "popload", "popwrite", "popunlock"}
    \/ pc[p] \in {"projread", "projwrite"} /\ return[p] = "popunlock"

LockHeld == \A p \in Proc : Critical(p) => lock = p

\* What is about to be published was computed from heads.bin as it is.
Current == \A p \in Proc : pc[p] \in {"publish", "popwrite"} => loaded[p] = headsFile

\* What is about to be popped is there.
SomeHead == \A p \in Proc : pc[p] = "popwrite" => loaded[p].heads # {}

\* What is about to be published is on disk.
Persisted ==
    \A p \in Proc : pc[p] \in {"lock", "reap", "compare", "publish"} =>
       build_node(op[p], loaded[p].heads) \in store

\* The nodes on disk are closed under parents.
Closed == \A n \in store : n.op \in 0..MaxOps /\ n.parents \subseteq store

\* Each node of the sequence is the only parent of the next.
IsChain(c) == \A i \in 1..Len(c) : c[i].parents = IF i = 1 THEN {} ELSE {c[i-1]}

\* The publications form a chain with the head set at its end.
Chained ==
    /\ chain \in Seq(store)
    /\ headsFile.heads = Tip(chain)
    /\ IsChain(chain)

\* What needs no lock, and what holds as long as publish.lock excludes.
Unlocked == Typed /\ ReturnSet /\ SomeHead /\ Persisted /\ Closed

Excluding == LockHeld /\ Current /\ Chained

IInv == Unlocked /\ (robbed \/ Excluding)

\* Chains grow and shrink at their end.
LEMMA ChainAppend ==
  ASSUME NEW S, NEW c \in Seq(S), IsChain(c), NEW n \in S, n.parents = Tip(c)
  PROVE  /\ Append(c, n) \in Seq(S)
         /\ Tip(Append(c, n)) = {n}
         /\ IsChain(Append(c, n))
  <1> DEFINE d == Append(c, n)
  <1>1. d \in Seq(S) /\ Len(d) = Len(c) + 1 /\ d[Len(c) + 1] = n
        /\ \A i \in 1..Len(c) : d[i] = c[i]
    OBVIOUS
  <1> HIDE DEF d
  <1>2. Len(c) \in Nat /\ d # <<>>
    BY <1>1
  <1>3. ASSUME NEW i \in 1..Len(d)
        PROVE  d[i].parents = IF i = 1 THEN {} ELSE {d[i-1]}
    <2>1. CASE i = Len(c) + 1
      <3>1. CASE c = <<>>
        <4>1. i = 1 /\ d[i] = n /\ Tip(c) = {}
          BY <1>1, <2>1, <3>1 DEF Tip
        <4> QED
          BY <4>1
      <3>2. CASE c # <<>>
        <4>1. Len(c) \in Nat \ {0}
          BY <3>2, EmptySeq
        <4>2. i # 1 /\ d[i] = n /\ d[i-1] = c[Len(c)] /\ Tip(c) = {c[Len(c)]}
          BY <1>1, <2>1, <3>2, <4>1 DEF Tip
        <4> QED
          BY <4>2
      <3> QED
        BY <3>1, <3>2
    <2>2. CASE i \in 1..Len(c)
      <3>1. d[i] = c[i] /\ (i # 1 => d[i-1] = c[i-1])
        BY <1>1, <1>2, <2>2
      <3> QED
        BY <2>2, <3>1, Zenon DEF IsChain
    <2> QED
      BY <1>1, <1>2, <2>1, <2>2
  <1>4. Tip(d) = {n}
    BY <1>1, <1>2 DEF Tip
  <1> QED
    BY <1>1, <1>3, <1>4 DEF IsChain, d

\* The chain without its last operation, as pop leaves it.
LEMMA ChainFront ==
  ASSUME NEW S, NEW c \in Seq(S), IsChain(c), c # <<>>
  PROVE  LET d == SubSeq(c, 1, Len(c) - 1)
         IN  /\ d \in Seq(S)
             /\ Tip(d) = c[Len(c)].parents
             /\ IsChain(d)
  <1> DEFINE m == Len(c) - 1
             d == SubSeq(c, 1, m)
  <1>1. m \in Nat /\ Len(c) = m + 1
    BY EmptySeq
  <1>2. \A i \in 1..m : c[i] \in S
    BY <1>1
  <1> HIDE DEF m
  <1>3. d \in Seq(S) /\ Len(d) = m /\ \A i \in 1..m : d[i] = c[i]
    BY <1>1, <1>2, SubSeqProperties
  <1> HIDE DEF d
  <1>4. c[m+1].parents = IF m = 0 THEN {} ELSE {c[m]}
    <2>1. PICK k \in 1..Len(c) : k = m + 1
      BY <1>1
    <2>2. c[k].parents = IF k = 1 THEN {} ELSE {c[k-1]}
      BY Zenon DEF IsChain
    <2>3. (k = 1 <=> m = 0) /\ k - 1 = m
      BY <1>1, <2>1
    <2> QED
      BY <2>1, <2>2, <2>3, Zenon
  <1>5. Tip(d) = c[m+1].parents
    <2>1. CASE m = 0
      <3>1. d = <<>>
        BY <1>1, <1>3, <2>1, EmptySeq
      <3>2. c[m+1].parents = {}
        BY <1>4, <2>1
      <3> QED
        BY <3>1, <3>2 DEF Tip
    <2>2. CASE m # 0
      <3>1. d # <<>> /\ d[Len(d)] = c[m]
        BY <1>1, <1>3, <2>2
      <3>2. c[m+1].parents = {c[m]}
        BY <1>1, <1>4, <2>2
      <3> QED
        BY <3>1, <3>2 DEF Tip
    <2> QED
      BY <2>1, <2>2
  <1>6. ASSUME NEW i \in 1..Len(d)
        PROVE  d[i].parents = IF i = 1 THEN {} ELSE {d[i-1]}
    <2>1. i \in 1..Len(c) /\ d[i] = c[i] /\ (i # 1 => d[i-1] = c[i-1])
      BY <1>1, <1>3
    <2> QED
      BY <2>1, Zenon DEF IsChain
  <1>7. IsChain(d)
    BY <1>6 DEF IsChain
  <1> QED
    BY <1>1, <1>3, <1>5, <1>7 DEF d, m

\* A published heads state is not a missing file.
LEMMA HeadsThere == Typed => headsFile # Missing /\ load_heads_state = headsFile
  BY DEF Typed, HeadsState, Missing, load_heads_state

\* The chain is empty, and heads.bin is there.
LEMMA IInvInit == ASSUME Established PROVE Init => IInv
  <1> SUFFICES ASSUME Init PROVE IInv
    OBVIOUS
  <1> USE OpLogAssumption DEF Init
  <1>1. Typed
    <2>1. robbed \in BOOLEAN
      BY Zenon
    <2>2. MaxOps \in Nat /\ LegacyOps = 0
      OBVIOUS
    <2> QED
      BY <2>1, <2>2 DEF Typed, HeadsState, PC
  <1>2. ReturnSet /\ LockHeld /\ Current /\ SomeHead /\ Persisted /\ Closed
    BY DEF ReturnSet, LockHeld, Critical, Current, SomeHead, Persisted, Closed
  <1>3. Chained
    BY DEF Chained, Tip, IsChain
  <1> QED
    BY <1>1, <1>2, <1>3 DEF IInv, Unlocked, Excluding

\* The steps that leave heads.bin, the nodes and the chain alone, one by one.
Quiet(p) ==
    \/ Append_(p) \/ Pop(p) \/ MigrateHeadsExist(p) \/ ProjectionRead(p) \/ ProjectionWrite(p)
    \/ Load(p) \/ Lock(p) \/ CanReap(p) \/ Reap(p) \/ LockTimeout(p)
    \/ CompareMismatch(p) \/ CompareMatch(p) \/ Unlock(p) \/ PopLoad(p) \/ Crash(p)

\* With heads.bin in place nobody migrates.
LEMMA NextCases ==
  ASSUME Typed, Next
  PROVE  \E p \in Proc : Quiet(p) \/ Persist(p) \/ Publish(p) \/ PopWrite(p)
  BY DEF Typed, Next, Step, Quiet, MigrateRead, MigrateWriteHeads, MigrateRename, PC

\* These steps leave heads.bin, the stored records and the chain alone.
LEMMA QuietUnchanged ==
  ASSUME NEW p \in Proc, Quiet(p)
  PROVE  UNCHANGED <<headsFile, store, chain>>
  BY DEF Quiet, Append_, Pop, MigrateHeadsExist, ProjectionRead, ProjectionWrite, Load, Lock,
         CanReap, Reap, LockTimeout, CompareMismatch, CompareMatch, Unlock, PopLoad, Crash, disk, history

\* Steps that leave heads.bin and the nodes alone need no lock.
LEMMA QuietUnlocked ==
  ASSUME IInv, NEW p \in Proc, Quiet(p)
  PROVE  Unlocked'
  <1>1. UNCHANGED <<headsFile, store, chain>> /\ load_heads_state = headsFile
        /\ headsFile # Missing
    BY QuietUnchanged, HeadsThere DEF IInv, Unlocked
  <1>2. Closed'
    BY <1>1 DEF IInv, Unlocked, Closed
  <1> DEFINE Rest == Typed /\ ReturnSet /\ SomeHead /\ Persisted
  <1> SUFFICES Rest'
    BY <1>2 DEF Unlocked
  <1>3. Rest
    BY DEF IInv, Unlocked
  <1> USE OpLogAssumption, <1>1, <1>3 DEF Typed, HeadsState, PC, ReturnSet,
          SomeHead, Persisted, build_node, Goto, disk, history, counters
  <1>4. CASE Append_(p)
    BY <1>4 DEF Append_
  <1>5. CASE Pop(p)
    BY <1>5 DEF Pop
  <1>6. CASE MigrateHeadsExist(p)
    BY <1>6 DEF MigrateHeadsExist
  <1>7. CASE ProjectionRead(p)
    BY <1>7 DEF ProjectionRead
  <1>8. CASE ProjectionWrite(p)
    BY <1>8 DEF ProjectionWrite
  <1>9. CASE Load(p)
    BY <1>9 DEF Load
  <1>10. CASE Lock(p)
    BY <1>10 DEF Lock
  <1>11. CASE LockTimeout(p)
    BY <1>11 DEF LockTimeout
  <1>12. CASE CompareMismatch(p)
    BY <1>12 DEF CompareMismatch
  <1>13. CASE CompareMatch(p)
    BY <1>13 DEF CompareMatch
  <1>14. CASE Unlock(p)
    BY <1>14 DEF Unlock
  <1>15. CASE PopLoad(p)
    BY <1>15 DEF PopLoad
  <1>16. CASE Crash(p)
    BY <1>16 DEF Crash
  <1>17. CASE CanReap(p)
    BY <1>17 DEF CanReap
  <1>18. CASE Reap(p)
    <2>1. robbed' \in BOOLEAN
      BY <1>18, Zenon DEF Reap
    <2> QED
      BY <1>18, <2>1 DEF Reap
  <1> QED
    BY <1>4, <1>5, <1>6, <1>7, <1>8, <1>9, <1>10, <1>11, <1>12, <1>13, <1>14, <1>15, <1>16, <1>17, <1>18
    DEF Quiet

\* A living holder that is robbed stays so.
LEMMA RobbedStays ==
  ASSUME NEW p \in Proc, Quiet(p) \/ Persist(p) \/ Publish(p) \/ PopWrite(p)
  PROVE  robbed => robbed'
  BY DEF Quiet, Append_, Pop, MigrateHeadsExist, ProjectionRead, ProjectionWrite, Load, Lock,
         CanReap, Reap, LockTimeout, CompareMismatch, CompareMatch, Unlock, PopLoad, Crash,
         Persist, Publish, PopWrite, disk, history

\* They keep the exclusion: a dead process is in no critical section, and a
\* marker that was not a living holder's protected nobody.
LEMMA QuietExcluding ==
  ASSUME IInv, NEW p \in Proc, Quiet(p), ~robbed'
  PROVE  Excluding'
  <1>1. UNCHANGED <<headsFile, store, chain>> /\ load_heads_state = headsFile
        /\ headsFile # Missing
    BY QuietUnchanged, HeadsThere DEF IInv, Unlocked
  <1>2. LockHeld /\ Current /\ Chained /\ Typed /\ ReturnSet
    BY RobbedStays DEF IInv, Unlocked, Excluding
  <1>3. Chained'
    BY <1>1, <1>2 DEF Chained, Tip, IsChain
  <1> SUFFICES LockHeld' /\ Current'
    BY <1>3 DEF Excluding
  <1> USE OpLogAssumption, <1>1, <1>2 DEF Typed, HeadsState, PC, ReturnSet, LockHeld, Critical,
          Current, Goto, disk, history, counters
  <1>4. CASE Append_(p)
    BY <1>4 DEF Append_
  <1>5. CASE Pop(p)
    BY <1>5 DEF Pop
  <1>6. CASE MigrateHeadsExist(p)
    BY <1>6 DEF MigrateHeadsExist
  <1>7. CASE ProjectionRead(p)
    BY <1>7 DEF ProjectionRead
  <1>8. CASE ProjectionWrite(p)
    BY <1>8 DEF ProjectionWrite
  <1>9. CASE Load(p)
    BY <1>9 DEF Load
  <1>10. CASE Lock(p)
    BY <1>10 DEF Lock
  <1>11. CASE LockTimeout(p)
    BY <1>11 DEF LockTimeout
  <1>12. CASE CompareMismatch(p)
    BY <1>12 DEF CompareMismatch
  <1>13. CASE CompareMatch(p)
    BY <1>13 DEF CompareMatch
  <1>14. CASE Unlock(p)
    BY <1>14 DEF Unlock
  <1>15. CASE PopLoad(p)
    BY <1>15 DEF PopLoad
  <1>16. CASE Crash(p)
    BY <1>16 DEF Crash
  <1>17. CASE CanReap(p)
    BY <1>17 DEF CanReap
  <1>18. CASE Reap(p)
    <2>1. lock = None \/ pc[lock] = "dead"
      BY <1>18, Zenon DEF Reap
    <2>2. \A q \in Proc : ~Critical(q)
      BY <2>1
    <2> QED
      BY <1>18, <2>2 DEF Reap
  <1> QED
    BY <1>4, <1>5, <1>6, <1>7, <1>8, <1>9, <1>10, <1>11, <1>12, <1>13, <1>14, <1>15, <1>16, <1>17, <1>18
    DEF Quiet

\* Both together.
LEMMA QuietStep ==
  ASSUME IInv, NEW p \in Proc, Quiet(p)
  PROVE  IInv'
  BY QuietUnlocked, QuietExcluding, Zenon DEF IInv

\* The new node's parents are heads that were loaded, and so on disk.
LEMMA PersistStep ==
  ASSUME IInv, NEW p \in Proc, Persist(p)
  PROVE  IInv'
  <1> DEFINE n == build_node(op[p], loaded[p].heads)
  <1> USE OpLogAssumption DEF Persist
  <1>0. Unlocked /\ (robbed \/ Excluding) /\ robbed' = robbed
    BY DEF IInv, history
  <1>1. store' = store \cup {n} /\ n.op \in 0..MaxOps /\ n.parents \subseteq store
    BY <1>0 DEF build_node, Unlocked, Typed, HeadsState
  <1>2. Typed'
    BY <1>0, <1>1 DEF Unlocked, Typed, HeadsState, PC, Goto, disk, history, counters
  <1>3. ReturnSet' /\ SomeHead'
    BY <1>0 DEF Unlocked, Typed, PC, ReturnSet, SomeHead, Goto, history, counters
  <1>4. Persisted'
    BY <1>0, <1>1 DEF Unlocked, Typed, PC, Persisted, Goto, build_node
  <1>5. Closed'
    BY <1>0, <1>1 DEF Unlocked, Closed
  <1>6. ASSUME Excluding PROVE Excluding'
    <2>1. chain' = chain /\ headsFile' = headsFile /\ chain \in Seq(store')
      BY <1>1, <1>6, SeqMonotonic DEF Excluding, Chained, history
    <2>2. Chained'
      BY <1>6, <2>1 DEF Excluding, Chained, Tip, IsChain
    <2>3. LockHeld' /\ Current'
      BY <1>0, <1>6 DEF Excluding, Unlocked, Typed, PC, LockHeld, Critical, Current, Goto, history, counters
    <2> QED
      BY <2>2, <2>3 DEF Excluding
  <1> QED
    BY <1>0, <1>2, <1>3, <1>4, <1>5, <1>6 DEF IInv, Unlocked

\* What append writes names nodes on disk.
LEMMA PublishUnlocked ==
  ASSUME IInv, NEW p \in Proc, Publish(p)
  PROVE  Unlocked' /\ robbed' = robbed
  <1> DEFINE n == build_node(op[p], loaded[p].heads)
  <1> USE OpLogAssumption DEF IInv, Unlocked, Publish
  <1>1. loaded[p] \in HeadsState /\ n \in store
    BY DEF Typed, Persisted
  <1>2. headsFile' = [epoch |-> loaded[p].epoch + 1, heads |-> (loaded[p].heads \ n.parents) \cup {n}]
    BY DEF next_heads
  <1>3. headsFile' \in HeadsState'
    BY <1>1, <1>2 DEF HeadsState
  <1>4. Typed'
    BY <1>3 DEF Typed, HeadsState, PC, Goto, counters
  <1>5. ReturnSet' /\ SomeHead'
    BY DEF Typed, PC, ReturnSet, SomeHead, Goto
  <1>6. Persisted' /\ Closed'
    BY DEF Typed, PC, Persisted, Closed, Goto, build_node
  <1> QED
    BY <1>4, <1>5, <1>6

\* Append extends the chain: the parents of the node are the present heads.
LEMMA PublishStep ==
  ASSUME IInv, NEW p \in Proc, Publish(p)
  PROVE  IInv' /\ (robbed \/ headsFile'.epoch = headsFile.epoch + 1)
  <1>0. SUFFICES ASSUME Unlocked, Excluding
                 PROVE  Excluding' /\ headsFile'.epoch = headsFile.epoch + 1
    BY PublishUnlocked, Zenon DEF IInv
  <1> DEFINE n == build_node(op[p], loaded[p].heads)
  <1> USE OpLogAssumption, <1>0 DEF Unlocked, Excluding, Publish
  <1>1. loaded[p] = headsFile /\ lock = p /\ n \in store
    BY DEF Current, LockHeld, Critical, Persisted
  <1>2. n.parents = headsFile.heads
    BY <1>1 DEF build_node
  <1>3. headsFile' = [epoch |-> headsFile.epoch + 1, heads |-> {n}]
    BY <1>1, <1>2 DEF next_heads
  <1>4. chain' = Append(chain, n)
    OBVIOUS
  <1>6. LockHeld'
    BY <1>1 DEF Typed, PC, ReturnSet, LockHeld, Critical, Goto
  \* Nobody else is between its comparison and its write.
  <1>7. Current'
    BY <1>1 DEF Typed, PC, LockHeld, Critical, Current, Goto
  <1>9. Chained'
    <2>1. /\ chain' \in Seq(store)
          /\ Tip(chain') = {n}
          /\ IsChain(chain')
      BY <1>1, <1>2, <1>4, ChainAppend DEF Chained
    <2> QED
      BY <1>3, <2>1 DEF Chained
  <1>10. headsFile'.epoch = headsFile.epoch + 1
    BY <1>3
  <1> QED
    BY <1>6, <1>7, <1>9, <1>10

\* There is a newest one among some nodes.
LEMMA NewestFound ==
  ASSUME NEW S, S # {}, \A n \in S : n.op \in 0..MaxOps
  PROVE  Newest(S) \in S
  <1> DEFINE Less == {ss \in Nat \X Nat : ss[1] < ss[2]}
             Ages == {MaxOps - n.op : n \in S}
  <1>1. IsWellFoundedOn(Less, Nat)
    BY NatLessThanWellFounded DEF OpToRel
  <1>2. Ages # {} /\ Ages \subseteq Nat
    BY OpLogAssumption
  <1>3. PICK a \in Ages : \A b \in Ages : ~(<<b, a>> \in Less)
    <2> HIDE DEF Less, Ages
    <2> QED
      BY <1>1, <1>2, WFMin, Zenon
  <1>4. PICK n \in S : a = MaxOps - n.op
    BY <1>3
  <1>5. \A m \in S : m.op <= n.op
    <2> TAKE m \in S
    <2>1. MaxOps - m.op \in Ages /\ MaxOps - m.op \in Nat /\ a \in Nat
      BY <1>2, <1>3
    <2>2. ~(MaxOps - m.op < a)
      BY <1>3, <2>1
    <2> QED
      BY <1>4, <2>2, OpLogAssumption
  <1> QED
    BY <1>5, Zenon DEF Newest

\* What pop writes names nodes on disk: it takes a head away for its parents.
LEMMA PopWriteUnlocked ==
  ASSUME IInv, NEW p \in Proc, PopWrite(p)
  PROVE  Unlocked' /\ robbed' = robbed
  <1> DEFINE heads == loaded[p].heads
             selected == Newest(heads)
  <1> USE OpLogAssumption DEF IInv, Unlocked, PopWrite
  <1>1. loaded[p] \in HeadsState /\ heads # {} /\ heads \subseteq store
    BY DEF Typed, SomeHead, HeadsState
  <1>2. \A n \in heads : n.op \in 0..MaxOps /\ n.parents \subseteq store
    BY <1>1 DEF Closed
  <1>3. selected \in heads
    BY <1>1, <1>2, NewestFound
  <1>4. headsFile' = [epoch |-> loaded[p].epoch + 1, heads |-> (heads \ {selected}) \cup selected.parents]
    OBVIOUS
  <1>5. headsFile' \in HeadsState'
    BY <1>1, <1>2, <1>3, <1>4 DEF HeadsState
  <1>7. Typed'
    BY <1>5 DEF Typed, HeadsState, PC, Goto, counters
  <1>8. ReturnSet' /\ SomeHead'
    BY <1>1 DEF Typed, PC, ReturnSet, SomeHead, Goto
  <1>9. Persisted' /\ Closed'
    BY DEF Typed, PC, Persisted, Closed, Goto, build_node
  <1> QED
    BY <1>7, <1>8, <1>9

\* Pop takes the end of the chain away: the one head gives way to its parent.
LEMMA PopWriteStep ==
  ASSUME IInv, NEW p \in Proc, PopWrite(p)
  PROVE  IInv' /\ (robbed \/ headsFile'.epoch = headsFile.epoch + 1)
  <1>0. SUFFICES ASSUME Unlocked, Excluding
                 PROVE  Excluding' /\ headsFile'.epoch = headsFile.epoch + 1
    BY PopWriteUnlocked, Zenon DEF IInv
  <1> DEFINE last == chain[Len(chain)]
  <1> USE OpLogAssumption, <1>0 DEF Unlocked, Excluding, PopWrite
  <1>1. loaded[p] = headsFile /\ lock = p /\ headsFile.heads # {}
    BY DEF Current, SomeHead, LockHeld, Critical
  <1>2. chain \in Seq(store) /\ Len(chain) \in Nat \ {0} /\ headsFile.heads = {last}
    BY <1>1 DEF Chained, Tip
  <1>3. last \in store /\ last.op \in 0..MaxOps /\ last.parents \subseteq store
    BY <1>2 DEF Closed
  <1>4. Newest(headsFile.heads) = last
    BY <1>2, <1>3 DEF Newest
  <1>5. headsFile' = [epoch |-> headsFile.epoch + 1, heads |-> last.parents]
    BY <1>1, <1>2, <1>4
  <1>6. chain' = SubSeq(chain, 1, Len(chain) - 1)
    BY <1>2
  <1>8. LockHeld'
    BY <1>1 DEF Typed, PC, ReturnSet, LockHeld, Critical, Goto
  <1>9. Current'
    BY <1>1 DEF Typed, PC, LockHeld, Critical, Current, Goto
  <1>11. Chained'
    <2>1. /\ chain' \in Seq(store)
          /\ Tip(chain') = last.parents
          /\ IsChain(chain')
      BY <1>2, <1>6, ChainFront DEF Chained
    <2> QED
      BY <1>5, <2>1 DEF Chained
  <1>12. headsFile'.epoch = headsFile.epoch + 1
    BY <1>5
  <1> QED
    BY <1>8, <1>9, <1>11, <1>12

\* Nothing happens.
LEMMA StutterStep == ASSUME IInv, UNCHANGED vars PROVE IInv'
  BY DEF vars, IInv, Unlocked, Excluding, Typed, HeadsState, ReturnSet, LockHeld, Critical, Current, SomeHead,
         Persisted, build_node, Closed, Chained, Tip, IsChain

\* Every step keeps the invariant.
LEMMA IInvStep == IInv /\ [Next]_vars => IInv'
  BY NextCases, QuietStep, PersistStep, PublishStep, PopWriteStep, StutterStep
  DEF IInv, Unlocked

\* The invariant holds in every state.
LEMMA IInvHolds == ASSUME Established PROVE Spec => []IInv
  BY IInvInit, IInvStep, PTL DEF Spec

\* Once heads.bin exists, every published head and every ancestor of it is on
\* disk at every step of append and pop, and wherever a process dies.
THEOREM StoreAlwaysClosed == ASSUME Established PROVE Spec => []StoreClosed
  <1>1. IInv => StoreClosed
    BY DEF IInv, Unlocked, Typed, HeadsState, Closed, StoreClosed
  <1> QED
    BY <1>1, IInvHolds, PTL

\* Once heads.bin exists, and until a living holder is robbed of publish.lock,
\* concurrent appends and pops never fork the log: the comparison of
\* fingerprints under the lock makes every publication the child of the one before.
THEOREM LogNeverForks == ASSUME Established PROVE Spec => []HeadsAreTip
  <1>1. IInv => HeadsAreTip
    BY DEF IInv, Excluding, Chained, IsChain, HeadsAreTip
  <1> QED
    BY <1>1, IInvHolds, PTL

\* Once heads.bin exists, and until a living holder is robbed of publish.lock,
\* its epoch counts its versions: no append or pop overwrites a heads state
\* that it has not read.
THEOREM EpochAlwaysGrows == ASSUME Established PROVE Spec => EpochGrows
  <1>1. IInv /\ [Next]_vars =>
          (headsFile # headsFile' /\ headsFile # Missing
             => robbed \/ headsFile'.epoch = headsFile.epoch + 1)
    <2> SUFFICES ASSUME IInv, [Next]_vars, headsFile # headsFile'
                 PROVE  robbed \/ headsFile'.epoch = headsFile.epoch + 1
      OBVIOUS
    <2>1. CASE \E p \in Proc : Publish(p) \/ PopWrite(p)
      BY <2>1, PublishStep, PopWriteStep
    <2>2. ASSUME NEW p \in Proc, Quiet(p) \/ Persist(p) PROVE FALSE
      BY <2>2, QuietUnchanged DEF Persist
    <2>3. CASE UNCHANGED vars
      BY <2>3 DEF vars
    <2> QED
      BY <2>1, <2>2, <2>3, NextCases DEF IInv, Unlocked
  <1> QED
    BY <1>1, IInvHolds, PTL DEF Spec, EpochGrows

-----------------------------------------------------------------------------
(* Who can be robbed.  A process on its way to remove a marker has seen a  *)
(* dead one; the marker it removes from a living holder is a third's.      *)

\* A process about to remove a marker does not hold it, and somebody is dead.
Reaping ==
    /\ Typed /\ ReturnSet
    /\ \A p \in Proc : lock = p => pc[p] = "dead" \/ Critical(p)
    /\ \A p \in Proc : pc[p] \in {"reap", "popreap"} => \E q \in Proc : pc[q] = "dead"

\* Every step keeps it.
LEMMA ReapingStep ==
  ASSUME Reaping, Typed', ReturnSet', [Next]_vars
  PROVE  Reaping'
  <1> USE OpLogAssumption DEF Reaping
  <1>1. CASE UNCHANGED vars
    BY <1>1 DEF vars, Critical
  <1> SUFFICES ASSUME NEW p \in Proc, Quiet(p) \/ Persist(p) \/ Publish(p) \/ PopWrite(p)
               PROVE  Reaping'
    BY <1>1, NextCases
  <1>2. \A q \in Proc \ {p} : pc'[q] = pc[q] /\ return'[q] = return[q]
    BY DEF Typed, Quiet, Append_, Pop, MigrateHeadsExist, ProjectionRead, ProjectionWrite,
           Load, Lock, CanReap, Reap, LockTimeout, CompareMismatch, CompareMatch, Unlock,
           PopLoad, Crash, Persist, Publish, PopWrite, Goto
  <1>3. pc[p] # "dead"
    BY DEF Quiet, Append_, Pop, MigrateHeadsExist, ProjectionRead, ProjectionWrite,
           Load, Lock, CanReap, Reap, LockTimeout, CompareMismatch, CompareMatch, Unlock,
           PopLoad, Crash, Persist, Publish, PopWrite
  <1>4. lock' = p => pc'[p] = "dead" \/ Critical(p)'
    BY DEF Typed, PC, ReturnSet, Critical, Quiet, Append_, Pop, MigrateHeadsExist, ProjectionRead,
           ProjectionWrite, Load, Lock, CanReap, Reap, LockTimeout, CompareMismatch, CompareMatch,
           Unlock, PopLoad, Crash, Persist, Publish, PopWrite, Goto, disk, history, counters,
           load_heads_state
  <1>5. lock' = lock \/ lock' = p \/ lock' = None
    BY DEF Quiet, Append_, Pop, MigrateHeadsExist, ProjectionRead,
           ProjectionWrite, Load, Lock, CanReap, Reap, LockTimeout, CompareMismatch, CompareMatch,
           Unlock, PopLoad, Crash, Persist, Publish, PopWrite, disk
  <1>6. pc'[p] \in {"reap", "popreap"} => \E q \in Proc : pc[q] = "dead"
    BY DEF Typed, PC, ReturnSet, Quiet, Append_, Pop, MigrateHeadsExist, ProjectionRead,
           ProjectionWrite, Load, Lock, CanReap, Reap, LockTimeout, CompareMismatch, CompareMatch,
           Unlock, PopLoad, Crash, Persist, Publish, PopWrite, Goto
  <1>7. ASSUME NEW q \in Proc, lock' = q PROVE pc'[q] = "dead" \/ Critical(q)'
    BY <1>2, <1>4, <1>5, <1>7 DEF Critical
  <1>8. ASSUME NEW q \in Proc, pc'[q] \in {"reap", "popreap"} PROVE \E r \in Proc : pc'[r] = "dead"
    BY <1>2, <1>3, <1>6, <1>8
  <1> QED
    BY <1>7, <1>8

\* Two processes never rob each other: once heads.bin exists and there are no
\* more, publish.lock excludes wherever one of them dies, and the log keeps
\* all that is promised until a robbery.
THEOREM TwoNeverRob ==
  ASSUME Established, \A p, q, r \in Proc : p = q \/ q = r \/ p = r
  PROVE  Spec => []~robbed
  <1> DEFINE Safe == Reaping /\ ~robbed
  <1>1. Init => Reaping /\ ~robbed
    BY IInvInit, OpLogAssumption DEF Init, Reaping, IInv, Unlocked, Critical
  <1>2. IInv /\ IInv' /\ Reaping /\ ~robbed /\ [Next]_vars => Reaping' /\ ~robbed'
    <2> SUFFICES ASSUME IInv, IInv', Reaping, ~robbed, [Next]_vars PROVE Reaping' /\ ~robbed'
      OBVIOUS
    <2>1. Reaping'
      BY ReapingStep DEF IInv, Unlocked
    <2>2. ASSUME NEW p \in Proc, Reap(p) PROVE ~robbed'
      <3>1. PICK q \in Proc : pc[q] = "dead" /\ q # p
        BY <2>2 DEF Reaping, Reap
      <3>2. lock # p
        BY <2>2 DEF Reaping, Reap, Critical
      <3>3. lock = None \/ lock = q
        BY <3>1, <3>2 DEF Reaping, Typed
      <3>4. lock = None \/ pc[lock] = "dead"
        BY <3>1, <3>3
      <3> QED
        BY <2>2, <3>4, Zenon DEF Reap
    <2>3. ASSUME NEW p \in Proc, ~Reap(p), Quiet(p) \/ Persist(p) \/ Publish(p) \/ PopWrite(p)
          PROVE  ~robbed'
      BY <2>3 DEF Quiet, Append_, Pop, MigrateHeadsExist, ProjectionRead, ProjectionWrite, Load,
         Lock, CanReap, LockTimeout, CompareMismatch, CompareMatch, Unlock, PopLoad, Crash,
         Persist, Publish, PopWrite, disk, history
    <2>4. CASE UNCHANGED vars
      <3>1. robbed = robbed'
        BY <2>4 DEF vars
      <3> QED
        BY <2>1, <3>1
    <2> QED
      BY <2>1, <2>2, <2>3, <2>4, NextCases DEF IInv, Unlocked
  <1> QED
    BY <1>1, <1>2, IInvHolds, PTL DEF Spec

-----------------------------------------------------------------------------
(* What readers find.  reachable and Publications follow the parents from  *)
(* heads.bin, level by level; over a chain this gives its operations, as   *)
(* long as it is not longer than the levels: each operation is published   *)
(* once.  read_all sorts them by time.                                     *)

\* The nodes k parents away from a set of heads, for each k.
Generations(heads) ==
    LET level[k \in 0..MaxOps] ==
          IF k = 0 THEN heads ELSE UNION {n.parents : n \in level[k-1]}
    IN  level

\* A chain is found again by following the parents from its tip, one node a level.
LEMMA GenerationsOfChain ==
  ASSUME NEW S, NEW c \in Seq(S), IsChain(c)
  PROVE  Generations(Tip(c)) = [k \in 0..MaxOps |-> IF k < Len(c) THEN {c[Len(c) - k]} ELSE {}]
  <1> DEFINE g == [k \in 0..MaxOps |-> IF k < Len(c) THEN {c[Len(c) - k]} ELSE {}]
             f == Generations(Tip(c))
  <1> USE OpLogAssumption
  <1>1. ASSUME NEW k \in 0..MaxOps
        PROVE  g[k] = IF k = 0 THEN Tip(c) ELSE UNION {n.parents : n \in g[k-1]}
    <2>1. CASE k = 0
      BY <2>1, EmptySeq DEF Tip
    <2>2. CASE k # 0 /\ k - 1 < Len(c)
      <3>1. Len(c) - (k - 1) \in 1..Len(c) /\ k - 1 \in 0..MaxOps
        BY <2>2
      <3>2. g[k-1] = {c[Len(c) - (k - 1)]}
        BY <2>2, <3>1
      <3>3. UNION {n.parents : n \in g[k-1]} = c[Len(c) - (k - 1)].parents
        BY <3>2
      <3>4. c[Len(c) - (k - 1)].parents = IF Len(c) - (k - 1) = 1 THEN {} ELSE {c[(Len(c) - (k - 1)) - 1]}
        BY <3>1, Zenon DEF IsChain
      <3>5. (Len(c) - (k - 1) = 1 <=> ~(k < Len(c))) /\ (Len(c) - (k - 1)) - 1 = Len(c) - k
        BY <2>2
      <3> QED
        BY <2>2, <3>3, <3>4, <3>5
    <2>3. CASE k # 0 /\ ~(k - 1 < Len(c))
      <3>1. k - 1 \in 0..MaxOps /\ ~(k < Len(c))
        BY <2>3
      <3>2. g[k-1] = {} /\ g[k] = {}
        BY <2>3, <3>1
      <3> QED
        BY <2>3, <3>2
    <2> QED
      BY <2>1, <2>2, <2>3
  <1>2. g = [k \in 0..MaxOps |-> IF k = 0 THEN Tip(c) ELSE UNION {n.parents : n \in g[k-1]}]
    <2>1. g = [k \in 0..MaxOps |-> g[k]]
      BY Zenon
    <2> HIDE DEF g
    <2> QED
      BY <1>1, <2>1, Zenon
  <1>3. f = [k \in 0..MaxOps |-> IF k = 0 THEN Tip(c) ELSE UNION {n.parents : n \in f[k-1]}]
    <2> HIDE DEF g
    <2> QED
      BY <1>2, Zenon DEF Generations
  <1> HIDE DEF g, f
  <1>4. 0..MaxOps \subseteq {k \in 0..MaxOps : f[k] = g[k]}
    <2> DEFINE Same == {k \in 0..MaxOps : f[k] = g[k]}
    <2>1. 0 \in Same
      <3>1. 0 \in 0..MaxOps
        OBVIOUS
      <3>2. f[0] = Tip(c) /\ g[0] = Tip(c)
        BY <3>1, <1>2, <1>3, Zenon
      <3> QED
        BY <3>1, <3>2
    <2>2. ASSUME NEW k \in 1..MaxOps, k - 1 \in Same PROVE k \in Same
      <3>1. k \in 0..MaxOps /\ k # 0
        OBVIOUS
      <3>2. f[k] = UNION {n.parents : n \in f[k-1]} /\ g[k] = UNION {n.parents : n \in g[k-1]}
        BY <3>1, <1>2, <1>3, Zenon
      <3> QED
        BY <2>2, <3>1, <3>2
    <2> HIDE DEF Same
    <2>3. 0..MaxOps \subseteq Same
      BY <2>1, <2>2, UpToInduction
    <2> QED
      BY <2>3 DEF Same
  <1>5. f = g
    <2>1. f = [k \in 0..MaxOps |-> f[k]] /\ g = [k \in 0..MaxOps |-> g[k]]
      BY <1>2, <1>3, Zenon
    <2>2. \A k \in 0..MaxOps : f[k] = g[k]
      BY <1>4
    <2> QED
      BY <2>1, <2>2, Zenon
  <1> QED
    BY <1>5 DEF f, g

\* An append under way, whose operation is not published yet.
Appending(p) ==
    \/ pc[p] \in {"load", "persist", "lock", "reap", "compare", "publish"}
    \/ pc[p] = "migrate" /\ return[p] = "load"

\* An append that has published, and will be acknowledged.
Published(p) ==
    \/ pc[p] = "unlock"
    \/ pc[p] \in {"projread", "projwrite"} /\ return[p] = "idle"

\* Operations are numbered by the clock.
Numbered ==
    /\ clock \in 0..MaxOps
    /\ \A p \in Proc : op[p] \in 0..clock /\ (Appending(p) => op[p] # 0)
    /\ \A i \in 1..Len(chain) : chain[i].op \in 1..clock

\* Each operation is published once.
Once ==
    /\ \A i, j \in 1..Len(chain) : chain[i].op = chain[j].op => i = j
    /\ \A p \in Proc : Appending(p) =>
         /\ \A i \in 1..Len(chain) : chain[i].op # op[p]
         /\ \A q \in Proc : Appending(q) /\ op[q] = op[p] => q = p

\* What was acknowledged, or will be, is in the chain until it is popped.
Kept ==
    /\ acked \ popped \subseteq {chain[i].op : i \in 1..Len(chain)}
    /\ \A p \in Proc : Published(p) /\ op[p] \notin popped =>
         op[p] \in {chain[i].op : i \in 1..Len(chain)}

Counted == Numbered /\ Once /\ Kept

\* No operation has been made yet.
LEMMA CountedInit == ASSUME Established PROVE Init => Counted
  <1> SUFFICES ASSUME Init PROVE Counted
    OBVIOUS
  <1>1. chain = <<>> /\ Len(chain) = 0
    BY DEF Init
  <1> QED
    BY <1>1, OpLogAssumption DEF Init, Counted, Numbered, Once, Kept, Appending, Published

\* What is counted depends on who appends and who has published, and these only
\* become fewer.
LEMMA CountedKept ==
  ASSUME Counted, UNCHANGED <<chain, clock, op, popped>>,
         \A q \in Proc : Appending(q)' => Appending(q),
         \A q \in Proc : Published(q)' => Published(q),
         \A o \in acked' : o \in acked \/ \E q \in Proc : Published(q) /\ op[q] = o
  PROVE  Counted'
  <1>1. Numbered'
    BY DEF Counted, Numbered
  <1>2. Once'
    BY DEF Counted, Once
  <1>3. Kept'
    <2>1. \A o \in acked' \ popped' : o \in {chain[i].op : i \in 1..Len(chain)}
      BY Zenon DEF Counted, Kept
    <2> QED
      BY <2>1 DEF Counted, Kept
  <1> QED
    BY <1>1, <1>2, <1>3 DEF Counted

\* Steps that leave the chain alone leave its length alone.
LEMMA QuietCounted ==
  ASSUME Unlocked, Excluding, Counted, NEW p \in Proc, Quiet(p)
  PROVE  Counted'
  <1>1. UNCHANGED <<headsFile, store, chain>> /\ headsFile # Missing /\ Typed
    BY QuietUnchanged, HeadsThere DEF Unlocked
  <1>2. ReturnSet
    BY DEF Unlocked
  <1>4. CASE Append_(p)
    <2> USE OpLogAssumption, <1>1, <1>2 DEF Typed, PC, ReturnSet, Counted, Numbered, Once, Kept,
            Appending, Published, Goto, disk, history, counters
    <2>1. /\ clock \in Nat /\ clock' = clock + 1 /\ clock' \in 0..MaxOps /\ op'[p] = clock'
          /\ pc'[p] = "migrate" /\ return'[p] = "load"
          /\ \A q \in Proc \ {p} : op'[q] = op[q] /\ pc'[q] = pc[q] /\ return'[q] = return[q]
          /\ UNCHANGED <<chain, acked, popped>>
      BY <1>4 DEF Append_
    <2>2. Numbered'
      BY <2>1
    <2>3. Once'
      <3>1. \A q \in Proc : Appending(q)' => (q = p \/ Appending(q))
        BY <2>1
      <3>2. \A q \in Proc : op[q] # clock'
        BY <2>1
      <3>3. \A i \in 1..Len(chain) : chain[i].op # clock'
        BY <2>1
      <3> HIDE DEF Appending, Published, Goto, Typed, PC, ReturnSet, Numbered, Kept
      <3> QED
        BY <2>1, <3>1, <3>2, <3>3
    <2>4. Kept'
      <3>1. \A q \in Proc : Published(q)' => Published(q) /\ op'[q] = op[q]
        BY <2>1
      <3> HIDE DEF Appending, Published, Goto, Typed, PC, ReturnSet, Numbered, Once
      <3> QED
        BY <2>1, <3>1
    <2> QED
      BY <2>2, <2>3, <2>4
  <1>5. CASE Pop(p)
    <2>1. \A q \in Proc : (Appending(q)' => Appending(q)) /\ (Published(q)' => Published(q))
      BY <1>5, <1>1, <1>2 DEF Pop, Appending, Published, Goto, Typed, ReturnSet
    <2>2. UNCHANGED <<chain, clock, op, popped, acked>>
      BY <1>5 DEF Pop, disk, history, counters
    <2> QED
      BY <2>1, <2>2, CountedKept
  <1>6. CASE MigrateHeadsExist(p)
    <2>1. \A q \in Proc : (Appending(q)' => Appending(q)) /\ (Published(q)' => Published(q))
      BY <1>6, <1>1, <1>2 DEF MigrateHeadsExist, Appending, Published, Goto, Typed, ReturnSet
    <2>2. UNCHANGED <<chain, clock, op, popped, acked>>
      BY <1>6 DEF MigrateHeadsExist, disk, history, counters
    <2> QED
      BY <2>1, <2>2, CountedKept
  <1>7. CASE ProjectionRead(p)
    <2>1. \A q \in Proc : (Appending(q)' => Appending(q)) /\ (Published(q)' => Published(q))
      BY <1>7, <1>1, <1>2 DEF ProjectionRead, Appending, Published, Goto, Typed, ReturnSet
    <2>2. UNCHANGED <<chain, clock, op, popped, acked>>
      BY <1>7 DEF ProjectionRead, disk, history, counters
    <2> QED
      BY <2>1, <2>2, CountedKept
  <1>8. CASE ProjectionWrite(p)
    <2>1. \A q \in Proc : (Appending(q)' => Appending(q)) /\ (Published(q)' => Published(q))
      BY <1>8, <1>1, <1>2 DEF ProjectionWrite, Appending, Published, Goto, Typed, ReturnSet
    <2>2. UNCHANGED <<chain, clock, op, popped>>
      BY <1>8 DEF ProjectionWrite, counters
    <2>3. \A o \in acked' : o \in acked \/ \E q \in Proc : Published(q) /\ op[q] = o
      BY <1>8 DEF ProjectionWrite, Published
    <2> QED
      BY <2>1, <2>2, <2>3, CountedKept
  <1>9. CASE Load(p)
    <2>1. \A q \in Proc : (Appending(q)' => Appending(q)) /\ (Published(q)' => Published(q))
      BY <1>9, <1>1, <1>2 DEF Load, Appending, Published, Goto, Typed, ReturnSet
    <2>2. UNCHANGED <<chain, clock, op, popped, acked>>
      BY <1>9 DEF Load, disk, history, counters
    <2> QED
      BY <2>1, <2>2, CountedKept
  <1>10. CASE Lock(p)
    <2>1. \A q \in Proc : (Appending(q)' => Appending(q)) /\ (Published(q)' => Published(q))
      BY <1>10, <1>1, <1>2 DEF Lock, Appending, Published, Goto, Typed, ReturnSet
    <2>2. UNCHANGED <<chain, clock, op, popped, acked>>
      BY <1>10 DEF Lock, disk, history, counters
    <2> QED
      BY <2>1, <2>2, CountedKept
  <1>11. CASE LockTimeout(p)
    <2>1. \A q \in Proc : (Appending(q)' => Appending(q)) /\ (Published(q)' => Published(q))
      BY <1>11, <1>1, <1>2 DEF LockTimeout, Appending, Published, Goto, Typed, ReturnSet
    <2>2. UNCHANGED <<chain, clock, op, popped, acked>>
      BY <1>11 DEF LockTimeout, disk, history, counters
    <2> QED
      BY <2>1, <2>2, CountedKept
  <1>12. CASE CompareMismatch(p)
    <2>1. \A q \in Proc : (Appending(q)' => Appending(q)) /\ (Published(q)' => Published(q))
      BY <1>12, <1>1, <1>2 DEF CompareMismatch, Appending, Published, Goto, Typed, ReturnSet
    <2>2. UNCHANGED <<chain, clock, op, popped, acked>>
      BY <1>12 DEF CompareMismatch, disk, history, counters
    <2> QED
      BY <2>1, <2>2, CountedKept
  <1>13. CASE CompareMatch(p)
    <2>1. \A q \in Proc : (Appending(q)' => Appending(q)) /\ (Published(q)' => Published(q))
      BY <1>13, <1>1, <1>2 DEF CompareMatch, Appending, Published, Goto, Typed, ReturnSet
    <2>2. UNCHANGED <<chain, clock, op, popped, acked>>
      BY <1>13 DEF CompareMatch, disk, history, counters
    <2> QED
      BY <2>1, <2>2, CountedKept
  <1>14. CASE Unlock(p)
    <2>1. \A q \in Proc : (Appending(q)' => Appending(q)) /\ (Published(q)' => Published(q))
      BY <1>14, <1>1, <1>2 DEF Unlock, Appending, Published, Goto, Typed, ReturnSet
    <2>2. UNCHANGED <<chain, clock, op, popped, acked>>
      BY <1>14 DEF Unlock, disk, history, counters
    <2> QED
      BY <2>1, <2>2, CountedKept
  <1>15. CASE PopLoad(p)
    <2>1. \A q \in Proc : (Appending(q)' => Appending(q)) /\ (Published(q)' => Published(q))
      BY <1>15, <1>1, <1>2 DEF PopLoad, Appending, Published, Goto, Typed, ReturnSet
    <2>2. UNCHANGED <<chain, clock, op, popped, acked>>
      BY <1>15 DEF PopLoad, disk, history, counters
    <2> QED
      BY <2>1, <2>2, CountedKept
  <1>16. CASE Crash(p)
    <2>1. \A q \in Proc : (Appending(q)' => Appending(q)) /\ (Published(q)' => Published(q))
      BY <1>16, <1>1, <1>2 DEF Crash, Appending, Published, Goto, Typed, ReturnSet
    <2>2. UNCHANGED <<chain, clock, op, popped, acked>>
      BY <1>16 DEF Crash, disk, history, counters
    <2> QED
      BY <2>1, <2>2, CountedKept
  <1>17. CASE CanReap(p)
    <2>1. \A q \in Proc : (Appending(q)' => Appending(q)) /\ (Published(q)' => Published(q))
      BY <1>17, <1>1, <1>2 DEF CanReap, Appending, Published, Goto, Typed, ReturnSet
    <2>2. UNCHANGED <<chain, clock, op, popped, acked>>
      BY <1>17 DEF CanReap, disk, history, counters
    <2> QED
      BY <2>1, <2>2, CountedKept
  <1>18. CASE Reap(p)
    <2>1. \A q \in Proc : (Appending(q)' => Appending(q)) /\ (Published(q)' => Published(q))
      BY <1>18, <1>1, <1>2 DEF Reap, Appending, Published, Goto, Typed, ReturnSet
    <2>2. UNCHANGED <<chain, clock, op, popped, acked>>
      BY <1>18 DEF Reap, disk, history, counters
    <2> QED
      BY <2>1, <2>2, CountedKept
  <1> QED
    BY <1>4, <1>5, <1>6, <1>7, <1>8, <1>9, <1>10, <1>11, <1>12, <1>13, <1>14, <1>15, <1>16, <1>17, <1>18
    DEF Quiet

\* An append makes the chain longer by one.
LEMMA PublishCounted ==
  ASSUME Unlocked, Excluding, Counted, NEW p \in Proc, Publish(p)
  PROVE  /\ Counted'
         /\ chain' = Append(chain, build_node(op[p], loaded[p].heads))
  <1> DEFINE n == build_node(op[p], loaded[p].heads)
             m == Len(chain)
  <1>1. chain \in Seq(store) /\ n \in store /\ n.op = op[p] /\ Appending(p)
    BY DEF Unlocked, Excluding, Chained, Persisted, Publish, Appending, build_node
  <1>2. chain' = Append(chain, n)
    BY DEF Publish
  <1>3. m \in Nat /\ Len(chain') = m + 1 /\ chain'[m + 1] = n /\ \A i \in 1..m : chain'[i] = chain[i]
    BY <1>1, <1>2
  <1> HIDE DEF n, m
  <1>4. Numbered'
    BY <1>1, <1>3 DEF m, Counted, Numbered, Publish, Goto, counters, Appending, Unlocked, Typed
  <1>5. Once'
    BY <1>1, <1>3 DEF m, Counted, Once, Publish, Goto, Appending, Unlocked, Typed
  <1>6. Kept'
    <2>1. {chain'[i].op : i \in 1..Len(chain')} = {chain[i].op : i \in 1..Len(chain)} \cup {op[p]}
      BY <1>1, <1>3 DEF m
    <2> QED
      BY <2>1 DEF Counted, Kept, Publish, Goto, Published, Unlocked, Typed
  <1> QED
    BY <1>2, <1>4, <1>5, <1>6 DEF Counted, n

\* A pop makes it shorter.
LEMMA PopWriteCounted ==
  ASSUME Unlocked, Excluding, Counted, NEW p \in Proc, PopWrite(p)
  PROVE  /\ Counted'
         /\ chain # <<>>
         /\ chain' = SubSeq(chain, 1, Len(chain) - 1)
  <1> DEFINE m == Len(chain) - 1
             last == chain[Len(chain)]
  <1>1. loaded[p] = headsFile /\ headsFile.heads # {} /\ chain \in Seq(store)
    BY DEF Unlocked, Excluding, Current, SomeHead, Chained, PopWrite
  <1>2. chain # <<>> /\ headsFile.heads = {last} /\ last \in store
    BY <1>1 DEF Excluding, Chained, Tip
  <1>3. last.op \in 0..MaxOps
    BY <1>2 DEF Unlocked, Closed
  <1>4. Newest(headsFile.heads) = last
    BY <1>2, <1>3, OpLogAssumption DEF Newest
  <1>5. popped' = popped \cup {last.op} /\ chain' = SubSeq(chain, 1, m)
    BY <1>1, <1>2, <1>4 DEF PopWrite
  <1>6. m \in Nat /\ Len(chain) = m + 1 /\ last = chain[m + 1]
    BY <1>1, <1>2, EmptySeq
  <1>7. Len(chain') = m /\ \A i \in 1..m : chain'[i] = chain[i]
    BY <1>1, <1>5, <1>6, SubSeqProperties
  <1> HIDE DEF m, last
  <1>8. Numbered'
    <2>1. UNCHANGED <<clock, op>> /\ \A q \in Proc : Appending(q)' => Appending(q)
      BY DEF PopWrite, Goto, counters, Appending, Unlocked, Typed
    <2>2. \A i \in 1..Len(chain') : chain'[i].op \in 1..clock
      BY <1>6, <1>7 DEF Counted, Numbered
    <2> QED
      BY <2>1, <2>2 DEF Counted, Numbered
  <1>9. Once'
    BY <1>6, <1>7 DEF Counted, Once, PopWrite, Goto, Appending, Unlocked, Typed
  <1>10. Kept'
    <2>1. {chain[i].op : i \in 1..Len(chain)} \subseteq {chain'[i].op : i \in 1..Len(chain')} \cup {last.op}
      BY <1>6, <1>7
    <2> QED
      BY <1>5, <2>1 DEF Counted, Kept, PopWrite, Goto, Published, Unlocked, Typed
  <1> QED
    BY <1>2, <1>5, <1>8, <1>9, <1>10 DEF Counted, m

\* Every step keeps the count.
LEMMA CountedStep == Unlocked /\ Excluding /\ Counted /\ [Next]_vars => Counted'
  <1> SUFFICES ASSUME Unlocked, Excluding, Counted, [Next]_vars PROVE Counted'
    OBVIOUS
  <1> USE DEF Counted, Numbered, Once, Kept, Appending, Published
  <1>1. ASSUME NEW p \in Proc, Persist(p) PROVE Counted'
    BY <1>1 DEF Persist, Goto, history, counters, Unlocked, Typed
  <1>2. CASE UNCHANGED vars
    BY <1>2 DEF vars
  <1> QED
    BY <1>1, <1>2, NextCases, QuietCounted, PublishCounted, PopWriteCounted DEF Unlocked

\* The exclusion, with what is counted.
Ordered == Excluding /\ Counted

\* The chain is never longer than the operations made.
LEMMA OrderedHolds == ASSUME Established PROVE Spec => [](Unlocked /\ (robbed \/ Ordered))
  <1>1. Init => IInv /\ Ordered
    <2> SUFFICES ASSUME Init PROVE IInv /\ Ordered
      OBVIOUS
    <2>1. IInv /\ Counted /\ ~robbed
      BY IInvInit, CountedInit DEF Init
    <2> QED
      BY <2>1 DEF IInv, Ordered
  <1>2. IInv /\ (robbed \/ Ordered) /\ [Next]_vars => IInv' /\ (robbed' \/ Ordered')
    <2> SUFFICES ASSUME IInv, robbed \/ Ordered, [Next]_vars, ~robbed' PROVE Ordered'
      BY IInvStep
    <2>1. IInv' /\ ~robbed
      BY IInvStep, NextCases, RobbedStays DEF IInv, Unlocked, vars
    <2> QED
      BY <2>1, CountedStep DEF Ordered, IInv
  <1>3. IInv => Unlocked
    BY DEF IInv
  <1> QED
    BY <1>1, <1>2, <1>3, PTL DEF Spec

\* There are no more publications than levels to look at.
LEMMA ChainBounded == ASSUME Ordered PROVE Len(chain) \in 0..MaxOps
  <1> DEFINE m == Len(chain)
             f == [i \in 1..m |-> chain[i].op]
  <1>1. m \in Nat /\ MaxOps \in Nat
    BY OpLogAssumption DEF Ordered, Excluding, Chained
  <1>2. f \in [1..m -> 1..MaxOps]
    BY <1>1 DEF Ordered, Counted, Numbered
  <1>3. \A i, j \in 1..m : f[i] = f[j] => i = j
    BY DEF Ordered, Counted, Once
  <1> HIDE DEF f, m
  <1>4. /\ IsFiniteSet(1..m) /\ Cardinality(1..m) = m
        /\ IsFiniteSet(1..MaxOps) /\ Cardinality(1..MaxOps) = MaxOps
    BY <1>1, FS_Interval
  <1>5. ASSUME MaxOps < m PROVE FALSE
    <2>1. Cardinality(1..MaxOps) < Cardinality(1..m)
      BY <1>4, <1>5
    <2>2. \E i, j \in 1..m : i # j /\ f[i] = f[j]
      BY <1>2, <1>4, <2>1, FS_PigeonHole, Zenon
    <2> QED
      BY <1>3, <2>2
  <1> QED
    BY <1>1, <1>5 DEF m

\* The levels over the chain.
Levels == [k \in 0..MaxOps |-> IF k < Len(chain) THEN {chain[Len(chain) - k]} ELSE {}]

\* A reader goes up the chain level by level.
LEMMA LevelsFound == ASSUME Unlocked, Ordered PROVE Generations(load_heads_state.heads) = Levels
  <1>1. load_heads_state.heads = Tip(chain) /\ chain \in Seq(store) /\ IsChain(chain)
    BY HeadsThere DEF Unlocked, Ordered, Excluding, Chained
  <1> QED
    BY <1>1, GenerationsOfChain, Zenon DEF Levels

\* A reader finds every operation of the chain, and no other.
LEMMA ReadAllFinds ==
  ASSUME Unlocked, Ordered
  PROVE  reachable(load_heads_state.heads) = {chain[i].op : i \in 1..Len(chain)}
  <1>1. reachable(load_heads_state.heads) =
          {n.op : n \in UNION {Generations(load_heads_state.heads)[k] : k \in 0..MaxOps}}
    BY Zenon DEF reachable, Generations
  <1>2. Len(chain) \in 0..MaxOps /\ MaxOps \in Nat
    BY ChainBounded, OpLogAssumption
  <1>3. UNION {Levels[k] : k \in 0..MaxOps} = {chain[i] : i \in 1..Len(chain)}
    <2>1. ASSUME NEW i \in 1..Len(chain) PROVE \E k \in 0..MaxOps : chain[i] \in Levels[k]
      <3>1. Len(chain) - i \in 0..MaxOps /\ Len(chain) - i < Len(chain) /\ Len(chain) - (Len(chain) - i) = i
        BY <1>2
      <3>2. Levels[Len(chain) - i] = {chain[i]}
        BY <3>1 DEF Levels
      <3> QED
        BY <3>1, <3>2
    <2>2. ASSUME NEW k \in 0..MaxOps, NEW n \in Levels[k] PROVE \E i \in 1..Len(chain) : n = chain[i]
      <3>1. k < Len(chain) /\ n = chain[Len(chain) - k]
        BY <2>2 DEF Levels
      <3>2. Len(chain) - k \in 1..Len(chain)
        BY <1>2, <3>1
      <3> QED
        BY <3>1, <3>2
    <2> QED
      BY <2>1, <2>2
  <1>4. {n.op : n \in {chain[i] : i \in 1..Len(chain)}} = {chain[i].op : i \in 1..Len(chain)}
    OBVIOUS
  <1> QED
    BY <1>1, <1>3, <1>4, LevelsFound

ChainOps == [i \in 1..Len(chain) |-> chain[i].op]

\* The publications found again are the chain.
LEMMA PublicationsAreChain == ASSUME Unlocked, Ordered PROVE Publications = ChainOps
  <1> DEFINE depth == Cardinality({k \in 0..MaxOps : Levels[k] # {}})
  <1>1. Publications = [i \in 1..depth |-> (CHOOSE n \in Levels[depth - i] : TRUE).op]
    <2> DEFINE g == Generations(load_heads_state.heads)
               d == Cardinality({k \in 0..MaxOps : g[k] # {}})
    <2>1. Publications = [i \in 1..d |-> (CHOOSE n \in g[d - i] : TRUE).op]
      BY Zenon DEF Publications, Generations
    <2>2. g = Levels
      BY LevelsFound
    <2> QED
      BY <2>1, <2>2
  <1>2. Len(chain) \in 0..MaxOps /\ MaxOps \in Nat
    BY ChainBounded, OpLogAssumption
  <1>3. depth = Len(chain)
    <2>1. \A k \in 0..MaxOps : Levels[k] # {} <=> k < Len(chain)
      BY DEF Levels
    <2>2. {k \in 0..MaxOps : Levels[k] # {}} = 0..(Len(chain) - 1)
      BY <1>2, <2>1
    <2>3. 0 \in Int /\ Len(chain) - 1 \in Int
          /\ (IF 0 > Len(chain) - 1 THEN 0 ELSE (Len(chain) - 1) - 0 + 1) = Len(chain)
      BY <1>2
    <2>4. Cardinality(0..(Len(chain) - 1)) = Len(chain)
      BY <2>3, FS_Interval
    <2> QED
      BY <2>2, <2>4
  <1> HIDE DEF depth
  <1>4. ASSUME NEW i \in 1..Len(chain) PROVE (CHOOSE n \in Levels[Len(chain) - i] : TRUE).op = chain[i].op
    <2>1. Len(chain) - i \in 0..MaxOps /\ Len(chain) - i < Len(chain) /\ Len(chain) - (Len(chain) - i) = i
      BY <1>2
    <2>2. Levels[Len(chain) - i] = {chain[i]}
      BY <2>1 DEF Levels
    <2> QED
      BY <2>2
  <1> QED
    BY <1>1, <1>3, <1>4 DEF ChainOps

\* Some of the first numbers can be listed in order.
LEMMA OrderExists ==
  ASSUME NEW m \in Nat
  PROVE  \A ops \in SUBSET (1..m) : \E s \in [1..Cardinality(ops) -> ops] :
            \A i, j \in 1..Cardinality(ops) : i < j => s[i] < s[j]
  <1> DEFINE Listed(ops) == \E s \in [1..Cardinality(ops) -> ops] :
                              \A i, j \in 1..Cardinality(ops) : i < j => s[i] < s[j]
             Done == {k \in 0..m : \A ops \in SUBSET (1..k) : Listed(ops)}
  <1>1. 0 \in Done
    <2>1. SUFFICES ASSUME NEW ops \in SUBSET (1..0) PROVE Listed(ops)
      OBVIOUS
    <2>2. ops = {}
      BY <2>1
    <2>3. Cardinality(ops) = 0
      BY <2>2, FS_EmptySet
    <2> DEFINE s == [i \in 1..0 |-> i]
    <2>4. s \in [1..0 -> {}] /\ \A i, j \in 1..0 : i < j => s[i] < s[j]
      OBVIOUS
    <2> HIDE DEF s
    <2> QED
      BY <2>2, <2>3, <2>4
  <1>2. ASSUME NEW k \in 1..m, k - 1 \in Done PROVE k \in Done
    <2>1. SUFFICES ASSUME NEW ops \in SUBSET (1..k) PROVE Listed(ops)
      OBVIOUS
    <2>2. CASE k \notin ops
      <3>1. ops \in SUBSET (1..(k - 1))
        BY <2>2
      <3> HIDE DEF Listed
      <3> QED
        BY <1>2, <3>1
    <2>3. CASE k \in ops
      <3> DEFINE rest == ops \ {k}
                 c == Cardinality(rest)
      <3>1. rest \in SUBSET (1..(k - 1))
        OBVIOUS
      <3>2. Listed(rest)
        <4> HIDE DEF Listed, rest
        <4> QED
          BY <1>2, <3>1
      <3>3. PICK s \in [1..c -> rest] : \A i, j \in 1..c : i < j => s[i] < s[j]
        BY <3>2
      <3>4. IsFiniteSet(1..k)
        BY FS_Interval
      <3>5. IsFiniteSet(ops)
        BY <3>4, FS_Subset
      <3>6. c \in Nat /\ Cardinality(ops) = c + 1
        <4>1. IsFiniteSet(rest) /\ c = Cardinality(ops) - 1
          BY <2>3, <3>5, FS_RemoveElement
        <4>2. Cardinality(ops) \in Nat
          BY <3>5, FS_CardinalityType
        <4>3. c \in Nat
          BY <4>1, FS_CardinalityType
        <4> QED
          BY <4>1, <4>2, <4>3
      <3> HIDE DEF c
      <3> DEFINE t == [i \in 1..(c + 1) |-> IF i = c + 1 THEN k ELSE s[i]]
      <3>7. t \in [1..(c + 1) -> ops]
        BY <2>3, <3>3, <3>6
      <3>8. ASSUME NEW i \in 1..(c + 1), NEW j \in 1..(c + 1), i < j PROVE t[i] < t[j]
        <4>1. i \in 1..c /\ t[i] = s[i]
          BY <3>6, <3>8
        <4>0. s[i] \in 1..(k - 1)
          BY <3>1, <3>3, <4>1
        <4>2. CASE j = c + 1
          BY <4>0, <4>1, <4>2
        <4>3. CASE j # c + 1
          <5>1. j \in 1..c /\ t[j] = s[j]
            BY <3>6, <4>3
          <5> QED
            BY <3>3, <3>8, <4>1, <5>1
        <4> QED
          BY <4>2, <4>3
      <3> HIDE DEF t
      <3> QED
        BY <3>6, <3>7, <3>8
    <2> QED
      BY <2>2, <2>3
  <1> HIDE DEF Done, Listed
  <1>3. 0..m \subseteq Done
    BY <1>1, <1>2, UpToInduction
  <1>4. m \in Done
    BY <1>3
  <1> QED
    BY <1>4 DEF Done, Listed

\* The order of time has every operation, the older first.
LEMMA TimeOrder ==
  ASSUME NEW ops \in SUBSET (1..MaxOps)
  PROVE  LET s == in_time_order(ops)
         IN  /\ s \in Seq(ops)
             /\ {s[i] : i \in 1..Len(s)} = ops
             /\ \A i, j \in 1..Len(s) : i < j => s[i] < s[j]
  <1> DEFINE s == in_time_order(ops)
             c == Cardinality(ops)
  <1>1. s \in [1..c -> ops] /\ \A i, j \in 1..c : i < j => s[i] < s[j]
    <2>1. \E t \in [1..c -> ops] : \A i, j \in 1..c : i < j => t[i] < t[j]
      BY OrderExists, OpLogAssumption
    <2> QED
      BY <2>1, Zenon DEF in_time_order
  <1>2. MaxOps \in Nat /\ IsFiniteSet(1..MaxOps)
    BY FS_Interval, OpLogAssumption
  <1>3. IsFiniteSet(ops)
    BY <1>2, FS_Subset
  <1>4. c \in Nat
    BY <1>3, FS_CardinalityType
  <1> HIDE DEF s
  <1>5. ASSUME NEW o \in ops PROVE \E i \in 1..c : s[i] = o
    <2>1. SUFFICES ASSUME \A i \in 1..c : s[i] # o PROVE FALSE
      OBVIOUS
    <2> DEFINE rest == ops \ {o}
    <2>2. IsFiniteSet(rest) /\ Cardinality(rest) = c - 1
      BY <1>3, FS_RemoveElement
    <2> HIDE DEF c
    <2>3. s \in [1..c -> rest]
      BY <1>1, <2>1
    <2> HIDE DEF rest
    <2>4. IsFiniteSet(1..c) /\ Cardinality(1..c) = c
      BY <1>4, FS_Interval
    <2>5. Cardinality(rest) < Cardinality(1..c)
      BY <1>4, <2>2, <2>4
    <2>6. PICK i, j \in 1..c : i # j /\ s[i] = s[j]
      BY <2>2, <2>3, <2>4, <2>5, FS_PigeonHole, Zenon
    <2>7. s[i] \in 1..MaxOps /\ s[j] \in 1..MaxOps
      BY <1>1
    <2>8. i < j \/ j < i
      BY <1>4, <2>6
    <2> QED
      BY <1>1, <2>6, <2>7, <2>8
  <1> HIDE DEF c
  <1>6. s \in Seq(ops) /\ Len(s) = c
    BY <1>1, <1>4
  <1>7. {s[i] : i \in 1..c} = ops
    BY <1>1, <1>5
  <1> QED
    BY <1>1, <1>6, <1>7 DEF s

\* A reader finds the publications, sorted by time.
LEMMA ReadersList ==
  ASSUME Unlocked, Ordered
  PROVE  Log!Lists(read_all(load_heads_state.heads), Publications)
  <1> DEFINE ops == {chain[i].op : i \in 1..Len(chain)}
             s == in_time_order(ops)
  <1>1. Len(chain) \in Nat /\ ops \in SUBSET (1..MaxOps)
    BY ChainBounded, OpLogAssumption DEF Ordered, Counted, Numbered
  <1>2. read_all(load_heads_state.heads) = s
    BY ReadAllFinds, Zenon DEF read_all
  <1>3. {s[i] : i \in 1..Len(s)} = ops /\ \A i, j \in 1..Len(s) : i < j => s[i] < s[j]
    BY <1>1, TimeOrder
  <1>4. Publications = ChainOps
    BY PublicationsAreChain
  <1>5. {ChainOps[i] : i \in 1..Len(ChainOps)} = ops
    BY <1>1 DEF ChainOps
  <1> HIDE DEF ops, s
  <1> QED
    BY <1>2, <1>3, <1>4, <1>5 DEF Log!Lists

\* Once heads.bin exists, and until a living holder is robbed of publish.lock,
\* an operation whose append returned Ok is found by read_all until pop removes
\* it, however many appends race (oplog.rs:675).
THEOREM AppendsAreKept == ASSUME Established PROVE Spec => []NoLostAppend
  <1>1. Unlocked /\ (robbed \/ Ordered) => NoLostAppend
    BY ReadAllFinds DEF Ordered, Counted, Kept, NoLostAppend
  <1> QED
    BY <1>1, OrderedHolds, PTL

\* Once heads.bin exists, and until a living holder is robbed of publish.lock,
\* the log implements an atomic sequence: a publication adds one operation at
\* its end, a pop takes one away there, and no other step of any process, its
\* death included, changes it or what readers find, which is every operation
\* of it, the older first.
THEOREM LogAlwaysAtomic == ASSUME Established PROVE Spec => LogIsAtomic
  <1> DEFINE found == read_all(load_heads_state.heads)
             I == Unlocked /\ (robbed \/ Ordered)
  <1>1. Init => Log!Init
    <2> SUFFICES ASSUME Init PROVE Publications = <<>> /\ found = <<>>
      BY DEF Log!Init
    <2>1. chain = <<>> /\ IInv /\ Counted /\ ~robbed
      BY IInvInit, CountedInit DEF Init
    <2>2. Unlocked /\ Ordered
      BY <2>1 DEF IInv, Ordered
    <2>3. Publications = <<>>
      BY <2>1, <2>2, PublicationsAreChain DEF ChainOps
    <2>4. reachable(load_heads_state.heads) = {}
      BY <2>1, <2>2, ReadAllFinds
    <2>5. found \in Seq({})
      <3>1. {} \in SUBSET (1..MaxOps)
        OBVIOUS
      <3>2. in_time_order({}) \in Seq({})
        BY <3>1, TimeOrder
      <3> QED
        BY <2>4, <3>2 DEF read_all
    <2> HIDE DEF found
    <2>6. found = <<>>
      BY <2>5, EmptySeq
    <2> QED
      BY <2>3, <2>6
  <1>2. Unlocked /\ Ordered => Publications = ChainOps /\ Log!Lists(found, Publications)
    BY PublicationsAreChain, ReadersList
  <1>3. (Unlocked /\ Ordered => Publications = ChainOps /\ Log!Lists(found, Publications))'
    BY <1>2, PTL
  <1>4. I /\ I' /\ [Next]_vars => [robbed \/ Log!Next]_<<Publications, found>>
    <2> SUFFICES ASSUME I, I', [Next]_vars, ~robbed
                 PROVE  [Log!Next]_<<Publications, found>>
      BY Zenon
    <2>1. ASSUME NEW p \in Proc, Quiet(p) \/ Persist(p) PROVE UNCHANGED <<Publications, found>>
      <3>1. headsFile' = headsFile
        BY <2>1, QuietUnchanged DEF Persist
      <3> QED
        BY <3>1 DEF Publications, read_all, reachable, load_heads_state
    <2>2. CASE UNCHANGED vars
      <3>1. headsFile' = headsFile
        BY <2>2 DEF vars
      <3> QED
        BY <3>1 DEF Publications, read_all, reachable, load_heads_state
    <2>3. ASSUME NEW p \in Proc, Publish(p) \/ PopWrite(p) PROVE Log!Next
      <3>1. Unlocked /\ Excluding /\ Counted /\ chain \in Seq(store)
        BY DEF Ordered, Excluding, Chained
      <3>2. ~robbed' /\ Unlocked' /\ Ordered'
        BY <2>3 DEF Publish, PopWrite
      <3>3. Publications = ChainOps /\ Publications' = ChainOps' /\ Log!Lists(found', Publications')
        BY <1>2, <1>3, <3>1, <3>2 DEF Ordered, Log!Lists
      <3>4. CASE Publish(p)
        <4> DEFINE n == build_node(op[p], loaded[p].heads)
        <4>1. chain' = Append(chain, n) /\ n.op = op[p]
          BY <3>1, <3>4, PublishCounted DEF build_node
        <4>2. op[p] \in 1..MaxOps
          BY <3>1, <3>4, OpLogAssumption DEF Publish, Counted, Numbered, Appending, Unlocked, Typed
        <4> HIDE DEF n
        <4>3. ChainOps' = Append(ChainOps, op[p])
          BY <3>1, <4>1 DEF ChainOps
        <4> QED
          BY <3>3, <4>2, <4>3 DEF Log!Next, Log!Append1
      <3>5. CASE PopWrite(p)
        <4>1. chain # <<>> /\ chain' = SubSeq(chain, 1, Len(chain) - 1)
          BY <3>1, <3>5, PopWriteCounted
        <4>2. ChainOps # <<>> /\ ChainOps' = SubSeq(ChainOps, 1, Len(ChainOps) - 1)
          BY <3>1, <4>1 DEF ChainOps
        <4> QED
          BY <3>3, <4>2 DEF Log!Next, Log!Pop1
      <3> QED
        BY <2>3, <3>4, <3>5
    <2> QED
      BY <2>1, <2>2, <2>3, NextCases DEF Unlocked
  <1>5. ASSUME Established PROVE Spec => []I
    BY OrderedHolds
  <1> QED
    BY <1>1, <1>4, OrderedHolds, PTL DEF Spec, LogIsAtomic
=============================================================================

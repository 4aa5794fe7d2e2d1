------------------------- MODULE ObjectStoreProofs -------------------------
(* Proofs about ObjectStore, for every set of hashes and processes and every *)
(* bound, about the two caches in front of it, of every size, and about      *)
(* BlobIntake, for any number of requests and chunks.                        *)
EXTENDS StoredBytes, Cache, Induction, SequenceTheorems, FiniteSetTheorems, TLAPS

\* How far the temporary file of a process is, unless gc has unlinked it.
TempReady ==
  \A p \in Proc : temp[p] # Absent =>
    /\ pc[p] \in {"fill", "sync", "look", "rename"}
    /\ pc[p] \in {"sync", "look", "rename"} => temp[p].data = "whole"
    /\ pc[p] \in {"look", "rename"} => temp[p].synced

\* Every published file is synced, so that no power failure tears it.
Synced == \A k \in Key : file[k].synced

\* What was promised is there, and its name is synced.
PromisedSafe == promised \subseteq entrySafe /\ PromisedSurvives

\* The inductive invariant.  That a rename publishes whole bytes needs what the
\* calls before it have done to the temporary file; that they stay needs the
\* syncs of the file and of its name.
IInv == TypeOK /\ TempReady /\ Synced /\ PromisedSafe /\ ReadsAreSound

\* A missing file is a state of a file.
LEMMA AbsentIsFile == Absent \in File
  BY DEF Absent, File, Data

\* An empty store.
LEMMA IInvInit == ObjectsInit => IInv
  BY ObjectStoreAssumption, AbsentIsFile
  DEF ObjectsInit, IInv, TypeOK, TempReady, Synced, PromisedSafe, PromisedSurvives, ReadsAreSound,
      NoCall, Absent

\* A read that ends has looked at a file, and leaves everything but its answer
\* and the cache.
LEMMA CheckType ==
  ASSUME TypeOK, NEW p \in Proc, NEW op, NEW k \in Key, NEW retry \in {"idle", "second"},
         Check(p, op, k, retry)
  PROVE  /\ pc' \in [Proc -> {"idle", "mkdir", "open", "fill", "sync", "look", "rename", "syncdir", "second"}]
         /\ got' \in [Proc -> Data \cup {"none", "err", "ok", "dedup"}]
         /\ cache' \in [Proc -> SUBSET Key]
  <1> USE DEF TypeOK
  <1>1. CASE op = "change" \/ file[k].data = "whole"
    <2>1. file[k].data \in Data
      BY DEF File
    <2>2. Return(p, file[k].data) /\ cache' \in [Proc -> SUBSET Key]
      BY <1>1 DEF Check, Deliver
    <2> QED
      BY <2>1, <2>2 DEF Return, Go
  <1>2. CASE ~(op = "change" \/ file[k].data = "whole")
    BY <1>2 DEF Check, Return, Go
  <1> QED
    BY <1>1, <1>2

\* Types are kept.
LEMMA TypeStep == TypeOK /\ [ObjectsNext]_objectVars => TypeOK'
  <1> SUFFICES ASSUME TypeOK, [ObjectsNext]_objectVars PROVE TypeOK'
    OBVIOUS
  <1> USE ObjectStoreAssumption DEF TypeOK
  <1>1. ASSUME NEW p \in Proc, BeginWrite(p) PROVE TypeOK'
    <2>1. PICK op \in Writes, k \in Key :
            /\ call' = [call EXCEPT ![p] = [op |-> op, key |-> k]]
            /\ IF op = "write" /\ Exists(k) THEN Return(p, "dedup") ELSE Go(p, "mkdir") /\ UNCHANGED got
      BY <1>1 DEF BeginWrite
    <2>2. call' \in [Proc -> [op : Writes \cup Reads \cup {"none"}, key : Key]]
      BY <2>1
    <2>3. \/ Return(p, "dedup")
          \/ Go(p, "mkdir") /\ UNCHANGED got
      BY <2>1
    <2>4. /\ calls < MaxCalls /\ calls' = calls + 1
          /\ UNCHANGED <<file, entrySafe, shard, promised, temp, cache, faults>>
      BY <1>1 DEF BeginWrite, disk
    <2>5. calls' \in 0..MaxCalls
      BY <2>4
    <2>6. /\ pc' \in [Proc -> {"idle", "mkdir", "open", "fill", "sync", "look", "rename", "syncdir", "second"}]
          /\ got' \in [Proc -> Data \cup {"none", "err", "ok", "dedup"}]
      BY <2>3 DEF Return, Go
    <2> QED
      BY <2>2, <2>4, <2>5, <2>6
  <1>2. ASSUME NEW p \in Proc, BeginRead(p) PROVE TypeOK'
    <2>1. PICK op \in Reads, k \in Key :
            /\ call' = [call EXCEPT ![p] = [op |-> op, key |-> k]]
            /\ \/ Return(p, "whole") /\ UNCHANGED cache
               \/ Return(p, "err") /\ UNCHANGED cache
               \/ Check(p, op, k, IF k \in Large THEN "second" ELSE "idle")
      BY <1>2 DEF BeginRead
    <2>2. call' \in [Proc -> [op : Writes \cup Reads \cup {"none"}, key : Key]]
      BY <2>1
    <2>3. CASE Check(p, op, k, IF k \in Large THEN "second" ELSE "idle")
      BY <1>2, <2>2, <2>3, CheckType DEF BeginRead, disk
    <2>4. CASE (Return(p, "whole") \/ Return(p, "err")) /\ UNCHANGED cache
      BY <1>2, <2>2, <2>4 DEF BeginRead, disk, Return, Go, Data
    <2> QED
      BY <2>1, <2>3, <2>4
  <1>3. ASSUME NEW p \in Proc, WriteStep(p) PROVE TypeOK'
    <2>1. CASE CreateDir(p)
      BY <2>1 DEF CreateDir, AtStep, Go
    <2>2. CASE OpenTemp(p)
      <3>1. [data |-> "torn", synced |-> FALSE] \in File
        BY DEF File, Data
      <3>2. CASE call[p].key \in Object \ shard
        <4>1. Return(p, "err") /\ UNCHANGED <<disk, temp, calls, call, cache, faults>>
          BY <2>2, <3>2 DEF OpenTemp, AtStep
        <4> QED
          BY <4>1 DEF Return, Go, disk
      <3>3. CASE call[p].key \notin Object \ shard
        <4>1. /\ SetTemp(p, [data |-> "torn", synced |-> FALSE]) /\ Go(p, "fill")
              /\ UNCHANGED <<disk, got, calls, call, cache, faults>>
          BY <2>2, <3>3 DEF OpenTemp, AtStep
        <4> QED
          BY <4>1, <3>1 DEF Go, SetTemp, disk
      <3> QED
        BY <3>2, <3>3
    <2>3. CASE FillTemp(p)
      <3>1. [data |-> "whole", synced |-> FALSE] \in File
        BY DEF File, Data
      <3>2. temp' \in [Proc -> File]
        BY <2>3, <3>1 DEF FillTemp, SetTemp
      <3> QED
        BY <2>3, <3>2 DEF FillTemp, AtStep, Go, disk
    <2>4. CASE SyncTemp(p)
      BY <2>4 DEF SyncTemp, AtStep, Go, disk, File
    <2>5. CASE LookAgain(p)
      <3>1. CASE Exists(call[p].key)
        BY <2>5, <3>1, AbsentIsFile DEF LookAgain, AtStep, Return, Go, SetTemp, disk
      <3>2. CASE ~Exists(call[p].key)
        BY <2>5, <3>2 DEF LookAgain, AtStep, Go, disk
      <3> QED
        BY <3>1, <3>2
    <2>6. CASE Rename(p)
      <3>1. CASE temp[p] = Absent
        BY <2>6, <3>1 DEF Rename, AtStep, Return, Go
      <3>2. CASE temp[p] # Absent
        <4>1. /\ file' = [file EXCEPT ![call[p].key] = temp[p]] /\ SetTemp(p, Absent) /\ Go(p, "syncdir")
              /\ UNCHANGED <<entrySafe, shard, promised, got, calls, call, cache, faults>>
          BY <2>6, <3>2 DEF Rename, AtStep
        <4>2. file' \in [Key -> File] /\ temp' \in [Proc -> File]
          BY <4>1, AbsentIsFile DEF SetTemp
        <4> QED
          BY <4>1, <4>2 DEF Go
      <3> QED
        BY <3>1, <3>2
    <2>7. CASE SyncDir(p)
      BY <2>7 DEF SyncDir, AtStep, Return, Go
    <2> QED
      BY <1>3, <2>1, <2>2, <2>3, <2>4, <2>5, <2>6, <2>7 DEF WriteStep
  <1>4. ASSUME NEW p \in Proc, ReadAgain(p) PROVE TypeOK'
    BY <1>4, CheckType DEF ReadAgain, AtStep, disk
  <1>5. ASSUME NEW p \in Proc, Fail(p) PROVE TypeOK'
    BY <1>5, AbsentIsFile DEF Fail, AtStep, Return, Go, SetTemp, disk
  <1>6. ASSUME NEW p \in Proc, Crash(p) PROVE TypeOK'
    BY <1>6, AbsentIsFile DEF Crash, Go, SetTemp, disk
  <1>7. CASE Collect
    BY <1>7, AbsentIsFile DEF Collect, SetTemp, disk
  <1>8. CASE Rot
    BY <1>8 DEF Rot, File, Data
  <1>9. CASE PowerLoss
    <2>1. PICK lost \in SUBSET (Key \ entrySafe), torn \in SUBSET {k \in Key : ~file[k].synced} :
            file' = [k \in Key |-> IF k \in lost THEN Absent
                                   ELSE IF k \in torn /\ Exists(k) THEN [data |-> "torn", synced |-> TRUE]
                                   ELSE [file[k] EXCEPT !.synced = TRUE]]
      BY <1>9 DEF PowerLoss
    <2>2. [data |-> "torn", synced |-> TRUE] \in File
      BY DEF File, Data
    <2>3. ASSUME NEW k \in Key PROVE [file[k] EXCEPT !.synced = TRUE] \in File
      <3> DEFINE f == file[k]
      <3>1. f \in File
        OBVIOUS
      <3> HIDE DEF f
      <3>2. [f EXCEPT !.synced = TRUE] \in File
        BY <3>1 DEF File
      <3> QED
        BY <3>2 DEF f
    <2>4. file' \in [Key -> File]
      BY <2>1, <2>2, <2>3, AbsentIsFile
    <2> QED
      BY <1>9, <2>4, AbsentIsFile DEF PowerLoss
  <1>10. CASE UNCHANGED objectVars
    BY <1>10 DEF objectVars
  <1> QED
    BY <1>1, <1>2, <1>3, <1>4, <1>5, <1>6, <1>7, <1>8, <1>9, <1>10 DEF ObjectsNext, ProcNext

\* The calls before the rename have made the temporary file whole and synced it.
LEMMA TempReadyStep == TypeOK /\ TempReady /\ [ObjectsNext]_objectVars => TempReady'
  <1> SUFFICES ASSUME TypeOK, TempReady, [ObjectsNext]_objectVars PROVE TempReady'
    OBVIOUS
  <1> USE DEF TypeOK, TempReady
  <1>1. ASSUME NEW p \in Proc, pc[p] \in {"idle", "second"}, UNCHANGED temp,
               \A q \in Proc : q # p => pc'[q] = pc[q]
        PROVE  TempReady'
    BY <1>1
  <1>2. ASSUME NEW p \in Proc, BeginWrite(p) \/ BeginRead(p) \/ ReadAgain(p) PROVE TempReady'
    <2>1. pc[p] \in {"idle", "second"} /\ UNCHANGED temp
      BY <1>2 DEF BeginWrite, BeginRead, ReadAgain, AtStep
    <2>2. \E l \in {"idle", "second", "mkdir"} : Go(p, l)
      BY <1>2 DEF BeginWrite, BeginRead, ReadAgain, Check, Deliver, Return
    <2> QED
      BY <1>1, <2>1, <2>2 DEF Go
  <1>3. ASSUME NEW p \in Proc, WriteStep(p) PROVE TempReady'
    <2>1. CASE CreateDir(p)
      BY <2>1 DEF CreateDir, AtStep, Go
    <2>2. CASE OpenTemp(p)
      <3>1. \/ Go(p, "idle") /\ UNCHANGED temp
            \/ Go(p, "fill") /\ SetTemp(p, [data |-> "torn", synced |-> FALSE])
        BY <2>2 DEF OpenTemp, Return
      <3>2. pc[p] = "open"
        BY <2>2 DEF OpenTemp, AtStep
      <3> QED
        BY <3>1, <3>2 DEF Go, SetTemp
    <2>3. CASE FillTemp(p)
      <3>1. \/ temp[p] = Absent /\ UNCHANGED temp
            \/ SetTemp(p, [data |-> "whole", synced |-> FALSE])
        BY <2>3 DEF FillTemp
      <3>2. pc[p] = "fill" /\ Go(p, "sync")
        BY <2>3 DEF FillTemp, AtStep
      <3> QED
        BY <3>1, <3>2 DEF Go, SetTemp
    <2>4. CASE SyncTemp(p)
      <3>1. /\ pc[p] = "sync"
            /\ temp' = [temp EXCEPT ![p].synced = TRUE]
            /\ Go(p, "look") \/ Go(p, "rename")
        BY <2>4 DEF SyncTemp, AtStep
      <3>2. CASE temp[p] = Absent
        <4>1. temp' = temp
          BY <3>1, <3>2 DEF Absent
        <4> QED
          BY <3>1, <3>2, <4>1 DEF Go
      <3>3. CASE temp[p] # Absent
        <4>1. temp[p].data = "whole" /\ temp[p] \in File
          BY <3>1, <3>3
        <4>2. temp'[p].data = "whole" /\ temp'[p].synced
          BY <3>1, <4>1 DEF File
        <4> QED
          BY <3>1, <4>2 DEF Go
      <3> QED
        BY <3>2, <3>3
    <2>5. CASE LookAgain(p)
      <3>1. \/ Go(p, "idle") /\ SetTemp(p, Absent)
            \/ Go(p, "rename") /\ UNCHANGED temp
        BY <2>5 DEF LookAgain, Return
      <3>2. pc[p] = "look"
        BY <2>5 DEF LookAgain, AtStep
      <3> QED
        BY <3>1, <3>2, AbsentIsFile DEF Go, SetTemp
    <2>6. CASE Rename(p)
      <3>1. \/ temp[p] = Absent /\ Go(p, "idle") /\ UNCHANGED temp
            \/ Go(p, "syncdir") /\ SetTemp(p, Absent)
        BY <2>6 DEF Rename, Return
      <3> QED
        BY <3>1 DEF Go, SetTemp
    <2>7. CASE SyncDir(p)
      BY <2>7 DEF SyncDir, AtStep, Return, Go
    <2> QED
      BY <1>3, <2>1, <2>2, <2>3, <2>4, <2>5, <2>6, <2>7 DEF WriteStep
  <1>4. ASSUME NEW p \in Proc, Fail(p) \/ Crash(p) PROVE TempReady'
    <2>1. Go(p, "idle") /\ SetTemp(p, Absent)
      BY <1>4 DEF Fail, Crash, Return
    <2> QED
      BY <2>1 DEF Go, SetTemp
  <1>5. CASE Collect
    <2>1. UNCHANGED pc /\ (UNCHANGED temp \/ \E q \in Proc : SetTemp(q, Absent))
      BY <1>5 DEF Collect
    <2> QED
      BY <2>1 DEF SetTemp
  <1>6. CASE Rot \/ UNCHANGED objectVars
    BY <1>6 DEF Rot, objectVars
  <1>7. CASE PowerLoss
    BY <1>7 DEF PowerLoss
  <1> QED
    BY <1>2, <1>3, <1>4, <1>5, <1>6, <1>7 DEF ObjectsNext, ProcNext

\* What is renamed is whole and synced.
LEMMA RenameIsWhole ==
  ASSUME TypeOK, TempReady, NEW p \in Proc, Rename(p), file' # file
  PROVE  /\ file' = [file EXCEPT ![call[p].key] = temp[p]]
         /\ call[p].key \in Key
         /\ temp[p].data = "whole" /\ temp[p].synced
  <1>1. /\ temp[p] # Absent /\ pc[p] = "rename"
        /\ file' = [file EXCEPT ![call[p].key] = temp[p]]
    BY DEF Rename, AtStep
  <1> QED
    BY <1>1 DEF TempReady, TypeOK

\* A power failure changes a file only by losing its name, once all are synced.
LEMMA PowerLossLoses ==
  ASSUME TypeOK, Synced, PowerLoss, NEW k \in Key
  PROVE  file'[k] = file[k] \/ (file'[k] = Absent /\ k \notin entrySafe)
  <1>1. PICK lost \in SUBSET (Key \ entrySafe), torn \in SUBSET {x \in Key : ~file[x].synced} :
          file' = [x \in Key |-> IF x \in lost THEN Absent
                                 ELSE IF x \in torn /\ Exists(x) THEN [data |-> "torn", synced |-> TRUE]
                                 ELSE [file[x] EXCEPT !.synced = TRUE]]
    BY DEF PowerLoss
  <1>2. k \notin torn /\ file[k].synced /\ file[k] \in File
    BY DEF Synced, TypeOK
  <1>3. CASE k \in lost
    BY <1>1, <1>3
  <1>4. CASE k \notin lost
    <2>1. file'[k] = [file[k] EXCEPT !.synced = TRUE]
      BY <1>1, <1>2, <1>4
    <2> QED
      BY <1>2, <2>1 DEF File
  <1> QED
    BY <1>3, <1>4

\* Only these steps change what is published.
LEMMA FileChanges ==
  ASSUME [ObjectsNext]_objectVars, file' # file
  PROVE  (\E p \in Proc : Rename(p)) \/ Collect \/ Rot \/ PowerLoss
  <1>1. ASSUME NEW p \in Proc, ProcNext(p) PROVE Rename(p)
    BY <1>1 DEF ProcNext, WriteStep, BeginWrite, BeginRead, CreateDir, OpenTemp, FillTemp, SyncTemp,
                LookAgain, SyncDir, ReadAgain, Fail, Crash, disk
  <1> QED
    BY <1>1 DEF ObjectsNext, objectVars

\* What was synced stays so in every step.
LEMMA SyncedStep == TypeOK /\ TempReady /\ Synced /\ [ObjectsNext]_objectVars => Synced'
  <1> SUFFICES ASSUME TypeOK, TempReady, Synced, [ObjectsNext]_objectVars, file' # file PROVE Synced'
    BY DEF Synced
  <1>1. ASSUME NEW p \in Proc, Rename(p) PROVE Synced'
    BY <1>1, RenameIsWhole DEF Synced, TypeOK
  <1>2. CASE Collect
    BY <1>2 DEF Collect, disk, Synced, TypeOK, Absent
  <1>3. CASE Rot
    BY <1>3 DEF Rot, Synced, TypeOK, File
  <1>4. CASE PowerLoss
    BY <1>4, PowerLossLoses DEF Synced, Absent
  <1> QED
    BY <1>1, <1>2, <1>3, <1>4, FileChanges

\* Who promises has synced the name of what it looks at; gc and rot take the
\* promise back, and a power failure spares what is synced.
LEMMA PromisedStep ==
  TypeOK /\ TempReady /\ Synced /\ PromisedSafe /\ [ObjectsNext]_objectVars => PromisedSafe'
  <1> SUFFICES ASSUME TypeOK, TempReady, Synced, PromisedSafe, [ObjectsNext]_objectVars PROVE PromisedSafe'
    OBVIOUS
  <1> USE DEF PromisedSafe, PromisedSurvives
  <1>1. ASSUME UNCHANGED disk PROVE PromisedSafe'
    BY <1>1 DEF disk
  <1>2. ASSUME NEW p \in Proc, ProcNext(p) PROVE PromisedSafe'
    <2>1. CASE BeginWrite(p) \/ BeginRead(p) \/ ReadAgain(p) \/ Fail(p) \/ Crash(p)
      BY <1>1, <2>1 DEF BeginWrite, BeginRead, ReadAgain, Fail, Crash
    <2>2. CASE OpenTemp(p) \/ FillTemp(p) \/ SyncTemp(p) \/ LookAgain(p)
      BY <1>1, <2>2 DEF OpenTemp, FillTemp, SyncTemp, LookAgain
    <2>3. CASE CreateDir(p)
      BY <2>3 DEF CreateDir
    <2>4. CASE Rename(p)
      <3>1. UNCHANGED <<entrySafe, promised>>
        BY <2>4 DEF Rename
      <3>2. CASE file' = file
        BY <3>1, <3>2
      <3>3. CASE file' # file
        BY <2>4, <3>1, <3>3, RenameIsWhole DEF TypeOK
      <3> QED
        BY <3>2, <3>3
    <2>5. CASE SyncDir(p)
      <3>1. /\ UNCHANGED file
            /\ \/ promised' = promised
               \/ promised' = promised \cup {call[p].key} /\ file[call[p].key].data = "whole"
        BY <2>5 DEF SyncDir
      <3>2. /\ entrySafe \subseteq entrySafe'
            /\ file[call[p].key].data = "whole" => call[p].key \in entrySafe'
        BY <2>5 DEF SyncDir, Exists, TypeOK
      <3> QED
        BY <3>1, <3>2
    <2> QED
      BY <1>2, <2>1, <2>2, <2>3, <2>4, <2>5 DEF ProcNext, WriteStep
  <1>3. CASE Collect
    <2>1. CASE UNCHANGED disk
      BY <1>1, <2>1
    <2>2. CASE \E k \in Key : /\ file' = [file EXCEPT ![k] = Absent]
                              /\ entrySafe' = entrySafe \ {k} /\ promised' = promised \ {k}
      BY <2>2 DEF TypeOK
    <2> QED
      BY <1>3, <2>1, <2>2 DEF Collect
  <1>4. CASE Rot
    BY <1>4 DEF Rot, TypeOK
  <1>5. CASE PowerLoss
    <2>1. promised' = promised /\ entrySafe' = {k \in Key : file'[k].data # "absent"}
      BY <1>5 DEF PowerLoss
    <2>2. ASSUME NEW k \in promised PROVE file'[k] = file[k] /\ k \in Key
      BY <1>5, <2>2, PowerLossLoses DEF TypeOK
    <2> QED
      BY <2>1, <2>2
  <1>6. CASE UNCHANGED objectVars
    BY <1>1, <1>6 DEF objectVars, disk
  <1> QED
    BY <1>2, <1>3, <1>4, <1>5, <1>6 DEF ObjectsNext

\* A call that ends with bytes has checked them, or is not a checked read.
LEMMA ReadsStep == TypeOK /\ ReadsAreSound /\ [ObjectsNext]_objectVars => ReadsAreSound'
  <1> SUFFICES ASSUME TypeOK, ReadsAreSound, [ObjectsNext]_objectVars PROVE ReadsAreSound'
    OBVIOUS
  <1> USE DEF TypeOK, ReadsAreSound
  <1>1. ASSUME NEW p \in Proc, UNCHANGED <<call>>, \E r \in {"ok", "err", "dedup", "none"} : Return(p, r)
        PROVE  ReadsAreSound'
    BY <1>1 DEF Return, Go
  <1>2. ASSUME NEW p \in Proc, NEW l \in {"mkdir", "open", "fill", "sync", "look", "rename", "syncdir", "second"},
               Go(p, l), UNCHANGED <<call, got>>
        PROVE  ReadsAreSound'
    BY <1>2 DEF Go
  <1>3. ASSUME NEW p \in Proc, BeginWrite(p) PROVE ReadsAreSound'
    <2>1. PICK op \in Writes, k \in Key :
            /\ call' = [call EXCEPT ![p] = [op |-> op, key |-> k]]
            /\ Return(p, "dedup") \/ (Go(p, "mkdir") /\ UNCHANGED got)
      BY <1>3 DEF BeginWrite
    <2>2. call'[p].op = op /\ \A q \in Proc : q # p => call'[q] = call[q]
      BY <2>1
    <2> QED
      BY <2>1, <2>2 DEF Return, Go, Writes
  <1>4. ASSUME NEW p \in Proc, BeginRead(p) PROVE ReadsAreSound'
    <2>1. PICK op \in Reads, k \in Key :
            /\ call' = [call EXCEPT ![p] = [op |-> op, key |-> k]]
            /\ \/ Return(p, "whole")
               \/ Return(p, "err")
               \/ Check(p, op, k, IF k \in Large THEN "second" ELSE "idle")
      BY <1>4 DEF BeginRead
    <2>2. call'[p].op = op /\ \A q \in Proc : q # p => call'[q] = call[q]
      BY <2>1
    <2>3. \/ Return(p, "whole") \/ Return(p, "err")
          \/ op = "change" /\ Return(p, file[k].data)
          \/ Go(p, "second") /\ UNCHANGED got
      BY <2>1 DEF Check, Deliver
    <2> QED
      BY <2>2, <2>3 DEF Return, Go
  <1>5. ASSUME NEW p \in Proc, ReadAgain(p) PROVE ReadsAreSound'
    <2>1. UNCHANGED call
      BY <1>5 DEF ReadAgain, AtStep
    <2>2. \/ Return(p, "err") \/ Return(p, "whole")
          \/ call[p].op = "change" /\ Return(p, file[call[p].key].data)
      BY <1>5 DEF ReadAgain, Check, Deliver
    <2> QED
      BY <2>1, <2>2 DEF Return, Go
  <1>6. ASSUME NEW p \in Proc, WriteStep(p) PROVE ReadsAreSound'
    <2>1. UNCHANGED call
      BY <1>6 DEF WriteStep, CreateDir, OpenTemp, FillTemp, SyncTemp, LookAgain, Rename, SyncDir, AtStep
    <2>2. \/ \E r \in {"ok", "err", "dedup"} : Return(p, r)
          \/ \E l \in {"open", "fill", "sync", "look", "rename", "syncdir"} : Go(p, l) /\ UNCHANGED got
      BY <1>6 DEF WriteStep, CreateDir, OpenTemp, FillTemp, SyncTemp, LookAgain, Rename, SyncDir
    <2> QED
      BY <1>1, <1>2, <2>1, <2>2
  <1>7. ASSUME NEW p \in Proc, Fail(p) \/ Crash(p) PROVE ReadsAreSound'
    <2>1. UNCHANGED call /\ \E r \in {"err", "dedup", "none"} : Return(p, r)
      BY <1>7 DEF Fail, Crash, AtStep, Return
    <2> QED
      BY <1>1, <2>1
  <1>8. CASE Collect \/ Rot \/ UNCHANGED objectVars
    BY <1>8 DEF Collect, Rot, objectVars
  <1>9. CASE PowerLoss
    BY <1>9 DEF PowerLoss
  <1> QED
    BY <1>3, <1>4, <1>5, <1>6, <1>7, <1>8, <1>9 DEF ObjectsNext, ProcNext

\* Every step keeps the invariant.
LEMMA IInvStep == IInv /\ [ObjectsNext]_objectVars => IInv'
  BY TypeStep, TempReadyStep, SyncedStep, PromisedStep, ReadsStep DEF IInv

\* The invariant holds in every state.
LEMMA IInvHolds == ObjectsSpec => []IInv
  BY IInvInit, IInvStep, PTL DEF ObjectsSpec

\* The variables of the store take the values they are meant to.
THEOREM TypeCorrect == ObjectsSpec => []TypeOK
  BY IInvHolds, PTL DEF IInv

\* An object whose publisher returned Ok(true) is there until gc or rot takes
\* it, whatever processes and the power do; and no checked read returns other
\* bytes (cas.rs, write_once_atomic, read_object, read_blob).
THEOREM AlwaysSound == ObjectsSpec => []ObjectsAreSound
  BY IInvHolds, PTL DEF IInv, PromisedSafe, ObjectsAreSound

\* Only rot cuts the object at a final path short.
LEMMA NoStepTears ==
  IInv /\ [ObjectsNext]_objectVars =>
    \A k \in Key : file'[k].data = "torn" => file[k].data = "torn" \/ Rot
  <1> SUFFICES ASSUME IInv, [ObjectsNext]_objectVars, NEW k \in Key, file'[k].data = "torn", file' # file
               PROVE  file[k].data = "torn" \/ Rot
    OBVIOUS
  <1> USE DEF IInv
  <1>1. ASSUME NEW p \in Proc, Rename(p) PROVE file[k].data = "torn"
    BY <1>1, RenameIsWhole DEF TypeOK
  <1>2. CASE Collect
    BY <1>2 DEF Collect, disk, TypeOK, Absent
  <1>3. CASE PowerLoss
    BY <1>3, PowerLossLoses DEF Absent
  <1> QED
    BY <1>1, <1>2, <1>3, FileChanges

\* write_once_atomic: under a final path there is nothing or the whole object,
\* until it rots.
THEOREM AlwaysPublishedWhole == ObjectsSpec => PublishedWhole
  <1>1. IInv /\ [ObjectsNext]_objectVars =>
          [\A k \in Key : file'[k].data = "torn" => file[k].data = "torn" \/ Rot]_objectVars
    BY NoStepTears
  <1> QED
    BY <1>1, IInvHolds, PTL DEF ObjectsSpec, PublishedWhole

-----------------------------------------------------------------------------
(* The weighted cache.                                                        *)

\* The keys of a queue, and that it names each of them once.
Keys(q) == {q[i] : i \in DOMAIN q}
Once(q) == \A i, j \in DOMAIN q : q[i] = q[j] => i = j

\* The sum that Total takes, key by key.
LEMMA TotalIs ==
  ASSUME NEW S, NEW q \in Seq(S), NEW e, \A i \in 1..Len(q) : e[q[i]] \in Nat
  PROVE  \E sum \in [0..Len(q) -> Nat] :
           /\ sum[0] = 0 /\ \A n \in 1..Len(q) : sum[n] = sum[n - 1] + e[q[n]]
           /\ Total(q, e) = sum[Len(q)]
  <1> DEFINE m == Len(q)
             steps == [n \in 1..m |-> [x \in Nat |-> x + e[q[n]]]]
             step(F, n) == IF n = 0 THEN 0 ELSE F[n - 1] + e[q[n]]
  <1>1. m \in Nat /\ 0 \in Nat
    OBVIOUS
  <1>2. steps \in [1..m -> [Nat -> Nat]]
    OBVIOUS
  <1>3. PICK F \in [0..m -> Nat] : IsMade(F, 0, steps, m)
    <2> HIDE DEF steps, m
    <2> QED
      BY <1>1, <1>2, StepsExist, Zenon
  <1>4. F[0] = 0 /\ \A n \in 1..m : F[n] = steps[n][F[n - 1]]
    BY <1>3 DEF IsMade
  <1>5. ASSUME NEW n \in 0..m PROVE F[n] = step(F, n)
    <2>1. CASE n = 0
      BY <1>1, <1>4, <2>1
    <2>2. CASE n # 0
      <3>1. n \in 1..m /\ n - 1 \in 0..m
        BY <1>1, <2>2
      <3>2. F[n - 1] \in Nat
        BY <3>1
      <3> QED
        BY <1>4, <2>2, <3>1, <3>2
    <2> QED
      BY <2>1, <2>2
  <1>6. F = [n \in 0..m |-> F[n]]
    BY Zenon
  <1>7. F = [n \in 0..m |-> step(F, n)]
    <2> HIDE DEF step, m
    <2> QED
      BY <1>5, <1>6, Zenon
  <1> DEFINE Sum == CHOOSE Sum : Sum = [n \in 0..m |-> IF n = 0 THEN 0 ELSE Sum[n - 1] + e[q[n]]]
  <1>8. Sum = [n \in 0..m |-> step(Sum, n)]
    <2> HIDE DEF m
    <2> QED
      BY <1>7, Zenon
  <1>9. Total(q, e) = Sum[m]
    BY Zenon DEF Total
  <1> HIDE DEF Sum
  <1>10. \A n \in 0..m : Sum[n] = step(Sum, n)
    <2> HIDE DEF step, m
    <2> QED
      BY <1>8, Zenon
  <1>11. Sum[0] = 0 /\ \A n \in 1..m : Sum[n] = Sum[n - 1] + e[q[n]]
    <2>1. 0 \in 0..m /\ \A n \in 1..m : n \in 0..m /\ n # 0
      BY <1>1
    <2> QED
      BY <1>10, <2>1, Zenon
  <1> DEFINE T == {n \in Nat : n \in 0..m => Sum[n] \in Nat}
  <1>12. 0 \in T
    BY <1>11
  <1>13. ASSUME NEW n \in 1..m, n - 1 \in T PROVE n \in T
    <2>1. n - 1 \in 0..m /\ e[q[n]] \in Nat
      OBVIOUS
    <2> QED
      BY <1>11, <1>13, <2>1
  <1>14. 0..m \subseteq T
    <2> HIDE DEF T
    <2> QED
      BY <1>1, <1>12, <1>13, UpToInduction
  <1>15. Sum \in [0..m -> Nat]
    <2>1. \A n \in 0..m : Sum[n] \in Nat
      BY <1>14
    <2>2. Sum = [n \in 0..m |-> Sum[n]]
      <3> HIDE DEF step, m
      <3> QED
      BY <1>8, Zenon
    <2> HIDE DEF m
    <2> QED
      BY <2>1, <2>2
  <1> QED
    BY <1>9, <1>11, <1>15

\* f adds up.
Sums(f, add, m) == \A n \in 1..m : f[n] = f[n - 1] + add[n]

\* Two functions that add the same up from the same end alike.
LEMMA SumsAgree ==
  ASSUME NEW m \in Nat, NEW f \in [0..m -> Nat], NEW g \in [0..m -> Nat], NEW add,
         f[0] = g[0], Sums(f, add, m), Sums(g, add, m)
  PROVE  f[m] = g[m]
  <1> DEFINE T == {n \in Nat : n \in 0..m => f[n] = g[n]}
  <1>1. 0 \in T
    OBVIOUS
  <1>2. ASSUME NEW n \in 1..m, n - 1 \in T PROVE n \in T
    BY <1>2 DEF Sums
  <1>3. 0..m \subseteq T
    <2> HIDE DEF T
    <2> QED
      BY <1>1, <1>2, UpToInduction
  <1> QED
    BY <1>3

\* Total looks at the weights of the keys of the queue only.
LEMMA TotalOf ==
  ASSUME NEW S, NEW q \in Seq(S), NEW e, NEW f,
         \A i \in 1..Len(q) : e[q[i]] \in Nat /\ f[q[i]] = e[q[i]]
  PROVE  Total(q, e) = Total(q, f) /\ Total(q, e) \in Nat
  <1> DEFINE m == Len(q)
             add == [n \in 1..m |-> e[q[n]]]
  <1>0. m \in Nat
    OBVIOUS
  <1>1. PICK a \in [0..m -> Nat] : /\ a[0] = 0 /\ \A n \in 1..m : a[n] = a[n - 1] + e[q[n]]
                                   /\ Total(q, e) = a[m]
    BY TotalIs
  <1>2. PICK b \in [0..m -> Nat] : /\ b[0] = 0 /\ \A n \in 1..m : b[n] = b[n - 1] + f[q[n]]
                                   /\ Total(q, f) = b[m]
    BY TotalIs
  <1>3. Sums(a, add, m) /\ Sums(b, add, m)
    BY <1>1, <1>2 DEF Sums
  <1>3a. a[0] = b[0]
    BY <1>1, <1>2
  <1>4. a[m] = b[m]
    <2> HIDE DEF add, m
    <2> QED
      BY <1>0, <1>1, <1>2, <1>3, <1>3a, SumsAgree, Zenon
  <1> QED
    BY <1>0, <1>1, <1>2, <1>4

\* Nothing weighs nothing.
LEMMA EmptyWeighs == ASSUME NEW e PROVE Total(<<>>, e) = 0
  <1>1. <<>> \in Seq({}) /\ Len(<<>>) = 0
    OBVIOUS
  <1>2. \A i \in 1..Len(<<>>) : e[(<<>>)[i]] \in Nat
    OBVIOUS
  <1> QED
    BY <1>1, <1>2, TotalIs

\* A key is put at the end.
LEMMA AppendWeighs ==
  ASSUME NEW S, NEW q \in Seq(S), NEW k \in S, NEW e, e[k] \in Nat, \A i \in 1..Len(q) : e[q[i]] \in Nat
  PROVE  Total(Append(q, k), e) = Total(q, e) + e[k]
  <1> DEFINE m == Len(q)
             r == Append(q, k)
             add == [n \in 1..m |-> e[q[n]]]
  <1>0. m \in Nat
    OBVIOUS
  <1>1. PICK a \in [0..m -> Nat] : /\ a[0] = 0 /\ \A n \in 1..m : a[n] = a[n - 1] + e[q[n]]
                                   /\ Total(q, e) = a[m]
    BY TotalIs
  <1>2. r \in Seq(S) /\ Len(r) = m + 1 /\ r[m + 1] = k /\ \A n \in 1..m : r[n] = q[n]
    OBVIOUS
  <1>3. \A n \in 1..Len(r) : e[r[n]] \in Nat
    <2>1. \A n \in 1..Len(r) : n \in 1..m \/ n = m + 1
      BY <1>2
    <2> QED
      BY <1>2, <2>1
  <1>4. PICK b \in [0..Len(r) -> Nat] : /\ b[0] = 0 /\ \A n \in 1..Len(r) : b[n] = b[n - 1] + e[r[n]]
                                        /\ Total(r, e) = b[Len(r)]
    <2> HIDE DEF r
    <2> QED
      BY <1>2, <1>3, TotalIs
  <1> DEFINE c == [n \in 0..m |-> b[n]]
  <1>5. c \in [0..m -> Nat] /\ c[0] = 0 /\ c[m] = b[m]
    BY <1>2, <1>4
  <1>6. Sums(a, add, m) /\ Sums(c, add, m)
    <2> SUFFICES \A n \in 1..m : a[n] = a[n - 1] + add[n] /\ c[n] = c[n - 1] + add[n]
      BY DEF Sums
    <2> TAKE n \in 1..m
    <2>1. n \in 1..Len(r) /\ n - 1 \in 0..m /\ n \in 0..m
      BY <1>2
    <2> HIDE DEF r
    <2> QED
      BY <1>1, <1>2, <1>4, <2>1
  <1>6a. a[0] = c[0]
    BY <1>1, <1>5
  <1>7. a[m] = c[m]
    <2> HIDE DEF add, m, c
    <2> QED
      BY <1>0, <1>1, <1>5, <1>6, <1>6a, SumsAgree, Zenon
  <1>8. b[m + 1] = b[m] + e[k]
    <2>1. m + 1 \in 1..Len(r) /\ (m + 1) - 1 = m
      BY <1>2
    <2> HIDE DEF r, m
    <2> QED
      BY <1>2, <1>4, <2>1
  <1>9. Total(r, e) = Total(q, e) + e[k]
    <2> HIDE DEF r, m, c
    <2> QED
      BY <1>1, <1>2, <1>4, <1>5, <1>7, <1>8
  <1> QED
    BY <1>9

\* The key at the front goes.
LEMMA TailWeighs ==
  ASSUME NEW S, NEW q \in Seq(S), NEW e, q # <<>>, \A i \in 1..Len(q) : e[q[i]] \in Nat
  PROVE  Total(q, e) = e[q[1]] + Total(Tail(q), e)
  <1> DEFINE m == Len(q) - 1
             r == Tail(q)
             add == [n \in 1..m |-> e[q[n + 1]]]
  <1>0. m \in Nat /\ 1 \in 1..Len(q)
    OBVIOUS
  <1>1. PICK a \in [0..Len(q) -> Nat] : /\ a[0] = 0 /\ \A n \in 1..Len(q) : a[n] = a[n - 1] + e[q[n]]
                                        /\ Total(q, e) = a[Len(q)]
    BY TotalIs
  <1>2. r \in Seq(S) /\ Len(r) = m /\ \A n \in 1..m : r[n] = q[n + 1] /\ n + 1 \in 1..Len(q)
    OBVIOUS
  <1>3. PICK b \in [0..Len(r) -> Nat] : /\ b[0] = 0 /\ \A n \in 1..Len(r) : b[n] = b[n - 1] + e[r[n]]
                                        /\ Total(r, e) = b[Len(r)]
    <2>1. \A n \in 1..Len(r) : e[r[n]] \in Nat
      BY <1>2
    <2> HIDE DEF r
    <2> QED
      BY <1>2, <2>1, TotalIs
  <1>4. b \in [0..m -> Nat] /\ b[0] = 0 /\ (\A n \in 1..m : b[n] = b[n - 1] + e[r[n]]) /\ Total(r, e) = b[m]
    <2> HIDE DEF r, m
    <2> QED
      BY <1>2, <1>3
  <1> DEFINE c == [n \in 0..m |-> a[n + 1]]
             d == [n \in 0..m |-> b[n] + e[q[1]]]
  <1>5. c \in [0..m -> Nat] /\ c[0] = a[1] /\ c[m] = a[Len(q)]
    BY <1>0
  <1>6. d \in [0..m -> Nat] /\ d[0] = e[q[1]] /\ d[m] = b[m] + e[q[1]]
    BY <1>0, <1>4
  <1>7. a[1] = e[q[1]]
    BY <1>0, <1>1
  <1>8. Sums(c, add, m) /\ Sums(d, add, m)
    <2> SUFFICES \A n \in 1..m : c[n] = c[n - 1] + add[n] /\ d[n] = d[n - 1] + add[n]
      BY DEF Sums
    <2> TAKE n \in 1..m
    <2>1. n + 1 \in 1..Len(q) /\ n - 1 \in 0..m /\ n \in 0..m /\ (n + 1) - 1 = n /\ (n - 1) + 1 = n
      BY <1>0
    <2>2. a[n + 1] = a[n] + e[q[n + 1]]
      BY <1>1, <2>1
    <2>3. b[n] = b[n - 1] + e[q[n + 1]]
      <3> HIDE DEF r
      <3> QED
      BY <1>2, <1>4
    <2>4. b[n] \in Nat /\ b[n - 1] \in Nat /\ e[q[n + 1]] \in Nat /\ e[q[1]] \in Nat
      BY <1>0, <1>4, <2>1
    <2> QED
      BY <2>1, <2>2, <2>3, <2>4
  <1>8a. c[0] = d[0]
    BY <1>5, <1>6, <1>7
  <1>9. c[m] = d[m]
    <2> HIDE DEF add, m, c, d
    <2> QED
      BY <1>0, <1>5, <1>6, <1>8, <1>8a, SumsAgree, Zenon
  <1>10. e[q[1]] \in Nat /\ b[m] \in Nat
    BY <1>0
  <1>11. Total(q, e) = e[q[1]] + Total(r, e)
    <2> HIDE DEF r, m, c, d
    <2> QED
      BY <1>1, <1>4, <1>5, <1>6, <1>9, <1>10
  <1> QED
    BY <1>11

-----------------------------------------------------------------------------
\* A key that is not in the queue is put at the end.
LEMMA AppendOnce ==
  ASSUME NEW S, NEW q \in Seq(S), Once(q), NEW k \in S, k \notin Keys(q)
  PROVE  Append(q, k) \in Seq(S) /\ Once(Append(q, k)) /\ Keys(Append(q, k)) = Keys(q) \cup {k}
  <1> DEFINE r == Append(q, k)
             m == Len(q)
  <1>1. r \in Seq(S) /\ m \in Nat /\ DOMAIN r = 1..(m + 1) /\ r[m + 1] = k /\ DOMAIN q = 1..m
        /\ \A n \in 1..m : r[n] = q[n]
    OBVIOUS
  <1>2. \A n \in 1..(m + 1) : n \in 1..m \/ n = m + 1
    BY <1>1
  <1>3. \A n \in 1..m : r[n] # k
    BY <1>1 DEF Keys
  <1> HIDE DEF r, m
  <1>4. Once(r)
    BY <1>1, <1>2, <1>3 DEF Once
  <1>5. Keys(r) \subseteq Keys(q) \cup {k}
    BY <1>1, <1>2 DEF Keys
  <1>6. Keys(q) \subseteq Keys(r) /\ k \in Keys(r)
    <2>1. \A n \in 1..m : n \in 1..(m + 1)
      BY <1>1
    <2>2. m + 1 \in 1..(m + 1)
      BY <1>1
    <2> QED
      BY <1>1, <2>1, <2>2 DEF Keys
  <1> QED
    BY <1>1, <1>4, <1>5, <1>6 DEF r

\* The key at the front of the queue goes.
LEMMA TailQueue ==
  ASSUME NEW q \in Seq(LruKey), Once(q), q # <<>>
  PROVE  Tail(q) \in Seq(LruKey) /\ Once(Tail(q)) /\ Keys(Tail(q)) = Keys(q) \ {q[1]}
  <1> DEFINE r == Tail(q)
             m == Len(q) - 1
  <1>1. r \in Seq(LruKey) /\ m \in Nat /\ DOMAIN r = 1..m /\ DOMAIN q = 1..(m + 1)
        /\ \A n \in 1..m : r[n] = q[n + 1] /\ n + 1 \in 1..(m + 1) /\ n + 1 # 1
    OBVIOUS
  <1>2. \A n \in 1..(m + 1) : n = 1 \/ (n - 1 \in 1..m /\ n = (n - 1) + 1)
    BY <1>1
  <1> HIDE DEF r, m
  <1>0. 1 \in 1..(m + 1)
    BY <1>1
  <1>3. Once(r)
    <2> SUFFICES ASSUME NEW i \in 1..m, NEW j \in 1..m, r[i] = r[j] PROVE i = j
      BY <1>1 DEF Once
    <2>1. i + 1 = j + 1
      BY <1>1 DEF Once
    <2> QED
      BY <1>1, <2>1
  <1>4. Keys(r) \subseteq Keys(q) \ {q[1]}
    <2> SUFFICES ASSUME NEW n \in 1..m PROVE r[n] \in Keys(q) \ {q[1]}
      BY <1>1 DEF Keys
    <2>1. r[n] = q[n + 1] /\ n + 1 \in DOMAIN q /\ n + 1 # 1 /\ 1 \in DOMAIN q
      BY <1>0, <1>1
    <2>2. q[n + 1] # q[1]
      BY <2>1 DEF Once
    <2> QED
      BY <2>1, <2>2 DEF Keys
  <1>5. Keys(q) \ {q[1]} \subseteq Keys(r)
    <2> SUFFICES ASSUME NEW n \in 1..(m + 1), n # 1 PROVE q[n] \in Keys(r)
      BY <1>1 DEF Keys
    <2>1. n - 1 \in DOMAIN r /\ r[n - 1] = q[n]
      BY <1>1, <1>2
    <2> QED
      BY <2>1 DEF Keys
  <1> QED
    BY <1>1, <1>3, <1>4, <1>5 DEF r

\* What Except keeps of the queue up to each place.
AreKept(kept, q, k) ==
  /\ kept[0] = <<>>
  /\ \A n \in 1..Len(q) : kept[n] = IF q[n] = k THEN kept[n - 1] ELSE Append(kept[n - 1], q[n])
  /\ Except(q, k) = kept[Len(q)]

\* What Except computes, key by key.
LEMMA ExceptIs ==
  ASSUME NEW S, NEW q \in Seq(S), NEW k
  PROVE  \E kept \in [0..Len(q) -> Seq(S)] : AreKept(kept, q, k)
  <1> DEFINE m == Len(q)
             step(F, n) == IF n = 0 THEN <<>> ELSE IF q[n] = k THEN F[n - 1] ELSE Append(F[n - 1], q[n])
             steps == [n \in 1..m |-> [x \in Seq(S) |-> IF q[n] = k THEN x ELSE Append(x, q[n])]]
  <1>1. m \in Nat /\ <<>> \in Seq(S) /\ \A n \in 1..m : q[n] \in S
    OBVIOUS
  <1>2. steps \in [1..m -> [Seq(S) -> Seq(S)]]
    BY <1>1
  <1>3. PICK F \in [0..m -> Seq(S)] : IsMade(F, <<>>, steps, m)
    <2> HIDE DEF steps, m
    <2> QED
      BY <1>1, <1>2, StepsExist, Zenon
  <1>4. F[0] = <<>> /\ \A n \in 1..m : F[n] = steps[n][F[n - 1]]
    BY <1>3 DEF IsMade
  <1>5. ASSUME NEW n \in 0..m PROVE F[n] = step(F, n)
    <2>1. CASE n = 0
      BY <1>1, <1>4, <2>1
    <2>2. CASE n # 0
      <3>1. n \in 1..m /\ n - 1 \in 0..m
        BY <1>1, <2>2
      <3>2. F[n - 1] \in Seq(S)
        BY <3>1
      <3> QED
        BY <1>4, <2>2, <3>1, <3>2
    <2> QED
      BY <2>1, <2>2
  <1>6. F = [n \in 0..m |-> F[n]]
    BY Zenon
  <1>7. F = [n \in 0..m |-> step(F, n)]
    <2> HIDE DEF step, m
    <2> QED
      BY <1>5, <1>6, Zenon
  <1> DEFINE Kept == CHOOSE Kept : Kept = [n \in 0..m |-> step(Kept, n)]
  <1>8. Kept = [n \in 0..m |-> step(Kept, n)]
    <2> HIDE DEF m, step
    <2> QED
      BY <1>7, Zenon
  <1>9. Except(q, k) = Kept[m]
    BY Zenon DEF Except
  <1> HIDE DEF Kept
  <1>10. \A n \in 0..m : Kept[n] = step(Kept, n)
    <2> HIDE DEF step, m
    <2> QED
      BY <1>8, Zenon
  <1>11. Kept[0] = <<>> /\ \A n \in 1..m : Kept[n] = IF q[n] = k THEN Kept[n - 1] ELSE Append(Kept[n - 1], q[n])
    <2>1. 0 \in 0..m /\ \A n \in 1..m : n \in 0..m /\ n # 0
      BY <1>1
    <2> QED
      BY <1>10, <2>1, Zenon
  <1> DEFINE T == {n \in Nat : n \in 0..m => Kept[n] \in Seq(S)}
  <1>12. 0 \in T
    BY <1>1, <1>11
  <1>13. ASSUME NEW n \in 1..m, n - 1 \in T PROVE n \in T
    <2>1. n - 1 \in 0..m /\ q[n] \in S
      BY <1>1
    <2>2. Kept[n - 1] \in Seq(S)
      BY <1>13, <2>1
    <2>3. Append(Kept[n - 1], q[n]) \in Seq(S)
      BY <2>1, <2>2
    <2>4. Kept[n] \in Seq(S)
      BY <1>11, <2>2, <2>3
    <2> QED
      BY <2>4
  <1>14. 0..m \subseteq T
    <2> HIDE DEF T
    <2> QED
      BY <1>1, <1>12, <1>13, UpToInduction
  <1>15. Kept \in [0..m -> Seq(S)]
    <2>1. \A n \in 0..m : Kept[n] \in Seq(S)
      BY <1>14
    <2>2. Kept = [n \in 0..m |-> Kept[n]]
      <3> HIDE DEF step, m
      <3> QED
        BY <1>8, Zenon
    <2> HIDE DEF m
    <2> QED
      BY <2>1, <2>2
  <1> QED
    BY <1>9, <1>11, <1>15 DEF AreKept

\* The key goes, and its weight with it; the others stay.
LEMMA ExceptQueue ==
  ASSUME NEW q \in Seq(LruKey), Once(q), NEW e, \A i \in 1..Len(q) : e[q[i]] \in Nat, NEW k
  PROVE  /\ Except(q, k) \in Seq(LruKey) /\ Once(Except(q, k)) /\ Keys(Except(q, k)) = Keys(q) \ {k}
         /\ Total(q, e) = Total(Except(q, k), e) + (IF k \in Keys(q) THEN e[k] ELSE 0)
  <1>1a. PICK kept \in [0..Len(q) -> Seq(LruKey)] : AreKept(kept, q, k)
    BY ExceptIs, Zenon
  <1>1. /\ kept[0] = <<>>
        /\ \A n \in 1..Len(q) : kept[n] = IF q[n] = k THEN kept[n - 1] ELSE Append(kept[n - 1], q[n])
        /\ Except(q, k) = kept[Len(q)]
    BY <1>1a, Zenon DEF AreKept
  <1>2. PICK a \in [0..Len(q) -> Nat] : /\ a[0] = 0 /\ \A n \in 1..Len(q) : a[n] = a[n - 1] + e[q[n]]
                                        /\ Total(q, e) = a[Len(q)]
    BY TotalIs
  <1> DEFINE m == Len(q)
             First(n) == {q[i] : i \in 1..n}
             Fine(n) == /\ Once(kept[n]) /\ Keys(kept[n]) = First(n) \ {k}
                        /\ a[n] = Total(kept[n], e) + (IF k \in First(n) THEN e[k] ELSE 0)
             T == {n \in Nat : n \in 0..m => Fine(n)}
  <1>0. m \in Nat /\ \A n \in 1..m : q[n] \in LruKey
    OBVIOUS
  <1>3. 0 \in T
    <2>1. First(0) = {} /\ Once(<<>>) /\ Keys(<<>>) = {}
      BY DEF Once, Keys
    <2> QED
      BY <1>1, <1>2, <2>1, EmptyWeighs
  <1>4. ASSUME NEW n \in 1..m, n - 1 \in T PROVE n \in T
    <2>1. n - 1 \in 0..m /\ n \in 0..m /\ n \in Nat /\ 1..n = (1..(n - 1)) \cup {n} /\ \A i \in 1..n : i \in 1..m
      BY <1>0
    <2>2. Fine(n - 1)
      BY <1>4, <2>1
    <2>3. First(n) = First(n - 1) \cup {q[n]} /\ First(n - 1) \subseteq Keys(q)
      <3>1. First(n) = First(n - 1) \cup {q[n]}
        BY <2>1
      <3>2. \A i \in 1..(n - 1) : i \in DOMAIN q
        BY <1>0, <2>1
      <3> QED
        BY <3>1, <3>2 DEF Keys
    <2>4. q[n] \notin First(n - 1)
      <3> SUFFICES ASSUME NEW i \in 1..(n - 1), q[i] = q[n] PROVE FALSE
        OBVIOUS
      <3>1. i \in DOMAIN q /\ n \in DOMAIN q /\ i # n
        OBVIOUS
      <3> QED
        BY <3>1 DEF Once
    <2>5. kept[n - 1] \in Seq(LruKey) /\ a[n - 1] \in Nat /\ e[q[n]] \in Nat
      BY <1>0, <2>1
    <2>6. \A i \in 1..Len(kept[n - 1]) : e[kept[n - 1][i]] \in Nat
      <3> SUFFICES ASSUME NEW i \in 1..Len(kept[n - 1]) PROVE e[kept[n - 1][i]] \in Nat
        OBVIOUS
      <3>1. i \in DOMAIN kept[n - 1]
        BY <2>5
      <3>2. kept[n - 1][i] \in First(n - 1)
        BY <2>2, <3>1 DEF Keys
      <3>3. PICK j \in 1..(n - 1) : kept[n - 1][i] = q[j]
        BY <3>2
      <3> QED
        BY <2>1, <3>3
    <2>7. Total(kept[n - 1], e) \in Nat
      BY <2>5, <2>6, TotalOf
    <2>8. a[n] = a[n - 1] + e[q[n]]
      BY <1>2
    <2> HIDE DEF First
    <2>9. Fine(n)
      <3>1. CASE q[n] = k
        <4>1. kept[n] = kept[n - 1] /\ k \notin First(n - 1) /\ k \in First(n)
          BY <1>1, <2>3, <2>4, <3>1
        <4> QED
          BY <2>2, <2>3, <2>5, <2>7, <2>8, <3>1, <4>1
      <3>2. CASE q[n] # k
        <4>1. kept[n] = Append(kept[n - 1], q[n])
          BY <1>1, <3>2
        <4>2. q[n] \notin Keys(kept[n - 1]) /\ q[n] \in LruKey
          BY <1>0, <2>2, <2>4
        <4>3. Once(kept[n]) /\ Keys(kept[n]) = Keys(kept[n - 1]) \cup {q[n]}
          BY <2>2, <2>5, <4>1, <4>2, AppendOnce
        <4>4. Total(kept[n], e) = Total(kept[n - 1], e) + e[q[n]]
          BY <2>5, <2>6, <4>1, <4>2, AppendWeighs
        <4>5. k \in First(n) <=> k \in First(n - 1)
          BY <2>3, <3>2
        <4>6. Keys(kept[n]) = First(n) \ {k}
          BY <2>2, <2>3, <3>2, <4>3
        <4>7. k \in First(n - 1) => e[k] \in Nat
          <5> SUFFICES ASSUME NEW j \in 1..(n - 1), k = q[j] PROVE e[k] \in Nat
            BY DEF First
          <5> QED
            BY <2>1
        <4>8. a[n] = Total(kept[n], e) + (IF k \in First(n) THEN e[k] ELSE 0)
          BY <2>2, <2>5, <2>7, <2>8, <4>4, <4>5, <4>7
        <4> QED
          BY <4>3, <4>6, <4>8
      <3> QED
        BY <3>1, <3>2
    <2> QED
      BY <2>9
  <1>5. m \in T
    <2> HIDE DEF T, m
    <2>1. 0..m \subseteq T
      BY <1>0, <1>3, <1>4, UpToInduction
    <2> QED
      BY <1>0, <2>1
  <1>6. First(m) = Keys(q)
    BY DEF Keys
  <1>7. kept[m] \in Seq(LruKey) /\ Fine(m)
    BY <1>0, <1>5
  <1> QED
    BY <1>1, <1>2, <1>6, <1>7

\* The state of evict_until, for a queue that does not name some key.
Holding(k) ==
  {c \in [entries : UNION {[D -> LruValue] : D \in SUBSET LruKey}, lru : Seq(LruKey), used : Nat] :
     /\ Once(c.lru) /\ Keys(c.lru) = DOMAIN c.entries /\ c.used = Total(c.lru, c.entries)
     /\ k \notin Keys(c.lru)}

\* A turn of evict_until keeps the sums right; it leaves the cache alone if there is
\* room or nothing is left, and takes one key off it otherwise.
LEMMA PopHolds ==
  ASSUME NEW k, NEW c \in Holding(k), NEW incoming \in Nat
  PROVE  /\ pop_front(c, incoming) \in Holding(k)
         /\ \/ pop_front(c, incoming) = c /\ (c.used + incoming <= Capacity \/ c.lru = <<>>)
            \/ c.lru # <<>> /\ Len(pop_front(c, incoming).lru) = Len(c.lru) - 1
         /\ c.used + incoming <= Capacity => pop_front(c, incoming) = c
  <1>0. Capacity \in Nat /\ LruValue \subseteq Nat
    BY CacheAssumption
  <1>1. CASE c.used + incoming <= Capacity \/ c.lru = <<>>
    BY <1>1 DEF pop_front
  <1>2. CASE ~(c.used + incoming <= Capacity) /\ c.lru # <<>>
    <2> DEFINE d == pop_front(c, incoming)
               h == c.lru[1]
               e == c.entries
    <2>1. c.lru \in Seq(LruKey) /\ Once(c.lru) /\ Keys(c.lru) = DOMAIN e /\ c.used = Total(c.lru, e)
          /\ k \notin Keys(c.lru) /\ c.used \in Nat
      BY DEF Holding
    <2>2. PICK D \in SUBSET LruKey : e \in [D -> LruValue]
      BY DEF Holding
    <2>3. d = [entries |-> Others(e, h), lru |-> Tail(c.lru), used |-> c.used - e[h]]
      BY <1>2, <2>1 DEF pop_front
    <2>4. /\ Tail(c.lru) \in Seq(LruKey) /\ Once(Tail(c.lru)) /\ Keys(Tail(c.lru)) = Keys(c.lru) \ {h}
          /\ Len(Tail(c.lru)) = Len(c.lru) - 1
      BY <1>2, <2>1, TailQueue
    <2>5. Others(e, h) \in [D \ {h} -> LruValue] /\ DOMAIN Others(e, h) = Keys(Tail(c.lru))
      BY <2>1, <2>2, <2>4 DEF Others
    <2>6. \A i \in 1..Len(c.lru) : e[c.lru[i]] \in Nat
      <3> SUFFICES ASSUME NEW i \in 1..Len(c.lru) PROVE e[c.lru[i]] \in Nat
        OBVIOUS
      <3>1. c.lru[i] \in D
        BY <2>1, <2>2 DEF Keys
      <3> QED
        BY <1>0, <2>2, <3>1
    <2>7. \A i \in 1..Len(Tail(c.lru)) : e[Tail(c.lru)[i]] \in Nat /\ Others(e, h)[Tail(c.lru)[i]] = e[Tail(c.lru)[i]]
      <3> SUFFICES ASSUME NEW i \in 1..Len(Tail(c.lru))
                   PROVE  e[Tail(c.lru)[i]] \in Nat /\ Others(e, h)[Tail(c.lru)[i]] = e[Tail(c.lru)[i]]
        OBVIOUS
      <3>0. i \in DOMAIN Tail(c.lru)
        <4> DEFINE r == Tail(c.lru)
        <4>1. r \in Seq(LruKey) /\ i \in 1..Len(r)
          BY <2>4
        <4> HIDE DEF r
        <4>2. i \in DOMAIN r
          BY <4>1
        <4> QED
          BY <4>2 DEF r
      <3>1. Tail(c.lru)[i] \in Keys(Tail(c.lru))
        BY <3>0 DEF Keys
      <3>2. Tail(c.lru)[i] \in D \ {h}
        BY <2>1, <2>2, <2>4, <3>1
      <3> QED
        BY <1>0, <2>2, <3>2 DEF Others
    <2>8. Total(c.lru, e) = e[h] + Total(Tail(c.lru), e)
      BY <1>2, <2>1, <2>6, TailWeighs
    <2>9. Total(Tail(c.lru), e) = Total(Tail(c.lru), Others(e, h)) /\ Total(Tail(c.lru), e) \in Nat
      BY <2>4, <2>7, TotalOf
    <2>10. e[h] \in Nat
      <3>1. 1 \in 1..Len(c.lru)
        BY <1>2, <2>1
      <3> QED
        BY <2>6, <3>1
    <2>11. c.used - e[h] = Total(Tail(c.lru), Others(e, h)) /\ c.used - e[h] \in Nat
      BY <2>1, <2>8, <2>9, <2>10
    <2>12. d \in [entries : UNION {[DD -> LruValue] : DD \in SUBSET LruKey}, lru : Seq(LruKey), used : Nat]
      BY <2>3, <2>4, <2>5, <2>11
    <2>13. d \in Holding(k)
      <3> HIDE DEF d, h, e
      <3> QED
        BY <2>1, <2>3, <2>4, <2>5, <2>11, <2>12 DEF Holding
    <2> QED
      BY <1>2, <2>3, <2>4, <2>13
  <1> QED
    BY <1>1, <1>2

\* What evict_until leaves has room for what comes, unless nothing is left.
LEMMA EvictMakesRoom ==
  ASSUME NEW k, NEW c \in Holding(k), NEW incoming \in Nat
  PROVE  /\ evict_until(c, incoming) \in Holding(k)
         /\ evict_until(c, incoming).used + incoming <= Capacity \/ evict_until(c, incoming).lru = <<>>
  <1> DEFINE m == Len(c.lru)
             step(F, n) == IF n = 0 THEN c ELSE pop_front(F[n - 1], incoming)
             steps == [n \in 1..m |-> [x \in Holding(k) |-> pop_front(x, incoming)]]
  <1>1. m \in Nat
    BY DEF Holding
  <1>2. steps \in [1..m -> [Holding(k) -> Holding(k)]]
    BY PopHolds
  <1>3. PICK F \in [0..m -> Holding(k)] : IsMade(F, c, steps, m)
    <2> HIDE DEF steps, m
    <2> QED
      BY <1>1, <1>2, StepsExist, Zenon
  <1>4. F[0] = c /\ \A n \in 1..m : F[n] = steps[n][F[n - 1]]
    BY <1>3 DEF IsMade
  <1>5. ASSUME NEW n \in 0..m PROVE F[n] = step(F, n)
    <2>1. CASE n = 0
      BY <1>1, <1>4, <2>1
    <2>2. CASE n # 0
      <3>1. n \in 1..m /\ n - 1 \in 0..m
        BY <1>1, <2>2
      <3>2. F[n - 1] \in Holding(k)
        BY <3>1
      <3> QED
        BY <1>4, <2>2, <3>1, <3>2
    <2> QED
      BY <2>1, <2>2
  <1>6. F = [n \in 0..m |-> F[n]]
    BY Zenon
  <1>7. F = [n \in 0..m |-> step(F, n)]
    <2> HIDE DEF step, m
    <2> QED
      BY <1>5, <1>6, Zenon
  <1> DEFINE Turn == CHOOSE Turn : Turn = [n \in 0..m |-> step(Turn, n)]
  <1>8. Turn = [n \in 0..m |-> step(Turn, n)]
    <2> HIDE DEF m, step
    <2> QED
      BY <1>7, Zenon
  <1>9. evict_until(c, incoming) = Turn[m]
    BY Zenon DEF evict_until
  <1> HIDE DEF Turn
  <1>10. \A n \in 0..m : Turn[n] = step(Turn, n)
    <2> HIDE DEF step, m
    <2> QED
      BY <1>8, Zenon
  <1>11. Turn[0] = c /\ \A n \in 1..m : Turn[n] = pop_front(Turn[n - 1], incoming)
    <2>1. 0 \in 0..m /\ \A n \in 1..m : n \in 0..m /\ n # 0
      BY <1>1
    <2> QED
      BY <1>10, <2>1, Zenon
  <1> DEFINE Fine(d, n) == /\ d \in Holding(k)
                           /\ d.used + incoming <= Capacity \/ d.lru = <<>> \/ Len(d.lru) = m - n
             T == {n \in Nat : n \in 0..m => Fine(Turn[n], n)}
  <1>12. 0 \in T
    BY <1>1, <1>11
  <1>13. ASSUME NEW n \in 1..m, n - 1 \in T PROVE n \in T
    <2> DEFINE d == Turn[n - 1]
    <2>1. n - 1 \in 0..m /\ n \in 0..m /\ Turn[n] = pop_front(d, incoming)
      BY <1>1, <1>11
    <2>2. Fine(d, n - 1)
      BY <1>13, <2>1
    <2> HIDE DEF d
    <2>3. Fine(pop_front(d, incoming), n)
      <3>1. d.lru \in Seq(LruKey)
        BY <2>2 DEF Holding
      <3>2. d.lru = <<>> <=> Len(d.lru) = 0
        BY <3>1
      <3>3. d \in Holding(k)
        BY <2>2
      <3> DEFINE p == pop_front(d, incoming)
      <3>4. /\ p \in Holding(k)
            /\ \/ p = d /\ (d.used + incoming <= Capacity \/ d.lru = <<>>)
               \/ d.lru # <<>> /\ Len(p.lru) = Len(d.lru) - 1
            /\ d.used + incoming <= Capacity => p = d
        BY <3>3, PopHolds
      <3> HIDE DEF p
      <3>5. Fine(p, n)
        <4>1. CASE p = d /\ (d.used + incoming <= Capacity \/ d.lru = <<>>)
          BY <3>4, <4>1
        <4>2. CASE ~(d.used + incoming <= Capacity) /\ d.lru # <<>> /\ Len(p.lru) = Len(d.lru) - 1
          BY <1>1, <2>1, <2>2, <3>4, <4>2
        <4> QED
          BY <3>4, <4>1, <4>2
      <3> QED
        BY <3>5 DEF p
    <2> QED
      BY <2>1, <2>3
  <1>14. m \in T
    <2>1. 0..m \subseteq T
      <3> HIDE DEF T, m
      <3> QED
        BY <1>1, <1>12, <1>13, UpToInduction
    <2> QED
      BY <1>1, <2>1
  <1>15. Fine(Turn[m], m)
    BY <1>1, <1>14
  <1>16. Len(Turn[m].lru) = 0 => Turn[m].lru = <<>>
    BY <1>15 DEF Holding
  <1> QED
    BY <1>1, <1>9, <1>15, <1>16

-----------------------------------------------------------------------------
\* The weighted cache: what WeightedInBudget says, and of what kind its parts are.
WeightedInv ==
  /\ entries \in UNION {[D -> LruValue] : D \in SUBSET LruKey}
  /\ lru \in Seq(LruKey) /\ Once(lru) /\ Keys(lru) = DOMAIN entries
  /\ used = Total(lru, entries) /\ used <= Capacity

\* A queue that names each key once is as long as there are keys.
LEMMA OnceCounts ==
  ASSUME NEW S, NEW q \in Seq(S), Once(q)
  PROVE  IsFiniteSet(Keys(q)) /\ Cardinality(Keys(q)) = Len(q)
  <1>1. Len(q) \in Nat /\ q \in [1..Len(q) -> Keys(q)] /\ DOMAIN q = 1..Len(q)
    BY DEF Keys
  <1>2. q \in Bijection(1..Len(q), Keys(q))
    BY <1>1 DEF Bijection, Injection, Surjection, IsInjective, Once, Keys
  <1>3. ExistsBijection(1..Len(q), Keys(q))
    BY <1>2 DEF ExistsBijection
  <1> QED
    BY <1>1, <1>3, FS_NatBijection, FS_CountingElements

\* What WeightedInv says is what the weighted cache promises.
LEMMA WeightedIsInBudget == ASSUME WeightedInv PROVE WeightedInBudget
  <1>1. {lru[i] : i \in DOMAIN lru} = DOMAIN entries
    BY DEF WeightedInv, Keys
  <1>2. Len(lru) = Cardinality(DOMAIN entries)
    BY OnceCounts DEF WeightedInv
  <1> QED
    BY <1>1, <1>2 DEF WeightedInv, WeightedInBudget

\* The keys of the queue weigh what the entries say.
LEMMA EntriesWeigh ==
  ASSUME NEW q \in Seq(LruKey), NEW D \in SUBSET LruKey, NEW e \in [D -> LruValue], Keys(q) = D
  PROVE  \A i \in 1..Len(q) : q[i] \in D /\ e[q[i]] \in Nat
  <1> SUFFICES ASSUME NEW i \in 1..Len(q) PROVE q[i] \in D /\ e[q[i]] \in Nat
    OBVIOUS
  <1>1. q[i] \in D
    BY DEF Keys
  <1> QED
    BY <1>1, CacheAssumption

\* An empty cache.
LEMMA InitWeighted == ASSUME CacheInit PROVE WeightedInv
  <1>1. entries = NoIndex /\ lru = <<>> /\ used = 0
    BY DEF CacheInit
  <1>2. entries \in [{} -> LruValue] /\ DOMAIN entries = {} /\ {} \in SUBSET LruKey
    BY <1>1 DEF NoIndex
  <1>3. Keys(lru) = {} /\ Once(lru) /\ lru \in Seq(LruKey)
    BY <1>1 DEF Keys, Once
  <1>4. Total(lru, entries) = 0
    BY <1>1, EmptyWeighs
  <1>5. Capacity \in Nat
    BY CacheAssumption
  <1> QED
    BY <1>1, <1>2, <1>3, <1>4, <1>5 DEF WeightedInv

\* A hit moves its key to the end of the queue.
LEMMA GetWeighted ==
  ASSUME WeightedInv, NEW k \in LruKey, WeightedGet(k)
  PROVE  WeightedInv'
  <1>0. UNCHANGED <<entries, used>>
    BY DEF WeightedGet
  <1>1. CASE k \notin DOMAIN entries
    <2>1. UNCHANGED lru
      BY <1>1 DEF WeightedGet
    <2> QED
      BY <1>0, <2>1 DEF WeightedInv, Once, Keys
  <1>2. CASE k \in DOMAIN entries
    <2>0. lru' = Append(Except(lru, k), k)
      BY <1>2 DEF WeightedGet
    <2>1. /\ lru \in Seq(LruKey) /\ Once(lru) /\ Keys(lru) = DOMAIN entries
          /\ used = Total(lru, entries) /\ used <= Capacity
      BY DEF WeightedInv
    <2>2. PICK D \in SUBSET LruKey : entries \in [D -> LruValue]
      BY DEF WeightedInv
    <2>3. \A i \in 1..Len(lru) : lru[i] \in D /\ entries[lru[i]] \in Nat
      BY <2>1, <2>2, EntriesWeigh
    <2> DEFINE r == Except(lru, k)
    <2>4. /\ r \in Seq(LruKey) /\ Once(r) /\ Keys(r) = Keys(lru) \ {k}
          /\ Total(lru, entries) = Total(r, entries) + entries[k]
      BY <1>2, <2>1, <2>3, ExceptQueue
    <2> HIDE DEF r
    <2>5. \A i \in 1..Len(r) : entries[r[i]] \in Nat
      <3> SUFFICES ASSUME NEW i \in 1..Len(r) PROVE entries[r[i]] \in Nat
        OBVIOUS
      <3>1. r[i] \in Keys(r)
        BY <2>4 DEF Keys
      <3>2. PICK j \in DOMAIN lru : r[i] = lru[j]
        BY <2>4, <3>1 DEF Keys
      <3> QED
        BY <2>1, <2>3, <3>2
    <2>6. entries[k] \in Nat
      BY <1>2, <2>2, CacheAssumption
    <2>7. Append(r, k) \in Seq(LruKey) /\ Once(Append(r, k)) /\ Keys(Append(r, k)) = Keys(r) \cup {k}
      BY <2>4, AppendOnce
    <2>8. Total(Append(r, k), entries) = Total(r, entries) + entries[k]
      BY <2>4, <2>5, <2>6, AppendWeighs
    <2>9. lru' = Append(r, k)
      BY <2>0 DEF r
    <2>10. Keys(Append(r, k)) = DOMAIN entries
      BY <1>2, <2>1, <2>4, <2>7
    <2>11. Once(lru') /\ Keys(lru') = DOMAIN entries /\ lru' \in Seq(LruKey) /\ used = Total(lru', entries)
      BY <2>1, <2>4, <2>7, <2>8, <2>9, <2>10
    <2>12. (Once(lru))' /\ (Keys(lru))' = DOMAIN entries' /\ used' = (Total(lru, entries))'
      <3>1. (Once(lru))' = Once(lru') /\ (Keys(lru))' = Keys(lru')
        BY DEF Once, Keys
      <3>2. (Total(lru, entries))' = Total(lru', entries')
        OBVIOUS
      <3> QED
        BY <1>0, <2>11, <3>1, <3>2
    <2> QED
      BY <1>0, <2>1, <2>2, <2>11, <2>12 DEF WeightedInv
  <1> QED
    BY <1>1, <1>2

\* A blob that fits takes the place of the oldest ones; one that does not fit at all
\* changes nothing.
LEMMA PutWeighted ==
  ASSUME WeightedInv, NEW k \in LruKey, NEW v \in LruValue, WeightedPut(k, v)
  PROVE  WeightedInv'
  <1>1. CASE v > Capacity
    <2>1. UNCHANGED <<entries, lru, used>>
      BY <1>1 DEF WeightedPut, weighted
    <2> QED
      BY <2>1 DEF WeightedInv, Once, Keys
  <1>2. CASE ~(v > Capacity)
    <2>0. v \in Nat /\ Capacity \in Nat /\ v <= Capacity
      BY <1>2, CacheAssumption
    <2>1. /\ lru \in Seq(LruKey) /\ Once(lru) /\ Keys(lru) = DOMAIN entries
          /\ used = Total(lru, entries)
      BY DEF WeightedInv
    <2>2. PICK D \in SUBSET LruKey : entries \in [D -> LruValue]
      BY DEF WeightedInv
    <2>3. \A i \in 1..Len(lru) : lru[i] \in D /\ entries[lru[i]] \in Nat
      BY <2>1, <2>2, EntriesWeigh
    <2> DEFINE q == Except(lru, k)
               e == Others(entries, k)
               c == [entries |-> e, lru |-> q, used |-> replaced(k)]
               r == evict_until(c, v)
    <2>4. /\ q \in Seq(LruKey) /\ Once(q) /\ Keys(q) = Keys(lru) \ {k}
          /\ Total(lru, entries) = Total(q, entries) + (IF k \in Keys(lru) THEN entries[k] ELSE 0)
      BY <2>1, <2>3, ExceptQueue
    <2> HIDE DEF q
    <2>5. e \in [D \ {k} -> LruValue] /\ DOMAIN e = D \ {k} /\ \A x \in D \ {k} : e[x] = entries[x]
      BY <2>2 DEF Others
    <2> HIDE DEF e
    <2>6. Keys(q) = DOMAIN e
      BY <2>1, <2>2, <2>4, <2>5
    <2>7. \A i \in 1..Len(q) : e[q[i]] \in Nat /\ entries[q[i]] = e[q[i]]
      <3> SUFFICES ASSUME NEW i \in 1..Len(q) PROVE e[q[i]] \in Nat /\ entries[q[i]] = e[q[i]]
        OBVIOUS
      <3>1. q[i] \in Keys(q)
        BY <2>4 DEF Keys
      <3> QED
        BY <2>0, <2>5, <2>6, <3>1, CacheAssumption
    <2>8. Total(q, e) = Total(q, entries) /\ Total(q, e) \in Nat
      BY <2>4, <2>7, TotalOf
    <2>9. k \in DOMAIN entries => entries[k] \in Nat
      BY <2>2, CacheAssumption
    <2>10. replaced(k) = Total(q, e)
      BY <2>1, <2>4, <2>8, <2>9 DEF replaced
    <2>11. c \in Holding(k)
      BY <2>4, <2>5, <2>6, <2>8, <2>10 DEF Holding
    <2> HIDE DEF c
    <2>12. r \in Holding(k) /\ (r.used + v <= Capacity \/ r.lru = <<>>)
      BY <2>0, <2>11, EvictMakesRoom
    <2>13. /\ entries' = [x \in DOMAIN r.entries \cup {k} |-> IF x = k THEN v ELSE r.entries[x]]
           /\ lru' = Append(r.lru, k) /\ used' = r.used + v
      <3>1. c = [entries |-> Others(entries, k), lru |-> Except(lru, k), used |-> replaced(k)]
        BY DEF c, e, q
      <3> QED
        BY <1>2, <3>1, Zenon DEF WeightedPut
    <2> HIDE DEF r
    <2>14. /\ r.lru \in Seq(LruKey) /\ Once(r.lru) /\ Keys(r.lru) = DOMAIN r.entries
           /\ r.used = Total(r.lru, r.entries) /\ r.used \in Nat /\ k \notin Keys(r.lru)
      BY <2>12 DEF Holding
    <2>15. PICK B \in SUBSET LruKey : r.entries \in [B -> LruValue]
      BY <2>12 DEF Holding
    <2>16. entries' \in [B \cup {k} -> LruValue] /\ B \cup {k} \in SUBSET LruKey /\ DOMAIN entries' = B \cup {k}
      BY <2>13, <2>15
    <2>17. \A i \in 1..Len(r.lru) : r.lru[i] \in B /\ r.entries[r.lru[i]] \in Nat
      BY <2>14, <2>15, EntriesWeigh
    <2>18. \A i \in 1..Len(r.lru) : r.entries[r.lru[i]] \in Nat /\ entries'[r.lru[i]] = r.entries[r.lru[i]]
      <3> SUFFICES ASSUME NEW i \in 1..Len(r.lru)
                   PROVE  r.entries[r.lru[i]] \in Nat /\ entries'[r.lru[i]] = r.entries[r.lru[i]]
        OBVIOUS
      <3>1. r.lru[i] \in B /\ B = Keys(r.lru) /\ B = DOMAIN r.entries
        BY <2>14, <2>15, <2>17
      <3> QED
        BY <2>13, <2>14, <2>17, <3>1
    <2>19. Total(r.lru, r.entries) = Total(r.lru, entries')
      BY <2>14, <2>18, TotalOf
    <2>20. entries'[k] = v
      BY <2>13
    <2>21. \A i \in 1..Len(r.lru) : entries'[r.lru[i]] \in Nat
      BY <2>18
    <2>22. Total(Append(r.lru, k), entries') = Total(r.lru, entries') + entries'[k]
      BY <2>0, <2>14, <2>20, <2>21, AppendWeighs
    <2>23. /\ lru' \in Seq(LruKey) /\ Once(lru') /\ Keys(lru') = DOMAIN entries'
      BY <2>13, <2>14, <2>15, <2>16, AppendOnce
    <2>24. used' = Total(lru', entries')
      BY <2>13, <2>14, <2>19, <2>20, <2>22
    <2>25. used' <= Capacity
      <3>1. CASE r.lru = <<>>
        <4>1. r.used = 0
          BY <2>14, <3>1, EmptyWeighs
        <4> QED
          BY <2>0, <2>13, <4>1
      <3> QED
        BY <2>12, <2>13, <3>1
    <2>26. (Once(lru))' = Once(lru') /\ (Keys(lru))' = Keys(lru')
      BY DEF Once, Keys
    <2> QED
      BY <2>16, <2>23, <2>24, <2>25, <2>26 DEF WeightedInv
  <1> QED
    BY <1>1, <1>2

\* A step of the weighted cache keeps its invariant.
LEMMA StepWeighted ==
  ASSUME WeightedInv, [CacheNext]_cacheVars
  PROVE  WeightedInv'
  <1>1. CASE UNCHANGED weighted
    <2>1. UNCHANGED <<entries, lru, used>>
      BY <1>1 DEF weighted
    <2> QED
      BY <2>1 DEF WeightedInv, Once, Keys
  <1>2. CASE WeightedCall
    BY <1>2, GetWeighted, PutWeighted DEF WeightedCall
  <1> QED
    BY <1>1, <1>2 DEF CacheNext, cacheVars

-----------------------------------------------------------------------------
(* The tiny cache.                                                            *)

\* What a slot of the array holds.
Slot == [key : LruKey \cup {NoSlot}, value : Nat, prev : 0..Slots, next : 0..Slots]

\* Two arrays of slots that hold the same entries, but for their links.
SameData(s, t) == \A x \in 1..Slots : s[x].key = t[x].key /\ s[x].value = t[x].value

\* What Link sets, and what it leaves.
LEMMA LinkNext ==
  ASSUME NEW s \in [1..Slots -> Slot], NEW i \in 0..Slots, NEW j \in 0..Slots
  PROVE  /\ Link(s, i, "next", j) \in [1..Slots -> Slot]
         /\ SameData(Link(s, i, "next", j), s)
         /\ \A x \in 1..Slots : /\ Link(s, i, "next", j)[x].prev = s[x].prev
                                /\ Link(s, i, "next", j)[x].next = IF x = i THEN j ELSE s[x].next
  <1>1. CASE i = 0
    BY <1>1, CacheAssumption DEF Link, NoSlot, SameData
  <1>2. CASE i # 0
    <2>1. i \in 1..Slots /\ s[i] \in Slot
      BY <1>2, CacheAssumption
    <2>2. Link(s, i, "next", j) = [s EXCEPT ![i] = [s[i] EXCEPT !.next = j]]
      BY <1>2 DEF Link, NoSlot
    <2>3. [s[i] EXCEPT !.next = j] \in Slot /\ [s[i] EXCEPT !.next = j].key = s[i].key
          /\ [s[i] EXCEPT !.next = j].value = s[i].value /\ [s[i] EXCEPT !.next = j].prev = s[i].prev
          /\ [s[i] EXCEPT !.next = j].next = j
      BY <2>1 DEF Slot
    <2> QED
      BY <2>1, <2>2, <2>3 DEF SameData
  <1> QED
    BY <1>1, <1>2

\* The same, of the link back.
LEMMA LinkPrev ==
  ASSUME NEW s \in [1..Slots -> Slot], NEW i \in 0..Slots, NEW j \in 0..Slots
  PROVE  /\ Link(s, i, "prev", j) \in [1..Slots -> Slot]
         /\ SameData(Link(s, i, "prev", j), s)
         /\ \A x \in 1..Slots : /\ Link(s, i, "prev", j)[x].prev = IF x = i THEN j ELSE s[x].prev
                                /\ Link(s, i, "prev", j)[x].next = s[x].next
  <1>1. CASE i = 0
    BY <1>1, CacheAssumption DEF Link, NoSlot, SameData
  <1>2. CASE i # 0
    <2>1. i \in 1..Slots /\ s[i] \in Slot
      BY <1>2, CacheAssumption
    <2>2. Link(s, i, "prev", j) = [s EXCEPT ![i] = [s[i] EXCEPT !.prev = j]]
      BY <1>2 DEF Link, NoSlot
    <2>3. [s[i] EXCEPT !.prev = j] \in Slot /\ [s[i] EXCEPT !.prev = j].key = s[i].key
          /\ [s[i] EXCEPT !.prev = j].value = s[i].value /\ [s[i] EXCEPT !.prev = j].next = s[i].next
          /\ [s[i] EXCEPT !.prev = j].prev = j
      BY <2>1 DEF Slot
    <2> QED
      BY <2>1, <2>2, <2>3 DEF SameData
  <1> QED
    BY <1>1, <1>2

\* A queue without its place i.
Removed(q, i) == SubSeq(q, 1, i - 1) \o SubSeq(q, i + 1, Len(q))

\* What Removed leaves, place by place.
LEMMA RemovedIs ==
  ASSUME NEW S, NEW q \in Seq(S), NEW i \in 1..Len(q)
  PROVE  /\ Removed(q, i) \in Seq(S) /\ Len(Removed(q, i)) = Len(q) - 1
         /\ \A j \in 1..(Len(q) - 1) : Removed(q, i)[j] = IF j < i THEN q[j] ELSE q[j + 1]
  <1>1. Len(q) \in Nat /\ i \in Nat /\ i >= 1 /\ i <= Len(q)
    OBVIOUS
  <1> DEFINE a == SubSeq(q, 1, i - 1)
             b == SubSeq(q, i + 1, Len(q))
  <1>2. a \in Seq(S) /\ Len(a) = i - 1 /\ \A j \in 1..(i - 1) : a[j] = q[j]
    BY <1>1
  <1>3. b \in Seq(S) /\ Len(b) = Len(q) - i /\ \A j \in 1..(Len(q) - i) : b[j] = q[j + i]
    BY <1>1
  <1> HIDE DEF a, b
  <1>4. a \o b \in Seq(S) /\ Len(a \o b) = Len(q) - 1
    <2>1. a \o b \in Seq(S) /\ Len(a \o b) = Len(a) + Len(b)
      BY <1>2, <1>3, ConcatProperties, Zenon
    <2> QED
      BY <1>1, <1>2, <1>3, <2>1
  <1>5. ASSUME NEW j \in 1..(Len(q) - 1) PROVE (a \o b)[j] = IF j < i THEN q[j] ELSE q[j + 1]
    <2>1. CASE j < i
      BY <1>1, <1>2, <1>3, <2>1
    <2>2. CASE ~(j < i)
      <3>1. j - (i - 1) \in 1..(Len(q) - i) /\ j > Len(a) /\ j <= Len(a) + Len(b) /\ (j - (i - 1)) + i = j + 1
        BY <1>1, <1>2, <1>3, <2>2
      <3>2. (a \o b)[j] = b[j - Len(a)]
        <4>1. \A k \in 1..(Len(a) + Len(b)) : (a \o b)[k] = IF k <= Len(a) THEN a[k] ELSE b[k - Len(a)]
          BY <1>2, <1>3, ConcatProperties, Zenon
        <4>2. j \in 1..(Len(a) + Len(b)) /\ ~(j <= Len(a))
          BY <1>2, <1>3, <3>1
        <4> QED
          BY <4>1, <4>2, Zenon
      <3> QED
        BY <1>2, <1>3, <2>2, <3>1, <3>2
    <2> QED
      BY <2>1, <2>2
  <1> QED
    BY <1>4, <1>5 DEF Removed, a, b

\* The slot of the place goes, and no other.
LEMMA RemovedQueue ==
  ASSUME NEW S, NEW q \in Seq(S), Once(q), NEW i \in 1..Len(q)
  PROVE  /\ Once(Removed(q, i)) /\ Keys(Removed(q, i)) = Keys(q) \ {q[i]} 
  <1> DEFINE r == Removed(q, i)
             m == Len(q) - 1
  <1>0. r \in Seq(S) /\ Len(r) = m /\ \A j \in 1..m : r[j] = IF j < i THEN q[j] ELSE q[j + 1]
    BY RemovedIs, Zenon
  <1> HIDE DEF r
  <1>1. r \in Seq(S) /\ Len(r) = m /\ (\A j \in 1..m : r[j] = IF j < i THEN q[j] ELSE q[j + 1])
        /\ DOMAIN r = 1..m /\ DOMAIN q = 1..(m + 1) /\ m \in Nat
    BY <1>0
  <1>2. i \in 1..(m + 1) /\ \A j \in 1..m : j \in 1..(m + 1) /\ j + 1 \in 1..(m + 1)
    OBVIOUS
  <1>3. Once(r)
    <2> SUFFICES ASSUME NEW x \in 1..m, NEW y \in 1..m, r[x] = r[y] PROVE x = y
      BY <1>1 DEF Once
    <2> HIDE DEF m
    <2>1. (IF x < i THEN x ELSE x + 1) = (IF y < i THEN y ELSE y + 1)
      BY <1>1, <1>2 DEF Once
    <2> QED
      BY <1>1, <1>2, <2>1
  <1>4. Keys(r) \subseteq Keys(q) \ {q[i]}
    <2> SUFFICES ASSUME NEW x \in 1..m PROVE r[x] \in Keys(q) \ {q[i]}
      BY <1>1 DEF Keys
    <2> HIDE DEF m
    <2>1. PICK y \in 1..(m + 1) : r[x] = q[y] /\ y # i
      <3>1. CASE x < i
        BY <1>1, <1>2, <3>1
      <3>2. CASE ~(x < i)
        <4>1. r[x] = q[x + 1] /\ x + 1 # i
          BY <1>1, <1>2, <3>2
        <4> QED
          BY <1>2, <4>1
      <3> QED
        BY <3>1, <3>2
    <2> QED
      BY <1>1, <1>2, <2>1 DEF Keys, Once
  <1>5. Keys(q) \ {q[i]} \subseteq Keys(r)
    <2> SUFFICES ASSUME NEW y \in 1..(m + 1), y # i PROVE q[y] \in Keys(r)
      BY <1>1 DEF Keys
    <2> HIDE DEF m
    <2>1. CASE y < i
      <3>1. y \in 1..m
        BY <1>1, <1>2, <2>1
      <3>2. r[y] = q[y]
        BY <1>1, <2>1, <3>1
      <3> QED
        BY <1>1, <3>1, <3>2 DEF Keys
    <2>2. CASE ~(y < i)
      <3>1. y - 1 \in 1..m /\ ~(y - 1 < i) /\ (y - 1) + 1 = y
        BY <1>1, <1>2, <2>2
      <3>2. r[y - 1] = q[y]
        BY <1>1, <3>1
      <3> QED
        BY <1>1, <3>1, <3>2 DEF Keys
    <2> QED
      BY <2>1, <2>2
  <1> QED
    BY <1>3, <1>4, <1>5 DEF r

\* An element of a sequence.
LEMMA ElementOf == ASSUME NEW S, NEW q \in Seq(S), NEW i \in 1..Len(q) PROVE q[i] \in S
  OBVIOUS

\* The slot at a place of a queue, none beyond its ends.
At(q, j) == IF j \in 1..Len(q) THEN q[j] ELSE NoSlot

\* The list l is linked in the order of the queue q.
Threads(q, l) ==
  /\ l \in [slots : [1..Slots -> Slot], head : 0..Slots, tail : 0..Slots]
  /\ q \in Seq(1..Slots) /\ Once(q)
  /\ l.head = At(q, 1) /\ l.tail = At(q, Len(q))
  /\ \A j \in 1..Len(q) : l.slots[q[j]].prev = At(q, j - 1) /\ l.slots[q[j]].next = At(q, j + 1)

\* The places around a slot that goes.
LEMMA RemovedAt ==
  ASSUME NEW S, NEW q \in Seq(S), NEW i \in 1..Len(q), NEW j \in Nat
  PROVE  /\ j < i => At(Removed(q, i), j) = At(q, j)
         /\ j >= i => At(Removed(q, i), j) = At(q, j + 1)
  <1> DEFINE r == Removed(q, i)
             m == Len(q) - 1
  <1>1. r \in Seq(S) /\ Len(r) = m /\ \A k \in 1..m : r[k] = IF k < i THEN q[k] ELSE q[k + 1]
    BY RemovedIs, Zenon
  <1> HIDE DEF r
  <1>2. Len(q) = m + 1 /\ m \in Nat /\ i \in 1..(m + 1)
    OBVIOUS
  <1> HIDE DEF m
  <1>3. j < i => At(r, j) = At(q, j)
    BY <1>1, <1>2 DEF At
  <1>4. j >= i => At(r, j) = At(q, j + 1)
    BY <1>1, <1>2 DEF At
  <1> QED
    BY <1>3, <1>4 DEF r

\* Two places of a queue that hold the same slot are one place.
LEMMA SamePlace ==
  ASSUME NEW q \in Seq(1..Slots), Once(q), NEW i \in 1..Len(q), NEW j \in Int, At(q, j) = q[i]
  PROVE  j = i
  <1>1. CASE j \in 1..Len(q)
    BY <1>1 DEF At, Once
  <1>2. CASE j \notin 1..Len(q)
    <2>1. q[i] \in 1..Slots
      BY ElementOf, Zenon
    <2> QED
      BY <1>2, <2>1, CacheAssumption DEF At, NoSlot
  <1> QED
    BY <1>1, <1>2

\* What At returns.
LEMMA AtInRange ==
  ASSUME NEW q \in Seq(1..Slots), NEW j
  PROVE  At(q, j) \in 0..Slots
  BY CacheAssumption DEF At, NoSlot

\* detach takes the slot out of the order, and changes no entry.
LEMMA DetachThreads ==
  ASSUME NEW q, NEW l, Threads(q, l), NEW i \in 1..Len(q)
  PROVE  Threads(Removed(q, i), detach(l, q[i])) /\ SameData(detach(l, q[i]).slots, l.slots)
  <1>1. /\ l \in [slots : [1..Slots -> Slot], head : 0..Slots, tail : 0..Slots]
        /\ q \in Seq(1..Slots) /\ Once(q)
        /\ l.head = At(q, 1) /\ l.tail = At(q, Len(q))
        /\ \A j \in 1..Len(q) : l.slots[q[j]].prev = At(q, j - 1) /\ l.slots[q[j]].next = At(q, j + 1)
    BY DEF Threads
  <1> DEFINE x == q[i]
             p == At(q, i - 1)
             n == At(q, i + 1)
             s1 == Link(l.slots, p, "next", n)
             s2 == Link(s1, n, "prev", p)
             d == detach(l, x)
             r == Removed(q, i)
             m == Len(q) - 1
  <1>2. x \in 1..Slots /\ l.slots[x].prev = p /\ l.slots[x].next = n /\ l.slots \in [1..Slots -> Slot]
    <2>1. x \in 1..Slots
      BY <1>1, ElementOf, Zenon
    <2> QED
      BY <1>1, <2>1
  <1>3. p \in 0..Slots /\ n \in 0..Slots
    BY <1>1, AtInRange
  <1>4. Len(q) = m + 1 /\ m \in Nat /\ i \in 1..(m + 1)
    BY <1>1
  <1>5. s1 \in [1..Slots -> Slot] /\ SameData(s1, l.slots)
        /\ \A y \in 1..Slots : /\ s1[y].prev = l.slots[y].prev
                               /\ s1[y].next = IF y = p THEN n ELSE l.slots[y].next
    <2> HIDE DEF p, n
    <2> QED
      BY <1>2, <1>3, LinkNext
  <1>6. s2 \in [1..Slots -> Slot] /\ SameData(s2, s1)
        /\ \A y \in 1..Slots : /\ s2[y].prev = IF y = n THEN p ELSE s1[y].prev
                               /\ s2[y].next = s1[y].next
    <2> HIDE DEF p, n, s1
    <2> QED
      BY <1>3, <1>5, LinkPrev
  <1>7. d = [slots |-> [s2 EXCEPT ![x].prev = NoSlot, ![x].next = NoSlot],
             head |-> IF l.head = x THEN n ELSE l.head,
             tail |-> IF l.tail = x THEN p ELSE l.tail]
    BY <1>2 DEF detach
  <1> HIDE DEF s1, s2, d, p, n
  <1>8. d.slots = [s2 EXCEPT ![x] = [[s2[x] EXCEPT !.prev = NoSlot] EXCEPT !.next = NoSlot]]
    <2> HIDE DEF x
    <2>1. d.slots = [s2 EXCEPT ![x].prev = NoSlot, ![x].next = NoSlot]
      BY <1>7
    <2> QED
      BY <1>2, <1>6, <2>1
  <1>9. /\ [[s2[x] EXCEPT !.prev = NoSlot] EXCEPT !.next = NoSlot] \in Slot
        /\ [[s2[x] EXCEPT !.prev = NoSlot] EXCEPT !.next = NoSlot].key = s2[x].key
        /\ [[s2[x] EXCEPT !.prev = NoSlot] EXCEPT !.next = NoSlot].value = s2[x].value
    <2> HIDE DEF x
    <2>1. s2[x] \in Slot
      BY <1>2, <1>6
    <2>2. 0 \in 0..Slots
      BY CacheAssumption
    <2> QED
      BY <2>1, <2>2 DEF Slot, NoSlot
  <1>10. d.slots \in [1..Slots -> Slot] /\ (\A y \in 1..Slots : y # x => d.slots[y] = s2[y])
         /\ d.slots[x].key = s2[x].key /\ d.slots[x].value = s2[x].value
    <2> HIDE DEF x
    <2> QED
      BY <1>2, <1>6, <1>8, <1>9
  <1>11. SameData(d.slots, l.slots)
    <2> SUFFICES ASSUME NEW y \in 1..Slots
                 PROVE  d.slots[y].key = l.slots[y].key /\ d.slots[y].value = l.slots[y].value
      BY DEF SameData
    <2> HIDE DEF x
    <2>1. d.slots[y].key = s2[y].key /\ d.slots[y].value = s2[y].value
      BY <1>10
    <2>2. s2[y].key = s1[y].key /\ s2[y].value = s1[y].value
      BY <1>6 DEF SameData
    <2>3. s1[y].key = l.slots[y].key /\ s1[y].value = l.slots[y].value
      BY <1>5 DEF SameData
    <2> QED
      BY <2>1, <2>2, <2>3
  <1>12. r \in Seq(1..Slots) /\ Len(r) = m /\ (\A j \in 1..m : r[j] = IF j < i THEN q[j] ELSE q[j + 1])
         /\ Once(r) /\ Keys(r) = Keys(q) \ {x}
    BY <1>1, RemovedIs, RemovedQueue
  <1>13. \A j \in Nat : (j < i => At(r, j) = At(q, j)) /\ (j >= i => At(r, j) = At(q, j + 1))
    BY <1>1, RemovedAt
  <1> HIDE DEF r, m
  <1>14. d.head = At(r, 1)
    <2>1. CASE i = 1
      <3>1. At(q, 1) = q[1]
        BY <1>4, <2>1 DEF At
      <3> QED
        BY <1>1, <1>7, <1>13, <2>1, <3>1 DEF n
    <2>2. CASE i # 1
      <3>1. At(q, 1) # x
        BY <1>1, <2>2, SamePlace
      <3>2. At(r, 1) = At(q, 1)
        BY <1>4, <1>13, <2>2
      <3> QED
        BY <1>1, <1>7, <3>1, <3>2
    <2> QED
      BY <2>1, <2>2
  <1>15. d.tail = At(r, Len(r))
    <2>1. CASE i = m + 1
      <3>1. At(q, m + 1) = x
        BY <1>4, <2>1 DEF At
      <3>2. At(r, m) = At(q, m) /\ i - 1 = m
        BY <1>4, <1>13, <2>1
      <3> QED
        BY <1>1, <1>4, <1>7, <1>12, <2>1, <3>1, <3>2 DEF p
    <2>2. CASE i # m + 1
      <3>1. At(q, m + 1) # x
        <4>1. m + 1 \in Int
          BY <1>4
        <4> QED
          BY <1>1, <2>2, <4>1, SamePlace
      <3>2. At(r, m) = At(q, m + 1)
        BY <1>4, <1>13, <2>2
      <3> QED
        BY <1>1, <1>4, <1>7, <1>12, <3>1, <3>2
    <2> QED
      BY <2>1, <2>2
  <1>16. ASSUME NEW j \in 1..m PROVE d.slots[r[j]].prev = At(r, j - 1) /\ d.slots[r[j]].next = At(r, j + 1)
    <2> DEFINE g == IF j < i THEN j ELSE j + 1
               y == r[j]
    <2>1. g \in 1..Len(q) /\ g # i /\ y = q[g] /\ j \in Nat /\ j - 1 \in Nat /\ j + 1 \in Nat
      BY <1>4, <1>12
    <2>2. y \in 1..Slots /\ y # x
      <3>1. y \in 1..Slots
        BY <1>1, <2>1, ElementOf, Zenon
      <3>2. y # x
        BY <1>1, <2>1 DEF Once
      <3> QED
        BY <3>1, <3>2
    <2>3. (y = n <=> g = i + 1) /\ (y = p <=> g = i - 1)
      <3>1. y = n => g = i + 1
        <4>1. i + 1 \in Int
          BY <1>4
        <4> QED
          BY <1>1, <2>1, <4>1, SamePlace DEF n
      <3>2. y = p => g = i - 1
        <4>1. i - 1 \in Int
          BY <1>4
        <4> QED
          BY <1>1, <2>1, <4>1, SamePlace DEF p
      <3>3. g = i + 1 => y = n
        BY <2>1 DEF n, At
      <3>4. g = i - 1 => y = p
        BY <2>1 DEF p, At
      <3> QED
        BY <3>1, <3>2, <3>3, <3>4
    <2>4. l.slots[y].prev = At(q, g - 1) /\ l.slots[y].next = At(q, g + 1)
      BY <1>1, <2>1
    <2>5. /\ d.slots[y].prev = IF g = i + 1 THEN p ELSE At(q, g - 1)
          /\ d.slots[y].next = IF g = i - 1 THEN n ELSE At(q, g + 1)
      <3> HIDE DEF y, g, x
      <3> QED
        BY <1>5, <1>6, <1>10, <2>2, <2>3, <2>4
    <2> HIDE DEF y
    <2>6. CASE j < i
      <3>1. g = j /\ At(r, j - 1) = At(q, j - 1) /\ g # i + 1
        BY <1>4, <1>13, <2>1, <2>6
      <3>2. j + 1 < i => At(r, j + 1) = At(q, j + 1) /\ g # i - 1
        BY <1>4, <1>13, <2>1, <2>6
      <3>3. ~(j + 1 < i) => At(r, j + 1) = At(q, i + 1) /\ g = i - 1
        BY <1>4, <1>13, <2>1, <2>6
      <3> QED
        BY <2>5, <3>1, <3>2, <3>3 DEF n, y
    <2>7. CASE ~(j < i)
      <3>1. g = j + 1 /\ At(r, j + 1) = At(q, (j + 1) + 1) /\ g # i - 1
        BY <1>4, <1>13, <2>1, <2>7
      <3>2. j = i => At(r, j - 1) = At(q, i - 1) /\ g = i + 1
        BY <1>4, <1>13, <2>1, <2>7
      <3>3. j # i => At(r, j - 1) = At(q, (j - 1) + 1) /\ g # i + 1 /\ (j - 1) + 1 = g - 1
        BY <1>4, <1>13, <2>1, <2>7
      <3> QED
        BY <2>5, <3>1, <3>2, <3>3 DEF p, y
    <2> QED
      BY <2>6, <2>7
  <1>17. d \in [slots : [1..Slots -> Slot], head : 0..Slots, tail : 0..Slots]
    BY <1>1, <1>3, <1>7, <1>10
  <1> QED
    BY <1>11, <1>12, <1>14, <1>15, <1>16, <1>17 DEF Threads, r, d

\* The places of a queue with one more slot.
LEMMA AppendAt ==
  ASSUME NEW S, NEW q \in Seq(S), NEW i \in S, NEW j \in Int
  PROVE  At(Append(q, i), j) = IF j = Len(q) + 1 THEN i ELSE At(q, j)
  <1> DEFINE r == Append(q, i)
             m == Len(q)
  <1>1. m \in Nat /\ Len(r) = m + 1 /\ r[m + 1] = i /\ \A k \in 1..m : r[k] = q[k]
    OBVIOUS
  <1> HIDE DEF r, m
  <1>2. At(r, j) = IF j = m + 1 THEN i ELSE IF j \in 1..m THEN q[j] ELSE NoSlot
    BY <1>1 DEF At
  <1> QED
    BY <1>2 DEF At, r, m

\* push_back puts a slot behind the last one, and changes no entry.
LEMMA PushThreads ==
  ASSUME NEW q, NEW l, Threads(q, l), NEW i \in 1..Slots, i \notin Keys(q)
  PROVE  Threads(Append(q, i), push_back(l, i)) /\ SameData(push_back(l, i).slots, l.slots)
  <1>1. /\ l \in [slots : [1..Slots -> Slot], head : 0..Slots, tail : 0..Slots]
        /\ q \in Seq(1..Slots) /\ Once(q)
        /\ l.head = At(q, 1) /\ l.tail = At(q, Len(q))
        /\ \A j \in 1..Len(q) : l.slots[q[j]].prev = At(q, j - 1) /\ l.slots[q[j]].next = At(q, j + 1)
    BY DEF Threads
  <1> DEFINE s1 == Link(l.slots, l.tail, "next", i)
             d == push_back(l, i)
             r == Append(q, i)
             m == Len(q)
  <1>2. i \in 0..Slots /\ l.tail \in 0..Slots /\ l.slots \in [1..Slots -> Slot] /\ m \in Nat /\ i # NoSlot
    BY <1>1, CacheAssumption DEF NoSlot
  <1>3. s1 \in [1..Slots -> Slot] /\ SameData(s1, l.slots)
        /\ \A y \in 1..Slots : /\ s1[y].prev = l.slots[y].prev
                               /\ s1[y].next = IF y = l.tail THEN i ELSE l.slots[y].next
    BY <1>2, LinkNext
  <1>4. d = [slots |-> [s1 EXCEPT ![i].prev = l.tail, ![i].next = NoSlot],
             head |-> IF l.tail = NoSlot THEN i ELSE l.head, tail |-> i]
    BY DEF push_back
  <1> HIDE DEF s1, d
  <1>5. d.slots = [s1 EXCEPT ![i] = [[s1[i] EXCEPT !.prev = l.tail] EXCEPT !.next = NoSlot]]
    <2>1. d.slots = [s1 EXCEPT ![i].prev = l.tail, ![i].next = NoSlot]
      BY <1>4
    <2> QED
      BY <1>3, <2>1
  <1> DEFINE e == [[s1[i] EXCEPT !.prev = l.tail] EXCEPT !.next = NoSlot]
  <1>6. e \in Slot /\ e.key = s1[i].key /\ e.value = s1[i].value /\ e.prev = l.tail /\ e.next = NoSlot
    <2>1. s1[i] \in Slot /\ 0 \in 0..Slots
      BY <1>3, CacheAssumption
    <2> QED
      BY <1>2, <2>1 DEF Slot, NoSlot
  <1>7. d.slots \in [1..Slots -> Slot] /\ (\A y \in 1..Slots : y # i => d.slots[y] = s1[y]) /\ d.slots[i] = e
    <2>1. d.slots = [s1 EXCEPT ![i] = e]
      BY <1>5
    <2> HIDE DEF e
    <2> QED
      BY <1>3, <1>6, <2>1
  <1> HIDE DEF e
  <1>8. SameData(d.slots, l.slots)
    <2> SUFFICES ASSUME NEW y \in 1..Slots
                 PROVE  d.slots[y].key = l.slots[y].key /\ d.slots[y].value = l.slots[y].value
      BY DEF SameData
    <2>1. d.slots[y].key = s1[y].key /\ d.slots[y].value = s1[y].value
      BY <1>6, <1>7
    <2>2. s1[y].key = l.slots[y].key /\ s1[y].value = l.slots[y].value
      BY <1>3 DEF SameData
    <2> QED
      BY <2>1, <2>2
  <1>9. r \in Seq(1..Slots) /\ Once(r) /\ Len(r) = m + 1
    <2>1. r \in Seq(1..Slots) /\ Once(r)
      BY <1>1, AppendOnce, Zenon
    <2>2. Len(r) = m + 1
      BY <1>1
    <2> QED
      BY <2>1, <2>2
  <1>10. \A j \in Int : At(r, j) = IF j = m + 1 THEN i ELSE At(q, j)
    <2>1. q \in Seq(1..Slots) /\ i \in 1..Slots
      BY <1>1
    <2>2. ASSUME NEW j \in Int PROVE At(r, j) = IF j = m + 1 THEN i ELSE At(q, j)
      BY <2>1, AppendAt
    <2> HIDE DEF r, m
    <2> QED
      BY <2>2
  <1>11. \A j \in 1..m : r[j] = q[j]
    BY <1>1
  <1>12. r[m + 1] = i
    BY <1>1
  <1> HIDE DEF r
  <1>13. d.head = At(r, 1)
    <2>1. CASE m = 0
      <3>1. At(q, m) = NoSlot /\ At(r, 1) = i
        BY <1>10, <2>1 DEF At
      <3> QED
        BY <1>1, <1>4, <3>1
    <2>2. CASE m # 0
      <3>1. At(q, m) # NoSlot
        <4>1. m \in 1..m /\ m \in 1..Len(q)
          BY <1>2, <2>2
        <4>2. q[m] \in 1..Slots
          BY <1>1, <4>1, ElementOf, Zenon
        <4> QED
          BY <4>1, <4>2, CacheAssumption DEF At, NoSlot
      <3>2. At(r, 1) = At(q, 1)
        BY <1>2, <1>10, <2>2
      <3> QED
        BY <1>1, <1>4, <3>1, <3>2
    <2> QED
      BY <2>1, <2>2
  <1>14. d.tail = At(r, Len(r))
    <2>1. m + 1 \in Int
      BY <1>2
    <2> QED
      BY <1>4, <1>9, <1>10, <2>1
  <1>15. ASSUME NEW j \in 1..Len(r) PROVE d.slots[r[j]].prev = At(r, j - 1) /\ d.slots[r[j]].next = At(r, j + 1)
    <2>1. CASE j = m + 1
      <3>1. r[j] = i /\ d.slots[i].prev = At(q, m) /\ d.slots[i].next = NoSlot
        BY <1>1, <1>6, <1>7, <1>12, <2>1
      <3>2. At(r, j - 1) = At(q, m)
        BY <1>2, <1>10, <2>1
      <3>3. At(r, j + 1) = NoSlot
        BY <1>2, <1>9, <2>1 DEF At
      <3> QED
        BY <3>1, <3>2, <3>3
    <2>2. CASE j # m + 1
      <3>1. j \in 1..m /\ j \in 1..Len(q) /\ j - 1 \in Int /\ j + 1 \in Int /\ j - 1 # m + 1 /\ j \in DOMAIN q
        BY <1>1, <1>2, <1>9, <2>2
      <3> DEFINE y == q[j]
      <3>2. y \in 1..Slots /\ y # i
        BY <1>1, <3>1, ElementOf, Zenon DEF Keys
      <3>3. l.slots[y].prev = At(q, j - 1) /\ l.slots[y].next = At(q, j + 1)
        BY <1>1, <3>1
      <3>4. y = l.tail <=> j = m
        <4>1. y = l.tail => j = m
          <5>1. m \in Int
            BY <1>2
          <5> QED
            BY <1>1, <3>1, <5>1, SamePlace
        <4>2. j = m => y = l.tail
          BY <1>1, <3>1 DEF At
        <4> QED
          BY <4>1, <4>2
      <3> HIDE DEF y
      <3>5. d.slots[y].prev = At(q, j - 1) /\ d.slots[y].next = IF j = m THEN i ELSE At(q, j + 1)
        BY <1>3, <1>7, <3>2, <3>3, <3>4
      <3>6. At(r, j - 1) = At(q, j - 1) /\ (j = m => At(r, j + 1) = i) /\ (j # m => At(r, j + 1) = At(q, j + 1))
        BY <1>2, <1>10, <3>1
      <3> QED
        BY <1>11, <3>1, <3>5, <3>6 DEF y
    <2> QED
      BY <2>1, <2>2
  <1>16. d \in [slots : [1..Slots -> Slot], head : 0..Slots, tail : 0..Slots]
    BY <1>1, <1>2, <1>4, <1>7
  <1> QED
    BY <1>8, <1>9, <1>13, <1>14, <1>15, <1>16 DEF Threads, r, d

\* A slot that is used goes behind the others.
LEMMA MoveThreads ==
  ASSUME NEW q, NEW l, Threads(q, l), NEW i \in 1..Len(q)
  PROVE  Threads(Append(Removed(q, i), q[i]), move_to_back(l, q[i])) /\ SameData(move_to_back(l, q[i]).slots, l.slots)
  <1>1. q \in Seq(1..Slots) /\ Once(q) /\ l.tail = At(q, Len(q))
    BY DEF Threads
  <1>2. CASE l.tail = q[i]
    <2>1. Len(q) \in Int
      BY <1>1
    <2>2. i = Len(q)
      BY <1>1, <1>2, <2>1, SamePlace
    <2> DEFINE r == Removed(q, i)
               m == Len(q) - 1
    <2>3. r \in Seq(1..Slots) /\ Len(r) = m /\ \A j \in 1..m : r[j] = IF j < i THEN q[j] ELSE q[j + 1]
      BY <1>1, RemovedIs, Zenon
    <2> HIDE DEF r
    <2>4. \A j \in 1..m : r[j] = q[j]
      BY <2>2, <2>3
    <2>5. q[i] \in 1..Slots /\ m \in Nat /\ Len(q) = m + 1
      <3>1. q[i] \in 1..Slots
        BY <1>1, ElementOf, Zenon
      <3> QED
        BY <1>1, <3>1
    <2>6. Append(r, q[i]) \in Seq(1..Slots) /\ Len(Append(r, q[i])) = m + 1 /\ Append(r, q[i])[m + 1] = q[i]
          /\ \A j \in 1..m : Append(r, q[i])[j] = r[j]
      BY <2>3, <2>5
    <2>7. \A j \in 1..(m + 1) : Append(r, q[i])[j] = q[j]
      <3>1. \A j \in 1..(m + 1) : j \in 1..m \/ j = m + 1
        <4> HIDE DEF m
        <4> QED
          BY <2>5
      <3> QED
        BY <2>2, <2>4, <2>5, <2>6, <3>1
    <2>8. Append(r, q[i]) = q
      <3> DEFINE b == Append(r, q[i])
      <3>1. b \in Seq(1..Slots) /\ q \in Seq(1..Slots) /\ Len(b) = Len(q) /\ \A j \in 1..Len(q) : b[j] = q[j]
        BY <1>1, <2>5, <2>6, <2>7
      <3> HIDE DEF b
      <3>2. b = q
        BY <3>1, SeqEqual, Zenon
      <3> QED
        BY <3>2 DEF b
    <2>9. move_to_back(l, q[i]) = l
      BY <1>2 DEF move_to_back
    <2> QED
      BY <2>8, <2>9 DEF SameData, r
  <1>3. CASE l.tail # q[i]
    <2> DEFINE r == Removed(q, i)
               d == detach(l, q[i])
    <2>1. Threads(r, d) /\ SameData(d.slots, l.slots)
      BY DetachThreads
    <2>2. q[i] \notin Keys(r)
      BY <1>1, RemovedQueue
    <2>3. q[i] \in 1..Slots
      BY <1>1, ElementOf, Zenon
    <2>4. move_to_back(l, q[i]) = push_back(d, q[i])
      BY <1>3 DEF move_to_back
    <2> HIDE DEF r, d
    <2>5. Threads(Append(r, q[i]), push_back(d, q[i])) /\ SameData(push_back(d, q[i]).slots, d.slots)
      BY <2>1, <2>2, <2>3, PushThreads
    <2>6. SameData(push_back(d, q[i]).slots, l.slots)
      BY <2>1, <2>5 DEF SameData
    <2> QED
      BY <2>4, <2>5, <2>6 DEF r
  <1> QED
    BY <1>2, <1>3

\* The list is no longer than there are slots, and full when it holds every slot.
LEMMA ThreadsFit ==
  ASSUME NEW q, NEW l, Threads(q, l)
  PROVE  Len(q) \in Nat /\ Len(q) <= Slots /\ (Keys(q) = 1..Slots => Len(q) = Slots)
         /\ (Len(q) = Slots => Keys(q) = 1..Slots) /\ Keys(q) \in SUBSET (1..Slots)
  <1>0. q \in Seq(1..Slots) /\ Once(q) /\ Slots \in Nat
    BY CacheAssumption DEF Threads
  <1>1. IsFiniteSet(Keys(q)) /\ Cardinality(Keys(q)) = Len(q)
    BY <1>0, OnceCounts, Zenon
  <1>2. Keys(q) \subseteq 1..Slots
    BY <1>0, ElementOf DEF Keys
  <1>3. IsFiniteSet(1..Slots) /\ Cardinality(1..Slots) = Slots
    BY <1>0, FS_Interval
  <1>4. Cardinality(Keys(q)) <= Cardinality(1..Slots)
        /\ (Cardinality(Keys(q)) = Cardinality(1..Slots) => Keys(q) = 1..Slots)
    BY <1>2, <1>3, FS_Subset
  <1> QED
    BY <1>0, <1>1, <1>2, <1>3, <1>4

\* One link further along the chain from the head.
FurtherOn(w) == IF w.at = NoSlot THEN w ELSE [at |-> slots[w.at].next, met |-> Append(w.met, w.at)]

\* The slots met from the head are those of the queue, in its order.
LEMMA ChainIs == \A q : Threads(q, List) => Chain = q
  <1> SUFFICES ASSUME NEW q, Threads(q, List) PROVE Chain = q
    OBVIOUS
  <1>1. /\ q \in Seq(1..Slots) /\ headSlot = At(q, 1)
        /\ \A j \in 1..Len(q) : slots[q[j]].next = At(q, j + 1)
    BY DEF Threads, List
  <1>2. Len(q) \in Nat /\ Len(q) <= Slots /\ Slots \in Nat
    BY ThreadsFit, CacheAssumption
  <1> DEFINE First(n) == IF n < Len(q) THEN SubSeq(q, 1, n) ELSE q
             F == [n \in 0..Slots |-> [at |-> At(q, n + 1), met |-> First(n)]]
             step(G, n) == IF n = 0 THEN [at |-> headSlot, met |-> <<>>] ELSE FurtherOn(G[n - 1])
  <1>3. ASSUME NEW n \in 0..Slots PROVE F[n] = step(F, n)
    <2>1. CASE n = 0
      <3>1. First(0) = <<>>
        BY <1>1, <1>2
      <3> QED
        BY <1>1, <2>1, <3>1
    <2>2. CASE n # 0
      <3>0. n \in Nat /\ n - 1 \in 0..Slots /\ (n - 1) + 1 = n
        BY <1>2, <2>2
      <3>1. F[n - 1] = [at |-> At(q, n), met |-> First(n - 1)]
        <4> HIDE DEF First
        <4> QED
          BY <3>0
      <3>2. CASE n > Len(q)
        <4>1. At(q, n) = NoSlot /\ At(q, n + 1) = NoSlot /\ First(n - 1) = q /\ First(n) = q
          BY <1>2, <3>0, <3>2 DEF At
        <4> QED
          BY <2>2, <3>1, <4>1 DEF FurtherOn
      <3>3. CASE ~(n > Len(q))
        <4>1. n \in 1..Len(q) /\ n - 1 < Len(q)
          BY <1>2, <2>2, <3>0, <3>3
        <4>2. At(q, n) = q[n] /\ q[n] \in 1..Slots /\ q[n] # NoSlot
          <5>1. q[n] \in 1..Slots
            BY <1>1, <4>1, ElementOf, Zenon
          <5> QED
            BY <4>1, <5>1, CacheAssumption DEF At, NoSlot
        <4>3. First(n) = Append(SubSeq(q, 1, n - 1), q[n])
          <5> DEFINE a == SubSeq(q, 1, n - 1)
                     b == Append(a, q[n])
          <5>1. a \in Seq(1..Slots) /\ Len(a) = n - 1 /\ \A j \in 1..(n - 1) : a[j] = q[j]
            BY <1>1, <1>2, <4>1
          <5> HIDE DEF a
          <5>2. b \in Seq(1..Slots) /\ Len(b) = n /\ b[n] = q[n] /\ \A j \in 1..(n - 1) : b[j] = q[j]
            BY <3>0, <4>1, <4>2, <5>1
          <5>3. \A j \in 1..n : b[j] = q[j]
            <6>1. \A j \in 1..n : j \in 1..(n - 1) \/ j = n
              BY <3>0
            <6> HIDE DEF b
            <6> QED
              BY <5>2, <6>1
          <5>4. First(n) \in Seq(1..Slots) /\ Len(First(n)) = n /\ \A j \in 1..n : First(n)[j] = q[j]
            <6>1. CASE n < Len(q)
              BY <1>1, <1>2, <4>1, <6>1
            <6>2. CASE ~(n < Len(q))
              <7>1. n = Len(q) /\ First(n) = q
                BY <1>2, <4>1, <6>2
              <7> QED
                BY <1>1, <7>1
            <6> QED
              BY <6>1, <6>2
          <5>5. First(n) = b
            <6>0. First(n) \in Seq(1..Slots) /\ b \in Seq(1..Slots) /\ Len(First(n)) = Len(b)
                  /\ \A j \in 1..Len(First(n)) : First(n)[j] = b[j]
              <7> HIDE DEF b, First
              <7> QED
                BY <5>2, <5>3, <5>4
            <6> HIDE DEF b, First
            <6> QED
              BY <6>0, SeqEqual, Zenon
          <5> QED
            BY <5>5 DEF a
        <4>4. F[n] = [at |-> At(q, n + 1), met |-> First(n)]
          BY Zenon
        <4>5. First(n - 1) = SubSeq(q, 1, n - 1)
          BY <4>1
        <4>6. slots[q[n]].next = At(q, n + 1)
          BY <1>1, <4>1
        <4> HIDE DEF F, First
        <4> DEFINE w == F[n - 1]
        <4>7. w.at = q[n] /\ w.met = SubSeq(q, 1, n - 1)
          BY <3>1, <4>2, <4>5
        <4> HIDE DEF w
        <4>8. FurtherOn(w) = [at |-> slots[w.at].next, met |-> Append(w.met, w.at)]
          BY <4>2, <4>7 DEF FurtherOn
        <4>9. FurtherOn(w) = F[n]
          BY <4>3, <4>4, <4>6, <4>7, <4>8
        <4> QED
          BY <2>2, <4>9 DEF w
      <3> QED
        BY <3>2, <3>3
    <2> QED
      BY <2>1, <2>2
  <1>4. F = [n \in 0..Slots |-> step(F, n)]
    <2>1. F = [n \in 0..Slots |-> F[n]]
      BY Zenon
    <2> HIDE DEF F, step
    <2> QED
      BY <1>3, <2>1, Zenon
  <1> DEFINE Walk == CHOOSE Walk : Walk = [n \in 0..Slots |-> step(Walk, n)]
  <1>5. Walk = [n \in 0..Slots |-> step(Walk, n)]
    <2> HIDE DEF step
    <2> QED
      BY <1>4, Zenon
  <1>6. Chain = Walk[Slots].met
    BY Zenon DEF Chain, FurtherOn
  <1> HIDE DEF Walk
  <1>7. \A n \in 0..Slots : Walk[n] = step(Walk, n)
    <2> HIDE DEF step
    <2> QED
      BY <1>5, Zenon
  <1> DEFINE T == {n \in Nat : n \in 0..Slots => Walk[n] = F[n]}
  <1>8. 0 \in T
    BY <1>2, <1>3, <1>7
  <1>9. ASSUME NEW n \in 1..Slots, n - 1 \in T PROVE n \in T
    <2>1. n \in 0..Slots /\ n - 1 \in 0..Slots /\ n # 0 /\ n \in Nat
      BY <1>2
    <2>2. Walk[n - 1] = F[n - 1]
      BY <1>9, <2>1
    <2>3. Walk[n] = FurtherOn(Walk[n - 1]) /\ F[n] = FurtherOn(F[n - 1])
      <3> HIDE DEF F
      <3> QED
        BY <1>3, <1>7, <2>1
    <2> HIDE DEF F
    <2> QED
      BY <2>1, <2>2, <2>3
  <1>10. Walk[Slots] = F[Slots]
    <2>1. Slots \in T
      <3> HIDE DEF T
      <3>1. 0..Slots \subseteq T
        BY <1>2, <1>8, <1>9, UpToInduction
      <3> QED
        BY <1>2, <3>1
    <2> HIDE DEF F
    <2> QED
      BY <1>2, <2>1
  <1>11. F[Slots].met = q
    BY <1>2
  <1> QED
    BY <1>6, <1>10, <1>11

\* The entries in the order of a queue of slots.
Entry == [key : LruKey \cup {NoSlot}, value : Nat]
EntryIn(s, x) == [key |-> s[x].key, value |-> s[x].value]
OrderOf(q, s) == [i \in 1..Len(q) |-> EntryIn(s, q[i])]

\* The order is a sequence of entries.
LEMMA OrderTyped ==
  ASSUME NEW q \in Seq(1..Slots), NEW s \in [1..Slots -> Slot]
  PROVE  /\ OrderOf(q, s) \in Seq(Entry) /\ Len(OrderOf(q, s)) = Len(q)
         /\ \A i \in 1..Len(q) : OrderOf(q, s)[i] = EntryIn(s, q[i])
  <1>1. ASSUME NEW i \in 1..Len(q) PROVE EntryIn(s, q[i]) \in Entry
    <2>1. s[q[i]] \in Slot
      BY ElementOf
    <2> QED
      BY <2>1 DEF Slot, Entry, EntryIn
  <1>2. Len(q) \in Nat
    OBVIOUS
  <1> QED
    BY <1>1, <1>2 DEF OrderOf

\* An entry that is used goes behind the others, whatever becomes of its value.
LEMMA MoveOrder ==
  ASSUME NEW q \in Seq(1..Slots), NEW s \in [1..Slots -> Slot], NEW t \in [1..Slots -> Slot],
         NEW i \in 1..Len(q), \A j \in 1..Len(q) : j # i => EntryIn(t, q[j]) = EntryIn(s, q[j])
  PROVE  OrderOf(Append(Removed(q, i), q[i]), t) = Append(Removed(OrderOf(q, s), i), EntryIn(t, q[i]))
  <1> DEFINE m == Len(q) - 1
             a == Removed(q, i)
             b == Append(a, q[i])
             o == OrderOf(q, s)
             c == Removed(o, i)
             d == Append(c, EntryIn(t, q[i]))
             p == OrderOf(b, t)
  <1>1. m \in Nat /\ i \in 1..(m + 1) /\ Len(q) = m + 1
    OBVIOUS
  <1>2. q[i] \in 1..Slots
    BY ElementOf, Zenon
  <1>3. a \in Seq(1..Slots) /\ Len(a) = m /\ \A j \in 1..m : a[j] = IF j < i THEN q[j] ELSE q[j + 1]
    BY RemovedIs, Zenon
  <1>4. o \in Seq(Entry) /\ Len(o) = Len(q) /\ \A j \in 1..Len(q) : o[j] = EntryIn(s, q[j])
    BY OrderTyped, Zenon
  <1> HIDE DEF a, o
  <1>5. b \in Seq(1..Slots) /\ Len(b) = m + 1 /\ b[m + 1] = q[i] /\ \A j \in 1..m : b[j] = a[j]
    BY <1>2, <1>3
  <1> HIDE DEF b
  <1>6. p \in Seq(Entry) /\ Len(p) = Len(b) /\ \A j \in 1..Len(b) : p[j] = EntryIn(t, b[j])
    BY <1>5, OrderTyped, Zenon
  <1> HIDE DEF p
  <1>7. EntryIn(t, q[i]) \in Entry
    <2>1. t[q[i]] \in Slot
      BY <1>2
    <2> QED
      BY <2>1 DEF Slot, Entry, EntryIn
  <1>8. i \in 1..Len(o)
    BY <1>4
  <1>9. c \in Seq(Entry) /\ Len(c) = Len(o) - 1
        /\ \A j \in 1..(Len(o) - 1) : c[j] = IF j < i THEN o[j] ELSE o[j + 1]
    BY <1>4, <1>8, RemovedIs, Zenon
  <1> HIDE DEF c
  <1>10. Len(c) = m /\ \A j \in 1..m : c[j] = IF j < i THEN o[j] ELSE o[j + 1]
    BY <1>4, <1>9
  <1>11. d \in Seq(Entry) /\ Len(d) = m + 1 /\ d[m + 1] = EntryIn(t, q[i]) /\ \A j \in 1..m : d[j] = c[j]
    BY <1>7, <1>9, <1>10
  <1> HIDE DEF d, m
  <1>12. ASSUME NEW j \in 1..(m + 1) PROVE p[j] = d[j]
    <2>1. CASE j = m + 1
      BY <1>5, <1>6, <1>11, <2>1
    <2>2. CASE j # m + 1
      <3>1. j \in 1..m /\ j \in 1..Len(b)
        BY <1>1, <1>5, <2>2
      <3> DEFINE g == IF j < i THEN j ELSE j + 1
      <3>2. g \in 1..Len(q) /\ g # i
        BY <1>1, <3>1
      <3>3. a[j] = q[g] /\ c[j] = o[g]
        BY <1>3, <1>10, <3>1
      <3>4. p[j] = EntryIn(t, a[j])
        BY <1>5, <1>6, <3>1
      <3>5. EntryIn(t, q[g]) = EntryIn(s, q[g])
        BY <3>2
      <3>6. o[g] = EntryIn(s, q[g])
        BY <1>4, <3>2
      <3>7. d[j] = c[j]
        BY <1>11, <3>1
      <3> HIDE DEF g
      <3> QED
        BY <3>3, <3>4, <3>5, <3>6, <3>7
    <2> QED
      BY <2>1, <2>2
  <1>13. p = d
    <2>1. Len(p) = Len(d) /\ \A j \in 1..Len(p) : p[j] = d[j]
      BY <1>5, <1>6, <1>11, <1>12
    <2> QED
      BY <1>6, <1>11, <2>1, SeqEqual, Zenon
  <1> QED
    BY <1>13 DEF p, d, b, c, a, o

\* A new entry goes behind the others.
LEMMA AppendOrder ==
  ASSUME NEW q \in Seq(1..Slots), NEW s \in [1..Slots -> Slot], NEW t \in [1..Slots -> Slot],
         NEW x \in 1..Slots, \A j \in 1..Len(q) : EntryIn(t, q[j]) = EntryIn(s, q[j])
  PROVE  OrderOf(Append(q, x), t) = Append(OrderOf(q, s), EntryIn(t, x))
  <1> DEFINE m == Len(q)
             b == Append(q, x)
             o == OrderOf(q, s)
             d == Append(o, EntryIn(t, x))
             p == OrderOf(b, t)
  <1>1. m \in Nat
    OBVIOUS
  <1>4. o \in Seq(Entry) /\ Len(o) = m /\ \A j \in 1..m : o[j] = EntryIn(s, q[j])
    BY OrderTyped, Zenon
  <1> HIDE DEF o
  <1>5. b \in Seq(1..Slots) /\ Len(b) = m + 1 /\ b[m + 1] = x /\ \A j \in 1..m : b[j] = q[j]
    OBVIOUS
  <1> HIDE DEF b
  <1>6. p \in Seq(Entry) /\ Len(p) = Len(b) /\ \A j \in 1..Len(b) : p[j] = EntryIn(t, b[j])
    BY <1>5, OrderTyped, Zenon
  <1> HIDE DEF p
  <1>7. EntryIn(t, x) \in Entry
    <2>1. t[x] \in Slot
      OBVIOUS
    <2> QED
      BY <2>1 DEF Slot, Entry, EntryIn
  <1>11. d \in Seq(Entry) /\ Len(d) = m + 1 /\ d[m + 1] = EntryIn(t, x) /\ \A j \in 1..m : d[j] = o[j]
    BY <1>4, <1>7
  <1> HIDE DEF d
  <1>12. ASSUME NEW j \in 1..(m + 1) PROVE p[j] = d[j]
    <2>1. CASE j = m + 1
      BY <1>5, <1>6, <1>11, <2>1
    <2>2. CASE j # m + 1
      <3>1. j \in 1..m /\ j \in 1..Len(b)
        BY <1>1, <1>5, <2>2
      <3> QED
        BY <1>4, <1>5, <1>6, <1>11, <3>1
    <2> QED
      BY <2>1, <2>2
  <1>13. p = d
    <2>1. Len(p) = Len(d) /\ \A j \in 1..Len(p) : p[j] = d[j]
      BY <1>5, <1>6, <1>11, <1>12
    <2> QED
      BY <1>6, <1>11, <2>1, SeqEqual, Zenon
  <1> QED
    BY <1>13 DEF p, d, b, o

\* The first place of a sequence goes.
LEMMA RemovedFirst ==
  ASSUME NEW S, NEW q \in Seq(S), q # <<>>
  PROVE  Removed(q, 1) = Tail(q)
  <1> DEFINE r == Removed(q, 1)
             t == Tail(q)
             m == Len(q) - 1
  <1>1. 1 \in 1..Len(q) /\ m \in Nat
    OBVIOUS
  <1>2. r \in Seq(S) /\ Len(r) = m /\ \A j \in 1..m : r[j] = IF j < 1 THEN q[j] ELSE q[j + 1]
    BY <1>1, RemovedIs, Zenon
  <1>3. t \in Seq(S) /\ Len(t) = m /\ \A j \in 1..m : t[j] = q[j + 1]
    OBVIOUS
  <1> HIDE DEF r, t, m
  <1>4. Len(r) = Len(t) /\ \A j \in 1..Len(r) : r[j] = t[j]
    <2>1. Len(r) = m /\ Len(t) = m
      BY <1>2, <1>3
    <2>2. ASSUME NEW j \in 1..m PROVE r[j] = t[j]
      BY <1>1, <1>2, <1>3
    <2> QED
      BY <2>1, <2>2
  <1>5. r = t
    BY <1>2, <1>3, <1>4, SeqEqual, Zenon
  <1> QED
    BY <1>5 DEF r, t

-----------------------------------------------------------------------------
\* The tiny cache: its slots are either in the list, in the order q, and in the
\* index under their key, or they are free.
TinyHolds(q) ==
  /\ Threads(q, List)
  /\ DOMAIN index = {slots[x].key : x \in Keys(q)}
  /\ \A x \in Keys(q) : index[slots[x].key] = x
  /\ free \in Seq(1..Slots) /\ Once(free) /\ Keys(free) = (1..Slots) \ Keys(q)

\* The order that is observed is the one of the queue.
LEMMA OrderIs == \A q : Threads(q, List) => Order = OrderOf(q, slots)
  <1> SUFFICES ASSUME NEW q, Threads(q, List) PROVE Order = OrderOf(q, slots)
    OBVIOUS
  <1>1. Chain = q
    BY ChainIs
  <1> QED
    BY <1>1 DEF Order, OrderOf, EntryIn

\* The abstract operations, for an entry that is there.
LEMMA EntryIs ==
  ASSUME NEW q, TinyHolds(q), NEW i \in 1..Len(q), NEW k, k = slots[q[i]].key
  PROVE  /\ Lru!Has(k) /\ Lru!PlaceOf(k) = i /\ Lru!EntryOf(k) = Order[i] /\ Lru!Without(k) = Removed(Order, i)
  <1>0. q \in Seq(1..Slots) /\ slots \in [1..Slots -> Slot] /\ Once(q)
    BY DEF TinyHolds, Threads, List
  <1>1. Order = OrderOf(q, slots)
    BY OrderIs DEF TinyHolds
  <1>2. Order \in Seq(Entry) /\ Len(Order) = Len(q) /\ \A j \in 1..Len(q) : Order[j] = EntryIn(slots, q[j])
    BY <1>0, <1>1, OrderTyped
  <1>3. DOMAIN Order = 1..Len(q) /\ \A j \in 1..Len(q) : Order[j].key = slots[q[j]].key
    <2>1. DOMAIN Order = 1..Len(q)
      <3> DEFINE o == Order
      <3>1. o \in Seq(Entry) /\ Len(o) = Len(q)
        BY <1>2
      <3> HIDE DEF o
      <3>2. DOMAIN o = 1..Len(q)
        BY <3>1
      <3> QED
        BY <3>2 DEF o
    <2>2. ASSUME NEW j \in 1..Len(q) PROVE Order[j].key = slots[q[j]].key
      <3>1. Order[j] = EntryIn(slots, q[j])
        BY <1>2
      <3> QED
        BY <3>1 DEF EntryIn
    <2> QED
      BY <2>1, <2>2
  <1>4. ASSUME NEW j \in 1..Len(q), Order[j].key = k PROVE j = i
    <2>1. j \in DOMAIN q /\ i \in DOMAIN q
      BY <1>0
    <2>2. q[j] \in Keys(q) /\ q[i] \in Keys(q)
      BY <2>1 DEF Keys
    <2>3. slots[q[j]].key = slots[q[i]].key
      BY <1>3, <1>4
    <2>4. q[j] = q[i]
      BY <2>2, <2>3 DEF TinyHolds
    <2> QED
      BY <1>0, <2>1, <2>4 DEF Once
  <1>5. i \in DOMAIN Order /\ Order[i].key = k
    BY <1>3
  <1>6. Lru!PlaceOf(k) = i
    BY <1>3, <1>4, <1>5 DEF Lru!PlaceOf
  <1>7. Lru!Has(k)
    BY <1>5 DEF Lru!Has
  <1> QED
    BY <1>6, <1>7 DEF Lru!EntryOf, Lru!Without, Lru!RemoveAt, Removed

\* The abstract operations, for an entry that is not.
LEMMA NoEntry ==
  ASSUME NEW q, TinyHolds(q), NEW k, k \notin DOMAIN index
  PROVE  ~Lru!Has(k) /\ Lru!Without(k) = Order
  <1>0. q \in Seq(1..Slots) /\ slots \in [1..Slots -> Slot] /\ Once(q)
    BY DEF TinyHolds, Threads, List
  <1>1. Order = OrderOf(q, slots)
    BY OrderIs DEF TinyHolds
  <1>2. Order \in Seq(Entry) /\ Len(Order) = Len(q) /\ \A j \in 1..Len(q) : Order[j] = EntryIn(slots, q[j])
    BY <1>0, <1>1, OrderTyped
  <1>3. DOMAIN Order = 1..Len(q) /\ \A j \in 1..Len(q) : Order[j].key = slots[q[j]].key
    <2>1. DOMAIN Order = 1..Len(q)
      <3> DEFINE o == Order
      <3>1. o \in Seq(Entry) /\ Len(o) = Len(q)
        BY <1>2
      <3> HIDE DEF o
      <3>2. DOMAIN o = 1..Len(q)
        BY <3>1
      <3> QED
        BY <3>2 DEF o
    <2>2. ASSUME NEW j \in 1..Len(q) PROVE Order[j].key = slots[q[j]].key
      <3>1. Order[j] = EntryIn(slots, q[j])
        BY <1>2
      <3> QED
        BY <3>1 DEF EntryIn
    <2> QED
      BY <2>1, <2>2
  <1>4. ASSUME NEW j \in DOMAIN Order, Order[j].key = k PROVE FALSE
    <2>1. j \in DOMAIN q
      BY <1>0, <1>3
    <2>2. slots[q[j]].key \in DOMAIN index
      BY <2>1 DEF TinyHolds, Keys
    <2> QED
      BY <1>3, <1>4, <2>2
  <1> QED
    BY <1>4 DEF Lru!Has, Lru!Without

\* And so is the one of the next state.
LEMMA OrderIsAfter == \A q : (Threads(q, List))' => Order' = OrderOf(q, slots')
  <1>1. (\A q : Threads(q, List) => Order = OrderOf(q, slots))'
    BY OrderIs, PTL
  <1>2. ASSUME NEW q, (Threads(q, List))' PROVE Order' = OrderOf(q, slots')
    <2>1. (Order = OrderOf(q, slots))'
      BY <1>1, <1>2
    <2>2. (OrderOf(q, slots))' = OrderOf(q, slots')
      BY DEF OrderOf, EntryIn
    <2> QED
      BY <2>1, <2>2
  <1> QED
    BY <1>2

\* What SetList sets is the list of the next state.
LEMMA ListAfter ==
  ASSUME NEW q, NEW l, Threads(q, l), SetList(l)
  PROVE  (Threads(q, List))' /\ slots' = l.slots
  <1>1. l \in [slots : [1..Slots -> Slot], head : 0..Slots, tail : 0..Slots]
    BY DEF Threads
  <1>2. slots' = l.slots /\ headSlot' = l.head /\ tailSlot' = l.tail
    BY DEF SetList
  <1>3. List' = l
    BY <1>1, <1>2 DEF List
  <1>4. (Threads(q, List))' = Threads(q, List')
    BY DEF Threads
  <1> QED
    BY <1>2, <1>3, <1>4

\* An entry is used, and its value may change.
LEMMA MovedTiny ==
  ASSUME NEW q, TinyHolds(q), NEW i \in 1..Len(q), NEW l, Threads(q, l),
         \A x \in 1..Slots : l.slots[x].key = slots[x].key /\ (x # q[i] => l.slots[x].value = slots[x].value),
         SetList(move_to_back(l, q[i])), UNCHANGED <<index, free>>
  PROVE  \E r : TinyHolds(r)' /\ Order' = Append(Removed(Order, i), EntryIn(l.slots, q[i]))
  <1> DEFINE r == Append(Removed(q, i), q[i])
             b == move_to_back(l, q[i])
  <1>1. Threads(r, b) /\ SameData(b.slots, l.slots)
    BY MoveThreads
  <1>2. /\ q \in Seq(1..Slots) /\ Once(q) /\ slots \in [1..Slots -> Slot]
        /\ l.slots \in [1..Slots -> Slot] /\ b.slots \in [1..Slots -> Slot]
    BY <1>1 DEF TinyHolds, Threads, List
  <1>3. q[i] \in 1..Slots
    BY <1>2, ElementOf, Zenon
  <1>4. Keys(r) = Keys(q)
    <2>1. Removed(q, i) \in Seq(1..Slots) /\ Once(Removed(q, i)) /\ Keys(Removed(q, i)) = Keys(q) \ {q[i]}
      BY <1>2, RemovedIs, RemovedQueue
    <2>2. q[i] \in Keys(q) /\ q[i] \notin Keys(Removed(q, i))
      <3>1. i \in DOMAIN q
        BY <1>2
      <3> QED
        BY <2>1, <3>1 DEF Keys
    <2>3. Keys(r) = Keys(Removed(q, i)) \cup {q[i]}
      <3> DEFINE a == Removed(q, i)
      <3>1. a \in Seq(1..Slots) /\ Once(a) /\ q[i] \notin Keys(a)
        BY <2>1, <2>2
      <3> HIDE DEF a
      <3>2. Keys(Append(a, q[i])) = Keys(a) \cup {q[i]}
        <4> DEFINE x == q[i]
        <4>1. x \in 1..Slots /\ x \notin Keys(a)
          BY <1>3, <3>1
        <4> HIDE DEF x
        <4>2. Keys(Append(a, x)) = Keys(a) \cup {x}
          BY <3>1, <4>1, AppendOnce, Zenon
        <4> QED
          BY <4>2 DEF x
      <3> QED
        BY <3>2 DEF a
    <2> QED
      BY <2>1, <2>2, <2>3
  <1>5. (Threads(r, List))' /\ slots' = b.slots
    <2> HIDE DEF r, b
    <2> QED
      BY <1>1, ListAfter DEF b
  <1>6. \A x \in 1..Slots : slots'[x].key = slots[x].key
    BY <1>1, <1>5 DEF SameData
  <1>7. \A x \in 1..Slots : EntryIn(slots', x) = EntryIn(l.slots, x)
    BY <1>1, <1>5 DEF SameData, EntryIn
  <1>8. \A x \in 1..Slots : x # q[i] => EntryIn(l.slots, x) = EntryIn(slots, x)
    BY DEF EntryIn
  <1> HIDE DEF b
  <1>9. TinyHolds(r)'
    <2> HIDE DEF r
    <2>1. Keys(r) \subseteq 1..Slots
      <3>1. Threads(q, List)
        BY DEF TinyHolds
      <3>2. Keys(q) \subseteq 1..Slots
        BY <3>1, ThreadsFit
      <3> QED
        BY <1>4, <3>2
    <2>2. DOMAIN index' = {slots'[x].key : x \in Keys(r)}
      BY <1>4, <1>6, <2>1 DEF TinyHolds
    <2>3. \A x \in Keys(r) : index'[slots'[x].key] = x
      BY <1>4, <1>6, <2>1 DEF TinyHolds
    <2>4. free' \in Seq(1..Slots) /\ Once(free') /\ Keys(free') = (1..Slots) \ Keys(r)
      BY <1>4 DEF TinyHolds
    <2>5. (Once(free))' = Once(free') /\ (Keys(free))' = Keys(free')
      BY DEF Once, Keys
    <2> QED
      BY <1>5, <2>2, <2>3, <2>4, <2>5 DEF TinyHolds
  <1>10. Order' = OrderOf(r, slots') /\ Order = OrderOf(q, slots)
    BY <1>5, OrderIs, OrderIsAfter DEF TinyHolds
  <1>11. \A j \in 1..Len(q) : j # i => EntryIn(slots', q[j]) = EntryIn(slots, q[j])
    <2> SUFFICES ASSUME NEW j \in 1..Len(q), j # i PROVE EntryIn(slots', q[j]) = EntryIn(slots, q[j])
      OBVIOUS
    <2>1. q[j] \in 1..Slots
      BY <1>2, ElementOf, Zenon
    <2>2. q[j] # q[i]
      BY <1>2 DEF Once
    <2> QED
      BY <1>7, <1>8, <2>1, <2>2
  <1>12. OrderOf(r, slots') = Append(Removed(OrderOf(q, slots), i), EntryIn(slots', q[i]))
    BY <1>2, <1>5, <1>11, MoveOrder
  <1>13. EntryIn(slots', q[i]) = EntryIn(l.slots, q[i])
    BY <1>3, <1>7
  <1> QED
    BY <1>9, <1>10, <1>12, <1>13

\* The slot of a key of the index.
LEMMA Indexed ==
  ASSUME NEW q, TinyHolds(q), NEW k \in DOMAIN index
  PROVE  \E i \in 1..Len(q) : k = slots[q[i]].key /\ index[k] = q[i]
  <1>1. PICK x \in Keys(q) : k = slots[x].key
    BY DEF TinyHolds
  <1>2. PICK i \in DOMAIN q : x = q[i]
    BY <1>1 DEF Keys
  <1>3. q \in Seq(1..Slots)
    BY DEF TinyHolds, Threads
  <1>4. i \in 1..Len(q)
    BY <1>2, <1>3
  <1>5. index[k] = x
    BY <1>1 DEF TinyHolds
  <1> QED
    BY <1>1, <1>2, <1>4, <1>5

\* What changes nothing changes no order.
LEMMA TinySame ==
  ASSUME NEW q, TinyHolds(q), UNCHANGED tiny
  PROVE  TinyHolds(q)' /\ Order' = Order
  <1>1. slots' = slots /\ index' = index /\ headSlot' = headSlot /\ tailSlot' = tailSlot /\ free' = free
    BY DEF tiny
  <1>2. TinyHolds(q)'
    <2>1. List' = List
      BY <1>1 DEF List
    <2>2. (Threads(q, List))' = Threads(q, List')
      BY DEF Threads
    <2>3. (Once(free))' = Once(free') /\ (Keys(free))' = Keys(free')
      BY DEF Once, Keys
    <2> QED
      BY <1>1, <2>1, <2>2, <2>3 DEF TinyHolds
  <1>3. Order' = OrderOf(q, slots') /\ Order = OrderOf(q, slots)
    BY <1>2, OrderIs, OrderIsAfter DEF TinyHolds
  <1> QED
    BY <1>1, <1>2, <1>3

\* A hit is the LruGet of the abstract queue.
LEMMA GetTiny ==
  ASSUME NEW q, TinyHolds(q), NEW k \in LruKey, TinyGet(k)
  PROVE  \E r : TinyHolds(r)' /\ (Lru!LruGet(k) \/ Order' = Order)
  <1>1. CASE k \notin DOMAIN index
    BY <1>1, TinySame DEF TinyGet
  <1>2. CASE k \in DOMAIN index
    <2>1. PICK i \in 1..Len(q) : k = slots[q[i]].key /\ index[k] = q[i]
      BY <1>2, Indexed
    <2>2. Threads(q, List)
      BY DEF TinyHolds
    <2>3. SetList(move_to_back(List, q[i])) /\ UNCHANGED <<index, free>>
      BY <1>2, <2>1 DEF TinyGet
    <2>4. List.slots = slots
      BY DEF List
    <2>5. PICK r : TinyHolds(r)' /\ Order' = Append(Removed(Order, i), EntryIn(slots, q[i]))
      BY <2>2, <2>3, <2>4, MovedTiny
    <2>6. /\ Lru!Has(k) /\ Lru!EntryOf(k) = Order[i] /\ Lru!Without(k) = Removed(Order, i)
      BY <2>1, EntryIs
    <2>7. Order[i] = EntryIn(slots, q[i])
      BY <2>2, OrderIs DEF OrderOf
    <2>8. Lru!LruGet(k)
      BY <2>5, <2>6, <2>7 DEF Lru!LruGet
    <2> QED
      BY <2>5, <2>8
  <1> QED
    BY <1>1, <1>2

\* Threads looks at the links only.
LEMMA SameLinks ==
  ASSUME NEW q, NEW l, Threads(q, l),
         NEW m \in [slots : [1..Slots -> Slot], head : 0..Slots, tail : 0..Slots],
         m.head = l.head, m.tail = l.tail,
         \A x \in Keys(q) : m.slots[x].prev = l.slots[x].prev /\ m.slots[x].next = l.slots[x].next
  PROVE  Threads(q, m)
  <1>1. ASSUME NEW j \in 1..Len(q)
        PROVE  m.slots[q[j]].prev = At(q, j - 1) /\ m.slots[q[j]].next = At(q, j + 1)
    <2>1. q \in Seq(1..Slots)
      BY DEF Threads
    <2>2. q[j] \in Keys(q)
      BY <2>1 DEF Keys
    <2> QED
      BY <2>2 DEF Threads
  <1> QED
    BY <1>1 DEF Threads

\* The last key of the queue goes.
LEMMA FrontQueue ==
  ASSUME NEW S, NEW q \in Seq(S), Once(q), q # <<>>
  PROVE  LET r == SubSeq(q, 1, Len(q) - 1)
         IN r \in Seq(S) /\ Once(r) /\ Keys(r) = Keys(q) \ {q[Len(q)]}
  <1> DEFINE m == Len(q) - 1
             r == SubSeq(q, 1, m)
  <1>1. m \in Nat /\ Len(q) = m + 1 /\ DOMAIN q = 1..(m + 1)
    OBVIOUS
  <1>2. r \in Seq(S) /\ DOMAIN r = 1..m /\ \A j \in 1..m : r[j] = q[j]
    OBVIOUS
  <1> HIDE DEF r, m
  <1>3. \A j \in 1..m : j \in 1..(m + 1) /\ j # m + 1
    BY <1>1
  <1>4. \A j \in 1..(m + 1) : j \in 1..m \/ j = m + 1
    BY <1>1
  <1>5. m + 1 \in 1..(m + 1)
    BY <1>1
  <1>6. Once(r)
    BY <1>1, <1>2, <1>3 DEF Once
  <1>7. Keys(r) \subseteq Keys(q) \ {q[m + 1]}
    BY <1>1, <1>2, <1>3, <1>5 DEF Keys, Once
  <1>8. Keys(q) \ {q[m + 1]} \subseteq Keys(r)
    BY <1>1, <1>2, <1>4 DEF Keys
  <1> QED
    BY <1>1, <1>2, <1>6, <1>7, <1>8 DEF r, m

\* A key that is there gets its value and goes behind the others.
LEMMA PutThere ==
  ASSUME NEW q, TinyHolds(q), NEW k \in LruKey, NEW v \in LruValue, TinyPut(k, v), k \in DOMAIN index
  PROVE  \E r : TinyHolds(r)' /\ (Lru!LruPut(k, v) \/ Order' = Order)
  <1>1. PICK i \in 1..Len(q) : k = slots[q[i]].key /\ index[k] = q[i]
    BY Indexed
  <1>2. /\ Threads(q, List) /\ q \in Seq(1..Slots) /\ slots \in [1..Slots -> Slot]
        /\ List \in [slots : [1..Slots -> Slot], head : 0..Slots, tail : 0..Slots]
    BY DEF TinyHolds, Threads, List
  <1> DEFINE x == q[i]
             l == [List EXCEPT !.slots[x].value = v]
             e == [slots[x] EXCEPT !.value = v]
  <1>3. x \in 1..Slots
    BY <1>2, ElementOf, Zenon
  <1>4. Slots # 0
    BY <1>3
  <1>5. SetList(move_to_back(l, x)) /\ UNCHANGED <<index, free>>
    BY <1>1, <1>4 DEF TinyPut
  <1> HIDE DEF x
  <1>6. e \in Slot /\ e.key = slots[x].key /\ e.value = v /\ e.prev = slots[x].prev /\ e.next = slots[x].next
    <2>1. slots[x] \in Slot /\ v \in Nat
      BY <1>2, <1>3, CacheAssumption
    <2> QED
      BY <2>1 DEF Slot
  <1>7. l.slots = [slots EXCEPT ![x] = e] /\ l.head = List.head /\ l.tail = List.tail
        /\ l = [slots |-> l.slots, head |-> List.head, tail |-> List.tail] /\ List.slots = slots
    BY <1>2, <1>3 DEF List
  <1> HIDE DEF l, e
  <1>8. l.slots \in [1..Slots -> Slot] /\ l.slots[x] = e /\ \A y \in 1..Slots : y # x => l.slots[y] = slots[y]
    BY <1>2, <1>3, <1>6, <1>7
  <1>9. l \in [slots : [1..Slots -> Slot], head : 0..Slots, tail : 0..Slots]
    BY <1>2, <1>7, <1>8
  <1>10. Threads(q, l)
    <2>1. Keys(q) \subseteq 1..Slots
      BY <1>2, ThreadsFit
    <2>2. \A y \in Keys(q) : l.slots[y].prev = List.slots[y].prev /\ l.slots[y].next = List.slots[y].next
      BY <1>6, <1>7, <1>8, <2>1
    <2> QED
      BY <1>2, <1>7, <1>9, <2>2, SameLinks
  <1>11. \A y \in 1..Slots : l.slots[y].key = slots[y].key /\ (y # x => l.slots[y].value = slots[y].value)
    BY <1>6, <1>8
  <1>12. PICK r : TinyHolds(r)' /\ Order' = Append(Removed(Order, i), EntryIn(l.slots, x))
    BY <1>5, <1>10, <1>11, MovedTiny DEF x
  <1>13. EntryIn(l.slots, x) = [key |-> k, value |-> v]
    BY <1>1, <1>6, <1>8 DEF EntryIn, x
  <1>14. Lru!Has(k) /\ Lru!Without(k) = Removed(Order, i)
    BY <1>1, EntryIs
  <1>15. Slots > 0
    BY <1>4, CacheAssumption
  <1>16. Lru!LruPut(k, v)
    BY <1>12, <1>13, <1>14, <1>15 DEF Lru!LruPut
  <1> QED
    BY <1>12, <1>16

\* The index finds each slot of the queue under its key.
Files(p, l, ix) ==
  /\ DOMAIN ix = {l.slots[y].key : y \in Keys(p)}
  /\ \A y \in Keys(p) : ix[l.slots[y].key] = y

\* The slot x is filled, and put behind the queue p.
Fills(p, l, x, k, v, ix) ==
  /\ SetList(push_back([l EXCEPT !.slots = [l.slots EXCEPT ![x] = [Vacant EXCEPT !.key = k, !.value = v]]], x))
  /\ index' = [y \in DOMAIN ix \cup {k} |-> IF y = k THEN x ELSE ix[y]]
  /\ free' \in Seq(1..Slots) /\ Once(free') /\ Keys(free') = (1..Slots) \ (Keys(p) \cup {x})

\* The queue p, and x behind it, hold what the next state holds.
IsFilled(p, l, x, k, v) ==
  /\ TinyHolds(Append(p, x))' /\ slots' \in [1..Slots -> Slot] /\ Order' = OrderOf(Append(p, x), slots')
  /\ EntryIn(slots', x) = [key |-> k, value |-> v]
  /\ \A y \in Keys(p) : EntryIn(slots', y) = EntryIn(l.slots, y)

\* A slot that is in no list is filled and put at the end.
LEMMA FilledTiny ==
  ASSUME NEW p, NEW l, Threads(p, l), NEW x \in 1..Slots, x \notin Keys(p), NEW k \in LruKey, NEW v \in LruValue,
         NEW ix, Files(p, l, ix), k \notin DOMAIN ix, Fills(p, l, x, k, v, ix)
  PROVE  IsFilled(p, l, x, k, v)
  <1>1. /\ l \in [slots : [1..Slots -> Slot], head : 0..Slots, tail : 0..Slots]
        /\ p \in Seq(1..Slots) /\ Once(p) /\ Keys(p) \subseteq 1..Slots
    BY ThreadsFit DEF Threads
  <1> DEFINE e == [Vacant EXCEPT !.key = k, !.value = v]
             s == [l.slots EXCEPT ![x] = e]
             m == [l EXCEPT !.slots = s]
             b == push_back(m, x)
             r == Append(p, x)
  <1>2. e = [key |-> k, value |-> v, prev |-> NoSlot, next |-> NoSlot]
    <2>1. [Vacant EXCEPT !.key = k] = [key |-> k, value |-> 0, prev |-> NoSlot, next |-> NoSlot]
      BY DEF Vacant
    <2> DEFINE w == [Vacant EXCEPT !.key = k]
    <2>2. e = [w EXCEPT !.value = v]
      BY DEF Vacant
    <2>3. w = [key |-> k, value |-> 0, prev |-> NoSlot, next |-> NoSlot]
      BY <2>1
    <2> HIDE DEF w
    <2>4. [w EXCEPT !.value = v] = [key |-> k, value |-> v, prev |-> NoSlot, next |-> NoSlot]
      BY <2>3
    <2> HIDE DEF e
    <2> QED
      BY <2>2, <2>4
  <1>3. e \in Slot
    <2>1. v \in Nat /\ 0 \in 0..Slots
      BY CacheAssumption
    <2> QED
      BY <1>2, <2>1 DEF Slot, NoSlot
  <1>4. e.key = k /\ e.value = v
    BY <1>2
  <1> HIDE DEF e
  <1>5. s \in [1..Slots -> Slot] /\ s[x] = e /\ \A y \in 1..Slots : y # x => s[y] = l.slots[y]
    BY <1>1, <1>3
  <1>6. m.slots = s /\ m.head = l.head /\ m.tail = l.tail /\ m = [slots |-> s, head |-> l.head, tail |-> l.tail]
    <2> HIDE DEF s
    <2> QED
      BY <1>1
  <1>7. SetList(b)
    BY DEF e, Fills
  <1> HIDE DEF s, m
  <1>8. Threads(p, m)
    <2>1. m \in [slots : [1..Slots -> Slot], head : 0..Slots, tail : 0..Slots]
      BY <1>1, <1>5, <1>6
    <2>2. \A y \in Keys(p) : m.slots[y].prev = l.slots[y].prev /\ m.slots[y].next = l.slots[y].next
      BY <1>1, <1>5, <1>6
    <2> QED
      BY <1>6, <2>1, <2>2, SameLinks
  <1>9. Threads(r, b) /\ SameData(b.slots, s)
    BY <1>6, <1>8, PushThreads
  <1>10. (Threads(r, List))' /\ slots' = b.slots
    <2> HIDE DEF r, b
    <2> QED
      BY <1>7, <1>9, ListAfter
  <1>11. Keys(r) = Keys(p) \cup {x}
    <2>1. p \in Seq(1..Slots) /\ Once(p)
      BY <1>1
    <2>2. Append(p, x) \in Seq(1..Slots) /\ Once(Append(p, x)) /\ Keys(Append(p, x)) = Keys(p) \cup {x}
      BY <2>1, AppendOnce, Zenon
    <2> QED
      BY <2>2, Zenon
  <1>12. slots' \in [1..Slots -> Slot]
    BY <1>9, <1>10 DEF Threads
  <1>13. /\ slots'[x].key = k /\ slots'[x].value = v
         /\ \A y \in Keys(p) : slots'[y].key = l.slots[y].key /\ slots'[y].value = l.slots[y].value
    <2> HIDE DEF b
    <2>1. slots'[x].key = s[x].key /\ slots'[x].value = s[x].value
      BY <1>9, <1>10 DEF SameData
    <2>2. ASSUME NEW y \in Keys(p) PROVE slots'[y].key = l.slots[y].key /\ slots'[y].value = l.slots[y].value
      <3>1. y \in 1..Slots /\ y # x
        BY <1>1
      <3>2. slots'[y].key = s[y].key /\ slots'[y].value = s[y].value
        BY <1>9, <1>10, <3>1 DEF SameData
      <3> QED
        BY <1>5, <3>1, <3>2
    <2> QED
      BY <1>4, <1>5, <2>1, <2>2
  <1> HIDE DEF r, b
  <1>14. DOMAIN index' = {slots'[y].key : y \in Keys(r)}
    BY <1>11, <1>13 DEF Files, Fills
  <1>15. \A y \in Keys(r) : index'[slots'[y].key] = y
    <2> SUFFICES ASSUME NEW y \in Keys(r) PROVE index'[slots'[y].key] = y
      OBVIOUS
    <2>1. CASE y = x
      BY <1>13, <2>1 DEF Fills
    <2>2. CASE y # x
      <3>1. y \in Keys(p) /\ slots'[y].key = l.slots[y].key /\ l.slots[y].key \in DOMAIN ix
        BY <1>11, <1>13, <2>2 DEF Files
      <3>2. l.slots[y].key # k
        BY <3>1
      <3> QED
        BY <3>1, <3>2 DEF Files, Fills
    <2> QED
      BY <2>1, <2>2
  <1>16. TinyHolds(r)'
    <2>1. (Once(free))' = Once(free') /\ (Keys(free))' = Keys(free')
      BY DEF Once, Keys
    <2> QED
      BY <1>10, <1>11, <1>14, <1>15, <2>1 DEF TinyHolds, Fills
  <1>17. Order' = OrderOf(r, slots')
    BY <1>10, OrderIsAfter
  <1>18. EntryIn(slots', x) = [key |-> k, value |-> v] /\ \A y \in Keys(p) : EntryIn(slots', y) = EntryIn(l.slots, y)
    BY <1>13 DEF EntryIn
  <1> QED
    BY <1>12, <1>16, <1>17, <1>18 DEF r, IsFilled

\* A slot is free.
LEMMA InsertFree ==
  ASSUME NEW q, TinyHolds(q), NEW k \in LruKey, NEW v \in LruValue, TinyInsert(k, v),
         k \notin DOMAIN index, free # <<>>
  PROVE  \E r : TinyHolds(r)' /\ Lru!LruPut(k, v)
  <1>1. /\ Threads(q, List) /\ q \in Seq(1..Slots) /\ slots \in [1..Slots -> Slot] /\ List.slots = slots
        /\ free \in Seq(1..Slots) /\ Once(free) /\ Keys(free) = (1..Slots) \ Keys(q)
    BY DEF TinyHolds, Threads, List
  <1> DEFINE x == free[Len(free)]
             f == SubSeq(free, 1, Len(free) - 1)
             r == Append(q, x)
  <1>2. Len(free) \in 1..Len(free) /\ Len(free) \in DOMAIN free
    BY <1>1
  <1>3. x \in 1..Slots /\ x \in Keys(free)
    <2>1. x \in 1..Slots
      BY <1>1, <1>2, ElementOf, Zenon
    <2> QED
      BY <1>2, <2>1 DEF Keys
  <1>4. f \in Seq(1..Slots) /\ Once(f) /\ Keys(f) = Keys(free) \ {x}
    BY <1>1, FrontQueue, Zenon
  <1>5. /\ SetList(push_back([List EXCEPT !.slots = [List.slots EXCEPT ![x] = [Vacant EXCEPT !.key = k, !.value = v]]], x))
        /\ index' = [y \in DOMAIN index \cup {k} |-> IF y = k THEN x ELSE index[y]]
        /\ free' = f
    BY DEF TinyInsert, allocate_slot
  <1> HIDE DEF x, f
  <1>6. x \notin Keys(q)
    BY <1>1, <1>3
  <1>7. DOMAIN index = {List.slots[y].key : y \in Keys(q)} /\ \A y \in Keys(q) : index[List.slots[y].key] = y
    BY <1>1 DEF TinyHolds
  <1>8. Keys(free') = (1..Slots) \ (Keys(q) \cup {x}) /\ free' \in Seq(1..Slots) /\ Once(free')
    BY <1>1, <1>4, <1>5
  <1>8a. Files(q, List, index) /\ Fills(q, List, x, k, v, index)
    BY <1>5, <1>7, <1>8 DEF Files, Fills
  <1>8b. IsFilled(q, List, x, k, v)
    BY <1>1, <1>3, <1>6, <1>8a, FilledTiny, Zenon
  <1>9. /\ TinyHolds(r)' /\ slots' \in [1..Slots -> Slot] /\ Order' = OrderOf(r, slots')
        /\ EntryIn(slots', x) = [key |-> k, value |-> v]
        /\ \A y \in Keys(q) : EntryIn(slots', y) = EntryIn(List.slots, y)
    BY <1>8b DEF IsFilled
  <1>10. \A j \in 1..Len(q) : EntryIn(slots', q[j]) = EntryIn(slots, q[j])
    <2> SUFFICES ASSUME NEW j \in 1..Len(q) PROVE EntryIn(slots', q[j]) = EntryIn(slots, q[j])
      OBVIOUS
    <2>1. q[j] \in Keys(q)
      BY <1>1 DEF Keys
    <2> QED
      BY <1>1, <1>9, <2>1
  <1>11. OrderOf(r, slots') = Append(OrderOf(q, slots), EntryIn(slots', x))
    <2> DEFINE t == slots'
    <2>1. t \in [1..Slots -> Slot] /\ \A j \in 1..Len(q) : EntryIn(t, q[j]) = EntryIn(slots, q[j])
      BY <1>9, <1>10
    <2>2. q \in Seq(1..Slots) /\ slots \in [1..Slots -> Slot] /\ x \in 1..Slots
      BY <1>1, <1>3
    <2> HIDE DEF t
    <2>3. OrderOf(Append(q, x), t) = Append(OrderOf(q, slots), EntryIn(t, x))
      BY <2>1, <2>2, AppendOrder
    <2> QED
      BY <2>3 DEF t
  <1>12. Order = OrderOf(q, slots)
    BY <1>1, OrderIs
  <1>13. ~Lru!Has(k) /\ Lru!Without(k) = Order
    BY NoEntry
  <1>14. Len(Order) # Slots /\ Slots > 0
    <2>1. Len(q) # Slots
      BY <1>1, <1>3, <1>6, ThreadsFit
    <2>2. Len(Order) = Len(q)
      BY <1>1, <1>12, OrderTyped
    <2>3. Slots > 0
      BY <1>3, CacheAssumption
    <2> QED
      BY <2>1, <2>2, <2>3
  <1>15. Lru!LruPut(k, v)
    BY <1>9, <1>11, <1>12, <1>13, <1>14 DEF Lru!LruPut
  <1> QED
    BY <1>9, <1>15

\* No slot is free: the entry at the head of the list goes.
LEMMA InsertFull ==
  ASSUME NEW q, TinyHolds(q), NEW k \in LruKey, NEW v \in LruValue, TinyInsert(k, v),
         k \notin DOMAIN index, free = <<>>, Slots # 0
  PROVE  \E r : TinyHolds(r)' /\ Lru!LruPut(k, v)
  <1>1. /\ Threads(q, List) /\ q \in Seq(1..Slots) /\ Once(q) /\ slots \in [1..Slots -> Slot] /\ List.slots = slots
        /\ headSlot = At(q, 1)
    BY DEF TinyHolds, Threads, List
  <1>2. Keys(q) = 1..Slots
    <2>1. Keys(free) = {}
      BY DEF Keys
    <2>2. Keys(q) \subseteq 1..Slots
      BY <1>1, ThreadsFit
    <2> QED
      BY <2>1, <2>2 DEF TinyHolds
  <1>3. Len(q) = Slots /\ Slots > 0 /\ 1 \in 1..Len(q) /\ Slots \in Nat
    <2>1. Len(q) = Slots
      BY <1>1, <1>2, ThreadsFit
    <2> QED
      BY <2>1, CacheAssumption
  <1> DEFINE x == q[1]
             p == Removed(q, 1)
             l == detach(List, x)
             r == Append(p, x)
             ix == [y \in DOMAIN index \ {slots[x].key} |-> index[y]]
  <1>4. x \in 1..Slots /\ headSlot = x
    <2>1. x \in 1..Slots
      BY <1>1, <1>3, ElementOf, Zenon
    <2> QED
      BY <1>1, <1>3, <2>1 DEF At
  <1>5. Threads(p, l) /\ SameData(l.slots, slots)
    BY <1>1, <1>3, DetachThreads
  <1>6. Keys(p) = Keys(q) \ {x} /\ p \in Seq(1..Slots)
    BY <1>1, <1>3, RemovedIs, RemovedQueue
  <1>7. /\ SetList(push_back([l EXCEPT !.slots = [l.slots EXCEPT ![x] = [Vacant EXCEPT !.key = k, !.value = v]]], x))
        /\ index' = [y \in DOMAIN ix \cup {k} |-> IF y = k THEN x ELSE ix[y]]
        /\ free' = <<>>
    BY <1>4 DEF TinyInsert, allocate_slot
  <1> HIDE DEF l, p
  <1>8. \A y \in Keys(p) : y \in 1..Slots /\ y # x /\ l.slots[y].key = slots[y].key
    BY <1>2, <1>5, <1>6 DEF SameData
  <1>9. \A y \in Keys(p) : slots[y].key # slots[x].key
    <2> SUFFICES ASSUME NEW y \in Keys(p), slots[y].key = slots[x].key PROVE FALSE
      OBVIOUS
    <2>1. index[slots[y].key] = y /\ index[slots[x].key] = x
      BY <1>2, <1>4, <1>8 DEF TinyHolds
    <2> QED
      BY <1>8, <2>1
  <1>10. DOMAIN index = {slots[y].key : y \in Keys(p)} \cup {slots[x].key}
    BY <1>2, <1>4, <1>6 DEF TinyHolds
  <1>11. DOMAIN ix = {l.slots[y].key : y \in Keys(p)}
    <2>1. DOMAIN ix = {slots[y].key : y \in Keys(p)}
      BY <1>9, <1>10
    <2>2. {slots[y].key : y \in Keys(p)} = {l.slots[y].key : y \in Keys(p)}
      BY <1>8
    <2> QED
      BY <2>1, <2>2
  <1>12. \A y \in Keys(p) : ix[l.slots[y].key] = y
    <2> SUFFICES ASSUME NEW y \in Keys(p) PROVE ix[l.slots[y].key] = y
      OBVIOUS
    <2>1. slots[y].key \in DOMAIN index \ {slots[x].key} /\ index[slots[y].key] = y
      BY <1>2, <1>8, <1>9, <1>10 DEF TinyHolds
    <2> QED
      BY <1>8, <2>1
  <1>13. k \notin DOMAIN ix
    OBVIOUS
  <1> HIDE DEF ix
  <1>14. free' \in Seq(1..Slots) /\ Once(free') /\ Keys(free') = (1..Slots) \ (Keys(p) \cup {x})
    <2>1. Keys(<<>>) = {} /\ Once(<<>>) /\ <<>> \in Seq(1..Slots)
      BY DEF Keys, Once
    <2> QED
      BY <1>2, <1>4, <1>6, <1>7, <2>1
  <1>15. x \notin Keys(p)
    BY <1>6
  <1>16. /\ TinyHolds(r)' /\ slots' \in [1..Slots -> Slot] /\ Order' = OrderOf(r, slots')
         /\ EntryIn(slots', x) = [key |-> k, value |-> v]
         /\ \A y \in Keys(p) : EntryIn(slots', y) = EntryIn(l.slots, y)
    <2> HIDE DEF x
    <2>1. Files(p, l, ix) /\ Fills(p, l, x, k, v, ix)
      BY <1>7, <1>11, <1>12, <1>14 DEF Files, Fills
    <2>2. IsFilled(p, l, x, k, v)
      BY <1>4, <1>5, <1>13, <1>15, <2>1, FilledTiny, Zenon
    <2> QED
      BY <2>2 DEF IsFilled
  <1>17. \A y \in Keys(p) : EntryIn(slots', y) = EntryIn(slots, y)
    BY <1>5, <1>8, <1>16 DEF SameData, EntryIn
  <1>18. \A j \in 1..Len(q) : j # 1 => EntryIn(slots', q[j]) = EntryIn(slots, q[j])
    <2> SUFFICES ASSUME NEW j \in 1..Len(q), j # 1 PROVE EntryIn(slots', q[j]) = EntryIn(slots, q[j])
      OBVIOUS
    <2>1. j \in DOMAIN q /\ 1 \in DOMAIN q
      BY <1>1, <1>3
    <2>2. q[j] \in Keys(q) /\ q[j] # x
      BY <1>1, <2>1 DEF Keys, Once
    <2> QED
      BY <1>6, <1>17, <2>2
  <1>19. OrderOf(r, slots') = Append(Removed(OrderOf(q, slots), 1), EntryIn(slots', x))
    BY <1>1, <1>3, <1>16, <1>18, MoveOrder DEF p
  <1>20. Order = OrderOf(q, slots)
    BY <1>1, OrderIs
  <1>21. Order \in Seq(Entry) /\ Len(Order) = Slots
    BY <1>1, <1>3, <1>20, OrderTyped
  <1>22. Removed(Order, 1) = Tail(Order)
    <2>1. Order # <<>>
      BY <1>3, <1>21
    <2> QED
      BY <1>21, <2>1, RemovedFirst
  <1>23. ~Lru!Has(k)
    BY NoEntry
  <1>24. Lru!LruPut(k, v)
    BY <1>3, <1>16, <1>19, <1>20, <1>21, <1>22, <1>23 DEF Lru!LruPut
  <1> QED
    BY <1>16, <1>24

\* A put is the LruPut of the abstract queue, or does nothing without slots.
LEMMA PutTiny ==
  ASSUME NEW q, TinyHolds(q), NEW k \in LruKey, NEW v \in LruValue, TinyPut(k, v)
  PROVE  \E r : TinyHolds(r)' /\ (Lru!LruPut(k, v) \/ Order' = Order)
  <1>1. CASE Slots = 0
    <2>1. UNCHANGED tiny
      <3>1. Keys(q) = {}
        <4>1. Threads(q, List)
          BY DEF TinyHolds
        <4>2. Keys(q) \subseteq 1..Slots
          BY <4>1, ThreadsFit
        <4> QED
          BY <1>1, <4>2
      <3>2. k \notin DOMAIN index
        BY <3>1 DEF TinyHolds
      <3> QED
        BY <1>1, <3>2 DEF TinyPut
    <2> QED
      BY <2>1, TinySame
  <1>2. CASE Slots # 0 /\ k \in DOMAIN index
    BY <1>2, PutThere
  <1>3. CASE Slots # 0 /\ k \notin DOMAIN index
    <2>1. TinyInsert(k, v)
      BY <1>3 DEF TinyPut
    <2>2. CASE free # <<>>
      <3>1. \E r : TinyHolds(r)' /\ Lru!LruPut(k, v)
        BY <1>3, <2>1, <2>2, InsertFree
      <3> QED
        BY <3>1
    <2>3. CASE free = <<>>
      <3>1. \E r : TinyHolds(r)' /\ Lru!LruPut(k, v)
        BY <1>3, <2>1, <2>3, InsertFull
      <3> QED
        BY <3>1
    <2> QED
      BY <2>2, <2>3
  <1> QED
    BY <1>1, <1>2, <1>3

\* The inductive invariant: the slots are a list in some order.
TinyInv == \E q : TinyHolds(q)

\* An empty list.
LEMMA InitTiny == ASSUME CacheInit PROVE TinyHolds(<<>>) /\ Order = <<>>
  <1>1. /\ slots = [i \in 1..Slots |-> Vacant] /\ index = NoIndex /\ headSlot = NoSlot /\ tailSlot = NoSlot
        /\ free = [i \in 1..Slots |-> Slots + 1 - i]
    BY DEF CacheInit
  <1>2. <<>> \in Seq(1..Slots) /\ Len(<<>>) = 0 /\ Slots \in Nat
    BY CacheAssumption
  <1>3. Keys(<<>>) = {} /\ Once(<<>>) /\ \A j : At(<<>>, j) = NoSlot
    BY <1>2 DEF Keys, Once, At
  <1>4. Vacant \in Slot
    BY <1>2 DEF Vacant, Slot, NoSlot
  <1>5. List \in [slots : [1..Slots -> Slot], head : 0..Slots, tail : 0..Slots] /\ List.head = NoSlot /\ List.tail = NoSlot
    BY <1>1, <1>2, <1>4 DEF List, NoSlot
  <1>6. Threads(<<>>, List)
    BY <1>2, <1>3, <1>5 DEF Threads
  <1>7. free \in Seq(1..Slots) /\ DOMAIN free = 1..Slots
    BY <1>1, <1>2
  <1>8. Once(free)
    BY <1>1, <1>2, <1>7 DEF Once
  <1>9. Keys(free) = 1..Slots
    <2>1. Keys(free) \subseteq 1..Slots
      BY <1>1, <1>2, <1>7 DEF Keys
    <2>2. ASSUME NEW x \in 1..Slots PROVE x \in Keys(free)
      <3>1. Slots + 1 - x \in DOMAIN free /\ free[Slots + 1 - x] = x
        BY <1>1, <1>2, <1>7
      <3> QED
        BY <3>1 DEF Keys
    <2> QED
      BY <2>1, <2>2
  <1>10. DOMAIN index = {}
    BY <1>1 DEF NoIndex
  <1>11. TinyHolds(<<>>)
    BY <1>3, <1>6, <1>7, <1>8, <1>9, <1>10 DEF TinyHolds
  <1>12. OrderOf(<<>>, slots) = <<>>
    BY <1>2 DEF OrderOf
  <1> QED
    BY <1>6, <1>11, <1>12, OrderIs

\* Every step of the list is a step of the queue ordered by last use, or none.
LEMMA StepTiny ==
  ASSUME TinyInv, [CacheNext]_cacheVars
  PROVE  TinyInv' /\ [Lru!LruNext]_Order
  <1> PICK q : TinyHolds(q)
    BY DEF TinyInv
  <1>1. CASE UNCHANGED tiny
    BY <1>1, TinySame DEF TinyInv
  <1>2. CASE TinyCall
    <2>1. PICK k \in LruKey : TinyGet(k) \/ \E v \in LruValue : TinyPut(k, v)
      BY <1>2 DEF TinyCall
    <2>2. CASE TinyGet(k)
      <3>1. PICK r : TinyHolds(r)' /\ (Lru!LruGet(k) \/ Order' = Order)
        BY <2>2, GetTiny
      <3> QED
        BY <3>1 DEF TinyInv, Lru!LruNext
    <2>3. ASSUME NEW v \in LruValue, TinyPut(k, v) PROVE TinyInv' /\ [Lru!LruNext]_Order
      <3>1. PICK r : TinyHolds(r)' /\ (Lru!LruPut(k, v) \/ Order' = Order)
        BY <2>3, PutTiny
      <3> QED
        BY <3>1 DEF TinyInv, Lru!LruNext
    <2> QED
      BY <2>1, <2>2, <2>3
  <1> QED
    BY <1>1, <1>2 DEF CacheNext, cacheVars

\* The list through the slots is a queue ordered by last use that evicts the
\* oldest entry and loses no other, and the weighted cache counts what it holds
\* and stays within its budget: get, put, detach, push_back and evict_until, for
\* any number of slots, any keys and any capacity.
THEOREM CachesHold == CacheSpec => CachesAreLru
  <1>1. CacheInit => WeightedInv /\ TinyInv /\ Lru!LruInit
    BY InitWeighted, InitTiny DEF TinyInv, Lru!LruInit
  <1>2. WeightedInv /\ TinyInv /\ [CacheNext]_cacheVars => WeightedInv' /\ TinyInv' /\ [Lru!LruNext]_Order
    BY StepWeighted, StepTiny
  <1>3. WeightedInv => WeightedInBudget
    BY WeightedIsInBudget
  <1> QED
    BY <1>1, <1>2, <1>3, PTL DEF CacheSpec, CachesAreLru, TinyIsLru, Lru!LruSpec
-----------------------------------------------------------------------------
(* BlobIntake.                                                               *)

PutCount == Cardinality(Puts)
PutEnds == {"ok", "failed"}

IntakeTyped ==
  /\ put \in [Puts -> [at : {"new", "create", "body"} \cup PutEnds, inode : 0..PutCount, sent : 0..Chunks]]
  /\ inode \in [1..PutCount -> SUBSET (1..Chunks)]
  /\ entry \in [{"tmp", "blob"} -> 0..PutCount]
  /\ dropped \in BOOLEAN

\* A request has a file from its create to the end of the body.
HaveFiles ==
  \A p \in Puts : /\ put[p].at \in {"new", "create"} => put[p].inode = 0
                  /\ put[p].at = "body" => put[p].inode # 0

\* A file that has a name is written by a request that sees to the end of it:
\* the last that cut it to nothing.
Sends(p, f) == put[p].inode = f /\ 1..put[p].sent \subseteq inode[f]
NamesAreWritten == \A n \in {"tmp", "blob"} : entry[n] # 0 => \E p \in Puts : Sends(p, entry[n])

\* While no connection is lost, who has ended has sent everything, and the blob
\* or its temporary file is there as soon as one has been created.
NothingCutOff ==
  ~dropped => \A p \in Puts :
    /\ put[p].at \in PutEnds /\ put[p].inode # 0 => put[p].sent = Chunks
    /\ put[p].at = "body" => entry["tmp"] # 0 \/ entry["blob"] # 0
    /\ put[p].at = "failed" => entry["blob"] # 0

OkIsThere == \A p \in Puts : put[p].at = "ok" => entry["blob"] # 0

\* The inductive invariant.  The bytes under a name may come from a request that
\* is not the one that renames it, and that has not sent them all yet.
IntakeInv == IntakeTyped /\ HaveFiles /\ NamesAreWritten /\ NothingCutOff /\ OkIsThere

\* There is a PUT, and there are finitely many.
LEMMA PutCountIsNat == PutCount \in Nat /\ PutCount # 0
  BY IntakeAssumption, FS_CardinalityType, FS_EmptySet DEF PutCount

\* There is a file for every request, so that one is left for a request that has none.
LEMMA FileIsLeft ==
  ASSUME IntakeTyped, NEW p \in Puts, put[p].inode = 0
  PROVE  \E g \in 1..PutCount : g \notin {put[q].inode : q \in Puts}
  <1> SUFFICES ASSUME \A g \in 1..PutCount : \E q \in Puts : put[q].inode = g PROVE FALSE
    OBVIOUS
  <1> DEFINE f == [g \in 1..PutCount |-> CHOOSE q \in Puts : put[q].inode = g]
  <1>1. \A g \in 1..PutCount : f[g] \in Puts /\ put[f[g]].inode = g
    OBVIOUS
  <1>2. f \in [1..PutCount -> Puts \ {p}]
    BY <1>1
  <1>3. IsFiniteSet(1..PutCount) /\ Cardinality(1..PutCount) = PutCount
    BY PutCountIsNat, FS_Interval
  <1>4. IsFiniteSet(Puts \ {p}) /\ Cardinality(Puts \ {p}) = PutCount - 1
    BY IntakeAssumption, FS_RemoveElement DEF PutCount
  <1>5. \E x, y \in 1..PutCount : x # y /\ f[x] = f[y]
    <2> HIDE DEF f
    <2> QED
      BY <1>2, <1>3, <1>4, PutCountIsNat, FS_PigeonHole
  <1> QED
    BY <1>1, <1>5

\* No PUT has begun.
LEMMA IntakeInvInit == IntakeInit => IntakeInv
  <1> SUFFICES ASSUME IntakeInit PROVE IntakeInv
    OBVIOUS
  <1>1. /\ put = [p \in Puts |-> [at |-> "new", inode |-> 0, sent |-> 0]]
        /\ inode = [f \in 1..PutCount |-> {}]
        /\ entry = [n \in {"tmp", "blob"} |-> 0] /\ dropped = FALSE
    BY DEF IntakeInit, PutCount
  <1>2. 0 \in 0..PutCount /\ 0 \in 0..Chunks
    BY PutCountIsNat, IntakeAssumption
  <1>3. IntakeTyped
    BY <1>1, <1>2 DEF IntakeTyped
  <1> QED
    BY <1>1, <1>3 DEF IntakeInv, HaveFiles, NamesAreWritten, NothingCutOff, OkIsThere, PutEnds

\* The blob is there already.
LEMMA KnownStep == ASSUME IntakeInv, NEW p \in Puts, Known(p) PROVE IntakeInv'
  <1>1. PICK a \in {"ok", "create"} :
          /\ put' = [put EXCEPT ![p].at = a]
          /\ a = "ok" => entry["blob"] # 0
    BY DEF Known, Answer
  <1>2. put[p].at = "new" /\ UNCHANGED <<inode, entry, dropped>>
    BY DEF Known
  <1> QED
    BY <1>1, <1>2
    DEF IntakeInv, IntakeTyped, HaveFiles, NamesAreWritten, Sends, NothingCutOff, OkIsThere, PutEnds

\* A temporary file is made.
LEMMA CreateStep == ASSUME IntakeInv, NEW p \in Puts, Create(p) PROVE IntakeInv'
  <1>1. put[p].at = "create" /\ put[p].inode = 0 /\ dropped' = dropped
    BY DEF Create, IntakeInv, HaveFiles
  <1>2. PICK f \in 1..PutCount : /\ put' = [put EXCEPT ![p] = [at |-> "body", inode |-> f, sent |-> 0]]
                          /\ inode' = [inode EXCEPT ![f] = {}]
                          /\ entry' = [entry EXCEPT !["tmp"] = f]
    <2> DEFINE f == IF entry["tmp"] # 0 THEN entry["tmp"]
                    ELSE CHOOSE g \in DOMAIN inode : g \notin {put[q].inode : q \in Puts}
    <2>1. f \in 1..PutCount
      <3>1. entry["tmp"] \in 0..PutCount /\ DOMAIN inode = 1..PutCount
        BY DEF IntakeInv, IntakeTyped
      <3>2. \E g \in 1..PutCount : g \notin {put[q].inode : q \in Puts}
        BY <1>1, FileIsLeft DEF IntakeInv
      <3>3. (CHOOSE g \in 1..PutCount : g \notin {put[q].inode : q \in Puts}) \in 1..PutCount
        BY <3>2
      <3>4. CASE entry["tmp"] # 0
        BY <3>1, <3>4, PutCountIsNat
      <3>5. CASE entry["tmp"] = 0
        BY <3>1, <3>3, <3>5
      <3> QED
        BY <3>4, <3>5
    <2> QED
      BY <2>1 DEF Create, Named
  <1>3. IntakeTyped'
    BY <1>1, <1>2, PutCountIsNat, IntakeAssumption DEF IntakeInv, IntakeTyped
  <1>4. HaveFiles' /\ OkIsThere' /\ NothingCutOff'
    BY <1>1, <1>2 DEF IntakeInv, IntakeTyped, HaveFiles, OkIsThere, NothingCutOff, PutEnds
  <1>5. ASSUME NEW n \in {"tmp", "blob"}, entry'[n] # 0 PROVE \E q \in Puts : Sends(q, entry[n])'
    <2>1. CASE entry'[n] = f
      <3>1. Sends(p, f)'
        BY <1>2 DEF IntakeInv, IntakeTyped, Sends
      <3> QED
        BY <2>1, <3>1
    <2>2. CASE entry'[n] # f
      <3>1. entry'[n] = entry[n] /\ entry[n] \in 1..PutCount
        BY <1>2, <1>5, <2>2 DEF IntakeInv, IntakeTyped
      <3>2. PICK q \in Puts : Sends(q, entry[n])
        BY <1>5, <3>1 DEF IntakeInv, NamesAreWritten
      <3>3. q # p
        BY <1>1, <3>1, <3>2 DEF Sends
      <3>4. put'[q] = put[q] /\ inode'[entry[n]] = inode[entry[n]]
        BY <1>2, <2>2, <3>1, <3>3 DEF IntakeInv, IntakeTyped
      <3> QED
        BY <3>1, <3>2, <3>4 DEF Sends
    <2> QED
      BY <2>1, <2>2
  <1> QED
    BY <1>3, <1>4, <1>5 DEF IntakeInv, NamesAreWritten

\* A chunk is written to the file.
LEMMA ChunkStep == ASSUME IntakeInv, NEW p \in Puts, Chunk(p) PROVE IntakeInv'
  <1>1. /\ put[p].at = "body" /\ put[p].sent \in 0..Chunks /\ put[p].sent < Chunks
        /\ put[p].inode \in 1..PutCount
        /\ UNCHANGED <<entry, dropped>>
    BY PutCountIsNat DEF Chunk, IntakeInv, IntakeTyped, HaveFiles
  <1>2. /\ put' = [put EXCEPT ![p].sent = put[p].sent + 1]
        /\ inode' = [inode EXCEPT ![put[p].inode] = inode[put[p].inode] \cup {put[p].sent + 1}]
    BY DEF Chunk
  <1>3. put[p].sent + 1 \in 1..Chunks /\ put[p].sent + 1 \in 0..Chunks
    BY <1>1, IntakeAssumption
  <1>4. IntakeTyped'
    BY <1>1, <1>2, <1>3 DEF IntakeInv, IntakeTyped
  <1>5. HaveFiles' /\ OkIsThere' /\ NothingCutOff'
    BY <1>1, <1>2 DEF IntakeInv, IntakeTyped, HaveFiles, OkIsThere, NothingCutOff, PutEnds
  <1>6. \A f \in 1..PutCount : inode[f] \subseteq inode'[f]
    BY <1>2 DEF IntakeInv, IntakeTyped
  <1>7. ASSUME NEW q \in Puts, NEW f \in 1..PutCount, Sends(q, f) PROVE Sends(q, f)'
    <2>1. CASE q = p
      <3>1. 1..(put[p].sent + 1) = (1..put[p].sent) \cup {put[p].sent + 1}
        BY <1>1
      <3>2. put'[p].inode = f /\ put'[p].sent = put[p].sent + 1 /\ put[p].sent + 1 \in inode'[f]
        BY <1>1, <1>2, <1>7, <2>1 DEF IntakeInv, IntakeTyped, Sends
      <3> QED
        BY <1>6, <1>7, <2>1, <3>1, <3>2 DEF Sends
    <2>2. CASE q # p
      BY <1>2, <1>6, <1>7, <2>2 DEF IntakeInv, IntakeTyped, Sends
    <2> QED
      BY <2>1, <2>2
  <1>8. \A n \in {"tmp", "blob"} : entry[n] # 0 => entry[n] \in 1..PutCount
    BY PutCountIsNat DEF IntakeInv, IntakeTyped
  <1>9. NamesAreWritten'
    BY <1>1, <1>7, <1>8 DEF IntakeInv, NamesAreWritten
  <1> QED
    BY <1>4, <1>5, <1>9 DEF IntakeInv

\* Only names and the state of the request change; who writes a file, does.
LEMMA EndOfBody ==
  ASSUME IntakeInv, NEW p \in Puts, NEW a \in PutEnds, put[p].at = "body", put' = [put EXCEPT ![p].at = a],
         inode' = inode, entry' \in [{"tmp", "blob"} -> 0..PutCount], dropped' \in BOOLEAN,
         \A n \in {"tmp", "blob"} : entry'[n] # 0 => entry'[n] \in {entry["tmp"], entry["blob"]}
  PROVE  IntakeTyped' /\ HaveFiles' /\ NamesAreWritten'
  <1>1. IntakeTyped'
    <2>1. [put[p] EXCEPT !.at = a] \in [at : {"new", "create", "body"} \cup PutEnds, inode : 0..PutCount, sent : 0..Chunks]
      BY DEF IntakeInv, IntakeTyped
    <2> QED
      BY <2>1 DEF IntakeInv, IntakeTyped
  <1>2. HaveFiles'
    BY DEF IntakeInv, IntakeTyped, HaveFiles, PutEnds
  <1>3. \A q \in Puts : \A f : Sends(q, f) => Sends(q, f)'
    BY DEF IntakeInv, IntakeTyped, Sends
  <1>4. NamesAreWritten'
    BY <1>3 DEF IntakeInv, NamesAreWritten
  <1> QED
    BY <1>1, <1>2, <1>4

\* The temporary file is renamed to the hash.
LEMMA PublishStep == ASSUME IntakeInv, NEW p \in Puts, Publish(p) PROVE IntakeInv'
  <1>1. put[p].at = "body" /\ put[p].sent = Chunks /\ UNCHANGED <<inode, dropped>>
    BY DEF Publish, Received
  <1>2. entry["tmp"] \in 0..PutCount /\ entry["blob"] \in 0..PutCount /\ 0 \in 0..PutCount
    BY PutCountIsNat DEF IntakeInv, IntakeTyped
  <1>3. CASE entry["tmp"] # 0
    <2>1. /\ put' = [put EXCEPT ![p].at = "ok"]
          /\ entry' = [entry EXCEPT !["tmp"] = 0, !["blob"] = entry["tmp"]]
      BY <1>3 DEF Publish, Answer
    <2>2. /\ entry' \in [{"tmp", "blob"} -> 0..PutCount]
          /\ entry'["tmp"] = 0 /\ entry'["blob"] = entry["tmp"]
      BY <1>2, <2>1 DEF IntakeInv, IntakeTyped
    <2>3. IntakeTyped' /\ HaveFiles' /\ NamesAreWritten'
      BY <1>1, <2>1, <2>2, EndOfBody DEF IntakeInv, IntakeTyped, PutEnds
    <2>4. NothingCutOff' /\ OkIsThere'
      BY <1>1, <1>3, <2>1, <2>2 DEF IntakeInv, IntakeTyped, NothingCutOff, OkIsThere, PutEnds
    <2> QED
      BY <2>3, <2>4 DEF IntakeInv
  <1>4. CASE entry["tmp"] = 0
    <2>1. put' = [put EXCEPT ![p].at = "failed"] /\ entry' = entry
      BY <1>4 DEF Publish, Answer
    <2>2. IntakeTyped' /\ HaveFiles' /\ NamesAreWritten'
      BY <1>1, <2>1, EndOfBody DEF IntakeInv, IntakeTyped, PutEnds
    <2>3. NothingCutOff' /\ OkIsThere'
      BY <1>1, <1>4, <2>1 DEF IntakeInv, IntakeTyped, NothingCutOff, OkIsThere, PutEnds
    <2> QED
      BY <2>2, <2>3 DEF IntakeInv
  <1> QED
    BY <1>3, <1>4

\* The connection is lost.
LEMMA DisconnectStep == ASSUME IntakeInv, NEW p \in Puts, Disconnect(p) PROVE IntakeInv'
  <1>1. /\ put[p].at = "body" /\ put' = [put EXCEPT ![p].at = "failed"]
        /\ dropped' = TRUE /\ inode' = inode
        /\ entry' = [entry EXCEPT !["tmp"] = 0] \/ entry' = entry
    BY DEF Disconnect, Answer, Named
  <1>2. /\ entry' \in [{"tmp", "blob"} -> 0..PutCount]
        /\ entry'["tmp"] \in {0, entry["tmp"]} /\ entry'["blob"] = entry["blob"]
    BY <1>1, PutCountIsNat DEF IntakeInv, IntakeTyped
  <1>3. IntakeTyped' /\ HaveFiles' /\ NamesAreWritten'
    BY <1>1, <1>2, EndOfBody DEF PutEnds
  <1>4. NothingCutOff' /\ OkIsThere'
    BY <1>1, <1>2 DEF IntakeInv, IntakeTyped, NothingCutOff, OkIsThere
  <1> QED
    BY <1>3, <1>4 DEF IntakeInv

\* Every step keeps the invariant.
LEMMA IntakeInvStep == IntakeInv /\ [IntakeNext]_intakeVars => IntakeInv'
  <1>1. IntakeInv /\ UNCHANGED intakeVars => IntakeInv'
    BY DEF intakeVars, IntakeInv, IntakeTyped, HaveFiles, NamesAreWritten, Sends, NothingCutOff, OkIsThere
  <1> QED
    BY <1>1, KnownStep, CreateStep, ChunkStep, PublishStep, DisconnectStep DEF IntakeNext

\* When all PUTs are over the file is whole.
LEMMA IntakeInvIsEnough == IntakeInv => IntakeIsWhole
  <1> SUFFICES ASSUME IntakeInv PROVE IntakeIsWhole
    OBVIOUS
  <1>1. ASSUME ~dropped, \A p \in Puts : put[p].at \in PutEnds PROVE inode[entry["blob"]] = 1..Chunks
    <2>1. entry["blob"] # 0
      BY <1>1, IntakeAssumption DEF IntakeInv, NothingCutOff, OkIsThere, PutEnds
    <2>2. entry["blob"] \in 1..PutCount
      BY <2>1, PutCountIsNat DEF IntakeInv, IntakeTyped
    <2>3. PICK p \in Puts : Sends(p, entry["blob"])
      BY <2>1 DEF IntakeInv, NamesAreWritten
    <2>4. put[p].sent = Chunks
      BY <1>1, <2>1, <2>3 DEF IntakeInv, NothingCutOff, Sends
    <2> QED
      BY <2>2, <2>3, <2>4 DEF IntakeInv, IntakeTyped, Sends
  <1> QED
    BY <1>1 DEF IntakeIsWhole, IntakeInv, OkIsThere, PutEnds

\* PUT of a blob: requests that share the temporary file leave it whole when all
\* have ended, unless a connection was lost, and a request that was answered OK
\* leaves a blob (server.rs, put_blob).
THEOREM IntakeAlwaysWhole == IntakeSpec => []IntakeIsWhole
  BY IntakeInvInit, IntakeInvStep, IntakeInvIsEnough, PTL DEF IntakeSpec

\* Both ways in: what the object store promises and what the server takes in.
THEOREM StoredBytesAlwaysWhole == ObjectsSpec /\ IntakeSpec => []StoredBytesAreWhole
  BY AlwaysSound, IntakeAlwaysWhole, PTL DEF StoredBytesAreWhole
=============================================================================

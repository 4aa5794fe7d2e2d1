---------------------------- MODULE ObjectStore ----------------------------
(* The content-addressed store, call by call: write_once_atomic and         *)
(* write_blob_stream publish an object through a temporary file, readers    *)
(* check its hash, gc deletes files under both, processes die, and the      *)
(* power fails.  The file system: an unsynced file may come back torn, an   *)
(* unsynced directory entry may be lost; the entries create_dir_all makes   *)
(* are taken to survive with what is synced below them.                     *)
EXTENDS Naturals

CONSTANTS
  Proc,        \* processes and threads that use one store
  Key,         \* hashes
  Object,      \* the hashes kept as .arc/store/xx/...; the others are blobs
  Large,       \* the hashes whose bytes reach the mmap threshold
  MaxCalls,    \* bound on the calls made
  MaxFaults    \* bound on crashes, I/O errors, rotten files and deletions

ASSUME ObjectStoreAssumption ==
  /\ Key # {}
  /\ Object \subseteq Key
  /\ Large \subseteq Key
  /\ MaxCalls \in Nat
  /\ MaxFaults \in Nat

VARIABLES
  file,        \* what the final path of a hash holds
  entrySafe,   \* the hashes whose directory entry has been synced
  shard,       \* the objects whose shard directory exists
  temp,        \* the temporary file of a process
  call,        \* the call a process is in
  pc,          \* where it is in it
  got,         \* what its last call returned
  cache,       \* the blobs its cache holds
  promised,    \* hashes whose publisher returned Ok, not deleted or rotten since
  calls, faults

objectVars == <<file, entrySafe, shard, temp, call, pc, got, cache, promised, calls, faults>>

Absent == [data |-> "absent", synced |-> TRUE]
Data == {"absent", "torn", "whole"}    \* torn: any bytes but the right ones
File == [data : Data, synced : BOOLEAN]
Writes == {"write", "stream"}
Reads == {"read", "cached", "change"}
NoCall == [op |-> "none", key |-> CHOOSE k \in Key : TRUE]

ObjectsInit ==
  /\ file = [k \in Key |-> Absent]
  /\ entrySafe = {}
  /\ shard = {}
  /\ temp = [p \in Proc |-> Absent]
  /\ call = [p \in Proc |-> NoCall]
  /\ pc = [p \in Proc |-> "idle"]
  /\ got = [p \in Proc |-> "none"]
  /\ cache = [p \in Proc |-> {}]
  /\ promised = {}
  /\ calls = 0
  /\ faults = 0

disk == <<file, entrySafe, shard, promised>>
Exists(k) == file[k].data # "absent"
Go(p, l) == pc' = [pc EXCEPT ![p] = l]
SetTemp(p, t) == temp' = [temp EXCEPT ![p] = t]
AtStep(p, l) == pc[p] = l /\ UNCHANGED <<calls, call>>
Return(p, r) ==
  /\ Go(p, "idle")
  /\ got' = [got EXCEPT ![p] = r]

-----------------------------------------------------------------------------
(* Writing.                                                                  *)

\* write_object, write_blob, write_change_bytes: a path that exists is enough.
\* write_blob_stream looks at the path only when it knows the hash.
BeginWrite(p) ==
  /\ pc[p] = "idle"
  /\ calls < MaxCalls
  /\ calls' = calls + 1
  /\ \E op \in Writes, k \in Key :
       /\ op = "stream" => k \notin Object
       /\ call' = [call EXCEPT ![p] = [op |-> op, key |-> k]]
       /\ IF op = "write" /\ Exists(k)
          THEN Return(p, "dedup")
          ELSE Go(p, "mkdir") /\ UNCHANGED got
  /\ UNCHANGED <<disk, temp, cache, faults>>

CreateDir(p) ==
  /\ AtStep(p, "mkdir")
  /\ shard' = IF call[p].key \in Object THEN shard \cup {call[p].key} ELSE shard
  /\ Go(p, "open")
  /\ UNCHANGED <<file, entrySafe, promised, temp, got, cache, faults>>

\* create_new: gc may have removed the empty shard directory.
OpenTemp(p) ==
  /\ AtStep(p, "open")
  /\ IF call[p].key \in Object \ shard
     THEN Return(p, "err") /\ UNCHANGED temp
     ELSE /\ SetTemp(p, [data |-> "torn", synced |-> FALSE])
          /\ Go(p, "fill")
          /\ UNCHANGED got
  /\ UNCHANGED <<disk, cache, faults>>

FillTemp(p) ==
  /\ AtStep(p, "fill")
  /\ IF temp[p] = Absent THEN UNCHANGED temp    \* gc has unlinked it
     ELSE SetTemp(p, [data |-> "whole", synced |-> FALSE])
  /\ Go(p, "sync")
  /\ UNCHANGED <<disk, got, cache, faults>>

\* Mutant: The data is not synced before the rename.
SyncTempSkipped(p) ==
  /\ AtStep(p, "sync")
  /\ Go(p, IF call[p].op = "stream" THEN "look" ELSE "rename")
  /\ UNCHANGED <<disk, temp, got, cache, faults>>

SyncTemp(p) ==
  /\ AtStep(p, "sync")
  /\ temp' = [temp EXCEPT ![p].synced = TRUE]
  /\ Go(p, IF call[p].op = "stream" THEN "look" ELSE "rename")
  /\ UNCHANGED <<disk, got, cache, faults>>

\* write_blob_stream: the hash is known now.
LookAgain(p) ==
  /\ AtStep(p, "look")
  /\ IF Exists(call[p].key)
     THEN Return(p, "dedup") /\ SetTemp(p, Absent)
     ELSE Go(p, "rename") /\ UNCHANGED <<temp, got>>
  /\ UNCHANGED <<disk, cache, faults>>

\* rename replaces what another writer has put there meanwhile.
Rename(p) ==
  /\ AtStep(p, "rename")
  /\ IF temp[p] = Absent
     THEN Return(p, "err") /\ UNCHANGED <<file, temp>>
     ELSE /\ file' = [file EXCEPT ![call[p].key] = temp[p]]
          /\ SetTemp(p, Absent)
          /\ Go(p, "syncdir")
          /\ UNCHANGED got
  /\ UNCHANGED <<entrySafe, shard, promised, cache, faults>>

\* Mutant: The directory is not synced after the rename.
SyncDirSkipped(p) ==
  /\ AtStep(p, "syncdir")
  /\ promised' = promised \cup {k \in {call[p].key} : file[k].data = "whole"}
  /\ Return(p, "ok")
  /\ UNCHANGED <<file, entrySafe, shard, temp, cache, faults>>

\* One sync makes every entry of the directory durable: an object's shard
\* directory, or the one directory of the blobs.
SyncDir(p) ==
  LET k == call[p].key
      here == IF k \in Object THEN {k} ELSE Key \ Object
  IN
  /\ AtStep(p, "syncdir")
  /\ entrySafe' = entrySafe \cup {x \in here : Exists(x)}
  /\ promised' = IF file[k].data = "whole" THEN promised \cup {k} ELSE promised
  /\ Return(p, "ok")
  /\ UNCHANGED <<file, shard, temp, cache, faults>>

\* An I/O error.  A failed rename removes the temporary file, and is a success
\* when the object is there; the earlier failures leave the file behind, out of
\* reach of every later call, which makes a name of its own.
Fail(p) ==
  /\ AtStep(p, pc[p])
  /\ pc[p] \in {"mkdir", "open", "fill", "sync", "rename", "syncdir"}
  /\ faults < MaxFaults
  /\ faults' = faults + 1
  /\ Return(p, IF pc[p] = "rename" /\ Exists(call[p].key) THEN "dedup" ELSE "err")
  /\ SetTemp(p, Absent)
  /\ UNCHANGED <<disk, cache>>

-----------------------------------------------------------------------------
(* Reading.                                                                  *)

Deliver(p, op, k) ==
  /\ Return(p, file[k].data)
  /\ cache' = IF op = "cached" THEN [cache EXCEPT ![p] = @ \cup {k}] ELSE cache

\* read_object and read_blob check the hash, read_change_bytes does not.  Bytes
\* with a wrong hash are an error, or for a mapped file a second attempt.
Check(p, op, k, retry) ==
  IF op = "change" \/ file[k].data = "whole" THEN Deliver(p, op, k)
  ELSE /\ IF retry = "idle" THEN Return(p, "err") ELSE Go(p, retry) /\ UNCHANGED got
       /\ UNCHANGED cache

\* The file is opened and read in one step: an unlinked file can still be read.
\* read_blob_cached looks in the cache first.
BeginRead(p) ==
  /\ pc[p] = "idle"
  /\ calls < MaxCalls
  /\ calls' = calls + 1
  /\ \E op \in Reads, k \in Key :
       /\ op = "change" => k \in Object
       /\ op = "cached" => k \notin Object
       /\ call' = [call EXCEPT ![p] = [op |-> op, key |-> k]]
       /\ \/ /\ op = "cached" /\ k \in cache[p]
             /\ Return(p, "whole")
             /\ UNCHANGED cache
          \/ /\ ~(op = "cached" /\ k \in cache[p])
             /\ \/ ~Exists(k) /\ Return(p, "err") /\ UNCHANGED cache
                \/ Exists(k) /\ Check(p, op, k, IF k \in Large THEN "second" ELSE "idle")
  /\ UNCHANGED <<disk, temp, faults>>

\* The second attempt opens the path again.
ReadAgain(p) ==
  /\ AtStep(p, "second")
  /\ Check(p, call[p].op, call[p].key, "idle")
  /\ UNCHANGED <<disk, temp, faults>>

-----------------------------------------------------------------------------
(* The environment.                                                          *)

\* One removal by gc: a file, with its shard directory when that is empty, or
\* in the directory of the blobs any name it does not know, temporary files too.
Collect ==
  /\ faults < MaxFaults
  /\ faults' = faults + 1
  /\ \/ \E k \in Key :
          /\ Exists(k)
          /\ file' = [file EXCEPT ![k] = Absent]
          /\ shard' = IF \E q \in Proc : temp[q] # Absent /\ call[q].key = k
                      THEN shard ELSE shard \ {k}
          /\ entrySafe' = entrySafe \ {k}
          /\ promised' = promised \ {k}
          /\ UNCHANGED temp
     \/ \E q \in Proc :
          /\ temp[q] # Absent
          /\ call[q].key \notin Object
          /\ SetTemp(q, Absent)
          /\ UNCHANGED disk
  /\ UNCHANGED <<call, pc, got, cache, calls>>

\* A file whose bytes change under the store.
Rot ==
  /\ faults < MaxFaults
  /\ faults' = faults + 1
  /\ \E k \in Key :
       /\ file[k].data = "whole"
       /\ file' = [file EXCEPT ![k].data = "torn"]
       /\ promised' = promised \ {k}
       /\ UNCHANGED <<entrySafe, shard>>
  /\ UNCHANGED <<temp, call, pc, got, cache, calls>>

Crash(p) ==
  /\ pc[p] # "idle"
  /\ faults < MaxFaults
  /\ faults' = faults + 1
  /\ Go(p, "idle")
  /\ SetTemp(p, Absent)
  /\ got' = [got EXCEPT ![p] = "none"]
  /\ cache' = [cache EXCEPT ![p] = {}]
  /\ UNCHANGED <<disk, call, calls>>

\* Everything that was not synced may be lost or torn.
PowerLoss ==
  /\ faults < MaxFaults
  /\ faults' = faults + 1
  /\ \E lost \in SUBSET (Key \ entrySafe), torn \in SUBSET {k \in Key : ~file[k].synced} :
       file' = [k \in Key |-> IF k \in lost THEN Absent
                              ELSE IF k \in torn /\ Exists(k) THEN [data |-> "torn", synced |-> TRUE]
                              ELSE [file[k] EXCEPT !.synced = TRUE]]
  /\ entrySafe' = {k \in Key : file'[k].data # "absent"}
  /\ temp' = [p \in Proc |-> Absent]
  /\ pc' = [p \in Proc |-> "idle"]
  /\ got' = [p \in Proc |-> "none"]
  /\ cache' = [p \in Proc |-> {}]
  /\ UNCHANGED <<shard, promised, call, calls>>

WriteStep(p) ==
  CreateDir(p) \/ OpenTemp(p) \/ FillTemp(p) \/ SyncTemp(p) \/ LookAgain(p)
    \/ Rename(p) \/ SyncDir(p)
ProcNext(p) == BeginWrite(p) \/ BeginRead(p) \/ WriteStep(p) \/ ReadAgain(p) \/ Fail(p) \/ Crash(p)

ObjectsNext == (\E p \in Proc : ProcNext(p)) \/ Collect \/ Rot \/ PowerLoss

ObjectsSpec == ObjectsInit /\ [][ObjectsNext]_objectVars /\ \A p \in Proc : WF_objectVars(WriteStep(p) \/ ReadAgain(p))
-----------------------------------------------------------------------------
(* Properties.                                                               *)

\* The values the variables take.
TypeOK ==
  /\ file \in [Key -> File]
  /\ entrySafe \subseteq Key
  /\ shard \subseteq Object
  /\ temp \in [Proc -> File]
  /\ call \in [Proc -> [op : Writes \cup Reads \cup {"none"}, key : Key]]
  /\ pc \in [Proc -> {"idle", "mkdir", "open", "fill", "sync", "look", "rename", "syncdir", "second"}]
  /\ got \in [Proc -> Data \cup {"none", "err", "ok", "dedup"}]
  /\ cache \in [Proc -> SUBSET Key]
  /\ promised \subseteq Key
  /\ calls \in 0..MaxCalls
  /\ faults \in 0..MaxFaults

\* write_once_atomic: what a crash, a failed call or a power failure leaves
\* under a final path is the whole object, for `path.exists()` is all a later
\* writer looks at.  Only rotting changes a published file.
PublishedWhole ==
  [][\A k \in Key : file'[k].data = "torn" => file[k].data = "torn" \/ Rot]_objectVars

\* An object whose publisher returned Ok(true) survives a power failure: its
\* directory entry is synced before the call returns, whatever other writers
\* of the same hash do.
PromisedSurvives == \A k \in promised : file[k].data = "whole"

\* A checked read returns the bytes of its hash or an error, whatever has
\* happened to the file, and a cache never keeps other bytes.
ReadsAreSound ==
  \A p \in Proc :
    pc[p] = "idle" /\ call[p].op \in {"read", "cached"} => got[p] # "torn"

\* Every call returns: a writer that lost a race is not made to wait.
CallsReturn == \A p \in Proc : pc[p] # "idle" ~> pc[p] = "idle"

\* What was promised can be read, and what is read is what was promised.
ObjectsAreSound == PromisedSurvives /\ ReadsAreSound
=============================================================================

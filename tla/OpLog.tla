------------------------------- MODULE OpLog --------------------------------
(***************************************************************************)
(* `OpLog`: the optimistic, crash-consistent operation log                 *)
(* (crates/arc-store-view/src/oplog.rs).                                   *)
(*                                                                         *)
(* The log is a content-addressed DAG of operation nodes plus one mutable  *)
(* file, heads.bin, that holds an epoch and the set of head nodes.  append *)
(* loads the heads without a lock, persists a node whose parents are those *)
(* heads, and publishes under publish.lock only if heads.bin still has the *)
(* fingerprint it loaded; otherwise it retries.  pop does its load and its *)
(* write under the lock.  Both first migrate a legacy oplog.json, without  *)
(* any lock, when heads.bin does not exist.                                *)
(*                                                                         *)
(* A node is its own content hash: the record of its operation and its     *)
(* parents.  An operation is its timestamp, drawn when it is built and so  *)
(* not always in the order of publication, while readers list operations   *)
(* by timestamp.  Files are written atomically (module LockFile).          *)
(* publish.lock is a LockMarker, of processes of one user: a marker whose  *)
(* holder is dead is found in one step and removed in a later one, when    *)
(* it may be a new one; `robbed` records that a living holder lost it so.  *)
(***************************************************************************)
EXTENDS Integers, Sequences, FiniteSets, FiniteSetsExt, SequencesExt

CONSTANTS
    Proc,            \* processes sharing the repository
    None,            \* no oplog.json, nobody
    Established,     \* TRUE: heads.bin exists from the start
    LegacyOps,       \* number of operations in an initial oplog.json; 0: no such file
    MaxOps,          \* bound on the operations created
    MaxPops,         \* bound on the calls of pop
    MaxCrashes,      \* bound on the processes that die
    MAX_RETRY_ATTEMPTS

ASSUME OpLogAssumption ==
    /\ None \notin Proc
    /\ Established \in BOOLEAN
    /\ LegacyOps \in Nat
    /\ Established => LegacyOps = 0
    /\ MaxOps \in Nat /\ MaxPops \in Nat /\ MaxCrashes \in Nat
    /\ MAX_RETRY_ATTEMPTS \in Nat \ {0}

VARIABLES
    headsFile, \* heads.bin: its epoch and heads, or Missing
    store,     \* the operation nodes on disk
    legacy,    \* oplog.json: None, or the set of operations in it
    lock,      \* publish.lock: its holder, or None
    clock,     \* the last timestamp given out
    pops,      \* calls of pop so far
    pc,        \* where each process is
    op,        \* the operation each process appends
    loaded,    \* the heads state each process loaded
    attempt,   \* publish attempts of the current append
    proj,      \* operations read for oplog.json
    return,    \* where to go after the migration or the projection
    acked,     \* history: operations whose append returned Ok
    popped,    \* history: operations pop has removed
    chain,     \* history: the nodes published and not popped, oldest first
    robbed     \* history: the marker of a living holder has been removed

vars == <<headsFile, store, legacy, lock, clock, pops, pc, op, loaded,
          attempt, proj, return, acked, popped, chain, robbed>>

disk == <<headsFile, store, legacy, lock>>
history == <<acked, popped, chain, robbed>>
counters == <<clock, pops>>

-----------------------------------------------------------------------------
(* Nodes and head sets.                                                    *)

\* build_node: the parents are the heads it is given.
build_node(o, heads) == [op |-> o, parents |-> heads]

\* There is no heads.bin.
Missing == [epoch |-> -1, heads |-> {}]

\* load_heads_state: an absent file is the default state (the .bak files
\* exist only in the Windows build).
load_heads_state ==
    IF headsFile = Missing THEN [epoch |-> 0, heads |-> {}] ELSE headsFile

\* The operations reachable from a set of heads, by the traversal of read_all.
reachable(heads) ==
    LET level[k \in 0..MaxOps] ==
          IF k = 0 THEN heads ELSE UNION {n.parents : n \in level[k-1]}
    IN  {n.op : n \in UNION {level[k] : k \in 0..MaxOps}}

\* nodes.sort_by: by timestamp and then by id; operations are numbered so.
in_time_order(ops) ==
    CHOOSE s \in [1..Cardinality(ops) -> ops] :
       \A i, j \in 1..Cardinality(ops) : i < j => s[i] < s[j]

read_all(heads) == in_time_order(reachable(heads))

\* The chain that the migration rebuilds, in the order of the file.
legacy_chain(ops) ==
    LET seq == in_time_order(ops)
        node[i \in 0..Len(seq)] ==
          IF i = 0 THEN {} ELSE {build_node(seq[i], node[i-1])}
    IN  [i \in 1..Len(seq) |-> CHOOSE n \in node[i] : TRUE]

Tip(c) == IF c = <<>> THEN {} ELSE {c[Len(c)]}

\* Mutant: the parents stay heads.
next_heads_forked(state, n) ==
    [epoch |-> state.epoch + 1, heads |-> state.heads \cup {n}]

\* Mutant: the epoch is the number of heads.
next_heads_counted(state, n) ==
    [epoch |-> Cardinality(state.heads) + 1, heads |-> (state.heads \ n.parents) \cup {n}]

\* append's candidate: the heads it loaded without the node's parents, and
\* the node.
next_heads(state, n) ==
    [epoch |-> state.epoch + 1, heads |-> (state.heads \ n.parents) \cup {n}]

-----------------------------------------------------------------------------
Init ==
    /\ headsFile = IF Established THEN [epoch |-> 0, heads |-> {}] ELSE Missing
    /\ store = {}
    /\ legacy = IF LegacyOps = 0 THEN None ELSE 1..LegacyOps
    /\ lock = None
    /\ clock = LegacyOps
    /\ pops = 0
    /\ pc = [p \in Proc |-> "idle"]
    /\ op = [p \in Proc |-> 0]
    /\ loaded = [p \in Proc |-> [epoch |-> 0, heads |-> {}]]
    /\ attempt = [p \in Proc |-> 0]
    /\ proj = [p \in Proc |-> {}]
    /\ return = [p \in Proc |-> "idle"]
    /\ acked = {}
    /\ popped = {}
    /\ chain = <<>>
    /\ robbed = FALSE

Goto(p, l) == pc' = [pc EXCEPT ![p] = l]

\* append is called with a fresh operation.
Append_(p) ==
    /\ pc[p] \in {"idle", "failed"}
    /\ clock < MaxOps
    /\ clock' = clock + 1
    /\ op' = [op EXCEPT ![p] = clock']
    /\ attempt' = [attempt EXCEPT ![p] = 0]
    /\ return' = [return EXCEPT ![p] = "load"]
    /\ Goto(p, "migrate")
    /\ UNCHANGED <<disk, history, pops, loaded, proj>>

\* pop is called.
Pop(p) ==
    /\ pc[p] \in {"idle", "failed"}
    /\ pops < MaxPops
    /\ pops' = pops + 1
    /\ return' = [return EXCEPT ![p] = "poplock"]
    /\ Goto(p, "migrate")
    /\ UNCHANGED <<disk, history, clock, op, loaded, attempt, proj>>

-----------------------------------------------------------------------------
(* migrate_legacy_json_if_present.                                         *)

\* heads.bin exists: nothing to migrate.
MigrateHeadsExist(p) ==
    /\ pc[p] = "migrate"
    /\ Goto(p, IF headsFile # Missing THEN return[p] ELSE "migratelegacy")
    /\ UNCHANGED <<disk, history, counters, op, loaded, attempt, proj, return>>

\* oplog.json is absent: nothing to migrate.  Otherwise read it, rebuild the
\* chain and persist its nodes.
MigrateRead(p) ==
    /\ pc[p] = "migratelegacy"
    /\ IF legacy = None
       THEN Goto(p, return[p]) /\ UNCHANGED <<store, proj>>
       ELSE /\ proj' = [proj EXCEPT ![p] = legacy]
            /\ store' = store \cup Range(legacy_chain(legacy))
            /\ Goto(p, "migrateheads")
    /\ UNCHANGED <<headsFile, legacy, lock, history, counters, op, loaded, attempt, return>>

\* write_heads_state for the rebuilt chain, whatever heads.bin is by now.
MigrateWriteHeads(p) ==
    /\ pc[p] = "migrateheads"
    /\ headsFile' = [epoch |-> Cardinality(proj[p]), heads |-> Tip(legacy_chain(proj[p]))]
    /\ chain' = legacy_chain(proj[p])
    /\ Goto(p, "migraterename")
    /\ UNCHANGED <<store, legacy, lock, acked, popped, robbed, counters, op, loaded, attempt, proj, return>>

\* Rename oplog.json away, an error if it is gone; then write_legacy_projection.
MigrateRename(p) ==
    /\ pc[p] = "migraterename"
    /\ IF legacy = None
       THEN Goto(p, "failed") /\ UNCHANGED legacy
       ELSE Goto(p, "projread") /\ legacy' = None
    /\ UNCHANGED <<headsFile, store, lock, history, counters, op, loaded, attempt, proj, return>>

\* write_legacy_projection: read_all, then overwrite oplog.json.
ProjectionRead(p) ==
    /\ pc[p] = "projread"
    /\ proj' = [proj EXCEPT ![p] = reachable(load_heads_state.heads)]
    /\ Goto(p, "projwrite")
    /\ UNCHANGED <<disk, history, counters, op, loaded, attempt, return>>

ProjectionWrite(p) ==
    /\ pc[p] = "projwrite"
    /\ legacy' = proj[p]
    /\ Goto(p, return[p])
    /\ acked' = IF return[p] = "idle" THEN acked \cup {op[p]} ELSE acked
    /\ UNCHANGED <<headsFile, store, lock, popped, chain, robbed, counters, op, loaded, attempt, proj, return>>

-----------------------------------------------------------------------------
(* append.                                                                 *)

\* Mutant: the node is not persisted before the publication.
LoadThenLock(p) ==
    /\ pc[p] = "load"
    /\ loaded' = [loaded EXCEPT ![p] = load_heads_state]
    /\ Goto(p, "lock")
    /\ UNCHANGED <<disk, history, counters, op, attempt, proj, return>>

\* Load the heads, without a lock.
Load(p) ==
    /\ pc[p] = "load"
    /\ loaded' = [loaded EXCEPT ![p] = load_heads_state]
    /\ Goto(p, "persist")
    /\ UNCHANGED <<disk, history, counters, op, attempt, proj, return>>

\* build_node and persist_node (skipped when the node is on disk already).
Persist(p) ==
    /\ pc[p] = "persist"
    /\ store' = store \cup {build_node(op[p], loaded[p].heads)}
    /\ Goto(p, "lock")
    /\ UNCHANGED <<headsFile, legacy, lock, history, counters, op, loaded, attempt, proj, return>>

\* publish_heads_cas: acquire publish.lock ...
Lock(p) ==
    /\ pc[p] \in {"lock", "poplock"}
    /\ lock = None
    /\ lock' = p
    /\ Goto(p, IF pc[p] = "lock" THEN "compare" ELSE "popload")
    /\ UNCHANGED <<headsFile, store, legacy, history, counters, op, loaded, attempt, proj, return>>

\* ... or find that its holder is dead (can_reap_marker) ...
CanReap(p) ==
    /\ pc[p] \in {"lock", "poplock"}
    /\ lock # None
    /\ pc[lock] = "dead"
    /\ Goto(p, IF pc[p] = "lock" THEN "reap" ELSE "popreap")
    /\ UNCHANGED <<disk, history, counters, op, loaded, attempt, proj, return>>

\* ... and remove the marker that is there by then, and try again ...
Reap(p) ==
    /\ pc[p] \in {"reap", "popreap"}
    /\ lock' = None
    /\ robbed' = (robbed \/ (lock # None /\ pc[lock] # "dead"))
    /\ Goto(p, IF pc[p] = "reap" THEN "lock" ELSE "poplock")
    /\ UNCHANGED <<headsFile, store, legacy, acked, popped, chain, counters, op, loaded, attempt, proj, return>>

\* ... or time out while another process has it, which fails the call.
LockTimeout(p) ==
    /\ pc[p] \in {"lock", "poplock"}
    /\ lock # None
    /\ Goto(p, "failed")
    /\ UNCHANGED <<disk, history, counters, op, loaded, attempt, proj, return>>

\* Mutant: compare again under the lock, without loading the heads again.
CompareMismatchSpins(p) ==
    /\ pc[p] = "compare"
    /\ load_heads_state # loaded[p]
    /\ Goto(p, "compare")
    /\ UNCHANGED <<disk, history, counters, op, loaded, attempt, proj, return>>

\* ... compare fingerprints; on a mismatch release, and retry or give up.
CompareMismatch(p) ==
    /\ pc[p] = "compare"
    /\ load_heads_state # loaded[p]
    /\ lock' = None
    /\ attempt' = [attempt EXCEPT ![p] = @ + 1]
    /\ Goto(p, IF attempt'[p] < MAX_RETRY_ATTEMPTS THEN "load" ELSE "failed")
    /\ UNCHANGED <<headsFile, store, legacy, history, counters, op, loaded, proj, return>>

\* Mutant: publish whatever the fingerprint is.
CompareNothing(p) ==
    /\ pc[p] = "compare"
    /\ Goto(p, "publish")
    /\ UNCHANGED <<disk, history, counters, op, loaded, attempt, proj, return>>

CompareMatch(p) ==
    /\ pc[p] = "compare"
    /\ load_heads_state = loaded[p]
    /\ Goto(p, "publish")
    /\ UNCHANGED <<disk, history, counters, op, loaded, attempt, proj, return>>

\* ... write_heads_state(candidate).
Publish(p) ==
    /\ pc[p] = "publish"
    /\ LET n == build_node(op[p], loaded[p].heads)
       IN  /\ headsFile' = next_heads(loaded[p], n)
           /\ chain' = Append(chain, n)
    /\ return' = [return EXCEPT ![p] = "idle"]
    /\ Goto(p, "unlock")
    /\ UNCHANGED <<store, legacy, lock, acked, popped, robbed, counters, op, loaded, attempt, proj>>

\* Release publish.lock, removing what is at its path.  append then writes the
\* projection and returns Ok; pop has written it before.
Unlock(p) ==
    /\ pc[p] \in {"unlock", "popunlock"}
    /\ lock' = None
    /\ Goto(p, IF pc[p] = "unlock" THEN "projread" ELSE "idle")
    /\ UNCHANGED <<headsFile, store, legacy, history, counters, op, loaded, attempt, proj, return>>

-----------------------------------------------------------------------------
(* pop, from its load to its write, under publish.lock.                    *)

\* The newest head, by timestamp, gives way to its parents.
Newest(heads) == CHOOSE n \in heads : \A m \in heads : m.op <= n.op

PopLoad(p) ==
    /\ pc[p] = "popload"
    /\ loaded' = [loaded EXCEPT ![p] = load_heads_state]
    /\ Goto(p, IF load_heads_state.heads = {} THEN "popunlock" ELSE "popwrite")
    /\ UNCHANGED <<disk, history, counters, op, attempt, proj, return>>

PopWrite(p) ==
    /\ pc[p] = "popwrite"
    /\ LET state == loaded[p]
           selected == Newest(state.heads)
       IN  /\ headsFile' = [epoch |-> state.epoch + 1,
                            heads |-> (state.heads \ {selected}) \cup selected.parents]
           /\ popped' = popped \cup {selected.op}
    /\ chain' = IF chain = <<>> THEN <<>> ELSE SubSeq(chain, 1, Len(chain) - 1)
    /\ return' = [return EXCEPT ![p] = "popunlock"]
    /\ Goto(p, "projread")
    /\ UNCHANGED <<store, legacy, lock, acked, robbed, counters, op, loaded, attempt, proj>>

-----------------------------------------------------------------------------
(* Failures.                                                               *)

\* The process dies.
Crash(p) ==
    /\ pc[p] # "dead"
    /\ Cardinality({q \in Proc : pc[q] = "dead"}) < MaxCrashes
    /\ Goto(p, "dead")
    /\ UNCHANGED <<disk, history, counters, op, loaded, attempt, proj, return>>

Step(p) ==
    \/ MigrateHeadsExist(p) \/ MigrateRead(p) \/ MigrateWriteHeads(p)
    \/ MigrateRename(p) \/ ProjectionRead(p) \/ ProjectionWrite(p)
    \/ Load(p) \/ Persist(p) \/ Lock(p) \/ CanReap(p) \/ Reap(p) \/ LockTimeout(p)
    \/ CompareMismatch(p) \/ CompareMatch(p) \/ Publish(p) \/ Unlock(p)
    \/ PopLoad(p) \/ PopWrite(p)

Next == \E p \in Proc : Append_(p) \/ Pop(p) \/ Step(p) \/ Crash(p)

Spec == Init /\ [][Next]_vars

\* A call that has begun is executed.
FairSpec == Spec /\ \A p \in Proc : WF_vars(Step(p))

-----------------------------------------------------------------------------
(* Properties.                                                             *)

PC == {"idle", "failed", "dead", "migrate", "migratelegacy", "migrateheads",
       "migraterename", "projread", "projwrite", "load", "persist", "lock",
       "poplock", "reap", "popreap", "compare", "publish", "unlock", "popload", "popwrite", "popunlock"}

\* Types and bounds: an append makes at most MAX_RETRY_ATTEMPTS attempts, and
\* nothing is read or acknowledged that was not created.
TypeOK ==
    /\ headsFile # Missing => headsFile.epoch \in Nat /\ headsFile.heads \subseteq store
    /\ legacy # None => legacy \subseteq 1..clock
    /\ lock \in Proc \cup {None}
    /\ clock \in 0..MaxOps /\ pops \in 0..MaxPops
    /\ pc \in [Proc -> PC]
    /\ op \in [Proc -> 0..clock]
    /\ attempt \in [Proc -> 0..MAX_RETRY_ATTEMPTS]
    /\ acked \subseteq 1..clock /\ popped \subseteq 1..clock /\ robbed \in BOOLEAN

\* Every published head and every ancestor of it is on disk, at every moment
\* and after a crash at any step: read_all never meets a missing node.
StoreClosed ==
    /\ headsFile # Missing => headsFile.heads \subseteq store
    /\ \A n \in store : n.parents \subseteq store

\* Until a living holder is robbed of publish.lock, the head set is the tip of
\* the chain of publications, each the only parent of the next: concurrent
\* appends never fork the log.
HeadsAreTip ==
    (headsFile # Missing /\ ~robbed) =>
       /\ headsFile.heads = Tip(chain)
       /\ \A i \in 1..Len(chain) :
             chain[i].parents = IF i = 1 THEN {} ELSE {chain[i-1]}

\* oplog.rs:675, concurrent_append_preserves_both_operations: until a living
\* holder is robbed of publish.lock, an operation whose append returned Ok is
\* found by read_all until pop removes it.
NoLostAppend == robbed \/ (acked \ popped) \subseteq reachable(load_heads_state.heads)

\* Until a living holder is robbed of publish.lock, a published heads state is
\* never replaced by one with an older or equal epoch, so a stale fingerprint
\* never matches again.
EpochGrows ==
    [][headsFile # headsFile' /\ headsFile # Missing
         => robbed \/ headsFile'.epoch = headsFile.epoch + 1]_vars

\* The operations found by following parents from heads.bin, in the order of
\* their publication.
Publications ==
    LET level[k \in 0..MaxOps] ==
          IF k = 0 THEN load_heads_state.heads ELSE UNION {n.parents : n \in level[k-1]}
        depth == Cardinality({k \in 0..MaxOps : level[k] # {}})
    IN  [i \in 1..depth |-> (CHOOSE n \in level[depth - i] : TRUE).op]

\* With heads.bin in place, and until a living holder is robbed of publish.lock,
\* the log behaves as an atomic sequence of publications, extended and rewound
\* at its end, and a reader finds the operations in it, every one, sorted by
\* time (so a new one may come before others, and pop may take one from among
\* them); nothing else changes what it finds.
Log == INSTANCE AtomicLog
         WITH Op <- 1..MaxOps, log <- Publications, listed <- read_all(load_heads_state.heads)
LogIsAtomic == Log!Init /\ [][robbed \/ Log!Next]_<<Publications, read_all(load_heads_state.heads)>>

\* Every call returns, whatever the other processes do or wherever they die.
CallsReturn ==
    \A p \in Proc : (pc[p] = "migrate") ~> (pc[p] \in {"idle", "failed", "dead"})
=============================================================================

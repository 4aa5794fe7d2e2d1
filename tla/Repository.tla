----------------------------- MODULE Repository -----------------------------
(***************************************************************************)
(* The repository of the `arc` command line: changes in a content-addressed*)
(* store, views (named head sets), the epoch map that redirects rewritten  *)
(* changes, the operation log with its redo stack, raw blobs, and the      *)
(* working directory (crates/arc-cli/src/repo/core.rs and snapshot.rs).    *)
(*                                                                         *)
(* Every invocation is a process with an empty in-memory graph.  A command *)
(* takes `.arc/lock` if it does so in the code, reads what it needs, and   *)
(* then performs its writes one at a time, in the code's order: the plan   *)
(* todo[p].  Another process, the user's editor, or a crash may come       *)
(* between any two writes.  Commands that fail before their first write    *)
(* leave everything as it was and are not steps.                           *)
(*                                                                         *)
(* A change is a number that stands for its hash: `content` maps it to     *)
(* what is hashed, so equal content is the same change.  A tree has one    *)
(* Rust file, kept as AST items inside changes, and one other file, kept   *)
(* as a raw blob.  Histories are linear here: heads and deps have at most  *)
(* one element (merges are not part of this module).                       *)
(***************************************************************************)
EXTENDS Integers, Sequences, FiniteSets, FiniteSetsExt, SequencesExt

CONSTANTS
    Proc,        \* processes
    None,        \* nobody, no view
    View,        \* view names
    Main,        \* the initial view
    Version,     \* contents a file can have, besides being Absent
    Intent,      \* commit messages
    Commands,    \* the commands that are issued
    MaxCommands, \* bound on the commands issued
    MaxEdits,    \* bound on the user's edits
    MaxCrashes   \* bound on the processes killed

Absent == 0                   \* a file that does not exist
Keep == -1                    \* a change that does not touch the file
Torn == -2                    \* the first part of a file only
Locked == {"snap", "finalize", "fork", "amend", "undo", "redo", "abandon",
           "oprestore", "oprevert", "compact"}
Unlocked == {"view", "switch", "gc"}

ASSUME RepositoryAssumption ==
    /\ None \notin Proc /\ \A heads \in SUBSET (1..MaxCommands) : heads # None
    /\ Main \in View /\ IsFiniteSet(View)
    /\ Version \subseteq Nat \ {0} /\ Intent \subseteq Nat \ {0}
    /\ Commands \subseteq Locked \cup Unlocked
    /\ MaxCommands \in Nat /\ MaxEdits \in Nat /\ MaxCrashes \in Nat

VARIABLES
    content, \* the contents behind the hashes, a sequence of [deps, atoms, intent]
    store,   \* the changes in .arc/store
    blobs,   \* .arc/blobs: the bytes in the file named after each content
    views,   \* .arc/views: the heads of each view, or None
    head,    \* .arc/HEAD
    epoch,   \* .arc/epochs: rewritten change -> its replacement
    oplog,   \* the operation log, oldest first (module OpLog)
    redo,    \* .arc/local/redo_stack.json
    wd,      \* the working directory
    lock,    \* holder of .arc/lock
    cmd,     \* the command each process runs, or "idle" or "hung"
    todo,    \* the writes it still has to do
    issued, edits, crashes, \* counters
    was,     \* history: the working directory when the last command began
    meddled  \* history: a file was saved while a command ran

vars == <<content, store, blobs, views, head, epoch, oplog, redo, wd, lock,
          cmd, todo, issued, edits, crashes, was, meddled>>
bounds == <<issued, edits, crashes>>
past == <<was, meddled>>

-----------------------------------------------------------------------------
(* Changes and trees.                                                      *)

Bytes == Version \cup {Torn}
Tree == [rs : Version \cup {Absent}, blob : Bytes \cup {Absent}]
File == {"rs", "blob"}
EmptyTree == [f \in File |-> Absent]
Untouched == [f \in File |-> Keep]

Ids == DOMAIN content
deps(id) == content[id].deps

\* Change::new: the id of a content, new or already known.
Known(c) == \E i \in Ids : content[i] = c
IdOf(c) == IF Known(c) THEN CHOOSE i \in Ids : content[i] = c ELSE Len(content) + 1
Learn(c) == content' = IF Known(c) THEN content ELSE Append(content, c)
NewChange(d, atoms, intent) == [deps |-> d, atoms |-> atoms, intent |-> intent]

\* apply_change, for one file each.
apply_change(s, atoms) == [f \in File |-> IF atoms[f] = Keep THEN s[f] ELSE atoms[f]]

\* compute_working_directory_delta.
delta(s) == [f \in File |-> IF wd[f] = s[f] THEN Keep ELSE wd[f]]

\* The tree of a head set, by replaying its linear history; contents c.
TreeOfIn(c, heads) ==
    LET tree[i \in 1..Len(c)] ==
          apply_change(IF c[i].deps = {} THEN EmptyTree
                       ELSE tree[CHOOSE d \in c[i].deps : TRUE], c[i].atoms)
    IN  IF heads = {} THEN EmptyTree ELSE tree[CHOOSE h \in heads : TRUE]
TreeOf(heads) == TreeOfIn(content, heads)

\* The ids reachable from a set by a successor operator.
Closure(succ(_), ids) ==
    LET it[k \in 0..Len(content)] ==
          IF k = 0 THEN ids ELSE it[k-1] \cup UNION {succ(x) : x \in it[k-1]}
    IN  it[Len(content)]

-----------------------------------------------------------------------------
(* hydrate_heads and materialize_heads, from an empty graph.               *)

\* What the queue of hydrate_heads goes through: an id in the epoch map is
\* replaced by its target, any other is read and its deps are queued.
Visited(heads) ==
    LET succ(x) == IF x \in DOMAIN epoch THEN {epoch[x]}
                   ELSE IF x \in store THEN deps(x) ELSE {}
    IN  Closure(succ, heads)

\* A redirection that comes back to itself is never in the graph, and is
\* queued for ever.
OnEpochCycle(x) ==
    LET succ(y) == IF y \in DOMAIN epoch THEN {epoch[y]} ELSE {}
    IN  x \in DOMAIN epoch /\ x \in Closure(succ, {epoch[x]})

\* hydrate_heads: a CAS read fails, or the loop does not end, or it is done.
hydrate_heads(heads) ==
    LET v == Visited(heads)
    IN  IF \E x \in v : x \notin DOMAIN epoch /\ x \notin store THEN "error"
        ELSE IF \E x \in v : OnEpochCycle(x) THEN "hang" ELSE "ok"

GraphOf(heads) == {x \in Visited(heads) : x \notin DOMAIN epoch /\ x \in store}

\* ChangeGraph::ancestors over the graph g: a dep outside g has no edges.
ancestors(g, heads) ==
    LET succ(x) == IF x \in g THEN deps(x) ELSE {} IN Closure(succ, heads)

\* materialize_heads after hydrate_heads: a change missing from the graph is
\* an error, and missing it is when the epoch map redirects its id.
checkout(heads) ==
    IF hydrate_heads(heads) # "ok" THEN hydrate_heads(heads)
    ELSE IF ancestors(GraphOf(heads), heads) \subseteq GraphOf(heads) THEN "ok" ELSE "error"

-----------------------------------------------------------------------------
Init ==
    /\ content = <<>>
    /\ store = {}
    /\ blobs = [b \in Bytes |-> Absent]
    /\ views = [v \in View |-> IF v = Main THEN {} ELSE None]
    /\ head = Main
    /\ epoch = <<>>
    /\ oplog = <<>>
    /\ redo = <<>>
    /\ wd = EmptyTree
    /\ lock = None
    /\ cmd = [p \in Proc |-> "idle"]
    /\ todo = [p \in Proc |-> <<>>]
    /\ issued = 0 /\ edits = 0 /\ crashes = 0
    /\ was = "clean" /\ meddled = FALSE

-----------------------------------------------------------------------------
(* The writes of a command, as one-element plans.                          *)

write_blob(v) == IF v \in Bytes THEN <<[w |-> "blob", v |-> v]>> ELSE <<>>
write_change(id) == <<[w |-> "change", id |-> id]>>
save_view(v, hs) == <<[w |-> "view", view |-> v, heads |-> hs]>>
set_head(v) == <<[w |-> "head", view |-> v]>>

\* Mutant of set_epoch: the epoch map is not written.
set_epoch_skipped(ids, to) == <<>>

set_epoch(ids, to) == <<[w |-> "epoch", ids |-> ids, to |-> to]>>
pop == <<[w |-> "pop"]>>
append(op) == <<[w |-> "append", op |-> op]>>
save_redo(s) == <<[w |-> "redo", stack |-> s]>>

push_redo(op) == save_redo(Append(redo, op))
remove_change(id) == <<[w |-> "unstore", id |-> id]>>
remove_blobs(vs) == <<[w |-> "gc", keep |-> vs]>>
remove_file == <<[w |-> "rmblob"]>>
hang == <<[w |-> "hang"]>>

\* Mutant of write_state: the working directory is not written.
write_state_skipped(t, undo) == <<>>

\* write_state_to_working_dir; if it fails the command goes on with `undo`.
write_state(t, undo) == <<[w |-> "wd", tree |-> t, undo |-> undo]>>

Op(v, before, after) == [view |-> v, before |-> before, after |-> after]

\* Mutant of log_operation: before and after swapped.
log_operation_swapped(v, before, after) == save_redo(<<>>) \o append(Op(v, after, before))

\* log_operation: clear the redo stack, then append.
log_operation(v, before, after) == save_redo(<<>>) \o append(Op(v, before, after))

\* What follows a checkout in the middle of a command: the rest of the plan,
\* nothing after an error, or the endless loop.
Then(heads, rest) ==
    CASE checkout(heads) = "ok" -> rest
      [] checkout(heads) = "error" -> <<>>
      [] checkout(heads) = "hang" -> hang

-----------------------------------------------------------------------------
(* The commands.                                                           *)

Tip == views[head]

\* acquire_lock, by the commands that call it; a failure is not a step.
acquire_lock(p, c) ==
    /\ c \in Locked => lock = None
    /\ lock' = IF c \in Locked THEN p ELSE lock

\* Begin command c of process p with its plan.
Begin(p, c, plan) ==
    /\ c \in Commands
    /\ acquire_lock(p, c)
    /\ plan # <<>>
    /\ cmd' = [cmd EXCEPT ![p] = c]
    /\ todo' = [todo EXCEPT ![p] = plan]
    /\ issued' = issued + 1
    /\ was' = IF wd # TreeOf(Tip) THEN "dirty"
              ELSE IF \/ c = "undo" /\ Last(oplog).view # head
                      \/ c = "redo" /\ Last(redo).view # head
              THEN "elsewhere" ELSE "clean"
    /\ UNCHANGED <<store, blobs, views, head, epoch, oplog, redo, wd, edits, crashes, meddled>>

\* Mutants of Commit: the view is saved before the change is written; the
\* blob is written last.
CommitViewFirst(p, c, d, atoms, intent) ==
    LET change == NewChange(d, atoms, intent)
        id == IdOf(change)
    IN  /\ Learn(change)
        /\ Begin(p, c, write_blob(atoms.blob) \o save_view(head, {id})
                       \o write_change(id) \o log_operation(head, Tip, {id}))

CommitBlobLast(p, c, d, atoms, intent) ==
    LET change == NewChange(d, atoms, intent)
        id == IdOf(change)
    IN  /\ Learn(change)
        /\ Begin(p, c, write_change(id) \o save_view(head, {id})
                       \o log_operation(head, Tip, {id}) \o write_blob(atoms.blob))

\* Commit a new change on top of the current view: blobs, change, view, log.
Commit(p, c, d, atoms, intent) ==
    LET change == NewChange(d, atoms, intent)
        id == IdOf(change)
    IN  /\ Learn(change)
        /\ Begin(p, c, write_blob(atoms.blob) \o write_change(id)
                       \o save_view(head, {id}) \o log_operation(head, Tip, {id}))

\* snap and snapshot; interactive staging drops atoms that are not deletions.
Snap(p) ==
    \E intent \in Intent, staged \in SUBSET File :
       LET all == delta(TreeOf(Tip))
           atoms == [f \in File |-> IF f \in staged \/ all[f] = Absent THEN all[f] ELSE Keep]
       IN  /\ checkout(Tip) = "ok"
           /\ atoms # Untouched
           /\ Commit(p, "snap", Tip, atoms, intent)

\* finalize_snapshot: the head again, with another message.
Finalize(p) ==
    /\ hydrate_heads(Tip) = "ok"
    /\ Cardinality(Tip) = 1
    /\ Tip \subseteq GraphOf(Tip)
    /\ \E old \in Tip, intent \in Intent :
          LET change == NewChange(deps(old), content[old].atoms, intent)
              id == IdOf(change)
          IN  /\ Learn(change)
              /\ Begin(p, "finalize", write_change(id) \o save_view(head, {id})
                                      \o log_operation(head, Tip, {id}))

\* fork_empty_snapshot: an empty change on top.
Fork(p) ==
    /\ hydrate_heads(Tip) = "ok"
    /\ \E intent \in Intent : Commit(p, "fork", Tip, Untouched, intent)

\* amend: a change with the head's deps and the working directory's delta
\* replaces the head; the epoch map redirects the old id; the operation is
\* logged before the view is saved.
Amend(p) ==
    /\ hydrate_heads(Tip) = "ok"
    /\ Cardinality(Tip) = 1
    /\ \E old \in Tip \cap store, message \in Intent \cup {Keep} :
          LET atoms == delta(TreeOf(deps(old)))
              intent == IF message = Keep THEN content[old].intent ELSE message
              change == NewChange(deps(old), atoms, intent)
              id == IdOf(change)
              tree == apply_change(TreeOf(deps(old)), atoms)
          IN  /\ checkout(deps(old)) = "ok"
              /\ atoms # Untouched \/ message # Keep
              /\ Learn(change)
              /\ Begin(p, "amend",
                       write_blob(atoms.blob) \o write_change(id)
                       \o set_epoch({old}, id) \o log_operation(head, Tip, {id})
                       \o save_view(head, {id}) \o write_state(tree, <<>>))

\* undo: pop, check out the view as it is, restore it, check that out, drop
\* the blob file it does not have, write the tree, push the redo stack.
Undo(p) ==
    /\ oplog # <<>>
    /\ LET op == Last(oplog)
           now == views[op.view]
           drop == IF TreeOf(now).blob # Absent /\ TreeOf(op.before).blob = Absent
                   THEN remove_file ELSE <<>>
       IN  Begin(p, "undo",
                 pop \o Then(now, save_view(op.view, op.before)
                               \o Then(op.before, drop \o write_state(TreeOf(op.before), <<>>)
                                                       \o push_redo(op))))
    /\ UNCHANGED content

\* redo: only onto the heads the undo left; rolled back if a write fails.
Redo(p) ==
    /\ redo # <<>>
    /\ LET op == Last(redo)
           back == save_view(op.view, op.before) \o write_state(TreeOf(op.before), <<>>)
       IN  /\ views[op.view] = op.before
           /\ checkout(op.before) = "ok"
           /\ Begin(p, "redo",
                    save_view(op.view, op.after)
                    \o Then(op.after, write_state(TreeOf(op.after), back)
                                      \o append(op) \o save_redo(Front(redo))))
    /\ UNCHANGED content

\* abandon_heads of "@".
Abandon(p) ==
    /\ hydrate_heads(Tip) = "ok"
    /\ \E old \in Tip \cap store :
          Begin(p, "abandon",
                save_view(head, deps(old))
                \o Then(deps(old), write_state(TreeOf(deps(old)), <<>>)
                                   \o log_operation(head, Tip, deps(old))))
    /\ UNCHANGED content

\* op_restore and op_revert through apply_operation_heads.
ApplyOperationHeads(p, c, next) ==
    LET back == save_view(head, Tip) \o write_state(TreeOf(Tip), <<>>)
    IN  /\ checkout(Tip) = "ok"
        /\ hydrate_heads(next) = "ok"
        /\ Begin(p, c, save_view(head, next)
                       \o Then(next, write_state(TreeOf(next), back)
                                     \o log_operation(head, Tip, next)))
        /\ UNCHANGED content

OpRestore(p) ==
    \E i \in DOMAIN oplog :
       oplog[i].view = head /\ ApplyOperationHeads(p, "oprestore", oplog[i].after)

OpRevert(p) ==
    \E i \in DOMAIN oplog :
       oplog[i].view = head /\ ApplyOperationHeads(p, "oprevert", oplog[i].before)

\* create_view, without the lock.
CreateView(p) ==
    /\ \E v \in View : views[v] = None /\ Begin(p, "view", save_view(v, Tip))
    /\ UNCHANGED content

\* check_working_dir_clean: Rust sources are compared, other tracked files
\* only have to exist.
check_working_dir_clean(t) ==
    /\ wd.rs = t.rs
    /\ t.blob # Absent => wd.blob # Absent

\* switch_view, without the lock.
SwitchView(p) ==
    /\ checkout(Tip) = "ok"
    /\ check_working_dir_clean(TreeOf(Tip))
    /\ \E v \in View :
          /\ views[v] # None
          /\ checkout(views[v]) = "ok"
          /\ Begin(p, "switch", write_state(TreeOf(views[v]), <<>>) \o set_head(v))
    /\ UNCHANGED content

\* gc, without the lock: the roots are the heads of the views and of the
\* logged operations, but only changes in this process's graph g count, and
\* gc is the first thing the process does.  No change is deleted: one in
\* every view's ancestry is reachable.
gc_roots ==
    UNION ({views[v] : v \in {u \in View : views[u] # None}}
           \cup {oplog[i].before : i \in DOMAIN oplog}
           \cup {oplog[i].after : i \in DOMAIN oplog})

Gc(p) ==
    /\ LET g == {}
           reachable == ancestors(g, gc_roots)
       IN  Begin(p, "gc", remove_blobs({content[x].atoms.blob : x \in reachable \cap g}))
    /\ UNCHANGED content

\* compact: what every view has becomes one change without deps, and the epoch
\* map, the views and the store follow, in this order.  Nothing is logged.
Compact(p) ==
    LET named == {v \in View : views[v] # None}
        g == UNION {GraphOf(views[v]) : v \in named}
        stable == {x \in Ids : \A v \in named : x \in ancestors(g, views[v])}
        tips == {x \in stable : \A y \in stable \cap g : x \notin deps(y)}
        tree == TreeOf(tips)
        change == NewChange({}, [f \in File |-> IF tree[f] = Absent THEN Keep ELSE tree[f]], 0)
        id == IdOf(change)
        saves == [v \in {v \in named : views[v] \cap stable # {}} |->
                    save_view(v, (views[v] \ stable) \cup {id})]
        deletes == [x \in stable |-> remove_change(x)]
    IN  /\ \A v \in named : hydrate_heads(views[v]) = "ok"
        /\ stable # {}
        /\ checkout(tips) = "ok"
        /\ Learn(change)
        /\ Begin(p, "compact",
                 write_change(id) \o set_epoch(stable, id)
                 \o FlattenSeq(SetToSeq({saves[v] : v \in DOMAIN saves}))
                 \o FlattenSeq(SetToSeq({deletes[x] : x \in stable})))

\* The head sets that a command hydrates before its first write.
FirstReads(c) ==
    IF c = "redo" THEN {Last(redo).before}
    ELSE IF c \in {"switch", "compact"} THEN {views[v] : v \in View} \ {None}
    ELSE IF c \in {"undo", "view", "gc"} THEN {} ELSE {Tip}

\* One of them sends hydrate_heads round for ever; a lock taken is kept.
BeginHung(p) ==
    /\ \E c \in Commands :
          /\ c = "redo" => redo # <<>> /\ views[Last(redo).view] = Last(redo).before
          /\ \E hs \in FirstReads(c) : hydrate_heads(hs) = "hang"
          /\ Begin(p, c, hang)
    /\ UNCHANGED content

\* A process that has nothing to do issues a command.
Command(p) ==
    /\ cmd[p] = "idle"
    /\ issued < MaxCommands
    /\ \/ BeginHung(p) \/ Snap(p) \/ Finalize(p) \/ Fork(p) \/ Amend(p) \/ Undo(p)
       \/ Redo(p) \/ Abandon(p) \/ OpRestore(p) \/ OpRevert(p) \/ CreateView(p)
       \/ SwitchView(p) \/ Gc(p) \/ Compact(p)

-----------------------------------------------------------------------------
(* The writes, one action per kind.                                        *)

\* The next write of p is of this kind, and done by this step.
Doing(p, kind) == todo[p] # <<>> /\ Head(todo[p]).w = kind
Done(p) == todo' = [todo EXCEPT ![p] = Tail(@)]
unmoved == <<content, head, lock, cmd, bounds, past>>

\* write_blob_atoms: the bytes are those the working directory has now, an
\* error if the file is gone; fs::write creates the blob, then fills it; a blob
\* that exists is left alone.
WriteBlob(p) ==
    /\ Doing(p, "blob")
    /\ LET v == Head(todo[p]).v
       IN  \/ /\ wd.blob = Absent
              /\ todo' = [todo EXCEPT ![p] = <<>>]
              /\ UNCHANGED blobs
           \/ /\ wd.blob # Absent /\ blobs[v] # Absent
              /\ Done(p)
              /\ UNCHANGED blobs
           \/ /\ wd.blob # Absent /\ blobs[v] = Absent
              /\ blobs' = [blobs EXCEPT ![v] = Torn]
              /\ todo' = [todo EXCEPT ![p] = <<[w |-> "fill", v |-> v, bytes |-> wd.blob]>>
                                             \o Tail(@)]
    /\ UNCHANGED <<unmoved, store, views, epoch, oplog, redo, wd>>

FillBlob(p) ==
    /\ Doing(p, "fill")
    /\ blobs' = [blobs EXCEPT ![Head(todo[p]).v] = IF @ = Absent THEN @ ELSE Head(todo[p]).bytes]
    /\ Done(p)
    /\ UNCHANGED <<unmoved, store, views, epoch, oplog, redo, wd>>

WriteChange(p) ==
    /\ Doing(p, "change")
    /\ store' = store \cup {Head(todo[p]).id}
    /\ Done(p)
    /\ UNCHANGED <<unmoved, blobs, views, epoch, oplog, redo, wd>>

SaveView(p) ==
    /\ Doing(p, "view")
    /\ views' = [views EXCEPT ![Head(todo[p]).view] = Head(todo[p]).heads]
    /\ Done(p)
    /\ UNCHANGED <<unmoved, store, blobs, epoch, oplog, redo, wd>>

SetHead(p) ==
    /\ Doing(p, "head")
    /\ head' = Head(todo[p]).view
    /\ Done(p)
    /\ UNCHANGED <<content, store, blobs, views, epoch, oplog, redo, wd, lock, cmd, bounds, past>>

SetEpoch(p) ==
    /\ Doing(p, "epoch")
    /\ LET new == [x \in Head(todo[p]).ids |-> Head(todo[p]).to]
       IN  epoch' = [x \in DOMAIN epoch \cup DOMAIN new |->
                        IF x \in DOMAIN new THEN new[x] ELSE epoch[x]]
    /\ Done(p)
    /\ UNCHANGED <<unmoved, store, blobs, views, oplog, redo, wd>>

PopOp(p) ==
    /\ Doing(p, "pop")
    /\ oplog' = Front(oplog)
    /\ Done(p)
    /\ UNCHANGED <<unmoved, store, blobs, views, epoch, redo, wd>>

AppendOp(p) ==
    /\ Doing(p, "append")
    /\ oplog' = Append(oplog, Head(todo[p]).op)
    /\ Done(p)
    /\ UNCHANGED <<unmoved, store, blobs, views, epoch, redo, wd>>

SaveRedo(p) ==
    /\ Doing(p, "redo")
    /\ redo' = Head(todo[p]).stack
    /\ Done(p)
    /\ UNCHANGED <<unmoved, store, blobs, views, epoch, oplog, wd>>

RemoveChange(p) ==
    /\ Doing(p, "unstore")
    /\ store' = store \ {Head(todo[p]).id}
    /\ Done(p)
    /\ UNCHANGED <<unmoved, blobs, views, epoch, oplog, redo, wd>>

RemoveBlobs(p) ==
    /\ Doing(p, "gc")
    /\ blobs' = [b \in Bytes |-> IF b \in Head(todo[p]).keep THEN blobs[b] ELSE Absent]
    /\ Done(p)
    /\ UNCHANGED <<unmoved, store, views, epoch, oplog, redo, wd>>

RemoveFile(p) ==
    /\ Doing(p, "rmblob")
    /\ wd' = [wd EXCEPT !.blob = Absent]
    /\ Done(p)
    /\ UNCHANGED <<unmoved, store, blobs, views, epoch, oplog, redo>>

\* write_state_to_working_dir: Rust files that the tree does not have are
\* removed, other files are not.  A blob that is gone is an error, before or
\* after the Rust file is written again.
WriteState(p) ==
    /\ Doing(p, "wd")
    /\ LET t == Head(todo[p]).tree
           gone == {b \in Bytes : blobs[b] = Absent}
       IN  \/ /\ t.blob \notin gone
              /\ wd' = [rs |-> t.rs, blob |-> IF t.blob = Absent THEN wd.blob ELSE blobs[t.blob]]
              /\ Done(p)
           \/ /\ t.blob \in gone
              /\ \E rs \in {Absent, t.rs} : wd' = [wd EXCEPT !.rs = rs]
              /\ todo' = [todo EXCEPT ![p] = Head(@).undo]
    /\ UNCHANGED <<unmoved, store, blobs, views, epoch, oplog, redo>>

\* hydrate_heads goes round for ever.
Hang(p) ==
    /\ Doing(p, "hang")
    /\ cmd[p] # "hung"
    /\ cmd' = [cmd EXCEPT ![p] = "hung"]
    /\ UNCHANGED <<content, store, blobs, views, head, epoch, oplog, redo, wd, lock, todo, bounds, past>>

\* The process exits and its lock is gone.
Exit(p) ==
    /\ cmd[p] # "idle"
    /\ todo[p] = <<>>
    /\ cmd' = [cmd EXCEPT ![p] = "idle"]
    /\ lock' = IF lock = p THEN None ELSE lock
    /\ UNCHANGED <<content, store, blobs, views, head, epoch, oplog, redo, wd, todo, bounds, past>>

\* The process is killed between two writes; its flock goes with it.
Crash(p) ==
    /\ todo[p] # <<>>
    /\ crashes < MaxCrashes
    /\ crashes' = crashes + 1
    /\ cmd' = [cmd EXCEPT ![p] = "idle"]
    /\ todo' = [todo EXCEPT ![p] = <<>>]
    /\ lock' = IF lock = p THEN None ELSE lock
    /\ was' = "dirty"
    /\ UNCHANGED <<content, store, blobs, views, head, epoch, oplog, redo, wd, issued, edits, meddled>>

\* The user saves a file.
Edit ==
    /\ edits < MaxEdits
    /\ edits' = edits + 1
    /\ \E f \in File, v \in Version \cup {Absent} :
          v # wd[f] /\ wd' = [wd EXCEPT ![f] = v]
    /\ was' = "dirty"
    /\ meddled' = (meddled \/ \E p \in Proc : cmd[p] # "idle")
    /\ UNCHANGED <<content, store, blobs, views, head, epoch, oplog, redo, lock, cmd, todo, issued, crashes>>

Write(p) ==
    \/ WriteBlob(p) \/ FillBlob(p) \/ WriteChange(p) \/ SaveView(p) \/ SetHead(p)
    \/ SetEpoch(p) \/ PopOp(p) \/ AppendOp(p) \/ SaveRedo(p) \/ RemoveChange(p)
    \/ RemoveBlobs(p) \/ RemoveFile(p) \/ WriteState(p) \/ Hang(p) \/ Exit(p)

Next == Edit \/ \E p \in Proc : Command(p) \/ Write(p) \/ Crash(p)

Spec == Init /\ [][Next]_vars

-----------------------------------------------------------------------------
(* Properties.                                                             *)

Heads == SUBSET Ids
Operation == [view : View, before : Heads, after : Heads]

\* Types, and the holder of .arc/lock: a running command that takes the lock in
\* the code has it until its process exits, and HEAD names a view that exists.
TypeOK ==
    /\ \A i \in Ids : /\ deps(i) \subseteq 1..(i-1) /\ Cardinality(deps(i)) <= 1
                      /\ content[i].atoms \in [File -> Bytes \cup {Absent, Keep}]
    /\ store \subseteq Ids
    /\ blobs \in [Bytes -> Bytes \cup {Absent}]
    /\ views \in [View -> Heads \cup {None}]
    /\ head \in View /\ views[head] # None
    /\ \A x \in DOMAIN epoch : x \in Ids /\ epoch[x] \in Ids
    /\ Range(oplog) \subseteq Operation /\ Range(redo) \subseteq Operation
    /\ wd \in Tree
    /\ lock \in Proc \cup {None}
    /\ \A p \in Proc : cmd[p] \in Locked => lock = p

Quiet == \A p \in Proc : cmd[p] = "idle"
Named == {v \in View : views[v] # None}

Redirected(v) == Visited(views[v]) \cap DOMAIN epoch # {}

\* A view none of whose history was rewritten can be checked out by a fresh
\* process, at every moment: between the writes of any command of any process,
\* and after a crash there.
ViewsUsable == \A v \in Named : Redirected(v) \/ checkout(views[v]) = "ok"

\* The doc of compact, core.rs:3868: the epoch map "is merged with any existing
\* .arc/epochs so multiple compact rounds compose correctly": once the commands
\* are done, every view can still be checked out.
RoundsCompose == Quiet /\ crashes = 0 => \A v \in Named : checkout(views[v]) = "ok"

\* The doc of undo, core.rs:3082: it "restores the view to its `before_heads`,
\* re-materializes the state, and writes the working directory to match", and
\* so gets to its last write, the redo stack.
UndoCompletes ==
    \A p \in Proc : cmd[p] = "undo" /\ todo[p] = <<>> =>
       redo # <<>> /\ views[Last(redo).view] = Last(redo).before

\* The raw bytes of every file in a view are in .arc/blobs, complete and under
\* their own name (core.rs:5387: the blob store is "append-only", its files are
\* "named by their BLAKE3 hash").
BlobsWhole ==
    \A v \in Named : LET b == TreeOf(views[v]).blob
                     IN  b # Absent => blobs[b] = b

\* The same, as long as nobody saves a file while a command runs: whatever is
\* undone, redone, abandoned or restored, its bytes are there.
BlobsKept == ~meddled => BlobsWhole

\* The last logged operation of a view produced its heads, so that undo takes
\* back what was done last and nothing else.
LogMatchesViews ==
    Quiet /\ crashes = 0 =>
       \A i \in DOMAIN oplog :
          (\A j \in (i+1)..Len(oplog) : oplog[j].view # oplog[i].view)
             => views[oplog[i].view] = oplog[i].after

\* The redo stack replays from its end: each operation starts from the heads
\* that the one redone before it, or the present view, has.
RedoReplays ==
    Quiet /\ crashes = 0 =>
       \A i \in DOMAIN redo :
          LET later == {j \in (i+1)..Len(redo) : redo[j].view = redo[i].view}
          IN  redo[i].before = IF later = {} THEN views[redo[i].view]
                               ELSE redo[Min(later)].after

\* undo and redo walk the log, to its ends and back, without skipping anything.
UndoIsFaithful == LogMatchesViews /\ RedoReplays /\ UndoCompletes

Current == TreeOf(views[head])

\* A command that starts from an unmodified working directory leaves the files
\* of the current view as that view has them, if no file was ever saved while a
\* command ran.  (Except undo and redo of another view's operation: they write
\* that view's tree over the current one's.)
CleanStaysClean ==
    Quiet /\ was = "clean" /\ ~meddled =>
       /\ wd.rs = Current.rs
       /\ Current.blob # Absent => wd.blob = Current.blob

\* Whatever a view, a logged or an undone operation, or a stored change refers
\* to is in the store, or the epoch map on disk redirects it: no crash between
\* the writes of a rewrite leaves a reference that leads nowhere.
RedirectBeforeDelete ==
    LET named == UNION ({views[v] : v \in Named} \cup {deps(x) : x \in store}
                        \cup {o.before : o \in Range(oplog) \cup Range(redo)}
                        \cup {o.after : o \in Range(oplog) \cup Range(redo)})
    IN  named \subseteq store \cup DOMAIN epoch
=============================================================================

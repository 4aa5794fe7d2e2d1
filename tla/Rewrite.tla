------------------------------ MODULE Rewrite ------------------------------
(* Rewriting history: squash, reorder, the resumable restack, diffedit, and *)
(* the undo of a rewrite.  A handle keeps a graph in memory; a rewrite adds  *)
(* redirections to .arc/epochs, an operation with its rewrite map to the     *)
(* log, and moves the view.  The writes run one by one; the process may be   *)
(* killed between two, and any write may fail: what the code then takes back, *)
(* or leaves, is the write's recovery.  There is one view.                   *)
EXTENDS Algebra, Graph

CONSTANTS
  Trees,        \* what a user may make of the files
  BlobFile,     \* the file that has no items
  Commands,     \* the rewrites that are issued
  FreshProcess, \* TRUE: every command is a process of its own
  MaxSnaps, MaxCommands, MaxSteps, \* bounds; snaps and commands together, MaxSteps
  MaxMishaps    \* of kills and failed writes

VARIABLES
  content,      \* change -> [atoms, intent, author]; its dependencies are in deps
  view,         \* the heads of the view
  files,        \* the epoch map: .arc/epochs, .bak.new, .bak and .tmp, each {a map} or {}
  oplog,        \* operations [command, before, after, map], oldest first
  ckpt,         \* pending_restack.json: {[before, order, map]}, or {}
  target,       \* diffedit_target: {a change}, or {}
  wd,           \* the files
  todo,         \* the writes the running command has left
  was,          \* history: the last command, its result, what failed, and what it found
  snaps, commands, kills, faults

counters == <<snaps, commands, kills, faults>>
stored == <<view, files, oplog, ckpt, target, wd>>
rewriteVars == <<graphVars, content, stored, todo, was, counters>>

-----------------------------------------------------------------------------
(* The epoch map.                                                            *)

\* load_epoch_map reads .arc/epochs only; load_epoch_map_raw falls back.
Only(s) == CHOOSE x \in s : TRUE
OrEmpty(file) == IF file = {} THEN Empty ELSE Only(file)

load_epoch_map == OrEmpty(files.canon)
RawMap(f) ==
  OrEmpty(IF f.canon # {} THEN f.canon ELSE IF f.staged # {} THEN f.staged ELSE f.bak)
load_epoch_map_raw == RawMap(files)

\* A write, and the writes that follow if it fails: none where the error is only
\* returned; and the end of a command that cannot read what it needs.
Risk(w, x, recovery) == [w |-> w, arg |-> x, recover |-> recovery]
Do(w, x) == Risk(w, x, <<>>)
Fail(recovery) == Risk("fail", {}, recovery)

\* Mutant of persist_epoch_map_raw: the old map is deleted, not set aside.
persist_in_place(m) == <<Do("tmp", m), Do("discard", {}), Do("publish", {})>>

\* persist_epoch_map_raw, file operation by file operation.  If the new map is
\* in place and the old one cannot be made the backup, nothing is taken back.
persist_epoch_map_raw(m) ==
  <<Do("tmp", m), Do("unstage", {}), Do("stage", {}), Do("publish", {}), Do("unbak", {}), Do("bak", {})>>

Overridden(m, n) == [x \in DOMAIN m \cup DOMAIN n |-> IF x \in DOMAIN n THEN n[x] ELSE m[x]]

\* rollback_rewrite_map_entries: the entries that are still as they were made.
Without(m, n) == [x \in {x \in DOMAIN m : ~(x \in DOMAIN n /\ n[x] = m[x])} |-> m[x]]

-----------------------------------------------------------------------------
(* The graph in memory.                                                      *)

\* What hydrate_heads goes through: redirected, in the graph already, or read.
Steps(e, g, x) ==
  IF x \in DOMAIN e THEN {e[x]} \ g.nodes
  ELSE IF x \in g.nodes THEN {} ELSE deps[x] \ g.nodes

Reached(e, g, from) ==
  LET Level[n \in 0..Cardinality(ChangeIds)] ==
        IF n = 0 THEN from
        ELSE LET seen == Level[n - 1] IN seen \cup UNION {Steps(e, g, x) : x \in seen}
  IN Level[Cardinality(ChangeIds)]

\* {the graph}, or {} if the loop does not end: a redirection that comes back.
hydrate_heads(e, g, hs) ==
  LET seen == Reached(e, g, hs)
  IN IF \E x \in seen : x \in DOMAIN e /\ x \in Reached(e, g, Steps(e, g, x)) THEN {}
     ELSE {FoldSet(LAMBDA x, acc : apply_insert(acc, x, deps[x]), g, (seen \ DOMAIN e) \ g.nodes)}

\* materialize_heads: {the state}, or {} if a change is missing or fails.
materialize(g, c, hs) ==
  LET order == topological_sort(g, hs)
  IN IF ToSet(order) \subseteq g.nodes THEN Replay(<<>>, [i \in DOMAIN order |-> c[order[i]]]) ELSE {}

\* The tree a new process finds.
Read(hs) == UNION {materialize(g, content, hs) : g \in hydrate_heads(load_epoch_map, NoGraph, hs)}

\* The ids of a new change, beside those in use: the one it has, or the least or
\* the greatest hash left; two changes come in either order.
Hashes(d, c, used) ==
  LET known == {i \in DOMAIN content : content[i] = c /\ deps[i] = d}
      free == ChangeIds \ (DOMAIN content \cup used)
  IN IF known # {} THEN known ELSE IF free = {} THEN {} ELSE {Min(free), Max(free)}

\* write_change and graph_add_change, of a sequence of [id, deps, change].
WithChanges(g, new) ==
  LET Added(f, values(_)) ==
        [x \in DOMAIN f \cup {new[i].id : i \in DOMAIN new} |->
           IF x \in DOMAIN f THEN f[x] ELSE values(CHOOSE i \in DOMAIN new : new[i].id = x)]
  IN /\ content' = Added(content, LAMBDA i : new[i].change)
     /\ deps' = Added(deps, LAMBDA i : new[i].deps)
     /\ graph' = FoldLeft(LAMBDA acc, n : apply_insert(acc, n.id, n.deps), g, new)

NoChange == UNCHANGED <<graphVars, content>>

-----------------------------------------------------------------------------
(* The mutator: {the outcome}, or {} for an error.                           *)

Change(id) == content[id]
New(id, d, c, origin) == [id |-> id, deps |-> d, change |-> c, origin |-> origin]

\* collect_linear_spine: from the target to the head.
collect_linear_spine(g, heads, t) ==
  LET topo == topological_sort(g, heads)
      start == CHOOSE i \in DOMAIN topo : topo[i] = t
      spine == SubSeq(topo, start, Len(topo))
      Children(x) == Cardinality(child_ids(g, x) \cap ToSet(spine))
  IN IF t \in ToSet(topo) \cap g.nodes /\ ToSet(spine) \subseteq g.nodes
        /\ \A i \in DOMAIN spine : Children(spine[i]) = (IF i = Len(spine) THEN 0 ELSE 1)
     THEN {spine} ELSE {}

\* Mutant: the atoms are gathered from the head back.
squashed_backwards(spine) ==
  FoldLeft(LAMBDA acc, id : Change(id).atoms \o acc, <<>>, spine)

squashed(spine) == FoldLeft(LAMBDA acc, id : acc \o Change(id).atoms, <<>>, spine)

squash_into(g, heads, t) ==
  UNION {LET c == [atoms |-> squashed(spine), intent |-> <<Len(spine)>> \o Change(t).intent,
                   author |-> "human"]
         IN {[new |-> <<New(id, deps[t], c, t)>>, head |-> id, map |-> [x \in ToSet(spine) |-> id]] :
               id \in Hashes(deps[t], c, {})}
         : spine \in collect_linear_spine(g, heads, t)}

\* resolve_linear_chain.
Linear(g, s) ==
  /\ s \subseteq g.nodes
  /\ \A x \in s : Cardinality(parent_ids(g, x) \cap s) <= 1 /\ Cardinality(child_ids(g, x) \cap s) <= 1
  /\ Cardinality({x \in s : parent_ids(g, x) \cap s = {}}) = 1

\* The id of a change in the bubble sort, if it is still the one it was.
Same(w) == IF w.deps = deps[w.origin] /\ w.change = Change(w.origin) THEN {w.origin} ELSE {}

\* commute_linear_pair, at the positions i and i+1 of the chain s: the right
\* change drops its dependency on the left one, and takes none in its place.
commute_linear_pair(s, i) ==
  LET l == s[i]
      r == s[i + 1]
  IN IF Same(r) \cap l.deps # {} THEN {}
     ELSE {[s EXCEPT ![i] = [origin |-> r.origin, deps |-> r.deps \ Same(l), change |-> p[1]],
                     ![i + 1] = [origin |-> l.origin, deps |-> l.deps \ Same(r), change |-> p[2]]] :
             p \in commute_pair(l.change, r.change)}

\* The passes of the bubble sort towards the order wanted.
bubble_sort(chain, want) ==
  LET Place(w) == CHOOSE k \in DOMAIN want : want[k] = w.origin
      Turn(acc, i) == UNION {IF Place(s[i]) <= Place(s[i + 1]) THEN {s} ELSE commute_linear_pair(s, i) : s \in acc}
      Pass(acc) == FoldLeft(Turn, acc, [i \in 1..(Len(want) - 1) |-> i])
  IN FoldLeft(LAMBDA acc, k : Pass(acc), {chain}, want)

\* Each change is hashed again, on those before it.
rehashed(sorted, selected) ==
  LET Deps(r, w) == (w.deps \ selected) \cup {n.id : n \in {n \in ToSet(r) : n.origin \in w.deps}}
                    \cup (IF r = <<>> THEN {} ELSE {Last(r).id})
      More(r, w) == {Append(r, New(id, Deps(r, w), w.change, w.origin)) :
                       id \in Hashes(Deps(r, w), w.change, {n.id : n \in ToSet(r)})}
  IN FoldLeft(LAMBDA acc, w : UNION {More(r, w) : r \in acc}, {<<>>}, sorted)

reorder(g, want) ==
  IF Cardinality(ToSet(want)) # Len(want) \/ ~Linear(g, ToSet(want)) THEN {}
  ELSE LET ids == topological_sort_ids(g, ToSet(want))
           chain == [i \in DOMAIN ids |-> [origin |-> ids[i], deps |-> deps[ids[i]], change |-> Change(ids[i])]]
       IN UNION {{[new |-> r, head |-> Last(r).id,
                   map |-> [x \in ToSet(want) |-> (CHOOSE n \in ToSet(r) : n.origin = x).id]] :
                    r \in rehashed(sorted, ToSet(want))} : sorted \in bubble_sort(chain, want)}

-----------------------------------------------------------------------------
(* The plan of a rewrite.                                                    *)

Operation(command, after, map) == [command |-> command, before |-> view, after |-> after, map |-> map]

\* Mutant of rollback_rewrite_metadata: the operation stays in the log.
rollback_map_only(previous) == persist_epoch_map_raw(previous)

rollback_rewrite_metadata(previous) == <<Do("pop", {})>> \o persist_epoch_map_raw(previous)

\* stage_rewrite_metadata: the epoch map, then the operation.
stage_rewrite_metadata(op) ==
  LET previous == load_epoch_map_raw
  IN persist_epoch_map_raw(Overridden(previous, op.map))
     \o <<Risk("op", op, persist_epoch_map_raw(previous))>>

\* The metadata, the view, the working directory; what fails is rolled back.
\* tree is {the tree of the new view} or {}.
Rewriting(op, between, tree, last) ==
  LET back == <<Do("view", view)>> \o rollback_rewrite_metadata(load_epoch_map_raw)
  IN stage_rewrite_metadata(op) \o between
     \o <<Risk("view", op.after, rollback_rewrite_metadata(load_epoch_map_raw))>>
     \o (IF tree = {} THEN <<Fail(back)>>
         ELSE <<Risk("wd", CHOOSE s \in tree : TRUE, back)>> \o last)

-----------------------------------------------------------------------------
RewriteInit ==
  /\ GraphInit
  /\ content = Empty /\ view = {} /\ oplog = <<>> /\ ckpt = {} /\ target = {}
  /\ files = [canon |-> {}, staged |-> {}, bak |-> {}, tmp |-> {}]
  /\ wd = <<>> /\ todo = <<>>
  /\ was = [command |-> "init", result |-> "ok", failed |-> "", view |-> {}, oplog |-> <<>>, map |-> Empty]
  /\ snaps = 0 /\ commands = 0 /\ kills = 0 /\ faults = 0

\* The graph that a command starts with.
mem == IF FreshProcess THEN NoGraph ELSE graph

\* Nothing runs, and another command may.
Free == todo = <<>> /\ commands < MaxCommands /\ snaps + commands < MaxSteps

Begin(command, plan) ==
  /\ Free /\ command \in Commands
  /\ commands' = commands + 1
  /\ todo' = plan
  /\ was' = [command |-> command, result |-> "ok", failed |-> "",
             view |-> view, oplog |-> oplog, map |-> load_epoch_map_raw]
  /\ UNCHANGED <<stored, snaps, kills, faults>>

\* snap, and the edit before it, in one step.
Snap ==
  /\ todo = <<>> /\ snaps < MaxSnaps /\ snaps + commands < MaxSteps
  /\ \E g \in hydrate_heads(load_epoch_map, mem, view) : \E s \in materialize(g, content, view), t \in Trees :
       LET c == [atoms |-> tree_delta(s, t, BlobFile), intent |-> <<>>, author |-> "human"]
       IN /\ c.atoms # <<>>
          /\ \E id \in Hashes(view, c, {}) :
               /\ WithChanges(g, <<New(id, view, c, id)>>)
               /\ view' = {id}
               /\ oplog' = Append(oplog, Operation("snap", {id}, Empty))
          /\ wd' = t
  /\ snaps' = snaps + 1
  /\ was' = [was EXCEPT !.command = "snap"]
  /\ UNCHANGED <<files, ckpt, target, todo, commands, kills, faults>>

\* log, status, blame: a command that only hydrates.
Log ==
  /\ todo = <<>>
  /\ graph' \in hydrate_heads(load_epoch_map, mem, view)
  /\ UNCHANGED <<deps, content, stored, todo, was, counters>>

Squash ==
  Free /\ \E t \in ChangeIds : \E out \in squash_into(mem, view, t) :
    /\ Cardinality(view) = 1
    /\ WithChanges(mem, out.new)
    /\ Begin("squash", Rewriting(Operation("squash", {out.head}, out.map), <<>>,
                                 materialize(graph', content', {out.head}), <<>>))

\* The orders a user asks for: of the last changes of a chain.
Orders ==
  UNION {LET chain == topological_sort(g, view)
             Suffix(n) == ToSet(SubSeq(chain, Len(chain) - n + 1, Len(chain)))
         IN UNION {SetToSeqs(Suffix(n)) : n \in 2..Min({3, Len(chain)})}
         : g \in hydrate_heads(load_epoch_map, mem, view)}

Reorder ==
  Free /\ \E want \in Orders : \E out \in reorder(mem, want) :
    /\ WithChanges(mem, out.new)
    /\ Begin("reorder", Rewriting(Operation("reorder", {out.head}, out.map), <<>>,
                                  materialize(graph', content', {out.head}), <<>>))

\* remap_change: along the rewrites of earlier attempts, until one comes back.
remap_change(id, m) ==
  LET Hop[n \in 0..Cardinality(DOMAIN m) + 1] ==
        IF n = 0 THEN [id |-> id, seen |-> {}]
        ELSE LET h == Hop[n - 1]
             IN IF h.id \notin DOMAIN m \/ h.id \in h.seen THEN h
                ELSE IF m[h.id] = h.id THEN h
                ELSE [id |-> m[h.id], seen |-> h.seen \cup {h.id}]
  IN Hop[Cardinality(DOMAIN m) + 1].id

\* Mutant of Checkpointed: the checkpoint is cleared once the view is saved.
CheckpointedLess(op, pending, tree) ==
  Rewriting(op, <<Do("ckpt", {[pending EXCEPT !.map = Overridden(@, op.map)]}), Do("ckpt", {})>>, tree, <<>>)

\* The rewrites are saved in the checkpoint before the view, and the checkpoint
\* is cleared last; if either fails, nothing is taken back.
Checkpointed(op, pending, tree) ==
  Rewriting(op, <<Do("ckpt", {[pending EXCEPT !.map = Overridden(@, op.map)]})>>, tree, <<Do("ckpt", {})>>)

\* execute_pending_restack: an order that cannot be had leaves the checkpoint.
execute_pending_restack(command, pending) ==
  LET want == [i \in DOMAIN pending.order |-> remap_change(pending.order[i], pending.map)]
      outs == reorder(mem, want)
      saved == <<Do("ckpt", {pending})>>
  IN /\ view = pending.before
     /\ \/ outs = {} /\ NoChange /\ Begin(command, saved \o <<Fail(<<>>)>>)
        \/ \E out \in outs :
             /\ WithChanges(mem, out.new)
             /\ Begin(command, saved \o Checkpointed(Operation("restack", {out.head}, out.map), pending,
                                                     materialize(graph', content', {out.head})))

Restack ==
  /\ Free /\ ckpt = {}
  /\ \E want \in Orders : execute_pending_restack("restack", [before |-> view, order |-> want, map |-> Empty])

Continue == Free /\ \E pending \in ckpt : execute_pending_restack("continue", pending)

\* restack_abort: the view is moved back before the old heads are read.
Abort ==
  /\ Free
  /\ \E pending \in ckpt, g \in hydrate_heads(load_epoch_map, mem, view) : \E s \in materialize(g, content, view) :
       LET g2 == hydrate_heads(load_epoch_map, g, pending.before)
           tree == UNION {materialize(h, content, pending.before) : h \in g2}
       IN /\ graph' \in (IF g2 = {} THEN {g} ELSE g2)
          /\ Begin("abort", <<Do("view", pending.before)>>
                            \o (IF tree = {} THEN <<Fail(<<>>)>>
                                ELSE <<Risk("wd", CHOOSE t \in tree : TRUE, <<Do("view", view), Do("wd", s)>>),
                                       Do("ckpt", {})>>))
  /\ UNCHANGED <<content, deps>>

\* diffedit_prepare: the target is noted, and its tree is written out.
DiffeditPrepare ==
  /\ Free
  /\ \E t \in mem.nodes : \E s \in materialize(mem, content, {t}) :
       Begin("prepare", <<Do("target", {t}), Do("wd", s)>>)
  /\ NoChange

\* The user edits the tree of the target.
Edit ==
  /\ todo = <<>> /\ target # {}
  /\ wd' \in Trees
  /\ UNCHANGED <<graphVars, content, view, files, oplog, ckpt, target, todo, was, counters>>

\* The difference that diffedit_apply takes: of Rust files alone; one that is
\* gone is deleted at its own path.
edited(s, t) ==
  IF ItemsIn(t) = Empty /\ ItemsIn(s) # Empty THEN <<Delete(SubSeq(Items[1], 1, 2), 0)>>
  ELSE diff_atoms(ItemsIn(s), ItemsIn(t))

\* diffedit_apply: the edit, as a change in the place of the target.
DiffeditApply ==
  Free /\ \E t \in target \cap mem.nodes : \E s \in materialize(mem, content, {t}) :
     LET c == [atoms |-> edited(s, wd), intent |-> <<0>> \o Change(t).intent, author |-> "human"]
     IN /\ c.atoms # <<>>
        /\ \E id \in Hashes(deps[t], c, {}) :
             /\ WithChanges(mem, <<New(id, deps[t], c, t)>>)
             /\ Begin("diffedit", Rewriting(Operation("diffedit", {id}, [x \in {t} |-> id]), <<>>,
                                            materialize(graph', content', {id}), <<Do("target", {})>>))

\* Mutant of rolled_back: the map is left as it is.
rolled_back_nothing(op) == load_epoch_map_raw

rolled_back(op) == Without(load_epoch_map_raw, op.map)

\* The map is put into the log again if it cannot be rolled back.
Relogged(op, writes) == [i \in DOMAIN writes |-> [writes[i] EXCEPT !.recover = <<Do("op", op)>>]]

\* The writes of the undo of op: now is {the tree of the view} or {}, tree that of the
\* view before op, and what then cannot be read fails the command where it stands.
Undoing(op, map, now, tree) ==
  LET stop == <<Fail(<<>>)>>
  IN <<Do("pop", {})>>
     \o (IF op.command = "snap" THEN <<>> ELSE Relogged(op, persist_epoch_map_raw(map)))
     \o (IF now = {} THEN stop
         ELSE <<Do("view", op.before)>>
              \o (IF tree = {} THEN stop ELSE <<Do("wd", CHOOSE t \in tree : TRUE)>>))

\* undo: the operation is popped, and a rewrite is taken out of the epoch map.
Undo ==
  /\ Free /\ oplog # <<>>
  /\ LET op == Last(oplog)
         map == rolled_back(op)
         e == IF op.command = "snap" THEN load_epoch_map ELSE map
         g1 == hydrate_heads(e, mem, view)
         now == UNION {materialize(g, content, view) : g \in g1}
         g2 == UNION {hydrate_heads(e, g, op.before) : g \in g1}
         tree == UNION {materialize(g, content, op.before) : g \in g2}
     IN /\ graph' \in (IF g2 # {} /\ now # {} THEN g2 ELSE IF g1 # {} THEN g1 ELSE {mem})
        /\ Begin("undo", Undoing(op, map, now, tree))
  /\ UNCHANGED <<content, deps>>

-----------------------------------------------------------------------------
\* What a write makes of the files of the epoch map, and of the log.
Filed(x, f) ==
  CASE x.w = "tmp" -> [f EXCEPT !.tmp = {x.arg}]
    [] x.w = "unstage" -> [f EXCEPT !.staged = {}]
    [] x.w = "stage" /\ f.canon # {} -> [f EXCEPT !.staged = f.canon, !.canon = {}]
    [] x.w = "discard" -> [f EXCEPT !.canon = {}]
    [] x.w = "publish" -> [f EXCEPT !.canon = f.tmp, !.tmp = {}]
    [] x.w = "unbak" /\ f.staged # {} -> [f EXCEPT !.bak = {}]
    [] x.w = "bak" /\ f.staged # {} -> [f EXCEPT !.bak = f.staged, !.staged = {}]
    [] OTHER -> f

Logged(x, log) ==
  CASE x.w = "op" -> Append(log, x.arg)
    [] x.w = "pop" /\ log # <<>> -> Front(log)
    [] OTHER -> log

\* The next write of the running command.
Write ==
  /\ todo # <<>> /\ Head(todo).w # "fail"
  /\ LET x == Head(todo)
     IN /\ view' = IF x.w = "view" THEN x.arg ELSE view
        /\ oplog' = Logged(x, oplog)
        /\ files' = Filed(x, files)
        /\ ckpt' = IF x.w = "ckpt" THEN x.arg ELSE ckpt
        /\ target' = IF x.w = "target" THEN x.arg ELSE target
        /\ wd' = IF x.w = "wd" THEN x.arg ELSE wd
  /\ todo' = Tail(todo)
  /\ NoChange /\ UNCHANGED <<was, counters>>

\* The command cannot go on: it takes back what it can, and has failed.
GiveUp ==
  /\ todo # <<>> /\ Head(todo).w = "fail"
  /\ todo' = Head(todo).recover
  /\ was' = [was EXCEPT !.result = "failed"]
  /\ NoChange /\ UNCHANGED <<stored, counters>>

\* The old map is moved back if the new one cannot be moved into its place.
PutBack(x, f) == IF x.w = "publish" /\ f.staged # {} THEN [f EXCEPT !.canon = f.staged, !.staged = {}] ELSE f

\* Of write_state_to_working_dir: the Rust files go, and the files of the tree come.
Torn(s, t) ==
  LET blobs == {p \in DOMAIN s : s[p][1] # "bytes"}
      Over(a) == [p \in a \cup blobs |-> IF p \in a THEN t[p] ELSE s[p]]
  IN {s, Over({}), Over({p \in DOMAIN t : t[p][1] = "bytes"}), Over({p \in DOMAIN t : t[p][1] # "bytes"})}

\* The one write that may fail unnoticed, and the writes of the epoch map, the last
\* of what is taken back.
Forgiven(x) == x.w = "target" /\ x.arg = {}
MapWrites == {"tmp", "unstage", "stage", "publish", "unbak", "bak"}

\* A write fails: the command goes on with its recovery.  What fails in a recovery
\* is passed over.
Fault ==
  /\ todo # <<>> /\ Head(todo).w # "fail" /\ kills + faults < MaxMishaps
  /\ LET x == Head(todo)
         recovering == was.result # "ok"
     IN /\ todo' = IF ~recovering THEN x.recover ELSE IF x.w \in MapWrites THEN <<>> ELSE Tail(todo)
        /\ files' = PutBack(x, files)
        /\ wd' \in IF x.w = "wd" THEN Torn(wd, x.arg) ELSE {wd}
        /\ was' = IF recovering THEN [was EXCEPT !.result = "halfway"]
                  ELSE IF Forgiven(x) THEN was ELSE [was EXCEPT !.result = "failed", !.failed = x.w]
  /\ faults' = faults + 1
  /\ NoChange /\ UNCHANGED <<view, oplog, ckpt, target, snaps, commands, kills>>

\* The process is killed: what it had in memory is gone.
Kill ==
  /\ todo # <<>> /\ kills + faults < MaxMishaps
  /\ todo' = <<>>
  /\ was' = [was EXCEPT !.result = "killed"]
  /\ graph' = NoGraph
  /\ kills' = kills + 1
  /\ UNCHANGED <<deps, content, stored, snaps, commands, faults>>

RewriteNext ==
  \/ Snap \/ Log \/ Squash \/ Reorder \/ Restack \/ Continue \/ Abort
  \/ DiffeditPrepare \/ Edit \/ DiffeditApply \/ Undo
  \/ Write \/ GiveUp \/ Fault \/ Kill

RewriteSpec == RewriteInit /\ [][RewriteNext]_rewriteVars

-----------------------------------------------------------------------------
(* Properties.                                                               *)

Ended(commands_, result) == todo = <<>> /\ was.command \in commands_ /\ was.result = result

\* mutator.rs: squash, reorder and restack preserve the materialized state.
RewritesKeepTheTree ==
  Ended({"squash", "reorder", "restack", "continue"}, "ok") =>
    materialize(graph, content, view) = materialize(graph, content, was.view)

\* A rewrite that fails has taken back the view, the operation and the map, but
\* for two failures that nothing takes back: if the old map could not be made the
\* backup, the new map stays, with nothing in the log; and if a checkpoint could
\* not be saved or cleared, the operation stays, and so does a checkpoint.
WhatFailureLeaves ==
  (Ended({"squash", "reorder", "restack", "continue", "diffedit"}, "failed") /\ kills + faults <= 1) =>
    \/ view = was.view /\ oplog = was.oplog /\ load_epoch_map_raw = was.map
    \/ was.failed \in {"unbak", "bak"} /\ view = was.view /\ oplog = was.oplog
    \/ /\ was.failed = "ckpt" /\ ckpt # {}
       /\ oplog # <<>> /\ Front(oplog) = was.oplog /\ view \in {was.view, Last(oplog).after}

\* The undo of a rewrite that was not killed leaves a view that a new process
\* can read, where none of the rewrite's redirections is left.
UndoneIsReadable ==
  (Ended({"undo"}, "ok") /\ kills = 0 /\ Last(was.oplog).command # "snap") =>
    LET op == Last(was.oplog)
    IN /\ view = op.before /\ Read(view) # {}
       /\ \A x \in DOMAIN op.map : x \notin DOMAIN load_epoch_map

\* With one mishap at most, a command loses no redirection, but that an undo takes
\* out those of its operation; and what it has logged is in the map, unless what
\* was to take it back failed too.
EpochMapKept ==
  (todo = <<>> /\ was.command # "snap" /\ was.result # "halfway" /\ kills + faults <= 1) =>
    LET undone == IF was.command = "undo" THEN DOMAIN Last(was.oplog).map ELSE {}
    IN /\ DOMAIN was.map \ undone \subseteq DOMAIN load_epoch_map_raw
       /\ Len(oplog) > Len(was.oplog) => DOMAIN Last(oplog).map \subseteq DOMAIN load_epoch_map_raw

\* A killed restack has left its checkpoint, or has not begun to change anything.
KilledRestackIsPending ==
  (Ended({"restack", "continue"}, "killed") /\ ckpt = {}) =>
    view = was.view /\ oplog = was.oplog /\ load_epoch_map_raw = was.map
=============================================================================

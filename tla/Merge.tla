------------------------------- MODULE Merge -------------------------------
(* Merging views, the conflict a merge records, its resolution by an AI or  *)
(* a merge tool, and the approval that commits it.  A workspace runs one     *)
(* command at a time; a command reads what it needs, then writes step by     *)
(* step, and may be killed between two writes.  Snaps, which Repository      *)
(* models write by write, are one step here.  The views exist from the       *)
(* start.                                                                    *)
EXTENDS Algebra, Graph

CONSTANTS
  Workspaces,   \* working directories that share the repository
  Views,        \* names of views
  Trees,        \* what a user may make of the files: item bytes and blobs
  Bodies,       \* what a resolver may answer
  BlobFile,     \* the file that has no items
  None,
  Start,        \* the tree that every view starts from
  MaxChanges,   \* bound on the changes, the first one included
  MaxOwn,       \* bound on the changes before a user stops to make his own
  MaxKills      \* bound on the commands killed

VARIABLES
  content,      \* change -> [atoms, author]; its dependencies are in deps
  heads,        \* view -> its heads
  at,           \* workspace -> its view
  wd,           \* workspace -> {the state its files show}, or {} if half written
  conflict,     \* .arc/conflict: [view, targets, pairs], or None
  pending,      \* .arc/ai/pending.json: [kind, atoms, deps], or None
  locked,       \* the workspace that holds .arc/lock, or None
  todo,         \* workspace -> the writes its command has left
  kills,        \* commands killed
  discarded     \* history: the user has thrown a pending change away

mergeVars == <<graphVars, content, heads, at, wd, conflict, pending, locked, todo, kills, discarded>>

-----------------------------------------------------------------------------
(* Trees.                                                                    *)

\* materialize_heads: {the state}, or {} if the replay fails.
materialize(g, c, hs) ==
  LET order == topological_sort(g, hs)
  IN Replay(<<>>, [i \in DOMAIN order |-> c[order[i]]])

Tree(hs) == materialize(graph, content, hs)

Conflicts(s) == {p \in DOMAIN s : s[p][1] = "conflict"}
InFile(s, f) == {p \in DOMAIN s : p[2] = f}
Files(s) == {p[2] : p \in DOMAIN s}

\* write_state_to_working_dir: a file with a conflict shows its two sides and
\* nothing else; with two conflicts in a file the command fails half way.
write_state(s) ==
  IF \E f \in Files(s) : Cardinality(InFile(s, f) \cap Conflicts(s)) > 1 THEN {}
  ELSE {[p \in {p \in DOMAIN s : InFile(s, p[2]) \cap Conflicts(s) \subseteq {p}} |-> s[p]]}

\* check_working_dir_clean: the sides of a conflict are never what the items
\* unparse to.
Clean(w) == \E s \in Tree(heads[at[w]]) : Conflicts(s) = {} /\ wd[w] = {s}

BlobAt == <<"file", BlobFile>>
delta(s, t) == tree_delta(s, t, BlobFile)

-----------------------------------------------------------------------------
(* Changes.                                                                  *)

\* The least and the greatest hash not in use: two changes come in either order.
Fresh ==
  LET free == ChangeIds \ DOMAIN content
  IN IF Cardinality(DOMAIN content) < MaxChanges /\ free # {} THEN {Min(free), Max(free)} ELSE {}

\* The hash of a change: the one it has, or any not yet in use.
Hashes(d, c) ==
  LET known == {i \in DOMAIN content : content[i] = c /\ deps[i] = d}
  IN IF known # {} THEN known ELSE Fresh

WithChange(id, d, c) ==
  /\ content' = [i \in DOMAIN content \cup {id} |-> IF i = id THEN c ELSE content[i]]
  /\ deps' = [i \in DOMAIN deps \cup {id} |-> IF i = id THEN d ELSE deps[i]]
  /\ graph' = apply_insert(graph, id, d)

NoChange == UNCHANGED <<graphVars, content>>

-----------------------------------------------------------------------------
MergeInit ==
  LET base == Min(ChangeIds)
  IN /\ graph = apply_insert(NoGraph, base, {}) /\ deps = [i \in {base} |-> {}]
     /\ content = [i \in {base} |-> Human(delta(<<>>, Start))]
     /\ heads = [v \in Views |-> {base}]
  /\ at \in [Workspaces -> Views]
  /\ wd = [w \in Workspaces |-> {Start}]
  /\ conflict = None /\ pending = None /\ locked = None
  /\ todo = [w \in Workspaces |-> <<>>]
  /\ kills = 0 /\ discarded = FALSE

\* acquire_lock, by the commands that take it.
acquire_lock(w) == locked = None /\ locked' = w
Unlocked == UNCHANGED locked

Begin(w, writes) == todo[w] = <<>> /\ todo' = [todo EXCEPT ![w] = writes]

\* snap: refused while an AI change is pending.
Snap(w) ==
  /\ todo[w] = <<>> /\ locked = None /\ pending = None
  /\ Cardinality(DOMAIN content) < MaxOwn
  /\ \E s \in Tree(heads[at[w]]), t \in Trees :
       LET atoms == delta(s, t)
           c == Human(atoms)
       IN /\ Conflicts(s) = {} /\ atoms # <<>>
          /\ \E id \in Hashes(heads[at[w]], c) :
               /\ WithChange(id, heads[at[w]], c)
               /\ heads' = [heads EXCEPT ![at[w]] = {id}]
          /\ wd' = [wd EXCEPT ![w] = {t}]
  /\ UNCHANGED <<at, conflict, pending, locked, todo, kills, discarded>>

\* switch_view.
Switch(w) ==
  \E v \in Views \ {at[w]} : \E t \in Tree(heads[v]) :
    /\ Clean(w)
    /\ Begin(w, <<[w |-> "wd", wd |-> write_state(t)]>>
                 \o (IF write_state(t) = {} THEN <<>> ELSE <<[w |-> "head", view |-> v]>>))
    /\ NoChange /\ Unlocked
    /\ UNCHANGED <<heads, at, wd, conflict, pending, kills, discarded>>

-----------------------------------------------------------------------------
(* merge_heads.                                                              *)

\* find_overlapping_path, over atoms in their order: the longer of the first
\* two paths that overlap.  A blob has no path.
Overlap(x, y) ==
  LET Met(i, j) == \E p \in paths(x[i]), q \in paths(y[j]) : paths_overlap(p, q)
      hits == {<<i, j>> \in (DOMAIN x) \X (DOMAIN y) : Met(i, j)}
      first == CHOOSE h \in hits : \A o \in hits : h[1] < o[1] \/ (h[1] = o[1] /\ h[2] <= o[2])
      p == x[first[1]].at
      q == y[first[2]].at
  IN IF hits = {} THEN {} ELSE {IF Len(p) >= Len(q) THEN p ELSE q}

OverlapOf(pair) == Overlap(content[pair[1]].atoms, content[pair[2]].atoms)

\* The changes of each side that the other has not, and the pairs of them that
\* do not commute, in the order of their hashes.
Common(a, b) == ancestors(graph, merge_bases_ordered(graph, a, b))
Delta(a, b) == ancestors(graph, a) \ Common(a, b)

conflicting(x, y) == x \in deps[y] \/ y \in deps[x] \/ ~commutes(content[x], content[y])

conflicting_pairs(a, b) == {<<x, y>> \in Delta(a, b) \X Delta(b, a) : conflicting(x, y)}

\* The view and the working directory after a merge, and what its caller writes
\* if it succeeds.
Adopt(g, c, v, hs, last) ==
  LET Shown(s) == <<[w |-> "wd", wd |-> write_state(s)]>> \o (IF write_state(s) = {} THEN <<>> ELSE last)
  IN <<[w |-> "view", view |-> v, heads |-> hs]>>
     \o FoldSet(LAMBDA s, acc : Shown(s), <<>>, materialize(g, c, hs))

CleanMerge(w, v, targets, last) ==
  /\ conflicting_pairs(heads[v], targets) = {}
  /\ NoChange
  /\ Begin(w, Adopt(graph, content, v, heads[v] \cup targets, last))

\* Mutant of ConflictFirst: the view is moved before the conflict is written.
ConflictLast(record, rest) == rest \o <<[w |-> "conflict", conflict |-> record]>>

ConflictFirst(record, rest) == <<[w |-> "conflict", conflict |-> record]>> \o rest

\* The conflict is written before anything can fail; a target that does not
\* replay and a pair without an overlapping path (two blobs) do fail.
ConflictMerge(w, v, targets, last) ==
  LET pairs == conflicting_pairs(heads[v], targets)
      record == [view |-> v, targets |-> targets, pairs |-> pairs]
      spots == UNION {OverlapOf(q) : q \in pairs}
      atoms == LET sorted == SelectSeq(Items \o <<BlobAt>>, LAMBDA p : p \in spots)
               IN [i \in DOMAIN sorted |-> Conflict(sorted[i], 0)]
      c == Human(atoms)
      d == heads[v] \cup targets
  IN /\ pairs # {}
     /\ IF Tree(targets) = {} \/ \E q \in pairs : OverlapOf(q) = {}
        THEN NoChange /\ Begin(w, ConflictFirst(record, <<>>))
        ELSE \E id \in Hashes(d, c) :
               /\ WithChange(id, d, c)
               /\ Begin(w, ConflictFirst(record, Adopt(graph', content', v, {id}, last)))

MergeView(w) ==
  \E target \in Views \ {at[w]} :
    /\ acquire_lock(w)
    /\ Clean(w)
    /\ CleanMerge(w, at[w], heads[target], <<>>) \/ ConflictMerge(w, at[w], heads[target], <<>>)
    /\ UNCHANGED <<heads, at, wd, conflict, pending, kills, discarded>>

-----------------------------------------------------------------------------
(* resolve_conflict, and approval.                                           *)

\* The answers go to the files, then pending.json is saved, then .arc/conflict
\* is removed.
Stage(p, writes) == writes \o <<[w |-> "pending", pending |-> p], [w |-> "unconflict"]>>

\* The answer for an item is written over its whole file.
Answered(s, answers) ==
  LET files == {p[2] : p \in DOMAIN answers}
      kept == {p \in DOMAIN s : p[2] \notin files}
  IN [p \in kept \cup DOMAIN answers |-> IF p \in kept THEN s[p] ELSE <<"bytes", answers[p]>>]

\* One answer for each pair; no lock is held while the resolver thinks.
Resolve(w) ==
  /\ conflict # None /\ pending = None
  /\ Tree(heads[conflict.view]) # {} /\ Tree(conflict.targets) # {}
  /\ \A q \in conflict.pairs : OverlapOf(q) # {}
  /\ LET spots == UNION {OverlapOf(q) : q \in conflict.pairs}
     IN \E answers \in [spots -> Bodies] :
          LET order == SelectSeq(Items \o <<BlobAt>>, LAMBDA p : p \in spots)
          IN Begin(w, Stage([kind |-> "resolve",
                             atoms |-> [i \in DOMAIN order |-> Insert(order[i], answers[order[i]])],
                             deps |-> heads[conflict.view] \cup conflict.targets],
                            FoldSet(LAMBDA s, acc : <<[w |-> "wd", wd |-> {Answered(s, answers)}]>>,
                                    <<>>, wd[w])))
  /\ NoChange /\ Unlocked
  /\ UNCHANGED <<heads, at, wd, conflict, pending, kills, discarded>>

\* arc generate: the code goes to its file, then pending.json is saved.
Generate(w) ==
  /\ pending = None /\ Cardinality(DOMAIN content) < MaxOwn
  /\ \E s \in wd[w], p \in ToSet(Items), b \in Bodies :
       /\ Conflicts(s) = {}
       /\ Begin(w, <<[w |-> "wd", wd |-> {Answered(s, [q \in {p} |-> b])}],
                    [w |-> "pending", pending |-> [kind |-> "generate", atoms |-> <<>>, deps |-> {}]]>>)
  /\ NoChange /\ Unlocked
  /\ UNCHANGED <<heads, at, wd, conflict, pending, kills, discarded>>

\* Mutant of Sponsor: the resolution is committed on its view's heads alone.
SponsorOnTop(w, d, atoms) ==
  LET c == [atoms |-> SelectSeq(atoms, LAMBDA a : FALSE), author |-> "ai"]
  IN \E id \in Hashes(d, c) :
       /\ WithChange(id, d, c)
       /\ Begin(w, <<[w |-> "view", view |-> at[w], heads |-> {id}], [w |-> "clear"]>>)

\* The change is committed in the AI's name, the view is moved to it, and last
\* the pending change is cleared.
Sponsor(w, d, atoms) ==
  LET c == [atoms |-> atoms, author |-> "ai"]
  IN \E id \in Hashes(d, c) :
       /\ WithChange(id, d, c)
       /\ Begin(w, <<[w |-> "view", view |-> at[w], heads |-> {id}], [w |-> "clear"]>>)

\* approve_pending_ai: a resolution as it was staged, whatever the view is now;
\* generated code through snap_ai, under the lock.
ApproveResolve(w) ==
  /\ pending # None /\ pending.kind = "resolve"
  /\ Sponsor(w, pending.deps, pending.atoms)
  /\ Unlocked
  /\ UNCHANGED <<heads, at, wd, conflict, pending, kills, discarded>>

ApproveGenerate(w) ==
  /\ pending # None /\ pending.kind = "generate"
  /\ acquire_lock(w)
  /\ \E s \in Tree(heads[at[w]]), t \in wd[w] :
       /\ Conflicts(s) = {} /\ Conflicts(t) = {} /\ delta(s, t) # <<>>
       /\ Sponsor(w, heads[at[w]], delta(s, t))
  /\ UNCHANGED <<heads, at, wd, conflict, pending, kills, discarded>>

\* The user deletes pending.json, as the message suggests.
Discard ==
  /\ pending # None
  /\ pending' = None
  /\ discarded' = TRUE
  /\ NoChange
  /\ UNCHANGED <<heads, at, wd, conflict, locked, todo, kills>>

-----------------------------------------------------------------------------
\* The next write of the command w runs; the process ends with the last.
Write(w) ==
  /\ todo[w] # <<>>
  /\ LET x == Head(todo[w]) IN
       /\ heads' = IF x.w = "view" THEN [heads EXCEPT ![x.view] = x.heads] ELSE heads
       /\ at' = IF x.w = "head" THEN [at EXCEPT ![w] = x.view] ELSE at
       /\ wd' = IF x.w = "wd" THEN [wd EXCEPT ![w] = x.wd] ELSE wd
       /\ conflict' = CASE x.w = "conflict" -> x.conflict [] x.w = "unconflict" -> None [] OTHER -> conflict
       /\ pending' = CASE x.w = "pending" -> x.pending [] x.w = "clear" -> None [] OTHER -> pending
  /\ todo' = [todo EXCEPT ![w] = Tail(@)]
  /\ locked' = IF Len(todo[w]) = 1 /\ locked = w THEN None ELSE locked
  /\ NoChange /\ UNCHANGED <<kills, discarded>>

Kill(w) ==
  /\ todo[w] # <<>> /\ kills < MaxKills
  /\ todo' = [todo EXCEPT ![w] = <<>>]
  /\ locked' = IF locked = w THEN None ELSE locked
  /\ kills' = kills + 1
  /\ NoChange /\ UNCHANGED <<heads, at, wd, conflict, pending, discarded>>

MergeNext ==
  \/ \E w \in Workspaces :
       \/ Snap(w) \/ Switch(w) \/ MergeView(w) \/ Resolve(w) \/ Generate(w)
       \/ ApproveResolve(w) \/ ApproveGenerate(w) \/ Write(w) \/ Kill(w)
  \/ Discard

MergeSpec == MergeInit /\ [][MergeNext]_mergeVars

-----------------------------------------------------------------------------
(* Properties.                                                               *)

\* While a view replays to a conflict, what it takes to resolve it is on disk:
\* in .arc/conflict, or in pending.json, unless the user has deleted that.
ConflictIsTracked ==
  \A v \in Views : \A s \in Tree(heads[v]) :
    Conflicts(s) # {} => conflict # None \/ pending # None \/ discarded

\* Between commands, a merge without conflicts would give, path by path, the side
\* that changed it: whatever the hashes, and so the order of the replay.
Overlay(base, ours, theirs) ==
  LET Says(s, p) == IF p \in DOMAIN s THEN {s[p]} ELSE {}
      Pick(p) == IF Says(ours, p) # Says(base, p) THEN Says(ours, p) ELSE Says(theirs, p)
      all == {p \in DOMAIN ours \cup DOMAIN theirs : Pick(p) # {}}
  IN [p \in all |-> CHOOSE t \in Pick(p) : TRUE]

CleanMergesOverlay ==
  \A a, b \in Views :
    /\ a # b /\ \A w \in Workspaces : todo[w] = <<>>
    /\ conflicting_pairs(heads[a], heads[b]) = {}
    => \A base \in Tree(merge_bases_ordered(graph, heads[a], heads[b])),
         ours \in Tree(heads[a]), theirs \in Tree(heads[b]) :
           Tree(heads[a] \cup heads[b]) = {Overlay(base, ours, theirs)}

\* Unless a command was killed, approving the resolution of a view that shows a
\* conflict leaves a view that replays, without conflicts, and has all it had.
ApprovalResolves ==
  [][\A w \in Workspaces :
       (/\ kills = 0 /\ pending # None /\ pending.kind = "resolve" /\ heads'[at[w]] # heads[at[w]]
        /\ \E s \in Tree(heads[at[w]]) : Conflicts(s) # {}) =>
         /\ heads[at[w]] \subseteq ancestors(graph, heads'[at[w]])
         /\ \E s \in Tree(heads'[at[w]]) : Conflicts(s) = {}]_mergeVars

\* Every view replays.
MergesReplay == \A v \in Views : Tree(heads[v]) # {}

\* Once a resolution is staged, the working directory has every item the sides
\* have in the file, as the resolution or as they have it.
ResolvedFilesAreWhole ==
  \A w \in Workspaces :
    (pending # None /\ pending.kind = "resolve" /\ todo[w] = <<>> /\ Tree(heads[at[w]]) # {}) =>
      \A s \in wd[w], t \in Tree(heads[at[w]]) : DOMAIN t \subseteq DOMAIN s
=============================================================================

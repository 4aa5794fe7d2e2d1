------------------------------ MODULE Worktree ------------------------------
(* Commands on the files of a workspace: stash and stash pop, cherry-pick,  *)
(* revert, restore and the sparse cone, beside the merges they call.  What   *)
(* the files show is edited in a step of its own, and may be under way when  *)
(* a command begins.  Every process hydrates the whole history; cherry_pick, *)
(* which hydrates its view alone, tells the two apart.                       *)
EXTENDS Merge

CONSTANTS
  Edits,        \* what a user may make of the files
  Cones,        \* sets of files a user narrows the workspace to
  FreshProcess, \* TRUE: every command is a process of its own
  MaxTurns      \* bound on the commands other than snap

VARIABLES
  cone,         \* workspace -> the files sparse.json lets through
  stashes,      \* .arc/views/.stash_N: N -> heads
  was,          \* history: workspace -> its last command, and what it found
  stashed,      \* history: what has ever been stashed
  turns         \* commands so far other than snap

workVars == <<mergeVars, cone, stashes, was, stashed, turns>>

-----------------------------------------------------------------------------
(* The files.                                                                *)

AllFiles == {p[2] : p \in ToSet(Items) \cup {BlobAt}}
Within(s, fs) == [p \in {p \in DOMAIN s : p[2] \in fs} |-> s[p]]
Raw(p) == Len(p) = 2

Over(s, t) == [p \in DOMAIN s \cup DOMAIN t |-> IF p \in DOMAIN s THEN s[p] ELSE t[p]]

\* write_state_to_working_dir over the files d: those outside the cone stay, and
\* so do the raw files that the state has not.
Projected(w, d, s) ==
  LET left == [p \in {p \in DOMAIN d : p[2] \notin cone[w] \/ Raw(p)} |-> d[p]]
  IN Over(Within(s, cone[w]), left)

Shown(w, s) == [w |-> "wd", wd |-> write_state(Within(s, cone[w]))]

\* check_working_dir_clean: the items on disk are those of the view, and every
\* file is there; what a raw file holds, and the cone, do not count.
check_working_dir_clean(w, s) ==
  /\ Conflicts(s) = {}
  /\ \E d \in wd[w] : ItemsIn(d) = ItemsIn(Within(s, Files(d))) /\ Files(s) \subseteq Files(d)

-----------------------------------------------------------------------------
WorkInit ==
  /\ MergeInit
  /\ cone = [w \in Workspaces |-> AllFiles]
  /\ stashes = Empty /\ stashed = {} /\ turns = 0
  /\ was = [w \in Workspaces |-> [command |-> "init"]]

Found(w, command, arg) ==
  /\ IF command = "snap" THEN UNCHANGED turns ELSE turns < MaxTurns /\ turns' = turns + 1
  /\ \E s \in Tree(heads[at[w]]) : was' =
       [was EXCEPT ![w] = [command |-> command, result |-> "ok", arg |-> arg, tree |-> s,
                           heads |-> heads[at[w]], disk |-> wd[w], cone |-> cone[w]]]

Idle == UNCHANGED <<heads, at, wd, conflict, pending, kills, discarded, cone, stashes, stashed>>

\* The user edits the files he sees.
EditFiles(w) ==
  /\ todo[w] = <<>>
  /\ \E t \in Edits, d \in wd[w] :
       wd' = [wd EXCEPT ![w] = {Over(Within(t, cone[w]), Within(d, AllFiles \ cone[w]))}]
  /\ was' = [was EXCEPT ![w] = [command |-> "edit"]]
  /\ NoChange /\ Unlocked
  /\ UNCHANGED <<heads, at, conflict, pending, todo, kills, discarded, cone, stashes, stashed, turns>>

\* compute_working_directory_delta: the cone hides files from it.
SnapDelta(w, s, d) == delta(Within(s, cone[w]), Within(d, cone[w]))

\* snap.
SnapFiles(w) ==
  /\ todo[w] = <<>> /\ locked = None /\ pending = None
  /\ Cardinality(DOMAIN content) < MaxOwn
  /\ \E s \in Tree(heads[at[w]]), d \in wd[w] :
       LET c == Human(SnapDelta(w, s, d))
       IN /\ Conflicts(s) \cup Conflicts(d) = {} /\ c.atoms # <<>>
          /\ \E id \in Hashes(heads[at[w]], c) :
               /\ WithChange(id, heads[at[w]], c)
               /\ heads' = [heads EXCEPT ![at[w]] = {id}]
  /\ Found(w, "snap", None)
  /\ UNCHANGED <<at, wd, conflict, pending, locked, todo, kills, discarded, cone, stashes, stashed>>

\* switch_view.
SwitchTo(w) ==
  \E v \in Views \ {at[w]} : \E s \in Tree(heads[at[w]]), t \in Tree(heads[v]) :
    /\ check_working_dir_clean(w, s)
    /\ Begin(w, <<Shown(w, t)>> \o (IF Shown(w, t).wd = {} THEN <<>> ELSE <<[w |-> "head", view |-> v]>>))
    /\ Found(w, "switch", v)
    /\ NoChange /\ Unlocked /\ Idle

-----------------------------------------------------------------------------
(* Stash.                                                                    *)

\* Mutant of Stashing: the files are reset before the stash is saved.
StashingLate(w, n, id, s) == <<Shown(w, s), [w |-> "stash", index |-> n, heads |-> {id}]>>

Stashing(w, n, id, s) == <<[w |-> "stash", index |-> n, heads |-> {id}], Shown(w, s)>>

\* stash: the items alone, those that the cone hides as if they were deleted;
\* no lock is held.  (A tree with a conflict is not stashed in this model.)
Stash(w) ==
  /\ todo[w] = <<>>
  /\ \E s \in Tree(heads[at[w]]), d \in wd[w] :
       LET c == Human(diff_atoms(ItemsIn(s), ItemsIn(d)))
           n == Max({0} \cup DOMAIN stashes) + 1
       IN /\ Conflicts(s) \cup Conflicts(d) = {} /\ c.atoms # <<>>
          /\ \E id \in Hashes(heads[at[w]], c) :
               /\ WithChange(id, heads[at[w]], c)
               /\ Begin(w, Stashing(w, n, id, s))
  /\ Found(w, "stash", None)
  /\ Unlocked /\ Idle

\* stash_pop: a merge of the last stash, which is then dropped; a merge with a
\* conflict is no error, and drops it too.
StashPop(w) ==
  /\ stashes # Empty
  /\ LET n == Max(DOMAIN stashes)
         drop == <<[w |-> "drop", index |-> n]>>
     IN /\ acquire_lock(w)
        /\ \E s \in Tree(heads[at[w]]) : check_working_dir_clean(w, s)
        /\ CleanMerge(w, at[w], stashes[n], drop) \/ ConflictMerge(w, at[w], stashes[n], drop)
        /\ Found(w, "pop", stashes[n])
        /\ Idle

-----------------------------------------------------------------------------
(* Cherry-pick and revert.                                                   *)

\* The view, then the files; a view that does not replay fails the command there.
Moved(w, g, c, hs) ==
  <<[w |-> "view", view |-> at[w], heads |-> hs]>>
  \o FoldSet(LAMBDA s, acc : <<Shown(w, s)>>, <<[w |-> "failed"]>>, materialize(g, c, hs))

\* The ancestors of the change, as far as the graph in memory goes.
PickedAncestors(x, view) ==
  IF FreshProcess /\ x \notin view THEN {x} ELSE ancestors(graph, {x})

Exclusive(w, x) ==
  LET view == ancestors(graph, heads[at[w]]) IN view \ PickedAncestors(x, view)

\* cherry_pick: the change itself joins the heads.
CherryPick(w) ==
  \E x \in DOMAIN content :
    /\ acquire_lock(w)
    /\ deps[x] \subseteq ancestors(graph, heads[at[w]])
    /\ \A e \in Exclusive(w, x) : ~conflicting(x, e)
    /\ NoChange
    /\ Begin(w, Moved(w, graph, content, heads[at[w]] \cup {x}))
    /\ Found(w, "pick", x)
    /\ Idle

\* What resolve_rev finds: @ and the names of views, ~N times the first parent.
Revisions ==
  LET Up[n \in 0..Cardinality(ChangeIds)] ==
        IF n = 0 THEN UNION {heads[v] : v \in {v \in Views : Cardinality(heads[v]) = 1}}
        ELSE {Min(deps[x]) : x \in {x \in Up[n - 1] : deps[x] # {}}}
  IN UNION {Up[n] : n \in 0..Cardinality(ChangeIds)}

\* revert: what takes the items after the change to those before it, on top of
\* the view; neither the lock nor a clean directory is asked for.
Revert(w) ==
  \E x \in Revisions : \E before \in Tree(deps[x]), after \in Tree({x}) :
    LET c == Human(diff_atoms(ItemsIn(after), ItemsIn(before)))
    IN /\ todo[w] = <<>> /\ c.atoms # <<>>
       /\ \E id \in Hashes(heads[at[w]], c) :
            /\ WithChange(id, heads[at[w]], c)
            /\ Begin(w, Moved(w, graph', content', {id}))
       /\ Found(w, "revert", x)
       /\ Unlocked /\ Idle

-----------------------------------------------------------------------------
(* Restore and sparse.                                                       *)

\* restore: one tracked file, in the cone or not.
Restore(w) ==
  \E s \in Tree(heads[at[w]]) : \E f \in Files(s) :
    /\ Conflicts(s) = {}
    /\ acquire_lock(w)
    /\ NoChange
    /\ Begin(w, <<[w |-> "file", file |-> f, wd |-> Within(s, {f})]>>)
    /\ Found(w, "restore", f)
    /\ Idle

\* apply_sparse: the tracked files outside go, sparse.json is saved, and the
\* files inside are written.
ApplySparse(w) ==
  \E s \in Tree(heads[at[w]]), fs \in Cones \cup {AllFiles} :
    /\ acquire_lock(w)
    /\ NoChange
    /\ Begin(w, (IF fs = AllFiles THEN <<>> ELSE <<[w |-> "hide", files |-> Files(s) \ fs]>>)
                \o <<[w |-> "cone", cone |-> fs], [w |-> "wd", wd |-> write_state(Within(s, fs))]>>)
    /\ Found(w, "sparse", fs)
    /\ Idle

-----------------------------------------------------------------------------
\* The next write of a command.
WorkWrite(w) ==
  /\ todo[w] # <<>>
  /\ LET x == Head(todo[w])
         d == IF wd[w] = {} THEN {<<>>} ELSE wd[w]
     IN /\ heads' = IF x.w = "view" THEN [heads EXCEPT ![x.view] = x.heads] ELSE heads
        /\ at' = IF x.w = "head" THEN [at EXCEPT ![w] = x.view] ELSE at
        /\ wd' = CASE x.w = "wd" -> [wd EXCEPT ![w] = {Projected(w, o, s) : o \in d, s \in x.wd}]
                   [] x.w = "hide" -> [wd EXCEPT ![w] = {Within(o, AllFiles \ x.files) : o \in d}]
                   [] x.w = "file" -> [wd EXCEPT ![w] = {Over(x.wd, Within(o, AllFiles \ {x.file})) : o \in d}]
                   [] OTHER -> wd
        /\ conflict' = IF x.w = "conflict" THEN x.conflict ELSE conflict
        /\ stashes' = CASE x.w = "stash" -> [n \in DOMAIN stashes \cup {x.index} |->
                                               IF n = x.index THEN x.heads ELSE stashes[n]]
                        [] x.w = "drop" -> [n \in DOMAIN stashes \ {x.index} |-> stashes[n]]
                        [] OTHER -> stashes
        /\ stashed' = IF x.w = "stash" THEN stashed \cup x.heads ELSE stashed
        /\ cone' = IF x.w = "cone" THEN [cone EXCEPT ![w] = x.cone] ELSE cone
        /\ was' = IF x.w = "failed" THEN [was EXCEPT ![w].result = "failed"] ELSE was
  /\ todo' = [todo EXCEPT ![w] = Tail(@)]
  /\ locked' = IF Len(todo[w]) = 1 /\ locked = w THEN None ELSE locked
  /\ NoChange /\ UNCHANGED <<pending, kills, discarded, turns>>

WorkKill(w) ==
  /\ Kill(w)
  /\ was' = [was EXCEPT ![w].result = "killed"]
  /\ UNCHANGED <<cone, stashes, stashed, turns>>

WorkNext ==
  \E w \in Workspaces :
    \/ EditFiles(w) \/ SnapFiles(w) \/ SwitchTo(w) \/ Stash(w) \/ StashPop(w)
    \/ CherryPick(w) \/ Revert(w) \/ Restore(w) \/ ApplySparse(w)
    \/ WorkWrite(w) \/ WorkKill(w)

WorkSpec == WorkInit /\ [][WorkNext]_workVars

-----------------------------------------------------------------------------
(* Properties.                                                               *)

Ended(w, command, result) == todo[w] = <<>> /\ was[w].command = command /\ was[w].result = result
Held(id) == \E n \in DOMAIN stashes : id \in stashes[n]

\* With the whole tree checked out, a stash that is killed anywhere has the
\* items as they were edited, on disk or in a stash.
StashKeepsItems(w) ==
  (was[w].command = "stash" /\ was[w].cone = AllFiles) =>
    \A d \in was[w].disk :
      \/ \E e \in wd[w] : ItemsIn(e) = ItemsIn(d)
      \/ \E n \in DOMAIN stashes : \E s \in Tree(stashes[n]) : ItemsIn(s) = ItemsIn(d)

\* A stash is there until a view has it.
StashesAreKept ==
  \A id \in stashed : Held(id) \/ \E v \in Views : id \in ancestors(graph, heads[v])

\* A pop without a conflict lays the stash over the items of the view.
PopOverlays(w) ==
  Ended(w, "pop", "ok") =>
    \A base \in Tree(merge_bases_ordered(graph, was[w].heads, was[w].arg)), theirs \in Tree(was[w].arg) :
      \A s \in Tree(heads[at[w]]) :
        Conflicts(s) = {} => s = Overlay(base, was[w].tree, theirs)

\* A pick applies the change to the tree of the view, and loses nothing else.
PickApplies(w) ==
  (Ended(w, "pick", "ok") /\ was[w].arg \notin ancestors(graph, was[w].heads)) =>
    Tree(heads[at[w]]) = apply_change(was[w].tree, content[was[w].arg])

\* Reverting the head of a view gives back the items before it.
RevertGivesBack(w) ==
  (Ended(w, "revert", "ok") /\ was[w].heads = {was[w].arg}) =>
    \A before \in Tree(deps[was[w].arg]), s \in Tree(heads[at[w]]) : ItemsIn(s) = ItemsIn(before)

\* The cone shows what it lets through as the view has it, and nothing else
\* that the view has; a snap leaves the rest of the view alone.
ConeHides(w) ==
  /\ Ended(w, "sparse", "ok") =>
       \A s \in Tree(heads[at[w]]), d \in wd[w] :
         /\ Conflicts(s) = {} => Within(d, Files(s) \cap cone[w]) = Within(s, cone[w])
         /\ cone[w] # AllFiles => Files(d) \cap Files(s) \subseteq cone[w]
  /\ Ended(w, "snap", "ok") =>
       \A s \in Tree(heads[at[w]]) :
         Within(s, AllFiles \ cone[w]) = Within(was[w].tree, AllFiles \ cone[w])

\* What the commands on the files promise of the work in them.
WorkIsKept ==
  /\ StashesAreKept
  /\ \A w \in Workspaces :
       StashKeepsItems(w) /\ PopOverlays(w) /\ PickApplies(w) /\ RevertGivesBack(w) /\ ConeHides(w)

\* core.rs:1724: a stash takes "all dirty working-directory changes", and, as
\* snapshot.rs:322 has it, nothing that the cone hides.
StashTakesTheDirectory ==
  \A w \in Workspaces :
    Ended(w, "stash", "ok") =>
      \A d \in was[w].disk : \E n \in DOMAIN stashes : \E s \in Tree(stashes[n]) :
        s = Over(d, Within(was[w].tree, AllFiles \ was[w].cone))
=============================================================================

----------------------------- MODULE GitImport -----------------------------
(* arc import git: the commits that HEAD reaches are walked, diffed against  *)
(* their first parents and written as changes; last, the branches become     *)
(* views.  Meanwhile git may move its branches, and the process may be       *)
(* killed; the next import starts again.  Only .rs files are imported.  A    *)
(* snapshot is [items, broken]: the items of the files that parse, and the   *)
(* files that do not.                                                        *)
EXTENDS Algebra, Graph

CONSTANTS
  GitRepos,     \* histories: [parents, snapshot], by commit
  Branches,     \* names of branches; HEAD is on "main"
  NoImport,     \* no process
  MaxGitMoves,  \* bound on the moves of branches
  MaxImports    \* bound on the imports started

VARIABLES
  git,          \* the history
  refs,         \* branch -> commit
  importing,    \* the process: [walk, oid_to_arc, branches], or NoImport
  imported,     \* the object store: change -> [commit, deps, atoms]
  gitViews,     \* branch -> the heads of its view, {} before it has one
  gitMoves, imports

gitVars == <<graphVars, git, refs, importing, imported, gitViews, gitMoves, imports>>

parents(c) == git.parents[c]

-----------------------------------------------------------------------------
\* A commit is taken from the queue; if it is new, its parents join the queue.
Visit(s) ==
  LET c == s.queue[1]
  IN IF c \in ToSet(s.order) THEN [s EXCEPT !.queue = Tail(@)]
     ELSE [queue |-> Tail(s.queue) \o parents(c), order |-> Append(s.order, c)]

VisitedFrom(head) ==
  LET pops == 1 + FoldFunctionOnSet(+, 0, [c \in DOMAIN git.parents |-> Len(parents(c))], DOMAIN git.parents)
      Bfs[n \in 0..pops] ==
        IF n = 0 THEN [queue |-> <<head>>, order |-> <<>>]
        ELSE IF Bfs[n - 1].queue = <<>> THEN Bfs[n - 1] ELSE Visit(Bfs[n - 1])
  IN Bfs[pops].order

\* Mutant: the commits are left as the walk finds them, the newest first.
collect_commits_newest(head) == VisitedFrom(head)

\* The commits in the opposite of the order in which they were reached; with the
\* commit-graph or without it.
collect_commits(head) == Reverse(VisitedFrom(head))

-----------------------------------------------------------------------------
\* The snapshot a commit is compared with: its first parent's, if that has been
\* imported in this run.
Before(c, done) ==
  IF parents(c) # <<>> /\ parents(c)[1] \in DOMAIN done THEN git.snapshot[parents(c)[1]]
  ELSE [items |-> Empty, broken |-> {}]

\* A file that does not parse in one of the two snapshots is left out.
import_atoms(old, new) ==
  SelectSeq(diff_atoms(old.items, new.items), LAMBDA a : a.at[2] \notin old.broken \cup new.broken)

\* The hash of a change: the one it has, or the least or the greatest not in use.
IdsOf(x) ==
  LET known == {i \in DOMAIN imported : imported[i] = x}
      free == ChangeIds \ DOMAIN imported
  IN IF known # {} THEN known ELSE {Min(free), Max(free)}

-----------------------------------------------------------------------------
GitInit ==
  /\ git \in GitRepos
  /\ refs \in [Branches -> DOMAIN git.parents]
  /\ importing = NoImport /\ imported = Empty
  /\ gitViews = [b \in Branches |-> {}]
  /\ gitMoves = 0 /\ imports = 0
  /\ GraphInit

\* git commits, or resets a branch.
MoveBranch ==
  /\ gitMoves < MaxGitMoves
  /\ \E b \in Branches, c \in DOMAIN git.parents : c # refs[b] /\ refs' = [refs EXCEPT ![b] = c]
  /\ gitMoves' = gitMoves + 1
  /\ UNCHANGED <<graphVars, git, importing, imported, gitViews, imports>>

\* analyze_git_repo reads HEAD once.
StartImport ==
  /\ importing = NoImport /\ graph = NoGraph /\ imports < MaxImports
  /\ importing' = [walk |-> collect_commits(refs["main"]), oid_to_arc |-> Empty, branches |-> {}]
  /\ imports' = imports + 1
  /\ UNCHANGED <<graphVars, git, refs, imported, gitViews, gitMoves>>

ImportCommit ==
  /\ importing # NoImport /\ importing.walk # <<>>
  /\ LET c == importing.walk[1]
         done == importing.oid_to_arc
         d == {done[p] : p \in ToSet(parents(c)) \cap DOMAIN done}
         x == [commit |-> c, deps |-> d, atoms |-> import_atoms(Before(c, done), git.snapshot[c])]
     IN \E id \in IdsOf(x) :
          /\ imported' = [i \in DOMAIN imported \cup {id} |-> IF i = id THEN x ELSE imported[i]]
          /\ graph' = apply_insert(graph, id, d)
          /\ deps' = [i \in DOMAIN deps \cup {id} |-> IF i = id THEN d ELSE deps[i]]
          /\ importing' = [importing EXCEPT !.walk = Tail(@),
                             !.oid_to_arc = [p \in DOMAIN done \cup {c} |-> IF p = c THEN id ELSE done[p]]]
  /\ UNCHANGED <<git, refs, gitViews, gitMoves, imports>>

\* list_branch_heads reads the branches after the last commit; a branch whose
\* commit has not been imported is passed over.
ListBranches ==
  /\ importing # NoImport /\ importing.walk = <<>> /\ importing.branches = {}
  /\ LET done == importing.oid_to_arc
         found == {<<b, done[refs[b]]>> : b \in {b \in Branches : refs[b] \in DOMAIN done}}
     IN importing' = IF found = {} THEN NoImport ELSE [importing EXCEPT !.branches = found]
  /\ UNCHANGED <<graphVars, git, refs, imported, gitViews, gitMoves, imports>>

\* The view of a branch is replaced, whatever it was; the process ends with the
\* last.
SaveBranchView ==
  /\ importing # NoImport
  /\ \E x \in importing.branches :
       /\ gitViews' = [gitViews EXCEPT ![x[1]] = {x[2]}]
       /\ importing' = IF importing.branches = {x} THEN NoImport ELSE [importing EXCEPT !.branches = @ \ {x}]
  /\ UNCHANGED <<graphVars, git, refs, imported, gitMoves, imports>>

\* What is in memory is gone, at the end or before it.
ImportExits ==
  /\ importing # NoImport \/ graph # NoGraph
  /\ importing' = NoImport
  /\ graph' = NoGraph /\ deps' = Empty
  /\ UNCHANGED <<git, refs, imported, gitViews, gitMoves, imports>>

GitNext ==
  \/ MoveBranch \/ StartImport \/ ImportCommit \/ ListBranches \/ SaveBranchView \/ ImportExits

-----------------------------------------------------------------------------
(* Properties.                                                               *)

GitHistory(c) == ToSet(VisitedFrom(c))
Straight(cs) == \A c \in cs : Len(parents(c)) <= 1

\* The tree of a view, from the store alone.
TreeOf(hs) ==
  LET g == FoldSet(LAMBDA i, acc : apply_insert(acc, i, imported[i].deps), NoGraph, DOMAIN imported)
      order == topological_sort(g, hs)
  IN Replay(<<>>, [i \in DOMAIN order |-> Human(imported[order[i]].atoms)])

\* A view replays to the snapshot of its commit if no ancestor of that merges or
\* fails to parse, wherever HEAD was, and whatever was killed or moved since; and
\* if nothing HEAD reached merges, the changes have their commits' ancestors.
ImportIsFaithful ==
  /\ \A b \in Branches : \A id \in gitViews[b] :
       LET c == imported[id].commit
       IN (Straight(GitHistory(c)) /\ \A p \in GitHistory(c) : git.snapshot[p].broken = {}) =>
            \E s \in TreeOf({id}) : ItemsIn(s) = git.snapshot[c].items
  /\ (importing # NoImport /\ Straight(DOMAIN importing.oid_to_arc \cup ToSet(importing.walk))) =>
       LET done == importing.oid_to_arc
       IN \A c \in DOMAIN done : {imported[i].commit : i \in ancestors(graph, {done[c]})} = GitHistory(c)

\* The walk gives parents before their children.  The code does not: a commit
\* that is nearer to HEAD than its child comes after it.
ParentsFirst ==
  importing # NoImport =>
    LET w == importing.walk IN \A i, j \in DOMAIN w : w[i] \in ToSet(parents(w[j])) => i < j
=============================================================================

------------------------------ MODULE Algebra ------------------------------
(* The patch algebra: atoms, what a change does to a materialized state,    *)
(* when two changes commute, the inverse of a change, and the difference of *)
(* two versions of a file.  A state maps node paths to tokens <<kind, hash>>;*)
(* hashes are numbers.  A partial result is a set: {} for an error, {x} for  *)
(* x.                                                                        *)
EXTENDS Naturals, FiniteSets, SequencesExt

CONSTANTS
  Items,        \* the node paths of the items of a file, in their order
  Restricted    \* the files .agentignore closes to AI authors

-----------------------------------------------------------------------------
(* Atoms.                                                                    *)

Insert(at, h) == [op |-> "insert", at |-> at, hash |-> h]
Delete(at, h) == [op |-> "delete", at |-> at, hash |-> h]
Move(from, to) == [op |-> "move", at |-> from, to |-> to]
SemanticsPreserving(at) == [op |-> "formatting", at |-> at]
Directory(at) == [op |-> "directory", at |-> at]
Blob(file, h) == [op |-> "blob", file |-> file, hash |-> h]
Mount(at, h) == [op |-> "mount", at |-> at, hash |-> h]
Conflict(at, h) == [op |-> "conflict", at |-> at, hash |-> h]

\* Atom::paths: a blob has none.
paths(a) == CASE a.op = "blob" -> {} [] a.op = "move" -> {a.at, a.to} [] OTHER -> {a.at}

Kind(a) == CASE a.op = "insert" -> "bytes" [] a.op = "directory" -> "empty" [] OTHER -> a.op
Target(a) == IF a.op = "blob" THEN <<"file", a.file>> ELSE a.at
Token(a) == <<Kind(a), IF a.op = "directory" THEN 0 ELSE a.hash>>

Put(s, at, t) == [p \in DOMAIN s \cup {at} |-> IF p = at THEN t ELSE s[p]]
Drop(s, at) == [p \in DOMAIN s \ {at} |-> s[p]]

-----------------------------------------------------------------------------
(* apply_change.                                                             *)

\* .agentignore, and the file itself, are closed to AI authors.
agent_ignored(a) ==
  \E p \in paths(a) : Len(p) >= 2 /\ p[1] \in {"file", "dir"} /\ p[2] \in Restricted \cup {".agentignore"}

apply_atom(s, a) ==
  CASE a.op \in {"insert", "blob", "mount", "conflict"} -> {Put(s, Target(a), Token(a))}
    [] a.op = "directory" -> {IF a.at \in DOMAIN s THEN s ELSE Put(s, a.at, Token(a))}
    [] a.op = "delete" -> IF a.at \in DOMAIN s THEN {Drop(s, a.at)} ELSE {}
    [] OTHER -> {}

\* The change is applied atom by atom, or not at all.
apply_change(s, c) ==
  FoldLeft(LAMBDA acc, a : IF c.author = "ai" /\ agent_ignored(a) THEN {}
                           ELSE UNION {apply_atom(x, a) : x \in acc},
           {s}, c.atoms)

Replay(s, changes) ==
  FoldLeft(LAMBDA acc, c : UNION {apply_change(x, c) : x \in acc}, {s}, changes)

-----------------------------------------------------------------------------
(* commutes and commute_pair, for changes with no dependency on each other.  *)

Prefix(p, q) == IsPrefix(p, q)

\* Mutant: a path is above another only if it is shorter.
paths_overlap_strict(p, q) == p # q /\ (Prefix(p, q) \/ Prefix(q, p))

paths_overlap(p, q) == Prefix(p, q) \/ Prefix(q, p)

\* The file an atom other than a blob belongs to.
file_path_for_atom(a) ==
  IF a.op # "blob" /\ Len(a.at) >= 2 /\ a.at[1] = "file" THEN {a.at[2]} ELSE {}

blob_conflicts(a, b) ==
  \/ a.op = "blob" /\ b.op = "blob" /\ a.file = b.file /\ a.hash # b.hash
  \/ a.op = "blob" /\ a.file \in file_path_for_atom(b)
  \/ b.op = "blob" /\ b.file \in file_path_for_atom(a)

\* Moves are left to the rewriting of paths.
atoms_disjoint(x, y) ==
  \A a \in {a \in ToSet(x) : a.op # "move"}, b \in {b \in ToSet(y) : b.op # "move"} :
    /\ ~blob_conflicts(a, b)
    /\ \A p \in paths(a), q \in paths(b) : ~paths_overlap(p, q)

ghost_conflict(x, y) ==
  \E a \in ToSet(x), b \in ToSet(y) : {a.op, b.op} = {"insert", "delete"} /\ a.at = b.at

commutes(c, d) == atoms_disjoint(c.atoms, d.atoms)

\* The first move whose source is above the path takes it along.
Rewritten(p, moves) ==
  LET hits == SelectSeq(moves, LAMBDA m : Prefix(m.at, p))
  IN IF hits = <<>> THEN p ELSE hits[1].to \o SubSeq(p, Len(hits[1].at) + 1, Len(p))

rewrite_atom_paths(a, moves) ==
  CASE a.op \in {"insert", "delete", "formatting"} -> [a EXCEPT !.at = Rewritten(@, moves)]
    [] a.op = "move" -> [a EXCEPT !.at = Rewritten(@, moves), !.to = Rewritten(@, moves)]
    [] OTHER -> a

rewrite_paths_through_moves(x, y) ==
  LET moves == SelectSeq(y, LAMBDA a : a.op = "move")
  IN [i \in DOMAIN x |-> rewrite_atom_paths(x[i], moves)]

\* The pair that comes in the other order, signed by whoever commutes it.
commute_pair(c, d) ==
  IF ~atoms_disjoint(c.atoms, d.atoms) \/ ghost_conflict(c.atoms, d.atoms) THEN {}
  ELSE {<<[d EXCEPT !.atoms = rewrite_paths_through_moves(@, c.atoms)],
          [c EXCEPT !.atoms = rewrite_paths_through_moves(@, d.atoms)]>>}

-----------------------------------------------------------------------------
(* The inverse.                                                              *)

invert_atom(a) ==
  CASE a.op = "insert" -> {Delete(a.at, a.hash)}
    [] a.op = "delete" -> {Insert(a.at, a.hash)}
    [] a.op = "move" -> {Move(a.to, a.at)}
    [] OTHER -> {}

\* The atoms inverted, last first; one that has no inverse fails the change.
invert_change(c) ==
  FoldLeft(LAMBDA acc, a : {<<i>> \o x : x \in acc, i \in invert_atom(a)}, {<<>>}, c.atoms)

-----------------------------------------------------------------------------
(* The difference of two item maps.                                          *)

diff_item(old, new, p) ==
  (IF p \in DOMAIN old /\ (p \notin DOMAIN new \/ old[p] # new[p]) THEN <<Delete(p, old[p])>> ELSE <<>>)
  \o (IF p \in DOMAIN new /\ (p \notin DOMAIN old \/ old[p] # new[p]) THEN <<Insert(p, new[p])>> ELSE <<>>)

\* The atoms sorted by path; a deletion and the insertion at its path stay in
\* that order, for the sort is stable.
diff_atoms(old, new) ==
  LET changed == SelectSeq(Items, LAMBDA p : p \in DOMAIN old \cup DOMAIN new)
  IN FoldLeft(LAMBDA acc, p : acc \o diff_item(old, new, p), <<>>, changed)

\* compute_working_directory_delta between two trees: the items, and the file
\* that has none.
ItemsIn(s) == [p \in {p \in DOMAIN s : s[p][1] = "bytes"} |-> s[p][2]]
tree_delta(s, t, file) ==
  LET at == <<"file", file>>
  IN diff_atoms(ItemsIn(s), ItemsIn(t))
     \o (IF at \in DOMAIN t /\ (at \notin DOMAIN s \/ s[at] # t[at]) THEN <<Blob(file, t[at][2])>> ELSE <<>>)
     \o (IF at \in DOMAIN s \ DOMAIN t THEN <<Delete(at, s[at][2])>> ELSE <<>>)

AsState(m) == [p \in DOMAIN m |-> <<"bytes", m[p]>>]
Human(atoms) == [atoms |-> atoms, author |-> "human"]
=============================================================================

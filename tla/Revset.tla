------------------------------- MODULE Revset -------------------------------
(* Revsets: `arc log -r <expression>` hydrates what the expression names    *)
(* into an empty graph, evaluates the expression over that graph, and sorts *)
(* what it selects.  A repository is chosen once; the module compares the   *)
(* evaluation with the one over the whole history.                          *)
EXTENDS Graph

CONSTANTS
  RevsetRepos,   \* the repositories
  Touching,      \* the changes that touch the path given to touched()
  NoRepo

VARIABLE arc     \* NoRepo, or the repository a command opens: [deps: id -> ids, views: name -> heads, refs: kind -> ids, names: kind -> names]

RefFunctions == {"tags", "remote_branches", "bookmarks"}

-----------------------------------------------------------------------------
(* Expressions.                                                              *)

Symbol(s) == [op |-> "symbol", name |-> s]           \* "@" or the name of a view
Hex(id) == [op |-> "hex", id |-> id]
Call0(f) == [op |-> f]
Touched == [op |-> "touched"]
Ancestors(e) == [op |-> "ancestors", arg |-> e]
Call2(f, l, r) == [op |-> f, left |-> l, right |-> r]  \* range, symmetric, merge_base, |, &

Args(e) == IF "arg" \in DOMAIN e THEN {e.arg}
           ELSE IF "left" \in DOMAIN e THEN {e.left, e.right} ELSE {}

\* An expression and everything in it; the deepest here is the Neighborhood.
Parts(e) ==
  LET Deep[n \in 0..6] ==
        IF n = 0 THEN {e} ELSE LET s == Deep[n - 1] IN s \cup UNION {Args(x) : x \in s}
  IN Deep[6]

constrain_touched_to_current_view(e) ==
  IF Touched \in Parts(e) THEN Call2("&", e, Ancestors(Symbol("@"))) ELSE e

-----------------------------------------------------------------------------
(* Names.  A partial result is a set: {} for an error, {x} for x.            *)

\* The sole head of a view.
resolve_symbol(s) ==
  IF s \in DOMAIN arc.views /\ Cardinality(arc.views[s]) = 1 THEN {arc.views[s]} ELSE {}

resolve_reference_heads(f) == arc.refs[f]

-----------------------------------------------------------------------------
(* Hydration.                                                                *)

\* The history below a set of heads, all of it on disk.
Below(heads) ==
  LET Level[n \in 0..Cardinality(ChangeIds)] ==
        IF n = 0 THEN heads
        ELSE LET s == Level[n - 1] IN s \cup UNION {arc.deps[x] : x \in s}
  IN Level[Cardinality(ChangeIds)]

GraphOn(nodes) == FoldSet(LAMBDA x, g : apply_insert(g, x, arc.deps[x]), NoGraph, nodes)

\* What prepare_revset hydrates for one node of the expression: the heads of a
\* view, however many; a full hash; the targets of the references.
hydrated_by(e) ==
  CASE e.op = "symbol" -> IF e.name \in DOMAIN arc.views THEN arc.views[e.name] ELSE {}
    [] e.op = "hex" -> {e.id}
    [] e.op \in RefFunctions -> resolve_reference_heads(e.op)
    [] OTHER -> {}

\* A hash that is not in the store is an error before anything is evaluated.
prepare_revset(e) ==
  LET heads == UNION {hydrated_by(x) : x \in Parts(e)}
  IN IF heads \subseteq DOMAIN arc.deps THEN {GraphOn(Below(heads))} ELSE {}

-----------------------------------------------------------------------------
(* Evaluation.                                                               *)

range(g, from, to) == ancestors(g, to) \ ancestors(g, from)

symmetric(g, l, r) == (ancestors(g, l) \ ancestors(g, r)) \cup (ancestors(g, r) \ ancestors(g, l))

\* The first of the merge bases in the order of the hashes.
merge_base_deterministic(g, l, r) ==
  {x \in merge_bases_ordered(g, l, r) : \A y \in merge_bases_ordered(g, l, r) : x <= y}

\* compile_impl_change_ids: an error in a part is an error of the whole.
Evaluate(g, e) ==
  LET Value[x \in Parts(e)] ==
        CASE x.op = "symbol" -> resolve_symbol(x.name)
          [] x.op = "hex" -> IF x.id \in g.nodes THEN {{x.id}} ELSE {}
          [] x.op \in RefFunctions -> {resolve_reference_heads(x.op)}
          [] x.op = "touched" -> {g.nodes \cap Touching}
          [] x.op = "ancestors" -> {ancestors(g, s) : s \in Value[x.arg]}
          [] x.op = "|" -> {s \cup t : s \in Value[x.left], t \in Value[x.right]}
          [] x.op = "&" -> {s \cap t : s \in Value[x.left], t \in Value[x.right]}
          [] x.op = "range" -> {range(g, s, t) : s \in Value[x.left], t \in Value[x.right]}
          [] x.op = "symmetric" -> {symmetric(g, s, t) : s \in Value[x.left], t \in Value[x.right]}
          [] x.op = "merge_base" ->
               {merge_base_deterministic(g, s, t) : s \in Value[x.left], t \in Value[x.right]}
  IN Value[e]

resolve_revset_ids(expr) ==
  LET e == constrain_touched_to_current_view(expr)
  IN UNION {Evaluate(g, e) : g \in prepare_revset(e)}

\* log_revset: newest first.
log_revset(expr) ==
  LET e == constrain_touched_to_current_view(expr)
  IN UNION {{Reverse(topological_sort_ids(g, s)) : s \in Evaluate(g, e)} : g \in prepare_revset(e)}

\* The whole ancestry of the current view, whatever the number of its heads.
log == Reverse(topological_sort(GraphOn(Below(arc.views["@"])), arc.views["@"]))

\* @ | range(refs, @) | merge_base(refs, @), for each kind of reference.
Neighborhood ==
  LET at == Symbol("@")
      Either(l, r) == Call2("|", l, r)
      ranges == Either(Either(Call2("range", Call0("remote_branches"), at),
                              Call2("range", Call0("bookmarks"), at)),
                       Call2("range", Call0("tags"), at))
      bases == Either(Either(Call2("merge_base", Call0("remote_branches"), at),
                             Call2("merge_base", Call0("bookmarks"), at)),
                      Call2("merge_base", Call0("tags"), at))
  IN Either(at, Either(ranges, bases))

log_smartlog ==
  IF \A f \in RefFunctions : resolve_reference_heads(f) = {} THEN {log} ELSE log_revset(Neighborhood)

-----------------------------------------------------------------------------
(* resolve_rev: the revisions given to every other command.                  *)

\* The n-th ancestor by the first dependency, an error at a change without one.
Ancestor(id, n) ==
  LET At0[i \in 0..n] ==
        IF i = 0 THEN {id}
        ELSE LET p == At0[i - 1]
             IN UNION {{d \in arc.deps[x] : \A y \in arc.deps[x] : d <= y} : x \in p}
  IN At0[n]

\* A hash is written with two digits, and objects are sharded: .arc/store has
\* an entry for the first digit, with an entry for the second in it.
HexDigits(id) == <<id % 2, id \div 2>>
store_entries == {<<HexDigits(x)[1]>> : x \in DOMAIN arc.deps}
unhex(name) == {x \in DOMAIN arc.deps : HexDigits(x) = name}

\* A revision is [name |-> a name or "", digits |-> of a hash, n |-> steps].
\* HexDigits are looked up among the entries of .arc/store that are themselves
\* the name of a hash.
resolve_rev(q) ==
  LET view == IF q.name = "HEAD" THEN "@" ELSE q.name
      heads == IF view \in DOMAIN arc.views THEN arc.views[view]
               ELSE UNION {unhex(e) : e \in {e \in store_entries : IsPrefix(q.digits, e)}}
  IN IF Cardinality(heads) = 1 THEN UNION {Ancestor(h, q.n) : h \in heads} ELSE {}

-----------------------------------------------------------------------------
RevsetInit == arc = NoRepo

Open == arc = NoRepo /\ arc' \in RevsetRepos

Atoms == {Symbol("@"), Symbol("v"), Hex(1), Hex(9), Call0("tags"), Call0("bookmarks")}

\* touched() as a filter.  As the argument of a function it would mean the
\* changes among those that the rest of the expression hydrates.
Expressions ==
  LET two == {Call2(f, l, r) : f \in {"range", "symmetric", "merge_base"},
                               l \in Atoms \ {Hex(9)}, r \in {Symbol("@"), Call0("tags")}}
      once == {Ancestors(e) : e \in Atoms} \cup two
  IN Atoms \cup once \cup {Touched}
     \cup {Call2("&", e, Touched) : e \in Atoms \cup once}
     \cup {Call2("|", e, Ancestors(Symbol("v"))) : e \in two \cup {Touched}}

History == GraphOn(DOMAIN arc.deps)

-----------------------------------------------------------------------------
(* Properties.                                                               *)

\* prepare_revset hydrates enough: an expression selects what it would select
\* over the whole history, though the graph holds only what its names reach,
\* and fails only if it names something that does not exist.
RevsetComplete ==
  \A e \in Expressions :
    /\ resolve_revset_ids(e) = Evaluate(History, constrain_touched_to_current_view(e))
    /\ resolve_revset_ids(e) = {} =>
         \E x \in Parts(constrain_touched_to_current_view(e)) :
           \/ x = Hex(9)
           \/ x.op = "symbol" /\ (x.name \in DOMAIN arc.views => Cardinality(arc.views[x.name]) # 1)

\* `arc log -r` lists what is selected once, a child before its parents.
LogNewestFirst ==
  \A e \in Expressions : \A order \in log_revset(e) : \A i, j \in DOMAIN order :
    /\ i # j => order[i] # order[j]
    /\ order[i] \in ancestors(History, arc.deps[order[j]]) => j < i

\* The smartlog shows the current head, and below it only its ancestors: every
\* one that no reference of some kind has.
SmartlogShowsHead ==
  \A order \in log_smartlog :
    LET shown == {order[i] : i \in DOMAIN order}
        above == ancestors(History, arc.views["@"])
    IN /\ arc.views["@"] \subseteq shown /\ shown \subseteq above
       /\ \A f \in RefFunctions : above \ ancestors(History, arc.refs[f]) \subseteq shown

\* A revision "HEAD~n" or "v~n" is n steps of dependency from the one head of
\* the view, and an ambiguous or too long one is no change at all.
RevisionsWalk ==
  \A s \in DOMAIN arc.views, n \in 0..3 :
    LET Rev(k) == resolve_rev([name |-> s, digits |-> <<>>, n |-> k])
    IN IF n = 0 \/ Cardinality(arc.views[s]) # 1
       THEN Rev(n) = IF Cardinality(arc.views[s]) = 1 THEN arc.views[s] ELSE {}
       ELSE /\ Rev(n) \subseteq UNION {arc.deps[y] : y \in Rev(n - 1)}
            /\ Rev(n) = {} => \A y \in Rev(n - 1) : arc.deps[y] = {}

\* Every query of the history answers as it would over the whole of it.
HistoryQueries ==
  arc # NoRepo => RevsetComplete /\ LogNewestFirst /\ SmartlogShowsHead /\ RevisionsWalk

\* The doc of resolve_rev, core.rs:4704: a "Unique prefix of a CAS object hash"
\* is a revision.
HashesResolve ==
  arc # NoRepo => \A x \in DOMAIN arc.deps, k \in 1..2 :
    LET prefix == SubSeq(HexDigits(x), 1, k)
    IN (\A y \in DOMAIN arc.deps \ {x} : ~IsPrefix(prefix, HexDigits(y))) =>
         resolve_rev([name |-> "", digits |-> prefix, n |-> 0]) = {x}
=============================================================================

------------------------------- MODULE Graph -------------------------------
(* ChangeGraph: changes arrive in any order, a child perhaps before its     *)
(* parent, and the traversals run over what has arrived.  The queries are   *)
(* operators over a graph [nodes, ghosts, edges, rev]; ids are numbers, and *)
(* their order is the order of the hashes, not of the history.              *)
EXTENDS Naturals, FiniteSets, SequencesExt

CONSTANTS
  ChangeIds,    \* the hashes
  Ghosts        \* the changes that are ghosts

VARIABLES
  graph,        \* the graph
  deps          \* what the changes that have arrived depend on

graphVars == <<graph, deps>>

Empty == [x \in {} |-> {}]
NoGraph == [nodes |-> {}, ghosts |-> {}, edges |-> Empty, rev |-> Empty]

At(f, x) == IF x \in DOMAIN f THEN f[x] ELSE {}

apply_insert(g, id, d) ==
  [nodes |-> g.nodes \cup {id},
   ghosts |-> g.ghosts \cup ({id} \cap Ghosts),
   edges |-> [x \in DOMAIN g.edges \cup {id} |-> IF x = id THEN d ELSE g.edges[x]],
   rev |-> [x \in DOMAIN g.rev \cup d \cup {id} |-> At(g.rev, x) \cup (IF x \in d THEN {id} ELSE {})]]

\* ancestors_inclusive: with a dependency that has not arrived, and no further.
ancestors(g, heads) ==
  LET Level[n \in 0..Cardinality(ChangeIds)] ==
        IF n = 0 THEN heads
        ELSE LET seen == Level[n - 1] IN seen \cup UNION {At(g.edges, x) : x \in seen}
  IN Level[Cardinality(ChangeIds)]

parent_ids(g, id) == At(g.edges, id)
child_ids(g, id) == At(g.rev, id)

tip_ids(g) == {x \in g.nodes \ g.ghosts : child_ids(g, x) \subseteq g.ghosts}

\* A set of ids in the order of their hashes.
ById(s) == SetToSortSeq(s, <)

\* One turn of Kahn's loop: the front of the queue is output, and its children
\* with no other parent left join the queue in the order of their hashes.
kahn(g, reachable, s) ==
  LET id == s.queue[1]
      deg == [x \in reachable |-> s.deg[x] - (IF x \in child_ids(g, id) THEN 1 ELSE 0)]
      ready == {c \in child_ids(g, id) \cap reachable : deg[c] = 0}
  IN [queue |-> Tail(s.queue) \o ById(ready), deg |-> deg, order |-> Append(s.order, id)]

topological_sort(g, heads) ==
  LET reachable == ancestors(g, heads)
      degree == [x \in reachable |-> Cardinality(parent_ids(g, x) \cap reachable)]
      Turn[n \in 0..Cardinality(ChangeIds)] ==
        IF n = 0 THEN [queue |-> ById({x \in reachable : degree[x] = 0}),
                       deg |-> degree, order |-> <<>>]
        ELSE LET s == Turn[n - 1] IN IF s.queue = <<>> THEN s ELSE kahn(g, reachable, s)
  IN Turn[Cardinality(ChangeIds)].order

topological_sort_ids(g, selected) ==
  SelectSeq(topological_sort(g, selected), LAMBDA x : x \in selected)

\* Mutant: a common ancestor is dropped only for a grandchild.
merge_bases_near(g, a, b) ==
  LET common == ancestors(g, a) \cap ancestors(g, b)
  IN {x \in common : \A c \in child_ids(g, x) : child_ids(g, c) \cap common = {}}

merge_bases_ordered(g, a, b) ==
  LET common == ancestors(g, a) \cap ancestors(g, b)
  IN {x \in common : child_ids(g, x) \cap common = {}}

-----------------------------------------------------------------------------
GraphInit == graph = NoGraph /\ deps = Empty

\* A change names its dependencies by their hashes: there are no cycles.
Acyclic(d) ==
  LET Roots[n \in 0..Cardinality(ChangeIds)] ==
        IF n = 0 THEN ChangeIds \ DOMAIN d
        ELSE LET r == Roots[n - 1] IN r \cup {x \in DOMAIN d : d[x] \subseteq r}
  IN Roots[Cardinality(ChangeIds)] = ChangeIds

AddChange ==
  \E id \in ChangeIds \ DOMAIN deps, d \in SUBSET ChangeIds :
    LET next == [x \in DOMAIN deps \cup {id} |-> IF x = id THEN d ELSE deps[x]]
    IN /\ Acyclic(next)
       /\ deps' = next
       /\ graph' = apply_insert(graph, id, d)

-----------------------------------------------------------------------------
(* Properties.                                                               *)

\* The strict ancestors of a change among those that have arrived.
Above(x) == UNION {ancestors(graph, {d}) : d \in At(deps, x)}

\* topological_sort lists every change reachable from the heads once, parents
\* first, however the changes arrived.
SortIsTopological ==
  \A heads \in SUBSET graph.nodes :
    LET order == topological_sort(graph, heads)
        Place(x) == CHOOSE i \in DOMAIN order : order[i] = x
    IN /\ {order[i] : i \in DOMAIN order} = ancestors(graph, heads)
       /\ Len(order) = Cardinality(ancestors(graph, heads))
       /\ \A i \in DOMAIN order : \A d \in At(deps, order[i]) : Place(d) < i

\* merge_base, which looks one child ahead, returns the maximal common
\* ancestors: none above another, and one above every other common ancestor.
BasesAreMaximal ==
  \A a, b \in {h \in SUBSET graph.nodes : Cardinality(h) \in 1..2} :
    LET common == ancestors(graph, a) \cap ancestors(graph, b)
    IN merge_bases_ordered(graph, a, b) = {x \in common : \A y \in common : x \notin Above(y)}

\* The tips, changes all of whose children are ghosts among them, have every
\* living change in their history.
TipsReachAll == graph.nodes \ graph.ghosts \subseteq ancestors(graph, tip_ids(graph))

\* What replay and merge read off the graph, whatever order it was filled in.
GraphQueries == SortIsTopological /\ BasesAreMaximal /\ TipsReachAll
=============================================================================

------------------------------ MODULE Bisect -------------------------------
(* arc bisect: a session of marks over the candidates of a range, kept in   *)
(* .arc/bisect.  Every command is a process of its own; on Windows a save   *)
(* rotates the old session through state.bak.new and state.bak, and a       *)
(* command may die between any two of its file operations.                  *)
EXTENDS Graph

CONSTANTS
  Histories,    \* the graphs a session may run on, as edges: a set of functions
  MaxDeaths     \* bound on the commands that die

ASSUME BisectAssumption == IsFiniteSet(ChangeIds) /\ MaxDeaths \in Nat

VARIABLES
  history,      \* the edges of the changes in the store
  guilty,       \* the changes that fail the test: closed under descendants
  windows,      \* the platform
  files,        \* state.bin, state.bak, state.bak.new and reset.marker
  todo,         \* the file operations the running command has left
  before,       \* the session it has found
  target,       \* the session it is about to leave
  deaths

bisectVars == <<history, guilty, windows, files, todo, before, target, deaths>>

NoSession == [candidates |-> {}, find_good |-> FALSE, marks |-> Empty, current |-> 0]
NoFile == [candidates |-> {}, find_good |-> TRUE, marks |-> Empty, current |-> 0]
Paths == {"bin", "bak", "new", "marker"}

\* The graph of a set of changes whose ancestors have been read from the store.
GraphOf(ids) ==
  LET edges == [x \in ids |-> history[x]]
  IN [nodes |-> ids, ghosts |-> {}, edges |-> edges,
      rev |-> [x \in ids |-> {c \in ids : x \in history[c]}]]

\* What graph_snapshot returns in a command that has resolved no revision.
Fresh == NoGraph

BisectInit ==
  /\ history \in Histories
  /\ guilty \in {s \in SUBSET ChangeIds : \A x \in ChangeIds : history[x] \cap s # {} => x \in s}
  /\ windows \in BOOLEAN
  /\ files = [p \in Paths |-> NoFile]
  /\ todo = <<>>
  /\ before = NoSession
  /\ target = NoSession
  /\ deaths = 0

-----------------------------------------------------------------------------
(* The engine.                                                               *)

untested(s) == {x \in s.candidates : s.marks[x] = "untested"}

\* The middle of the untested candidates in topological order; 0 is none.
select_next(g, s) ==
  LET order == SelectSeq(topological_sort_ids(g, s.candidates), LAMBDA x : x \in untested(s))
  IN IF order = <<>> THEN 0 ELSE order[(Len(order) \div 2) + 1]

\* Good spreads to the ancestors, bad to the descendants.
Spread(g, id, m) ==
  IF m = "good" THEN ancestors(g, {id})
  ELSE ancestors([g EXCEPT !.edges = g.rev], {id})

mark(g, s, id, m) ==
  [s EXCEPT !.marks = [x \in s.candidates |-> IF x \in Spread(g, id, m) THEN m ELSE @[x]]]

Opposite(m) == IF m = "good" THEN "bad" ELSE "good"
Contradicts(g, s, id, m) == \E x \in Spread(g, id, m) \cap s.candidates : s.marks[x] = Opposite(m)

-----------------------------------------------------------------------------
(* The files.                                                                *)

load_state ==
  CASE files["marker"] # NoFile -> NoSession
    [] files["marker"] = NoFile /\ files["bin"] # NoFile -> files["bin"]
    [] files["marker"] = NoFile /\ files["bin"] = NoFile /\ files["new"] # NoFile -> files["new"]
    [] OTHER -> IF files["bak"] # NoFile THEN files["bak"] ELSE NoSession

\* atomic_write_bytes, then the marker of an earlier reset goes.
save_state ==
  IF windows THEN <<"dropnew", "rotate", "publish", "dropbak", "finalize", "unmark">>
  ELSE <<"publish", "unmark">>

\* Mutant: a reset removes the files without a marker.
clear_state_unmarked == <<"dropbin", "dropbak2", "dropnew">>

clear_state == <<"mark", "dropbin", "dropbak2", "dropnew">>

Idle == todo = <<>>
Run(steps, s) ==
  /\ todo' = steps
  /\ before' = load_state
  /\ target' = s
  /\ UNCHANGED <<history, guilty, windows, files, deaths>>

Effect(op) ==
  CASE op = "rotate"   -> IF files["bin"] = NoFile THEN files
                          ELSE [files EXCEPT !["new"] = files["bin"], !["bin"] = NoFile]
    [] op = "publish"  -> [files EXCEPT !["bin"] = target]
    [] op = "dropbak"  -> IF files["new"] = NoFile THEN files ELSE [files EXCEPT !["bak"] = NoFile]
    [] op = "finalize" -> IF files["new"] = NoFile THEN files
                          ELSE [files EXCEPT !["bak"] = files["new"], !["new"] = NoFile]
    [] op = "dropbak2" -> [files EXCEPT !["bak"] = NoFile]
    [] op = "dropbin"  -> [files EXCEPT !["bin"] = NoFile]
    [] op = "dropnew"  -> [files EXCEPT !["new"] = NoFile]
    [] op = "mark"     -> [files EXCEPT !["marker"] = NoSession]
    [] op = "unmark"   -> [files EXCEPT !["marker"] = NoFile]

WriteFile ==
  /\ ~Idle
  /\ files' = Effect(Head(todo))
  /\ todo' = Tail(todo)
  /\ UNCHANGED <<history, guilty, windows, before, target, deaths>>

Die ==
  /\ ~Idle
  /\ deaths < MaxDeaths
  /\ deaths' = deaths + 1
  /\ todo' = <<>>
  /\ target' = load_state
  /\ UNCHANGED <<history, guilty, windows, files, before>>

-----------------------------------------------------------------------------
(* The commands.                                                             *)

\* bisect_start resolves the range, which reads the candidates' ancestors.
BisectStart ==
  /\ Idle
  /\ load_state = NoSession
  /\ \E range \in (SUBSET ChangeIds) \ {{}}, flip \in BOOLEAN :
       LET s == [candidates |-> range, find_good |-> flip,
                 marks |-> [x \in range |-> "untested"], current |-> 0]
           t == [s EXCEPT !.current = select_next(GraphOf(ChangeIds), s)]
       IN Run(save_state, t)

internal_mark(s, said) == IF s.find_good THEN Opposite(said) ELSE said

\* bisect_mark_current: the user reports on the current change; with find_good
\* the words are swapped.  The mark is made on the graph of a fresh process.
BisectMark ==
  LET s == load_state
      said == IF (s.current \in guilty) # s.find_good THEN "bad" ELSE "good"
      m == internal_mark(s, said)
      t == mark(Fresh, s, s.current, m)
      u == [t EXCEPT !.current = select_next(Fresh, t)]
  IN /\ Idle
     /\ s # NoSession
     /\ s.current # 0
     /\ ~Contradicts(Fresh, s, s.current, m)
     /\ Run(save_state, u)

BisectReset ==
  /\ Idle
  /\ load_state # NoSession
  /\ Run(clear_state, NoSession)

BisectNext == BisectStart \/ BisectMark \/ BisectReset \/ WriteFile \/ Die

BisectSpec == BisectInit /\ [][BisectNext]_bisectVars

-----------------------------------------------------------------------------
(* Properties.                                                               *)

\* Whatever file operation a command dies after, the next one finds the session
\* as it was before or as the command would have left it, and a command that is
\* not interrupted leaves what it meant to.  One death only: a save that follows
\* a death between rotate and publish first deletes the only copy of the session.
SessionSurvivesDeath ==
  [][/\ Die /\ deaths' <= 1 => load_state \in {before, target}
     /\ todo # <<>> /\ todo' = <<>> => load_state' = target']_bisectVars

\* The marks of a session agree with the tests: the swapped words of
\* find_good and the spreading condemn no innocent change.
MarksAreTrue ==
  \A x \in load_state.candidates :
    /\ load_state.marks[x] = "bad" => x \in guilty
    /\ load_state.marks[x] = "good" => x \notin guilty

\* The session ends: it names a change to test until every candidate is marked,
\* and every answer marks at least that one.
BisectConverges ==
  [][BisectMark => /\ Cardinality(untested(target')) < Cardinality(untested(before'))
                   /\ (target'.current = 0) = (untested(target') = {})
                   /\ target'.current \in untested(target') \cup {0}]_bisectVars

\* What every command of a session keeps.
SessionIsSafe == []MarksAreTrue /\ SessionSurvivesDeath

\* docs/src/concepts/topological-bisect.md: "Marking `Good` propagates through
\* ancestors in-range."
GoodPropagates ==
  \A x \in load_state.candidates : load_state.marks[x] = "good" =>
    \A y \in ancestors(GraphOf(ChangeIds), {x}) \cap load_state.candidates :
      load_state.marks[y] = "good"
=============================================================================

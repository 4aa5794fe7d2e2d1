---------------------------- MODULE MCStructures ----------------------------
(* The parts that do not call each other, on small instances: a behaviour is *)
(* one of them at work while the others rest.                                *)
EXTENDS Calendar, Cache, Bisect, Revset, Patch, Ast, StoredBytes, Daemon, Policy,
        Keyring, Tui

CONSTANTS p1, p2, change, blob

VARIABLE part    \* the one at work

-----------------------------------------------------------------------------
(* Instances.                                                                *)

\* Calendar: many clocks, each to run to the next one's start.
MCStartDays == {n \in 0..LastDay : n % 400 = 0}

\* Bisect: two branches that are merged, and a change on top.
MCHistories == {[x \in ChangeIds |-> CASE x = 3 -> {1, 2} [] x = 4 -> {3} [] OTHER -> {}]}

\* Revset: every history of four changes, with one head or two.
MCRepos ==
  {[deps |-> d,
    views |-> [s \in {"@", "v"} |-> IF s = "@" THEN h ELSE {2}],
    refs |-> [f \in RefFunctions |-> CASE f = "tags" -> t [] f = "bookmarks" -> {3} [] OTHER -> {}]] :
     d \in {d \in [ChangeIds -> SUBSET (1..3)] : \A x \in ChangeIds : d[x] \subseteq 1..(x - 1)},
     h \in {{3}, {3, 4}}, t \in {{}, {2, 4}}}

\* Patch: items and raw files that overlap in every way the algebra tells apart.
Item(k, n) == <<"file", "a", <<k, n>>>>
F1 == Item("fn", "f")
F2 == Item("fn", "g")
B == <<"file", "b">>
D == <<"dir", "d">>
Present(p, kind) == {<<>>, [q \in {p} |-> <<kind, 1>>]}
MCStates ==
  {[p \in DOMAIN w \cup DOMAIN x \cup DOMAIN y \cup DOMAIN z |->
      CASE p \in DOMAIN w -> w[p] [] p \in DOMAIN x -> x[p] [] p \in DOMAIN y -> y[p] [] OTHER -> z[p]] :
     w \in Present(F1, "bytes"), x \in Present(F2, "bytes"),
     y \in Present(B, "blob") \cup Present(B, "mount"), z \in Present(D, "empty")}
OneAtom ==
  {Insert(F1, 1), Insert(F1, 2), Insert(F2, 1), Delete(F1, 1), Delete(F2, 2), Delete(B, 1), Delete(D, 0),
   Blob("b", 1), Blob("b", 2), Blob("a", 1), Directory(D), Mount(B, 1), Conflict(F1, 1), Move(F1, F2),
   SemanticsPreserving(F2), Delete(<<"file", "a">>, 1)}
MCChanges ==
  {[atoms |-> <<a>>, author |-> w] : a \in OneAtom, w \in {"human", "ai"}} \cup
  {Human(s) : s \in {<<Delete(F1, 1), Insert(F1, 2)>>, <<Insert(F1, 2), Blob("b", 1)>>,
                     <<Delete(B, 1), Insert(F2, 2)>>, <<Move(F1, F2), Blob("b", 2)>>,
                     <<Insert(F2, 1), Delete(F2, 1)>>}}

\* Ast: a named function, and imports by number.
MCItems == <<F1, F2, Item("use", "0"), Item("use", "1"), Item("use", "2")>>
MCPatchItems == {F1, F2}
MCStartFiles == {<<>>}
MCNames == [k \in {"fn", "use"} |-> IF k = "fn" THEN {"f"} ELSE {}]

\* Policy: three ignore files, or the user's config, the repository's and one more.
Line(kind, of) == [kind |-> kind, of |-> of]
Lines(S, n) == UNION {[1..m -> S] : m \in 0..n}
MCIgnores ==
  {[f \in {".arcignore", "b", "c"} |-> CASE f = ".arcignore" -> x [] f = "b" -> y [] f = "c" -> z] :
    x \in Lines({Line("include", "b"), Line("include", "c"), Line("ignore", "d"), Line("allow", "x")}, 3),
    y \in Lines({Line("include", "c"), Line("include", "gone"), Line("exists", "gone"),
                 Line("ignore", "x"), Line("include", ".arcignore")}, 2),
    z \in Lines({Line("allow", "d"), Line("include", "out")}, 1)}
MCConfigs ==
  {[f \in {"user", "repo", "c"} |-> CASE f = "user" -> x [] f = "repo" -> y [] f = "c" -> z] :
    x \in Lines({Line("include", "repo"), Line("exists", "c"), Line("key", "k")}, 2),
    y \in Lines({Line("include", "c"), Line("gitdir", "c"), Line("key", "k"), Line("include", "user")}, 2),
    z \in Lines({Line("key", "k"), Line("include", "repo")}, 1)}
MCParentDir == [p \in {"d", "x"} |-> "d"]

\* Tui: changes with diffs of two lines and of one, and one without a diff.
MCDiffLines == <<{2}, {1}, {}>>

-----------------------------------------------------------------------------
Components == {"calendar", "tiny", "weighted", "graph", "bisect", "revset", "patch", "ast", "objects", "intake",
               "watch", "notify", "policy", "keyring", "tui"}

Init ==
  /\ part \in Components
  /\ CalendarInit /\ (part # "calendar" => day = 0)
  /\ CacheInit /\ GraphInit /\ BisectInit /\ RevsetInit /\ PatchInit /\ AstInit
  /\ ObjectsInit /\ IntakeInit /\ WatchInit /\ NotifyInit /\ PolicyInit /\ KeyringInit
  /\ TuiInit
  /\ part # "bisect" => ~windows /\ guilty = {}

Rest(x) ==
  /\ part = x /\ UNCHANGED part
  /\ IF x = "calendar" THEN TRUE ELSE UNCHANGED calendarVars
  /\ IF x = "tiny" THEN TRUE ELSE UNCHANGED tiny
  /\ IF x = "weighted" THEN TRUE ELSE UNCHANGED weighted
  /\ IF x = "graph" THEN TRUE ELSE UNCHANGED graphVars
  /\ IF x = "bisect" THEN TRUE ELSE UNCHANGED bisectVars
  /\ IF x = "revset" THEN TRUE ELSE UNCHANGED arc
  /\ IF x = "patch" THEN TRUE ELSE UNCHANGED patch
  /\ IF x = "ast" THEN TRUE ELSE UNCHANGED astVars
  /\ IF x = "objects" THEN TRUE ELSE UNCHANGED objectVars
  /\ IF x = "intake" THEN TRUE ELSE UNCHANGED intakeVars
  /\ IF x = "watch" THEN TRUE ELSE UNCHANGED watchVars
  /\ IF x = "notify" THEN TRUE ELSE UNCHANGED notifyVars
  /\ IF x = "policy" THEN TRUE ELSE UNCHANGED policy
  /\ IF x = "keyring" THEN TRUE ELSE UNCHANGED keyringVars
  /\ IF x = "tui" THEN TRUE ELSE UNCHANGED tuiVars

Next ==
  \/ Rest("calendar") /\ Tick
  \/ Rest("tiny") /\ TinyCall
  \/ Rest("weighted") /\ WeightedCall
  \/ Rest("graph") /\ AddChange
  \/ Rest("bisect") /\ BisectNext
  \/ Rest("revset") /\ Open
  \/ Rest("patch") /\ Compare
  \/ Rest("ast") /\ AstNext
  \/ Rest("objects") /\ ObjectsNext
  \/ Rest("intake") /\ IntakeNext
  \/ Rest("watch") /\ WatchNext
  \/ Rest("notify") /\ NotifyNext
  \/ Rest("policy") /\ PolicyNext
  \/ Rest("keyring") /\ KeyringNext
  \/ Rest("tui") /\ TuiNext

Spec == Init /\ [][Next]_<<part, calendarVars, cacheVars, graphVars, bisectVars, arc, patch, astVars, objectVars, intakeVars,
                     watchVars, notifyVars, policy, keyringVars, tuiVars>>

-----------------------------------------------------------------------------
(* Properties of parts that ask, or record, the same.                        *)

\* The graph, the revsets and the bisection answer what they say of a history.
QueriesAreSound == [](GraphQueries /\ HistoryQueries) /\ BisectConverges

=============================================================================

----------------------------- MODULE MCRewrite -----------------------------
(* Histories that are rewritten, or imported: one file with two items, and   *)
(* one without any.                                                          *)
EXTENDS Rewrite, GitImport

VARIABLE part

F == <<"file", "a.rs", "f">>
G == <<"file", "a.rs", "g">>
B == <<"file", "logo">>
MCItems == <<F, G>>
I(x) == <<"bytes", x>>
L(x) == <<"blob", x>>
MCTrees == {F :> I(1), F :> I(1) @@ G :> I(1)}
BlobTrees == {F :> I(1) @@ B :> L(1), F :> I(1) @@ G :> I(1) @@ B :> L(1), F :> I(1) @@ G :> I(1) @@ B :> L(2)}

\* A line of three commits, with or without a branch that 4 merges; every
\* snapshot adds, changes or removes an item, or does not parse.
Snap1 == [items |-> F :> 1, broken |-> {}]
Snap2 == [items |-> F :> 2 @@ G :> 1, broken |-> {}]
Unparsed == [items |-> Empty, broken |-> {"a.rs"}]
MCGitRepos ==
  {[parents |-> <<<<>>, <<1>>, t, u>>, snapshot |-> <<s[1], Snap2, s[2], Snap2>>] :
     t \in {<<1>>, <<2>>}, u \in {<<3>>, <<2, 3>>},
     s \in {<<Snap1, Snap1>>, <<Snap1, Snap2>>, <<Unparsed, Snap1>>}}

Init ==
  /\ RewriteInit /\ GitInit
  /\ \/ part = "import" /\ refs["topic"] = 3 /\ refs["main"] \in {3, 4}
     \/ part = "rewrite" /\ git = (CHOOSE g \in GitRepos : TRUE) /\ \A b \in Branches : refs[b] = 1

Next ==
  /\ UNCHANGED part
  /\ \/ part = "rewrite" /\ RewriteNext /\ UNCHANGED <<git, refs, importing, imported, gitViews, gitMoves, imports>>
     \/ part = "import" /\ GitNext /\ UNCHANGED <<content, stored, todo, was, counters>>

Spec == Init /\ [][Next]_<<rewriteVars, gitVars, part>>
=============================================================================

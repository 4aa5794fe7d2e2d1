------------------------------ MODULE MCMerge ------------------------------
(* Two views of a file with two items and of a file without any.  A         *)
(* behaviour is one of the views and their merges, or of the commands on     *)
(* the files of the workspace.                                               *)
EXTENDS Worktree

VARIABLE part

F == <<"file", "a.rs", "f">>
G == <<"file", "a.rs", "g">>
B == <<"file", "logo">>
MCItems == <<F, G>>

I(x) == <<"bytes", x>>
L(x) == <<"blob", x>>
MCStart == F :> I(1) @@ G :> I(1)
MCTrees == {F :> I(2) @@ G :> I(1), G :> I(1),
            MCStart @@ B :> L(1), MCStart @@ B :> L(2)}
MCEdits == {F :> I(2) @@ G :> I(1), F :> I(1) @@ B :> L(1)}
MCCones == {{"logo"}}
MaxFileChanges == 4
Swapped == Permutations(Views)

Init == WorkInit /\ part \in {"views", "files"}

Next ==
  /\ UNCHANGED part
  /\ \/ part = "views" /\ MergeNext /\ UNCHANGED <<cone, stashes, was, stashed, turns>>
     \/ part = "files" /\ WorkNext /\ Cardinality(DOMAIN content') <= MaxFileChanges

Spec == Init /\ [][Next]_<<workVars, part>>
=============================================================================

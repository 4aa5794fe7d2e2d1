------------------------------- MODULE Patch -------------------------------
(* The laws of the patch algebra, over two changes and over two versions of *)
(* a file, chosen once.                                                      *)
EXTENDS Algebra

CONSTANTS
  PatchItems,   \* the items of the file
  PatchBodies,  \* what an item can contain (hashes)
  PatchStates,  \* states
  PatchChanges, \* changes [atoms, author], author "human" or "ai"
  NoPatch

VARIABLE patch  \* NoPatch, [a, b: changes] or [before, after: item maps]

-----------------------------------------------------------------------------
ItemMaps(s) == UNION {[d -> PatchBodies] : d \in SUBSET s}

PatchInit == patch = NoPatch

\* Two changes are compared, or two versions of a file.
Compare ==
  /\ patch = NoPatch
  /\ \/ \E a, b \in PatchChanges : patch' = [a |-> a, b |-> b]
     \/ \E x, y \in ItemMaps(PatchItems) : patch' = [before |-> x, after |-> y]

-----------------------------------------------------------------------------
(* Properties.                                                               *)

\* Two changes that commute give the same state in either order, and fail in
\* one order exactly if they fail in the other; so does the commuted pair.
CommutingIsSound ==
  "a" \in DOMAIN patch => \A s \in PatchStates :
    LET c == patch.a
        d == patch.b
        r == Replay(s, <<c, d>>)
    IN commutes(c, d) => /\ Replay(s, <<d, c>>) = r
                         /\ commute_pair(c, d) # {}
                         /\ \A q \in commute_pair(c, d) : Replay(s, q) = r

\* The difference of two versions of a file leads from one to the other, and
\* its inverse leads back.
DiffIsInvertible ==
  "before" \in DOMAIN patch =>
    LET c == Human(diff_atoms(patch.before, patch.after))
    IN /\ apply_change(AsState(patch.before), c) = {AsState(patch.after)}
       /\ \A x \in invert_change(c) : apply_change(AsState(patch.after), Human(x)) = {AsState(patch.before)}
       /\ invert_change(c) # {}

\* The laws that merge, undo and restore rest on.
PatchLaws == patch # NoPatch => CommutingIsSound /\ DiffIsInvertible
=============================================================================

--------------------------- MODULE MCRepository -----------------------------
(* Small instances of Repository for TLC.                                  *)
EXTENDS Repository, TLC

CONSTANTS p1, p2, main, dev

Symmetry == Permutations(Proc)

=============================================================================

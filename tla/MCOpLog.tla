------------------------------ MODULE MCOpLog -------------------------------
(* Instances of OpLog for TLC.                                             *)
EXTENDS OpLog, TLC

Symmetry == Permutations(Proc)
=============================================================================

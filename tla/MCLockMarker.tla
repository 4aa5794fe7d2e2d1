---------------------------- MODULE MCLockMarker ----------------------------
(* Instances of LockMarker for TLC.                                        *)
EXTENDS LockMarker, TLC

Symmetry == Permutations(Proc)
=============================================================================

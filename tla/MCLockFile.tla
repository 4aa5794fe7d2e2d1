----------------------------- MODULE MCLockFile -----------------------------
(* Instances of LockFile for TLC.                                          *)
EXTENDS LockFile, TLC

Symmetry == Permutations(Proc)
=============================================================================

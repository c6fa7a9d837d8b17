----------------------------- MODULE MCPoolManager -----------------------------
(* Instances of PoolManager for TLC. *)
EXTENDS PoolManager, TLC

\* Handles are interchangeable: no definition tells two of them apart.
HandleSymmetry == Permutations(Handles)
=============================================================================

------------------------------ MODULE MCLifecycle ------------------------------
(* Instances of Lifecycle for TLC.                                           *)
EXTENDS Lifecycle, TLC

\* Jobs are interchangeable.
Symmetry == Permutations(Jobs)
================================================================================

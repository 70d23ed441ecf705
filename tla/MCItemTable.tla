------------------------------ MODULE MCItemTable ------------------------------
(* Instances of ItemTable for TLC.                                           *)
EXTENDS ItemTable, TLC

\* IDs are interchangeable; Init chooses an org and a name.
Symmetry == Permutations(Ids)
===============================================================================

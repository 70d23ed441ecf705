----------------------------- MODULE MCItemService -----------------------------
(* Instances of ItemService for TLC.                                         *)
EXTENDS ItemService, TLC

\* Calls, orgs and items are interchangeable.
Symmetry == Permutations(Calls) \cup Permutations(Orgs) \cup Permutations(Items)
===============================================================================

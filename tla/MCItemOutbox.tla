----------------------------- MODULE MCItemOutbox -----------------------------
(* Instances of ItemOutbox for TLC.                                          *)
EXTENDS ItemOutbox, TLC

\* Calls, keys and processes are interchangeable: no formula names one of them.
Symmetry ==
    Permutations(Requests) \cup Permutations(Ids)
        \cup Permutations(Apis) \cup Permutations(Workers)
===============================================================================

------------------------------ MODULE MCEventBus ------------------------------
(* Instances of EventBus for TLC.                                            *)
EXTENDS EventBus, TLC

\* Subscriptions are interchangeable.
Symmetry == Permutations(Subs)
===============================================================================

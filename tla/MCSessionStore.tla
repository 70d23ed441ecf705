---------------------------- MODULE MCSessionStore ----------------------------
(* Instances of SessionStore for TLC.                                        *)
EXTENDS SessionStore, TLC

\* Browsers, requests and session IDs are interchangeable.
Symmetry == Permutations(Browsers) \cup Permutations(Requests) \cup Permutations(Ids)
===============================================================================

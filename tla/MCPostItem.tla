------------------------------ MODULE MCPostItem ------------------------------
(* Instances of PostItem for TLC.                                            *)
EXTENDS PostItem

CONSTANT Longest \* bound: the length of a name of arbitrary runes

\* All names up to that length, and those of letters that are one rune longer.
MCNames ==
    UNION {[1 .. n -> Runes] : n \in 0 .. Longest} \cup [1 .. Longest + 1 -> {"a", "wide"}]
===============================================================================

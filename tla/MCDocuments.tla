----------------------------- MODULE MCDocuments -----------------------------
(* Two workers over two files.                                                *)
EXTENDS Documents, TLC

CONSTANTS a, b, w1, w2

MCSymmetry == Permutations({w1, w2}) \cup Permutations({a, b})
==============================================================================

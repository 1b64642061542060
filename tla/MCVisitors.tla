------------------------------ MODULE MCVisitors ------------------------------
(* Two workers and three contacts of one e-mail.                              *)
EXTENDS Visitors, TLC

CONSTANTS c1, c2, c3, w1, w2

MCSymmetry == Permutations({w1, w2}) \cup Permutations({c1, c2, c3})
===============================================================================

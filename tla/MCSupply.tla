------------------------------ MODULE MCSupply ------------------------------
(***************************************************************************)
(* Instances of Supply for TLC.                                            *)
(***************************************************************************)
EXTENDS Supply, TLC

CONSTANTS w1, w2, c1, c2, c3, b1, b2, b3, s1, s2

MCSymmetry == Permutations(Workers) \cup Permutations(Conns) \cup Permutations(Bindings)
=============================================================================

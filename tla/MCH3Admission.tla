---------------------------- MODULE MCH3Admission ----------------------------
(* H3Admission for TLC: peers and workers are interchangeable.             *)
EXTENDS H3Admission, TLC

Symmetric == Permutations(Peers) \union Permutations(Workers)
=============================================================================

----------------------------- MODULE MCServices -----------------------------
(* Services for TLC: flows are interchangeable.                            *)
EXTENDS Services, TLC

Symmetric == Permutations(Flows)
=============================================================================

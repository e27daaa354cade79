----------------------------- MODULE MCBootstrap -----------------------------
(* Bootstrap for TLC: callers are interchangeable.                         *)
EXTENDS Bootstrap, TLC

Symmetric == Permutations(Callers)
=============================================================================

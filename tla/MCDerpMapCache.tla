--------------------------- MODULE MCDerpMapCache ---------------------------
(* DerpMapCache for TLC: fetchers are interchangeable.                     *)
EXTENDS DerpMapCache, TLC

Symmetric == Permutations(Fetchers)
=============================================================================

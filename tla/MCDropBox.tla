------------------------------ MODULE MCDropBox ------------------------------
(* Small instance of DropBox: two sessions, each with one request at a time. *)
EXTENDS DropBox, TLC

CONSTANTS s1, s2, w1, w2, n, d

MCSessionOf == (w1 :> s1) @@ (w2 :> s2)
MCRequests == {Root, <<n>>, <<d>>, <<d, n>>}
MCMaxInodes == [m \in Modes |-> IF m \in {RO, RW} THEN 3 ELSE 4]
=============================================================================

---------------------------- MODULE MCRendezvous ----------------------------
(* Small instance of Rendezvous: a DERP map of two regions, one of them     *)
(* with a STUN-only node, and a relay that is in no map.                    *)
EXTENDS Rendezvous, TLC

Symmetry == Permutations(Genkeys)

MCRelayMap == (1 :> <<Node("1a", "a", FALSE), Node("1b", "b", FALSE)>>) @@
              (2 :> <<Node("2c", "c", FALSE), Node("2d", "d", TRUE)>>)
MCRegionIDs == {-1, 0, 7}
MCReports == {<<>>, (1 :> 5), (1 :> 5) @@ (2 :> 5), (1 :> 9) @@ (2 :> 5)}
MCHostLists == {<<"x", "y">>}
MCCodeOf == (1 :> "one") @@ (2 :> "two")
MCNamed == ("one" :> {2}) @@ ("north" :> {1, 2}) @@ ("nowhere" :> {})
MCHome == [h \in {"a", "b"} |-> 1] @@ [h \in {"c", "d"} |-> 2]
          @@ [h \in {"x", "y"} |-> 3]
=============================================================================

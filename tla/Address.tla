------------------------------- MODULE Address -------------------------------
(***************************************************************************)
(* Tailcat addresses and the relay region they lead to: the codec between  *)
(* ConnInfo and Addr (wire.go, ConnInfo.Addr, ParseAddr), the choice of a  *)
(* region (ConnInfo.Expand, PickBestRegion) and Addr.Resolve, as pure      *)
(* operators. An operator that can fail, or that depends on chance or on   *)
(* measured latencies, returns the set of its possible results: the empty  *)
(* set stands for an error.                                                *)
(***************************************************************************)
EXTENDS Integers, Sequences, FiniteSets

CONSTANTS
    RelayMap,    \* the DERP map: region ID -> its sequence of nodes
    ServerIDs,   \* the regions of the map as it is served to servers
    Reports,     \* the netcheck reports: region ID -> latency
    Hour         \* latencies from here on count as none

\* A key, or what is derived from it, is a number; the zero key is 0.
Zero == 0
NoName == "no name"
Version == 1
Keep == 2    \* the relay nodes that a resolved address keeps

\* A node of a region; a region; and what an address is made from.
Node(name, host, stun) == [name |-> name, host |-> host, stun |-> stun]
DerpRegion(id, nodes) == [id |-> id, nodes |-> nodes]
ConnInfo(pub, disco, psk, id, regions) ==
    [pub |-> pub, disco |-> disco, psk |-> psk, regionID |-> id, region |-> regions]

Ids == DOMAIN RelayMap
ServerMap == [id \in ServerIDs |-> RelayMap[id]]
First(s, n) == SubSeq(s, 1, IF Len(s) < n THEN Len(s) ELSE n)
IsRelay(node) == ~node.stun
HasRelay(r) == \E i \in DOMAIN r.nodes : IsRelay(r.nodes[i])

\* What addresses are made of and from.
Names == STRING \cup {NoName}
Nodes == [name : Names, host : STRING, stun : BOOLEAN]
Regions == [id : Int, nodes : Seq(Nodes)]
ConnInfos == [pub : Nat, disco : Nat, psk : Nat, regionID : Int, region : Seq(Regions)]
Addresses == [version : {Version}, pub : Nat, disco : Nat, psk : Nat, regionID : Int,
              region : Seq(Seq([name : Names, host : STRING]))]

\* What Resolve relies on when it keeps two nodes of a region: one of the
\* first two relays, and the maps for servers offer no other regions.
ASSUME MapAssumption ==
    /\ ServerIDs \subseteq Ids /\ ServerIDs # {}
    /\ \A id \in Ids :
          /\ id \in Nat \ {0}
          /\ RelayMap[id] \in Seq(Nodes)
          /\ HasRelay(DerpRegion(id, First(RelayMap[id], Keep)))

-----------------------------------------------------------------------------
(* The codec.                                                              *)

\* The loop over a region's nodes that skips those that cannot relay.
Relays(nodes) ==
    LET kept[i \in 0..Len(nodes)] ==
            IF i = 0 THEN <<>>
            ELSE IF IsRelay(nodes[i]) THEN Append(kept[i - 1], nodes[i])
            ELSE kept[i - 1]
    IN kept[Len(nodes)]

\* wireRegionOf keeps the nodes that can relay. Addr then drops the
\* region's ID, code and name, and the names that repeat a host name.
wireRegionOf(r) ==
    LET kept == Relays(r.nodes) IN
    [i \in DOMAIN kept |->
        [name |-> IF kept[i].host # "" THEN NoName ELSE kept[i].name,
         host |-> kept[i].host]]

\* ConnInfo.Addr. A zero key is left out, which decoding turns to zero again.
Addr(ci) ==
    [version |-> Version, pub |-> ci.pub, disco |-> ci.disco, psk |-> ci.psk,
     regionID |-> ci.regionID,
     region |-> [i \in DOMAIN ci.region |-> wireRegionOf(ci.region[i])]]

\* derpRegion, and what ParseAddr restores: IDs by position, names by host.
derpRegion(i, w) ==
    DerpRegion(i, [j \in DOMAIN w |->
        Node(IF w[j].name = NoName THEN w[j].host ELSE w[j].name, w[j].host, FALSE)])

\* parseWire.
parseWire(a) ==
    a.version = Version /\ a.pub # Zero /\ a.disco # Zero /\ a.psk # Zero

\* ParseAddr.
ParseAddr(a) ==
    IF parseWire(a)
    THEN {ConnInfo(a.pub, a.disco, a.psk, a.regionID,
                   [i \in DOMAIN a.region |-> derpRegion(i, a.region[i])])}
    ELSE {}

-----------------------------------------------------------------------------
(* The choice of a region.                                                 *)

\* PickBestRegion: a region of the map with the lowest latency under an
\* hour; the order in which the report is walked decides between equals.
PickBestRegion(m, report) ==
    LET usable == {id \in DOMAIN report \cap DOMAIN m : report[id] < Hour} IN
    {id \in usable : \A other \in usable : report[id] <= report[other]}

\* rand.Shuffle of a region's nodes.
Shuffles(nodes) ==
    {[i \in DOMAIN nodes |-> nodes[p[i]]] :
        p \in {q \in [DOMAIN nodes -> DOMAIN nodes] :
                 \A i, j \in DOMAIN nodes : q[i] = q[j] => i = j}}

\* Expand for RegionID -1: the best region, or any if no latency is known.
AutoRegions(m) ==
    LET ids == UNION {IF PickBestRegion(m, rep) # {} THEN PickBestRegion(m, rep)
                      ELSE DOMAIN m : rep \in Reports}
    IN UNION {{DerpRegion(id, nodes) : nodes \in Shuffles(m[id])} : id \in ids}

FillIDs(ci) ==
    [ci EXCEPT !.region = [i \in DOMAIN @ |->
        DerpRegion(IF @[i].id = 0 THEN 1 ELSE @[i].id, @[i].nodes)]]

\* Bug: the nodes are shuffled for a region named by its ID, too.
ExpandShuffled(ci, m) ==
    LET filled == FillIDs(ci) IN
    IF ci.region # <<>> \/ ci.regionID = 0 THEN {filled}
    ELSE IF ci.regionID = -1
    THEN {[filled EXCEPT !.regionID = 0, !.region = <<r>>] : r \in AutoRegions(m)}
    ELSE IF ci.regionID \in DOMAIN m
    THEN {[filled EXCEPT !.region = <<DerpRegion(ci.regionID, nodes)>>] :
            nodes \in Shuffles(m[ci.regionID])}
    ELSE {}

\* Expand, with map m.
Expand(ci, m) ==
    LET filled == FillIDs(ci) IN
    IF ci.region # <<>> \/ ci.regionID = 0 THEN {filled}
    ELSE IF ci.regionID = -1
    THEN {[filled EXCEPT !.regionID = 0, !.region = <<r>>] : r \in AutoRegions(m)}
    ELSE IF ci.regionID \in DOMAIN m
    THEN {[filled EXCEPT !.region = <<DerpRegion(ci.regionID, m[ci.regionID])>>]}
    ELSE {}

\* Addr.Resolve.
Resolve(a) ==
    UNION {IF ci.region # <<>> THEN {a}
           ELSE {Addr([x EXCEPT !.regionID = 0,
                       !.region = [i \in DOMAIN @ |->
                          DerpRegion(@[i].id, First(@[i].nodes, Keep))]]) :
                   x \in Expand(ci, RelayMap)} : ci \in ParseAddr(a)}

\* Client.ensureStarted: the regions of the DERP map a client may run with;
\* an address that yields none is an error.
ClientRegions(a) ==
    UNION {UNION {{x.region[i] : i \in DOMAIN x.region} :
                    x \in Expand(ci, RelayMap)} : ci \in ParseAddr(a)}
=============================================================================

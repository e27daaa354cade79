----------------------------- MODULE Rendezvous -----------------------------
(***************************************************************************)
(* How a client and a server find each other: genkey makes a key and       *)
(* writes its file, server mode and the browser's tailcatListen choose a   *)
(* relay region from a key and print an address, and a client goes from an *)
(* address to a region. Several genkeys may run at once, and one may die   *)
(* between truncating the file and writing it.                             *)
(***************************************************************************)
EXTENDS Address

CONSTANTS
    KeyNames,    \* names of key files
    Default,     \* the one that server mode loads by itself
    Genkeys,     \* genkey processes
    Servers,     \* server processes, of the command or of a browser page
    RegionIDs,   \* numbers given to genkey --region
    HostLists,   \* sequences of DERP host names given to it
    CodeOf,      \* region ID -> its code
    Named,       \* word -> the regions with the word in their name
    Home,        \* host -> the relays it is meshed with
    MaxKeys      \* bound: keys ever made

ASSUME RendezvousAssumption ==
    /\ Default \in KeyNames
    /\ RegionIDs \subseteq Int
    /\ MaxKeys \in Nat \ {0}
    /\ \A id \in Ids : \A i, j \in DOMAIN RelayMap[id] :
          Home[RelayMap[id][i].host] = Home[RelayMap[id][j].host]
    /\ \A h \in HostLists :
          /\ h \in Seq(STRING) \ {<<>>}
          /\ \A i, j \in DOMAIN h : Home[h[i]] = Home[h[j]]

VARIABLES
    file,      \* per name: Absent, Torn, or the key saved there
    made,      \* number of keys made so far
    gen,       \* per genkey: what it is about to write, or Idle
    printed,   \* the keys whose address a genkey has printed, and the address
    page,      \* the key a browser page has stored
    server,    \* per server: Off, Panicked, or what it runs with
    first      \* history: the first address of each key kept, per kind of server

meetVars == <<file, made, gen, printed, page, server, first>>

Absent == [is |-> "absent"]
Torn == [is |-> "torn"]
Idle == [at |-> "idle"]
Off == [is |-> "off"]

\* A PrivateKey: its number, its Public field, and what it was made for.
Key(n, ci, from) == [is |-> "key", priv |-> n, public |-> ci, from |-> from]
NewPublic(n, id) == ConnInfo(n, n, n, id, <<>>)
OldKey == Key(1, [NewPublic(1, CHOOSE id \in ServerIDs : TRUE) EXCEPT !.psk = Zero], "id")

\* The default key may have been saved before keys had a connection secret.
MeetInit ==
    /\ \E k \in {Absent, OldKey} :
          /\ file = [n \in KeyNames |-> IF n = Default THEN k ELSE Absent]
          /\ made = IF k = OldKey THEN 1 ELSE 0
    /\ gen = [g \in Genkeys |-> Idle]
    /\ printed = {}
    /\ page = Absent
    /\ server = [s \in Servers |-> Off]
    /\ first = {}

-----------------------------------------------------------------------------
(* genkey.                                                                 *)

\* genKey's flags: --client, --force, --fixed-region, --embed-derp-map, and
\* --region, "unset" or what it was set to.
Flags == [client : BOOLEAN, force : BOOLEAN, fixed : BOOLEAN, embed : BOOLEAN,
          region : {"unset", "auto", "id", "hosts", "match"}]

\* The combinations that are not a usage error.
Valid(f, name) ==
    /\ f.client => f.region = "unset" /\ ~f.fixed /\ ~f.embed /\ name # Default
    /\ f.fixed => f.region = "unset"
    /\ f.embed => f.region \notin {"auto", "hosts"}

\* What --region comes to; "best" picks a region now.
Region(f) ==
    IF f.region # "unset" THEN f.region
    ELSE IF f.fixed \/ f.embed THEN "best" ELSE "auto"

\* What a key was made for: a client, a region left open, which is the number
\* -1, one given by number, or one found now.
From(f, public) ==
    IF f.client THEN "client"
    ELSE IF public.regionID = -1 THEN "auto"
    ELSE IF Region(f) = "id" THEN "id"
    ELSE "found"

\* findRegionIDFromSubstring: by code, else by name, in the map's order.
findRegionIDFromSubstring(word) ==
    LET byCode == {id \in ServerIDs : CodeOf[id] = word} IN
    IF byCode # {} THEN byCode ELSE Named[word] \cap ServerIDs

\* The Public fields that genKey may give key n: the empty set when it exits
\* with an error, as it does when no region matches or none was measured.
Public(f, n) ==
    LET new == NewPublic(n, 0)
        ids == CASE Region(f) = "auto" -> {-1}
                 [] Region(f) = "id" -> RegionIDs
                 [] Region(f) = "best" ->
                      UNION {PickBestRegion(ServerMap, rep) : rep \in Reports}
                 [] Region(f) = "match" ->
                      UNION {findRegionIDFromSubstring(w) : w \in DOMAIN Named}
                 [] OTHER -> {}
        Embedded(id) == [new EXCEPT !.region =
                           <<DerpRegion(id, First(RelayMap[id], Keep))>>]
        OfHosts(h) == [new EXCEPT !.region =
                         <<DerpRegion(0, [i \in DOMAIN h |-> Node(NoName, h[i], FALSE)])>>]
    IN IF f.client THEN {new}
       ELSE IF Region(f) = "hosts" THEN {OfHosts(h) : h \in HostLists}
       ELSE IF f.embed THEN {Embedded(id) : id \in ids \cap ServerIDs}
       ELSE {[new EXCEPT !.regionID = id] : id \in ids}

\* genKey up to WriteFile: the flags, the Stat, the key and its region.
GenkeyLooks(g, name) ==
    /\ gen[g] = Idle
    /\ made < MaxKeys
    /\ \E f \in Flags :
          /\ Valid(f, name)
          /\ file[name] = Absent \/ f.force
          /\ \E public \in Public(f, made + 1) :
                gen' = [gen EXCEPT ![g] = [at |-> "create", name |-> name,
                          key |-> Key(made + 1, public, From(f, public))]]
    /\ made' = made + 1
    /\ UNCHANGED <<file, printed, page, server, first>>

\* os.WriteFile opens the file with O_TRUNC ...
GenkeyTruncates(g) ==
    /\ gen[g].at = "create"
    /\ file' = [file EXCEPT ![gen[g].name] = Torn]
    /\ gen' = [gen EXCEPT ![g].at = "write"]
    /\ UNCHANGED <<made, printed, page, server, first>>

\* ... and writes it.
GenkeyWrites(g) ==
    /\ gen[g].at = "write"
    /\ file' = [file EXCEPT ![gen[g].name] = gen[g].key]
    /\ gen' = [gen EXCEPT ![g].at = "print"]
    /\ UNCHANGED <<made, printed, page, server, first>>

\* genKey prints the address of a server key, the public part of a client's.
GenkeyPrints(g) ==
    /\ gen[g].at = "print"
    /\ printed' = IF gen[g].key.from = "client" THEN printed
                  ELSE printed \cup {[key |-> gen[g].key,
                                      addr |-> Addr(gen[g].key.public)]}
    /\ gen' = [gen EXCEPT ![g] = Idle]
    /\ UNCHANGED <<file, made, page, server, first>>

\* genkey is killed.
GenkeyDies(g) ==
    /\ gen[g] # Idle
    /\ gen' = [gen EXCEPT ![g] = Idle]
    /\ UNCHANGED <<file, made, printed, page, server, first>>

\* genkey --delete.
GenkeyDelete(name) ==
    /\ file[name] # Absent
    /\ file' = [file EXCEPT ![name] = Absent]
    /\ UNCHANGED <<made, gen, printed, page, server, first>>

-----------------------------------------------------------------------------
(* Servers.                                                                *)

\* clearUnnecessaryRegionFields leaves a region one node.
clearUnnecessaryRegionFields(r) == [r EXCEPT !.nodes = First(@, 1)]

Runs(k, kind, reg, addr) ==
    [is |-> "running", key |-> k, kind |-> kind, reg |-> reg, addr |-> addr]
Panics(k, kind) == [is |-> "panicked", key |-> k, kind |-> kind]
Address(st) == [key |-> st.key, kind |-> st.kind, addr |-> st.addr]

\* Server s runs, or has panicked for want of a region. The first address a
\* key gets is remembered per kind of server, unless the key was made for one
\* process only or leaves its region open.
Becomes(s, st) ==
    /\ server' = [server EXCEPT ![s] = st]
    /\ first' = IF \/ st.is = "panicked"
                   \/ st.key.from \in {"auto", "new"}
                   \/ \E e \in first : e.key = st.key /\ e.kind = st.kind
                THEN first ELSE first \cup {Address(st)}

\* What server() makes of key k, expanded to x: the region it waits in, and
\* the address that names this region or holds it.
Served(k, kind, x) ==
    LET embed == kind = "full" \/ k.public.region # <<>>
        reg == clearUnnecessaryRegionFields(x.region[1])
        ci == ConnInfo(k.priv, k.priv, k.public.psk,
                       IF embed THEN 0 ELSE reg.id, IF embed THEN <<reg>> ELSE <<>>)
    IN Runs(k, kind, reg, Addr(ci))

\* server(), from key k to the running Server: Expand, the address, Start.
Serve(s, k, kind) ==
    \E x \in Expand(k.public, ServerMap) :
        Becomes(s, IF x.region = <<>> THEN Panics(k, kind) ELSE Served(k, kind, x))

\* server() with --key=<name>, or with none and the default key present. An
\* unreadable key and one without a secret are fatal.
ServeKey(s, name) ==
    /\ server[s] = Off
    /\ file[name].is = "key"
    /\ file[name].public.psk # Zero
    /\ \E kind \in {"short", "full"} : Serve(s, file[name], kind)
    /\ UNCHANGED <<file, made, gen, printed, page>>

\* server() with --key=new, or with none and no default key.
ServeNew(s) ==
    /\ server[s] = Off
    /\ made < MaxKeys
    /\ made' = made + 1
    /\ \E kind \in {"short", "full"} :
          Serve(s, Key(made + 1, NewPublic(made + 1, -1), "new"), kind)
    /\ UNCHANGED <<file, gen, printed, page>>

\* Bug: the region picked for a new key is not pinned.
ListenUnpinned(s, k) ==
    \E x \in Expand(k.public, ServerMap) :
        IF x.region = <<>> THEN Becomes(s, Panics(k, "web")) /\ UNCHANGED page
        ELSE /\ page' = [k EXCEPT !.from = "page"]
             /\ Becomes(s, Runs(page', "web", x.region[1], Addr(k.public)))

\* tailcatListen pins the region picked for a new key.
Pinned(k, x) ==
    IF k.from = "new"
    THEN [k EXCEPT !.public.regionID = x.region[1].id, !.from = "page"]
    ELSE k

\* The rest of tailcatListen: Expand, pin the region of a new key, Start, and
\* hand the key back to the page.
Listen(s, k) ==
    \E x \in Expand(k.public, ServerMap) :
        IF x.region = <<>> THEN Becomes(s, Panics(k, "web")) /\ UNCHANGED page
        ELSE /\ page' = Pinned(k, x)
             /\ Becomes(s, Runs(page', "web", x.region[1], Addr(page'.public)))

\* tailcatListen with a new key.
ListenNew(s) ==
    /\ server[s] = Off
    /\ made < MaxKeys
    /\ made' = made + 1
    /\ Listen(s, Key(made + 1, NewPublic(made + 1, -1), "new"))
    /\ UNCHANGED <<file, gen, printed>>

\* tailcatListen with the key the page has stored, or one from a key file; a
\* key without a secret is given one.
ListenSupplied(s, k) ==
    /\ server[s] = Off
    /\ k.is = "key"
    /\ k.public.psk = Zero => made < MaxKeys
    /\ IF k.public.psk # Zero
       THEN Listen(s, k) /\ UNCHANGED made
       ELSE /\ Listen(s, [k EXCEPT !.public.psk = made + 1])
            /\ made' = made + 1
    /\ UNCHANGED <<file, gen, printed>>

\* The process ends or the page closes its server.
Stop(s) ==
    /\ server[s] # Off
    /\ server' = [server EXCEPT ![s] = Off]
    /\ UNCHANGED <<file, made, gen, printed, page, first>>

MeetNext ==
    \/ \E g \in Genkeys :
          \/ GenkeyTruncates(g) \/ GenkeyWrites(g) \/ GenkeyPrints(g) \/ GenkeyDies(g)
          \/ \E name \in KeyNames : GenkeyLooks(g, name)
    \/ \E name \in KeyNames : GenkeyDelete(name)
    \/ \E s \in Servers :
          \/ ServeNew(s) \/ ListenNew(s) \/ Stop(s)
          \/ \E name \in KeyNames : ServeKey(s, name)
          \/ \E k \in {page} \cup {file[name] : name \in KeyNames} : ListenSupplied(s, k)

MeetSpec == MeetInit /\ [][MeetNext]_meetVars

-----------------------------------------------------------------------------
(* Properties.                                                             *)

\* Keys, by what they were made for: those that are saved or handed back to
\* a page, and all. What servers are, and what genkeys hold.
Kept == {"auto", "id", "found", "client", "page"}
Keys(origins) == [is : {"key"}, priv : Nat \ {0}, public : ConnInfos, from : origins]
AnyKeys == Keys(Kept \cup {"new"})
Kinds == {"short", "full", "web"}
RunningStates ==
    [is : {"running"}, key : AnyKeys, kind : Kinds, reg : Regions, addr : Addresses]
PanickedStates == [is : {"panicked"}, key : AnyKeys, kind : Kinds]
GenStates == [at : {"create", "write", "print"}, name : KeyNames, key : Keys(Kept)]

\* The values every variable can hold.
MeetTypeOK ==
    /\ file \in [KeyNames -> {Absent, Torn} \cup Keys(Kept)]
    /\ made \in 0..MaxKeys
    /\ gen \in [Genkeys -> {Idle} \cup GenStates]
    /\ printed \subseteq [key : Keys(Kept), addr : Addresses]
    /\ page \in {Absent} \cup Keys(Kept)
    /\ server \in [Servers -> {Off} \cup PanickedStates \cup RunningStates]
    /\ first \subseteq [key : Keys(Kept), kind : Kinds, addr : Addresses]

Running(s) == server[s].is = "running"
SameRelay(r, q) ==
    \E i \in DOMAIN r.nodes, j \in DOMAIN q.nodes :
        /\ IsRelay(r.nodes[i]) /\ IsRelay(q.nodes[j])
        /\ Home[r.nodes[i].host] = Home[q.nodes[j].host]

\* Whatever region a client comes to from address a, as it is or resolved
\* first, one of its relays is meshed with the server's.
LeadsTo(a, s) ==
    \A b \in {a} \cup Resolve(a) :
        /\ ClientRegions(b) # {}
        /\ \A r \in ClientRegions(b) : SameRelay(r, server[s].reg)

\* An address leads every client to the relay the server waits at,
\* whichever of the two forms it has and whatever was dropped from it on the
\* way: the one the server prints, and the one genkey printed when it made
\* the key. Left out are servers whose one node cannot relay, and keys made
\* with --region=auto, for which a page and genkey leave the choice of a
\* region to each side.
AddressMeets ==
    \A s \in Servers : Running(s) /\ HasRelay(server[s].reg) =>
        LET auto == server[s].key.from = "auto" IN
        /\ (server[s].kind = "web" /\ auto) \/ LeadsTo(server[s].addr, s)
        /\ \A p \in printed :
              server[s].key = p.key => auto \/ LeadsTo(p.addr, s)

\* A key that is kept gives the same address at every start of a server of
\* the same kind, whatever other keys are served in between: "a persisted key
\* keeps the same address across page loads". Only a key that leaves its
\* region open does not.
KeepsAddress ==
    \A s \in Servers :
        Running(s) /\ server[s].key.from \notin {"auto", "new"} =>
            Address(server[s]) \in first
=============================================================================

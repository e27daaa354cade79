--------------------------- MODULE BootstrapProofs ---------------------------
(***************************************************************************)
(* Proofs about how a client reaches its server. About Bootstrap, the      *)
(* handshake, for every set of callers and any number of client lifetimes  *)
(* and server restarts; and about Rendezvous, the keys, addresses and      *)
(* regions, for every DERP map and any number of keys and processes.       *)
(***************************************************************************)
EXTENDS Bootstrap, Rendezvous, SequenceTheorems, WellFoundedInduction, TLAPS

\* startMu is held by exactly the caller that is starting the client: there
\* is never more than one startup, and none on a client that has started.
SingleStartup ==
    /\ \A c \in Callers : pc[c] = "starting" <=> startMu = c
    /\ startMu # None => ~started
    /\ started \/ closed => lb

\* A caller waits for an acknowledgment, and one is believed, only after the
\* client has started.
WaitsStarted ==
    /\ \A c \in Callers : pc[c] \in {"waiting", "dialling"} => started
    /\ meowWait \/ upDone => started

\* Every acknowledgment on its way is one the server has sent, and no packet
\* is older than it could be: none carries the nonce of a lifetime to come.
AcksTruthful ==
    /\ \A m \in relay : m.reply => m.nonce \in acked
    /\ \A m \in relay : m.nonce <= life
    /\ \A n \in acked : n <= life

\* The inductive invariant from which the theorems follow.
IInv == TypeOK /\ SingleStartup /\ WaitsStarted /\ AcksTruthful /\ UpOnlyIfAcked

-----------------------------------------------------------------------------
(* The initial states, and each action, establish the invariant.           *)

\* A packet the client sends carries the nonce of its lifetime.
LEMMA MeowFacts ==
    ASSUME TypeOK
    PROVE  Meow \in Packets /\ ~Meow.reply /\ Meow.nonce = life
BY DEF TypeOK, Meow, Packets

\* A fresh client knows nothing, and nothing is on its way.
LEMMA InitIInv == Init => IInv
<1> SUFFICES ASSUME Init PROVE IInv
  OBVIOUS
<1> USE BootstrapAssumption DEF Init
<1>1. TypeOK
  <2>1. life \in 1..MaxLives /\ forgets \in 0..MaxForgets
    OBVIOUS
  <2> QED BY <2>1 DEF TypeOK
<1>2. SingleStartup /\ WaitsStarted
  BY DEF SingleStartup, WaitsStarted
<1>3. AcksTruthful /\ UpOnlyIfAcked
  BY DEF AcksTruthful, UpOnlyIfAcked
<1> QED BY <1>1, <1>2, <1>3 DEF IInv

\* A client once acknowledged goes straight to dialling.
LEMMA CallIInv ==
    ASSUME IInv, NEW c \in Callers, NEW method \in {"ping", "dial"},
           Call(c, method)
    PROVE  IInv'
<1> USE DEF Call, Goto, IInv, clientVars, serverVars
<1>1. TypeOK'
  BY DEF TypeOK
<1>2. SingleStartup'
  BY DEF SingleStartup
<1>3. WaitsStarted'
  BY DEF WaitsStarted
<1>4. UpOnlyIfAcked'
  BY DEF UpOnlyIfAcked
<1>5. AcksTruthful'
  BY DEF AcksTruthful
<1> QED BY <1>1, <1>2, <1>3, <1>4, <1>5

\* One caller takes startMu and starts the client.
LEMMA EnsureStartedIInv ==
    ASSUME IInv, NEW c \in Callers, EnsureStarted(c)
    PROVE  IInv'
<1> USE DEF EnsureStarted, Goto, IInv, clientVars, serverVars
<1>1. TypeOK'
  BY DEF TypeOK
<1>2. SingleStartup'
  BY BootstrapAssumption DEF TypeOK, SingleStartup
<1>3. WaitsStarted'
  BY DEF WaitsStarted
<1>4. UpOnlyIfAcked'
  BY DEF UpOnlyIfAcked
<1>5. AcksTruthful'
  BY DEF AcksTruthful
<1> QED BY <1>1, <1>2, <1>3, <1>4, <1>5

\* A start that fails releases startMu.
LEMMA StartFailsIInv ==
    ASSUME IInv, NEW c \in Callers, StartFails(c)
    PROVE  IInv'
<1> USE DEF StartFails, Goto, Finish, IInv, clientVars, serverVars
<1>1. TypeOK'
  BY DEF TypeOK
<1>2. SingleStartup'
  BY BootstrapAssumption DEF TypeOK, SingleStartup
<1>3. WaitsStarted'
  BY DEF WaitsStarted
<1>4. UpOnlyIfAcked'
  BY DEF UpOnlyIfAcked
<1>5. AcksTruthful'
  BY DEF AcksTruthful
<1> QED BY <1>1, <1>2, <1>3, <1>4, <1>5

\* A start that succeeds releases startMu and sends.
LEMMA StartSucceedsIInv ==
    ASSUME IInv, NEW c \in Callers, StartSucceeds(c)
    PROVE  IInv'
<1> USE DEF StartSucceeds, Goto, Send, IInv, clientVars, serverVars
<1>1. TypeOK'
  BY MeowFacts DEF TypeOK
<1>2. SingleStartup'
  BY BootstrapAssumption DEF TypeOK, SingleStartup
<1>3. WaitsStarted'
  BY DEF WaitsStarted
<1>4. AcksTruthful'
  BY MeowFacts DEF TypeOK, AcksTruthful
<1>5. UpOnlyIfAcked'
  BY DEF UpOnlyIfAcked
<1> QED BY <1>1, <1>2, <1>3, <1>4, <1>5

\* The first packet of a ping.
LEMMA FirstSendIInv ==
    ASSUME IInv, NEW c \in Callers, FirstSend(c)
    PROVE  IInv'
<1> USE DEF FirstSend, Goto, Send, IInv, clientVars, serverVars
<1>1. TypeOK'
  BY MeowFacts DEF TypeOK
<1>2. SingleStartup'
  BY DEF SingleStartup
<1>3. WaitsStarted'
  BY DEF WaitsStarted
<1>4. AcksTruthful'
  BY MeowFacts DEF TypeOK, AcksTruthful
<1>5. UpOnlyIfAcked'
  BY DEF UpOnlyIfAcked
<1> QED BY <1>1, <1>2, <1>3, <1>4, <1>5

\* The packet is sent again.
LEMMA ResendIInv ==
    ASSUME IInv, NEW c \in Callers, Resend(c)
    PROVE  IInv'
<1> USE DEF Resend, Send, IInv, clientVars, serverVars
<1>1. TypeOK'
  BY MeowFacts DEF TypeOK
<1>2. AcksTruthful'
  BY MeowFacts DEF TypeOK, AcksTruthful
<1>3. SingleStartup' /\ WaitsStarted' /\ UpOnlyIfAcked'
  BY DEF SingleStartup, WaitsStarted, UpOnlyIfAcked
<1> QED BY <1>1, <1>2, <1>3

\* A ping succeeds once meowWait is closed.
LEMMA PingSucceedsIInv ==
    ASSUME IInv, NEW c \in Callers, PingSucceeds(c)
    PROVE  IInv'
<1> USE DEF PingSucceeds, Goto, Finish, IInv, clientVars, serverVars
<1>1. TypeOK'
  BY DEF TypeOK
<1>2. SingleStartup'
  BY DEF TypeOK, SingleStartup
<1>3. WaitsStarted'
  BY DEF WaitsStarted
<1>4. UpOnlyIfAcked'
  BY DEF UpOnlyIfAcked
<1>5. AcksTruthful'
  BY DEF AcksTruthful
<1> QED BY <1>1, <1>2, <1>3, <1>4, <1>5

\* A ping gives up.
LEMMA PingTimesOutIInv ==
    ASSUME IInv, NEW c \in Callers, PingTimesOut(c)
    PROVE  IInv'
<1> USE DEF PingTimesOut, Goto, Finish, IInv, clientVars, serverVars
<1>1. TypeOK'
  BY DEF TypeOK
<1>2. SingleStartup'
  BY DEF SingleStartup
<1>3. WaitsStarted'
  BY DEF WaitsStarted
<1>4. UpOnlyIfAcked'
  BY DEF UpOnlyIfAcked
<1>5. AcksTruthful'
  BY DEF AcksTruthful
<1> QED BY <1>1, <1>2, <1>3, <1>4, <1>5

\* A dial ends.
LEMMA DialEndsIInv ==
    ASSUME IInv, NEW c \in Callers, DialEnds(c)
    PROVE  IInv'
<1> USE DEF DialEnds, Goto, Finish, IInv, clientVars, serverVars
<1>1. TypeOK'
  BY DEF TypeOK
<1>2. SingleStartup'
  BY DEF SingleStartup
<1>3. WaitsStarted'
  BY DEF WaitsStarted
<1>4. UpOnlyIfAcked'
  BY DEF UpOnlyIfAcked
<1>5. AcksTruthful'
  BY DEF AcksTruthful
<1> QED BY <1>1, <1>2, <1>3, <1>4, <1>5

\* The engine is closed.
LEMMA CloseIInv ==
    ASSUME IInv, Close
    PROVE  IInv'
<1> USE DEF Close, IInv, clientVars, serverVars
<1>1. TypeOK'
  BY DEF TypeOK
<1>2. SingleStartup'
  BY DEF SingleStartup
<1>3. WaitsStarted' /\ AcksTruthful' /\ UpOnlyIfAcked'
  BY DEF WaitsStarted, AcksTruthful, UpOnlyIfAcked
<1> QED BY <1>1, <1>2, <1>3

\* A new lifetime remembers nothing of the last one's acknowledgments.
LEMMA NewLifeIInv ==
    ASSUME IInv, NewLife
    PROVE  IInv'
<1> USE DEF NewLife, IInv, clientVars, serverVars
<1>1. TypeOK'
  <2>1. life' \in 1..MaxLives
    BY BootstrapAssumption DEF TypeOK
  <2> QED BY <2>1 DEF TypeOK
<1>2. SingleStartup'
  BY BootstrapAssumption DEF SingleStartup
<1>3. WaitsStarted'
  BY DEF WaitsStarted
<1>4. AcksTruthful'
  <2>1. life \in Nat /\ life' = life + 1
    BY DEF TypeOK
  <2>2. \A n \in 1..MaxLives : n <= life => n <= life'
    BY <2>1
  <2> QED BY <2>2 DEF TypeOK, AcksTruthful, Packets
<1>5. UpOnlyIfAcked'
  BY DEF UpOnlyIfAcked
<1> QED BY <1>1, <1>2, <1>3, <1>4, <1>5

\* An acknowledgment is believed only with the nonce of this lifetime.
LEMMA RecvAckIInv ==
    ASSUME IInv, NEW m \in Packets, RecvAck(m)
    PROVE  IInv'
<1> USE DEF RecvAck, NonceMatches, IInv, clientVars, serverVars
<1>1. TypeOK'
  BY DEF TypeOK
<1>2. WaitsStarted'
  BY DEF WaitsStarted
<1>3. UpOnlyIfAcked'
  BY DEF UpOnlyIfAcked, AcksTruthful
<1>4. SingleStartup' /\ AcksTruthful'
  BY DEF SingleStartup, AcksTruthful
<1> QED BY <1>1, <1>2, <1>3, <1>4

\* The server acknowledges the nonce it received.
LEMMA RecvMeowIInv ==
    ASSUME IInv, NEW m \in Packets, RecvMeow(m)
    PROVE  IInv'
<1> USE DEF RecvMeow, Packets, IInv, clientVars, serverVars
<1>1. TypeOK'
  <2>1. [m EXCEPT !.reply = TRUE] \in Packets /\ m.nonce \in 1..MaxLives
    OBVIOUS
  <2> QED BY <2>1 DEF TypeOK
<1>2. AcksTruthful'
  BY DEF AcksTruthful
<1>3. UpOnlyIfAcked'
  BY DEF UpOnlyIfAcked
<1>4. SingleStartup' /\ WaitsStarted'
  BY DEF SingleStartup, WaitsStarted
<1> QED BY <1>1, <1>2, <1>3, <1>4

\* A packet is lost.
LEMMA LoseIInv ==
    ASSUME IInv, NEW m \in Packets, Lose(m)
    PROVE  IInv'
<1> USE DEF Lose, IInv, clientVars, serverVars
<1>1. TypeOK'
  BY DEF TypeOK
<1>2. AcksTruthful'
  BY DEF AcksTruthful
<1>3. SingleStartup' /\ WaitsStarted' /\ UpOnlyIfAcked'
  BY DEF SingleStartup, WaitsStarted, UpOnlyIfAcked
<1> QED BY <1>1, <1>2, <1>3

\* The server forgets the client.
LEMMA ServerForgetsIInv ==
    ASSUME IInv, ServerForgets
    PROVE  IInv'
<1> USE DEF ServerForgets, IInv, clientVars, serverVars
<1>1. TypeOK'
  <2>1. forgets' \in 0..MaxForgets
    BY BootstrapAssumption DEF TypeOK
  <2> QED BY <2>1 DEF TypeOK
<1>2. SingleStartup' /\ WaitsStarted' /\ AcksTruthful' /\ UpOnlyIfAcked'
  BY DEF SingleStartup, WaitsStarted, AcksTruthful, UpOnlyIfAcked
<1> QED BY <1>1, <1>2

\* Every step preserves the invariant.
LEMMA NextIInv == ASSUME IInv, [Next]_vars PROVE IInv'
<1>1. CASE UNCHANGED vars
  BY <1>1 DEF IInv, vars, clientVars, serverVars, TypeOK, SingleStartup, WaitsStarted,
              AcksTruthful, UpOnlyIfAcked
<1>2. CASE Next
  BY <1>2, CallIInv, EnsureStartedIInv, StartFailsIInv, StartSucceedsIInv,
     FirstSendIInv, ResendIInv, PingSucceedsIInv, PingTimesOutIInv, DialEndsIInv,
     CloseIInv, NewLifeIInv, RecvAckIInv, RecvMeowIInv, LoseIInv, ServerForgetsIInv
     DEF Next, CallerStep
<1> QED BY <1>1, <1>2

-----------------------------------------------------------------------------
(* The theorems.                                                           *)

\* The invariant holds in every state of every behaviour.
THEOREM Invariance == Spec => []IInv
BY InitIInv, NextIInv, PTL DEF Spec

\* Every variable keeps its type.
THEOREM TypeCorrect == Spec => []TypeOK
<1>1. IInv => TypeOK
  BY DEF IInv
<1> QED BY <1>1, Invariance, PTL

\* ensureStarted starts a client at most once at a time and never again once
\* it has started, however many callers there are.
THEOREM SingleStartupInvariance == Spec => []SingleStartup
<1>1. IInv => SingleStartup
  BY DEF IInv
<1> QED BY <1>1, Invariance, PTL

\* A client believes it is registered, or dials, only if the server has
\* acknowledged this very lifetime: an acknowledgment on its way is for a
\* nonce the server has seen, and a new lifetime has a new nonce.
THEOREM UpOnlyIfAckedInvariance == Spec => []UpOnlyIfAcked
<1>1. IInv => UpOnlyIfAcked
  BY DEF IInv
<1> QED BY <1>1, Invariance, PTL

-----------------------------------------------------------------------------
(* Rendezvous: the inductive invariant.                                    *)

\* The hosts of the relays among nodes, and whether hosts are meshed.
RelayHosts(nodes) == {nodes[i].host : i \in {j \in DOMAIN nodes : IsRelay(nodes[j])}}
Meshed(hosts) == \A h, g \in hosts : Home[h] = Home[g]

\* The relays that ci leads to; and ci leads to some, meshed with each other.
Dest(ci) ==
    IF ci.region = <<>> THEN RelayHosts(RelayMap[ci.regionID])
    ELSE RelayHosts(ci.region[1].nodes)
Fit(ci) ==
    /\ ci \in ConnInfos
    /\ ci.pub # Zero /\ ci.disco # Zero /\ ci.psk # Zero
    /\ ci.region = <<>> => ci.regionID \in Ids
    /\ Len(ci.region) <= 1
    /\ Dest(ci) # {} /\ Meshed(Dest(ci))

\* Address a leads to the relays of reg, and to none that is not meshed with
\* them.
Points(a, reg) ==
    \E ci \in ParseAddr(a) : Fit(ci) /\ RelayHosts(reg.nodes) \subseteq Dest(ci)

\* A key holds one region at most, with a relay; unless it leaves its region
\* open it holds one or names one.
KeyOK(k) ==
    /\ k.public.pub # Zero /\ k.public.disco # Zero
    /\ Len(k.public.region) <= 1
    /\ k.public.region # <<>> =>
          LET hosts == RelayHosts(k.public.region[1].nodes) IN hosts # {} /\ Meshed(hosts)
    /\ k.from \notin {"auto", "new"} => k.public.region # <<>> \/ k.public.regionID # -1

\* So do the keys in files, in a page and in the hands of a genkey.
SavedKeys ==
    /\ \A n \in KeyNames : file[n].is = "key" => KeyOK(file[n])
    /\ page.is = "key" => KeyOK(page)
    /\ \A g \in Genkeys : gen[g] # Idle => KeyOK(gen[g].key)

\* A printed address is the address of a key that can be saved.
PrintedKeys ==
    \A p \in printed : p.addr = Addr(p.key.public) /\ p.key.from # "new"

\* A server of this kind may give this key this address.
Gives(st) ==
    IF st.kind = "web" THEN st.addr = Addr(st.key.public)
    ELSE \E x \in Expand(st.key.public, ServerMap) :
            x.region # <<>> /\ st.addr = Served(st.key, st.kind, x).addr

\* A running server whose node can relay is where its own address points, and
\* where the address of its key does; both with the exceptions AddressMeets
\* makes.
Found(st) ==
    st.is = "running" /\ HasRelay(st.reg) =>
       /\ (st.kind = "web" /\ st.key.from = "auto") \/ Points(st.addr, st.reg)
       /\ st.key.from \in {"auto", "new"} \/ Points(Addr(st.key.public), st.reg)
ServersFound == \A s \in Servers : Found(server[s])

\* Every first address is one its key can still give.
FirstGiven ==
    \A e \in first : e.key.from \notin {"auto", "new"} /\ KeyOK(e.key) /\ Gives(e)

\* The inductive invariant from which the theorems follow.
MeetIInv == MeetTypeOK /\ SavedKeys /\ PrintedKeys /\ ServersFound /\ FirstGiven /\ KeepsAddress

-----------------------------------------------------------------------------
(* The codec.                                                              *)

\* Smaller numbers, as a relation.
Smaller == {ss \in Nat \X Nat : ss[1] < ss[2]}

\* A set of numbers that holds 0, and the successor of each number it holds,
\* holds them all.
LEMMA Induction ==
    ASSUME NEW S, 0 \in S, \A n \in Nat : n \in S => n + 1 \in S
    PROVE  Nat \subseteq S
<1> SUFFICES ASSUME Nat \ S # {} PROVE FALSE
  OBVIOUS
<1>1. IsWellFoundedOn(Smaller, Nat)
  BY NatLessThanWellFounded, Zenon DEF Smaller, OpToRel
<1>2. PICK x \in Nat \ S : \A y \in Nat \ S : <<y, x>> \notin Smaller
  <2>1. Nat \ S \subseteq Nat
    OBVIOUS
  <2> QED BY <1>1, <2>1, WFMin
<1>3. \A y \in Nat : y < x => <<y, x>> \in Smaller
  BY DEF Smaller
<1>4. x - 1 \in Nat /\ x - 1 < x /\ (x - 1) + 1 = x
  OBVIOUS
<1>5. x - 1 \in S
  BY <1>2, <1>3, <1>4
<1> QED BY <1>4, <1>5

\* A function on 1..n is a sequence.
LEMMA FunSeq ==
    ASSUME NEW S, NEW n \in Nat, NEW f \in [1..n -> S]
    PROVE  f \in Seq(S) /\ Len(f) = n /\ DOMAIN f = 1..n /\ (f = <<>> <=> n = 0)
<1>1. f \in Seq(S)
  BY SeqDef
<1>2. Len(f) = n /\ DOMAIN f = 1..n
  BY <1>1, LenProperties
<1>3. f = <<>> => n = 0
  BY <1>2, EmptySeq
<1>4. n = 0 => f = <<>>
  BY <1>1, <1>2, EmptySeq
<1> QED BY <1>1, <1>2, <1>3, <1>4

\* The relays kept after each node of the loop.
KeptOf(nodes) ==
    LET kept[i \in 0..Len(nodes)] ==
            IF i = 0 THEN <<>>
            ELSE IF IsRelay(nodes[i]) THEN Append(kept[i - 1], nodes[i])
            ELSE kept[i - 1]
    IN kept

\* The recursion is well defined.
LEMMA KeptDef ==
    ASSUME NEW nodes, Len(nodes) \in Nat
    PROVE  /\ Relays(nodes) = KeptOf(nodes)[Len(nodes)]
           /\ KeptOf(nodes)[0] = <<>>
           /\ \A i \in 1..Len(nodes) :
                 KeptOf(nodes)[i] = IF IsRelay(nodes[i])
                                    THEN Append(KeptOf(nodes)[i - 1], nodes[i])
                                    ELSE KeptOf(nodes)[i - 1]
<1> DEFINE Step(s, i) == IF IsRelay(nodes[i]) THEN Append(s, nodes[i]) ELSE s
           Is(f, n) == f = [i \in 0..n |-> IF i = 0 THEN <<>> ELSE Step(f[i - 1], i)]
           S == {n \in Nat : \E f : Is(f, n)}
<1> HIDE DEF Step
<1>1. 0 \in S
  <2>1. Is([i \in 0..0 |-> <<>>], 0)
    OBVIOUS
  <2> QED BY <2>1
<1>2. ASSUME NEW n \in Nat, n \in S PROVE n + 1 \in S
  <2>1. PICK f : Is(f, n)
    BY <1>2
  <2> DEFINE g == [i \in 0..(n + 1) |-> IF i = n + 1 THEN Step(f[n], n + 1) ELSE f[i]]
  <2>2. ASSUME NEW i \in 0..(n + 1)
        PROVE  g[i] = IF i = 0 THEN <<>> ELSE Step(g[i - 1], i)
    <3>1. CASE i = n + 1
      BY <3>1
    <3>2. CASE i # n + 1
      <4>1. i \in 0..n /\ g[i] = f[i] /\ (i # 0 => i - 1 \in 0..n /\ g[i - 1] = f[i - 1])
        BY <3>2
      <4> QED BY <2>1, <4>1
    <3> QED BY <3>1, <3>2
  <2>3. Is(g, n + 1)
    BY <2>2
  <2>4. \E h : Is(h, n + 1)
    BY <2>3
  <2> HIDE DEF Is, g
  <2> QED BY <2>4
<1> HIDE DEF S
<1>3. Len(nodes) \in S
  BY <1>1, <1>2, Induction
<1>4. PICK f : Is(f, Len(nodes))
  BY <1>3 DEF S
<1>5. KeptOf(nodes) = [i \in 0..Len(nodes) |->
                         IF i = 0 THEN <<>>
                         ELSE IF IsRelay(nodes[i])
                         THEN Append(KeptOf(nodes)[i - 1], nodes[i])
                         ELSE KeptOf(nodes)[i - 1]]
  BY <1>4, Zenon DEF KeptOf, Step
<1>6. Relays(nodes) = KeptOf(nodes)[Len(nodes)]
  BY DEF Relays, KeptOf
<1> HIDE DEF Is
<1> DEFINE kept == KeptOf(nodes)
           l == Len(nodes)
<1>7. kept = [i \in 0..l |-> IF i = 0 THEN <<>>
                             ELSE IF IsRelay(nodes[i]) THEN Append(kept[i - 1], nodes[i])
                             ELSE kept[i - 1]]
  BY <1>5
<1> HIDE DEF kept, l
<1>8. l \in Nat
  BY DEF l
<1>9. kept[0] = <<>>
  BY <1>7, <1>8
<1>10. ASSUME NEW i \in 1..l
       PROVE  kept[i] = IF IsRelay(nodes[i]) THEN Append(kept[i - 1], nodes[i])
                        ELSE kept[i - 1]
  <2>1. i \in 0..l /\ i # 0
    BY <1>8
  <2> QED BY <1>7, <2>1, Zenon
<1> QED BY <1>6, <1>9, <1>10 DEF kept, l

\* The loop keeps the hosts of the relays, and those only.
LEMMA RelaysFacts ==
    ASSUME NEW nodes \in Seq(Nodes)
    PROVE  /\ Relays(nodes) \in Seq(Nodes)
           /\ {Relays(nodes)[j].host : j \in 1..Len(Relays(nodes))} = RelayHosts(nodes)
<1> DEFINE kept == KeptOf(nodes)
           HostsTo(n) == {nodes[i].host : i \in {j \in 1..n : IsRelay(nodes[j])}}
           Right(n) == /\ kept[n] \in Seq(Nodes)
                       /\ {kept[n][j].host : j \in 1..Len(kept[n])} = HostsTo(n)
           S == {n \in Nat : n <= Len(nodes) => Right(n)}
<1>0. Len(nodes) \in Nat /\ DOMAIN nodes = 1..Len(nodes)
  BY LenProperties
<1>1. /\ Relays(nodes) = kept[Len(nodes)]
      /\ kept[0] = <<>>
      /\ \A i \in 1..Len(nodes) :
            kept[i] = IF IsRelay(nodes[i]) THEN Append(kept[i - 1], nodes[i])
                      ELSE kept[i - 1]
  BY <1>0, KeptDef
<1> HIDE DEF kept
<1>2. 0 \in S
  <2>1. kept[0] \in Seq(Nodes) /\ Len(kept[0]) = 0
    BY <1>1, EmptySeq
  <2> QED BY <2>1
<1>3. ASSUME NEW n \in Nat, n \in S PROVE n + 1 \in S
  <2> SUFFICES ASSUME n + 1 <= Len(nodes) PROVE Right(n + 1)
    OBVIOUS
  <2>1. n + 1 \in 1..Len(nodes) /\ (n + 1) - 1 = n /\ n <= Len(nodes)
    BY <1>0
  <2>0. Right(n)
    <3> HIDE DEF Right
    <3> QED BY <1>3, <2>1
  <2>2. nodes[n + 1] \in Nodes
    BY <2>1, ElementOfSeq
  <2>3. CASE IsRelay(nodes[n + 1])
    <3>1. kept[n + 1] = Append(kept[n], nodes[n + 1])
      BY <1>1, <2>1, <2>3
    <3>2. /\ kept[n + 1] \in Seq(Nodes)
          /\ Len(kept[n + 1]) = Len(kept[n]) + 1
          /\ Len(kept[n]) \in Nat
          /\ \A j \in 1..Len(kept[n]) : kept[n + 1][j] = kept[n][j]
          /\ kept[n + 1][Len(kept[n]) + 1] = nodes[n + 1]
      BY <2>0, <2>2, <3>1
    <3>3. {kept[n + 1][j].host : j \in 1..Len(kept[n + 1])}
            = {kept[n][j].host : j \in 1..Len(kept[n])} \cup {nodes[n + 1].host}
      <4> DEFINE l == Len(kept[n])
      <4>1. 1..Len(kept[n + 1]) = 1..l \cup {l + 1}
        BY <3>2
      <4> HIDE DEF l
      <4> QED BY <3>2, <4>1 DEF l
    <3>4. HostsTo(n + 1) = HostsTo(n) \cup {nodes[n + 1].host}
      <4>1. 1..(n + 1) = 1..n \cup {n + 1}
        OBVIOUS
      <4> QED BY <4>1, <2>3
    <3> HIDE DEF HostsTo
    <3> QED BY <2>0, <3>2, <3>3, <3>4
  <2>4. CASE ~IsRelay(nodes[n + 1])
    <3>1. kept[n + 1] = kept[n]
      BY <1>1, <2>1, <2>4
    <3>2. HostsTo(n + 1) = HostsTo(n)
      <4>1. 1..(n + 1) = 1..n \cup {n + 1}
        OBVIOUS
      <4> QED BY <4>1, <2>4
    <3> HIDE DEF HostsTo
    <3> QED BY <2>0, <3>1, <3>2
  <2> QED BY <2>3, <2>4
<1> HIDE DEF S
<1>4. Len(nodes) \in S
  BY <1>0, <1>2, <1>3, Induction
<1>5. Right(Len(nodes))
  <2> HIDE DEF Right
  <2> QED BY <1>0, <1>4 DEF S
<1>6. HostsTo(Len(nodes)) = RelayHosts(nodes)
  BY <1>0 DEF RelayHosts
<1> HIDE DEF HostsTo
<1> QED BY <1>1, <1>5, <1>6

\* Encoding a region and decoding it keeps the hosts of its relays.
LEMMA RegionFacts ==
    ASSUME NEW r, r.nodes \in Seq(Nodes), NEW i \in Int
    PROVE  /\ wireRegionOf(r) \in Seq([name : Names, host : STRING])
           /\ derpRegion(i, wireRegionOf(r)) \in Regions
           /\ derpRegion(i, wireRegionOf(r)).id = i
           /\ RelayHosts(derpRegion(i, wireRegionOf(r)).nodes) = RelayHosts(r.nodes)
<1> DEFINE kept == Relays(r.nodes)
           w == wireRegionOf(r)
           d == derpRegion(i, w)
<1>1. kept \in Seq(Nodes) /\ {kept[j].host : j \in 1..Len(kept)} = RelayHosts(r.nodes)
  BY RelaysFacts
<1>2. Len(kept) \in Nat /\ DOMAIN kept = 1..Len(kept)
  BY <1>1, LenProperties
<1>3. \A j \in 1..Len(kept) : kept[j] \in Nodes
  BY <1>1, ElementOfSeq
<1>4. w = [j \in 1..Len(kept) |-> [name |-> IF kept[j].host # "" THEN NoName ELSE kept[j].name,
                                   host |-> kept[j].host]]
  BY <1>2 DEF wireRegionOf
<1> HIDE DEF kept, w
<1>5. w \in [1..Len(kept) -> [name : Names, host : STRING]]
  <2>1. ASSUME NEW j \in 1..Len(kept)
        PROVE  [name |-> IF kept[j].host # "" THEN NoName ELSE kept[j].name,
                host |-> kept[j].host] \in [name : Names, host : STRING]
    <3>1. NoName \in Names
      BY DEF Names
    <3>2. kept[j].name \in Names /\ kept[j].host \in STRING
      BY <1>3 DEF Nodes
    <3>3. (IF kept[j].host # "" THEN NoName ELSE kept[j].name) \in Names
      BY <3>1, <3>2, Zenon
    <3> QED BY <3>2, <3>3
  <2> QED BY <1>4, <2>1
<1>6. w \in Seq([name : Names, host : STRING]) /\ DOMAIN w = 1..Len(kept)
  BY <1>2, <1>5, FunSeq
<1>7. d.nodes = [j \in 1..Len(kept) |->
                   Node(IF w[j].name = NoName THEN w[j].host ELSE w[j].name, w[j].host, FALSE)]
  BY <1>6 DEF derpRegion, DerpRegion
<1>8. d = [id |-> i, nodes |-> d.nodes]
  BY DEF derpRegion, DerpRegion
<1> DEFINE nodes == d.nodes
<1>9. nodes \in [1..Len(kept) -> Nodes]
  BY <1>5, <1>7 DEF Node, Nodes, Names
<1>10. nodes \in Seq(Nodes) /\ DOMAIN nodes = 1..Len(kept)
  <2> HIDE DEF nodes
  <2> QED BY <1>2, <1>9, FunSeq
<1>11. \A j \in 1..Len(kept) : IsRelay(nodes[j]) /\ nodes[j].host = kept[j].host
  <2> SUFFICES ASSUME NEW j \in 1..Len(kept)
               PROVE  IsRelay(nodes[j]) /\ nodes[j].host = kept[j].host
    OBVIOUS
  <2>1. w[j].host = kept[j].host
    BY <1>4
  <2>2. nodes[j] = Node(IF w[j].name = NoName THEN w[j].host ELSE w[j].name, w[j].host, FALSE)
    BY <1>7
  <2> HIDE DEF nodes
  <2> QED BY <2>1, <2>2 DEF Node, IsRelay
<1>12. RelayHosts(nodes) = {kept[j].host : j \in 1..Len(kept)}
  <2> HIDE DEF nodes
  <2> QED BY <1>10, <1>11 DEF RelayHosts
<1>13. d \in Regions /\ d.id = i
  <2> HIDE DEF d
  <2> QED BY <1>8, <1>10 DEF Regions
<1> QED BY <1>1, <1>6, <1>12, <1>13 DEF w

\* What an address made from ci decodes to.
Back(ci) ==
    ConnInfo(ci.pub, ci.disco, ci.psk, ci.regionID,
             [i \in DOMAIN ci.region |-> derpRegion(i, wireRegionOf(ci.region[i]))])

\* An address decodes to the keys, the region ID and, region by region, the
\* hosts of the relays that it was made from; without one of the three keys it
\* does not decode (ConnInfo.Addr, parseWire, ParseAddr).
THEOREM RoundTrip ==
    ASSUME NEW ci \in ConnInfos
    PROVE  /\ Addr(ci) \in Addresses
           /\ ParseAddr(Addr(ci)) =
                 IF ci.pub # Zero /\ ci.disco # Zero /\ ci.psk # Zero THEN {Back(ci)} ELSE {}
           /\ Back(ci) \in ConnInfos
           /\ Len(Back(ci).region) = Len(ci.region)
           /\ \A i \in DOMAIN ci.region :
                 RelayHosts(Back(ci).region[i].nodes) = RelayHosts(ci.region[i].nodes)
<1> DEFINE rs == ci.region
           wires == [i \in DOMAIN rs |-> wireRegionOf(rs[i])]
           back == [i \in DOMAIN rs |-> derpRegion(i, wireRegionOf(rs[i]))]
<1>1. rs \in Seq(Regions) /\ ci.pub \in Nat /\ ci.disco \in Nat /\ ci.psk \in Nat /\ ci.regionID \in Int
  BY DEF ConnInfos
<1>2. Len(rs) \in Nat /\ DOMAIN rs = 1..Len(rs) /\ \A i \in 1..Len(rs) : rs[i] \in Regions
  BY <1>1, LenProperties, ElementOfSeq
<1>3. ASSUME NEW i \in 1..Len(rs)
      PROVE  /\ wireRegionOf(rs[i]) \in Seq([name : Names, host : STRING])
             /\ derpRegion(i, wireRegionOf(rs[i])) \in Regions
             /\ RelayHosts(derpRegion(i, wireRegionOf(rs[i])).nodes) = RelayHosts(rs[i].nodes)
  <2>1. rs[i].nodes \in Seq(Nodes) /\ i \in Int
    BY <1>2 DEF Regions
  <2> QED BY <2>1, RegionFacts
<1>4. wires \in [1..Len(rs) -> Seq([name : Names, host : STRING])]
      /\ back \in [1..Len(rs) -> Regions]
  BY <1>2, <1>3
<1>5. /\ wires \in Seq(Seq([name : Names, host : STRING]))
      /\ back \in Seq(Regions) /\ Len(back) = Len(rs)
  <2> HIDE DEF wires, back
  <2> QED BY <1>2, <1>4, FunSeq
<1>6. Addr(ci) = [version |-> Version, pub |-> ci.pub, disco |-> ci.disco, psk |-> ci.psk,
                  regionID |-> ci.regionID, region |-> wires]
  BY DEF Addr
<1>7. /\ Addr(ci) \in Addresses
      /\ parseWire(Addr(ci)) <=> ci.pub # Zero /\ ci.disco # Zero /\ ci.psk # Zero
  <2> HIDE DEF wires
  <2> QED BY <1>1, <1>5, <1>6 DEF Addresses, parseWire
<1>8. Back(ci) = ConnInfo(ci.pub, ci.disco, ci.psk, ci.regionID, back)
  BY DEF Back
<1>9. [i \in DOMAIN Addr(ci).region |-> derpRegion(i, Addr(ci).region[i])] = back
  <2>1. Addr(ci).region = wires /\ DOMAIN wires = DOMAIN rs
    BY <1>6
  <2>2. \A i \in DOMAIN rs : wires[i] = wireRegionOf(rs[i])
    OBVIOUS
  <2> HIDE DEF wires
  <2> QED BY <2>1, <2>2
<1>10. ParseAddr(Addr(ci)) =
          IF ci.pub # Zero /\ ci.disco # Zero /\ ci.psk # Zero THEN {Back(ci)} ELSE {}
  <2> HIDE DEF back, wires
  <2> QED BY <1>6, <1>7, <1>8, <1>9 DEF ParseAddr
<1>11. Back(ci) \in ConnInfos /\ Len(Back(ci).region) = Len(rs)
  <2> HIDE DEF back
  <2> QED BY <1>1, <1>5, <1>8 DEF ConnInfo, ConnInfos
<1>12. \A i \in DOMAIN rs : Back(ci).region[i] = derpRegion(i, wireRegionOf(rs[i]))
  BY <1>8 DEF ConnInfo
<1> QED BY <1>2, <1>3, <1>7, <1>10, <1>11, <1>12

\* So an address leads to the relays that what it was made from leads to.
LEMMA RoundTripFits ==
    ASSUME NEW ci, Fit(ci)
    PROVE  /\ Addr(ci) \in Addresses
           /\ ParseAddr(Addr(ci)) = {Back(ci)}
           /\ Fit(Back(ci)) /\ Dest(Back(ci)) = Dest(ci)
<1> USE DEF Fit
<1>1. ci \in ConnInfos /\ ci.region \in Seq(Regions)
  BY DEF ConnInfos
<1> DEFINE back == Back(ci)
<1>2. /\ Addr(ci) \in Addresses
      /\ ParseAddr(Addr(ci)) = {back}
      /\ back \in ConnInfos
      /\ Len(back.region) = Len(ci.region)
      /\ \A i \in DOMAIN ci.region :
            RelayHosts(back.region[i].nodes) = RelayHosts(ci.region[i].nodes)
  BY <1>1, RoundTrip
<1>3. /\ back.pub = ci.pub /\ back.disco = ci.disco /\ back.psk = ci.psk
      /\ back.regionID = ci.regionID
  BY DEF Back, ConnInfo
<1> HIDE DEF back
<1>4. back.region \in Seq(Regions)
  BY <1>2 DEF ConnInfos
<1>5. back.region = <<>> <=> ci.region = <<>>
  BY <1>1, <1>2, <1>4, EmptySeq
<1>6. Dest(back) = Dest(ci)
  <2>1. CASE ci.region = <<>>
    BY <2>1, <1>3, <1>5 DEF Dest
  <2>2. CASE ci.region # <<>>
    <3>1. 1 \in DOMAIN ci.region
      BY <2>2, <1>1, EmptySeq, LenProperties
    <3> QED BY <2>2, <3>1, <1>2, <1>5 DEF Dest
  <2> QED BY <2>1, <2>2
<1>7. Fit(back)
  BY <1>2, <1>3, <1>5, <1>6
<1> QED BY <1>2, <1>6, <1>7 DEF back

-----------------------------------------------------------------------------
(* The choice of a region.                                                 *)

\* The first nodes of a region are nodes of it.
LEMMA FirstFacts ==
    ASSUME NEW nodes \in Seq(Nodes), NEW n \in Nat
    PROVE  /\ First(nodes, n) \in Seq(Nodes)
           /\ Len(First(nodes, n)) <= n
           /\ RelayHosts(First(nodes, n)) \subseteq RelayHosts(nodes)
<1> DEFINE l == IF Len(nodes) < n THEN Len(nodes) ELSE n
           s == SubSeq(nodes, 1, l)
<1>1. Len(nodes) \in Nat /\ DOMAIN nodes = 1..Len(nodes)
  BY LenProperties
<1>2. l \in Nat /\ l <= Len(nodes) /\ l <= n
  BY <1>1
<1>3. First(nodes, n) = s
  BY DEF First
<1> HIDE DEF l
<1>4. \A i \in 1..l : i \in 1..Len(nodes) /\ nodes[i] \in Nodes
  BY <1>1, <1>2, ElementOfSeq
<1>5. s \in Seq(Nodes) /\ Len(s) = l /\ \A i \in 1..l : s[i] = nodes[i]
  <2>1. /\ s \in Seq(Nodes)
        /\ Len(s) = IF 1 <= l THEN l - 1 + 1 ELSE 0
        /\ \A i \in 1..(l - 1 + 1) : s[i] = nodes[1 + i - 1]
    BY <1>2, <1>4, SubSeqProperties
  <2>2. l - 1 + 1 = l /\ (~(1 <= l) => l = 0)
    BY <1>2
  <2>3. ASSUME NEW i \in 1..l PROVE s[i] = nodes[i]
    <3>1. 1 + i - 1 = i
      BY <1>2
    <3> QED BY <2>1, <2>2, <3>1
  <2> QED BY <2>1, <2>2, <2>3
<1>6. DOMAIN s = 1..l
  BY <1>5, LenProperties
<1> HIDE DEF s
<1>7. RelayHosts(s) \subseteq RelayHosts(nodes)
  BY <1>1, <1>4, <1>5, <1>6 DEF RelayHosts
<1> QED BY <1>2, <1>3, <1>5, <1>7

\* A region has a relay exactly if one of its hosts is a relay's.
LEMMA HasRelayHosts == \A r : HasRelay(r) <=> RelayHosts(r.nodes) # {}
BY DEF HasRelay, RelayHosts

\* What the DERP map says of a region.
LEMMA MapFacts ==
    ASSUME NEW id \in Ids
    PROVE  /\ id \in Int /\ id # 0 /\ id # -1
           /\ RelayMap[id] \in Seq(Nodes)
           /\ First(RelayMap[id], Keep) \in Seq(Nodes)
           /\ RelayHosts(First(RelayMap[id], Keep)) # {}
           /\ RelayHosts(First(RelayMap[id], Keep)) \subseteq RelayHosts(RelayMap[id])
           /\ RelayHosts(RelayMap[id]) # {}
           /\ Meshed(RelayHosts(RelayMap[id]))
<1>1. /\ id \in Nat \ {0}
      /\ RelayMap[id] \in Seq(Nodes)
      /\ HasRelay(DerpRegion(id, First(RelayMap[id], Keep)))
  BY MapAssumption
<1>2. RelayHosts(First(RelayMap[id], Keep)) # {}
  <2>1. DerpRegion(id, First(RelayMap[id], Keep)).nodes = First(RelayMap[id], Keep)
    BY DEF DerpRegion
  <2> QED BY <1>1, <2>1, HasRelayHosts
<1>3. /\ First(RelayMap[id], Keep) \in Seq(Nodes)
      /\ RelayHosts(First(RelayMap[id], Keep)) \subseteq RelayHosts(RelayMap[id])
  <2>1. Keep \in Nat
    BY DEF Keep
  <2> QED BY <1>1, <2>1, FirstFacts
<1>4. \A i, j \in DOMAIN RelayMap[id] :
         Home[RelayMap[id][i].host] = Home[RelayMap[id][j].host]
  BY RendezvousAssumption
<1>5. Meshed(RelayHosts(RelayMap[id]))
  BY <1>4 DEF Meshed, RelayHosts
<1> QED BY <1>1, <1>2, <1>3, <1>5

\* Filling in region IDs changes nothing else.
LEMMA FillFacts ==
    ASSUME NEW ci \in ConnInfos
    PROVE  /\ FillIDs(ci) \in ConnInfos
           /\ FillIDs(ci).pub = ci.pub /\ FillIDs(ci).disco = ci.disco
           /\ FillIDs(ci).psk = ci.psk /\ FillIDs(ci).regionID = ci.regionID
           /\ Len(FillIDs(ci).region) = Len(ci.region)
           /\ FillIDs(ci).region = <<>> <=> ci.region = <<>>
           /\ \A i \in DOMAIN ci.region : FillIDs(ci).region[i].nodes = ci.region[i].nodes
<1> DEFINE rs == ci.region
           filled == [i \in DOMAIN rs |-> DerpRegion(IF rs[i].id = 0 THEN 1 ELSE rs[i].id, rs[i].nodes)]
<1>1. rs \in Seq(Regions)
  BY DEF ConnInfos
<1>2. Len(rs) \in Nat /\ DOMAIN rs = 1..Len(rs) /\ \A i \in 1..Len(rs) : rs[i] \in Regions
  BY <1>1, LenProperties, ElementOfSeq
<1>3. FillIDs(ci) = [ci EXCEPT !.region = filled]
  BY DEF FillIDs
<1>4. \A i \in 1..Len(rs) : filled[i] \in Regions /\ filled[i].nodes = rs[i].nodes
  BY <1>2 DEF Regions, DerpRegion
<1>5. filled \in [1..Len(rs) -> Regions]
  BY <1>2, <1>4
<1> HIDE DEF filled
<1>6. filled \in Seq(Regions) /\ Len(filled) = Len(rs) /\ (filled = <<>> <=> Len(rs) = 0)
  BY <1>2, <1>5, FunSeq
<1>7. rs = <<>> <=> Len(rs) = 0
  BY <1>1, EmptySeq
<1>8. FillIDs(ci).region = filled /\ FillIDs(ci) \in ConnInfos
  BY <1>3, <1>6 DEF ConnInfos
<1> QED BY <1>2, <1>3, <1>4, <1>6, <1>7, <1>8 DEF ConnInfos

\* A sequence of one.
LEMMA OneSeq ==
    ASSUME NEW S, NEW e \in S
    PROVE  <<e>> \in Seq(S) /\ Len(<<e>>) = 1 /\ <<e>>[1] = e /\ <<e>> # <<>>
OBVIOUS

\* Expanding an address that fits gives its region, and one only.
LEMMA ExpandFits ==
    ASSUME NEW ci, Fit(ci)
    PROVE  /\ Expand(ci, RelayMap) # {}
           /\ \A y \in Expand(ci, RelayMap) :
                 /\ y \in ConnInfos /\ Len(y.region) = 1 /\ y.region # <<>>
                 /\ y.pub = ci.pub /\ y.disco = ci.disco /\ y.psk = ci.psk
                 /\ RelayHosts(y.region[1].nodes) = Dest(ci)
                 /\ ci.region = <<>> =>
                       y.region = <<DerpRegion(ci.regionID, RelayMap[ci.regionID])>>
<1> DEFINE filled == FillIDs(ci)
<1> USE DEF Fit
<1>1. ci.region \in Seq(Regions) /\ ci.regionID \in Int
  BY DEF ConnInfos
<1>2. /\ filled \in ConnInfos
      /\ filled.pub = ci.pub /\ filled.disco = ci.disco /\ filled.psk = ci.psk
      /\ Len(filled.region) = Len(ci.region)
      /\ filled.region = <<>> <=> ci.region = <<>>
      /\ \A i \in DOMAIN ci.region : filled.region[i].nodes = ci.region[i].nodes
  BY FillFacts
<1>3. CASE ci.region # <<>>
  <2>1. Expand(ci, RelayMap) = {filled}
    BY <1>3 DEF Expand
  <2>2. Len(ci.region) = 1 /\ 1 \in DOMAIN ci.region
    <3>1. Len(ci.region) \in Nat \ {0} /\ Len(ci.region) <= 1
      BY <1>1, <1>3, EmptySeq
    <3>2. DOMAIN ci.region = 1..Len(ci.region)
      BY <1>1, LenProperties
    <3> DEFINE l == Len(ci.region)
    <3>3. l \in Nat \ {0} /\ l <= 1
      BY <3>1
    <3> HIDE DEF Fit, l
    <3>4. l = 1 /\ 1 \in 1..l
      BY <3>3
    <3> QED BY <3>2, <3>4 DEF l
  <2>3. RelayHosts(filled.region[1].nodes) = Dest(ci)
    BY <1>2, <1>3, <2>2 DEF Dest
  <2> HIDE DEF filled, Fit
  <2> QED BY <1>2, <1>3, <2>1, <2>2, <2>3
<1>4. CASE ci.region = <<>>
  <2> DEFINE id == ci.regionID
             region == <<DerpRegion(id, RelayMap[id])>>
  <2>1. id \in Ids /\ id # 0 /\ id # -1 /\ id \in Int /\ RelayMap[id] \in Seq(Nodes)
    BY <1>4, MapFacts
  <2> HIDE DEF filled
  <2>2. Expand(ci, RelayMap) = {[filled EXCEPT !.region = region]}
    BY <1>4, <2>1, Zenon DEF Expand, Ids, filled
  <2>3. DerpRegion(id, RelayMap[id]) \in Regions /\ DerpRegion(id, RelayMap[id]).nodes = RelayMap[id]
    BY <2>1 DEF DerpRegion, Regions
  <2>4. region \in Seq(Regions) /\ Len(region) = 1 /\ region # <<>> /\ region[1].nodes = RelayMap[id]
    BY <2>3, OneSeq
  <2>5. Dest(ci) = RelayHosts(RelayMap[id])
    BY <1>4 DEF Dest
  <2> HIDE DEF region, Fit, id
  <2>6. /\ [filled EXCEPT !.region = region] \in ConnInfos
        /\ [filled EXCEPT !.region = region].region = region
        /\ [filled EXCEPT !.region = region].pub = filled.pub
        /\ [filled EXCEPT !.region = region].disco = filled.disco
        /\ [filled EXCEPT !.region = region].psk = filled.psk
    BY <1>2, <2>4 DEF ConnInfos
  <2> QED BY <1>2, <2>2, <2>4, <2>5, <2>6 DEF region, id
<1> QED BY <1>3, <1>4

\* Every region a client may run with, from an address that decodes to ci,
\* has the relays of ci (Client.ensureStarted).
LEMMA ClientFits ==
    ASSUME NEW a, NEW ci, ParseAddr(a) = {ci}, Fit(ci)
    PROVE  /\ ClientRegions(a) # {}
           /\ \A r \in ClientRegions(a) : RelayHosts(r.nodes) = Dest(ci)
<1>1. ClientRegions(a) = UNION {{x.region[i] : i \in DOMAIN x.region} : x \in Expand(ci, RelayMap)}
  BY DEF ClientRegions
<1>2. /\ Expand(ci, RelayMap) # {}
      /\ \A y \in Expand(ci, RelayMap) :
            y \in ConnInfos /\ Len(y.region) = 1 /\ RelayHosts(y.region[1].nodes) = Dest(ci)
  BY ExpandFits
<1>3. \A y \in Expand(ci, RelayMap) : DOMAIN y.region = {1}
  <2> SUFFICES ASSUME NEW y \in Expand(ci, RelayMap) PROVE DOMAIN y.region = {1}
    OBVIOUS
  <2>1. y.region \in Seq(Regions) /\ Len(y.region) = 1
    BY <1>2 DEF ConnInfos
  <2>2. DOMAIN y.region = 1..1
    BY <2>1, LenProperties
  <2> QED BY <2>2
<1> QED BY <1>1, <1>2, <1>3

\* Resolving an address leaves it some of its relays, and no others.
LEMMA ResolveFits ==
    ASSUME NEW a, NEW ci, ParseAddr(a) = {ci}, Fit(ci), NEW b \in Resolve(a)
    PROVE  \E c : ParseAddr(b) = {c} /\ Fit(c) /\ Dest(c) \subseteq Dest(ci)
<1>1. CASE ci.region # <<>>
  <2>1. b = a
    BY <1>1 DEF Resolve
  <2> QED BY <2>1
<1>2. CASE ci.region = <<>>
  <2> DEFINE id == ci.regionID
             nodes == First(RelayMap[id], Keep)
             region == <<DerpRegion(id, nodes)>>
             cut(x) == [x EXCEPT !.regionID = 0,
                          !.region = [i \in DOMAIN @ |->
                             DerpRegion(@[i].id, First(@[i].nodes, Keep))]]
  <2>1. id \in Ids /\ Dest(ci) = RelayHosts(RelayMap[id])
    BY <1>2 DEF Fit, Dest
  <2>2. /\ id \in Int /\ nodes \in Seq(Nodes)
        /\ RelayHosts(nodes) # {} /\ RelayHosts(nodes) \subseteq Dest(ci)
    BY <2>1, MapFacts
  <2>3. PICK x \in Expand(ci, RelayMap) : b = Addr(cut(x))
    BY <1>2 DEF Resolve
  <2>4. /\ x \in ConnInfos /\ x.pub = ci.pub /\ x.disco = ci.disco /\ x.psk = ci.psk
        /\ x.region = <<DerpRegion(id, RelayMap[id])>>
    BY <1>2, <2>3, ExpandFits
  <2> HIDE DEF nodes, id
  <2>5. cut(x) = [x EXCEPT !.regionID = 0, !.region = region]
    <3>1. [i \in DOMAIN x.region |-> DerpRegion(x.region[i].id, First(x.region[i].nodes, Keep))]
            = region
      <4>1. x.region[1].id = id /\ First(x.region[1].nodes, Keep) = nodes
        BY <2>4 DEF DerpRegion, nodes
      <4> QED BY <2>4, <4>1
    <3> HIDE DEF region
    <3> QED BY <3>1
  <2>6. DerpRegion(id, nodes) \in Regions /\ DerpRegion(id, nodes).nodes = nodes
    BY <2>2 DEF DerpRegion, Regions
  <2>7. /\ region \in Seq(Regions) /\ Len(region) = 1 /\ region # <<>>
        /\ region[1].nodes = nodes
    BY <2>6, OneSeq
  <2> HIDE DEF region, cut
  <2> DEFINE z == cut(x)
  <2>8. /\ z \in ConnInfos /\ z.region = region
        /\ z.pub = ci.pub /\ z.disco = ci.disco /\ z.psk = ci.psk
    <3>1. z = [x EXCEPT !.regionID = 0, !.region = region]
      BY <2>5
    <3> HIDE DEF z
    <3>2. x \in ConnInfos /\ region \in Seq(Regions) /\ 0 \in Int
      BY <2>4, <2>7
    <3>3. z \in ConnInfos
      BY <3>1, <3>2 DEF ConnInfos
    <3>4. z.region = region /\ z.pub = x.pub /\ z.disco = x.disco /\ z.psk = x.psk
      BY <3>1, <3>2 DEF ConnInfos
    <3> QED BY <2>4, <3>3, <3>4
  <2> HIDE DEF z
  <2>9. Dest(z) = RelayHosts(nodes)
    BY <2>7, <2>8 DEF Dest
  <2>10. Fit(z)
    <3>1. Dest(z) # {} /\ Meshed(Dest(z))
      <4>1. Meshed(Dest(ci))
        BY DEF Fit
      <4>2. Dest(z) \subseteq Dest(ci)
        BY <2>2, <2>9
      <4> QED BY <2>2, <2>9, <4>1, <4>2 DEF Meshed
    <3>2. z.pub # Zero /\ z.disco # Zero /\ z.psk # Zero
      BY <2>8 DEF Fit
    <3>3. z.region # <<>> /\ Len(z.region) <= 1
      <4>1. z.region # <<>> /\ Len(z.region) = 1
        BY <2>7, <2>8
      <4> QED BY <4>1
    <3> QED BY <2>8, <3>1, <3>2, <3>3 DEF Fit
  <2>11. ParseAddr(Addr(z)) = {Back(z)} /\ Fit(Back(z)) /\ Dest(Back(z)) = Dest(z)
    BY <2>10, RoundTripFits
  <2> QED BY <2>2, <2>3, <2>9, <2>11 DEF z
<1> QED BY <1>1, <1>2

\* An address that points at region reg leads every client to a relay that
\* is meshed with those of reg.
LEMMA PointsLeads ==
    ASSUME NEW a, NEW s, Points(a, server[s].reg), HasRelay(server[s].reg)
    PROVE  LeadsTo(a, s)
<1> DEFINE reg == server[s].reg
<1>1. PICK ci \in ParseAddr(a) : Fit(ci) /\ RelayHosts(reg.nodes) \subseteq Dest(ci)
  BY DEF Points
<1>2. ParseAddr(a) = {ci}
  BY <1>1 DEF ParseAddr
<1>3. RelayHosts(reg.nodes) # {} /\ Meshed(Dest(ci))
  BY <1>1, HasRelayHosts DEF Fit
<1> SUFFICES ASSUME NEW b \in {a} \cup Resolve(a)
             PROVE  ClientRegions(b) # {} /\ \A r \in ClientRegions(b) : SameRelay(r, reg)
  BY DEF LeadsTo
<1> HIDE DEF reg
<1>4. PICK c : ParseAddr(b) = {c} /\ Fit(c) /\ Dest(c) \subseteq Dest(ci)
  BY <1>1, <1>2, ResolveFits
<1>5. /\ ClientRegions(b) # {}
      /\ \A r \in ClientRegions(b) : RelayHosts(r.nodes) = Dest(c)
  BY <1>4, ClientFits
<1>6. ASSUME NEW r \in ClientRegions(b) PROVE SameRelay(r, reg)
  <2>1. RelayHosts(r.nodes) # {} /\ RelayHosts(r.nodes) \subseteq Dest(ci)
    BY <1>4, <1>5 DEF Fit
  <2>2. PICK i \in DOMAIN r.nodes : IsRelay(r.nodes[i]) /\ r.nodes[i].host \in Dest(ci)
    BY <2>1 DEF RelayHosts
  <2>3. PICK j \in DOMAIN reg.nodes : IsRelay(reg.nodes[j]) /\ reg.nodes[j].host \in Dest(ci)
    BY <1>1, <1>3 DEF RelayHosts, reg
  <2>4. Home[r.nodes[i].host] = Home[reg.nodes[j].host]
    BY <1>3, <2>2, <2>3 DEF Meshed
  <2> QED BY <2>2, <2>3, <2>4 DEF SameRelay
<1> QED BY <1>5, <1>6

\* An address made from what fits points where that leads.
LEMMA FitPoints ==
    ASSUME NEW ci, Fit(ci), NEW reg, RelayHosts(reg.nodes) \subseteq Dest(ci)
    PROVE  Points(Addr(ci), reg)
BY RoundTripFits DEF Points

\* A shuffle brings in no host.
LEMMA ShuffleFacts ==
    ASSUME NEW nodes \in Seq(Nodes), NEW s \in Shuffles(nodes)
    PROVE  s \in Seq(Nodes) /\ RelayHosts(s) \subseteq RelayHosts(nodes)
<1>1. PICK p \in [DOMAIN nodes -> DOMAIN nodes] : s = [i \in DOMAIN nodes |-> nodes[p[i]]]
  BY DEF Shuffles
<1>2. /\ Len(nodes) \in Nat /\ DOMAIN nodes = 1..Len(nodes)
      /\ \A i \in DOMAIN nodes : nodes[i] \in Nodes
  BY LenProperties, ElementOfSeq
<1>3. s \in [1..Len(nodes) -> Nodes]
  BY <1>1, <1>2
<1>4. s \in Seq(Nodes)
  BY <1>2, <1>3, FunSeq
<1>5. DOMAIN s = DOMAIN nodes /\ \A i \in DOMAIN s : p[i] \in DOMAIN nodes /\ s[i] = nodes[p[i]]
  BY <1>1
<1> QED BY <1>4, <1>5 DEF RelayHosts

\* A region picked by latency, or at random, is a region of the map.
LEMMA AutoFacts ==
    ASSUME NEW r \in AutoRegions(ServerMap)
    PROVE  /\ r \in Regions /\ r.id \in Ids
           /\ RelayHosts(r.nodes) \subseteq RelayHosts(RelayMap[r.id])
<1>1. DOMAIN ServerMap = ServerIDs /\ ServerIDs \subseteq Ids
  BY MapAssumption DEF ServerMap
<1>2. PICK id \in ServerIDs : \E nodes \in Shuffles(ServerMap[id]) : r = DerpRegion(id, nodes)
  BY <1>1 DEF AutoRegions, PickBestRegion
<1>3. PICK nodes \in Shuffles(RelayMap[id]) : r = DerpRegion(id, nodes)
  BY <1>2 DEF ServerMap
<1>4. id \in Ids /\ id \in Int /\ RelayMap[id] \in Seq(Nodes)
  BY <1>1, MapFacts
<1>5. nodes \in Seq(Nodes) /\ RelayHosts(nodes) \subseteq RelayHosts(RelayMap[id])
  BY <1>4, ShuffleFacts
<1>6. r.id = id /\ r.nodes = nodes /\ r \in Regions
  BY <1>3, <1>4, <1>5 DEF DerpRegion, Regions
<1> QED BY <1>4, <1>5, <1>6

\* What a server, or genkey, expands a key to: the key's own region, the one
\* it names, or one picked from the map.
LEMMA ServerExpands ==
    ASSUME NEW ci \in ConnInfos, NEW x \in Expand(ci, ServerMap), x.region # <<>>
    PROVE  /\ x.region[1] \in Regions
           /\ ci.region # <<>> =>
                 RelayHosts(x.region[1].nodes) = RelayHosts(ci.region[1].nodes)
           /\ ci.region = <<>> =>
                 /\ x.region[1].id \in Ids
                 /\ ci.regionID # -1 => x.region[1].id = ci.regionID
                 /\ RelayHosts(x.region[1].nodes) \subseteq RelayHosts(RelayMap[x.region[1].id])
<1> DEFINE filled == FillIDs(ci)
<1>1. /\ filled \in ConnInfos
      /\ filled.region = <<>> <=> ci.region = <<>>
      /\ \A i \in DOMAIN ci.region : filled.region[i].nodes = ci.region[i].nodes
  BY FillFacts
<1> HIDE DEF filled
<1>2. CASE ci.region # <<>>
  <2>1. x = filled
    BY <1>2 DEF Expand, filled
  <2>2. filled.region \in Seq(Regions) /\ ci.region \in Seq(Regions)
    BY <1>1 DEF ConnInfos
  <2>3. 1 \in 1..Len(filled.region) /\ 1 \in DOMAIN ci.region
    BY <1>1, <1>2, <2>2, EmptySeq, LenProperties
  <2>4. filled.region[1] \in Regions
    BY <2>2, <2>3, ElementOfSeq
  <2> QED BY <1>1, <1>2, <2>1, <2>3, <2>4
<1>3. CASE ci.region = <<>>
  <2>1. ci.regionID # 0
    <3> SUFFICES ASSUME ci.regionID = 0 PROVE FALSE
      OBVIOUS
    <3>1. x = filled
      BY DEF Expand, filled
    <3> QED BY <1>1, <1>3, <3>1
  <2>2. CASE ci.regionID = -1
    <3>1. PICK r \in AutoRegions(ServerMap) : x = [filled EXCEPT !.regionID = 0, !.region = <<r>>]
      BY <1>3, <2>1, <2>2, Zenon DEF Expand, filled
    <3>2. x.region[1] = r
      BY <1>1, <3>1 DEF ConnInfos
    <3> QED BY <1>3, <2>2, <3>2, AutoFacts
  <2>3. CASE ci.regionID # -1
    <3> DEFINE id == ci.regionID
    <3>1. id \in DOMAIN ServerMap /\ x = [filled EXCEPT !.region = <<DerpRegion(id, ServerMap[id])>>]
      BY <1>3, <2>1, <2>3, Zenon DEF Expand, filled
    <3>2. id \in Ids /\ ServerMap[id] = RelayMap[id]
      BY <3>1, MapAssumption DEF ServerMap
    <3>3. x.region[1] = DerpRegion(id, RelayMap[id])
      BY <1>1, <3>1, <3>2 DEF ConnInfos
    <3>4. id \in Int /\ RelayMap[id] \in Seq(Nodes)
      BY <3>2, MapFacts
    <3>5. x.region[1] \in Regions /\ x.region[1].id = id /\ x.region[1].nodes = RelayMap[id]
      BY <3>3, <3>4 DEF DerpRegion, Regions
    <3> HIDE DEF id
    <3> QED BY <1>3, <3>2, <3>5 DEF id
  <2> QED BY <2>2, <2>3
<1> QED BY <1>2, <1>3

-----------------------------------------------------------------------------
(* Keys and what servers make of them.                                     *)

\* The public part of a key, and the key itself, are of their types.
LEMMA KeyTypes ==
    ASSUME NEW n \in Nat \ {0}, NEW id \in Int
    PROVE  /\ NewPublic(n, id) \in ConnInfos
           /\ NewPublic(n, id).pub # Zero /\ NewPublic(n, id).disco # Zero
           /\ NewPublic(n, id).psk # Zero /\ NewPublic(n, id).region = <<>>
           /\ NewPublic(n, id).regionID = id
BY DEF NewPublic, ConnInfo, ConnInfos, Zero

\* A new key that leaves its region open.
LEMMA NewKeyFacts ==
    ASSUME NEW n \in Nat \ {0}
    PROVE  /\ Key(n, NewPublic(n, -1), "new") \in AnyKeys
           /\ KeyOK(Key(n, NewPublic(n, -1), "new"))
           /\ Key(n, NewPublic(n, -1), "new").public.psk # Zero
<1> DEFINE ci == NewPublic(n, -1)
           k == Key(n, ci, "new")
<1>1. /\ ci \in ConnInfos /\ ci.region = <<>>
      /\ ci.pub # Zero /\ ci.disco # Zero /\ ci.psk # Zero
  BY KeyTypes
<1> HIDE DEF ci
<1>2. k \in AnyKeys /\ k.public = ci /\ k.from = "new"
  BY <1>1 DEF Key, AnyKeys, Keys
<1> HIDE DEF k
<1>3. Len(<<>>) <= 1
  OBVIOUS
<1>4. KeyOK(k)
  BY <1>1, <1>2, <1>3 DEF KeyOK
<1> QED BY <1>1, <1>2, <1>4 DEF k, ci

\* The region a key expands to is meshed, and an address of the key leads
\* there unless the key leaves its region open.
LEMMA KeyFits ==
    ASSUME NEW k \in AnyKeys, KeyOK(k), k.public.psk # Zero,
           NEW x \in Expand(k.public, ServerMap), x.region # <<>>
    PROVE  /\ Meshed(RelayHosts(x.region[1].nodes))
           /\ k.public.region # <<>> \/ k.public.regionID # -1 =>
                 Fit(k.public) /\ RelayHosts(x.region[1].nodes) \subseteq Dest(k.public)
<1> DEFINE ci == k.public
           hosts == RelayHosts(x.region[1].nodes)
<1>1. ci \in ConnInfos
  BY DEF AnyKeys, Keys
<1>2. ci.pub # Zero /\ ci.disco # Zero /\ ci.psk # Zero /\ Len(ci.region) <= 1
  BY DEF KeyOK
<1>3. CASE ci.region # <<>>
  <2>1. hosts = RelayHosts(ci.region[1].nodes)
    BY <1>1, <1>3, ServerExpands
  <2>2. hosts # {} /\ Meshed(hosts)
    BY <1>3, <2>1 DEF KeyOK
  <2>3. Dest(ci) = hosts
    BY <1>3, <2>1 DEF Dest
  <2> HIDE DEF hosts, ci
  <2>4. Fit(ci)
    BY <1>1, <1>2, <1>3, <2>2, <2>3 DEF Fit
  <2> QED BY <2>2, <2>3, <2>4 DEF hosts, ci
<1>4. CASE ci.region = <<>>
  <2> DEFINE id == x.region[1].id
  <2>1. id \in Ids /\ (ci.regionID # -1 => id = ci.regionID) /\ hosts \subseteq RelayHosts(RelayMap[id])
    BY <1>1, <1>4, ServerExpands
  <2>2. RelayHosts(RelayMap[id]) # {} /\ Meshed(RelayHosts(RelayMap[id]))
    BY <2>1, MapFacts
  <2> HIDE DEF hosts, ci, id
  <2>3. Meshed(hosts)
    BY <2>1, <2>2 DEF Meshed
  <2>4. ASSUME ci.regionID # -1 PROVE Fit(ci) /\ hosts \subseteq Dest(ci)
    <3>1. Dest(ci) = RelayHosts(RelayMap[id])
      BY <1>4, <2>1, <2>4 DEF Dest
    <3> QED BY <1>1, <1>2, <1>4, <2>1, <2>2, <2>4, <3>1 DEF Fit
  <2> QED BY <1>4, <2>3, <2>4 DEF hosts, ci
<1> QED BY <1>3, <1>4

\* What server() makes of a key: its address points at its region, and so
\* does the address that genkey prints.
LEMMA ServedFacts ==
    ASSUME NEW k \in AnyKeys, KeyOK(k), k.public.psk # Zero, NEW kind \in {"short", "full"},
           NEW x \in Expand(k.public, ServerMap), x.region # <<>>
    PROVE  LET st == Served(k, kind, x) IN
           st \in RunningStates /\ KeyOK(st.key) /\ Found(st) /\ Gives(st)
<1> DEFINE st == Served(k, kind, x)
           reg == clearUnnecessaryRegionFields(x.region[1])
           embed == kind = "full" \/ k.public.region # <<>>
           ci == ConnInfo(k.priv, k.priv, k.public.psk,
                          IF embed THEN 0 ELSE reg.id, IF embed THEN <<reg>> ELSE <<>>)
<1>1. /\ k.public \in ConnInfos /\ k.public.psk \in Nat /\ k.priv \in Nat \ {0}
  BY DEF AnyKeys, Keys, ConnInfos
<1>2. x.region[1] \in Regions
  BY <1>1, ServerExpands
<1>3. x.region[1].nodes \in Seq(Nodes)
  BY <1>2 DEF Regions
<1> DEFINE nodes == First(x.region[1].nodes, 1)
<1>4. nodes \in Seq(Nodes) /\ RelayHosts(nodes) \subseteq RelayHosts(x.region[1].nodes)
  BY <1>3, FirstFacts
<1> HIDE DEF nodes
<1>5. reg \in Regions /\ reg.nodes = nodes /\ reg.id = x.region[1].id /\ reg.id \in Int
  BY <1>2, <1>4 DEF clearUnnecessaryRegionFields, Regions, nodes
<1>6. RelayHosts(reg.nodes) \subseteq RelayHosts(x.region[1].nodes)
  BY <1>4, <1>5
<1>7. Meshed(RelayHosts(x.region[1].nodes))
  BY KeyFits
<1> HIDE DEF reg
<1>8. /\ <<reg>> \in Seq(Regions) /\ Len(<<reg>>) = 1 /\ <<reg>>[1] = reg /\ <<reg>> # <<>>
      /\ <<>> \in Seq(Regions) /\ Len(<<>>) = 0
  BY <1>5, OneSeq, EmptySeq
<1>9. /\ ci \in ConnInfos /\ ci.pub # Zero /\ ci.disco # Zero /\ ci.psk # Zero
      /\ ci.region = IF embed THEN <<reg>> ELSE <<>>
      /\ ~embed => ci.regionID = reg.id
  <2> DEFINE region == IF embed THEN <<reg>> ELSE <<>>
             id == IF embed THEN 0 ELSE reg.id
  <2>1. region \in Seq(Regions) /\ id \in Int
    BY <1>5, <1>8
  <2>2. ~embed => id = reg.id
    OBVIOUS
  <2> HIDE DEF region, id
  <2>3. ci = ConnInfo(k.priv, k.priv, k.public.psk, id, region)
    BY DEF region, id
  <2>4. /\ ci \in ConnInfos /\ ci.pub # Zero /\ ci.disco # Zero /\ ci.psk # Zero
        /\ ci.region = region /\ ci.regionID = id
    BY <1>1, <2>1, <2>3 DEF ConnInfo, ConnInfos, Zero
  <2> HIDE DEF ci, embed
  <2> QED BY <2>2, <2>4 DEF region
<1>10. st = Runs(k, kind, reg, Addr(ci))
  BY DEF Served, reg
<1> HIDE DEF ci
<1>11. Addr(ci) \in Addresses
  BY <1>9, RoundTrip
<1> HIDE DEF st
<1>12. /\ st.is = "running" /\ st.key = k /\ st.kind = kind /\ st.reg = reg
       /\ st.addr = Addr(ci)
  BY <1>10 DEF Runs
<1>13. st \in RunningStates
  BY <1>5, <1>10, <1>11 DEF Runs, RunningStates, Kinds
<1>14. ASSUME HasRelay(reg) PROVE Points(Addr(ci), reg)
  <2>1. RelayHosts(reg.nodes) # {}
    BY <1>14, HasRelayHosts
  <2>2. CASE embed
    <3>1. Dest(ci) = RelayHosts(reg.nodes)
      BY <1>8, <1>9, <2>2 DEF Dest
    <3>2. Meshed(RelayHosts(reg.nodes))
      BY <1>6, <1>7 DEF Meshed
    <3>3. ci.region # <<>> /\ Len(ci.region) <= 1
      BY <1>8, <1>9, <2>2
    <3>4. Fit(ci)
      BY <1>9, <2>1, <3>1, <3>2, <3>3 DEF Fit
    <3> QED BY <3>1, <3>4, FitPoints
  <2>3. CASE ~embed
    <3>1. reg.id \in Ids /\ RelayHosts(reg.nodes) \subseteq RelayHosts(RelayMap[reg.id])
      <4>1. k.public.region = <<>>
        BY <2>3
      <4>2. /\ x.region[1].id \in Ids
            /\ RelayHosts(x.region[1].nodes) \subseteq RelayHosts(RelayMap[x.region[1].id])
        BY <1>1, <4>1, ServerExpands
      <4> QED BY <1>5, <1>6, <4>2
    <3>2. /\ RelayHosts(RelayMap[reg.id]) # {} /\ Meshed(RelayHosts(RelayMap[reg.id]))
      BY <3>1, MapFacts
    <3>3. ci.region = <<>> /\ ci.regionID = reg.id
      BY <1>9, <2>3
    <3>4. Dest(ci) = RelayHosts(RelayMap[reg.id])
      BY <3>3 DEF Dest
    <3>5. Len(ci.region) <= 1
      BY <1>8, <3>3
    <3>6. Fit(ci)
      BY <1>9, <3>1, <3>2, <3>3, <3>4, <3>5 DEF Fit
    <3> QED BY <3>1, <3>4, <3>6, FitPoints
  <2> QED BY <2>2, <2>3
<1>15. k.from \in {"auto", "new"} \/ Points(Addr(k.public), reg)
  <2> SUFFICES ASSUME k.from \notin {"auto", "new"} PROVE Points(Addr(k.public), reg)
    OBVIOUS
  <2>1. k.public.region # <<>> \/ k.public.regionID # -1
    BY DEF KeyOK
  <2>2. Fit(k.public) /\ RelayHosts(x.region[1].nodes) \subseteq Dest(k.public)
    BY <2>1, KeyFits
  <2> QED BY <1>6, <2>2, FitPoints
<1>16. Found(st)
  BY <1>12, <1>14, <1>15 DEF Found
<1>17. Gives(st)
  BY <1>12 DEF Gives, st
<1> QED BY <1>12, <1>13, <1>16, <1>17 DEF st

\* What tailcatListen makes of a key: the key it hands back to the page leads
\* to the region the server waits in, unless it leaves its region open.
LEMMA ListenFacts ==
    ASSUME NEW k \in AnyKeys, KeyOK(k), k.public.psk # Zero,
           NEW x \in Expand(k.public, ServerMap), x.region # <<>>
    PROVE  LET p == Pinned(k, x)
               st == Runs(p, "web", x.region[1], Addr(p.public))
           IN /\ p \in Keys(Kept) /\ KeyOK(p)
              /\ st \in RunningStates /\ st.key = p /\ Found(st) /\ Gives(st)
<1> DEFINE p == Pinned(k, x)
           reg == x.region[1]
           st == Runs(p, "web", reg, Addr(p.public))
<1>1. k.public \in ConnInfos /\ k.from \in Kept \cup {"new"}
  BY DEF AnyKeys, Keys
<1>2. reg \in Regions /\ reg.id \in Int
  BY <1>1, ServerExpands DEF Regions
<1>3. /\ k.public.pub # Zero /\ k.public.disco # Zero /\ Len(k.public.region) <= 1
      /\ k.public.region # <<>> =>
            RelayHosts(k.public.region[1].nodes) # {}
            /\ Meshed(RelayHosts(k.public.region[1].nodes))
  BY DEF KeyOK
<1>4. CASE k.from # "new"
  <2>1. p = k /\ k \in Keys(Kept)
    BY <1>1, <1>4 DEF Pinned, AnyKeys, Keys
  <2>2. k.from \in {"auto", "new"} \/ Points(Addr(k.public), reg)
    <3> SUFFICES ASSUME k.from \notin {"auto", "new"} PROVE Points(Addr(k.public), reg)
      OBVIOUS
    <3>1. k.public.region # <<>> \/ k.public.regionID # -1
      BY DEF KeyOK
    <3>2. Fit(k.public) /\ RelayHosts(reg.nodes) \subseteq Dest(k.public)
      BY <3>1, KeyFits
    <3> QED BY <3>2, FitPoints
  <2>3. Addr(k.public) \in Addresses
    BY <1>1, <1>3, RoundTrip
  <2> HIDE DEF p, reg
  <2>4. /\ st.is = "running" /\ st.key = k /\ st.kind = "web" /\ st.reg = reg
        /\ st.addr = Addr(k.public)
    BY <2>1 DEF Runs
  <2>5. st \in RunningStates
    BY <1>2, <2>1, <2>3 DEF Runs, RunningStates, Kinds
  <2> HIDE DEF st
  <2>6. Found(st)
    BY <1>4, <2>2, <2>4 DEF Found
  <2>7. Gives(st)
    BY <2>4 DEF Gives
  <2> QED BY <2>1, <2>4, <2>5, <2>6, <2>7 DEF st, reg, p
<1>5. CASE k.from = "new"
  <2> HIDE DEF reg
  <2>1. /\ p = [k EXCEPT !.public.regionID = reg.id, !.from = "page"]
    BY <1>5 DEF Pinned, reg
  <2> HIDE DEF p
  <2>2. /\ p \in Keys(Kept) /\ p.from = "page"
        /\ p.public = [k.public EXCEPT !.regionID = reg.id]
    BY <1>1, <1>2, <2>1 DEF AnyKeys, Keys, Kept, ConnInfos
  <2> DEFINE ci == p.public
  <2>3. /\ ci \in ConnInfos /\ ci.regionID = reg.id /\ ci.region = k.public.region
        /\ ci.pub # Zero /\ ci.disco # Zero /\ ci.psk # Zero /\ Len(ci.region) <= 1
    BY <1>1, <1>2, <1>3, <2>2 DEF ConnInfos
  <2> HIDE DEF ci
  <2>4. /\ Dest(ci) # {} /\ Meshed(Dest(ci)) /\ RelayHosts(reg.nodes) \subseteq Dest(ci)
        /\ (ci.region = <<>> => ci.regionID \in Ids)
    <3>1. CASE ci.region # <<>>
      <4>1. Dest(ci) = RelayHosts(k.public.region[1].nodes)
        BY <2>3, <3>1 DEF Dest
      <4>2. RelayHosts(reg.nodes) = RelayHosts(k.public.region[1].nodes)
        BY <1>1, <2>3, <3>1, ServerExpands DEF reg
      <4> QED BY <1>3, <2>3, <3>1, <4>1, <4>2
    <3>2. CASE ci.region = <<>>
      <4>1. Dest(ci) = RelayHosts(RelayMap[reg.id])
        BY <2>3, <3>2 DEF Dest
      <4>2. reg.id \in Ids /\ RelayHosts(reg.nodes) \subseteq RelayHosts(RelayMap[reg.id])
        BY <1>1, <2>3, <3>2, ServerExpands DEF reg
      <4> QED BY <2>3, <4>1, <4>2, MapFacts
    <3> QED BY <3>1, <3>2
  <2>5. Fit(ci)
    BY <2>3, <2>4 DEF Fit
  <2>6. Points(Addr(ci), reg)
    BY <2>4, <2>5, FitPoints
  <2>7. ci.region # <<>> \/ ci.regionID # -1
    BY <2>4, MapFacts
  <2>8. KeyOK(p)
    BY <1>3, <2>2, <2>3, <2>7 DEF KeyOK, ci
  <2>9. Addr(ci) \in Addresses
    BY <2>3, RoundTrip
  <2>10. /\ st.is = "running" /\ st.key = p /\ st.kind = "web" /\ st.reg = reg
         /\ st.addr = Addr(ci)
    BY DEF Runs, ci
  <2>11. st \in RunningStates
    <3>1. p \in AnyKeys
      BY <2>2 DEF Keys, AnyKeys
    <3> QED BY <1>2, <2>9, <3>1 DEF Runs, RunningStates, Kinds, ci
  <2> HIDE DEF st
  <2>12. Found(st)
    BY <2>6, <2>10 DEF Found, ci
  <2>13. Gives(st)
    BY <2>10 DEF Gives, ci
  <2> QED BY <2>2, <2>8, <2>10, <2>11, <2>12, <2>13 DEF st, reg, p
<1> QED BY <1>4, <1>5

\* A key that does not leave its region open gives one address per kind of
\* server.
LEMMA GivesOne ==
    ASSUME NEW e, NEW f, e.key = f.key, e.kind = f.kind, KeyOK(e.key),
           e.key.from \notin {"auto", "new"}, Gives(e), Gives(f)
    PROVE  e.addr = f.addr
<1> DEFINE k == e.key
<1>1. CASE e.kind = "web"
  BY <1>1 DEF Gives
<1>2. CASE e.kind # "web"
  <2>1. PICK x \in Expand(k.public, ServerMap) : e.addr = Served(k, e.kind, x).addr
    BY <1>2 DEF Gives
  <2>2. PICK y \in Expand(k.public, ServerMap) : f.addr = Served(k, e.kind, y).addr
    BY <1>2 DEF Gives
  <2>3. k.public.region # <<>> \/ k.public.regionID # -1
    BY DEF KeyOK
  <2>4. x = y
    <3> DEFINE ci == k.public
    <3>1. x \in Expand(ci, ServerMap) /\ y \in Expand(ci, ServerMap)
      BY <2>1, <2>2
    <3>2. ci.region # <<>> \/ ci.regionID # -1
      BY <2>3
    <3> HIDE DEF ci
    <3>3. CASE ci.region # <<>> \/ ci.regionID = 0
      BY <3>1, <3>3 DEF Expand
    <3>4. CASE ci.region = <<>> /\ ci.regionID # 0
      BY <3>1, <3>2, <3>4, Zenon DEF Expand
    <3> QED BY <3>3, <3>4
  <2> QED BY <2>1, <2>2, <2>4
<1> QED BY <1>1, <1>2

\* What one server becomes keeps every server's promise, and the history.
LEMMA BecomesMeet ==
    ASSUME MeetTypeOK, ServersFound, FirstGiven, KeepsAddress, NEW s \in Servers, NEW st,
           \/ st \in PanickedStates
           \/ st \in RunningStates /\ KeyOK(st.key) /\ Found(st) /\ Gives(st),
           Becomes(s, st)
    PROVE  /\ server' \in [Servers -> {Off} \cup PanickedStates \cup RunningStates]
           /\ first' \subseteq [key : Keys(Kept), kind : Kinds, addr : Addresses]
           /\ ServersFound' /\ FirstGiven' /\ KeepsAddress'
<1>1. /\ server' = [server EXCEPT ![s] = st]
      /\ server \in [Servers -> {Off} \cup PanickedStates \cup RunningStates]
      /\ first \subseteq [key : Keys(Kept), kind : Kinds, addr : Addresses]
  BY DEF Becomes, MeetTypeOK
<1>2. server'[s] = st /\ \A t \in Servers : t # s => server'[t] = server[t]
  BY <1>1
<1>3. Found(st)
  BY DEF PanickedStates, Found
<1>4. ServersFound'
  <2> SUFFICES ASSUME NEW t \in Servers PROVE Found(server'[t])
    BY DEF ServersFound
  <2> QED BY <1>2, <1>3 DEF ServersFound
<1>5. CASE st \in PanickedStates
  <2>1. first' = first /\ st.is = "panicked"
    BY <1>5 DEF Becomes, PanickedStates
  <2>2. FirstGiven'
    BY <2>1 DEF FirstGiven
  <2>3. KeepsAddress'
    <3> SUFFICES ASSUME NEW t \in Servers, server'[t].is = "running",
                        server'[t].key.from \notin {"auto", "new"}
                 PROVE  Address(server'[t]) \in first'
      BY DEF KeepsAddress, Running
    <3>1. t # s
      BY <1>2, <2>1
    <3> QED BY <1>2, <2>1, <3>1 DEF KeepsAddress, Running
  <2> QED BY <1>1, <1>4, <1>5, <2>1, <2>2, <2>3
<1>6. CASE st \in RunningStates /\ KeyOK(st.key) /\ Gives(st)
  <2>1. /\ st.is = "running" /\ st.key \in AnyKeys /\ st.kind \in Kinds
        /\ st.addr \in Addresses
    BY <1>6 DEF RunningStates
  <2> DEFINE a == Address(st)
  <2>2. a = [key |-> st.key, kind |-> st.kind, addr |-> st.addr]
    BY DEF Address
  <2>3. CASE st.key.from \in {"auto", "new"}
    <3>1. first' = first
      BY <2>3 DEF Becomes
    <3>2. KeepsAddress'
      <4> SUFFICES ASSUME NEW t \in Servers, server'[t].is = "running",
                          server'[t].key.from \notin {"auto", "new"}
                   PROVE  Address(server'[t]) \in first'
        BY DEF KeepsAddress, Running
      <4>1. t # s
        BY <1>2, <2>3
      <4> QED BY <1>2, <3>1, <4>1 DEF KeepsAddress, Running
    <3>3. FirstGiven'
      BY <3>1 DEF FirstGiven
    <3> QED BY <1>1, <1>4, <1>6, <3>1, <3>2, <3>3
  <2>4. CASE st.key.from \notin {"auto", "new"}
    <3>1. st.key \in Keys(Kept)
      BY <2>1, <2>4 DEF AnyKeys, Keys
    <3> HIDE DEF a
    <3>2. a.key = st.key /\ a.kind = st.kind /\ a.addr = st.addr
          /\ a \in [key : Keys(Kept), kind : Kinds, addr : Addresses]
      BY <2>1, <2>2, <3>1
    <3>3. Gives(a)
      BY <1>6, <3>2 DEF Gives
    <3>4. first \subseteq first' /\ first' \subseteq first \cup {a} /\ a \in first'
      <4>1. CASE \E e \in first : e.key = st.key /\ e.kind = st.kind
        <5>1. first' = first
          BY <4>1 DEF Becomes
        <5>2. PICK e \in first : e.key = st.key /\ e.kind = st.kind
          BY <4>1
        <5>3. e \in [key : Keys(Kept), kind : Kinds, addr : Addresses] /\ KeyOK(e.key) /\ Gives(e)
          BY <1>1 DEF FirstGiven
        <5>4. e.addr = a.addr
          BY <2>4, <3>2, <3>3, <5>2, <5>3, GivesOne
        <5>5. e = a
          BY <3>2, <5>2, <5>3, <5>4
        <5> QED BY <5>1, <5>5
      <4>2. CASE ~(\E e \in first : e.key = st.key /\ e.kind = st.kind)
        BY <2>1, <2>4, <4>2 DEF Becomes, a
      <4> QED BY <4>1, <4>2
    <3>5. FirstGiven'
      <4> SUFFICES ASSUME NEW e \in first'
                   PROVE  e.key.from \notin {"auto", "new"} /\ KeyOK(e.key) /\ Gives(e)
        BY DEF FirstGiven
      <4> QED BY <1>6, <2>4, <3>2, <3>3, <3>4 DEF FirstGiven
    <3>6. KeepsAddress'
      <4> SUFFICES ASSUME NEW t \in Servers, server'[t].is = "running",
                          server'[t].key.from \notin {"auto", "new"}
                   PROVE  Address(server'[t]) \in first'
        BY DEF KeepsAddress, Running
      <4>1. CASE t = s
        BY <1>2, <3>4, <4>1 DEF a
      <4>2. CASE t # s
        BY <1>2, <3>4, <4>2 DEF KeepsAddress, Running
      <4> QED BY <4>1, <4>2
    <3> QED BY <1>1, <1>4, <1>6, <3>2, <3>4, <3>5, <3>6
  <2> QED BY <2>3, <2>4
<1> QED BY <1>5, <1>6

-----------------------------------------------------------------------------
(* The initial states, and each action, establish the invariant.           *)

\* Whatever the flags, genKey makes a sound key.
LEMMA PublicFacts ==
    ASSUME NEW f \in Flags, NEW n \in Nat \ {0}, NEW public \in Public(f, n)
    PROVE  /\ Key(n, public, From(f, public)) \in Keys(Kept)
           /\ KeyOK(Key(n, public, From(f, public)))
<1> DEFINE new == NewPublic(n, 0)
           from == From(f, public)
           k == Key(n, public, from)
           ids == CASE Region(f) = "auto" -> {-1}
                    [] Region(f) = "id" -> RegionIDs
                    [] Region(f) = "best" ->
                         UNION {PickBestRegion(ServerMap, rep) : rep \in Reports}
                    [] Region(f) = "match" ->
                         UNION {findRegionIDFromSubstring(w) : w \in DOMAIN Named}
                    [] OTHER -> {}
           Embedded(id) == [new EXCEPT !.region = <<DerpRegion(id, First(RelayMap[id], Keep))>>]
           OfHosts(h) == [new EXCEPT !.region =
                            <<DerpRegion(0, [i \in DOMAIN h |-> Node(NoName, h[i], FALSE)])>>]
           Sound(ci) == /\ ci \in ConnInfos
                        /\ ci.pub # Zero /\ ci.disco # Zero /\ Len(ci.region) <= 1
                        /\ ci.region # <<>> =>
                              LET hosts == RelayHosts(ci.region[1].nodes)
                              IN hosts # {} /\ Meshed(hosts)
<1>1. /\ new \in ConnInfos /\ new.pub # Zero /\ new.disco # Zero /\ new.region = <<>>
      /\ new.regionID = 0
  BY KeyTypes
<1>2. public \in IF f.client THEN {new}
                 ELSE IF Region(f) = "hosts" THEN {OfHosts(h) : h \in HostLists}
                 ELSE IF f.embed THEN {Embedded(id) : id \in ids \cap ServerIDs}
                 ELSE {[new EXCEPT !.regionID = id] : id \in ids}
  BY Zenon DEF Public
<1>3. ServerIDs \subseteq Ids /\ ServerIDs \subseteq Int
  BY MapAssumption, MapFacts
<1>4. ids \subseteq Int
  <2>1. \A rep : PickBestRegion(ServerMap, rep) \subseteq ServerIDs
    BY DEF PickBestRegion, ServerMap
  <2>2. \A w : findRegionIDFromSubstring(w) \subseteq ServerIDs
    BY DEF findRegionIDFromSubstring
  <2>3. RegionIDs \subseteq Int /\ {-1} \subseteq Int
    BY RendezvousAssumption
  <2> QED BY <1>3, <2>1, <2>2, <2>3
<1> HIDE DEF new, ids
<1>5. ASSUME NEW r \in Regions, RelayHosts(r.nodes) # {}, Meshed(RelayHosts(r.nodes))
      PROVE  Sound([new EXCEPT !.region = <<r>>])
  <2> DEFINE ci == [new EXCEPT !.region = <<r>>]
  <2>1. <<r>> \in Seq(Regions) /\ Len(<<r>>) = 1 /\ <<r>>[1] = r
    BY OneSeq
  <2>2. /\ ci \in ConnInfos /\ ci.pub # Zero /\ ci.disco # Zero
        /\ ci.region = <<r>>
    BY <1>1, <2>1 DEF ConnInfos
  <2> HIDE DEF ci
  <2>3. Len(ci.region) <= 1
    BY <2>1, <2>2
  <2> QED BY <1>5, <2>1, <2>2, <2>3 DEF ci
<1>6. Sound(public)
  <2>1. CASE f.client
    <3>1. public = new
      BY <1>2, <2>1
    <3>2. Len(<<>>) <= 1
      OBVIOUS
    <3> QED BY <1>1, <3>1, <3>2
  <2>2. CASE ~f.client /\ Region(f) = "hosts"
    <3>1. PICK h \in HostLists : public = OfHosts(h)
      BY <1>2, <2>2
    <3> DEFINE nodes == [i \in DOMAIN h |-> Node(NoName, h[i], FALSE)]
               r == DerpRegion(0, nodes)
    <3>2. /\ h \in Seq(STRING) /\ h # <<>>
          /\ \A i, j \in DOMAIN h : Home[h[i]] = Home[h[j]]
      BY RendezvousAssumption
    <3>3. /\ Len(h) \in Nat /\ Len(h) # 0 /\ DOMAIN h = 1..Len(h)
          /\ \A i \in 1..Len(h) : h[i] \in STRING
      BY <3>2, EmptySeq, LenProperties, ElementOfSeq
    <3>4. nodes \in [1..Len(h) -> Nodes]
      BY <3>3 DEF Node, Nodes, Names
    <3>5. DOMAIN nodes = DOMAIN h
          /\ \A i \in DOMAIN h : IsRelay(nodes[i]) /\ nodes[i].host = h[i]
      BY DEF Node, IsRelay
    <3> HIDE DEF nodes
    <3>6. nodes \in Seq(Nodes)
      BY <3>3, <3>4, FunSeq
    <3>7. r \in Regions /\ r.nodes = nodes
      BY <3>6 DEF DerpRegion, Regions
    <3>8. RelayHosts(nodes) = {h[i] : i \in DOMAIN h}
      BY <3>5 DEF RelayHosts
    <3>9. RelayHosts(nodes) # {} /\ Meshed(RelayHosts(nodes))
      <4>1. 1 \in DOMAIN h
        BY <3>3
      <4> QED BY <3>2, <3>8, <4>1 DEF Meshed
    <3> HIDE DEF r, Sound
    <3>10. public = [new EXCEPT !.region = <<r>>]
      BY <3>1 DEF r, nodes
    <3> QED BY <1>5, <3>7, <3>9, <3>10
  <2>3. CASE ~f.client /\ Region(f) # "hosts" /\ f.embed
    <3>1. PICK id \in ids \cap ServerIDs : public = Embedded(id)
      BY <1>2, <2>3
    <3> DEFINE nodes == First(RelayMap[id], Keep)
               r == DerpRegion(id, nodes)
    <3>2. id \in Ids
      BY <1>3
    <3>3. /\ id \in Int /\ nodes \in Seq(Nodes)
          /\ RelayHosts(nodes) # {} /\ Meshed(RelayHosts(nodes))
      BY <3>2, MapFacts DEF Meshed
    <3> HIDE DEF nodes
    <3>4. r \in Regions /\ r.nodes = nodes
      BY <3>3 DEF DerpRegion, Regions
    <3> HIDE DEF r, Sound
    <3>5. public = [new EXCEPT !.region = <<r>>]
      BY <3>1 DEF r, nodes
    <3> QED BY <1>5, <3>3, <3>4, <3>5
  <2>4. CASE ~f.client /\ Region(f) # "hosts" /\ ~f.embed
    <3>1. PICK id \in ids : public = [new EXCEPT !.regionID = id]
      BY <1>2, <2>4
    <3>2. id \in Int
      BY <1>4
    <3>3. /\ public \in ConnInfos /\ public.pub # Zero /\ public.disco # Zero
          /\ public.region = <<>>
      BY <1>1, <3>1, <3>2 DEF ConnInfos
    <3>4. Len(<<>>) <= 1
      OBVIOUS
    <3> QED BY <3>3, <3>4
  <2> QED BY <2>1, <2>2, <2>3, <2>4
<1>7. from \in Kept /\ (from # "auto" => public.regionID # -1)
  <2>1. CASE f.client
    <3>1. public = new
      BY <1>2, <2>1
    <3> QED BY <1>1, <2>1, <3>1 DEF From, Kept
  <2>2. CASE ~f.client
    BY <2>2 DEF From, Kept
  <2> QED BY <2>1, <2>2
<1> HIDE DEF from
<1>8. k \in Keys(Kept) /\ k.public = public /\ k.from = from
  BY <1>6, <1>7 DEF Key, Keys
<1> HIDE DEF k
<1>9. KeyOK(k)
  BY <1>6, <1>7, <1>8 DEF KeyOK
<1> QED BY <1>8, <1>9 DEF k, from

\* The key saved before keys had a connection secret.
LEMMA OldKeyFacts == OldKey \in Keys(Kept) /\ KeyOK(OldKey)
<1> DEFINE id == CHOOSE i \in ServerIDs : TRUE
           ci == [NewPublic(1, id) EXCEPT !.psk = Zero]
<1>1. id \in Int /\ id # -1
  <2>1. id \in ServerIDs
    BY MapAssumption
  <2> QED BY <2>1, MapAssumption, MapFacts
<1> HIDE DEF id
<1>2. ci \in ConnInfos /\ ci.pub # Zero /\ ci.disco # Zero /\ ci.region = <<>> /\ ci.regionID = id
  <2> DEFINE new == NewPublic(1, id)
  <2>1. /\ new \in ConnInfos /\ new.pub # Zero /\ new.disco # Zero /\ new.region = <<>>
        /\ new.regionID = id
    BY <1>1, KeyTypes
  <2> HIDE DEF new
  <2>2. ci = [new EXCEPT !.psk = Zero]
    BY DEF new
  <2> HIDE DEF ci
  <2> QED BY <2>1, <2>2 DEF ConnInfos, Zero
<1> HIDE DEF ci
<1>3. OldKey = Key(1, ci, "id")
  BY DEF OldKey, ci, id
<1>4. OldKey \in Keys(Kept) /\ OldKey.public = ci
  BY <1>2, <1>3 DEF Key, Keys, Kept
<1>5. Len(<<>>) <= 1
  OBVIOUS
<1> QED BY <1>1, <1>2, <1>4, <1>5 DEF KeyOK

\* At first there is at most the default key, and no server.
LEMMA InitMeet == MeetInit => MeetIInv
<1> SUFFICES ASSUME MeetInit PROVE MeetIInv
  OBVIOUS
<1>1. PICK k \in {Absent, OldKey} :
         /\ file = [n \in KeyNames |-> IF n = Default THEN k ELSE Absent]
         /\ made = IF k = OldKey THEN 1 ELSE 0
  BY DEF MeetInit
<1>2. /\ gen = [g \in Genkeys |-> Idle] /\ printed = {} /\ page = Absent
      /\ server = [s \in Servers |-> Off] /\ first = {}
  BY DEF MeetInit
<1>3. k \in {Absent} \cup Keys(Kept) /\ (k = Absent \/ KeyOK(k))
  BY OldKeyFacts
<1>4. \A n \in KeyNames : file[n] = Absent \/ (file[n] \in Keys(Kept) /\ KeyOK(file[n]))
  BY <1>1, <1>3
<1>5. made \in 0..MaxKeys
  BY <1>1, RendezvousAssumption
<1>6. MeetTypeOK
  <2>1. file \in [KeyNames -> {Absent, Torn} \cup Keys(Kept)]
    BY <1>1, <1>3
  <2> QED BY <1>2, <1>5, <2>1 DEF MeetTypeOK
<1>7. Absent.is = "absent" /\ Off.is = "off"
  BY DEF Absent, Off
<1>8. SavedKeys
  BY <1>2, <1>4, <1>7 DEF SavedKeys
<1>9. PrintedKeys /\ FirstGiven
  BY <1>2 DEF PrintedKeys, FirstGiven
<1>10. ServersFound /\ KeepsAddress
  BY <1>2, <1>7 DEF ServersFound, Found, KeepsAddress, Running
<1> QED BY <1>6, <1>8, <1>9, <1>10 DEF MeetIInv

\* A step that touches no server keeps what is true of servers.
LEMMA ServersUntouched ==
    ASSUME ServersFound, FirstGiven, KeepsAddress, UNCHANGED <<server, first>>
    PROVE  ServersFound' /\ FirstGiven' /\ KeepsAddress'
<1>1. server' = server /\ first' = first
  OBVIOUS
<1>2. ServersFound'
  BY <1>1 DEF ServersFound
<1>3. FirstGiven'
  BY <1>1 DEF FirstGiven
<1>4. KeepsAddress'
  BY <1>1 DEF KeepsAddress, Running
<1> QED BY <1>2, <1>3, <1>4

\* A step that touches no printed address keeps what is true of them.
LEMMA PrintedUntouched ==
    ASSUME PrintedKeys, UNCHANGED printed
    PROVE  PrintedKeys'
BY DEF PrintedKeys

\* A step of genkey keeps the invariant.
LEMMA GenkeyMeet ==
    ASSUME MeetIInv, NEW g \in Genkeys,
           \/ GenkeyTruncates(g) \/ GenkeyWrites(g) \/ GenkeyPrints(g) \/ GenkeyDies(g)
           \/ \E name \in KeyNames : GenkeyLooks(g, name)
    PROVE  MeetIInv'
<1> USE DEF MeetIInv
<1>0. /\ file \in [KeyNames -> {Absent, Torn} \cup Keys(Kept)]
      /\ gen \in [Genkeys -> {Idle} \cup GenStates]
      /\ made \in 0..MaxKeys /\ MaxKeys \in Nat
  BY RendezvousAssumption DEF MeetTypeOK
<1>1. Absent.is = "absent" /\ Torn.is = "torn" /\ Idle.at = "idle"
  BY DEF Absent, Torn, Idle
<1>2. UNCHANGED <<page, server, first>>
  BY DEF GenkeyLooks, GenkeyTruncates, GenkeyWrites, GenkeyPrints, GenkeyDies
<1>3. ServersFound' /\ FirstGiven' /\ KeepsAddress'
  BY <1>2, ServersUntouched
<1>4. ASSUME NEW name \in KeyNames, GenkeyLooks(g, name)
      PROVE  MeetTypeOK' /\ SavedKeys' /\ PrintedKeys'
  <2>1. PICK f \in Flags : \E public \in Public(f, made + 1) :
           gen' = [gen EXCEPT ![g] = [at |-> "create", name |-> name,
                     key |-> Key(made + 1, public, From(f, public))]]
    BY <1>4 DEF GenkeyLooks
  <2>2. PICK public \in Public(f, made + 1) :
           gen' = [gen EXCEPT ![g] = [at |-> "create", name |-> name,
                     key |-> Key(made + 1, public, From(f, public))]]
    BY <2>1
  <2> DEFINE k == Key(made + 1, public, From(f, public))
             st == [at |-> "create", name |-> name, key |-> k]
  <2>3. made + 1 \in Nat \ {0} /\ made' = made + 1 /\ made' \in 0..MaxKeys
    BY <1>0, <1>4 DEF GenkeyLooks
  <2>4. k \in Keys(Kept) /\ KeyOK(k)
    BY <2>3, PublicFacts
  <2> HIDE DEF k
  <2>5. st \in GenStates /\ st.key = k
    BY <2>4 DEF GenStates
  <2>6. gen' = [gen EXCEPT ![g] = st] /\ UNCHANGED <<file, printed, page, server, first>>
    BY <1>4, <2>2 DEF GenkeyLooks, k
  <2> HIDE DEF st
  <2>7. gen' \in [Genkeys -> {Idle} \cup GenStates]
    BY <1>0, <2>5, <2>6
  <2>8. MeetTypeOK'
    BY <2>3, <2>6, <2>7 DEF MeetTypeOK
  <2>9. SavedKeys'
    BY <1>0, <2>4, <2>5, <2>6 DEF SavedKeys
  <2> QED BY <2>6, <2>8, <2>9, PrintedUntouched
<1>5. CASE GenkeyTruncates(g)
  <2>1. gen[g] \in GenStates
    BY <1>0, <1>1, <1>5 DEF GenkeyTruncates
  <2>2. gen[g].name \in KeyNames /\ gen[g].key \in Keys(Kept) /\ gen[g] # Idle
    BY <1>1, <1>5, <2>1 DEF GenStates, GenkeyTruncates
  <2> DEFINE st == [gen[g] EXCEPT !.at = "write"]
  <2>3. st \in GenStates /\ st.key = gen[g].key
    BY <2>1 DEF GenStates
  <2>4. /\ gen' = [gen EXCEPT ![g] = st]
        /\ file' = [file EXCEPT ![gen[g].name] = Torn]
        /\ UNCHANGED <<made, printed, page, server, first>>
    BY <1>5 DEF GenkeyTruncates
  <2> HIDE DEF st
  <2>5. MeetTypeOK'
    <3>1. gen' \in [Genkeys -> {Idle} \cup GenStates]
      BY <1>0, <2>3, <2>4
    <3>2. file' \in [KeyNames -> {Absent, Torn} \cup Keys(Kept)]
      BY <1>0, <2>4
    <3> QED BY <2>4, <3>1, <3>2 DEF MeetTypeOK
  <2>6. SavedKeys'
    <3>1. \A n \in KeyNames : file'[n] = Torn \/ file'[n] = file[n]
      BY <1>0, <2>4
    <3>2. \A h \in Genkeys : gen'[h] # Idle => gen'[h].key = gen[h].key /\ gen[h] # Idle
      BY <1>0, <2>2, <2>3, <2>4
    <3> QED BY <1>1, <2>4, <3>1, <3>2 DEF SavedKeys
  <2> QED BY <1>3, <2>4, <2>5, <2>6, PrintedUntouched
<1>6. CASE GenkeyWrites(g)
  <2>1. gen[g] \in GenStates
    BY <1>0, <1>1, <1>6 DEF GenkeyWrites
  <2>2. gen[g].name \in KeyNames /\ gen[g].key \in Keys(Kept) /\ gen[g] # Idle
    BY <1>1, <1>6, <2>1 DEF GenStates, GenkeyWrites
  <2> DEFINE st == [gen[g] EXCEPT !.at = "print"]
  <2>3. st \in GenStates /\ st.key = gen[g].key
    BY <2>1 DEF GenStates
  <2>4. /\ gen' = [gen EXCEPT ![g] = st]
        /\ file' = [file EXCEPT ![gen[g].name] = gen[g].key]
        /\ UNCHANGED <<made, printed, page, server, first>>
    BY <1>6 DEF GenkeyWrites
  <2> HIDE DEF st
  <2>5. MeetTypeOK'
    <3>1. gen' \in [Genkeys -> {Idle} \cup GenStates]
      BY <1>0, <2>3, <2>4
    <3>2. file' \in [KeyNames -> {Absent, Torn} \cup Keys(Kept)]
      BY <1>0, <2>2, <2>4
    <3> QED BY <2>4, <3>1, <3>2 DEF MeetTypeOK
  <2>6. SavedKeys'
    <3>1. \A n \in KeyNames : file'[n] = gen[g].key \/ file'[n] = file[n]
      BY <1>0, <2>4
    <3>2. \A h \in Genkeys : gen'[h] # Idle => gen'[h].key = gen[h].key /\ gen[h] # Idle
      BY <1>0, <2>2, <2>3, <2>4
    <3>3. KeyOK(gen[g].key)
      BY <2>2 DEF SavedKeys
    <3> QED BY <2>4, <3>1, <3>2, <3>3 DEF SavedKeys
  <2> QED BY <1>3, <2>4, <2>5, <2>6, PrintedUntouched
<1>7. CASE GenkeyPrints(g)
  <2>1. gen[g] \in GenStates
    BY <1>0, <1>1, <1>7 DEF GenkeyPrints
  <2> DEFINE k == gen[g].key
             p == [key |-> k, addr |-> Addr(k.public)]
  <2>2. k \in Keys(Kept) /\ gen[g] # Idle
    BY <1>1, <1>7, <2>1 DEF GenStates, GenkeyPrints
  <2>3. /\ gen' = [gen EXCEPT ![g] = Idle]
        /\ printed' \subseteq printed \cup {p}
        /\ k.from # "client" => p \in printed'
        /\ UNCHANGED <<file, made, page, server, first>>
    BY <1>7 DEF GenkeyPrints
  <2>4. k.public \in ConnInfos
    BY <2>2 DEF Keys
  <2>5. Addr(k.public) \in Addresses
    BY <2>4, RoundTrip
  <2>6. MeetTypeOK'
    <3>1. gen' \in [Genkeys -> {Idle} \cup GenStates]
      BY <1>0, <2>3
    <3>2. p \in [key : Keys(Kept), addr : Addresses]
      BY <2>2, <2>5
    <3> HIDE DEF p
    <3> QED BY <2>3, <3>1, <3>2 DEF MeetTypeOK
  <2>7. SavedKeys'
    <3>1. \A h \in Genkeys : gen'[h] # Idle => gen'[h].key = gen[h].key /\ gen[h] # Idle
      BY <1>0, <2>3
    <3> HIDE DEF p
    <3> QED BY <2>3, <3>1 DEF SavedKeys
  <2>8. PrintedKeys'
    <3>1. p.key = k /\ p.addr = Addr(p.key.public) /\ p.key.from # "new"
      BY <2>2 DEF Keys, Kept
    <3> HIDE DEF p
    <3> QED BY <2>3, <3>1 DEF PrintedKeys
  <2> QED BY <1>3, <2>6, <2>7, <2>8
<1>8. CASE GenkeyDies(g)
  <2>1. gen' = [gen EXCEPT ![g] = Idle] /\ UNCHANGED <<file, made, printed, page, server, first>>
    BY <1>8 DEF GenkeyDies
  <2>2. MeetTypeOK'
    <3>1. gen' \in [Genkeys -> {Idle} \cup GenStates]
      BY <1>0, <2>1
    <3> QED BY <2>1, <3>1 DEF MeetTypeOK
  <2>3. SavedKeys'
    <3>1. \A h \in Genkeys : gen'[h] # Idle => gen'[h].key = gen[h].key /\ gen[h] # Idle
      BY <1>0, <2>1
    <3> QED BY <2>1, <3>1 DEF SavedKeys
  <2> QED BY <1>3, <2>1, <2>2, <2>3, PrintedUntouched
<1> QED BY <1>3, <1>4, <1>5, <1>6, <1>7, <1>8

\* genkey --delete keeps the invariant.
LEMMA DeleteMeet ==
    ASSUME MeetIInv, NEW name \in KeyNames, GenkeyDelete(name)
    PROVE  MeetIInv'
<1> USE DEF MeetIInv
<1>1. /\ file \in [KeyNames -> {Absent, Torn} \cup Keys(Kept)]
      /\ file' = [file EXCEPT ![name] = Absent]
      /\ UNCHANGED <<made, gen, printed, page, server, first>>
  BY DEF MeetTypeOK, GenkeyDelete
<1>2. \A n \in KeyNames : file'[n] = Absent \/ file'[n] = file[n]
  BY <1>1
<1>3. MeetTypeOK'
  <2>1. file' \in [KeyNames -> {Absent, Torn} \cup Keys(Kept)]
    BY <1>1
  <2> QED BY <1>1, <2>1 DEF MeetTypeOK
<1>4. SavedKeys'
  <2>1. Absent.is = "absent"
    BY DEF Absent
  <2> QED BY <1>1, <1>2, <2>1 DEF SavedKeys
<1> QED BY <1>1, <1>3, <1>4, PrintedUntouched, ServersUntouched

\* A start of server() keeps the invariant.
LEMMA ServeMeet ==
    ASSUME MeetIInv, NEW s \in Servers, NEW k \in AnyKeys, KeyOK(k), k.public.psk # Zero,
           NEW kind \in {"short", "full"}, Serve(s, k, kind),
           made' \in 0..MaxKeys, UNCHANGED <<file, gen, printed, page>>
    PROVE  MeetIInv'
<1> USE DEF MeetIInv
<1>1. PICK x \in Expand(k.public, ServerMap) :
         Becomes(s, IF x.region = <<>> THEN Panics(k, kind) ELSE Served(k, kind, x))
  BY DEF Serve
<1> DEFINE st == IF x.region = <<>> THEN Panics(k, kind) ELSE Served(k, kind, x)
<1>2. \/ st \in PanickedStates
      \/ st \in RunningStates /\ KeyOK(st.key) /\ Found(st) /\ Gives(st)
  <2>1. CASE x.region = <<>>
    BY <2>1 DEF Panics, PanickedStates, Kinds
  <2>2. CASE x.region # <<>>
    BY <2>2, ServedFacts
  <2> QED BY <2>1, <2>2
<1> HIDE DEF st
<1>3. Becomes(s, st)
  BY <1>1 DEF st
<1>4. /\ server' \in [Servers -> {Off} \cup PanickedStates \cup RunningStates]
      /\ first' \subseteq [key : Keys(Kept), kind : Kinds, addr : Addresses]
      /\ ServersFound' /\ FirstGiven' /\ KeepsAddress'
  BY <1>2, <1>3, BecomesMeet
<1>5. MeetTypeOK'
  BY <1>4 DEF MeetTypeOK
<1>6. SavedKeys'
  BY DEF SavedKeys
<1> QED BY <1>4, <1>5, <1>6, PrintedUntouched

\* A start of tailcatListen keeps the invariant.
LEMMA ListenMeet ==
    ASSUME MeetIInv, NEW s \in Servers, NEW k \in AnyKeys, KeyOK(k), k.public.psk # Zero,
           Listen(s, k), made' \in 0..MaxKeys, UNCHANGED <<file, gen, printed>>
    PROVE  MeetIInv'
<1> USE DEF MeetIInv
<1>1. PICK x \in Expand(k.public, ServerMap) :
         IF x.region = <<>> THEN Becomes(s, Panics(k, "web")) /\ UNCHANGED page
         ELSE /\ page' = Pinned(k, x)
              /\ Becomes(s, Runs(page', "web", x.region[1], Addr(page'.public)))
  BY DEF Listen
<1>2. CASE x.region = <<>>
  <2>1. Panics(k, "web") \in PanickedStates
    BY DEF Panics, PanickedStates, Kinds
  <2>2. Becomes(s, Panics(k, "web")) /\ page' = page
    BY <1>1, <1>2
  <2>3. /\ server' \in [Servers -> {Off} \cup PanickedStates \cup RunningStates]
        /\ first' \subseteq [key : Keys(Kept), kind : Kinds, addr : Addresses]
        /\ ServersFound' /\ FirstGiven' /\ KeepsAddress'
    BY <2>1, <2>2, BecomesMeet
  <2>4. MeetTypeOK'
    BY <2>2, <2>3 DEF MeetTypeOK
  <2>5. SavedKeys'
    BY <2>2 DEF SavedKeys
  <2> QED BY <2>3, <2>4, <2>5, PrintedUntouched
<1>3. CASE x.region # <<>>
  <2> DEFINE p == Pinned(k, x)
             st == Runs(p, "web", x.region[1], Addr(p.public))
  <2>1. /\ p \in Keys(Kept) /\ KeyOK(p)
        /\ st \in RunningStates /\ st.key = p /\ Found(st) /\ Gives(st)
    BY <1>3, ListenFacts
  <2>2. page' = p
    BY <1>1, <1>3
  <2>3. Becomes(s, Runs(page', "web", x.region[1], Addr(page'.public)))
    BY <1>1, <1>3
  <2>4. Becomes(s, st)
    BY <2>2, <2>3
  <2> HIDE DEF p, st
  <2>5. /\ server' \in [Servers -> {Off} \cup PanickedStates \cup RunningStates]
        /\ first' \subseteq [key : Keys(Kept), kind : Kinds, addr : Addresses]
        /\ ServersFound' /\ FirstGiven' /\ KeepsAddress'
    BY <2>1, <2>4, BecomesMeet
  <2>6. MeetTypeOK'
    BY <2>1, <2>2, <2>5 DEF MeetTypeOK
  <2>7. SavedKeys'
    BY <2>1, <2>2 DEF SavedKeys
  <2> QED BY <2>5, <2>6, <2>7, PrintedUntouched
<1> QED BY <1>2, <1>3

\* A step of a server keeps the invariant.
LEMMA ServerMeet ==
    ASSUME MeetIInv, NEW s \in Servers,
           \/ ServeNew(s) \/ ListenNew(s) \/ Stop(s)
           \/ \E name \in KeyNames : ServeKey(s, name)
           \/ \E k \in {page} \cup {file[name] : name \in KeyNames} : ListenSupplied(s, k)
    PROVE  MeetIInv'
<1>1. /\ made \in 0..MaxKeys /\ MaxKeys \in Nat
      /\ file \in [KeyNames -> {Absent, Torn} \cup Keys(Kept)]
      /\ page \in {Absent} \cup Keys(Kept)
  BY RendezvousAssumption DEF MeetIInv, MeetTypeOK
<1>2. Absent.is = "absent" /\ Torn.is = "torn" /\ Off.is = "off"
  BY DEF Absent, Torn, Off
<1>3. Keys(Kept) \subseteq AnyKeys
  BY DEF Keys, AnyKeys
<1> DEFINE new == Key(made + 1, NewPublic(made + 1, -1), "new")
<1>4. new \in AnyKeys /\ KeyOK(new) /\ new.public.psk # Zero
  BY <1>1, NewKeyFacts
<1> HIDE DEF new
<1>5. made < MaxKeys => made + 1 \in 0..MaxKeys
  BY <1>1
<1>6. CASE ServeNew(s)
  <2>1. made' \in 0..MaxKeys /\ UNCHANGED <<file, gen, printed, page>>
    BY <1>5, <1>6 DEF ServeNew
  <2>2. PICK kind \in {"short", "full"} : Serve(s, new, kind)
    BY <1>6 DEF ServeNew, new
  <2> QED BY <1>4, <2>1, <2>2, ServeMeet
<1>7. CASE ListenNew(s)
  <2>1. made' \in 0..MaxKeys /\ UNCHANGED <<file, gen, printed>> /\ Listen(s, new)
    BY <1>5, <1>7 DEF ListenNew, new
  <2> QED BY <1>4, <2>1, ListenMeet
<1>8. CASE Stop(s)
  <2>1. /\ server' = [server EXCEPT ![s] = Off]
        /\ UNCHANGED <<file, made, gen, printed, page, first>>
    BY <1>8 DEF Stop
  <2>2. server \in [Servers -> {Off} \cup PanickedStates \cup RunningStates]
    BY DEF MeetIInv, MeetTypeOK
  <2>3. MeetTypeOK'
    <3>1. server' \in [Servers -> {Off} \cup PanickedStates \cup RunningStates]
      BY <2>1, <2>2
    <3> QED BY <2>1, <3>1 DEF MeetIInv, MeetTypeOK
  <2>4. \A t \in Servers : server'[t] = Off \/ server'[t] = server[t]
    BY <2>1, <2>2
  <2>5. ServersFound'
    BY <1>2, <2>4 DEF MeetIInv, ServersFound, Found
  <2>6. KeepsAddress'
    BY <1>2, <2>1, <2>4 DEF MeetIInv, KeepsAddress, Running
  <2>7. FirstGiven' /\ SavedKeys'
    BY <2>1 DEF MeetIInv, FirstGiven, SavedKeys
  <2>8. PrintedKeys'
    BY <2>1, PrintedUntouched DEF MeetIInv
  <2> QED BY <2>3, <2>5, <2>6, <2>7, <2>8 DEF MeetIInv
<1>9. ASSUME NEW name \in KeyNames, ServeKey(s, name) PROVE MeetIInv'
  <2> DEFINE k == file[name]
  <2>1. /\ k.is = "key" /\ k.public.psk # Zero
        /\ made' \in 0..MaxKeys /\ UNCHANGED <<file, gen, printed, page>>
    BY <1>1, <1>9 DEF ServeKey
  <2>2. k \in AnyKeys /\ KeyOK(k)
    BY <1>1, <1>2, <1>3, <2>1 DEF MeetIInv, SavedKeys
  <2>3. PICK kind \in {"short", "full"} : Serve(s, k, kind)
    BY <1>9 DEF ServeKey
  <2> HIDE DEF k
  <2> QED BY <2>1, <2>2, <2>3, ServeMeet
<1>10. ASSUME NEW k \in {page} \cup {file[name] : name \in KeyNames}, ListenSupplied(s, k)
       PROVE  MeetIInv'
  <2>1. k.is = "key" /\ UNCHANGED <<file, gen, printed>>
    BY <1>10 DEF ListenSupplied
  <2>2. k \in Keys(Kept) /\ KeyOK(k)
    BY <1>1, <1>2, <2>1 DEF MeetIInv, SavedKeys
  <2>3. CASE k.public.psk # Zero
    <3>1. Listen(s, k) /\ made' \in 0..MaxKeys
      BY <1>1, <1>10, <2>3 DEF ListenSupplied
    <3> QED BY <1>3, <2>1, <2>2, <2>3, <3>1, ListenMeet
  <2>4. CASE k.public.psk = Zero
    <3> DEFINE q == [k EXCEPT !.public.psk = made + 1]
    <3>1. Listen(s, q) /\ made' = made + 1 /\ made < MaxKeys
      BY <1>10, <2>4 DEF ListenSupplied
    <3>2. made + 1 \in Nat \ {0}
      BY <1>1
    <3>3. /\ q \in Keys(Kept) /\ q.from = k.from
          /\ q.public = [k.public EXCEPT !.psk = made + 1]
          /\ q.public.psk # Zero
      BY <2>2, <3>2 DEF Keys, ConnInfos, Zero
    <3>4. /\ q.public.pub = k.public.pub /\ q.public.disco = k.public.disco
          /\ q.public.region = k.public.region /\ q.public.regionID = k.public.regionID
      BY <2>2, <3>3 DEF Keys, ConnInfos
    <3> HIDE DEF q
    <3>5. KeyOK(q)
      BY <2>2, <3>3, <3>4 DEF KeyOK
    <3> QED BY <1>3, <1>5, <2>1, <3>1, <3>3, <3>5, ListenMeet
  <2> QED BY <2>3, <2>4
<1> QED BY <1>6, <1>7, <1>8, <1>9, <1>10

\* Every step keeps the invariant.
LEMMA NextMeet == ASSUME MeetIInv, [MeetNext]_meetVars PROVE MeetIInv'
<1>1. CASE UNCHANGED meetVars
  <2>1. UNCHANGED <<file, made, gen, printed, page, server, first>>
    BY <1>1 DEF meetVars
  <2>2. MeetTypeOK' /\ SavedKeys'
    BY <2>1 DEF MeetIInv, MeetTypeOK, SavedKeys
  <2> QED BY <2>1, <2>2, PrintedUntouched, ServersUntouched DEF MeetIInv
<1>2. CASE MeetNext
  <2>1. CASE \E g \in Genkeys :
                \/ GenkeyTruncates(g) \/ GenkeyWrites(g) \/ GenkeyPrints(g) \/ GenkeyDies(g)
                \/ \E name \in KeyNames : GenkeyLooks(g, name)
    BY <2>1, GenkeyMeet
  <2>2. CASE \E name \in KeyNames : GenkeyDelete(name)
    BY <2>2, DeleteMeet
  <2>3. CASE \E s \in Servers :
                \/ ServeNew(s) \/ ListenNew(s) \/ Stop(s)
                \/ \E name \in KeyNames : ServeKey(s, name)
                \/ \E k \in {page} \cup {file[name] : name \in KeyNames} : ListenSupplied(s, k)
    BY <2>3, ServerMeet
  <2> QED BY <1>2, <2>1, <2>2, <2>3 DEF MeetNext
<1> QED BY <1>1, <1>2

\* The invariant gives both promises.
LEMMA MeetIInvMeets == ASSUME MeetIInv PROVE AddressMeets
<1> SUFFICES ASSUME NEW s \in Servers, Running(s), HasRelay(server[s].reg)
             PROVE  LET auto == server[s].key.from = "auto" IN
                    /\ (server[s].kind = "web" /\ auto) \/ LeadsTo(server[s].addr, s)
                    /\ \A p \in printed :
                          server[s].key = p.key => auto \/ LeadsTo(p.addr, s)
  BY DEF AddressMeets
<1>1. /\ \/ server[s].kind = "web" /\ server[s].key.from = "auto"
         \/ Points(server[s].addr, server[s].reg)
      /\ \/ server[s].key.from \in {"auto", "new"}
         \/ Points(Addr(server[s].key.public), server[s].reg)
  BY DEF MeetIInv, ServersFound, Found, Running
<1>2. (server[s].kind = "web" /\ server[s].key.from = "auto") \/ LeadsTo(server[s].addr, s)
  BY <1>1, PointsLeads
<1>3. ASSUME NEW p \in printed, server[s].key = p.key, server[s].key.from # "auto"
      PROVE  LeadsTo(p.addr, s)
  <2>1. p.addr = Addr(server[s].key.public) /\ server[s].key.from # "new"
    BY <1>3 DEF MeetIInv, PrintedKeys
  <2>2. Points(p.addr, server[s].reg)
    BY <1>1, <1>3, <2>1
  <2> QED BY <2>2, PointsLeads
<1> QED BY <1>2, <1>3

\* Every reachable state satisfies the inductive invariant.
THEOREM MeetInvariance == MeetSpec => []MeetIInv
<1> QED BY InitMeet, NextMeet, PTL DEF MeetSpec

\* The variables of the key files, the genkeys and the servers keep their types.
THEOREM MeetTypeCorrect == MeetSpec => []MeetTypeOK
<1>1. MeetIInv => MeetTypeOK
  BY DEF MeetIInv
<1> QED BY <1>1, MeetInvariance, PTL

\* Every address a server or genkey has printed leads a client to a relay
\* meshed with the one the server waits at (server, genKey, tailcatListen,
\* Addr.Resolve, Client.ensureStarted).
THEOREM AddressMeetsInvariance == MeetSpec => []AddressMeets
<1> QED BY MeetInvariance, MeetIInvMeets, PTL

\* A kept key gives the same address at every start of a server of its kind
\* (server, tailcatListen).
THEOREM KeepsAddressInvariance == MeetSpec => []KeepsAddress
<1>1. MeetIInv => KeepsAddress
  BY DEF MeetIInv
<1> QED BY <1>1, MeetInvariance, PTL
=============================================================================

---------------------------- MODULE ServicesProofs ----------------------------
(***************************************************************************)
(* Proofs about Services, for every set of ports, flows and acceptors, any *)
(* configuration of the server and any number of listeners; and about the  *)
(* UDP flows it hands out, for every idle timeout.                         *)
(***************************************************************************)
EXTENDS Services, UdpFlow, FiniteSetTheorems, TLAPS

\* Where a flow can be.
FlowStates == {"none", "lookup", "handing", "owned", "handler", "closed"}

\* Flows are records, and listeners are numbered in the order of creation.
Shapes ==
    /\ flow \in [Flows -> [st : FlowStates, via : {"packet", "stream"},
                           key : Keys \union {<<"tcp", 0>>},
                           ln : Created \union {NoListener}]]
    /\ \E n \in 0..MaxListeners : Created = 1..n
    /\ \A f \in Flows : flow[f].st = "lookup" => flow[f].key \in Keys

\* A server that runs has the filter of its present listeners.
FilterIsCurrent == server = "up" => filter = BuildFilter(listeners)

\* The inductive invariant from which the theorems follow.
IInv == TypeOK /\ Shapes /\ OpenIsRegistered /\ FilterIsCurrent

-----------------------------------------------------------------------------
(* Facts about the operators.                                              *)

\* No listener that has been created is NoListener.
LEMMA CreatedFacts ==
    ASSUME Shapes
    PROVE  NoListener \notin Created /\ Created \subseteq 1..MaxListeners
<1>1. PICK n \in 0..MaxListeners : Created = 1..n
  BY DEF Shapes
<1>2. 1..n \subseteq 1..MaxListeners
  BY ServicesAssumption
<1> QED BY <1>1, <1>2, ServicesAssumption

\* Listen gives its listener the next number.
LEMMA NextNumber ==
    ASSUME Shapes, NEW l, l = Cardinality(Created) + 1, l <= MaxListeners
    PROVE  /\ l \in 1..MaxListeners /\ l \notin Created /\ l # NoListener
           /\ 1..l = Created \union {l}
<1>1. PICK n \in 0..MaxListeners : Created = 1..n
  BY DEF Shapes
<1>2. Cardinality(1..n) = n
  BY FS_Interval
<1>3. l = n + 1
  BY <1>1, <1>2
<1>4. 1..(n + 1) = (1..n) \union {n + 1} /\ n + 1 \notin 1..n
  BY ServicesAssumption
<1>5. l \in 1..MaxListeners
  BY <1>3
<1> QED BY <1>1, <1>3, <1>4, <1>5, ServicesAssumption

\* The filter admits pairs of a network and a port.
LEMMA BuildFilterType ==
    ASSUME NEW m \in [Keys -> Created \union {NoListener}]
    PROVE  BuildFilter(m) \subseteq Keys
BY ServicesAssumption DEF BuildFilter, Listening, Keys

-----------------------------------------------------------------------------
(* The initial states, and each action, establish the invariant.           *)

\* There are no listeners and no flows.
LEMMA InitIInv == Init => IInv
<1> SUFFICES ASSUME Init PROVE IInv
  OBVIOUS
<1>1. Created = {} /\ Created = 1..0
  BY DEF Init, Created
<1>2. Shapes
  <2>1. 0 \in 0..MaxListeners
    BY ServicesAssumption
  <2>2. flow \in [Flows -> [st : FlowStates, via : {"packet", "stream"},
                            key : Keys \union {<<"tcp", 0>>},
                            ln : Created \union {NoListener}]]
    BY DEF Init, NoFlow, FlowStates
  <2>3. \A f \in Flows : flow[f].st = "none"
    BY DEF Init, NoFlow
  <2> QED BY <1>1, <2>1, <2>2, <2>3 DEF Shapes
<1>3. TypeOK
  BY <1>1 DEF Init, TypeOK, NoFlow
<1>4. OpenIsRegistered /\ FilterIsCurrent
  BY <1>1 DEF Init, OpenIsRegistered, FilterIsCurrent
<1> QED BY <1>2, <1>3, <1>4 DEF IInv

\* Start builds the filter.
LEMMA StartIInv ==
    ASSUME IInv, Start
    PROVE  IInv'
<1> USE DEF Start, IInv
<1>1. filter' \subseteq Keys
  BY BuildFilterType DEF TypeOK
<1>2. TypeOK' /\ Shapes'
  BY <1>1 DEF TypeOK, Shapes, Created
<1>3. OpenIsRegistered'
  BY DEF OpenIsRegistered, Created
<1>4. FilterIsCurrent'
  BY DEF FilterIsCurrent, BuildFilter
<1> QED BY <1>2, <1>3, <1>4

\* A new listener is registered at a port that was free.
LEMMA ListenIInv ==
    ASSUME IInv, NEW k \in Keys, Listen(k)
    PROVE  IInv'
<1> USE DEF IInv
<1> DEFINE l == Cardinality(Created) + 1
<1>1. /\ listeners[k] = NoListener
      /\ listeners' = [listeners EXCEPT ![k] = l]
      /\ lnKey' = [i \in 1..l |-> IF i = l THEN k ELSE lnKey[i]]
      /\ lnClosed' = [i \in 1..l |-> IF i = l THEN FALSE ELSE lnClosed[i]]
      /\ filter' = BuildFilter(listeners')
      /\ UNCHANGED <<forwarding, server, flow, acceptor>>
      /\ l <= MaxListeners
  BY DEF Listen
<1>2. /\ l \in 1..MaxListeners /\ l \notin Created /\ l # NoListener
      /\ 1..l = Created \union {l}
  BY <1>1, NextNumber
<1> HIDE DEF l
<1>3. Created' = Created \union {l}
  BY <1>1, <1>2 DEF Created
<1>4. /\ lnKey'[l] = k /\ ~lnClosed'[l]
      /\ \A i \in Created : lnKey'[i] = lnKey[i] /\ lnClosed'[i] = lnClosed[i]
  BY <1>1, <1>2
<1>5. listeners' \in [Keys -> Created' \union {NoListener}]
  BY <1>1, <1>3 DEF TypeOK
<1>6. filter' \subseteq Keys
  BY <1>1, <1>5, ServicesAssumption DEF BuildFilter, Listening, Keys
<1>7. Shapes'
  <2>1. Created' = 1..l /\ l \in 0..MaxListeners
    BY <1>2, <1>3
  <2> QED BY <1>1, <1>3, <2>1 DEF Shapes
<1>8. TypeOK'
  <2>1. lnKey' \in [Created' -> Keys] /\ lnClosed' \in [Created' -> BOOLEAN]
    BY <1>1, <1>2, <1>3 DEF TypeOK
  <2>2. acceptor' \in [Acceptors -> Created' \union {NoListener}]
    BY <1>1, <1>3 DEF TypeOK
  <2> QED BY <1>1, <1>3, <1>5, <1>6, <2>1, <2>2 DEF TypeOK
<1>9. OpenIsRegistered'
  <2>1. ASSUME NEW i \in Created', ~lnClosed'[i]
        PROVE  listeners'[lnKey'[i]] = i
    <3>1. CASE i = l
      BY <1>1, <1>4, <3>1 DEF TypeOK
    <3>2. CASE i \in Created
      <4>1. ~lnClosed[i] /\ lnKey'[i] = lnKey[i] /\ lnKey[i] \in Keys
        BY <1>4, <2>1, <3>2 DEF TypeOK
      <4>2. listeners[lnKey[i]] = i /\ i # NoListener
        BY <3>2, <4>1, CreatedFacts DEF OpenIsRegistered
      <4>3. lnKey[i] # k
        BY <1>1, <4>2
      <4> QED BY <1>1, <4>1, <4>2, <4>3
    <3> QED BY <1>3, <2>1, <3>1, <3>2
  <2>2. ASSUME NEW h \in Keys, listeners'[h] # NoListener
        PROVE  ~lnClosed'[listeners'[h]] /\ lnKey'[listeners'[h]] = h
    <3>1. CASE h = k
      BY <1>1, <1>4, <3>1 DEF TypeOK
    <3>2. CASE h # k
      <4>1. listeners'[h] = listeners[h] /\ listeners[h] \in Created
        BY <1>1, <2>2, <3>2 DEF TypeOK
      <4> QED BY <1>4, <2>2, <4>1 DEF OpenIsRegistered
    <3> QED BY <3>1, <3>2
  <2> QED BY <2>1, <2>2 DEF OpenIsRegistered
<1>10. FilterIsCurrent'
  BY <1>1 DEF FilterIsCurrent, BuildFilter
<1> QED BY <1>7, <1>8, <1>9, <1>10

\* A listener that is open is the one registered at its port, so closing it
\* unregisters no other.
LEMMA ListenerCloseIInv ==
    ASSUME IInv, NEW l \in 1..MaxListeners, ListenerClose(l)
    PROVE  IInv'
<1> USE DEF ListenerClose, IInv
<1>1. lnKey[l] \in Keys /\ listeners[lnKey[l]] = l /\ Created' = Created
  BY DEF TypeOK, OpenIsRegistered, Created
<1>2. listeners' \in [Keys -> Created' \union {NoListener}]
  BY <1>1 DEF TypeOK
<1>3. filter' \subseteq Keys
  BY <1>2, ServicesAssumption DEF BuildFilter, Listening, Keys
<1>4. TypeOK'
  BY <1>1, <1>2, <1>3 DEF TypeOK
<1>5. Shapes'
  BY <1>1 DEF Shapes
<1>6. OpenIsRegistered'
  <2>1. ASSUME NEW i \in Created', ~lnClosed'[i]
        PROVE  listeners'[lnKey'[i]] = i
    <3>1. i # l /\ ~lnClosed[i] /\ i \in Created
      BY <1>1, <2>1 DEF TypeOK
    <3>2. listeners[lnKey[i]] = i /\ lnKey[i] # lnKey[l]
      BY <1>1, <3>1 DEF OpenIsRegistered
    <3> QED BY <3>1, <3>2 DEF TypeOK
  <2>2. ASSUME NEW h \in Keys, listeners'[h] # NoListener
        PROVE  ~lnClosed'[listeners'[h]] /\ lnKey'[listeners'[h]] = h
    <3>1. listeners'[h] = listeners[h] /\ h # lnKey[l]
      BY <2>2 DEF TypeOK
    <3>2. listeners[h] \in Created /\ ~lnClosed[listeners[h]] /\ lnKey[listeners[h]] = h
      BY <2>2, <3>1 DEF TypeOK, OpenIsRegistered
    <3> QED BY <3>1, <3>2 DEF TypeOK
  <2> QED BY <2>1, <2>2 DEF OpenIsRegistered
<1>7. FilterIsCurrent'
  BY DEF FilterIsCurrent, BuildFilter
<1> QED BY <1>4, <1>5, <1>6, <1>7

\* The sweep of Server.Close closes every listener that is open.
LEMMA CloseListenersIInv ==
    ASSUME IInv, CloseListeners
    PROVE  IInv'
<1> USE DEF CloseListeners, IInv
<1>1. Created' = Created
  BY DEF Created
<1>2. TypeOK'
  BY <1>1 DEF TypeOK
<1>3. Shapes'
  BY <1>1 DEF Shapes
<1>4. \A l \in Created : lnClosed'[l]
  <2> SUFFICES ASSUME NEW l \in Created, ~lnClosed[l]
               PROVE  \E k \in Keys : listeners[k] = l
    BY DEF TypeOK
  <2>1. lnKey[l] \in Keys /\ listeners[lnKey[l]] = l
    BY DEF TypeOK, OpenIsRegistered
  <2> QED BY <2>1
<1>5. OpenIsRegistered'
  BY <1>1, <1>4 DEF OpenIsRegistered
<1>6. FilterIsCurrent'
  BY DEF FilterIsCurrent
<1> QED BY <1>2, <1>3, <1>5, <1>6

\* The engine is closed.
LEMMA CloseEngineIInv ==
    ASSUME IInv, CloseEngine
    PROVE  IInv'
<1> USE DEF CloseEngine, IInv
<1>1. TypeOK' /\ Shapes'
  BY DEF TypeOK, Shapes, Created
<1>2. OpenIsRegistered' /\ FilterIsCurrent'
  BY DEF OpenIsRegistered, Created, FilterIsCurrent
<1> QED BY <1>1, <1>2

\* What the flows and acceptors do leaves listeners and filter alone.
LEMMA ServerUntouched ==
    ASSUME IInv, UNCHANGED serverState,
           flow' \in [Flows -> [st : FlowStates, via : {"packet", "stream"},
                                key : Keys \union {<<"tcp", 0>>},
                                ln : Created \union {NoListener}]],
           \A f \in Flows :
              /\ flow'[f].st = "lookup" => flow'[f].key \in Keys
              /\ flow'[f].st \in {"handing", "owned"} => flow'[f].ln \in Created,
           acceptor' \in [Acceptors -> Created \union {NoListener}]
    PROVE  IInv'
<1> USE DEF IInv, serverState
<1>1. Created' = Created
  BY DEF Created
<1>2. TypeOK'
  BY <1>1 DEF TypeOK, FlowStates
<1>3. Shapes'
  BY <1>1 DEF Shapes
<1>4. OpenIsRegistered'
  BY <1>1 DEF OpenIsRegistered
<1>5. FilterIsCurrent'
  BY DEF FilterIsCurrent, BuildFilter
<1> QED BY <1>2, <1>3, <1>4, <1>5

\* A step of a flow: arrival, lookup, the end of its listener, its own end.
LEMMA FlowStepIInv ==
    ASSUME IInv, NEW f \in Flows,
           \/ \E via \in {"packet", "stream"}, k \in Keys : Arrive(f, via, k)
           \/ Lookup(f) \/ HandleClosed(f) \/ FlowEnds(f)
    PROVE  IInv'
<1> USE DEF IInv
<1> DEFINE FlowRec == [st : FlowStates, via : {"packet", "stream"},
                       key : Keys \union {<<"tcp", 0>>},
                       ln : Created \union {NoListener}]
<1>1. ASSUME NEW r \in FlowRec,
             r.st = "lookup" => r.key \in Keys,
             r.st \in {"handing", "owned"} => r.ln \in Created,
             flow' = [flow EXCEPT ![f] = r],
             UNCHANGED <<serverState, acceptor>>
      PROVE  IInv'
  <2>1. flow' \in [Flows -> FlowRec]
    BY <1>1 DEF Shapes
  <2>2. \A g \in Flows : flow'[g] = IF g = f THEN r ELSE flow[g]
    BY <1>1 DEF Shapes
  <2>3. \A g \in Flows : flow[g].st \in {"handing", "owned"} => flow[g].ln \in Created
    BY DEF TypeOK
  <2> QED BY <1>1, <2>1, <2>2, <2>3, ServerUntouched DEF TypeOK, Shapes
<1>2. flow[f] \in FlowRec
  BY DEF Shapes
<1>3. Ended \in FlowRec /\ Ended.st = "closed"
  BY DEF Ended, NoFlow, FlowStates
<1>4. CASE \E via \in {"packet", "stream"}, k \in Keys : Arrive(f, via, k)
  <2>1. PICK via \in {"packet", "stream"}, k \in Keys : Arrive(f, via, k)
    BY <1>4
  <2> DEFINE r == [NoFlow EXCEPT !.st = "lookup", !.via = via, !.key = k]
  <2>2. NoFlow \in FlowRec
    BY DEF NoFlow, FlowStates
  <2>3. r \in FlowRec /\ r.st = "lookup" /\ r.key = k
    BY <2>2 DEF FlowStates
  <2>4. flow' = [flow EXCEPT ![f] = r] /\ UNCHANGED <<serverState, acceptor>>
    BY <2>1 DEF Arrive
  <2> QED BY <1>1, <2>3, <2>4
<1>5. CASE Lookup(f)
  <2> DEFINE k == flow[f].key
  <2>1. UNCHANGED <<serverState, acceptor>> /\ flow[f].st = "lookup"
    BY <1>5 DEF Lookup
  <2>2. CASE listeners[k] # NoListener
    <3> DEFINE r == [flow[f] EXCEPT !.st = "handing", !.ln = listeners[k]]
    <3>1. flow' = [flow EXCEPT ![f] = r]
      BY <1>2, <1>5, <2>2 DEF Lookup
    <3>2. listeners[k] \in Created
      BY <2>1, <2>2 DEF TypeOK, Shapes
    <3>3. r \in FlowRec /\ r.st = "handing" /\ r.ln \in Created
      BY <1>2, <3>2 DEF FlowStates
    <3> QED BY <1>1, <2>1, <3>1, <3>3
  <2>3. CASE flow' = [flow EXCEPT ![f].st = "handler"]
    <3> DEFINE r == [flow[f] EXCEPT !.st = "handler"]
    <3>1. flow' = [flow EXCEPT ![f] = r]
      BY <2>3
    <3>2. r \in FlowRec /\ r.st = "handler"
      BY <1>2 DEF FlowStates
    <3> QED BY <1>1, <2>1, <3>1, <3>2
  <2>4. CASE flow' = [flow EXCEPT ![f] = Ended]
    BY <1>1, <1>3, <2>1, <2>4
  <2> QED BY <1>5, <2>2, <2>3, <2>4 DEF Lookup
<1>6. CASE HandleClosed(f) \/ FlowEnds(f)
  BY <1>1, <1>3, <1>6 DEF HandleClosed, FlowEnds
<1> QED BY <1>4, <1>5, <1>6

\* A step of a goroutine in Accept.
LEMMA AcceptStepIInv ==
    ASSUME IInv, NEW a \in Acceptors,
           \/ \E l \in 1..MaxListeners : Accept(a, l)
           \/ AcceptClosed(a)
           \/ \E f \in Flows : HandOver(f, a)
    PROVE  IInv'
<1> USE DEF IInv
<1>1. UNCHANGED serverState
  BY DEF Accept, AcceptClosed, HandOver
<1>2. acceptor' \in [Acceptors -> Created \union {NoListener}]
  BY DEF Accept, AcceptClosed, HandOver, TypeOK
<1>3. CASE UNCHANGED flow
  BY <1>1, <1>2, <1>3, ServerUntouched DEF TypeOK, Shapes
<1>4. CASE \E f \in Flows : HandOver(f, a)
  <2>1. PICK f \in Flows : HandOver(f, a)
    BY <1>4
  <2>2. /\ flow' = [flow EXCEPT ![f].st = "owned"]
        /\ flow[f].st = "handing"
    BY <2>1 DEF HandOver
  <2>3. flow' \in [Flows -> [st : FlowStates, via : {"packet", "stream"},
                             key : Keys \union {<<"tcp", 0>>},
                             ln : Created \union {NoListener}]]
    BY <2>2 DEF Shapes, FlowStates
  <2>4. \A g \in Flows : /\ flow'[g].ln = flow[g].ln /\ flow'[g].key = flow[g].key
                         /\ flow'[g].st = IF g = f THEN "owned" ELSE flow[g].st
    BY <2>2 DEF Shapes
  <2>5. \A g \in Flows :
           /\ flow'[g].st = "lookup" => flow'[g].key \in Keys
           /\ flow'[g].st \in {"handing", "owned"} => flow'[g].ln \in Created
    BY <2>2, <2>4 DEF TypeOK, Shapes
  <2> QED BY <1>1, <1>2, <2>3, <2>5, ServerUntouched
<1> QED BY <1>3, <1>4 DEF Accept, AcceptClosed

\* Every step preserves the invariant.
LEMMA NextIInv == ASSUME IInv, [Next]_vars PROVE IInv'
<1>1. CASE UNCHANGED vars
  BY <1>1, ServerUntouched DEF IInv, vars, TypeOK, Shapes
<1>2. CASE Next
  BY <1>2, StartIInv, ListenIInv, ListenerCloseIInv, CloseListenersIInv,
     CloseEngineIInv, FlowStepIInv, AcceptStepIInv DEF Next
<1> QED BY <1>1, <1>2

-----------------------------------------------------------------------------
(* The theorems.                                                           *)

\* The invariant holds in every state of every behaviour.
THEOREM Invariance == Spec => []IInv
BY InitIInv, NextIInv, PTL DEF Spec

\* Every variable keeps its type: a flow that is being handed over always has
\* a listener that exists.
THEOREM TypeCorrect == Spec => []TypeOK
<1>1. IInv => TypeOK
  BY DEF IInv
<1> QED BY <1>1, Invariance, PTL

\* The listeners in the maps are exactly the open ones, each at its port.
THEOREM OpenIsRegisteredInvariance == Spec => []OpenIsRegistered
<1>1. IInv => OpenIsRegistered
  BY DEF IInv
<1> QED BY <1>1, Invariance, PTL

\* While the server runs, its filter is the one buildFilterLocked makes of its
\* present listeners, whichever of Listen and listener.Close came last.
THEOREM FilterIsCurrentInvariance == Spec => []FilterIsCurrent
<1>1. IInv => FilterIsCurrent
  BY DEF IInv
<1> QED BY <1>1, Invariance, PTL

\* A TCP connection reaches the same service by packets as by an H3 stream,
\* except that with forwarding the stream path may reach nothing.
THEOREM GatesAgreeInvariance == Spec => []GatesAgree
<1>1. ASSUME IInv PROVE GatesAgree
  <2> SUFFICES ASSUME server = "up", NEW p \in Ports
               PROVE  LET packet == Reached("packet", <<"tcp", p>>)
                          stream == Reached("stream", <<"tcp", p>>)
                      IN  stream = packet \/ (forwarding /\ stream = "nothing")
    BY DEF GatesAgree
  <2> DEFINE k == <<"tcp", p>>
  <2>1. k \in Keys /\ k[1] = "tcp" /\ k[2] = p
    BY DEF Keys
  <2>2. k \in filter <=> forwarding \/ p \in ServedTCPPorts \/ listeners[k] # NoListener
    BY <1>1, <2>1 DEF IInv, FilterIsCurrent, BuildFilter, Listening
  <2>3. /\ Fallback("packet", k) <=> p \in OnTCPPorts
        /\ Fallback("stream", k) <=> p \in OnTCPPorts /\ p \in ServedTCPPorts
    BY <2>1 DEF Fallback
  <2> QED BY <2>2, <2>3 DEF Reached
<1> QED BY <1>1, Invariance, PTL

\* Listeners keep their ports; one that is closed stays closed, and gets no flow
\* but those it had when it was closed.
ClosedForGood ==
    \A l \in Created :
        /\ l \in Created' /\ lnKey'[l] = lnKey[l]
        /\ lnClosed[l] =>
              /\ lnClosed'[l]
              /\ \A f \in Flows :
                    flow'[f].st \in {"handing", "owned"} /\ flow'[f].ln = l =>
                        flow[f].st = flow'[f].st /\ flow[f].ln = l

\* Closing a listener is final: neither a Listen on its port nor a flow or an
\* acceptor that was on its way brings it back or is served by it.
THEOREM ClosedIsFinal == Spec => [][ClosedForGood]_vars
<1>1. ASSUME IInv, Next PROVE ClosedForGood
  <2> USE <1>1 DEF IInv, ClosedForGood
  <2>1. ASSUME NEW k \in Keys, Listen(k) PROVE ClosedForGood
    <3>1. Cardinality(Created) + 1 <= MaxListeners
      BY <2>1 DEF Listen
    <3>2. /\ 1..(Cardinality(Created) + 1) = Created \union {Cardinality(Created) + 1}
          /\ Cardinality(Created) + 1 \notin Created
      BY <3>1, NextNumber
    <3> QED BY <2>1, <3>2 DEF Listen, Created
  <2>2. ASSUME NEW l \in 1..MaxListeners, ListenerClose(l) PROVE ClosedForGood
    BY <2>2 DEF ListenerClose, Created, TypeOK
  <2>3. CASE Start \/ CloseListeners \/ CloseEngine
    BY <2>3 DEF Start, CloseListeners, CloseEngine, Created
  <2>4. ASSUME NEW f \in Flows, NEW via \in {"packet", "stream"}, NEW k \in Keys,
               Arrive(f, via, k)
        PROVE  ClosedForGood
    BY <2>4 DEF Arrive, serverState, Created, Shapes, NoFlow
  <2>5. ASSUME NEW f \in Flows, HandleClosed(f) \/ FlowEnds(f) PROVE ClosedForGood
    BY <2>5 DEF HandleClosed, FlowEnds, serverState, Created, Shapes, Ended, NoFlow
  <2>6. ASSUME NEW f \in Flows, Lookup(f) PROVE ClosedForGood
    <3>1. UNCHANGED serverState /\ flow[f].key \in Keys
      BY <2>6 DEF Lookup, Shapes
    <3>2. \A g \in Flows \ {f} : flow'[g] = flow[g]
      BY <2>6 DEF Lookup, Shapes
    <3>3. ASSUME NEW l \in Created, lnClosed[l]
          PROVE  flow'[f].st \notin {"handing", "owned"} \/ flow'[f].ln # l
      <4>1. listeners[flow[f].key] # l
        BY <3>1, <3>3, CreatedFacts DEF OpenIsRegistered
      <4> QED BY <2>6, <4>1 DEF Lookup, Shapes, Ended, NoFlow
    <3> QED BY <3>1, <3>2, <3>3 DEF serverState, Created
  <2>7. ASSUME NEW a \in Acceptors,
               (\E l \in 1..MaxListeners : Accept(a, l)) \/ AcceptClosed(a)
        PROVE  ClosedForGood
    BY <2>7 DEF Accept, AcceptClosed, serverState, Created
  <2>8. ASSUME NEW a \in Acceptors, NEW f \in Flows, HandOver(f, a)
        PROVE  ClosedForGood
    <3>1. /\ UNCHANGED serverState /\ ~lnClosed[flow[f].ln]
          /\ flow'[f].ln = flow[f].ln
          /\ \A g \in Flows \ {f} : flow'[g] = flow[g]
      BY <2>8 DEF HandOver, Shapes
    <3> QED BY <3>1 DEF serverState, Created
  <2> HIDE DEF IInv, ClosedForGood
  <2>9. CASE \E f \in Flows :
               \/ \E via \in {"packet", "stream"}, k \in Keys : Arrive(f, via, k)
               \/ Lookup(f) \/ HandleClosed(f) \/ FlowEnds(f)
    BY <2>4, <2>5, <2>6, <2>9
  <2>10. CASE \E a \in Acceptors :
                \/ \E l \in 1..MaxListeners : Accept(a, l)
                \/ AcceptClosed(a)
                \/ \E f \in Flows : HandOver(f, a)
    <3>1. PICK a \in Acceptors :
                \/ \E l \in 1..MaxListeners : Accept(a, l)
                \/ AcceptClosed(a)
                \/ \E f \in Flows : HandOver(f, a)
      BY <2>10
    <3> QED BY <2>7, <2>8, <3>1
  <2> QED BY <1>1, <2>1, <2>2, <2>3, <2>9, <2>10 DEF Next
<1>2. IInv /\ [Next]_vars => [ClosedForGood]_vars
  BY <1>1
<1> QED BY <1>2, Invariance, PTL DEF Spec

-----------------------------------------------------------------------------
(* UDP flows.                                                              *)

\* The inner connection is closed by whoever set closed, and by nobody else.
ClosedOnce == closing + closes = IF closed THEN 1 ELSE 0

\* An open flow's timer is set to its deadline, or has expired with a checkIdle
\* on its way that sets it again or closes the flow.
Watched == ~closed => timer = deadline \/ (timer = Stopped /\ checks > 0)

\* While a flow is open its deadline is at least a timeout after each user's
\* last successful read or write, unless the touch is still to come.
Extended ==
    ~closed => \A u \in Users : deadline + quiet[u] >= Timeout \/ pc[u] = "touch"

\* The caller of ProxyPacketConns closes the sockets after a pump has ended,
\* and returns after both have.
Ends ==
    /\ main # "wait1" => \E u \in Pumps : pump[u] = "done"
    /\ main \notin {"wait1", "close"} => closed
    /\ ~local <=> main \in {"wait2", "end"}
    /\ main = "end" => \A u \in Pumps : pump[u] = "done"

\* A pump with a touch before it is not done: it has just used the flow.
Touching == \A u \in Pumps : pc[u] = "touch" => pump[u] # "done"

\* The inductive invariant of a proxied flow.
FlowIInv ==
    FlowTypeOK /\ ClosedOnce /\ Watched /\ Extended /\ Ends /\ Touching

\* The steps of the flow itself, with or without a proxy on top of it, keep its
\* type, the number of closes and the timer.
LEMMA IdleNextKeeps ==
    ASSUME IdleTypeOK, ClosedOnce, Watched, IdleNext
    PROVE  (IdleTypeOK /\ ClosedOnce /\ Watched)'
<1> USE IdleAssumption DEF IdleTypeOK, ClosedOnce, Watched, Stopped
<1>1. CASE TimerFires
  BY <1>1 DEF TimerFires
<1>2. CASE CheckIdle
  <2>1. CASE closed
    BY <1>2, <2>1 DEF CheckIdle
  <2>2. CASE ~closed /\ deadline > 0
    BY <1>2, <2>2 DEF CheckIdle
  <2>3. CASE ~closed /\ deadline = 0
    <3>1. /\ checks > 0 /\ checks' = checks - 1
          /\ closed' = TRUE /\ closing' = closing + 1
          /\ UNCHANGED <<deadline, timer, closes, pc, quiet>>
      BY <1>2, <2>3 DEF CheckIdle
    <3> QED BY <2>3, <3>1
  <2> QED BY <2>1, <2>2, <2>3
<1>3. CASE InnerClose
  BY <1>3 DEF InnerClose
<1>4. CASE Tick
  BY <1>4 DEF Tick
<1>5. ASSUME NEW u \in Users, IOSucceeds(u)
      PROVE  (IdleTypeOK /\ ClosedOnce /\ Watched)'
  BY <1>5 DEF IOSucceeds
<1>6. ASSUME NEW u \in Users, Touch(u)
      PROVE  (IdleTypeOK /\ ClosedOnce /\ Watched)'
  BY <1>6 DEF Touch
<1>7. ASSUME NEW u \in Users, Close(u)
      PROVE  (IdleTypeOK /\ ClosedOnce /\ Watched)'
  BY <1>7 DEF Close
<1> QED BY <1>1, <1>2, <1>3, <1>4, <1>5, <1>6, <1>7 DEF IdleNext

\* A successful read or write starts a user's timeout anew and is followed by
\* its touch, which moves the deadline; the clock runs for both alike.
LEMMA IdleNextExtends ==
    ASSUME IdleTypeOK, Extended, IdleNext
    PROVE  Extended'
<1> SUFFICES ASSUME ~closed', NEW v \in Users
             PROVE  (deadline + quiet[v] >= Timeout \/ pc[v] = "touch")'
  BY DEF Extended
<1>1. CASE TimerFires \/ CheckIdle \/ InnerClose
  <2>1. UNCHANGED <<deadline, quiet, pc>> /\ ~closed
    BY <1>1 DEF TimerFires, CheckIdle, InnerClose
  <2> QED BY <2>1 DEF Extended
<1>2. CASE Tick
  <2>1. /\ ~closed /\ pc' = pc
        /\ deadline' = IF deadline = 0 THEN 0 ELSE deadline - 1
        /\ quiet'[v] = IF quiet[v] = Timeout THEN Timeout ELSE quiet[v] + 1
    BY <1>2 DEF Tick
  <2>2. deadline \in 0..Timeout /\ quiet[v] \in 0..Timeout /\ Timeout \in Nat
    BY IdleAssumption DEF IdleTypeOK
  <2>3. deadline + quiet[v] >= Timeout \/ pc[v] = "touch"
    BY <2>1 DEF Extended
  <2> QED BY <2>1, <2>2, <2>3
<1>3. ASSUME NEW u \in Users, IOSucceeds(u)
      PROVE  (deadline + quiet[v] >= Timeout \/ pc[v] = "touch")'
  BY <1>3 DEF IOSucceeds, Extended, IdleTypeOK
<1>4. ASSUME NEW u \in Users, Touch(u)
      PROVE  (deadline + quiet[v] >= Timeout \/ pc[v] = "touch")'
  <2>1. deadline' = Timeout /\ quiet' = quiet
    BY <1>4 DEF Touch
  <2>2. quiet[v] \in 0..Timeout /\ Timeout \in Nat
    BY IdleAssumption DEF IdleTypeOK
  <2> QED BY <2>1, <2>2
<1>5. ASSUME NEW u \in Users, Close(u)
      PROVE  FALSE
  BY <1>5 DEF Close
<1> QED BY <1>1, <1>2, <1>3, <1>4, <1>5 DEF IdleNext

\* Every step of a proxied flow is a step of the flow, or leaves it alone.
LEMMA FlowStepIsIdleStep ==
    ASSUME FlowNext
    PROVE  IdleNext \/ UNCHANGED idleVars
<1> USE UsersAssumption DEF IdleNext, Pumps
<1>1. CASE Timer
  BY <1>1 DEF Timer, Idle
<1>2. CASE FirstDone \/ FlowClosed \/ CloseLocal \/ SecondDone
  BY <1>2 DEF FirstDone, FlowClosed, CloseLocal, SecondDone
<1>3. CASE CloseFlow
  BY <1>3 DEF CloseFlow
<1>4. ASSUME NEW u \in Pumps, PumpUsesFlow(u) \/ Idle(Touch(u))
      PROVE  IdleNext
  BY <1>4 DEF PumpUsesFlow, Idle
<1>5. ASSUME NEW u \in Pumps, PumpUsesLocal(u) \/ PumpFails(u)
      PROVE  UNCHANGED idleVars
  BY <1>5 DEF PumpUsesLocal, PumpFails
<1> QED BY <1>1, <1>2, <1>3, <1>4, <1>5 DEF FlowNext

LEMMA FlowInitIInv == FlowInit => FlowIInv
<1> SUFFICES ASSUME FlowInit PROVE FlowIInv
  OBVIOUS
<1> USE DEF FlowInit, IdleInit
<1>1. IdleTypeOK
  <2>1. /\ Timeout \in 0..Timeout /\ Timeout \in 0..Stopped
        /\ 0 \in 0..Timeout /\ 0 \in 0..MaxChecks
    BY IdleAssumption DEF Stopped
  <2> QED BY <2>1 DEF IdleTypeOK
<1>2. ClosedOnce /\ Watched /\ Extended
  BY IdleAssumption DEF ClosedOnce, Watched, Extended
<1>3. FlowTypeOK /\ Ends /\ Touching
  BY <1>1, UsersAssumption DEF FlowTypeOK, Ends, Touching, Pumps
<1> QED BY <1>1, <1>2, <1>3 DEF FlowIInv

\* The invariant is inductive: the flow's part by IdleNextKeeps, the proxy's
\* part action by action.
LEMMA FlowNextIInv == FlowIInv /\ [FlowNext]_flowVars => FlowIInv'
<1> SUFFICES ASSUME FlowIInv, [FlowNext]_flowVars PROVE FlowIInv'
  OBVIOUS
<1>1. CASE UNCHANGED flowVars
  BY <1>1 DEF flowVars, FlowIInv, FlowTypeOK, IdleTypeOK, ClosedOnce, Watched,
              Extended, Ends, Touching
<1>2. CASE FlowNext
  <2>1. (IdleTypeOK /\ ClosedOnce /\ Watched /\ Extended)'
    <3>1. CASE IdleNext
      BY <3>1, IdleNextKeeps, IdleNextExtends DEF FlowIInv, FlowTypeOK
    <3>2. CASE UNCHANGED idleVars
      BY <3>2 DEF idleVars, FlowIInv, FlowTypeOK, IdleTypeOK, ClosedOnce, Watched,
                  Extended
    <3> QED BY <1>2, <3>1, <3>2, FlowStepIsIdleStep
  <2>2. (FlowTypeOK /\ Ends /\ Touching)'
    <3> USE UsersAssumption, <2>1
        DEF FlowIInv, FlowTypeOK, Ends, Touching, Pumps
    <3>1. CASE Timer
      BY <3>1 DEF Timer, Idle, TimerFires, CheckIdle, InnerClose, Tick, IdleTypeOK
    <3>2. CASE FirstDone \/ SecondDone
      BY <3>2 DEF FirstDone, SecondDone, idleVars
    <3>3. CASE CloseFlow \/ FlowClosed \/ CloseLocal
      <4>1. CASE CloseFlow
        BY <4>1 DEF CloseFlow, Close, idleVars
      <4>2. CASE FlowClosed \/ CloseLocal
        BY <4>2 DEF FlowClosed, CloseLocal, idleVars
      <4> QED BY <3>3, <4>1, <4>2
    <3>4. ASSUME NEW u \in Pumps, PumpUsesFlow(u)
          PROVE  (FlowTypeOK /\ Ends /\ Touching)'
      BY <3>4 DEF PumpUsesFlow, IOSucceeds, Pump, IdleTypeOK
    <3>5. ASSUME NEW u \in Pumps, PumpUsesLocal(u) \/ PumpFails(u)
          PROVE  (FlowTypeOK /\ Ends /\ Touching)'
      BY <3>5 DEF PumpUsesLocal, PumpFails, Ready, Pump, idleVars
    <3>6. ASSUME NEW u \in Pumps, Idle(Touch(u))
          PROVE  (FlowTypeOK /\ Ends /\ Touching)'
      BY <3>6 DEF Idle, Touch, IdleTypeOK
    <3> QED BY <1>2, <3>1, <3>2, <3>3, <3>4, <3>5, <3>6 DEF FlowNext
  <2> QED BY <2>1, <2>2 DEF FlowIInv
<1> QED BY <1>1, <1>2

\* The invariant holds in every reachable state of a proxied flow.
THEOREM FlowInvariance == FlowSpec => []FlowIInv
BY FlowInitIInv, FlowNextIInv, PTL DEF FlowSpec

\* A proxied flow behaves as an idlePacketConn: ProxyPacketConns reads, writes,
\* touches and closes it only in the ways the flow provides for.
THEOREM ProxyUsesFlow == FlowSpec => IdleSpec
<1>1. FlowInit => IdleInit
  BY DEF FlowInit
<1>2. [FlowNext]_flowVars => [IdleNext]_idleVars
  BY FlowStepIsIdleStep DEF flowVars, idleVars
<1> QED BY <1>1, <1>2, PTL DEF FlowSpec, IdleSpec

\* The timer closes a flow only when every successful read or write is a whole
\* timeout back, whatever touch calls run while checkIdle is on its way.
THEOREM NoSpuriousCloseHolds == FlowSpec => NoSpuriousClose
<1> DEFINE Unused ==
      checks' < checks /\ ~closed /\ closed' =>
        \A u \in Users : quiet[u] = Timeout \/ pc[u] = "touch"
<1>1. ASSUME FlowIInv, [FlowNext]_flowVars
      PROVE  [Unused]_idleVars
  <2>1. CASE UNCHANGED idleVars
    BY <2>1
  <2>2. ASSUME IdleNext, checks' < checks, ~closed, closed'
        PROVE  deadline = 0
    <3>1. CASE CheckIdle
      BY <1>1, <2>2, <3>1 DEF CheckIdle, FlowIInv, FlowTypeOK, IdleTypeOK
    <3>2. CASE TimerFires \/ InnerClose \/ Tick
      BY <1>1, <2>2, <3>2 DEF TimerFires, InnerClose, Tick, FlowIInv, FlowTypeOK,
           IdleTypeOK
    <3>3. ASSUME NEW u \in Users, IOSucceeds(u) \/ Touch(u) \/ Close(u)
          PROVE  FALSE
      <4>1. checks' = checks
        BY <3>3 DEF IOSucceeds, Touch, Close
      <4>2. checks \in 0..MaxChecks
        BY <1>1 DEF FlowIInv, FlowTypeOK, IdleTypeOK
      <4> QED BY <2>2, <4>1, <4>2, IdleAssumption
    <3> QED BY <2>2, <3>1, <3>2, <3>3 DEF IdleNext
  <2>3. ASSUME deadline = 0, ~closed, NEW u \in Users
        PROVE  quiet[u] = Timeout \/ pc[u] = "touch"
    <3>1. deadline + quiet[u] >= Timeout \/ pc[u] = "touch"
      BY <1>1, <2>3 DEF FlowIInv, Extended
    <3>2. quiet[u] \in 0..Timeout /\ Timeout \in Nat
      BY <1>1, IdleAssumption DEF FlowIInv, FlowTypeOK, IdleTypeOK
    <3> QED BY <2>3, <3>1, <3>2
  <2> QED BY <1>1, <2>1, <2>2, <2>3, FlowStepIsIdleStep DEF flowVars, idleVars
<1> QED BY <1>1, FlowInvariance, PTL DEF FlowSpec, NoSpuriousClose

\* No open flow is forgotten: there is always a timer set to its deadline or a
\* checkIdle on its way; and the inner connection is closed at most once.
THEOREM FlowIsWatched == FlowSpec => [](Watched /\ closes \in 0..1)
<1>1. FlowIInv => Watched /\ closes \in 0..1
  BY DEF FlowIInv, FlowTypeOK, IdleTypeOK, ClosedOnce
<1> QED BY <1>1, FlowInvariance, PTL

\* ProxyPacketConns returns only when both pumps have ended and both sockets
\* are closed, and closes the local one only after a pump has ended.
THEOREM ProxyEndsClean ==
    FlowSpec => [](/\ main = "end" => closed /\ ~local /\ \A u \in Pumps : pump[u] = "done"
                   /\ ~local => \E u \in Pumps : pump[u] = "done")
<1>1. FlowIInv =>
        /\ main = "end" => closed /\ ~local /\ \A u \in Pumps : pump[u] = "done"
        /\ ~local => \E u \in Pumps : pump[u] = "done"
  BY DEF FlowIInv, Ends
<1> QED BY <1>1, FlowInvariance, PTL
=============================================================================

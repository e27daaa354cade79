------------------------------ MODULE Services ------------------------------
(***************************************************************************)
(* How a server hands connections to its services: Server.Listen and the   *)
(* listener type, Server.Close, the packet filter rebuilt whenever the     *)
(* listeners change, and the two ways a flow reaches a service: as packets *)
(* through filter and netstack, or (TCP) as an H3 stream.                  *)
(***************************************************************************)
EXTENDS Naturals, FiniteSets

CONSTANTS
    Ports,
    Flows,           \* incoming connections and UDP flows
    Acceptors,       \* goroutines calling Accept
    NoListener,
    ServedTCPPorts,  \* Server.ServedTCPPorts; Ports when that is nil
    ServedUDPPorts,  \* Server.ServedUDPPorts; Ports when that is nil
    OnTCPPorts,      \* ports OnTCP has a handler for; {} when OnTCP is nil
    OnUDPPorts,      \* ports OnUDP has a handler for; {} when OnUDP is nil
    MaxListeners     \* bound: listeners created

ASSUME ServicesAssumption ==
    /\ ServedTCPPorts \subseteq Ports /\ ServedUDPPorts \subseteq Ports
    /\ OnTCPPorts \subseteq Ports /\ OnUDPPorts \subseteq Ports
    /\ MaxListeners \in Nat
    /\ NoListener \notin 1..MaxListeners

VARIABLES
    forwarding, \* whether OnTCPForward and OnUDPForward are set
    server,     \* "new", "up", "closing" (listeners closed), "closed"
    listeners,  \* tcpListeners and udpListeners: <<network, port>> -> listener
    lnKey,      \* per listener created: the <<network, port>> it serves
    lnClosed,   \* per listener: closed, and closedc closed with it
    filter,     \* <<network, port>> pairs of its own address the filter admits
    flow,       \* per flow: [st, via, key, ln]
    acceptor    \* per acceptor: the listener it waits on

serverState == <<forwarding, server, listeners, lnKey, lnClosed, filter>>
vars == <<serverState, flow, acceptor>>

Keys  == {"tcp", "udp"} \X Ports
Created == DOMAIN lnKey
NoFlow == [st |-> "none", via |-> "packet", key |-> <<"tcp", 0>>,
           ln |-> NoListener]
Ended == [NoFlow EXCEPT !.st = "closed"]

\* The ports of one network that have a listener in map m.
Listening(n, m) == {p \in Ports : m[<<n, p>>] # NoListener}

\* buildFilterLocked, for the server's own address.
BuildFilter(m) ==
    LET tcp == ServedTCPPorts \union Listening("tcp", m)
        udp == Listening("udp", m) \union
                 (IF OnUDPPorts = {} THEN {} ELSE ServedUDPPorts)
    IN  IF forwarding THEN Keys
        ELSE ({"tcp"} \X tcp) \union ({"udp"} \X udp)

Init ==
    /\ forwarding \in BOOLEAN
    /\ server = "new"
    /\ listeners = [k \in Keys |-> NoListener]
    /\ lnKey = [l \in {} |-> <<"tcp", 0>>]
    /\ lnClosed = [l \in {} |-> FALSE]
    /\ filter = {}
    /\ flow = [f \in Flows |-> NoFlow]
    /\ acceptor = [a \in Acceptors |-> NoListener]

-----------------------------------------------------------------------------
(* Server and listeners.                                                   *)

\* Start, or the implicit start in Listen.
Start ==
    /\ server = "new"
    /\ server' = "up"
    /\ filter' = BuildFilter(listeners)
    /\ UNCHANGED <<forwarding, listeners, lnKey, lnClosed, flow, acceptor>>

\* Listen, on a given port or on one pickUnusedPort found: one critical
\* section of listenerMu. Only s.lb tells it whether the server runs, and
\* Close leaves s.lb set.
Listen(k) ==
    LET l == Cardinality(Created) + 1
    IN  /\ server # "new"
        /\ l <= MaxListeners
        /\ listeners[k] = NoListener
        /\ listeners' = [listeners EXCEPT ![k] = l]
        /\ lnKey' = [i \in 1..l |-> IF i = l THEN k ELSE lnKey[i]]
        /\ lnClosed' = [i \in 1..l |-> IF i = l THEN FALSE ELSE lnClosed[i]]
        /\ filter' = BuildFilter(listeners')
        /\ UNCHANGED <<forwarding, server, flow, acceptor>>

\* Bug: a listener closed before is not recognised.
CloseAgain(l) ==
    /\ l \in Created
    /\ lnClosed' = [lnClosed EXCEPT ![l] = TRUE]
    /\ listeners' = [listeners EXCEPT ![lnKey[l]] = NoListener]
    /\ filter' = BuildFilter(listeners')
    /\ UNCHANGED <<forwarding, server, lnKey, flow, acceptor>>

\* listener.Close; on a closed listener it changes nothing.
ListenerClose(l) ==
    /\ l \in Created
    /\ ~lnClosed[l]
    /\ lnClosed' = [lnClosed EXCEPT ![l] = TRUE]
    /\ listeners' = [listeners EXCEPT ![lnKey[l]] = NoListener]
    /\ filter' = BuildFilter(listeners')
    /\ UNCHANGED <<forwarding, server, lnKey, flow, acceptor>>

\* Server.Close: every registered listener is closed under listenerMu,
\* without a filter rebuild; the engine is closed after the unlock.
CloseListeners ==
    /\ server \in {"up", "closed"}
    /\ server' = "closing"
    /\ lnClosed' = [l \in Created |->
                      lnClosed[l] \/ \E k \in Keys : listeners[k] = l]
    /\ listeners' = [k \in Keys |-> NoListener]
    /\ UNCHANGED <<forwarding, lnKey, filter, flow, acceptor>>

CloseEngine ==
    /\ server = "closing"
    /\ server' = "closed"
    /\ UNCHANGED <<forwarding, listeners, lnKey, lnClosed, filter, flow, acceptor>>

-----------------------------------------------------------------------------
(* Flows and acceptors.                                                    *)

\* A packet flow passes the filter; an H3 stream (TCP only) does not meet it.
Arrive(f, via, k) ==
    /\ server \in {"up", "closing"}
    /\ flow[f].st = "none"
    /\ \/ via = "packet" /\ k \in filter
       \/ via = "stream" /\ k[1] = "tcp"
    /\ flow' = [flow EXCEPT ![f] = [NoFlow EXCEPT !.st = "lookup", !.via = via,
                                                  !.key = k]]
    /\ UNCHANGED <<serverState, acceptor>>

\* Bug: a stream skips the ServedTCPPorts gate.
FallbackAnyPort(via, k) ==
    \/ k[1] = "tcp" /\ k[2] \in OnTCPPorts
    \/ k[1] = "udp" /\ k[2] \in OnUDPPorts

\* What serves a flow that finds no listener: the handler of OnTCP or OnUDP,
\* for a stream only on a served port. Otherwise it is reset or dropped.
Fallback(via, k) ==
    \/ /\ k[1] = "tcp"
       /\ k[2] \in OnTCPPorts
       /\ via = "stream" => k[2] \in ServedTCPPorts
    \/ k[1] = "udp" /\ k[2] \in OnUDPPorts

\* GetTCPHandlerForFlow, GetUDPHandlerForFlow, h3TCPHandler: a listener on
\* the port, looked up under listenerMu, comes first.
Lookup(f) ==
    LET k  == flow[f].key
        ln == listeners[k]
    IN  /\ flow[f].st = "lookup"
        /\ \/ /\ ln # NoListener
              /\ flow' = [flow EXCEPT ![f].st = "handing", ![f].ln = ln]
           \/ /\ ln = NoListener
              /\ Fallback(flow[f].via, k)
              /\ flow' = [flow EXCEPT ![f].st = "handler"]
           \/ /\ ln = NoListener
              /\ ~Fallback(flow[f].via, k)
              /\ flow' = [flow EXCEPT ![f] = Ended]
        /\ UNCHANGED <<serverState, acceptor>>

\* Accept is called; it returns at once or waits.
Accept(a, l) ==
    /\ acceptor[a] = NoListener
    /\ l \in Created
    /\ acceptor' = [acceptor EXCEPT ![a] = l]
    /\ UNCHANGED <<serverState, flow>>

\* The rendezvous on the unbuffered channel conns. Once closedc is closed
\* neither side waits on conns any more.
HandOver(f, a) ==
    /\ flow[f].st = "handing"
    /\ acceptor[a] = flow[f].ln
    /\ ~lnClosed[flow[f].ln]
    /\ flow' = [flow EXCEPT ![f].st = "owned"]
    /\ acceptor' = [acceptor EXCEPT ![a] = NoListener]
    /\ UNCHANGED serverState

\* Bug: handle does not watch closedc.
HandleIgnoresClose(f) == flow[f].st = "handing" /\ UNCHANGED vars

\* handle sees closedc and closes the connection.
HandleClosed(f) ==
    /\ flow[f].st = "handing"
    /\ lnClosed[flow[f].ln]
    /\ flow' = [flow EXCEPT ![f] = Ended]
    /\ UNCHANGED <<serverState, acceptor>>

\* Accept sees closedc and returns net.ErrClosed.
AcceptClosed(a) ==
    /\ acceptor[a] # NoListener
    /\ lnClosed[acceptor[a]]
    /\ acceptor' = [acceptor EXCEPT ![a] = NoListener]
    /\ UNCHANGED <<serverState, flow>>

\* The owner of an accepted connection, or a handler, ends it.
FlowEnds(f) ==
    /\ flow[f].st \in {"owned", "handler"}
    /\ flow' = [flow EXCEPT ![f] = Ended]
    /\ UNCHANGED <<serverState, acceptor>>

Next ==
    \/ Start
    \/ \E k \in Keys : Listen(k)
    \/ \E l \in 1..MaxListeners : ListenerClose(l)
    \/ CloseListeners
    \/ CloseEngine
    \/ \E f \in Flows :
          \/ \E via \in {"packet", "stream"}, k \in Keys : Arrive(f, via, k)
          \/ Lookup(f)
          \/ HandleClosed(f)
          \/ FlowEnds(f)
    \/ \E a \in Acceptors :
          \/ \E l \in 1..MaxListeners : Accept(a, l)
          \/ AcceptClosed(a)
          \/ \E f \in Flows : HandOver(f, a)

Spec == Init /\ [][Next]_vars

\* A goroutine whose channel operation can proceed proceeds.
FairSpec ==
    /\ Spec
    /\ \A f \in Flows : WF_vars(Lookup(f)) /\ WF_vars(HandleClosed(f))
    /\ \A a \in Acceptors : WF_vars(AcceptClosed(a))
    /\ \A f \in Flows, a \in Acceptors : WF_vars(HandOver(f, a))

-----------------------------------------------------------------------------
(* Properties.                                                             *)

\* The values every variable can hold.
TypeOK ==
    /\ forwarding \in BOOLEAN
    /\ server \in {"new", "up", "closing", "closed"}
    /\ listeners \in [Keys -> Created \union {NoListener}]
    /\ lnKey \in [Created -> Keys]
    /\ lnClosed \in [Created -> BOOLEAN]
    /\ filter \subseteq Keys
    /\ \A f \in Flows :
          /\ flow[f].st \in {"none", "lookup", "handing", "owned", "handler",
                             "closed"}
          /\ \/ flow[f].ln \in Created
             \/ flow[f].ln = NoListener
                /\ flow[f].st \notin {"handing", "owned"}
    /\ acceptor \in [Acceptors -> Created \union {NoListener}]

\* Closing an old listener again never unregisters a newer one on its port:
\* the listeners in the maps are exactly the open ones, each at its port.
OpenIsRegistered ==
    /\ \A l \in Created : ~lnClosed[l] => listeners[lnKey[l]] = l
    /\ \A k \in Keys : listeners[k] # NoListener
          => ~lnClosed[listeners[k]] /\ lnKey[listeners[k]] = k

\* "If the listener closes first, c is closed instead": no flow and no
\* Accept call stays blocked on a closed listener.
NoneBlockedOnClosed ==
    /\ \A f \in Flows : flow[f].st = "handing" /\ lnClosed[flow[f].ln]
                           ~> flow[f].st = "closed"
    /\ \A a \in Acceptors : acceptor[a] # NoListener /\ lnClosed[acceptor[a]]
                           ~> acceptor[a] = NoListener

\* What a flow to key k would reach now, by each path.
Reached(via, k) ==
    IF via = "packet" /\ k \notin filter THEN "nothing"
    ELSE IF listeners[k] # NoListener THEN "listener"
    ELSE IF Fallback(via, k) THEN "handler"
    ELSE "nothing"

\* "The stream path must enforce the same live peer and service gates": a
\* TCP connection reaches the same service as packets and as a stream. With
\* forwarding the filter leaves all ports open and the packet path offers
\* unserved ports to OnTCP; the stream path still never reaches more.
GatesAgree ==
    server = "up" => \A p \in Ports :
        LET packet == Reached("packet", <<"tcp", p>>)
            stream == Reached("stream", <<"tcp", p>>)
        IN  stream = packet \/ (forwarding /\ stream = "nothing")
=============================================================================

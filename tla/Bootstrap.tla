------------------------------ MODULE Bootstrap ------------------------------
(***************************************************************************)
(* The client side of the bootstrap: lazy startup (ensureStarted), the     *)
(* meow/meowed exchange of Client.Ping over a lossy, duplicating and       *)
(* reordering relay, the upDone shortcut of the Dial methods, and the      *)
(* server forgetting the client (restart or retirement). A client process  *)
(* that restarts with the same node key is a new lifetime with a new       *)
(* bootstrap nonce; packets of earlier lifetimes may still be in flight.   *)
(***************************************************************************)
EXTENDS Naturals, FiniteSets

CONSTANTS
    Callers,     \* goroutines using one Client
    None,        \* a free mutex, no operation
    MaxLives,    \* bound: client lifetimes
    MaxForgets   \* bound: server restarts and retirements of this client

ASSUME BootstrapAssumption ==
    /\ None \notin Callers
    /\ MaxLives \in Nat \ {0}
    /\ MaxForgets \in Nat

VARIABLES
    life,        \* the current lifetime: stands for lb.bootstrapNonce
    lb,          \* Client.lb is set: initLocked succeeded
    started,     \* Client.started
    startMu,     \* holder of Client.startMu across network access
    meowWait,    \* TRUE once the channel is closed
    upDone,      \* Client.upDone
    closed,      \* the client's engine is closed
    pc, op,      \* per caller: control point and method called
    relay,       \* packets the DERP relay may still deliver
    registered,  \* the server has this node key in clients
    forgets,     \* how often the server forgot it
    acked        \* history: nonces the server has acknowledged

clientVars == <<life, lb, started, startMu, meowWait, upDone, closed>>
serverVars == <<registered, forgets, acked>>
vars == <<clientVars, pc, op, relay, serverVars>>

Packets == [reply : BOOLEAN, nonce : 1..MaxLives]
Meow    == [reply |-> FALSE, nonce |-> life]

Init ==
    /\ life = 1
    /\ lb = FALSE
    /\ started = FALSE
    /\ startMu = None
    /\ meowWait = FALSE
    /\ upDone = FALSE
    /\ closed = FALSE
    /\ pc = [c \in Callers |-> "idle"]
    /\ op = [c \in Callers |-> None]
    /\ relay = {}
    /\ registered = FALSE
    /\ forgets = 0
    /\ acked = {}

-----------------------------------------------------------------------------
(* Callers.                                                                *)

Goto(c, l) == pc' = [pc EXCEPT ![c] = l]

\* The call returns to its caller.
Finish(c) == Goto(c, "idle") /\ op' = [op EXCEPT ![c] = None]

\* Ping, or a Dial method entering up: a client that was once acknowledged
\* goes straight to dialling.
Call(c, method) ==
    /\ pc[c] = "idle"
    /\ op' = [op EXCEPT ![c] = method]
    /\ Goto(c, IF method = "dial" /\ upDone THEN "dialling" ELSE "start")
    /\ UNCHANGED <<clientVars, relay, serverVars>>

\* ping's send: a send error, a full queue and a drop in the relay are all
\* the loss of the packet; a closed engine sends nothing.
Send == relay' = IF closed THEN relay ELSE relay \union {Meow}

\* ensureStarted on a fresh client takes startMu and keeps it during the DERP
\* map fetch and the engine start.
EnsureStarted(c) ==
    /\ pc[c] = "start"
    /\ startMu = None
    /\ ~started
    /\ startMu' = c
    /\ Goto(c, "starting")
    /\ UNCHANGED <<life, lb, started, meowWait, upDone, closed, op,
                   relay, serverVars>>

\* A failed attempt leaves started unset, and lb set if it got that far; the
\* next call retries.
StartFails(c) ==
    /\ pc[c] = "starting"
    /\ startMu' = None
    /\ lb' \in {lb, TRUE}
    /\ Finish(c)
    /\ UNCHANGED <<life, started, meowWait, upDone, closed, relay,
                   serverVars>>

StartSucceeds(c) ==
    /\ pc[c] = "starting"
    /\ startMu' = None
    /\ lb' = TRUE
    /\ started' = TRUE
    /\ Send
    /\ Goto(c, "waiting")
    /\ UNCHANGED <<life, meowWait, upDone, closed, op, serverVars>>

\* ensureStarted on a started client, then the first send of ping.
FirstSend(c) ==
    /\ pc[c] = "start"
    /\ startMu = None
    /\ started
    /\ Send
    /\ Goto(c, "waiting")
    /\ UNCHANGED <<clientVars, op, serverVars>>

\* Bug: the ticker is not wired to send.
ResendNothing(c) == pc[c] = "waiting" /\ UNCHANGED vars

\* The one-second ticker of ping.
Resend(c) ==
    /\ pc[c] = "waiting"
    /\ Send
    /\ UNCHANGED <<clientVars, pc, op, serverVars>>

\* meowWait is closed: Ping records upDone and returns, up lets a dial go on.
PingSucceeds(c) ==
    /\ pc[c] = "waiting"
    /\ meowWait
    /\ upDone' = TRUE
    /\ IF op[c] = "dial" THEN Goto(c, "dialling") /\ UNCHANGED op
                         ELSE Finish(c)
    /\ UNCHANGED <<life, lb, started, startMu, meowWait, closed, relay,
                   serverVars>>

\* The ten-second limit, or the caller's context. Go's select picks either
\* branch when the acknowledgment is there too.
PingTimesOut(c) ==
    /\ pc[c] = "waiting"
    /\ Finish(c)
    /\ UNCHANGED <<clientVars, relay, serverVars>>

\* The dial itself ends, with a connection or an error.
DialEnds(c) ==
    /\ pc[c] = "dialling"
    /\ Finish(c)
    /\ UNCHANGED <<clientVars, relay, serverVars>>

\* Client.Close waits for a startup in progress, then closes the engine.
Close ==
    /\ startMu = None
    /\ lb
    /\ ~closed
    /\ closed' = TRUE
    /\ UNCHANGED <<life, lb, started, startMu, meowWait, upDone, pc, op,
                   relay, serverVars>>

\* The client process ends and a new one starts with the same node key.
NewLife ==
    /\ life < MaxLives
    /\ life' = life + 1
    /\ lb' = FALSE
    /\ started' = FALSE
    /\ startMu' = None
    /\ meowWait' = FALSE
    /\ upDone' = FALSE
    /\ closed' = FALSE
    /\ pc' = [c \in Callers |-> "idle"]
    /\ op' = [c \in Callers |-> None]
    /\ UNCHANGED <<relay, serverVars>>

-----------------------------------------------------------------------------
(* Relay and server.                                                       *)

\* Bug: any acknowledgment from the server counts.
NonceIgnored(n) == TRUE

\* The client's onDERPRecv accepts an ack that echoes its own nonce.
NonceMatches(n) == n = life

\* onDERPRecv on the client. The relay may deliver the packet again.
RecvAck(m) ==
    /\ m \in relay
    /\ m.reply
    /\ started /\ ~closed
    /\ NonceMatches(m.nonce)
    /\ meowWait' = TRUE
    /\ UNCHANGED <<life, lb, started, startMu, upDone, closed, pc, op, relay,
                   serverVars>>

\* onDERPRecv on the server, for a packet onMeow admits or knows: every such
\* ping is acknowledged with its own nonce.
RecvMeow(m) ==
    /\ m \in relay
    /\ ~m.reply
    /\ registered' = TRUE
    /\ acked' = acked \union {m.nonce}
    /\ relay' = relay \union {[m EXCEPT !.reply = TRUE]}
    /\ UNCHANGED <<clientVars, pc, op, forgets>>

\* The last copy of a packet is gone: lost, refused by onMeow, or used up.
Lose(m) ==
    /\ m \in relay
    /\ relay' = relay \ {m}
    /\ UNCHANGED <<clientVars, pc, op, serverVars>>

\* The server restarts with the same key, or retires this idle client.
ServerForgets ==
    /\ registered
    /\ forgets < MaxForgets
    /\ forgets' = forgets + 1
    /\ registered' = FALSE
    /\ UNCHANGED <<clientVars, pc, op, relay, acked>>

-----------------------------------------------------------------------------
CallerStep(c) ==
    \/ EnsureStarted(c)
    \/ StartFails(c)
    \/ StartSucceeds(c)
    \/ FirstSend(c)
    \/ PingSucceeds(c)
    \/ DialEnds(c)

Next ==
    \/ \E c \in Callers :
          \/ \E method \in {"ping", "dial"} : Call(c, method)
          \/ CallerStep(c)
          \/ Resend(c)
          \/ PingTimesOut(c)
    \/ \E m \in Packets : RecvAck(m) \/ RecvMeow(m) \/ Lose(m)
    \/ Close
    \/ NewLife
    \/ ServerForgets

Spec == Init /\ [][Next]_vars

\* Goroutines and the ticker run; the relay may lose any packet but not
\* every copy of one that is sent for ever.
FairSpec ==
    /\ Spec
    /\ \A c \in Callers : WF_vars(CallerStep(c)) /\ WF_vars(Resend(c))
    /\ \A m \in Packets : SF_vars(RecvMeow(m)) /\ SF_vars(RecvAck(m))

-----------------------------------------------------------------------------
(* Properties.                                                             *)

\* The values every variable can hold.
TypeOK ==
    /\ life \in 1..MaxLives
    /\ lb \in BOOLEAN
    /\ started \in BOOLEAN
    /\ startMu \in Callers \union {None}
    /\ meowWait \in BOOLEAN
    /\ upDone \in BOOLEAN
    /\ closed \in BOOLEAN
    /\ pc \in [Callers -> {"idle", "start", "starting", "waiting", "dialling"}]
    /\ op \in [Callers -> {"ping", "dial", None}]
    /\ relay \subseteq Packets
    /\ registered \in BOOLEAN
    /\ forgets \in 0..MaxForgets
    /\ acked \subseteq 1..MaxLives

\* "fresh client lifetime nonce prevent[s] ... stale acknowledgment": a
\* client believes it is registered, or dials, only if the server has
\* acknowledged this very lifetime, however late old acks arrive.
UpOnlyIfAcked ==
    meowWait \/ upDone \/ (\E c \in Callers : pc[c] = "dialling")
        => life \in acked

\* A ping that keeps waiting is eventually acknowledged: resending beats a
\* lossy relay and a server that forgot the client in between.
PingGetsAck ==
    \A c \in Callers : pc[c] = "waiting" ~> pc[c] # "waiting" \/ meowWait \/ closed
=============================================================================

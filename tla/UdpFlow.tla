------------------------------- MODULE UdpFlow -------------------------------
(***************************************************************************)
(* ProxyPacketConns between an incoming UDP flow, which is an              *)
(* idlePacketConn, and a local socket. Two pumps copy datagrams, one each  *)
(* way; the caller waits for the first to end, closes both sockets and     *)
(* waits for the other. The idle timer runs beside them.                   *)
(***************************************************************************)
EXTENDS IdlePacketConn

\* The goroutines that use the flow: the pump from the flow to the local
\* socket, the pump back, and the caller of ProxyPacketConns.
ASSUME UsersAssumption == Users = {"in", "out", "proxy"}

Pumps == {"in", "out"}

VARIABLES
    pump,    \* per pump: "read", "write" with a datagram in hand, or "done"
    local,   \* the local socket is open
    main     \* the caller: "wait1", "close", "closing", "closeLocal",
             \* "wait2", "end"

flowVars == <<deadline, timer, checks, closed, closing, closes, pc, quiet,
              pump, local, main>>

FlowInit ==
    /\ IdleInit
    /\ pump = [u \in Pumps |-> "read"]
    /\ local = TRUE
    /\ main = "wait1"

Ready(u, at) == pump[u] = at /\ pc[u] = "idle"
Pump(u, to) == pump' = [pump EXCEPT ![u] = to]

\* Read of the flow by one pump, or Write to it by the other, succeeds; touch
\* follows before the pump goes on.
PumpUsesFlow(u) ==
    /\ IOSucceeds(u)
    /\ \/ u = "in" /\ pump[u] = "read" /\ Pump(u, "write")
       \/ u = "out" /\ pump[u] = "write" /\ Pump(u, "read")
    /\ UNCHANGED <<local, main>>

\* Write to the local socket by one pump, or Read of it by the other.
PumpUsesLocal(u) ==
    /\ local
    /\ \/ u = "in" /\ Ready(u, "write") /\ Pump(u, "read")
       \/ u = "out" /\ Ready(u, "read") /\ Pump(u, "write")
    /\ UNCHANGED <<idleVars, local, main>>

\* The socket the pump is using fails; a closed one always does.
PumpFails(u) ==
    /\ pump[u] # "done"
    /\ pc[u] = "idle"
    /\ Pump(u, "done")
    /\ UNCHANGED <<idleVars, local, main>>

OnFlow(u) == pump[u] = (IF u = "in" THEN "read" ELSE "write")
UsesClosed(u) == IF OnFlow(u) THEN closes > 0 ELSE ~local

\* Bug: the caller waits for both pumps before it closes anything.
FirstDoneBoth ==
    /\ main = "wait1"
    /\ \A u \in Pumps : pump[u] = "done"
    /\ main' = "close"
    /\ UNCHANGED <<idleVars, pump, local>>

FirstDone ==
    /\ main = "wait1"
    /\ \E u \in Pumps : pump[u] = "done"
    /\ main' = "close"
    /\ UNCHANGED <<idleVars, pump, local>>

\* a.Close: idlePacketConn.Close, which returns at once if the flow is
\* closed, by the timer for one.
CloseFlow ==
    /\ main = "close"
    /\ \/ Close("proxy") /\ main' = "closing"
       \/ closed /\ main' = "closeLocal" /\ UNCHANGED idleVars
    /\ UNCHANGED <<pump, local>>

\* ... and otherwise only after the inner Close.
FlowClosed ==
    /\ main = "closing"
    /\ closes > 0
    /\ main' = "closeLocal"
    /\ UNCHANGED <<idleVars, pump, local>>

\* b.Close.
CloseLocal ==
    /\ main = "closeLocal"
    /\ local' = FALSE
    /\ main' = "wait2"
    /\ UNCHANGED <<idleVars, pump>>

SecondDone ==
    /\ main = "wait2"
    /\ \A u \in Pumps : pump[u] = "done"
    /\ main' = "end"
    /\ UNCHANGED <<idleVars, pump, local>>

Idle(A) == A /\ UNCHANGED <<pump, local, main>>
Timer == Idle(TimerFires) \/ Idle(CheckIdle) \/ Idle(InnerClose) \/ Idle(Tick)

Writes(u) == pump[u] = "write" /\ (PumpUsesFlow(u) \/ PumpUsesLocal(u) \/ PumpFails(u))

FlowNext ==
    \/ Timer
    \/ FirstDone \/ CloseFlow \/ FlowClosed \/ CloseLocal \/ SecondDone
    \/ \E u \in Pumps : PumpUsesFlow(u) \/ PumpUsesLocal(u) \/ PumpFails(u)
                        \/ Idle(Touch(u))

FlowSpec == FlowInit /\ [][FlowNext]_flowVars

\* Time passes, expired timers fire, started goroutines run, a write returns
\* and so does any operation on a closed socket. Datagrams need not arrive.
FlowFairSpec ==
    /\ FlowSpec
    /\ WF_flowVars(Idle(Tick)) /\ WF_flowVars(Idle(TimerFires))
    /\ WF_flowVars(Idle(CheckIdle)) /\ WF_flowVars(Idle(InnerClose))
    /\ WF_flowVars(FirstDone) /\ WF_flowVars(CloseFlow)
    /\ WF_flowVars(FlowClosed) /\ WF_flowVars(CloseLocal)
    /\ WF_flowVars(SecondDone)
    /\ \A u \in Pumps : /\ WF_flowVars(Idle(Touch(u)))
                        /\ WF_flowVars(UsesClosed(u) /\ PumpFails(u))
                        /\ WF_flowVars(Writes(u))

-----------------------------------------------------------------------------
(* Properties.                                                             *)

\* The values every variable can hold.
FlowTypeOK ==
    /\ IdleTypeOK
    /\ pump \in [Pumps -> {"read", "write", "done"}]
    /\ local \in BOOLEAN
    /\ main \in {"wait1", "close", "closing", "closeLocal", "wait2", "end"}

\* Once the flow is closed or one pump has failed, everything ends: the other
\* pump, blocked in a Read that nothing would answer, is woken by the close.
CloseEndsProxy == closed \/ (\E u \in Pumps : pump[u] = "done") ~> main = "end"
=============================================================================

------------------------------ MODULE Forward ------------------------------
(***************************************************************************)
(* tailcat forward around a proxied connection: the loop that accepts      *)
(* local connections (forwardListener), the goroutine of a connection,     *)
(* which dials through the tunnel and runs ProxyConns, and the cleanup of  *)
(* runForward. Here side "b" is the local connection and side "a" the one  *)
(* through the tunnel. The same ProxyConns on a server, without any of     *)
(* this around it, is the case main = "none".                              *)
(***************************************************************************)
EXTENDS ProxyConns

VARIABLES
    main,   \* runForward: "none", "serving", "waitListeners", "close",
            \* "waitConns" or "exited"
    ln,     \* forwardListener: "accept", "accepted" or "gone"
    conn    \* the connection: "none", "dialling", "proxying" or "done"

forwardVars == <<main, ln, conn>>
allVars == <<vars, forwardVars>>

ForwardInit ==
    /\ Init
    /\ main \in {"none"} \cup (IF kind.b = "os" THEN {"serving"} ELSE {})
    /\ ln = "accept"
    /\ conn = "none"

Forwarding == main \notin {"none", "exited"}
Ending == Forwarding /\ main # "serving"
Active == conn \in {"dialling", "proxying"}

\* ln.Accept; the listener is closed with the context.
Accept ==
    /\ Forwarding
    /\ ln = "accept"
    /\ conn = "none"
    /\ main = "serving"
    /\ ln' = "accepted"
    /\ UNCHANGED <<vars, main, conn>>

\* connectionsWG.Add, active.Store, and the connection's goroutine.
Track ==
    /\ Forwarding
    /\ ln = "accepted"
    /\ ln' = "accept"
    /\ conn' = "dialling"
    /\ UNCHANGED <<vars, main>>

\* Accept fails on the closed listener.
ListenerEnds ==
    /\ Ending
    /\ ln = "accept"
    /\ ln' = "gone"
    /\ UNCHANGED <<vars, main, conn>>

\* DialTCP or DialTCPPort returns, with a connection or without; a context
\* that is done makes it return but does not exclude that it succeeds.
DialSucceeds ==
    /\ Forwarding
    /\ conn = "dialling"
    /\ Begin
    /\ conn' = "proxying"
    /\ UNCHANGED <<main, ln>>

DialFails ==
    /\ Forwarding
    /\ conn = "dialling"
    /\ StartFails
    /\ conn' = "done"
    /\ UNCHANGED <<main, ln>>

\* The remote parties, and ProxyConns.
Proxying ==
    /\ Forwarding
    /\ conn = "proxying"
    /\ \/ \E x \in Sides :
             \/ RemoteSends(x) \/ RemoteFins(x) \/ RemoteResets(x)
             \/ FinIsAcked(x) \/ ProxyStep(x)
       \/ BeginClose
    /\ UNCHANGED forwardVars

\* ProxyConns returns: conn.Close, active.Delete, connectionsWG.Done.
ProxyReturns ==
    /\ Forwarding
    /\ conn = "proxying"
    /\ \A x \in Sides : drain[x] = "done"
    /\ conn' = "done"
    /\ UNCHANGED <<vars, main, ln>>

\* A signal, or a mapping that fails while earlier ones are being served:
\* the context is done and the listeners are closed.
Interrupt ==
    /\ main = "serving"
    /\ main' = "waitListeners"
    /\ UNCHANGED <<vars, ln, conn>>

\* Bug: the cleanup does not wait for the listeners' goroutines.
ListenersDoneNot ==
    /\ main = "waitListeners"
    /\ main' = "close"
    /\ UNCHANGED <<vars, ln, conn>>

\* listenersWG.Wait
ListenersDone ==
    /\ main = "waitListeners"
    /\ ln = "gone"
    /\ main' = "close"
    /\ UNCHANGED <<vars, ln, conn>>

\* active.Range closes the local side of every connection.
CloseActive ==
    /\ main = "close"
    /\ IF Active THEN closed' = [closed EXCEPT !["b"] = TRUE] /\ failed' = TRUE
                 ELSE UNCHANGED <<closed, failed>>
    /\ main' = "waitConns"
    /\ UNCHANGED <<kind, netState, exited, pc, drainState, ln, conn>>

\* connectionsWG.Wait and cl.Close.
ConnsDone ==
    /\ main = "waitConns"
    /\ ~Active
    /\ main' = "exited"
    /\ UNCHANGED <<vars, ln, conn>>

Cleanup == ListenersDone \/ CloseActive \/ ConnsDone

ForwardNext ==
    \/ main = "none" /\ Next /\ UNCHANGED forwardVars
    \/ Accept \/ Track \/ ListenerEnds
    \/ DialSucceeds \/ DialFails \/ Proxying \/ ProxyReturns
    \/ Interrupt \/ Cleanup
    \/ main = "exited" /\ UNCHANGED allVars

\* A step of ProxyConns, here or on a server.
InProxy(A) ==
    /\ main = "none" \/ (Forwarding /\ conn = "proxying")
    /\ A
    /\ UNCHANGED forwardVars

\* As FairSpec, and the goroutines of forward run; a dial returns once its
\* context is done. Nobody need connect or interrupt.
ForwardSpec ==
    /\ ForwardInit /\ [][ForwardNext]_allVars
    /\ \A x \in Sides : WF_allVars(InProxy(ProxyStep(x)))
    /\ WF_allVars(InProxy(BeginClose))
    /\ WF_allVars(main = "none" /\ InProxy(Begin))
    /\ WF_allVars(Track) /\ WF_allVars(ListenerEnds)
    /\ WF_allVars(Ending /\ (DialSucceeds \/ DialFails))
    /\ WF_allVars(ProxyReturns)
    /\ WF_allVars(Cleanup)

-----------------------------------------------------------------------------
(* Properties.                                                             *)

\* The values every variable can hold.
ForwardTypeOK ==
    /\ TypeOK
    /\ main \in {"none", "serving", "waitListeners", "close", "waitConns", "exited"}
    /\ ln \in {"accept", "accepted", "gone"}
    /\ conn \in {"none", "dialling", "proxying", "done"}

\* An interrupted forward exits, whatever its local connections do, once
\* the remote end has ended or has sent something that nobody takes any
\* more. It need not otherwise: with the local side closed, ProxyConns still
\* waits for the remote one.
ForwardEnds ==
    /\ Ending /\ tcp["a"] \in RemoteDone \cup {"reset"} ~> main = "exited"
    /\ main = "waitConns" /\ inbuf["a"] > 0 ~> main = "exited"
    /\ Ending /\ conn # "proxying" ~> main = "exited" \/ conn = "proxying"
=============================================================================

----------------------------- MODULE ProxyConns -----------------------------
(***************************************************************************)
(* Proxying of TCP connections: ProxyConns between a tunnel connection and *)
(* a backend connection, runConnCommand between a tunnel connection and a  *)
(* command, and closeProxyConn, which keeps a netstack connection open     *)
(* until its FIN is acknowledged.                                          *)
(*                                                                         *)
(* Side "a" is the tunnel connection, side "b" the backend. Each side has  *)
(* a remote party. A command is the remote party of "b": its standard      *)
(* output is what it sends, its standard input what it receives.           *)
(***************************************************************************)
EXTENDS Integers

CONSTANTS
    Kinds,      \* pairs [a, b] of connection types to look at
    MaxChunks   \* bound: chunks of data a remote party sends

ASSUME ProxyAssumption ==
    /\ Kinds \subseteq [a : {"netstack", "stream"}, b : {"os", "plain", "command"}]
    /\ MaxChunks \in Nat

VARIABLES
    kind,       \* the types in use; "plain" has no CloseWrite
    tcp,        \* per side: state of the proxy's endpoint
    inbuf,      \* per side: chunks received and not yet read
    sent,       \* per side: chunks its remote party has sent
    got,        \* per side: chunks its remote party has been given
    exited,     \* the command has exited
    closed,     \* per side: the proxy has called Close
    pc,         \* per side: the goroutine that copies from it
    drain,      \* per side: closeProxyConn
    reg, hup,   \* per side: its waiter entry is registered; has an event
    late,       \* history, per side: closeProxyConn gave up waiting
    failed      \* history: a connection was reset or a write failed

netState   == <<tcp, inbuf, sent, got>>
drainState == <<drain, reg, hup, late>>
vars == <<kind, netState, exited, closed, pc, drainState, failed>>

Sides == {"a", "b"}
Other(x) == IF x = "a" THEN "b" ELSE "a"
Command == kind.b = "command"

\* Endpoint states in which the remote party's FIN has been received, our
\* FIN has been sent, and our FIN has been acknowledged.
RemoteDone == {"closewait", "closing", "lastack", "timewait", "closed"}
FinSent    == {"finwait1", "finwait2", "closing", "lastack", "timewait", "closed"}
FinAcked   == {"finwait2", "timewait", "closed"}
States     == {"established", "reset"} \union RemoteDone \union FinSent

Init ==
    /\ kind \in Kinds
    /\ tcp = [x \in Sides |-> "established"]
    /\ inbuf = [x \in Sides |-> 0]
    /\ sent = [x \in Sides |-> 0]
    /\ got = [x \in Sides |-> 0]
    /\ exited = FALSE
    /\ closed = [x \in Sides |-> FALSE]
    /\ pc = [x \in Sides |-> "start"]
    /\ drain = [x \in Sides |-> "none"]
    /\ reg = [x \in Sides |-> FALSE]
    /\ hup = [x \in Sides |-> FALSE]
    /\ late = [x \in Sides |-> FALSE]
    /\ failed = FALSE

-----------------------------------------------------------------------------
(* Remote parties and network.                                             *)

\* The remote party is there: the backend, once it has been started.
Present(x) == x = "b" => pc["b"] # "start" /\ ~closed["b"]

RemoteSends(x) ==
    /\ Present(x)
    /\ tcp[x] \in {"established", "finwait1", "finwait2"}
    /\ ~closed[x]
    /\ sent[x] < MaxChunks
    /\ sent' = [sent EXCEPT ![x] = @ + 1]
    /\ inbuf' = [inbuf EXCEPT ![x] = @ + 1]
    /\ UNCHANGED <<kind, tcp, got, exited, closed, pc, drainState, failed>>

AfterRemoteFin == [established |-> "closewait", finwait1 |-> "closing",
                   finwait2 |-> "timewait"]

\* The remote party shuts down its sending side; a command closes its
\* standard output.
RemoteFins(x) ==
    /\ Present(x)
    /\ tcp[x] \in DOMAIN AfterRemoteFin
    /\ tcp' = [tcp EXCEPT ![x] = AfterRemoteFin[@]]
    /\ UNCHANGED <<kind, inbuf, sent, got, exited, closed, pc, drainState, failed>>

\* A registered waiter entry is told of the end of its endpoint.
Notify(x) == hup' = [hup EXCEPT ![x] = @ \/ reg[x]]

\* The connection breaks: unread data is lost and both directions fail.
RemoteResets(x) ==
    /\ x = "b" => ~Command
    /\ Present(x)
    /\ tcp[x] \notin {"closed", "reset"}
    /\ ~closed[x]
    /\ tcp' = [tcp EXCEPT ![x] = "reset"]
    /\ inbuf' = [inbuf EXCEPT ![x] = 0]
    /\ Notify(x)
    /\ failed' = TRUE
    /\ UNCHANGED <<kind, sent, got, exited, closed, pc, drain, reg, late>>

\* The command exits: its output remains readable, its input is gone.
CommandExits ==
    /\ Command
    /\ Present("b")
    /\ ~exited
    /\ exited' = TRUE
    /\ tcp' = [tcp EXCEPT !["b"] = IF @ \in DOMAIN AfterRemoteFin
                                     THEN AfterRemoteFin[@] ELSE @]
    /\ UNCHANGED <<kind, inbuf, sent, got, closed, pc, drainState, failed>>

AfterAck == [finwait1 |-> "finwait2", closing |-> "timewait", lastack |-> "closed"]

\* Our FIN, or a retransmission of it, is acknowledged. The endpoint that
\* waits in CLOSING goes on to TIME-WAIT and may not report it.
FinIsAcked(x) ==
    /\ tcp[x] \in DOMAIN AfterAck
    /\ tcp' = [tcp EXCEPT ![x] = AfterAck[@]]
    /\ \/ Notify(x)
       \/ tcp[x] # "lastack" /\ UNCHANGED hup
    /\ UNCHANGED <<kind, inbuf, sent, got, exited, closed, pc, drain, reg, late,
                   failed>>

-----------------------------------------------------------------------------
(* The goroutine that copies from x to the other side.                     *)

Goto(x, l) == pc' = [pc EXCEPT ![x] = l]

\* The backend is dialled or the command started, and the two goroutines.
Begin ==
    /\ \A x \in Sides : pc[x] = "start"
    /\ pc' = [x \in Sides |-> "read"]
    /\ UNCHANGED <<kind, netState, exited, closed, drainState, failed>>

\* The backend does not answer, a pipe cannot be made or the command not be
\* started: the tunnel connection is closed at once.
StartFails ==
    /\ \A x \in Sides : pc[x] = "start"
    /\ pc' = [x \in Sides |-> "done"]
    /\ closed' = [x \in Sides |-> TRUE]
    /\ drain' = [x \in Sides |-> "done"]
    /\ failed' = TRUE
    /\ UNCHANGED <<kind, netState, exited, reg, hup, late>>

CopyReads(x) ==
    /\ pc[x] = "read"
    /\ ~closed[x]
    /\ inbuf[x] > 0
    /\ inbuf' = [inbuf EXCEPT ![x] = @ - 1]
    /\ Goto(x, "write")
    /\ UNCHANGED <<kind, tcp, sent, got, exited, closed, drainState, failed>>

\* io.Copy ends at EOF, or at a read error.
CopyEnds(x) ==
    /\ pc[x] = "read"
    /\ \/ closed[x]
       \/ tcp[x] = "reset"
       \/ inbuf[x] = 0 /\ tcp[x] \in RemoteDone
    /\ Goto(x, "shut")
    /\ UNCHANGED <<kind, netState, exited, closed, drainState, failed>>

Writable(y) ==
    /\ ~closed[y]
    /\ tcp[y] \in {"established", "closewait"}
    /\ y = "b" => ~exited

\* io.Copy writes what it has read, or ends at a write error.
CopyWrites(x) ==
    LET y == Other(x)
    IN  /\ pc[x] = "write"
        /\ \/ /\ Writable(y)
              /\ got' = [got EXCEPT ![y] = @ + 1]
              /\ Goto(x, "read")
              /\ UNCHANGED failed
           \/ /\ ~Writable(y)
              /\ Goto(x, "shut")
              /\ failed' = TRUE
              /\ UNCHANGED got
        /\ UNCHANGED <<kind, tcp, inbuf, sent, exited, closed, drainState>>

AfterCloseWrite(s) ==
    CASE s = "established" -> "finwait1"
      [] s = "closewait"   -> "lastack"
      [] OTHER             -> s

\* Bug: the destination is closed although it could be half-closed.
ShutCloses(x) ==
    /\ pc[x] = "shut"
    /\ closed' = [closed EXCEPT ![Other(x)] = TRUE]
    /\ tcp' = [tcp EXCEPT ![Other(x)] = AfterCloseWrite(@)]
    /\ Goto(x, "done")
    /\ UNCHANGED <<kind, inbuf, sent, got, exited, drainState, failed>>

\* Bug: the end of the copy is not passed on.
ShutNothing(x) ==
    /\ pc[x] = "shut"
    /\ Goto(x, "done")
    /\ UNCHANGED <<kind, netState, exited, closed, drainState, failed>>

\* After the copy: CloseWrite, or Close of a connection that has none. The
\* standard input of a command is closed, which is a half-close as well.
Shut(x) ==
    LET y == Other(x)
    IN  /\ pc[x] = "shut"
        /\ Goto(x, "done")
        /\ tcp' = [tcp EXCEPT ![y] = AfterCloseWrite(@)]
        /\ closed' = [closed EXCEPT ![y] = @ \/ (y = "b" /\ kind.b = "plain")]
        /\ UNCHANGED <<kind, inbuf, sent, got, exited, drainState, failed>>

-----------------------------------------------------------------------------
(* The main goroutine: wait for both copies, then close.                   *)

\* Bug: one finished copy is enough.
OneCopyDone == \E x \in Sides : pc[x] = "done"

\* wg.Wait
CopiesDone == \A x \in Sides : pc[x] = "done"

\* ProxyConns closes both sides. runConnCommand waits for the command, which
\* releases its pipes, and closes the connection.
BeginClose ==
    /\ CopiesDone
    /\ \A x \in Sides : drain[x] = "none"
    /\ Command => exited
    /\ drain' = [a |-> "start", b |-> IF Command THEN "done" ELSE "start"]
    /\ closed' = [closed EXCEPT !["b"] = @ \/ Command]
    /\ UNCHANGED <<kind, netState, exited, pc, reg, hup, late, failed>>

Draining(x) == tcp[x] \in {"closing", "lastack"}

CloseSide(x) ==
    /\ closed' = [closed EXCEPT ![x] = TRUE]
    /\ drain' = [drain EXCEPT ![x] = "done"]

\* closeProxyConn of anything but a netstack connection.
CloseAtOnce(x) ==
    /\ drain[x] = "start"
    /\ kind[x] # "netstack"
    /\ CloseSide(x)
    /\ UNCHANGED <<kind, netState, exited, pc, reg, hup, late, failed>>

\* Bug: the state is looked at before the entry is registered.
RegisterLast(x) ==
    /\ kind[x] = "netstack"
    /\ \/ /\ drain[x] = "start"
          /\ Draining(x)
          /\ drain' = [drain EXCEPT ![x] = "check"]
          /\ UNCHANGED <<reg, closed>>
       \/ /\ drain[x] = "start"
          /\ ~Draining(x)
          /\ CloseSide(x)
          /\ UNCHANGED reg
       \/ /\ drain[x] = "check"
          /\ ~reg[x]
          /\ reg' = [reg EXCEPT ![x] = TRUE]
          /\ drain' = [drain EXCEPT ![x] = "wait"]
          /\ UNCHANGED closed
    /\ UNCHANGED <<kind, netState, exited, pc, hup, late, failed>>

\* The waiter entry is registered before the state is looked at.
Register(x) ==
    /\ drain[x] = "start"
    /\ kind[x] = "netstack"
    /\ reg' = [reg EXCEPT ![x] = TRUE]
    /\ drain' = [drain EXCEPT ![x] = "check"]
    /\ UNCHANGED <<kind, netState, exited, closed, pc, hup, late, failed>>

\* Bug: the state is not looked at.
CheckNothing(x) ==
    /\ drain[x] = "check"
    /\ reg[x]
    /\ CloseSide(x)
    /\ UNCHANGED <<kind, netState, exited, pc, reg, hup, late, failed>>

\* One turn of closeProxyConnTimeout's loop up to its select.
CheckState(x) ==
    /\ drain[x] = "check"
    /\ reg[x]
    /\ \/ /\ Draining(x)
          /\ drain' = [drain EXCEPT ![x] = "wait"]
          /\ UNCHANGED closed
       \/ ~Draining(x) /\ CloseSide(x)
    /\ UNCHANGED <<kind, netState, exited, pc, reg, hup, late, failed>>

WakeUp(x) ==
    /\ drain[x] = "wait"
    /\ hup[x]
    /\ hup' = [hup EXCEPT ![x] = FALSE]
    /\ drain' = [drain EXCEPT ![x] = "check"]
    /\ UNCHANGED <<kind, netState, exited, closed, pc, reg, late, failed>>

\* Bug: there is no limit on the wait.
NeverExpires(x) == drain[x] = "wait" /\ UNCHANGED vars

\* The limit, proxyConnDrainTimeout, is over.
Expire(x) ==
    /\ drain[x] = "wait"
    /\ late' = [late EXCEPT ![x] = TRUE]
    /\ CloseSide(x)
    /\ UNCHANGED <<kind, netState, exited, pc, reg, hup, failed>>

-----------------------------------------------------------------------------
ProxyStep(x) ==
    \/ CopyReads(x) \/ CopyEnds(x) \/ CopyWrites(x) \/ Shut(x)
    \/ CloseAtOnce(x) \/ Register(x) \/ CheckState(x) \/ WakeUp(x) \/ Expire(x)

Finished == \A x \in Sides : closed[x] /\ pc[x] = "done" /\ drain[x] # "start"

Next ==
    \/ \E x \in Sides :
          \/ RemoteSends(x) \/ RemoteFins(x) \/ RemoteResets(x) \/ FinIsAcked(x)
          \/ ProxyStep(x)
    \/ CommandExits
    \/ Begin
    \/ StartFails
    \/ BeginClose
    \/ Finished /\ UNCHANGED vars

Spec == Init /\ [][Next]_vars

\* The proxy's goroutines run, timers expire and a written chunk is taken.
\* Remote parties and network owe nothing: not data, FIN or acknowledgment.
FairSpec ==
    /\ Spec
    /\ \A x \in Sides : WF_vars(ProxyStep(x))
    /\ WF_vars(Begin)
    /\ WF_vars(BeginClose)

-----------------------------------------------------------------------------
(* Properties.                                                             *)

\* The values every variable can hold.
TypeOK ==
    /\ kind \in Kinds
    /\ tcp \in [Sides -> States]
    /\ inbuf \in [Sides -> 0..MaxChunks]
    /\ sent \in [Sides -> 0..MaxChunks]
    /\ got \in [Sides -> 0..MaxChunks]
    /\ exited \in BOOLEAN
    /\ closed \in [Sides -> BOOLEAN]
    /\ pc \in [Sides -> {"start", "read", "write", "shut", "done"}]
    /\ drain \in [Sides -> {"none", "start", "check", "wait", "done"}]
    /\ reg \in [Sides -> BOOLEAN]
    /\ hup \in [Sides -> BOOLEAN]
    /\ late \in [Sides -> BOOLEAN]
    /\ failed \in BOOLEAN

\* "propagating the TCP half-close instead of tearing down the whole
\* connection": unless something failed, a remote party is told of the end
\* only when the other has ended, and has then been given all that the
\* other sent, in whatever order the two directions end.
NoTruncation ==
    ~failed /\ kind.b # "plain" =>
        \A x \in Sides : tcp[Other(x)] \in FinSent
            => tcp[x] \in RemoteDone /\ got[Other(x)] = sent[x]

\* Close "can race gVisor's protocol teardown and lose the FIN": a netstack
\* connection that was closed after an orderly end, without giving up, had
\* its FIN acknowledged.
FinNotLost ==
    \A x \in Sides : kind[x] = "netstack" /\ closed[x] /\ ~late[x] /\ ~failed
        => tcp[x] \in FinAcked

\* "a concurrent state transition cannot be missed between observing the
\* state and subscribing to its event": closeProxyConn does not sit out its
\* limit for an endpoint that has ended.
NoMissedHangup ==
    \A x \in Sides : drain[x] = "wait" /\ tcp[x] \in {"closed", "reset"}
        => hup[x]

NoBackend == (\A x \in Sides : pc[x] = "done") /\ tcp["b"] = "established"
BothFinished ==
    /\ \A x \in Sides : tcp[x] \in RemoteDone \union {"reset"}
    /\ Command => exited

\* The end of one direction is passed on while the other one may go on for
\* ever, unless there was no backend to begin with.
HalfClosePropagates ==
    \A x \in Sides :
        tcp[x] \in RemoteDone
            ~> tcp[Other(x)] \in FinSent \union {"reset"} \/ NoBackend

\* ProxyConns "copies data ... until both sides have finished, then closes
\* both connections", whether or not the network acknowledges anything.
ClosesWhenBothFinish == BothFinished ~> \A x \in Sides : closed[x]
=============================================================================

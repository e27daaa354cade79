-------------------------------- MODULE Pipe --------------------------------
(***************************************************************************)
(* The default use of the command: a server without arguments writes what  *)
(* a client sends to its standard output and exits, and a client sends its *)
(* standard input (clientMode, the one-shot handler of server, DrainTCP).  *)
(*                                                                         *)
(* The network stacks run inside the two processes: what a stack has not   *)
(* sent, or would have to send again, is gone with its process. Data is    *)
(* counted, not kept. A session that is lost ends its connection on both   *)
(* sides with an error.                                                    *)
(***************************************************************************)
EXTENDS Integers

CONSTANTS
    Clients,    \* client processes, one connection each
    MaxChunks   \* bound: pieces of standard input per client

ASSUME PipeAssumption == MaxChunks \in Nat

VARIABLES
    stdin,      \* pieces each client has still to read
    copier,     \* its goroutine that sends them
    client,     \* the client's main goroutine
    sent,       \* pieces its stack has taken
    rcvd,       \* of which the server's stack has received
    fin,        \* its FIN: "no", "queued", "rcvd" or "acked"
    lost,       \* whether the session under the connection is lost
    server,     \* the server process: "up", "ok" or "failed"
    handler,    \* its handler of each connection
    out,        \* pieces of each client written to standard output
    stdout,     \* whether standard output is open
    eof,        \* the server's FIN on each connection, as fin
    waits,      \* the connections each handler's DrainTCP waits for
    expired     \* whether a DrainTCP of the server ran out of time

cvars == <<stdin, copier, client>>
nvars == <<sent, rcvd, fin, lost>>
svars == <<server, handler, out, stdout, waits, expired>>
vars == <<cvars, nvars, svars, eof>>

Alive(c) == client[c] \in {"reading", "draining"}
Up == server = "up"
Exited == {"ok", "failed", "killed"}
Each(v) == [c \in Clients |-> v]

Init ==
    /\ stdin \in [Clients -> 0..MaxChunks]
    /\ copier = Each("off")
    /\ client = Each("idle")
    /\ sent = Each(0)
    /\ rcvd = Each(0)
    /\ fin = Each("no")
    /\ lost = Each(FALSE)
    /\ server = "up"
    /\ handler = Each("none")
    /\ out = Each(0)
    /\ stdout = TRUE
    /\ eof = Each("no")
    /\ waits = Each({})
    /\ expired = FALSE

-----------------------------------------------------------------------------
(* The client. log.Fatal ends it with an error wherever it is.             *)

\* The connection is made, and accepted whatever else the server is doing.
Dial(c) ==
    /\ Up
    /\ client[c] = "idle"
    /\ client' = [client EXCEPT ![c] = "reading"]
    /\ copier' = [copier EXCEPT ![c] = "copying"]
    /\ handler' = [handler EXCEPT ![c] = "copying"]
    /\ UNCHANGED <<stdin, nvars, server, out, stdout, waits, expired, eof>>

\* io.Copy from standard input.
CopyIn(c) ==
    /\ Alive(c)
    /\ copier[c] = "copying"
    /\ ~lost[c]
    /\ stdin[c] > 0
    /\ stdin' = [stdin EXCEPT ![c] = @ - 1]
    /\ sent' = [sent EXCEPT ![c] = @ + 1]
    /\ UNCHANGED <<copier, client, rcvd, fin, lost, svars, eof>>

\* Bug: the goroutine ends without CloseWrite.
HalfCloseForgotten(c) ==
    /\ Alive(c)
    /\ copier[c] = "copying"
    /\ ~lost[c]
    /\ stdin[c] = 0
    /\ copier' = [copier EXCEPT ![c] = "done"]
    /\ UNCHANGED <<stdin, client, nvars, svars, eof>>

\* The end of standard input: CloseWrite.
HalfClose(c) ==
    /\ Alive(c)
    /\ copier[c] = "copying"
    /\ ~lost[c]
    /\ stdin[c] = 0
    /\ copier' = [copier EXCEPT ![c] = "done"]
    /\ fin' = [fin EXCEPT ![c] = "queued"]
    /\ UNCHANGED <<stdin, client, sent, rcvd, lost, svars, eof>>

\* Bug: the client goes on as soon as it has sent everything.
ReadEOFAtOnce(c) ==
    /\ client[c] = "reading"
    /\ copier[c] = "done"
    /\ client' = [client EXCEPT ![c] = "draining"]
    /\ UNCHANGED <<stdin, copier, nvars, svars, eof>>

\* io.Copy to standard output returns at the server's EOF; Close follows.
ReadEOF(c) ==
    /\ client[c] = "reading"
    /\ eof[c] \in {"rcvd", "acked"}
    /\ client' = [client EXCEPT ![c] = "draining"]
    /\ UNCHANGED <<stdin, copier, nvars, svars, eof>>

\* Either copy of the client fails.
CopyFails(c) ==
    /\ client[c] = "reading"
    /\ lost[c]
    /\ eof[c] \in {"no", "queued"}
    /\ client' = [client EXCEPT ![c] = "failed"]
    /\ UNCHANGED <<stdin, copier, nvars, svars, eof>>

\* Client.DrainTCP: nothing is left to send or send again, or it is too late.
ClientDrained(c) ==
    /\ client[c] = "draining"
    /\ fin[c] = "acked" \/ lost[c]
    /\ client' = [client EXCEPT ![c] = "ok"]
    /\ UNCHANGED <<stdin, copier, nvars, svars, eof>>

ClientDrainExpires(c) ==
    /\ client[c] = "draining"
    /\ client' = [client EXCEPT ![c] = "failed"]
    /\ UNCHANGED <<stdin, copier, nvars, svars, eof>>

Killed(c) ==
    /\ Alive(c)
    /\ client' = [client EXCEPT ![c] = "killed"]
    /\ UNCHANGED <<stdin, copier, nvars, svars, eof>>

-----------------------------------------------------------------------------
(* The network (external). Losses are made good while both processes run.  *)

Connected(c) == Alive(c) /\ Up /\ ~lost[c]

Deliver(c) ==
    /\ Connected(c)
    /\ rcvd[c] < sent[c]
    /\ rcvd' = [rcvd EXCEPT ![c] = @ + 1]
    /\ UNCHANGED <<cvars, sent, fin, lost, svars, eof>>

\* A FIN comes after all data, and its acknowledgment after the FIN.
Step(f) == CASE f = "queued" -> "rcvd" [] f = "rcvd" -> "acked"

DeliverFin(c) ==
    /\ Connected(c)
    /\ rcvd[c] = sent[c]
    /\ fin[c] \in {"queued", "rcvd"}
    /\ fin' = [fin EXCEPT ![c] = Step(@)]
    /\ UNCHANGED <<cvars, sent, rcvd, lost, svars, eof>>

DeliverEOF(c) ==
    /\ Connected(c)
    /\ eof[c] \in {"queued", "rcvd"}
    /\ eof' = [eof EXCEPT ![c] = Step(@)]
    /\ UNCHANGED <<cvars, nvars, svars>>

SessionLost(c) ==
    /\ client[c] # "idle"
    /\ ~lost[c]
    /\ lost' = [lost EXCEPT ![c] = TRUE]
    /\ UNCHANGED <<cvars, sent, rcvd, fin, svars, eof>>

-----------------------------------------------------------------------------
(* The server: the one-shot handler, run for every connection.             *)

\* io.Copy; a write to the standard output that another handler has closed
\* fails, and log.Fatal ends the process.
WriteOut(c) ==
    /\ Up
    /\ handler[c] = "copying"
    /\ out[c] < rcvd[c]
    /\ IF stdout THEN out' = [out EXCEPT ![c] = @ + 1] /\ UNCHANGED server
       ELSE server' = "failed" /\ UNCHANGED out
    /\ UNCHANGED <<cvars, nvars, handler, stdout, waits, expired, eof>>

ReadFails(c) ==
    /\ Up
    /\ handler[c] = "copying"
    /\ lost[c]
    /\ server' = "failed"
    /\ UNCHANGED <<cvars, nvars, handler, out, stdout, waits, expired, eof>>

\* The client's EOF: standard output is closed.
CloseStdout(c) ==
    /\ Up
    /\ handler[c] = "copying"
    /\ out[c] = rcvd[c]
    /\ fin[c] \in {"rcvd", "acked"}
    /\ handler' = [handler EXCEPT ![c] = "closing"]
    /\ stdout' = FALSE
    /\ UNCHANGED <<cvars, nvars, server, out, waits, expired, eof>>

\* An endpoint is closed when both FINs have been exchanged.
Closed(c) ==
    \/ handler[c] = "none"
    \/ lost[c]
    \/ eof[c] = "acked"

\* c.Close; then DrainTCP looks up the endpoints there are.
CloseConn(c) ==
    /\ Up
    /\ handler[c] = "closing"
    /\ handler' = [handler EXCEPT ![c] = "draining"]
    /\ eof' = [eof EXCEPT ![c] = "queued"]
    /\ waits' = [waits EXCEPT ![c] = {d \in Clients : handler[d] # "none"}]
    /\ UNCHANGED <<cvars, nvars, server, out, stdout, expired>>

\* Bug: DrainTCP waits for the handler's own connection only.
ServerDrainedOwn(c) ==
    /\ Up
    /\ handler[c] = "draining"
    /\ Closed(c)
    /\ server' = "ok"
    /\ UNCHANGED <<cvars, nvars, handler, out, stdout, waits, expired, eof>>

\* They are closed, or the time is up: os.Exit(0) either way.
ServerDrained(c) ==
    /\ Up
    /\ handler[c] = "draining"
    /\ \A d \in waits[c] : Closed(d)
    /\ server' = "ok"
    /\ UNCHANGED <<cvars, nvars, handler, out, stdout, waits, expired, eof>>

ServerDrainExpires(c) ==
    /\ Up
    /\ handler[c] = "draining"
    /\ server' = "ok"
    /\ expired' = TRUE
    /\ UNCHANGED <<cvars, nvars, handler, out, stdout, waits, eof>>

Next ==
    \E c \in Clients :
        \/ Dial(c) \/ CopyIn(c) \/ HalfClose(c) \/ ReadEOF(c) \/ CopyFails(c)
        \/ ClientDrained(c) \/ ClientDrainExpires(c) \/ Killed(c)
        \/ Deliver(c) \/ DeliverFin(c) \/ DeliverEOF(c) \/ SessionLost(c)
        \/ WriteOut(c) \/ ReadFails(c) \/ CloseStdout(c) \/ CloseConn(c)
        \/ ServerDrained(c) \/ ServerDrainExpires(c)

Spec == Init /\ [][Next]_vars

\* The processes go on, whoever reads the server's output does read it, what
\* is sent again arrives in the end, deadlines pass, and the session with a
\* process that is gone is given up. Standard input may never end.
FairSpec ==
    /\ Spec
    /\ \A c \in Clients :
          /\ WF_vars(ReadEOF(c)) /\ WF_vars(CopyFails(c))
          /\ WF_vars(ClientDrained(c)) /\ WF_vars(ClientDrainExpires(c))
          /\ WF_vars(Deliver(c)) /\ WF_vars(DeliverFin(c)) /\ WF_vars(DeliverEOF(c))
          /\ WF_vars(SessionLost(c) /\ ~(Alive(c) /\ Up))
          /\ WF_vars(WriteOut(c)) /\ WF_vars(ReadFails(c))
          /\ WF_vars(CloseStdout(c)) /\ WF_vars(CloseConn(c))
          /\ WF_vars(ServerDrained(c)) /\ WF_vars(ServerDrainExpires(c))

-----------------------------------------------------------------------------
(* Properties.                                                             *)

\* The values every variable can hold.
TypeOK ==
    /\ stdin \in [Clients -> 0..MaxChunks]
    /\ copier \in [Clients -> {"off", "copying", "done"}]
    /\ client \in [Clients -> {"idle", "reading", "draining"} \cup Exited]
    /\ sent \in [Clients -> 0..MaxChunks]
    /\ rcvd \in [Clients -> 0..MaxChunks]
    /\ fin \in [Clients -> {"no", "queued", "rcvd", "acked"}]
    /\ lost \in [Clients -> BOOLEAN]
    /\ server \in {"up", "ok", "failed"}
    /\ handler \in [Clients -> {"none", "copying", "closing", "draining"}]
    /\ out \in [Clients -> 0..MaxChunks]
    /\ stdout \in BOOLEAN
    /\ eof \in [Clients -> {"no", "queued", "rcvd", "acked"}]
    /\ waits \in [Clients -> SUBSET Clients]
    /\ expired \in BOOLEAN

\* A client that exits without an error has had all of its standard input
\* written to the server's standard output, although its stack, and what
\* that would have to send again, ends with it: "Its close also confirms
\* delivery of everything we sent" (clientMode).
DeliveredOnSuccess ==
    \A c \in Clients : client[c] = "ok" => stdin[c] = 0 /\ out[c] = sent[c]

\* A server that exits without an error, and not because the time was up,
\* leaves no client behind that waits for the EOF of its connection: not the
\* one whose handler ends the process, nor any other that was connected when
\* that handler closed its connection. Each has acknowledged its EOF or is
\* lost. One that connects after DrainTCP has looked is not waited for.
EOFBeforeExit ==
    server = "ok" /\ ~expired =>
        \E c \in Clients :
            /\ handler[c] = "draining"
            /\ \A d \in {c} \cup waits[c] : eof[d] = "acked" \/ lost[d]

\* A client that has sent everything comes to its end, and so does the
\* server once it has all of one client's input: neither waits for the
\* other for ever, whichever clients are killed and whatever is lost.
BothEnd ==
    /\ \A c \in Clients : copier[c] = "done" ~> client[c] \in Exited
    /\ ~stdout ~> ~Up
=============================================================================

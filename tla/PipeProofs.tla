----------------------------- MODULE PipeProofs -----------------------------
(***************************************************************************)
(* Proofs about Pipe, for every set of clients and any amount of input.    *)
(***************************************************************************)
EXTENDS Pipe, TLAPS

\* What has been written has been received, what has been received has been
\* sent, and what has been sent was read from standard input.
Data ==
    \A c \in Clients :
        /\ out[c] <= rcvd[c]
        /\ rcvd[c] <= sent[c]
        /\ stdin[c] + sent[c] <= MaxChunks

\* A FIN follows all the input there was, and arrives after all of it.
Fins ==
    \A c \in Clients :
        /\ client[c] = "idle" => copier[c] = "off"
        /\ fin[c] # "no" => copier[c] = "done"
        /\ copier[c] = "done" => stdin[c] = 0
        /\ fin[c] \in {"rcvd", "acked"} => rcvd[c] = sent[c]

\* A handler that has left io.Copy has seen the FIN and written everything.
Handlers ==
    \A c \in Clients :
        /\ client[c] = "idle" => handler[c] = "none"
        /\ handler[c] \in {"closing", "draining"} =>
              fin[c] \in {"rcvd", "acked"} /\ out[c] = rcvd[c]

\* The server's FIN is sent by such a handler alone, and a client that has
\* stopped reading has received it.
Eofs ==
    \A c \in Clients :
        /\ eof[c] # "no" => handler[c] = "draining"
        /\ client[c] \in {"draining", "ok"} => eof[c] \in {"rcvd", "acked"}

\* DrainTCP waits for the handler's own connection and only for connections
\* there are.
Waits ==
    \A c \in Clients :
        /\ handler[c] = "draining" => c \in waits[c]
        /\ \A d \in waits[c] : handler[d] # "none"

\* The inductive invariant from which the theorems follow.
IInv == TypeOK /\ Data /\ Fins /\ Handlers /\ Eofs /\ Waits /\ EOFBeforeExit

-----------------------------------------------------------------------------
(* The initial states, and each action, establish the invariant.           *)

\* Before anything has happened no data and no FIN is on its way.
LEMMA InitIInv == Init => IInv
<1> SUFFICES ASSUME Init PROVE IInv
  OBVIOUS
<1> USE PipeAssumption DEF Init, Each
<1>1. TypeOK
  <2>1. 0 \in 0..MaxChunks
    OBVIOUS
  <2>2. /\ stdin \in [Clients -> 0..MaxChunks]
        /\ sent \in [Clients -> 0..MaxChunks]
        /\ rcvd \in [Clients -> 0..MaxChunks]
        /\ out \in [Clients -> 0..MaxChunks]
    BY <2>1
  <2>3. /\ copier \in [Clients -> {"off", "copying", "done"}]
        /\ client \in [Clients -> {"idle", "reading", "draining"} \cup Exited]
        /\ fin \in [Clients -> {"no", "queued", "rcvd", "acked"}]
        /\ eof \in [Clients -> {"no", "queued", "rcvd", "acked"}]
        /\ handler \in [Clients -> {"none", "copying", "closing", "draining"}]
    OBVIOUS
  <2>4. lost \in [Clients -> BOOLEAN] /\ waits \in [Clients -> SUBSET Clients]
    OBVIOUS
  <2> QED BY <2>2, <2>3, <2>4 DEF TypeOK
<1>2. Data
  <2> SUFFICES ASSUME NEW c \in Clients
               PROVE  /\ out[c] <= rcvd[c]
                      /\ rcvd[c] <= sent[c]
                      /\ stdin[c] + sent[c] <= MaxChunks
    BY DEF Data
  <2>1. out[c] = 0 /\ rcvd[c] = 0 /\ sent[c] = 0 /\ stdin[c] \in 0..MaxChunks
    OBVIOUS
  <2> QED BY <2>1
<1>3. Fins /\ Handlers /\ Eofs /\ Waits /\ EOFBeforeExit
  BY DEF Fins, Handlers, Eofs, Waits, EOFBeforeExit
<1> QED BY <1>1, <1>2, <1>3 DEF IInv

\* A connection is made before there is any data or FIN on it.
LEMMA DialIInv ==
    ASSUME IInv, NEW c \in Clients, Dial(c)
    PROVE  IInv'
<1> USE DEF Dial, IInv
<1>1. TypeOK'
  BY DEF TypeOK, nvars
<1>2. Fins'
  BY DEF TypeOK, Fins, nvars
<1>3. Handlers'
  BY DEF TypeOK, Handlers, nvars
<1>4. Eofs'
  BY DEF Handlers, Eofs
<1>5. Waits'
  BY DEF Waits
<1>6. Data'
  BY DEF Data, nvars
<1>7. EOFBeforeExit'
  BY DEF Up, EOFBeforeExit
<1> QED BY <1>1, <1>2, <1>3, <1>4, <1>5, <1>6, <1>7

\* A piece of input moves from standard input to the stack.
LEMMA CopyInIInv ==
    ASSUME IInv, NEW c \in Clients, CopyIn(c)
    PROVE  IInv'
<1> USE DEF CopyIn, Alive, IInv
<1>1. TypeOK'
  BY PipeAssumption DEF TypeOK, Data, svars
<1>2. Data'
  <2> SUFFICES ASSUME NEW d \in Clients
               PROVE  /\ out'[d] <= rcvd'[d]
                      /\ rcvd'[d] <= sent'[d]
                      /\ stdin'[d] + sent'[d] <= MaxChunks
    BY DEF Data
  <2>1. /\ stdin[d] \in Nat /\ sent[d] \in Nat /\ rcvd[d] \in Nat /\ out[d] \in Nat
        /\ out[d] <= rcvd[d] /\ rcvd[d] <= sent[d]
        /\ stdin[d] + sent[d] <= MaxChunks
    BY DEF TypeOK, Data
  <2>2. /\ \/ stdin'[d] = stdin[d] /\ sent'[d] = sent[d]
           \/ stdin'[d] = stdin[d] - 1 /\ sent'[d] = sent[d] + 1
        /\ rcvd'[d] = rcvd[d] /\ out'[d] = out[d]
    BY DEF TypeOK, svars
  <2> QED BY <2>1, <2>2, PipeAssumption
<1>3. Fins'
  BY DEF Fins
<1>4. Handlers' /\ Eofs' /\ Waits' /\ EOFBeforeExit'
  BY DEF Handlers, Eofs, Waits, EOFBeforeExit, svars
<1> QED BY <1>1, <1>2, <1>3, <1>4

\* The FIN is queued when standard input has come to its end.
LEMMA HalfCloseIInv ==
    ASSUME IInv, NEW c \in Clients, HalfClose(c)
    PROVE  IInv'
<1> USE DEF HalfClose, Alive, IInv
<1>1. TypeOK'
  BY DEF TypeOK, svars
<1>2. Fins'
  BY DEF TypeOK, Fins
<1>3. Handlers'
  BY DEF Fins, Handlers, svars
<1>4. Data' /\ Eofs' /\ Waits' /\ EOFBeforeExit'
  BY DEF Data, Eofs, Waits, EOFBeforeExit, svars
<1> QED BY <1>1, <1>2, <1>3, <1>4

\* A client stops reading only at the server's EOF.
LEMMA ReadEOFIInv ==
    ASSUME IInv, NEW c \in Clients, ReadEOF(c)
    PROVE  IInv'
<1> USE DEF ReadEOF, IInv
<1>1. TypeOK'
  BY DEF TypeOK, nvars, svars
<1>2. Eofs'
  BY DEF Eofs, svars
<1>3. Data' /\ Fins' /\ Handlers' /\ Waits' /\ EOFBeforeExit'
  BY DEF Data, Fins, Handlers, Waits, EOFBeforeExit, nvars, svars
<1> QED BY <1>1, <1>2, <1>3

\* A client that fails promises nothing.
LEMMA CopyFailsIInv ==
    ASSUME IInv, NEW c \in Clients, CopyFails(c)
    PROVE  IInv'
<1> USE DEF CopyFails, IInv
<1>1. TypeOK'
  BY DEF TypeOK, Exited, nvars, svars
<1>2. Data' /\ Fins' /\ Handlers' /\ Eofs' /\ Waits' /\ EOFBeforeExit'
  BY DEF Data, Fins, Handlers, Eofs, Waits, EOFBeforeExit, nvars, svars
<1> QED BY <1>1, <1>2

\* A client that exits without an error had received the EOF.
LEMMA ClientDrainedIInv ==
    ASSUME IInv, NEW c \in Clients, ClientDrained(c)
    PROVE  IInv'
<1> USE DEF ClientDrained, IInv
<1>1. TypeOK'
  BY DEF TypeOK, Exited, nvars, svars
<1>2. Eofs'
  BY DEF Eofs, svars
<1>3. Data' /\ Fins' /\ Handlers' /\ Waits' /\ EOFBeforeExit'
  BY DEF Data, Fins, Handlers, Waits, EOFBeforeExit, nvars, svars
<1> QED BY <1>1, <1>2, <1>3

\* A client that gives up waiting promises nothing.
LEMMA ClientDrainExpiresIInv ==
    ASSUME IInv, NEW c \in Clients, ClientDrainExpires(c)
    PROVE  IInv'
<1> USE DEF ClientDrainExpires, IInv
<1>1. TypeOK'
  BY DEF TypeOK, Exited, nvars, svars
<1>2. Data' /\ Fins' /\ Handlers' /\ Eofs' /\ Waits' /\ EOFBeforeExit'
  BY DEF Data, Fins, Handlers, Eofs, Waits, EOFBeforeExit, nvars, svars
<1> QED BY <1>1, <1>2

\* A client that is killed promises nothing.
LEMMA KilledIInv ==
    ASSUME IInv, NEW c \in Clients, Killed(c)
    PROVE  IInv'
<1> USE DEF Killed, Alive, IInv
<1>1. TypeOK'
  BY DEF TypeOK, Exited, nvars, svars
<1>2. Data' /\ Fins' /\ Handlers' /\ Eofs' /\ Waits' /\ EOFBeforeExit'
  BY DEF Data, Fins, Handlers, Eofs, Waits, EOFBeforeExit, nvars, svars
<1> QED BY <1>1, <1>2

\* Data arrives before the FIN, so the handler is still copying.
LEMMA DeliverIInv ==
    ASSUME IInv, NEW c \in Clients, Deliver(c)
    PROVE  IInv'
<1> USE DEF Deliver, Connected, Alive, Up, IInv
<1>1. TypeOK'
  BY PipeAssumption DEF TypeOK, cvars, svars
<1>2. Data'
  BY DEF TypeOK, Data, cvars, svars
<1>3. Fins'
  BY DEF TypeOK, Fins, cvars
<1>4. Handlers'
  BY DEF TypeOK, Fins, Handlers, cvars, svars
<1>5. Eofs' /\ Waits' /\ EOFBeforeExit'
  BY DEF Eofs, Waits, EOFBeforeExit, cvars, svars
<1> QED BY <1>1, <1>2, <1>3, <1>4, <1>5

\* The FIN arrives after all data.
LEMMA DeliverFinIInv ==
    ASSUME IInv, NEW c \in Clients, DeliverFin(c)
    PROVE  IInv'
<1> USE DEF DeliverFin, Connected, Alive, Up, Step, IInv
<1>1. TypeOK'
  BY DEF TypeOK, cvars, svars
<1>2. Fins'
  BY DEF Fins, cvars
<1>3. Handlers'
  BY DEF Handlers, cvars, svars
<1>4. Data' /\ Eofs' /\ Waits' /\ EOFBeforeExit'
  BY DEF Data, Eofs, Waits, EOFBeforeExit, cvars, svars
<1> QED BY <1>1, <1>2, <1>3, <1>4

\* The EOF moves on while the server is up.
LEMMA DeliverEOFIInv ==
    ASSUME IInv, NEW c \in Clients, DeliverEOF(c)
    PROVE  IInv'
<1> USE DEF DeliverEOF, Connected, Alive, Up, Step, IInv
<1>1. TypeOK'
  BY DEF TypeOK, cvars, nvars, svars
<1>2. Eofs'
  BY DEF Eofs, cvars, svars
<1>3. EOFBeforeExit'
  BY DEF EOFBeforeExit, svars
<1>4. Data' /\ Fins' /\ Handlers' /\ Waits'
  BY DEF Data, Fins, Handlers, Waits, cvars, nvars, svars
<1> QED BY <1>1, <1>2, <1>3, <1>4

\* A session that is lost only releases those that wait.
LEMMA SessionLostIInv ==
    ASSUME IInv, NEW c \in Clients, SessionLost(c)
    PROVE  IInv'
<1> USE DEF SessionLost, IInv
<1>1. TypeOK'
  BY DEF TypeOK, cvars, svars
<1>2. EOFBeforeExit'
  BY DEF EOFBeforeExit, svars
<1>3. Data' /\ Fins' /\ Handlers' /\ Eofs' /\ Waits'
  BY DEF Data, Fins, Handlers, Eofs, Waits, cvars, svars
<1> QED BY <1>1, <1>2, <1>3

\* A handler that is still copying writes a piece it has received.
LEMMA WriteOutIInv ==
    ASSUME IInv, NEW c \in Clients, WriteOut(c)
    PROVE  IInv'
<1> USE DEF WriteOut, Up, IInv
<1>1. TypeOK'
  BY PipeAssumption DEF TypeOK, cvars, nvars
<1>2. Data'
  <2>1. UNCHANGED <<stdin, sent, rcvd>>
    BY DEF cvars, nvars
  <2>2. \/ UNCHANGED out
        \/ out' = [out EXCEPT ![c] = @ + 1] /\ out[c] < rcvd[c]
    OBVIOUS
  <2>3. out[c] \in Nat /\ rcvd[c] \in Nat
    BY DEF TypeOK
  <2> QED BY <2>1, <2>2, <2>3 DEF TypeOK, Data
<1>3. Handlers'
  BY DEF TypeOK, Handlers, cvars, nvars
<1>4. EOFBeforeExit'
  BY DEF EOFBeforeExit
<1>5. Fins' /\ Eofs' /\ Waits'
  BY DEF Fins, Eofs, Waits, cvars, nvars
<1> QED BY <1>1, <1>2, <1>3, <1>4, <1>5

\* A server that fails promises nothing.
LEMMA ReadFailsIInv ==
    ASSUME IInv, NEW c \in Clients, ReadFails(c)
    PROVE  IInv'
<1> USE DEF ReadFails, Up, IInv
<1>1. TypeOK'
  BY DEF TypeOK, cvars, nvars
<1>2. EOFBeforeExit'
  BY DEF EOFBeforeExit
<1>3. Data' /\ Fins' /\ Handlers' /\ Eofs' /\ Waits'
  BY DEF Data, Fins, Handlers, Eofs, Waits, cvars, nvars
<1> QED BY <1>1, <1>2, <1>3

\* A handler leaves io.Copy at the FIN, with everything written.
LEMMA CloseStdoutIInv ==
    ASSUME IInv, NEW c \in Clients, CloseStdout(c)
    PROVE  IInv'
<1> USE DEF CloseStdout, Up, IInv
<1>1. TypeOK'
  BY DEF TypeOK, cvars, nvars
<1>2. Handlers'
  BY DEF Handlers, cvars, nvars
<1>3. Eofs'
  BY DEF Eofs, cvars
<1>4. Waits'
  BY DEF Waits
<1>5. EOFBeforeExit'
  BY DEF EOFBeforeExit
<1>6. Data' /\ Fins'
  BY DEF Data, Fins, cvars, nvars
<1> QED BY <1>1, <1>2, <1>3, <1>4, <1>5, <1>6

\* The EOF is queued by a handler that waits for its own connection.
LEMMA CloseConnIInv ==
    ASSUME IInv, NEW c \in Clients, CloseConn(c)
    PROVE  IInv'
<1> USE DEF CloseConn, Up, IInv
<1>1. TypeOK'
  BY DEF TypeOK, cvars, nvars
<1>2. Handlers'
  BY DEF Handlers, cvars, nvars
<1>3. Eofs'
  BY DEF TypeOK, Eofs, cvars
<1>4. Waits'
  BY DEF TypeOK, Waits
<1>5. EOFBeforeExit'
  BY DEF EOFBeforeExit
<1>6. Data' /\ Fins'
  BY DEF Data, Fins, cvars, nvars
<1> QED BY <1>1, <1>2, <1>3, <1>4, <1>5, <1>6

\* The server exits when everyone waited for is done.
LEMMA ServerDrainedIInv ==
    ASSUME IInv, NEW c \in Clients, ServerDrained(c)
    PROVE  IInv'
<1> USE DEF ServerDrained, Up, Closed, IInv
<1>1. TypeOK'
  BY DEF TypeOK, cvars, nvars
<1>2. EOFBeforeExit'
  BY DEF Waits, EOFBeforeExit, nvars
<1>3. Data' /\ Fins' /\ Handlers' /\ Eofs' /\ Waits'
  BY DEF Data, Fins, Handlers, Eofs, Waits, cvars, nvars
<1> QED BY <1>1, <1>2, <1>3

\* The server exits late, which expired records.
LEMMA ServerDrainExpiresIInv ==
    ASSUME IInv, NEW c \in Clients, ServerDrainExpires(c)
    PROVE  IInv'
<1> USE DEF ServerDrainExpires, Up, IInv
<1>1. TypeOK'
  BY DEF TypeOK, cvars, nvars
<1>2. EOFBeforeExit'
  BY DEF EOFBeforeExit
<1>3. Data' /\ Fins' /\ Handlers' /\ Eofs' /\ Waits'
  BY DEF Data, Fins, Handlers, Eofs, Waits, cvars, nvars
<1> QED BY <1>1, <1>2, <1>3

\* Every step preserves the invariant.
LEMMA NextIInv == ASSUME IInv, [Next]_vars PROVE IInv'
<1>1. CASE UNCHANGED vars
  BY <1>1 DEF IInv, vars, cvars, nvars, svars, TypeOK, Data, Fins, Handlers, Eofs,
              Waits, EOFBeforeExit
<1>2. CASE Next
  BY <1>2, DialIInv, CopyInIInv, HalfCloseIInv, ReadEOFIInv, CopyFailsIInv,
     ClientDrainedIInv, ClientDrainExpiresIInv, KilledIInv, DeliverIInv,
     DeliverFinIInv, DeliverEOFIInv, SessionLostIInv, WriteOutIInv, ReadFailsIInv,
     CloseStdoutIInv, CloseConnIInv, ServerDrainedIInv, ServerDrainExpiresIInv
     DEF Next
<1> QED BY <1>1, <1>2

-----------------------------------------------------------------------------
(* The theorems.                                                           *)

\* The invariant holds in every state of every behaviour.
THEOREM Invariance == Spec => []IInv
BY InitIInv, NextIInv, PTL DEF Spec

\* Every variable keeps its type.
THEOREM TypeCorrect == Spec => []TypeOK
<1>1. IInv => TypeOK
  BY DEF IInv
<1> QED BY <1>1, Invariance, PTL

\* A client that exits without an error has had all of its standard input
\* written to the server's standard output: the client read the server's FIN,
\* which only a handler past io.Copy sends, which had seen the client's FIN.
THEOREM DeliveredOnSuccessInvariance == Spec => []DeliveredOnSuccess
<1>1. IInv => DeliveredOnSuccess
  BY DEF IInv, DeliveredOnSuccess, Eofs, Handlers, Fins
<1> QED BY <1>1, Invariance, PTL

\* A server that exits without an error, in time, has had the EOF of every
\* connection there was when it closed the one it served acknowledged, unless
\* that connection is lost.
THEOREM EOFBeforeExitInvariance == Spec => []EOFBeforeExit
<1>1. IInv => EOFBeforeExit
  BY DEF IInv
<1> QED BY <1>1, Invariance, PTL

=============================================================================

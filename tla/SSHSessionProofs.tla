-------------------------- MODULE SSHSessionProofs --------------------------
(***************************************************************************)
(* Proofs about SSHSession, for pipes and terminals of any capacity and    *)
(* any amount of output.                                                   *)
(***************************************************************************)
EXTENDS SSHSession, FiniteSetTheorems, TLAPS

\* Whether a copy is at work, as a number.
Open(s) == IF copy[s] = "copying" THEN 1 ELSE 0

\* openStreams counts the copies at work: the streams of the session are
\* being copied or have been once the process is started.
Counted ==
    /\ openStreams = Open("out") + Open("err")
    /\ \A s \in Streams : copy[s] # "off" <=> proc # "unborn" /\ s \in InUse
    /\ \A s \in Streams : s \notin InUse => wrote[s] = 0

\* What was written is in the pipe or with the client, for as long as there
\* is a client.
Output ==
    \A s \in Streams :
        /\ got[s] + buf[s] <= wrote[s]
        /\ client => got[s] + buf[s] = wrote[s]

\* Nobody can write any more: the process has exited, nobody else has its
\* pipes open, and the console is closed.
Over ==
    /\ proc = "exited"
    /\ mode = "pipes" => ~held
    /\ mode = "conpty" => "console" \notin open

\* A copy that ended while there was a client had read everything.
Ended ==
    \A s \in Streams : client /\ copy[s] = "done" => Over /\ buf[s] = 0

\* What the handler's control point tells.
Phases ==
    /\ pc = "start" => proc = "unborn" /\ resizer = "off"
    /\ pc \in {"drain", "wait", "close", "closing", "exit"} => proc # "unborn"
    /\ pc \in {"close", "closing"} => mode = "conpty"
    /\ pc = "wait" /\ mode # "conpty" => openStreams = 0
    /\ mode = "conpty" /\ proc # "unborn" /\ pc # "wait" => proc = "exited"
    /\ mode = "conpty" /\ proc # "unborn" /\ pc \notin {"wait", "close", "closing"}
          => "console" \notin open
    /\ mode = "conpty" /\ pc \in {"wait", "close", "closing"} => "console" \in open
    /\ pc \in {"exit", "return", "done"} /\ proc # "unborn"
          => proc = "exited" /\ openStreams = 0
    /\ status # -1 => pc \in {"return", "done"}
    /\ status # -1 /\ proc # "unborn" => status = code

\* The mutex of the console and the goroutine that passes window sizes on.
Resizing ==
    /\ resizer # "off" => mode # "pipes"
    /\ mu = "close" <=> pc = "closing"
    /\ mu = "resize" <=> mode = "conpty" /\ resizer = "busy"
    /\ mode = "pty" /\ resizer # "off" => "winch" \in open
    /\ mu = "resize" => "console" \in open

\* The inductive invariant from which the theorems follow.
IInv == TypeOK /\ Counted /\ Output /\ Ended /\ Phases /\ Resizing

-----------------------------------------------------------------------------
(* Facts about the counter.                                                *)

\* The counter is zero when no stream is being copied.
LEMMA NoneOpen ==
    ASSUME TypeOK, Counted
    PROVE  openStreams = 0 <=> \A s \in Streams : copy[s] # "copying"
BY DEF Counted, Open, Streams

\* A terminal is one stream, and pipes are two.
LEMMA StreamsInUse ==
    ASSUME TypeOK
    PROVE  /\ InUse \subseteq Streams
           /\ Cardinality(InUse) = IF mode = "pipes" THEN 2 ELSE 1
<1>1. IsFiniteSet({"err"}) /\ Cardinality({"err"}) = 1
  BY FS_Singleton
<1>2. Cardinality({"err"} \cup {"out"}) = 2
  BY <1>1, FS_AddElement
<1>3. {"err"} \cup {"out"} = Streams
  BY DEF Streams
<1>4. Cardinality({"out"}) = 1
  BY FS_Singleton
<1> QED BY <1>2, <1>3, <1>4 DEF InUse

-----------------------------------------------------------------------------
(* The initial states, and each action, establish the invariant.           *)

\* Nothing is started and nothing written.
LEMMA InitIInv == Init => IInv
<1> SUFFICES ASSUME Init PROVE IInv
  OBVIOUS
<1> USE SessionAssumption DEF Init, Streams
<1>1. TypeOK
  <2>1. 0 \in 0..MaxOut /\ 0 \in 0..Cap
    OBVIOUS
  <2>2. /\ wrote \in [Streams -> 0..MaxOut]
        /\ buf \in [Streams -> 0..Cap]
        /\ got \in [Streams -> 0..MaxOut]
    BY <2>1
  <2>3. copy \in [Streams -> {"off", "copying", "done"}]
    OBVIOUS
  <2>4. code \in 0..1 /\ openStreams \in 0..2 /\ status \in -1..1
    OBVIOUS
  <2>5. held \in BOOLEAN /\ client \in BOOLEAN /\ open = {}
    OBVIOUS
  <2> QED BY <2>2, <2>3, <2>4, <2>5 DEF TypeOK
<1>2. Counted /\ Output
  BY DEF Counted, Output, Open
<1>3. Ended /\ Phases /\ Resizing
  BY DEF Ended, Phases, Resizing
<1> QED BY <1>1, <1>2, <1>3 DEF IInv

\* A start that fails leaves the process unborn.
LEMMA StartFailsIInv ==
    ASSUME IInv, StartFails
    PROVE  IInv'
<1> USE DEF StartFails, IInv, procVars, ioVars, ptyVars
<1>1. TypeOK'
  BY DEF TypeOK
<1>2. Phases'
  BY DEF Phases
<1>3. Resizing'
  BY DEF Resizing
<1>4. Counted' /\ Output' /\ Ended'
  BY DEF Counted, Open, InUse, Output, Ended, Over
<1> QED BY <1>1, <1>2, <1>3, <1>4

\* A start opens the streams that are in use.
LEMMA StartIInv ==
    ASSUME IInv, Start
    PROVE  IInv'
<1> USE DEF Start, IInv, procVars, ioVars, ptyVars
<1>1. TypeOK'
  <2>1. copy' \in [Streams -> {"off", "copying", "done"}]
    OBVIOUS
  <2>2. openStreams' \in 0..2
    BY StreamsInUse
  <2>3. open' \subseteq {"ptmx", "winch", "console"}
    BY DEF TypeOK
  <2> QED BY <2>1, <2>2, <2>3 DEF TypeOK
<1>2. Counted'
  <2>1. \A s \in Streams : copy'[s] = IF s \in InUse THEN "copying" ELSE "off"
    OBVIOUS
  <2>2. InUse' = InUse
    BY DEF InUse
  <2>3. openStreams' = Open("out")' + Open("err")'
    BY <2>1, StreamsInUse DEF Open, InUse, Streams
  <2> QED BY <2>1, <2>2, <2>3 DEF Counted, TypeOK
<1>3. Ended'
  BY DEF Ended
<1>4. Phases'
  BY DEF Phases
<1>5. Resizing'
  BY DEF Phases, Resizing
<1>6. Output'
  BY DEF Output
<1> QED BY <1>1, <1>2, <1>3, <1>4, <1>5, <1>6

\* Output is written into a pipe that has room.
LEMMA WriteIInv ==
    ASSUME IInv, NEW s \in Streams, Write(s)
    PROVE  IInv'
<1> USE DEF Write, IInv, procVars, ioVars, ptyVars
<1>1. TypeOK'
  BY SessionAssumption DEF TypeOK
<1>2. Counted'
  BY DEF Counted, Open, InUse
<1>3. Output'
  BY DEF TypeOK, Output
<1>4. Ended'
  <2>1. ~Over
    BY DEF Over, CanWrite, TypeOK
  <2> QED BY <2>1 DEF Ended, Over
<1>5. Phases' /\ Resizing'
  BY DEF Phases, Resizing
<1> QED BY <1>1, <1>2, <1>3, <1>4, <1>5

\* The process exits while its output is still being copied.
LEMMA ExitsIInv ==
    ASSUME IInv, Exits
    PROVE  IInv'
<1> USE DEF Exits, IInv, procVars, ioVars, ptyVars
<1>1. TypeOK'
  BY DEF TypeOK
<1>2. Counted'
  BY DEF Counted, Open, InUse
<1>3. Ended'
  BY DEF Ended, Over
<1>4. Phases'
  BY DEF Phases
<1>5. Output' /\ Resizing'
  BY DEF Output, Resizing
<1> QED BY <1>1, <1>2, <1>3, <1>4, <1>5

\* The last process left behind exits.
LEMMA LastHolderExitsIInv ==
    ASSUME IInv, LastHolderExits
    PROVE  IInv'
<1> USE DEF LastHolderExits, IInv, procVars, ioVars, ptyVars
<1>1. TypeOK'
  BY DEF TypeOK, Counted, Open, Output, Streams
<1>2. Ended'
  BY DEF Ended, Over
<1>3. Counted' /\ Output' /\ Phases' /\ Resizing'
  BY DEF Counted, Open, InUse, Output, Phases, Resizing
<1> QED BY <1>1, <1>2, <1>3

\* Without a client there is no promise to keep.
LEMMA ClientLeavesIInv ==
    ASSUME IInv, ClientLeaves
    PROVE  IInv'
<1> USE DEF ClientLeaves, IInv, procVars, ioVars, ptyVars
<1>1. TypeOK'
  BY DEF TypeOK, Counted, Open, Output, Streams
<1>2. Output'
  BY DEF Output
<1>3. Ended'
  BY DEF Ended
<1>4. Counted' /\ Phases' /\ Resizing'
  BY DEF Counted, Open, InUse, Phases, Resizing
<1> QED BY <1>1, <1>2, <1>3, <1>4

\* A piece goes from the pipe to the client, or the copy ends with the client gone.
LEMMA CopyIInv ==
    ASSUME IInv, NEW s \in Streams, Copy(s)
    PROVE  IInv'
<1> USE DEF Copy, IInv, procVars, ioVars, ptyVars
<1>1. TypeOK'
  BY SessionAssumption DEF TypeOK, Counted, Open, Output, Streams
<1>2. Counted'
  BY DEF TypeOK, Counted, Open, InUse, Streams
<1>3. Output'
  BY DEF TypeOK, Output, Streams
<1>4. Ended'
  BY DEF Ended, Over
<1>5. Phases'
  <2>1. openStreams # 0
    BY NoneOpen
  <2> QED BY <2>1 DEF Phases
<1>6. Resizing'
  BY DEF Resizing
<1> QED BY <1>1, <1>2, <1>3, <1>4, <1>5, <1>6

\* A copy ends when nobody can write and nothing is left.
LEMMA CopyEndsIInv ==
    ASSUME IInv, NEW s \in Streams, CopyEnds(s)
    PROVE  IInv'
<1> USE DEF CopyEnds, IInv, procVars, ioVars, ptyVars
<1>1. TypeOK'
  BY DEF TypeOK, Counted, Open, Streams
<1>2. Counted'
  BY DEF TypeOK, Counted, Open, InUse, Streams
<1>3. Ended'
  <2>1. openStreams # 0 /\ proc # "unborn"
    BY NoneOpen DEF Counted
  <2>2. Over
    BY <2>1 DEF Drained, CanWrite, Over, Phases, TypeOK
  <2> QED BY <2>2 DEF Drained, Ended, Over, TypeOK
<1>4. Phases'
  <2>1. openStreams # 0
    BY NoneOpen
  <2> QED BY <2>1 DEF Phases
<1>5. Output' /\ Resizing'
  BY DEF Output, Resizing
<1> QED BY <1>1, <1>2, <1>3, <1>4, <1>5

\* The handler goes on when all copies have ended.
LEMMA OutputDoneIInv ==
    ASSUME IInv, OutputDone
    PROVE  IInv'
<1> USE DEF OutputDone, IInv, procVars, ioVars, ptyVars
<1>1. TypeOK'
  BY DEF TypeOK
<1>2. Phases'
  BY DEF Phases
<1>3. Resizing'
  BY DEF Resizing
<1>4. Counted' /\ Output' /\ Ended'
  BY DEF Counted, Open, InUse, Output, Ended, Over
<1> QED BY <1>1, <1>2, <1>3, <1>4

\* cmd.Wait closes pipes from which everything has been read.
LEMMA WaitIInv ==
    ASSUME IInv, Wait
    PROVE  IInv'
<1> USE DEF Wait, IInv, procVars, ioVars, ptyVars
<1>1. ASSUME mode = "pipes" PROVE TypeOK' /\ Counted' /\ Output' /\ Ended'
  <2>1. openStreams = 0 /\ proc = "exited"
    BY <1>1 DEF Phases
  <2>2. copy' = copy
    <3>1. \A s \in Streams : copy[s] = "done"
      BY <1>1, <2>1, NoneOpen DEF Counted, InUse, TypeOK
    <3> QED BY <1>1, <3>1 DEF TypeOK
  <2>3. buf' = [s \in Streams |-> 0] /\ UNCHANGED <<proc, held, wrote, got, openStreams>>
    BY <1>1
  <2>4. TypeOK'
    <3>1. buf' \in [Streams -> 0..Cap]
      BY <2>3, SessionAssumption
    <3> QED BY <2>2, <3>1 DEF TypeOK
  <2>5. Counted'
    BY <2>2, <2>3 DEF Counted, Open, InUse
  <2>6. Output'
    <3> SUFFICES ASSUME NEW s \in Streams
                 PROVE  /\ got'[s] + buf'[s] <= wrote'[s]
                        /\ client' => got'[s] + buf'[s] = wrote'[s]
      BY DEF Output
    <3>1. client => buf[s] = 0
      BY <1>1, <2>1, NoneOpen DEF Counted, Ended, InUse, TypeOK
    <3>2. got[s] \in Nat /\ buf[s] \in Nat /\ wrote[s] \in Nat
      BY DEF TypeOK
    <3> QED BY <2>3, <3>1, <3>2 DEF Output
  <2>7. Ended'
    BY <2>2, <2>3 DEF Ended, Over
  <2> QED BY <2>4, <2>5, <2>6, <2>7
<1>2. ASSUME mode # "pipes" PROVE TypeOK' /\ Counted' /\ Output' /\ Ended'
  <2>1. UNCHANGED <<procVars, ioVars, ptyVars, mode, client>>
    BY <1>2
  <2>2. TypeOK'
    BY <2>1 DEF TypeOK
  <2> QED BY <2>1, <2>2 DEF Counted, Open, InUse, Output, Ended, Over
<1>3. TypeOK' /\ Counted' /\ Output' /\ Ended'
  BY <1>1, <1>2
<1>4. Phases'
  BY DEF Phases
<1>5. Resizing'
  BY DEF Resizing
<1> QED BY <1>3, <1>4, <1>5

\* The handler takes the mutex.
LEMMA CloseConsoleLockIInv ==
    ASSUME IInv, CloseConsoleLock
    PROVE  IInv'
<1> USE DEF CloseConsoleLock, IInv, procVars, ioVars, ptyVars
<1>1. TypeOK'
  BY DEF TypeOK
<1>2. Phases'
  BY DEF Phases
<1>3. Resizing'
  BY DEF Resizing
<1>4. Counted' /\ Output' /\ Ended'
  BY DEF Counted, Open, InUse, Output, Ended, Over
<1> QED BY <1>1, <1>2, <1>3, <1>4

\* The console is closed with the mutex held.
LEMMA CloseConsoleIInv ==
    ASSUME IInv, CloseConsole
    PROVE  IInv'
<1> USE DEF CloseConsole, IInv, procVars, ioVars, ptyVars
<1>1. TypeOK'
  BY DEF TypeOK
<1>2. Ended'
  BY DEF Ended, Over
<1>3. Phases'
  BY DEF Phases
<1>4. Resizing'
  BY DEF Resizing
<1>5. Counted' /\ Output'
  BY DEF Counted, Open, InUse, Output
<1> QED BY <1>1, <1>2, <1>3, <1>4, <1>5

\* The status of a process that has exited is sent.
LEMMA ExitIInv ==
    ASSUME IInv, Exit
    PROVE  IInv'
<1> USE DEF Exit, IInv, procVars, ioVars, ptyVars
<1>1. TypeOK'
  BY DEF TypeOK
<1>2. Phases'
  BY DEF Phases
<1>3. Resizing'
  BY DEF Resizing
<1>4. Counted' /\ Output' /\ Ended'
  BY DEF Counted, Open, InUse, Output, Ended, Over
<1> QED BY <1>1, <1>2, <1>3, <1>4

\* The deferred closes leave the resizing goroutine its handle.
LEMMA ReturnIInv ==
    ASSUME IInv, Return
    PROVE  IInv'
<1> USE DEF Return, IInv, procVars, ioVars, ptyVars
<1>1. TypeOK'
  BY DEF TypeOK
<1>2. Ended'
  BY DEF Ended, Over
<1>3. Phases'
  BY DEF Phases
<1>4. Resizing'
  BY DEF Resizing
<1>5. Counted' /\ Output'
  BY DEF Counted, Open, InUse, Output
<1> QED BY <1>1, <1>2, <1>3, <1>4, <1>5

\* A window size is set through a handle that is open.
LEMMA ResizeIInv ==
    ASSUME IInv, Resize
    PROVE  IInv'
<1> USE DEF Resize, IInv, procVars, ioVars, ptyVars
<1>1. TypeOK'
  BY DEF TypeOK
<1>2. Phases'
  BY DEF Phases
<1>3. Resizing'
  BY DEF Resizing
<1>4. Counted' /\ Output' /\ Ended'
  BY DEF Counted, Open, InUse, Output, Ended, Over
<1> QED BY <1>1, <1>2, <1>3, <1>4

\* The goroutine is done with the handle.
LEMMA ResizedIInv ==
    ASSUME IInv, Resized
    PROVE  IInv'
<1> USE DEF Resized, IInv, procVars, ioVars, ptyVars
<1>1. TypeOK'
  BY DEF TypeOK
<1>2. Phases'
  BY DEF Phases
<1>3. Resizing'
  BY DEF Resizing
<1>4. Counted' /\ Output' /\ Ended'
  BY DEF Counted, Open, InUse, Output, Ended, Over
<1> QED BY <1>1, <1>2, <1>3, <1>4

\* The goroutine ends and closes its own handle.
LEMMA WinChClosedIInv ==
    ASSUME IInv, WinChClosed
    PROVE  IInv'
<1> USE DEF WinChClosed, IInv, procVars, ioVars, ptyVars
<1>1. TypeOK'
  BY DEF TypeOK
<1>2. Ended'
  BY DEF Ended, Over
<1>3. Phases'
  BY DEF Phases
<1>4. Resizing'
  BY DEF Resizing
<1>5. Counted' /\ Output'
  BY DEF Counted, Open, InUse, Output
<1> QED BY <1>1, <1>2, <1>3, <1>4, <1>5

\* Every step preserves the invariant.
LEMMA NextIInv == ASSUME IInv, [Next]_vars PROVE IInv'
<1>1. CASE UNCHANGED vars
  BY <1>1 DEF IInv, vars, procVars, ioVars, ptyVars, TypeOK, Counted, Open, InUse,
              Output, Ended, Over, Phases, Resizing
<1>2. CASE Next
  BY <1>2, StartFailsIInv, StartIInv, WriteIInv, ExitsIInv, LastHolderExitsIInv,
     ClientLeavesIInv, CopyIInv, CopyEndsIInv, OutputDoneIInv, WaitIInv,
     CloseConsoleLockIInv, CloseConsoleIInv, ExitIInv, ReturnIInv, ResizeIInv,
     ResizedIInv, WinChClosedIInv
     DEF Next
<1> QED BY <1>1, <1>2

-----------------------------------------------------------------------------
(* The theorems.                                                           *)

\* The invariant holds in every state of every behaviour.
THEOREM Invariance == Spec => []IInv
BY InitIInv, NextIInv, PTL DEF Spec

\* Every variable keeps its type; the counter of open streams never goes
\* below zero.
THEOREM TypeCorrect == Spec => []TypeOK
<1>1. IInv => TypeOK
  BY DEF IInv
<1> QED BY <1>1, Invariance, PTL

\* A client that is there when it is told the exit status has received all
\* that was written, and the status is that of the process: the handler has
\* waited for every copy, and each ended when nobody could write any more.
THEOREM OutputBeforeStatusInvariance == Spec => []OutputBeforeStatus
<1>1. ASSUME IInv PROVE OutputBeforeStatus
  <2> SUFFICES ASSUME status # -1, client, proc # "unborn"
               PROVE  proc = "exited" /\ status = code /\ got = wrote
    BY DEF OutputBeforeStatus
  <2>1. proc = "exited" /\ status = code /\ openStreams = 0
    BY <1>1 DEF IInv, Phases
  <2>2. \A s \in Streams : copy[s] # "copying"
    BY <1>1, <2>1 DEF IInv, Counted, Open, Streams
  <2>3. ASSUME NEW s \in Streams PROVE got[s] = wrote[s]
    <3>1. got[s] \in Nat /\ buf[s] \in Nat /\ got[s] + buf[s] = wrote[s]
      BY <1>1 DEF IInv, TypeOK, Output
    <3>2. CASE s \in InUse
      BY <1>1, <2>2, <3>1, <3>2 DEF IInv, TypeOK, Counted, Ended
    <3>3. CASE s \notin InUse
      BY <1>1, <3>1, <3>3 DEF IInv, Counted
    <3> QED BY <3>2, <3>3
  <2>4. got = wrote
    BY <1>1, <2>3 DEF IInv, TypeOK
  <2> QED BY <2>1, <2>4
<1> QED BY <1>1, Invariance, PTL

\* No window size is ever set through a handle that has been closed.
THEOREM ResizeOnOpenHandleInvariance == Spec => []ResizeOnOpenHandle
<1>1. IInv => ResizeOnOpenHandle
  BY DEF IInv, TypeOK, Resizing, ResizeOnOpenHandle, Handle
<1> QED BY <1>1, Invariance, PTL

=============================================================================

----------------------------- MODULE SSHSession -----------------------------
(***************************************************************************)
(* One SSH session that runs a process: runWithPipes, and runWithPTY on    *)
(* Unix and on Windows. The handler, one goroutine per copied stream, the  *)
(* goroutine that passes window sizes on, the process, the processes it    *)
(* leaves behind and the client all run concurrently.                      *)
(*                                                                         *)
(* Output is counted, not kept. The end of stdin is not modelled: nothing  *)
(* waits for the goroutine that copies it.                                 *)
(***************************************************************************)
EXTENDS Integers, FiniteSets

CONSTANTS
    Cap,     \* what a pipe or terminal holds before a writer blocks
    MaxOut   \* bound: output written to each stream

ASSUME SessionAssumption == Cap \in Nat \ {0} /\ MaxOut \in Nat

Streams == {"out", "err"}

VARIABLES
    mode,        \* "pipes", "pty" (Unix) or "conpty" (Windows)
    pc,          \* the handler
    proc,        \* the process: "unborn", "running" or "exited"
    code,        \* its exit code, once it has exited
    held,        \* whether a process it started still has its output open
    client,      \* whether the client is still connected
    wrote,       \* output written to each stream
    buf,         \* of which not yet read from the pipe or terminal
    got,         \* of which the client has received
    copy,        \* the goroutine that copies each stream
    openStreams, \* streams still being copied (the counter of runWithPipes)
    status,      \* the exit status sent to the client, -1 before that
    open,        \* the handles that are open: "ptmx", "winch", "console"
    mu,          \* conPTY.mu: "free", "resize" or "close"
    resizer      \* the window size goroutine: "off", "idle" or "busy"

procVars == <<proc, code, held, wrote>>
ioVars == <<buf, got, copy, openStreams>>
ptyVars == <<open, mu, resizer>>
vars == <<mode, pc, client, status, procVars, ioVars, ptyVars>>

\* A terminal is one stream.
InUse == IF mode = "pipes" THEN Streams ELSE {"out"}

Init ==
    /\ mode \in {"pipes", "pty", "conpty"}
    /\ pc = "start"
    /\ proc = "unborn"
    /\ code = 0
    /\ held = FALSE
    /\ client = TRUE
    /\ wrote = [s \in Streams |-> 0]
    /\ buf = [s \in Streams |-> 0]
    /\ got = [s \in Streams |-> 0]
    /\ copy = [s \in Streams |-> "off"]
    /\ openStreams = 0
    /\ status = -1
    /\ open = {}
    /\ mu = "free"
    /\ resizer = "off"

-----------------------------------------------------------------------------
(* Starting. A failure to make the pipes or terminal, or to start the      *)
(* command, ends the session with status 1.                                *)

StartFails ==
    /\ pc = "start"
    /\ status' = 1
    /\ pc' = "return"
    /\ UNCHANGED <<mode, client, procVars, ioVars, ptyVars>>

\* Windows waits for the process first, the others for its output.
Start ==
    /\ pc = "start"
    /\ proc' = "running"
    /\ copy' = [s \in Streams |-> IF s \in InUse THEN "copying" ELSE "off"]
    /\ openStreams' = Cardinality(InUse)
    /\ open' = CASE mode = "pipes" -> {}
                 [] mode = "pty" -> {"ptmx", "winch"}
                 [] mode = "conpty" -> {"console"}
    /\ resizer' = IF mode = "pipes" THEN "off" ELSE "idle"
    /\ pc' = IF mode = "conpty" THEN "wait" ELSE "drain"
    /\ UNCHANGED <<mode, client, status, code, held, wrote, buf, got, mu>>

-----------------------------------------------------------------------------
(* The process and what it leaves behind (external).                       *)

\* Who can still write: pipes are broken once Wait has closed them, a
\* terminal is gone with the process that leads its session, and a console
\* with the handle to it.
CanWrite ==
    CASE mode = "pipes" -> pc \in {"drain", "wait"} /\ (proc = "running" \/ held)
      [] mode = "pty" -> proc = "running"
      [] mode = "conpty" -> "console" \in open /\ (proc = "running" \/ held)

Write(s) ==
    /\ s \in InUse
    /\ CanWrite
    /\ wrote[s] < MaxOut
    /\ buf[s] < Cap
    /\ wrote' = [wrote EXCEPT ![s] = @ + 1]
    /\ buf' = [buf EXCEPT ![s] = @ + 1]
    /\ UNCHANGED <<mode, pc, client, status, proc, code, held, got, copy, openStreams, ptyVars>>

\* The process exits, maybe leaving a process of its own behind.
Exits ==
    /\ proc = "running"
    /\ proc' = "exited"
    /\ code' \in 0..1
    /\ held' \in BOOLEAN
    /\ UNCHANGED <<mode, pc, client, status, wrote, ioVars, ptyVars>>

LastHolderExits ==
    /\ held
    /\ held' = FALSE
    /\ UNCHANGED <<mode, pc, client, status, proc, code, wrote, ioVars, ptyVars>>

ClientLeaves ==
    /\ client
    /\ client' = FALSE
    /\ UNCHANGED <<mode, pc, status, procVars, ioVars, ptyVars>>

-----------------------------------------------------------------------------
(* The copies of the output to the session.                                *)

\* One read and the write of it. A client that is gone fails the write,
\* which ends the copy with what it read; runWithPipes counts it out.
Copy(s) ==
    /\ copy[s] = "copying"
    /\ buf[s] > 0
    /\ buf' = [buf EXCEPT ![s] = @ - 1]
    /\ \/ /\ client
          /\ got' = [got EXCEPT ![s] = @ + 1]
          /\ UNCHANGED <<copy, openStreams>>
       \/ /\ ~client
          /\ copy' = [copy EXCEPT ![s] = "done"]
          /\ openStreams' = openStreams - 1
          /\ UNCHANGED got
    /\ UNCHANGED <<mode, pc, client, status, procVars, ptyVars>>

\* The stream reads EOF once nobody can write to it and it is empty.
Drained(s) ==
    /\ buf[s] = 0
    /\ ~CanWrite
    /\ mode = "conpty" => "console" \notin open

CopyEnds(s) ==
    /\ copy[s] = "copying"
    /\ Drained(s)
    /\ copy' = [copy EXCEPT ![s] = "done"]
    /\ openStreams' = openStreams - 1
    /\ UNCHANGED <<mode, pc, client, status, procVars, buf, got, ptyVars>>

-----------------------------------------------------------------------------
(* The handler.                                                            *)

\* Bug: the handler goes on to Wait without waiting for the copies.
OutputDoneNot ==
    /\ pc = "drain"
    /\ pc' = IF mode = "conpty" THEN "exit" ELSE "wait"
    /\ UNCHANGED <<mode, client, status, procVars, ioVars, ptyVars>>

\* outputDone, outDone, and the copy that the handler makes on Unix.
OutputDone ==
    /\ pc = "drain"
    /\ openStreams = 0
    /\ pc' = IF mode = "conpty" THEN "exit" ELSE "wait"
    /\ UNCHANGED <<mode, client, status, procVars, ioVars, ptyVars>>

\* Bug: on Windows the output is waited for before the console is closed.
WaitDrainFirst ==
    /\ pc = "wait"
    /\ proc = "exited"
    /\ pc' = IF mode = "conpty" THEN "drain" ELSE "exit"
    /\ UNCHANGED <<mode, client, status, procVars, ioVars, ptyVars>>

\* cmd.Wait closes the pipes it made, with what is left in them: copies
\* still at work read no more. WaitExitCode closes nothing.
Wait ==
    /\ pc = "wait"
    /\ proc = "exited"
    /\ IF mode = "pipes"
       THEN /\ buf' = [s \in Streams |-> 0]
            /\ copy' = [s \in Streams |-> "done"]
       ELSE UNCHANGED <<buf, copy>>
    /\ pc' = IF mode = "conpty" THEN "close" ELSE "exit"
    /\ UNCHANGED <<mode, client, status, procVars, got, openStreams, ptyVars>>

\* CloseConsole: ClosePseudoConsole, called with the mutex held, returns
\* once the pending output has been read.
CloseConsoleLock ==
    /\ pc = "close"
    /\ mu = "free"
    /\ mu' = "close"
    /\ pc' = "closing"
    /\ UNCHANGED <<mode, client, status, procVars, ioVars, open, resizer>>

CloseConsole ==
    /\ pc = "closing"
    /\ buf["out"] = 0
    /\ open' = open \ {"console"}
    /\ mu' = "free"
    /\ pc' = "drain"
    /\ UNCHANGED <<mode, client, status, procVars, ioVars, resizer>>

\* sess.Exit(exitCode(err)), or 0.
Exit ==
    /\ pc = "exit"
    /\ status' = code
    /\ pc' = "return"
    /\ UNCHANGED <<mode, client, procVars, ioVars, ptyVars>>

\* The deferred closes.
Return ==
    /\ pc = "return"
    /\ open' = open \ {"ptmx"}
    /\ pc' = "done"
    /\ UNCHANGED <<mode, client, status, procVars, ioVars, mu, resizer>>

-----------------------------------------------------------------------------
(* Window sizes. The goroutine outlives the handler: it runs until the     *)
(* session's channel is shut down.                                         *)

Handle == IF mode = "conpty" THEN "console" ELSE "winch"

\* Bug: Resize takes no mutex and does not ask whether it was closed.
ResizeUnlocked ==
    /\ resizer = "idle"
    /\ resizer' = "busy"
    /\ UNCHANGED <<mode, pc, client, status, procVars, ioVars, open, mu>>

\* Resize takes the mutex and does nothing when the console has been
\* closed; on Unix the goroutine has a handle of its own.
Resize ==
    /\ resizer = "idle"
    /\ IF mode = "conpty"
       THEN /\ mu = "free"
            /\ "console" \in open
            /\ mu' = "resize"
       ELSE UNCHANGED mu
    /\ resizer' = "busy"
    /\ UNCHANGED <<mode, pc, client, status, procVars, ioVars, open>>

Resized ==
    /\ resizer = "busy"
    /\ resizer' = "idle"
    /\ mu' = IF mode = "conpty" THEN "free" ELSE mu
    /\ UNCHANGED <<mode, pc, client, status, procVars, ioVars, open>>

WinChClosed ==
    /\ pc = "done"
    /\ resizer = "idle"
    /\ resizer' = "off"
    /\ open' = open \ {"winch"}
    /\ UNCHANGED <<mode, pc, client, status, procVars, ioVars, mu>>

Next ==
    \/ Start \/ StartFails
    \/ \E s \in Streams : Write(s) \/ Copy(s) \/ CopyEnds(s)
    \/ Exits \/ LastHolderExits \/ ClientLeaves
    \/ OutputDone \/ Wait \/ CloseConsoleLock \/ CloseConsole \/ Exit \/ Return
    \/ Resize \/ Resized \/ WinChClosed

\* Every goroutine runs on, and a client that is there reads what it is
\* sent. The mutex is not denied forever to one that waits for it (the
\* starvation mode of sync.Mutex), although window sizes keep coming.
Fairness ==
    /\ \A s \in Streams : WF_vars(Copy(s)) /\ WF_vars(CopyEnds(s))
    /\ WF_vars(Start) /\ WF_vars(OutputDone) /\ WF_vars(Wait)
    /\ SF_vars(CloseConsoleLock)
    /\ WF_vars(CloseConsole) /\ WF_vars(Exit) /\ WF_vars(Return)
    /\ WF_vars(Resized) /\ WF_vars(WinChClosed)

Spec == Init /\ [][Next]_vars /\ Fairness

-----------------------------------------------------------------------------
(* Properties.                                                             *)

\* The values every variable can hold.
TypeOK ==
    /\ mode \in {"pipes", "pty", "conpty"}
    /\ pc \in {"start", "drain", "wait", "close", "closing", "exit", "return", "done"}
    /\ proc \in {"unborn", "running", "exited"}
    /\ code \in 0..1
    /\ held \in BOOLEAN
    /\ client \in BOOLEAN
    /\ wrote \in [Streams -> 0..MaxOut]
    /\ buf \in [Streams -> 0..Cap]
    /\ got \in [Streams -> 0..MaxOut]
    /\ copy \in [Streams -> {"off", "copying", "done"}]
    /\ openStreams \in 0..2
    /\ status \in -1..1
    /\ open \subseteq {"ptmx", "winch", "console"}
    /\ mu \in {"free", "resize", "close"}
    /\ resizer \in {"off", "idle", "busy"}

\* A client that is still there when it is told the exit status has received
\* everything that was written before, on every stream, and the status is
\* that of the process. cmd.Wait throws away what it finds in the pipes, and
\* a process may exit as soon as it has written (runWithPipes, runWithPTY).
OutputBeforeStatus ==
    status # -1 /\ client /\ proc # "unborn" =>
        proc = "exited" /\ status = code /\ got = wrote

\* A window size is never set through a handle that has been closed, which
\* the system may have given to something else since, although the goroutine
\* that sets it outlives the handler (runWithPTY, conPTY.Resize).
ResizeOnOpenHandle == resizer = "busy" => Handle \in open

\* A session comes to its end once its process has exited and no process
\* left behind holds the output: unless the client leaves, it is told the
\* status. On Windows this needs the console to be closed while the output
\* is still being read, and neither to wait for the other.
SessionEnds ==
    (proc = "exited" /\ ~held) ~> (pc = "done" \/ ~client)
=============================================================================

--------------------------- MODULE IdlePacketConn ---------------------------
(***************************************************************************)
(* idlePacketConn: an incoming UDP flow that closes itself after a period  *)
(* without a successful read or write. The timer's goroutine, the users'   *)
(* touch calls and Close compete for mu. Times are counted down, so that   *)
(* the model needs no bound on the clock.                                  *)
(***************************************************************************)
EXTENDS Naturals

CONSTANTS
    Users,      \* goroutines that read, write or close the flow
    Timeout,    \* the flow's idle timeout, in ticks
    MaxChecks   \* bound: checkIdle goroutines started and not yet finished

ASSUME IdleAssumption == Timeout \in Nat \ {0} /\ MaxChecks \in Nat \ {0}

VARIABLES
    deadline,   \* ticks until the deadline, 0 once it has passed
    timer,      \* ticks until the timer fires; Stopped when it is not armed
    checks,     \* checkIdle goroutines waiting for mu
    closed,     \* idlePacketConn.closed
    closing,    \* goroutines about to call the inner Close
    closes,     \* inner Close calls made
    pc,         \* per user: "idle", or "touch" after a successful read or write
    quiet       \* history, per user: ticks since its last successful read or
                \* write, or since the flow began; counted up to Timeout

idleVars == <<deadline, timer, checks, closed, closing, closes, pc, quiet>>

Stopped == Timeout + 1

IdleInit ==
    /\ deadline = Timeout
    /\ timer = Timeout
    /\ checks = 0
    /\ closed = FALSE
    /\ closing = 0
    /\ closes = 0
    /\ pc = [u \in Users |-> "idle"]
    /\ quiet = [u \in Users |-> 0]

\* The runtime starts checkIdle some time after the timer has expired.
TimerFires ==
    /\ timer = 0
    /\ checks < MaxChecks
    /\ timer' = Stopped
    /\ checks' = checks + 1
    /\ UNCHANGED <<deadline, closed, closing, closes, pc, quiet>>

\* checkIdle, under mu; the inner Close comes after the unlock.
CheckIdle ==
    /\ checks > 0
    /\ checks' = checks - 1
    /\ \/ /\ closed
          /\ UNCHANGED <<timer, closed, closing>>
       \/ /\ ~closed
          /\ deadline > 0
          /\ timer' = deadline
          /\ UNCHANGED <<closed, closing>>
       \/ /\ ~closed
          /\ deadline = 0
          /\ closed' = TRUE
          /\ closing' = closing + 1
          /\ UNCHANGED timer
    /\ UNCHANGED <<deadline, closes, pc, quiet>>

InnerClose ==
    /\ closing > 0
    /\ closing' = closing - 1
    /\ closes' = closes + 1
    /\ UNCHANGED <<deadline, timer, checks, closed, pc, quiet>>

\* Read, ReadFrom, Write or WriteTo succeeds on the inner connection.
IOSucceeds(u) ==
    /\ pc[u] = "idle"
    /\ closes = 0
    /\ pc' = [pc EXCEPT ![u] = "touch"]
    /\ quiet' = [quiet EXCEPT ![u] = 0]
    /\ UNCHANGED <<deadline, timer, checks, closed, closing, closes>>

\* Bug: touch stops the timer and does not start it again.
TouchStops(u) ==
    /\ pc[u] = "touch"
    /\ pc' = [pc EXCEPT ![u] = "idle"]
    /\ IF closed THEN UNCHANGED <<deadline, timer>>
                 ELSE deadline' = Timeout /\ timer' = Stopped
    /\ UNCHANGED <<checks, closed, closing, closes, quiet>>

\* Bug: touch puts the timer off and leaves the deadline where it was.
TouchTimerOnly(u) ==
    /\ pc[u] = "touch"
    /\ pc' = [pc EXCEPT ![u] = "idle"]
    /\ timer' = IF closed THEN timer ELSE Timeout
    /\ UNCHANGED <<deadline, checks, closed, closing, closes, quiet>>

\* touch, under mu.
Touch(u) ==
    /\ pc[u] = "touch"
    /\ pc' = [pc EXCEPT ![u] = "idle"]
    /\ IF closed THEN UNCHANGED <<deadline, timer>>
                 ELSE deadline' = Timeout /\ timer' = Timeout
    /\ UNCHANGED <<checks, closed, closing, closes, quiet>>

\* Close; on a closed flow it changes nothing.
Close(u) ==
    /\ pc[u] = "idle"
    /\ ~closed
    /\ closed' = TRUE
    /\ timer' = Stopped
    /\ closing' = closing + 1
    /\ UNCHANGED <<deadline, checks, closes, pc, quiet>>

Tick ==
    /\ deadline' = IF deadline = 0 THEN 0 ELSE deadline - 1
    /\ timer' = IF timer \in {0, Stopped} THEN timer ELSE timer - 1
    /\ quiet' = [u \in Users |-> IF quiet[u] = Timeout THEN Timeout ELSE quiet[u] + 1]
    /\ UNCHANGED <<checks, closed, closing, closes, pc>>

IdleNext ==
    \/ TimerFires \/ CheckIdle \/ InnerClose \/ Tick
    \/ \E u \in Users : IOSucceeds(u) \/ Touch(u) \/ Close(u)

IdleSpec == IdleInit /\ [][IdleNext]_idleVars

-----------------------------------------------------------------------------
(* Properties.                                                             *)

\* The values every variable can hold.
IdleTypeOK ==
    /\ deadline \in 0..Timeout
    /\ timer \in 0..Stopped
    /\ checks \in 0..MaxChecks
    /\ closed \in BOOLEAN
    /\ closing \in Nat
    /\ closes \in Nat
    /\ pc \in [Users -> {"idle", "touch"}]
    /\ quiet \in [Users -> 0..Timeout]

\* "a concurrent touch cannot be followed by a spurious close": the timer
\* closes a flow only if each user's last successful read or write was a
\* whole timeout ago, or its touch has not got mu yet (checkIdle, touch).
NoSpuriousClose ==
    [][checks' < checks /\ ~closed /\ closed' =>
         \A u \in Users : quiet[u] = Timeout \/ pc[u] = "touch"]_idleVars

\* A flow left alone is closed; only activity puts that off.
IdleFlowCloses == deadline = 0 ~> closes = 1 \/ deadline > 0
=============================================================================

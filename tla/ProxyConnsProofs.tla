-------------------------- MODULE ProxyConnsProofs --------------------------
(***************************************************************************)
(* Proofs about ProxyConns, on a server and inside tailcat forward, for    *)
(* all kinds of connections and any amount of data.                        *)
(***************************************************************************)
EXTENDS Forward, TLAPS

\* The chunk that the goroutine copying from x has read and not yet written.
InHand(x) == IF pc[x] = "write" THEN 1 ELSE 0

\* What a remote party has sent is still buffered, in hand, or given to the
\* other; nothing is made up, and nothing is lost unless something failed.
Conserved ==
    \A x \in Sides :
        /\ inbuf[x] + InHand(x) + got[Other(x)] <= sent[x]
        /\ ~failed => inbuf[x] + InHand(x) + got[Other(x)] = sent[x]

\* Sides are closed after both copies; before that only a connection without
\* CloseWrite is, and what an interrupted forward closes under ProxyConns.
Closing ==
    \A x \in Sides :
        /\ drain[x] # "none" => CopiesDone
        /\ closed[x] /\ ~failed => drain[x] = "done" \/ (x = "b" /\ kind.b = "plain")
        /\ drain[x] \in {"check", "wait"} => reg[x]

\* As long as nothing failed, an endpoint has sent its FIN exactly when the
\* copy towards it has ended, and a copy ends when its source has, with
\* nothing left to read.
Orderly ==
    ~failed =>
        \A x \in Sides :
            /\ tcp[x] # "reset"
            /\ tcp[Other(x)] \in FinSent <=> pc[x] = "done"
            /\ pc[x] \in {"shut", "done"} /\ (x = "a" \/ kind.b # "plain")
                 => tcp[x] \in RemoteDone /\ inbuf[x] = 0

\* The inductive invariant from which the theorems follow.
IInv == TypeOK /\ Conserved /\ Closing /\ Orderly /\ FinNotLost /\ NoMissedHangup

-----------------------------------------------------------------------------
(* Facts about the operators.                                              *)

\* The sides and the types of the connections on them.
LEMMA SideFacts ==
    ASSUME kind \in Kinds
    PROVE  /\ "a" \in Sides /\ "b" \in Sides
           /\ Other("a") = "b" /\ Other("b") = "a"
           /\ \A x \in Sides : /\ x \in {"a", "b"}
                               /\ Other(x) \in Sides /\ Other(Other(x)) = x
           /\ kind["b"] # "netstack"
BY ProxyAssumption DEF Sides, Other

\* A FIN from the remote party.
LEMMA AfterRemoteFinFacts ==
    /\ DOMAIN AfterRemoteFin = {"established", "finwait1", "finwait2"}
    /\ AfterRemoteFin["established"] = "closewait"
    /\ AfterRemoteFin["finwait1"] = "closing"
    /\ AfterRemoteFin["finwait2"] = "timewait"
BY DEF AfterRemoteFin

\* An acknowledgment of the endpoint's own FIN.
LEMMA AfterAckFacts ==
    /\ DOMAIN AfterAck = {"finwait1", "closing", "lastack"}
    /\ AfterAck["finwait1"] = "finwait2"
    /\ AfterAck["closing"] = "timewait"
    /\ AfterAck["lastack"] = "closed"
BY DEF AfterAck

-----------------------------------------------------------------------------
(* The initial states, and each action, establish the invariant.           *)

\* Nothing has been sent and nothing closed.
LEMMA InitIInv == Init => IInv
<1> SUFFICES ASSUME Init PROVE IInv
  OBVIOUS
<1> USE DEF Init, Sides
<1>1. TypeOK
  <2>1. 0 \in 0..MaxChunks
    BY ProxyAssumption
  <2>2. /\ inbuf \in [Sides -> 0..MaxChunks]
        /\ sent \in [Sides -> 0..MaxChunks]
        /\ got \in [Sides -> 0..MaxChunks]
    BY <2>1
  <2> QED BY <2>2 DEF TypeOK, States
<1>2. Conserved
  BY DEF Conserved, InHand, Other
<1>3. Closing /\ FinNotLost /\ NoMissedHangup
  BY DEF Closing, FinNotLost, NoMissedHangup
<1>4. Orderly
  BY DEF Orderly, FinSent, Other
<1> QED BY <1>1, <1>2, <1>3, <1>4 DEF IInv

\* A chunk arrives from a party that has not ended.
LEMMA RemoteSendsIInv ==
    ASSUME IInv, NEW x \in Sides, RemoteSends(x)
    PROVE  IInv'
<1> USE SideFacts DEF RemoteSends, IInv, drainState
<1>1. TypeOK'
  BY ProxyAssumption DEF TypeOK, Conserved, InHand
<1>2. Conserved'
  BY DEF TypeOK, Conserved, InHand
<1>3. Closing'
  BY DEF Closing, CopiesDone
<1>4. Orderly'
  BY DEF Orderly, RemoteDone
<1>5. FinNotLost' /\ NoMissedHangup'
  BY DEF FinNotLost, NoMissedHangup
<1> QED BY <1>1, <1>2, <1>3, <1>4, <1>5

\* A remote party ends: nothing follows in its direction.
LEMMA RemoteFinsIInv ==
    ASSUME IInv, NEW x \in Sides, RemoteFins(x)
    PROVE  IInv'
<1> USE SideFacts, AfterRemoteFinFacts DEF RemoteFins, IInv, netState, drainState
<1>1. TypeOK'
  BY DEF TypeOK, States, RemoteDone
<1>2. Orderly'
  BY DEF Orderly, RemoteDone, FinSent
<1>3. FinNotLost'
  BY DEF FinNotLost, FinAcked
<1>4. NoMissedHangup'
  BY DEF NoMissedHangup
<1>5. Conserved' /\ Closing'
  BY DEF Conserved, InHand, Closing, CopiesDone
<1> QED BY <1>1, <1>2, <1>3, <1>4, <1>5

\* A connection breaks, and a registered waiter is told.
LEMMA RemoteResetsIInv ==
    ASSUME IInv, NEW x \in Sides, RemoteResets(x)
    PROVE  IInv'
<1> USE SideFacts DEF RemoteResets, Notify, IInv, netState, drainState
<1>1. TypeOK'
  BY ProxyAssumption DEF TypeOK, States
<1>2. Conserved'
  BY DEF TypeOK, Conserved, InHand
<1>3. Orderly'
  BY DEF Orderly
<1>4. FinNotLost'
  BY DEF FinNotLost
<1>5. NoMissedHangup'
  BY DEF TypeOK, NoMissedHangup, Closing
<1>6. Closing'
  BY DEF Closing, CopiesDone
<1> QED BY <1>1, <1>2, <1>3, <1>4, <1>5, <1>6

\* An acknowledged FIN ends an endpoint only with an event.
LEMMA FinIsAckedIInv ==
    ASSUME IInv, NEW x \in Sides, FinIsAcked(x)
    PROVE  IInv'
<1> USE SideFacts, AfterAckFacts DEF FinIsAcked, Notify, IInv, netState, drainState
<1>1. TypeOK'
  BY DEF TypeOK, States, FinSent
<1>2. Orderly'
  BY DEF Orderly, RemoteDone, FinSent
<1>3. FinNotLost'
  BY DEF FinNotLost, FinAcked
<1>4. NoMissedHangup'
  BY DEF TypeOK, NoMissedHangup, Closing
<1>5. Conserved' /\ Closing'
  BY DEF Conserved, InHand, Closing, CopiesDone
<1> QED BY <1>1, <1>2, <1>3, <1>4, <1>5

\* A command that exits ends its output.
LEMMA CommandExitsIInv ==
    ASSUME IInv, CommandExits
    PROVE  IInv'
<1> USE SideFacts, AfterRemoteFinFacts DEF CommandExits, IInv, netState, drainState
<1>1. TypeOK'
  BY DEF TypeOK, States, RemoteDone
<1>2. Orderly'
  BY DEF Orderly, RemoteDone, FinSent
<1>3. FinNotLost'
  BY DEF TypeOK, FinNotLost
<1>4. NoMissedHangup'
  BY DEF NoMissedHangup
<1>5. Conserved' /\ Closing'
  BY DEF Conserved, InHand, Closing, CopiesDone
<1> QED BY <1>1, <1>2, <1>3, <1>4, <1>5

\* The two copies begin.
LEMMA BeginIInv ==
    ASSUME IInv, Begin
    PROVE  IInv'
<1> USE SideFacts DEF Begin, IInv, netState, drainState
<1>1. TypeOK'
  BY DEF TypeOK
<1>2. Conserved'
  BY DEF Conserved, InHand
<1>3. Closing'
  BY DEF Closing, CopiesDone
<1>4. Orderly'
  BY DEF Orderly
<1>5. FinNotLost' /\ NoMissedHangup'
  BY DEF FinNotLost, NoMissedHangup
<1> QED BY <1>1, <1>2, <1>3, <1>4, <1>5

\* A failed start is recorded as a failure.
LEMMA StartFailsIInv ==
    ASSUME IInv, StartFails
    PROVE  IInv'
<1> USE SideFacts DEF StartFails, IInv, netState, drainState
<1>1. TypeOK'
  BY DEF TypeOK
<1>2. Conserved'
  BY DEF Conserved, InHand
<1>3. Closing'
  BY DEF Closing, CopiesDone
<1>4. Orderly'
  BY DEF Orderly
<1>5. FinNotLost'
  BY DEF FinNotLost
<1>6. NoMissedHangup'
  BY DEF NoMissedHangup
<1> QED BY <1>1, <1>2, <1>3, <1>4, <1>5, <1>6

\* A chunk goes from the buffer into the copy's hand.
LEMMA CopyReadsIInv ==
    ASSUME IInv, NEW x \in Sides, CopyReads(x)
    PROVE  IInv'
<1> USE SideFacts DEF CopyReads, Goto, IInv, netState, drainState
<1>1. TypeOK'
  BY ProxyAssumption DEF TypeOK
<1>2. Conserved'
  BY DEF TypeOK, Conserved, InHand
<1>3. Closing'
  BY DEF Closing, CopiesDone
<1>4. Orderly'
  BY DEF Orderly
<1>5. FinNotLost' /\ NoMissedHangup'
  BY DEF FinNotLost, NoMissedHangup
<1> QED BY <1>1, <1>2, <1>3, <1>4, <1>5

\* A copy ends at EOF with an empty buffer.
LEMMA CopyEndsIInv ==
    ASSUME IInv, NEW x \in Sides, CopyEnds(x)
    PROVE  IInv'
<1> USE SideFacts DEF CopyEnds, Goto, IInv, netState, drainState
<1>1. TypeOK'
  BY DEF TypeOK
<1>2. Conserved'
  BY DEF Conserved, InHand
<1>3. Closing'
  BY DEF Closing, CopiesDone
<1>4. Orderly'
  <2> SUFFICES ASSUME ~failed PROVE Orderly'
    BY DEF Orderly
  <2>1. closed[x] => x = "b" /\ kind.b = "plain"
    BY DEF Closing, CopiesDone
  <2>2. tcp[x] # "reset"
    BY DEF Orderly
  <2> QED BY <2>1, <2>2 DEF Orderly
<1>5. FinNotLost' /\ NoMissedHangup'
  BY DEF FinNotLost, NoMissedHangup
<1> QED BY <1>1, <1>2, <1>3, <1>4, <1>5

\* The chunk in hand is given to the other side or the copy fails.
LEMMA CopyWritesIInv ==
    ASSUME IInv, NEW x \in Sides, CopyWrites(x)
    PROVE  IInv'
<1> USE SideFacts DEF CopyWrites, Goto, IInv, netState, drainState
<1>1. TypeOK'
  <2>1. got[Other(x)] \in Nat /\ inbuf[x] \in Nat /\ sent[x] \in 0..MaxChunks
    BY DEF TypeOK
  <2>2. inbuf[x] + 1 + got[Other(x)] <= sent[x]
    BY DEF Conserved, InHand
  <2>3. got[Other(x)] + 1 \in 0..MaxChunks
    BY <2>1, <2>2, ProxyAssumption
  <2>4. got' \in [Sides -> 0..MaxChunks]
    BY <2>3 DEF TypeOK
  <2>5. failed' \in BOOLEAN /\ pc' \in [Sides -> {"start", "read", "write", "shut", "done"}]
    BY DEF TypeOK
  <2> QED BY <2>4, <2>5 DEF TypeOK
<1>2. Conserved'
  BY DEF TypeOK, Conserved, InHand
<1>3. Closing'
  BY DEF Closing, CopiesDone
<1>4. Orderly'
  BY DEF TypeOK, Orderly
<1>5. FinNotLost'
  BY DEF FinNotLost
<1>6. NoMissedHangup'
  BY DEF NoMissedHangup
<1> QED BY <1>1, <1>2, <1>3, <1>4, <1>5, <1>6

\* The end of a copy becomes a FIN on the other side.
LEMMA ShutIInv ==
    ASSUME IInv, NEW x \in Sides, Shut(x)
    PROVE  IInv'
<1> USE SideFacts DEF Shut, Goto, AfterCloseWrite, IInv, netState, drainState
<1>1. TypeOK'
  BY DEF TypeOK, States, FinSent
<1>2. Conserved'
  BY DEF Conserved, InHand
<1>3. Closing'
  BY DEF TypeOK, Closing, CopiesDone
<1>4. Orderly'
  <2> SUFFICES ASSUME ~failed, NEW z \in Sides
               PROVE  /\ tcp'[z] # "reset"
                      /\ tcp'[Other(z)] \in FinSent <=> pc'[z] = "done"
                      /\ pc'[z] \in {"shut", "done"} /\ (z = "a" \/ kind'.b # "plain")
                           => tcp'[z] \in RemoteDone /\ inbuf'[z] = 0
    BY DEF Orderly
  <2>1. /\ tcp[z] # "reset"
        /\ tcp[Other(z)] \in FinSent <=> pc[z] = "done"
        /\ pc[z] \in {"shut", "done"} /\ (z = "a" \/ kind.b # "plain")
             => tcp[z] \in RemoteDone /\ inbuf[z] = 0
        /\ tcp[Other(z)] # "reset"
        /\ tcp[z] \in States /\ tcp[Other(z)] \in States
    BY DEF Orderly, TypeOK
  <2>2. CASE z = x
    <3>1. tcp'[z] = tcp[z] /\ pc'[z] = "done"
          /\ tcp'[Other(z)] = AfterCloseWrite(tcp[Other(z)])
      BY <2>2 DEF TypeOK
    <3> QED BY <2>1, <2>2, <3>1 DEF FinSent, RemoteDone, States
  <2>3. CASE z # x
    <3>1. z = Other(x) /\ Other(z) = x
      BY <2>3 DEF TypeOK
    <3>2. tcp'[z] = AfterCloseWrite(tcp[z]) /\ pc'[z] = pc[z]
          /\ tcp'[Other(z)] = tcp[Other(z)]
      BY <2>3, <3>1 DEF TypeOK
    <3> QED BY <2>1, <3>2 DEF RemoteDone
  <2> QED BY <2>2, <2>3
<1>5. FinNotLost'
  BY DEF TypeOK, FinNotLost, FinAcked
<1>6. NoMissedHangup'
  BY DEF NoMissedHangup
<1> QED BY <1>1, <1>2, <1>3, <1>4, <1>5, <1>6

\* Closing begins after both copies.
LEMMA BeginCloseIInv ==
    ASSUME IInv, BeginClose
    PROVE  IInv'
<1> USE SideFacts DEF BeginClose, Command, IInv, netState, drainState
<1>1. TypeOK'
  BY ProxyAssumption DEF TypeOK
<1>2. Closing'
  <2>1. CopiesDone'
    BY DEF CopiesDone
  <2>2. drain'["b"] = IF Command THEN "done" ELSE "start"
    BY DEF Command
  <2>3. ASSUME NEW x \in Sides, closed'[x], ~failed
        PROVE  drain'[x] = "done" \/ (x = "b" /\ kind.b = "plain")
    BY <2>2, <2>3 DEF TypeOK, Closing
  <2>4. \A x \in Sides : drain'[x] \notin {"check", "wait"}
    BY DEF Sides
  <2> QED BY <2>1, <2>3, <2>4 DEF Closing
<1>3. FinNotLost'
  BY DEF TypeOK, FinNotLost
<1>4. NoMissedHangup'
  <2>1. \A x \in Sides : drain'[x] # "wait"
    BY DEF Sides
  <2> QED BY <2>1 DEF NoMissedHangup
<1>5. Conserved' /\ Orderly'
  BY DEF Conserved, InHand, Orderly
<1> QED BY <1>1, <1>2, <1>3, <1>4, <1>5

\* A connection that is not netstack's is closed.
LEMMA CloseAtOnceIInv ==
    ASSUME IInv, NEW x \in Sides, CloseAtOnce(x)
    PROVE  IInv'
<1> USE SideFacts DEF CloseAtOnce, CloseSide, IInv, netState, drainState
<1>1. TypeOK'
  BY DEF TypeOK
<1>2. Closing'
  BY DEF TypeOK, Closing, CopiesDone
<1>3. FinNotLost'
  BY DEF FinNotLost
<1>4. NoMissedHangup'
  BY DEF NoMissedHangup
<1>5. Conserved' /\ Orderly'
  BY DEF Conserved, InHand, Orderly
<1> QED BY <1>1, <1>2, <1>3, <1>4, <1>5

\* The waiter entry is there before the state is looked at.
LEMMA RegisterIInv ==
    ASSUME IInv, NEW x \in Sides, Register(x)
    PROVE  IInv'
<1> USE SideFacts DEF Register, IInv, netState, drainState
<1>1. TypeOK'
  BY DEF TypeOK
<1>2. Closing'
  BY DEF TypeOK, Closing, CopiesDone
<1>3. NoMissedHangup'
  BY DEF NoMissedHangup
<1>4. Conserved' /\ Orderly' /\ FinNotLost'
  BY DEF Conserved, InHand, Orderly, FinNotLost
<1> QED BY <1>1, <1>2, <1>3, <1>4

\* An endpoint that is not draining after both ends has no FIN to lose.
LEMMA CheckStateIInv ==
    ASSUME IInv, NEW x \in Sides, CheckState(x)
    PROVE  IInv'
<1> USE SideFacts DEF CheckState, CloseSide, Draining, IInv, netState, drainState
<1>1. TypeOK'
  <2>1. closed' \in [Sides -> BOOLEAN]
    BY DEF TypeOK
  <2>2. drain' \in [Sides -> {"none", "start", "check", "wait", "done"}]
    BY DEF TypeOK
  <2> QED BY <2>1, <2>2 DEF TypeOK
<1>2. Closing'
  BY DEF TypeOK, Closing, CopiesDone
<1>3. FinNotLost'
  BY DEF TypeOK, FinNotLost, Orderly, Closing, CopiesDone, FinSent, RemoteDone, FinAcked
<1>4. NoMissedHangup'
  BY DEF TypeOK, NoMissedHangup
<1>5. Conserved' /\ Orderly'
  BY DEF Conserved, InHand, Orderly
<1> QED BY <1>1, <1>2, <1>3, <1>4, <1>5

\* An event that is consumed leads to another look at the state.
LEMMA WakeUpIInv ==
    ASSUME IInv, NEW x \in Sides, WakeUp(x)
    PROVE  IInv'
<1> USE SideFacts DEF WakeUp, IInv, netState, drainState
<1>1. TypeOK'
  BY DEF TypeOK
<1>2. Closing'
  BY DEF Closing, CopiesDone
<1>3. NoMissedHangup'
  BY DEF TypeOK, NoMissedHangup
<1>4. Conserved' /\ Orderly' /\ FinNotLost'
  BY DEF Conserved, InHand, Orderly, FinNotLost
<1> QED BY <1>1, <1>2, <1>3, <1>4

\* Giving up is recorded.
LEMMA ExpireIInv ==
    ASSUME IInv, NEW x \in Sides, Expire(x)
    PROVE  IInv'
<1> USE SideFacts DEF Expire, CloseSide, IInv, netState, drainState
<1>1. TypeOK'
  BY DEF TypeOK
<1>2. Closing'
  BY DEF TypeOK, Closing, CopiesDone
<1>3. FinNotLost'
  BY DEF TypeOK, FinNotLost
<1>4. NoMissedHangup'
  BY DEF NoMissedHangup
<1>5. Conserved' /\ Orderly'
  BY DEF Conserved, InHand, Orderly
<1> QED BY <1>1, <1>2, <1>3, <1>4, <1>5

\* Every step preserves the invariant.
LEMMA NextIInv == ASSUME IInv, [Next]_vars PROVE IInv'
<1>1. CASE UNCHANGED vars
  BY <1>1 DEF IInv, vars, netState, drainState, TypeOK, Conserved, InHand, Closing,
              CopiesDone, Orderly, FinNotLost, NoMissedHangup
<1>2. CASE Next
  BY <1>1, <1>2, RemoteSendsIInv, RemoteFinsIInv, RemoteResetsIInv, FinIsAckedIInv,
     CommandExitsIInv, BeginIInv, StartFailsIInv, CopyReadsIInv, CopyEndsIInv,
     CopyWritesIInv, ShutIInv, BeginCloseIInv, CloseAtOnceIInv, RegisterIInv,
     CheckStateIInv, WakeUpIInv, ExpireIInv
     DEF Next, ProxyStep
<1> QED BY <1>1, <1>2

-----------------------------------------------------------------------------
(* forward around ProxyConns.                                              *)

\* Closing the local side before its copies have ended counts as a failure;
\* it is the one step of forward that touches what ProxyConns has.
LEMMA CloseActiveIInv ==
    ASSUME IInv, CloseActive
    PROVE  IInv'
<1> USE SideFacts DEF CloseActive, IInv, netState, drainState
<1>1. TypeOK'
  BY DEF TypeOK
<1>2. Conserved'
  BY DEF Conserved, InHand
<1>3. Closing'
  BY DEF Closing, CopiesDone
<1>4. Orderly'
  BY DEF Orderly
<1>5. FinNotLost' /\ NoMissedHangup'
  BY DEF FinNotLost, NoMissedHangup
<1> QED BY <1>1, <1>2, <1>3, <1>4, <1>5

\* What forward does around ProxyConns keeps the invariant of ProxyConns and
\* the type of its own variables.
LEMMA ForwardNextIInv ==
    IInv /\ ForwardTypeOK /\ [ForwardNext]_allVars => IInv' /\ ForwardTypeOK'
<1> SUFFICES ASSUME IInv, ForwardTypeOK, [ForwardNext]_allVars
             PROVE  IInv' /\ ForwardTypeOK'
  OBVIOUS
<1>1. [Next]_vars \/ CloseActive
  <2>1. Proxying => Next
    BY DEF Proxying, Next
  <2>2. DialSucceeds \/ DialFails => Next
    BY DEF DialSucceeds, DialFails, Next
  <2>3. Accept \/ Track \/ ListenerEnds \/ ProxyReturns \/ Interrupt
        \/ ListenersDone \/ ConnsDone => UNCHANGED vars
    BY DEF Accept, Track, ListenerEnds, ProxyReturns, Interrupt, ListenersDone,
       ConnsDone
  <2> QED BY <2>1, <2>2, <2>3 DEF ForwardNext, Cleanup, allVars
<1>2. IInv'
  BY <1>1, NextIInv, CloseActiveIInv
<1>3. /\ main' \in {"none", "serving", "waitListeners", "close", "waitConns", "exited"}
      /\ ln' \in {"accept", "accepted", "gone"}
      /\ conn' \in {"none", "dialling", "proxying", "done"}
  BY DEF ForwardTypeOK, ForwardNext, allVars, forwardVars, Accept, Track,
     ListenerEnds, DialSucceeds, DialFails, Proxying, ProxyReturns, Interrupt,
     Cleanup, ListenersDone, CloseActive, ConnsDone
<1> QED BY <1>2, <1>3 DEF ForwardTypeOK, IInv

-----------------------------------------------------------------------------
(* The theorems.                                                           *)

\* The invariant holds in every state of every behaviour, on a server and in
\* a forward that may be interrupted at any time.
THEOREM Invariance == ForwardSpec => [](IInv /\ ForwardTypeOK)
<1>1. ForwardInit => IInv /\ ForwardTypeOK
  BY InitIInv DEF ForwardInit, ForwardTypeOK, IInv
<1>2. ForwardSpec => ForwardInit /\ [][ForwardNext]_allVars
  BY PTL DEF ForwardSpec
<1> QED BY <1>1, <1>2, ForwardNextIInv, PTL

\* Every variable keeps its type: in particular no more is given to a remote
\* party than the other one has sent.
THEOREM TypeCorrect == ForwardSpec => []ForwardTypeOK
BY Invariance, PTL

\* Unless something failed, all that one remote party sent is in a buffer, in
\* the hand of the copying goroutine, or with the other party.
THEOREM NothingLostOnTheWay == ForwardSpec => []Conserved
<1>1. IInv => Conserved
  BY DEF IInv
<1> QED BY <1>1, Invariance, PTL

\* A remote party is told of the end only after the other one has ended and
\* everything that one sent has been passed on.
THEOREM NoTruncationInvariance == ForwardSpec => []NoTruncation
<1>1. ASSUME IInv PROVE NoTruncation
  <2> SUFFICES ASSUME ~failed, kind.b # "plain", NEW x \in Sides,
                      tcp[Other(x)] \in FinSent
               PROVE  tcp[x] \in RemoteDone /\ got[Other(x)] = sent[x]
    BY DEF NoTruncation
  <2>1. pc[x] = "done" /\ tcp[x] \in RemoteDone /\ inbuf[x] = 0
    BY <1>1 DEF IInv, Orderly
  <2>2. got[Other(x)] \in Nat /\ sent[x] \in Nat
    BY <1>1, SideFacts DEF IInv, TypeOK
  <2> QED BY <1>1, <2>1, <2>2 DEF IInv, Conserved, InHand
<1> QED BY <1>1, Invariance, PTL

\* A netstack connection closed after an orderly end, without giving up, has
\* had its FIN acknowledged.
THEOREM FinNotLostInvariance == ForwardSpec => []FinNotLost
<1>1. IInv => FinNotLost
  BY DEF IInv
<1> QED BY <1>1, Invariance, PTL

\* closeProxyConn never waits for an endpoint that has ended without its event
\* being there.
THEOREM NoMissedHangupInvariance == ForwardSpec => []NoMissedHangup
<1>1. IInv => NoMissedHangup
  BY DEF IInv
<1> QED BY <1>1, Invariance, PTL

=============================================================================

------------------------- MODULE H3AdmissionProofs -------------------------
(***************************************************************************)
(* Proofs about H3Admission, for every set of peers and workers, every     *)
(* capacity, grace period and clock resolution.                            *)
(***************************************************************************)
EXTENDS H3Admission, FiniteSetTheorems, TLAPS

\* Control points at which a worker holds admissionMu, and mu.
InAdmission == {"check", "scan", "cas", "forget", "reset", "admit"}
InPolicy    == {"scan", "cas", "forget"}

\* Each mutex is held by exactly the worker whose control point says so.
Locking ==
    \A w \in Workers :
        /\ pc[w] \in InAdmission <=> admissionMu = w
        /\ pc[w] \in InPolicy <=> mu = w

\* A worker that is not idle has a packet.
Requests ==
    \A w \in Workers : pc[w] # "idle" => /\ req[w].peer \in Peers
                                         /\ req[w].disco \in Discos

\* The client table and the lease map agree, and no two clients share a
\* lease.
Leases ==
    /\ \A p \in Peers : clients[p].id = clientLeases[p]
    /\ \A p \in Peers : clients[p].id = NoLease => clients[p] = NoNode
    /\ \A p, q \in Peers : clientLeases[p] = clientLeases[q]
                             => p = q \/ clientLeases[p] = NoLease

\* What a worker that retires a client knows about its candidate.
Scans ==
    \A w \in Workers :
        /\ pc[w] = "scan" => /\ scan[w].todo \subseteq Admitted
                             /\ scan[w].cand \in Admitted \union {NoPeer}
        /\ pc[w] = "cas" => /\ scan[w].cand \in Admitted
                            /\ Reclaimable(scan[w].seen, scan[w].now)
        /\ pc[w] = "forget" => /\ scan[w].cand \in Admitted
                               /\ activity[clientLeases[scan[w].cand]] = Retired
        /\ pc[w] \in {"reset", "admit"} => scan[w].cand \in Peers \ Admitted
        /\ pc[w] \in InPolicy \union {"reset", "admit"}
              => req[w].peer \notin Admitted

\* What a session callback in progress knows.
Callbacks ==
    \A p \in Peers :
        /\ cb[p].pc # "idle" => cb[p].next.st \in SessionStates
        /\ cb[p].pc \in {"load", "cas"} => cb[p].lease \in LeaseID
        /\ cb[p].pc = "cas" => cb[p].seen # Retired

\* The inductive invariant from which the theorems follow.
IInv == TypeOK /\ Locking /\ Requests /\ Leases /\ Scans /\ Callbacks

-----------------------------------------------------------------------------
(* Facts about the operators.                                              *)

\* A lease word drops less than a second of the time it records.
LEMMA UnixType ==
    ASSUME NEW t \in Nat
    PROVE  Unix(t) \in Int /\ t - Unix(t) \in 0..(TicksPerSecond - 1)
BY ConstantsAssumption DEF Unix

\* The initial locals, and those of a callback the engine starts.
LEMMA LocalsType ==
    /\ NoScan \in ScanLocals
    /\ NoCallback \in CallbackLocals
    /\ NoReq \in [peer : Peers \union {NoPeer}, disco : Discos \union {NoPeer}]
    /\ \A st \in SessionStates : CallbackFor(st) \in CallbackLocals
BY DEF NoScan, NoCallback, NoReq, CallbackFor, ScanLocals, CallbackLocals, Word,
       Retired

\* A new ID is larger than all before it, and extends the leases by itself.
LEMMA NewID ==
    ASSUME nextClientID \in Nat
    PROVE  /\ NewClientID \in Nat
           /\ NewClientID > nextClientID
           /\ NewClientID > 1
           /\ 2..NewClientID = LeaseID \union {NewClientID}
           /\ NewClientID \notin LeaseID
BY DEF NewClientID, LeaseID

\* Admitted peers are the ones with a lease.
LEMMA AdmittedLease ==
    ASSUME IInv, NEW p \in Peers
    PROVE  /\ p \in Admitted <=> clientLeases[p] # NoLease
           /\ p \in Admitted <=> clientLeases[p] \in LeaseID
BY DEF IInv, TypeOK, Leases, Admitted, NoNode, NoLease, LeaseID

-----------------------------------------------------------------------------
(* The invariant holds initially and is kept by every action.              *)

\* A freshly built backend satisfies the invariant.
LEMMA InitIInv == Init => IInv
<1> SUFFICES ASSUME Init PROVE IInv
  OBVIOUS
<1> USE DEF Init, NoNode, NoLease
<1>1. TypeOK
  <2>1. LeaseID = {}
    BY DEF LeaseID
  <2> QED BY <2>1, LocalsType, ConstantsAssumption DEF TypeOK, WorkerPC, SessionStates
<1>2. Locking
  BY ConstantsAssumption DEF Locking, InAdmission, InPolicy
<1>3. Requests
  BY DEF Requests
<1>4. Leases
  BY DEF Leases
<1>5. Scans
  BY DEF Scans, InPolicy
<1>6. Callbacks
  BY DEF Callbacks, NoCallback
<1> QED BY <1>1, <1>2, <1>3, <1>4, <1>5, <1>6 DEF IInv

\* The relay callback takes a slot and stores the packet in it.
LEMMA RecvMeowIInv ==
    ASSUME IInv, NEW w \in Workers, NEW p \in Peers, NEW d \in Discos,
           RecvMeow(w, p, d)
    PROVE  IInv'
<1> USE DEF RecvMeow, Goto, policyState, leaseState, IInv
<1>1. TypeOK'
  BY DEF TypeOK, WorkerPC, LeaseID, CallbackLocals
<1>2. Locking'
  BY DEF Locking, InAdmission, InPolicy, TypeOK
<1>3. Requests'
  BY DEF Requests, TypeOK
<1>4. Leases'
  BY DEF Leases
<1>5. Scans'
  BY DEF Scans, InPolicy, TypeOK, Admitted, Reclaimable
<1>6. Callbacks'
  BY DEF Callbacks, LeaseID
<1> QED BY <1>1, <1>2, <1>3, <1>4, <1>5, <1>6

\* admissionMu is taken only when nobody holds it.
LEMMA LockAdmissionIInv ==
    ASSUME IInv, NEW w \in Workers, LockAdmission(w)
    PROVE  IInv'
<1> USE DEF LockAdmission, Goto, policyState, leaseState, IInv
<1>1. TypeOK'
  BY DEF TypeOK, WorkerPC, LeaseID, CallbackLocals
<1>2. Locking'
  BY ConstantsAssumption DEF Locking, InAdmission, InPolicy, TypeOK
<1>3. Requests'
  BY DEF Requests, TypeOK
<1>4. Leases'
  BY DEF Leases
<1>5. Scans'
  BY DEF Scans, InPolicy, TypeOK, Admitted, Reclaimable
<1>6. Callbacks'
  BY DEF Callbacks, LeaseID
<1> QED BY <1>1, <1>2, <1>3, <1>4, <1>5, <1>6

\* onMeow's return from any point that holds admissionMu.
LEMMA ReturnIInv ==
    ASSUME IInv, NEW w \in Workers, NEW ok \in BOOLEAN,
           admissionMu = w, mu \in {w, Unlocked}, Return(w, ok),
           UNCHANGED <<now, policyState, leaseState, session, cb>>
    PROVE  IInv'
<1> USE DEF Return, Goto, policyState, leaseState, IInv
<1>1. TypeOK'
  <2>1. scan' \in [Workers -> ScanLocals]
    BY LocalsType DEF TypeOK
  <2>2. req' \in [Workers -> [peer : Peers \union {NoPeer},
                              disco : Discos \union {NoPeer}]]
    BY LocalsType DEF TypeOK
  <2>3. pc' \in [Workers -> WorkerPC]
    BY DEF TypeOK, WorkerPC
  <2> QED BY <2>1, <2>2, <2>3 DEF TypeOK, LeaseID, CallbackLocals
<1>2. Locking'
  BY ConstantsAssumption DEF Locking, InAdmission, InPolicy, TypeOK
<1>3. Requests'
  BY DEF Requests, TypeOK, Locking, InAdmission
<1>4. Leases'
  BY DEF Leases
<1>5. Scans'
  <2> SUFFICES ASSUME NEW v \in Workers, pc'[v] \in InPolicy \union {"reset", "admit"}
               PROVE  FALSE
    BY DEF Scans, InPolicy
  <2> QED BY <1>2, ConstantsAssumption DEF Locking, InAdmission, InPolicy
<1>6. Callbacks'
  BY DEF Callbacks, LeaseID
<1> QED BY <1>1, <1>2, <1>3, <1>4, <1>5, <1>6

\* The tail of onMeow, from either of its two entries: the new ID is beyond
\* every lease in use, so no other client or callback is disturbed.
LEMMA AdmitIInv ==
    ASSUME IInv, NEW w \in Workers, Admit(w),
           admissionMu = w, mu = Unlocked, req[w].peer \notin Admitted,
           UNCHANGED <<now, session, cb>>
    PROVE  IInv'
<1> DEFINE p == req[w].peer
<1> p \in Peers /\ req[w].disco \in Discos
  BY DEF IInv, Locking, Requests, InAdmission
<1> USE DEF Admit, Return, Goto, IInv
<1>a. /\ nextClientID' = NewClientID
      /\ LeaseID' = LeaseID \union {NewClientID}
      /\ NewClientID \in Nat \ (LeaseID \union {0, 1})
  BY NewID DEF TypeOK, LeaseID
<1>b. Pack("handshake", now) \in Word /\ Pack("handshake", now) # Retired
  BY UnixType DEF Pack, Word, SessionStates, Retired, TypeOK
<1>1. TypeOK'
  <2>1. scan' \in [Workers -> ScanLocals]
    BY LocalsType DEF TypeOK
  <2>2. pc' \in [Workers -> WorkerPC]
    BY DEF TypeOK, WorkerPC
  <2>3. activity' \in [LeaseID' -> Word]
    BY <1>a, <1>b DEF TypeOK
  <2>4. touched' \in [LeaseID' -> Nat]
    BY <1>a DEF TypeOK
  <2>5. clientLeases' \in [Peers -> LeaseID' \union {NoLease}]
    BY <1>a DEF TypeOK
  <2>6. clients' \in [Peers -> [id : Nat, disco : Discos \union {NoPeer}]]
    BY <1>a DEF TypeOK
  <2>7. cb' \in [Peers -> CallbackLocals']
    BY <1>a DEF TypeOK, CallbackLocals
  <2> QED BY <1>a, <2>1, <2>2, <2>3, <2>4, <2>5, <2>6, <2>7
          DEF TypeOK, BuildNetmap
<1>2. Locking'
  BY ConstantsAssumption DEF Locking, InAdmission, InPolicy, TypeOK
<1>3. Requests'
  BY DEF Requests, TypeOK
<1>4. Leases'
  <2>1. \A q \in Peers : clientLeases[q] # NewClientID
    BY <1>a DEF TypeOK, NoLease
  <2> QED BY <1>a, <2>1 DEF Leases, TypeOK, NoLease
<1>5. Scans'
  <2> SUFFICES ASSUME NEW v \in Workers, pc'[v] \in InPolicy \union {"reset", "admit"}
               PROVE  FALSE
    BY DEF Scans, InPolicy
  <2> QED BY <1>2, ConstantsAssumption DEF Locking, InAdmission, InPolicy
<1>6. Callbacks'
  BY <1>a DEF Callbacks
<1> QED BY <1>1, <1>2, <1>3, <1>4, <1>5, <1>6

\* onMeow up to its first window: refusal, repetition, admission, or scan.
LEMMA CheckMeowIInv ==
    ASSUME IInv, NEW w \in Workers, CheckMeow(w)
    PROVE  IInv'
<1> DEFINE p == req[w].peer
<1> p \in Peers /\ admissionMu = w /\ mu = Unlocked
  BY DEF IInv, Locking, Requests, InAdmission, CheckMeow
<1>1. CASE ~Allowed(p) /\ Return(w, FALSE) /\ UNCHANGED <<policyState, leaseState>>
  BY <1>1, ReturnIInv DEF CheckMeow
<1>2. CASE /\ p \in Admitted
           /\ Return(w, clients[p].disco = req[w].disco)
           /\ UNCHANGED <<policyState, leaseState>>
  BY <1>2, ReturnIInv DEF CheckMeow
<1>3. CASE p \notin Admitted /\ Admit(w)
  BY <1>3, AdmitIInv DEF CheckMeow
<1>4. CASE /\ p \notin Admitted
           /\ mu' = w
           /\ scan' = [scan EXCEPT ![w] = [NoScan EXCEPT !.now = now,
                                                         !.todo = Admitted]]
           /\ Goto(w, "scan")
           /\ UNCHANGED <<policyState, leaseState, admissionMu, req>>
  <2> USE <1>4 DEF CheckMeow, Goto, policyState, leaseState, IInv
  <2>1. TypeOK'
    <3>1. [NoScan EXCEPT !.now = now, !.todo = Admitted] \in ScanLocals
      BY LocalsType DEF ScanLocals, Admitted, TypeOK
    <3>2. scan' \in [Workers -> ScanLocals]
      BY <3>1 DEF TypeOK
    <3> QED BY <3>2 DEF TypeOK, WorkerPC, LeaseID, CallbackLocals
  <2>2. Locking'
    BY ConstantsAssumption DEF Locking, InAdmission, InPolicy, TypeOK
  <2>3. Requests'
    BY DEF Requests, TypeOK
  <2>4. Leases'
    BY DEF Leases
  <2>5. Scans'
    <3>1. scan'[w].todo = Admitted /\ scan'[w].cand = NoPeer
      BY DEF TypeOK, NoScan
    <3>2. \A v \in Workers \ {w} : pc'[v] \notin InPolicy \union {"reset", "admit"}
      BY DEF Locking, InAdmission, InPolicy, TypeOK
    <3> QED BY <3>1, <3>2 DEF Scans, InPolicy, TypeOK, Admitted, Reclaimable
  <2>6. Callbacks'
    BY DEF Callbacks, LeaseID
  <2> QED BY <2>1, <2>2, <2>3, <2>4, <2>5, <2>6
<1> QED BY <1>1, <1>2, <1>3, <1>4 DEF CheckMeow

\* A scan chooses among admitted clients only; mu keeps them admitted.
LEMMA ScanOneIInv ==
    ASSUME IInv, NEW w \in Workers, NEW p \in Peers, ScanOne(w, p)
    PROVE  IInv'
<1> USE DEF ScanOne, policyState, leaseState, IInv
<1>1. TypeOK'
  <2>1. clientLeases[p] # NoLease => activity[clientLeases[p]].at \in Int
    BY DEF TypeOK, Word, LeaseID, NoLease
  <2>2. scan'[w] \in ScanLocals
    BY <2>1 DEF TypeOK, ScanLocals
  <2>3. scan' \in [Workers -> ScanLocals]
    BY <2>2 DEF TypeOK
  <2> QED BY <2>3 DEF TypeOK, LeaseID, CallbackLocals
<1>2. Locking'
  BY ConstantsAssumption DEF Locking, InAdmission, InPolicy, TypeOK
<1>3. Requests'
  BY DEF Requests, TypeOK
<1>4. Leases'
  BY DEF Leases
<1>5. Scans'
  <2>1. /\ scan'[w].todo \subseteq scan[w].todo
        /\ scan'[w].cand \in {p, scan[w].cand}
    BY DEF TypeOK, ScanLocals
  <2> QED BY <2>1 DEF Scans, InPolicy, TypeOK, Admitted, Reclaimable
<1>6. Callbacks'
  BY DEF Callbacks, LeaseID
<1> QED BY <1>1, <1>2, <1>3, <1>4, <1>5, <1>6

\* The claim proceeds only from a word that it has found reclaimable.
LEMMA ClaimLoadIInv ==
    ASSUME IInv, NEW w \in Workers, ClaimLoad(w)
    PROVE  IInv'
<1> DEFINE s == scan[w]
           l == clientLeases[s.cand]
<1>1. CASE Return(w, FALSE)
  <2>1. admissionMu = w /\ mu = w
    BY DEF IInv, Locking, InAdmission, InPolicy, ClaimLoad
  <2> QED BY <1>1, <2>1, ReturnIInv DEF ClaimLoad
<1>2. CASE /\ s.cand # NoPeer
           /\ l # NoLease
           /\ Reclaimable(activity[l], s.now)
           /\ scan' = [scan EXCEPT ![w].seen = activity[l]]
           /\ Goto(w, "cas")
           /\ UNCHANGED <<admissionMu, mu, req>>
  <2> USE <1>2 DEF ClaimLoad, Goto, policyState, leaseState, IInv
  <2>1. s.cand \in Admitted /\ l \in LeaseID /\ activity[l] \in Word
    BY AdmittedLease DEF Scans, TypeOK, Admitted
  <2>2. scan' = [scan EXCEPT ![w] = [s EXCEPT !.seen = activity[l]]]
    OBVIOUS
  <2>3. TypeOK'
    <3>1. [s EXCEPT !.seen = activity[l]] \in ScanLocals
      BY <2>1 DEF TypeOK, ScanLocals
    <3>2. scan' \in [Workers -> ScanLocals]
      BY <2>2, <3>1 DEF TypeOK
    <3> QED BY <3>2 DEF TypeOK, WorkerPC, LeaseID, CallbackLocals
  <2>4. Locking'
    BY DEF Locking, InAdmission, InPolicy, TypeOK
  <2>5. Requests'
    BY DEF Requests, TypeOK
  <2>6. Leases'
    BY DEF Leases
  <2>7. Scans'
    <3>1. /\ scan'[w].cand = s.cand
          /\ scan'[w].now = s.now
          /\ scan'[w].seen = activity[l]
      BY <2>2 DEF TypeOK, ScanLocals
    <3> QED BY <2>1, <3>1 DEF Scans, InPolicy, TypeOK, Admitted, Reclaimable
  <2>8. Callbacks'
    BY DEF Callbacks, LeaseID
  <2> QED BY <2>3, <2>4, <2>5, <2>6, <2>7, <2>8
<1> QED BY <1>1, <1>2 DEF ClaimLoad

\* The compare-and-swap leaves either a tombstone or everything as it was.
LEMMA ClaimCASIInv ==
    ASSUME IInv, NEW w \in Workers, ClaimCAS(w)
    PROVE  IInv'
<1> DEFINE l == clientLeases[scan[w].cand]
<1>1. CASE Return(w, FALSE) /\ UNCHANGED activity
  <2>1. admissionMu = w /\ mu = w
    BY DEF IInv, Locking, InAdmission, InPolicy, ClaimCAS
  <2> QED BY <1>1, <2>1, ReturnIInv DEF ClaimCAS, leaseState
<1>2. CASE /\ activity' = [activity EXCEPT ![l] = Retired]
           /\ Goto(w, "forget")
           /\ UNCHANGED <<admissionMu, mu, req, scan>>
  <2> USE <1>2 DEF ClaimCAS, Goto, policyState, IInv
  <2>1. scan[w].cand \in Admitted /\ l \in LeaseID
    BY AdmittedLease DEF Scans, Admitted
  <2>2. TypeOK'
    <3>1. activity' \in [LeaseID -> Word]
      BY <2>1 DEF TypeOK, Word, Retired
    <3> QED BY <3>1 DEF TypeOK, WorkerPC, LeaseID, CallbackLocals
  <2>3. Locking'
    BY DEF Locking, InAdmission, InPolicy, TypeOK
  <2>4. Requests'
    BY DEF Requests, TypeOK
  <2>5. Leases'
    BY DEF Leases
  <2>6. Scans'
    <3>1. activity'[l] = Retired
      BY <2>1 DEF TypeOK
    <3>2. \A v \in Workers \ {w} : pc'[v] \notin InPolicy \union {"reset", "admit"}
      BY DEF Locking, InAdmission, InPolicy, TypeOK
    <3> QED BY <2>1, <3>1, <3>2 DEF Scans, InPolicy, TypeOK, Admitted, Reclaimable
  <2>7. Callbacks'
    BY DEF Callbacks, LeaseID
  <2> QED BY <2>2, <2>3, <2>4, <2>5, <2>6, <2>7
<1> QED BY <1>1, <1>2 DEF ClaimCAS

\* Withdrawing the client clears both maps and mu, and keeps admissionMu.
LEMMA ForgetIInv ==
    ASSUME IInv, NEW w \in Workers, Forget(w)
    PROVE  IInv'
<1> DEFINE p == scan[w].cand
<1> USE DEF Forget, Goto, IInv
<1>a. p \in Admitted /\ p \in Peers
  BY DEF Scans, Admitted
<1>b. Admitted' = Admitted \ {p}
  BY <1>a DEF Admitted, TypeOK
<1>1. TypeOK'
  <2>1. clients' \in [Peers -> [id : Nat, disco : Discos \union {NoPeer}]]
    BY <1>a DEF TypeOK, NoNode
  <2> QED BY <2>1, <1>a DEF TypeOK, WorkerPC, LeaseID, CallbackLocals
<1>2. Locking'
  BY ConstantsAssumption DEF Locking, InAdmission, InPolicy, TypeOK
<1>3. Requests'
  BY DEF Requests, TypeOK
<1>4. Leases'
  BY <1>a DEF Leases, TypeOK, NoNode, NoLease
<1>5. Scans'
  <2>1. \A v \in Workers \ {w} : pc'[v] \notin InPolicy \union {"reset", "admit"}
    BY DEF Locking, InAdmission, InPolicy, TypeOK
  <2> QED BY <1>a, <1>b, <2>1 DEF Scans, InPolicy, TypeOK, Admitted
<1>6. Callbacks'
  BY DEF Callbacks, LeaseID
<1> QED BY <1>1, <1>2, <1>3, <1>4, <1>5, <1>6

\* The engine call changes no policy state; it may start one callback.
LEMMA ResetDevicePeerIInv ==
    ASSUME IInv, NEW w \in Workers, ResetDevicePeer(w)
    PROVE  IInv'
<1> USE DEF ResetDevicePeer, Goto, policyState, leaseState, IInv
<1>1. TypeOK'
  <2>1. CallbackFor("none") \in CallbackLocals /\ "none" \in SessionStates
    BY LocalsType DEF SessionStates
  <2>2. cb' \in [Peers -> CallbackLocals]
    BY <2>1 DEF TypeOK
  <2>3. session' \in [Peers -> SessionStates]
    BY <2>1 DEF TypeOK
  <2> QED BY <2>2, <2>3 DEF TypeOK, WorkerPC, LeaseID, CallbackLocals
<1>2. Locking'
  BY ConstantsAssumption DEF Locking, InAdmission, InPolicy, TypeOK
<1>3. Requests'
  BY DEF Requests, TypeOK
<1>4. Leases'
  BY DEF Leases
<1>5. Scans'
  BY DEF Scans, InPolicy, TypeOK, Admitted, Reclaimable
<1>6. Callbacks'
  <2>1. \A p \in Peers : cb'[p] \in {cb[p], CallbackFor("none")}
    BY DEF TypeOK
  <2> QED BY <2>1 DEF Callbacks, LeaseID, CallbackFor, SessionStates
<1> QED BY <1>1, <1>2, <1>3, <1>4, <1>5, <1>6

\* admissionMu kept the identity out of the table while mu was free.
LEMMA AdmitAfterResetIInv ==
    ASSUME IInv, NEW w \in Workers, AdmitAfterReset(w)
    PROVE  IInv'
<1>1. admissionMu = w /\ mu = Unlocked /\ req[w].peer \notin Admitted
  BY DEF IInv, Locking, Scans, InAdmission, AdmitAfterReset
<1> QED BY <1>1, AdmitIInv DEF AdmitAfterReset

\* Sending the acknowledgment only frees the slot.
LEMMA SendAckIInv ==
    ASSUME IInv, NEW w \in Workers, SendAck(w)
    PROVE  IInv'
<1> USE DEF SendAck, Goto, policyState, leaseState, IInv
<1>1. TypeOK'
  <2>1. req' \in [Workers -> [peer : Peers \union {NoPeer},
                              disco : Discos \union {NoPeer}]]
    BY LocalsType DEF TypeOK
  <2> QED BY <2>1 DEF TypeOK, WorkerPC, LeaseID, CallbackLocals
<1>2. Locking'
  BY ConstantsAssumption DEF Locking, InAdmission, InPolicy, TypeOK
<1>3. Requests'
  BY DEF Requests, TypeOK
<1>4. Leases'
  BY DEF Leases
<1>5. Scans'
  BY DEF Scans, InPolicy, TypeOK, Admitted, Reclaimable
<1>6. Callbacks'
  BY DEF Callbacks, LeaseID
<1> QED BY <1>1, <1>2, <1>3, <1>4, <1>5, <1>6

\* The invariant does not depend on the allow list.
LEMMA AddAllowedClientIInv ==
    ASSUME IInv, NEW p \in Peers, AddAllowedClient(p)
    PROVE  IInv'
<1> USE DEF AddAllowedClient, leaseState, workerState, IInv
<1>1. TypeOK'
  BY DEF TypeOK, WorkerPC, LeaseID, CallbackLocals
<1>2. Locking'
  BY DEF Locking
<1>3. Requests'
  BY DEF Requests
<1>4. Leases'
  BY DEF Leases
<1>5. Scans'
  BY DEF Scans, InPolicy, TypeOK, Admitted, Reclaimable
<1>6. Callbacks'
  BY DEF Callbacks, LeaseID
<1> QED BY <1>1, <1>2, <1>3, <1>4, <1>5, <1>6

\* The engine starts a callback, which knows no lease yet.
LEMMA SessionEventIInv ==
    ASSUME IInv, NEW p \in Peers, NEW st \in SessionStates, SessionEvent(p, st)
    PROVE  IInv'
<1> USE DEF SessionEvent, workerState, policyState, leaseState, IInv
<1>1. TypeOK'
  <2>1. cb' \in [Peers -> CallbackLocals]
    BY LocalsType DEF TypeOK
  <2> QED BY <2>1 DEF TypeOK, LeaseID, CallbackLocals
<1>2. Locking'
  BY DEF Locking
<1>3. Requests'
  BY DEF Requests
<1>4. Leases'
  BY DEF Leases
<1>5. Scans'
  BY DEF Scans, InPolicy, TypeOK, Admitted, Reclaimable
<1>6. Callbacks'
  <2>1. \A q \in Peers : cb'[q] \in {cb[q], CallbackFor(st)}
    BY DEF TypeOK
  <2> QED BY <2>1 DEF Callbacks, LeaseID, CallbackFor
<1> QED BY <1>1, <1>2, <1>3, <1>4, <1>5, <1>6

\* The callback finds a lease that has been given out, or ends.
LEMMA CallbackLoadIInv ==
    ASSUME IInv, NEW p \in Peers, CallbackLoad(p)
    PROVE  IInv'
<1> USE DEF CallbackLoad, policyState, leaseState, workerState, IInv
<1>a. /\ cb'[p] \in CallbackLocals
      /\ \/ cb'[p] = NoCallback
         \/ /\ cb'[p].pc = "load"
            /\ cb'[p].lease \in LeaseID
            /\ cb'[p].next.st \in SessionStates
  <2>1. CASE clientLeases[p] = NoLease
    <3>1. cb' = [cb EXCEPT ![p] = NoCallback]
      BY <2>1
    <3> QED BY <3>1, LocalsType DEF TypeOK
  <2>2. CASE clientLeases[p] # NoLease
    <3>1. /\ Pack(cb[p].next.st, now) \in Word
          /\ Pack(cb[p].next.st, now).st \in SessionStates
      BY UnixType DEF TypeOK, Word, Pack, Callbacks
    <3> QED BY <2>2, <3>1 DEF TypeOK, CallbackLocals
  <2> QED BY <2>1, <2>2
<1>1. TypeOK'
  BY <1>a DEF TypeOK, LeaseID, CallbackLocals
<1>2. Locking'
  BY DEF Locking
<1>3. Requests'
  BY DEF Requests
<1>4. Leases'
  BY DEF Leases
<1>5. Scans'
  BY DEF Scans, Admitted, Reclaimable
<1>6. Callbacks'
  BY <1>a DEF Callbacks, LeaseID, TypeOK, NoCallback
<1> QED BY <1>1, <1>2, <1>3, <1>4, <1>5, <1>6

\* The callback goes on only from a word that is not the tombstone.
LEMMA UpdateLoadIInv ==
    ASSUME IInv, NEW p \in Peers, UpdateLoad(p)
    PROVE  IInv'
<1> USE DEF UpdateLoad, policyState, leaseState, workerState, IInv
<1>a. /\ cb'[p] \in CallbackLocals
      /\ \/ cb'[p] = NoCallback
         \/ /\ cb'[p].pc = "cas"
            /\ cb'[p].lease \in LeaseID
            /\ cb'[p].next.st \in SessionStates
            /\ cb'[p].seen # Retired
  <2>1. CASE activity[cb[p].lease] = Retired
    <3>1. cb' = [cb EXCEPT ![p] = NoCallback]
      BY <2>1
    <3> QED BY <3>1, LocalsType DEF TypeOK
  <2>2. CASE activity[cb[p].lease] # Retired
    <3>1. cb[p].lease \in LeaseID /\ activity[cb[p].lease] \in Word
      BY DEF Callbacks, TypeOK
    <3> QED BY <2>2, <3>1 DEF TypeOK, CallbackLocals, Callbacks
  <2> QED BY <2>1, <2>2
<1>1. TypeOK'
  BY <1>a DEF TypeOK, LeaseID, CallbackLocals
<1>2. Locking'
  BY DEF Locking
<1>3. Requests'
  BY DEF Requests
<1>4. Leases'
  BY DEF Leases
<1>5. Scans'
  BY DEF Scans, Admitted, Reclaimable
<1>6. Callbacks'
  BY <1>a DEF Callbacks, LeaseID, TypeOK, NoCallback
<1> QED BY <1>1, <1>2, <1>3, <1>4, <1>5, <1>6

\* What a callback publishes is never the tombstone.
LEMMA UpdateCASIInv ==
    ASSUME IInv, NEW p \in Peers, UpdateCAS(p)
    PROVE  IInv'
<1> DEFINE l == cb[p].lease
<1> USE DEF UpdateCAS, CompareAndSwap, policyState, workerState, IInv
<1>a. l \in LeaseID /\ cb[p] \in CallbackLocals
  BY DEF Callbacks, TypeOK
<1>b. /\ cb'[p] \in CallbackLocals
      /\ \/ cb'[p] = NoCallback
         \/ /\ cb'[p].pc = "load"
            /\ cb'[p].lease = l
            /\ cb'[p].next = cb[p].next
  <2>1. CASE cb' = [cb EXCEPT ![p] = NoCallback]
    BY <2>1, LocalsType DEF TypeOK
  <2>2. CASE cb' = [cb EXCEPT ![p].pc = "load"]
    <3>1. cb' = [cb EXCEPT ![p] = [cb[p] EXCEPT !.pc = "load"]]
      BY <2>2
    <3> QED BY <3>1, <1>a DEF TypeOK, CallbackLocals
  <2> QED BY <2>1, <2>2
<1>c. /\ activity' \in [LeaseID -> Word]
      /\ \A k \in LeaseID : activity[k] = Retired => activity'[k] = Retired
  BY <1>a DEF TypeOK, CallbackLocals, Callbacks
<1>1. TypeOK'
  <2>1. touched' \in [LeaseID -> Nat]
    BY <1>a DEF TypeOK, CallbackLocals
  <2>2. cb' \in [Peers -> CallbackLocals]
    BY <1>b DEF TypeOK
  <2> QED BY <1>c, <2>1, <2>2 DEF TypeOK, LeaseID, CallbackLocals
<1>2. Locking'
  BY DEF Locking
<1>3. Requests'
  BY DEF Requests
<1>4. Leases'
  BY DEF Leases
<1>5. Scans'
  BY <1>c, AdmittedLease DEF Scans, Admitted, Reclaimable
<1>6. Callbacks'
  <2>1. \A q \in Peers \ {p} : cb'[q] = cb[q]
    BY DEF TypeOK
  <2>2. LeaseID' = LeaseID
    BY DEF LeaseID
  <2> QED BY <1>a, <1>b, <2>1, <2>2 DEF Callbacks, NoCallback
<1> QED BY <1>1, <1>2, <1>3, <1>4, <1>5, <1>6

\* The invariant does not depend on the clock.
LEMMA TickIInv ==
    ASSUME IInv, Tick
    PROVE  IInv'
<1> USE DEF Tick, workerState, policyState, leaseState, IInv
<1>1. TypeOK'
  BY DEF TypeOK, WorkerPC, LeaseID, CallbackLocals
<1>2. Locking'
  BY DEF Locking
<1>3. Requests'
  BY DEF Requests
<1>4. Leases'
  BY DEF Leases
<1>5. Scans'
  BY DEF Scans, InPolicy, TypeOK, Admitted, Reclaimable
<1>6. Callbacks'
  BY DEF Callbacks, LeaseID
<1> QED BY <1>1, <1>2, <1>3, <1>4, <1>5, <1>6

\* The inductive step, action by action.
LEMMA NextIInv == IInv /\ [Next]_vars => IInv'
<1> SUFFICES ASSUME IInv, [Next]_vars PROVE IInv'
  OBVIOUS
<1>1. CASE UNCHANGED vars
  BY <1>1 DEF vars, policyState, leaseState, workerState, IInv, TypeOK, Locking,
              Requests, Leases, Scans, Callbacks, Admitted, LeaseID,
              CallbackLocals, Reclaimable
<1>2. ASSUME NEW w \in Workers, NEW p \in Peers, NEW d \in Discos,
             RecvMeow(w, p, d)
      PROVE  IInv'
  BY <1>2, RecvMeowIInv
<1>3. ASSUME NEW w \in Workers, LockAdmission(w) PROVE IInv'
  BY <1>3, LockAdmissionIInv
<1>4. ASSUME NEW w \in Workers, WorkerStep(w) PROVE IInv'
  BY <1>4, CheckMeowIInv, ScanOneIInv, ClaimLoadIInv, ClaimCASIInv, ForgetIInv,
     ResetDevicePeerIInv, AdmitAfterResetIInv, SendAckIInv DEF WorkerStep
<1>5. ASSUME NEW p \in Peers, AddAllowedClient(p) PROVE IInv'
  BY <1>5, AddAllowedClientIInv
<1>6. ASSUME NEW p \in Peers, NEW st \in SessionStates, SessionEvent(p, st)
      PROVE  IInv'
  BY <1>6, SessionEventIInv
<1>7. ASSUME NEW p \in Peers, CallbackStep(p) PROVE IInv'
  BY <1>7, CallbackLoadIInv, UpdateLoadIInv, UpdateCASIInv DEF CallbackStep
<1>8. CASE Tick
  BY <1>8, TickIInv
<1> QED BY <1>1, <1>2, <1>3, <1>4, <1>5, <1>6, <1>7, <1>8 DEF Next

\* IInv holds in every reachable state of admission: the discipline of the two
\* mutexes, the agreement of the two maps, and what each local variable of a
\* worker or callback still says about shared state.
THEOREM Invariance == Spec => []IInv
BY InitIInv, NextIInv, PTL DEF Spec

\* Every variable keeps its type: in particular the mutexes name workers, and
\* every lease named anywhere has been given out.
THEOREM TypeCorrectness == Spec => []TypeOK
<1>1. IInv => TypeOK
  BY DEF IInv
<1> QED BY <1>1, Invariance, PTL

-----------------------------------------------------------------------------
(* Lease words.                                                            *)

\* The only ways a step changes an existing lease word: the claim of a
\* worker and the update of a callback, each from the word it has seen.
LEMMA LeaseStep ==
    ASSUME IInv, [Next]_vars, NEW l \in LeaseID
    PROVE  \/ activity'[l] = activity[l] /\ touched'[l] = touched[l]
           \/ \E w \in Workers :
                 /\ pc[w] = "cas"
                 /\ l = clientLeases[scan[w].cand]
                 /\ activity[l] = scan[w].seen
                 /\ Reclaimable(activity[l], scan[w].now)
                 /\ activity'[l] = Retired
                 /\ touched'[l] = touched[l]
                 /\ UNCHANGED <<clients, clientLeases>>
           \/ \E p \in Peers :
                 /\ cb[p].pc = "cas"
                 /\ l = cb[p].lease
                 /\ activity[l] = cb[p].seen
                 /\ activity'[l] = cb[p].next
                 /\ touched'[l] = cb[p].t
                 /\ UNCHANGED <<clients, clientLeases>>
<1>a. DOMAIN activity = LeaseID /\ DOMAIN touched = LeaseID
  BY DEF IInv, TypeOK
<1>1. CASE UNCHANGED leaseState
  BY <1>1 DEF leaseState
<1>2. ASSUME NEW w \in Workers, Admit(w)
      PROVE  activity'[l] = activity[l] /\ touched'[l] = touched[l]
  <2>1. NewClientID \notin LeaseID
    BY NewID DEF IInv, TypeOK
  <2> QED BY <1>2, <1>a, <2>1 DEF Admit
<1>3. ASSUME NEW w \in Workers, ClaimCAS(w)
      PROVE  \/ activity'[l] = activity[l] /\ touched'[l] = touched[l]
             \/ /\ pc[w] = "cas"
                /\ l = clientLeases[scan[w].cand]
                /\ activity[l] = scan[w].seen
                /\ Reclaimable(activity[l], scan[w].now)
                /\ activity'[l] = Retired
                /\ touched'[l] = touched[l]
                /\ UNCHANGED <<clients, clientLeases>>
  BY <1>3, <1>a DEF ClaimCAS, CompareAndSwap, IInv, Scans, policyState
<1>4. ASSUME NEW w \in Workers, Forget(w)
      PROVE  activity'[l] = activity[l] /\ touched'[l] = touched[l]
  BY <1>4 DEF Forget
<1>5. ASSUME NEW p \in Peers, UpdateCAS(p)
      PROVE  \/ activity'[l] = activity[l] /\ touched'[l] = touched[l]
             \/ /\ cb[p].pc = "cas"
                /\ l = cb[p].lease
                /\ activity[l] = cb[p].seen
                /\ activity'[l] = cb[p].next
                /\ touched'[l] = cb[p].t
                /\ UNCHANGED <<clients, clientLeases>>
  BY <1>5, <1>a DEF UpdateCAS, CompareAndSwap, policyState
<1>6. ASSUME NEW w \in Workers, WorkerStep(w)
      PROVE  \/ UNCHANGED leaseState \/ Admit(w) \/ ClaimCAS(w) \/ Forget(w)
  BY <1>6 DEF WorkerStep, CheckMeow, ScanOne, ClaimLoad, ResetDevicePeer,
              AdmitAfterReset, SendAck
<1>7. ASSUME NEW w \in Workers,
             \/ \E p \in Peers, d \in Discos : RecvMeow(w, p, d)
             \/ LockAdmission(w)
      PROVE  UNCHANGED leaseState
  BY <1>7 DEF RecvMeow, LockAdmission
<1>8. ASSUME NEW p \in Peers,
             \/ AddAllowedClient(p)
             \/ \E st \in SessionStates : SessionEvent(p, st)
             \/ CallbackLoad(p)
             \/ UpdateLoad(p)
      PROVE  UNCHANGED leaseState
  BY <1>8 DEF AddAllowedClient, SessionEvent, CallbackLoad, UpdateLoad
<1>9. Tick \/ UNCHANGED vars => UNCHANGED leaseState
  BY DEF Tick, vars
<1> QED BY <1>1, <1>2, <1>3, <1>4, <1>5, <1>6, <1>7, <1>8, <1>9
        DEF Next, CallbackStep

\* No step of retireH3ClientLocked or of a session callback turns a word that
\* says established into the tombstone.
THEOREM NoEstablishedRetired == Spec => EstablishedNeverRetired
<1>1. ASSUME IInv, [Next]_vars, NEW l \in LeaseID,
             activity[l].st = "established"
      PROVE  activity'[l] # Retired
  <2>1. activity[l] # Retired
    BY <1>1 DEF Retired
  <2>2. \A w \in Workers : ~Reclaimable(activity[l], scan[w].now)
    BY <1>1 DEF Reclaimable
  <2>3. \A p \in Peers : cb[p].pc = "cas" => cb[p].next # Retired
    BY <1>1 DEF IInv, Callbacks, SessionStates, Retired
  <2> QED BY <1>1, <2>1, <2>2, <2>3, LeaseStep
<1>2. IInv /\ [Next]_vars
        => [\A l \in LeaseID : activity[l].st = "established"
                                 => activity'[l] # Retired]_vars
  BY <1>1
<1> QED BY <1>2, Invariance, PTL DEF Spec, EstablishedNeverRetired

\* No update of h3ClientLease, however late, revives a retired lease.
THEOREM RetiredForGood == Spec => TombstoneIsFinal
<1>1. ASSUME IInv, [Next]_vars, NEW l \in LeaseID, activity[l] = Retired
      PROVE  activity'[l] = Retired
  <2>1. \A p \in Peers : cb[p].pc = "cas" => cb[p].seen # Retired
    BY <1>1 DEF IInv, Callbacks
  <2> QED BY <1>1, <2>1, LeaseStep
<1>2. IInv /\ [Next]_vars
        => [\A l \in LeaseID : activity[l] = Retired
                                 => activity'[l] = Retired]_vars
  BY <1>1
<1> QED BY <1>2, Invariance, PTL DEF Spec, TombstoneIsFinal

-----------------------------------------------------------------------------
(* Capacity.                                                               *)

\* While a retired peer is torn down there is room for the new one.
RoomAfterForget ==
    \A w \in Workers : pc[w] \in {"reset", "admit"}
                         => Cardinality(Admitted) < MaxClients

Capacity == ClientBound /\ RoomAfterForget

\* How the set of admitted peers changes, and when.
LEMMA AdmittedStep ==
    ASSUME IInv, [Next]_vars
    PROVE  \/ Admitted' = Admitted /\ \A w \in Workers :
                 pc'[w] \in {"reset", "admit"} => pc[w] \in {"reset", "admit"}
           \/ \E w \in Workers :
                 /\ pc[w] = "forget" /\ pc'[w] = "reset"
                 /\ scan[w].cand \in Admitted
                 /\ Admitted' = Admitted \ {scan[w].cand}
           \/ \E w \in Workers :
                 /\ \/ pc[w] = "check" /\ HasRoom
                    \/ pc[w] = "admit"
                 /\ admissionMu' = Unlocked
                 /\ req[w].peer \in Peers \ Admitted
                 /\ Admitted' = Admitted \union {req[w].peer}
<1> USE DEF IInv
<1>1. ASSUME NEW w \in Workers, Admit(w), admissionMu = w
      PROVE  /\ req[w].peer \in Peers
             /\ admissionMu' = Unlocked
             /\ Admitted' = Admitted \union {req[w].peer}
  <2>1. req[w].peer \in Peers
    BY <1>1 DEF Locking, InAdmission, Requests
  <2>2. NewClientID # 0
    BY NewID DEF TypeOK
  <2> QED BY <1>1, <2>1, <2>2 DEF Admit, Return, Admitted, TypeOK, NoNode
<1>2. ASSUME NEW w \in Workers, Forget(w)
      PROVE  /\ pc[w] = "forget" /\ pc'[w] = "reset"
             /\ scan[w].cand \in Admitted
             /\ Admitted' = Admitted \ {scan[w].cand}
  BY <1>2 DEF Forget, Goto, Scans, Admitted, TypeOK
<1>3. ASSUME NEW w \in Workers, AdmitAfterReset(w)
      PROVE  /\ pc[w] = "admit" /\ admissionMu = w /\ Admit(w)
             /\ req[w].peer \notin Admitted
  BY <1>3 DEF AdmitAfterReset, Locking, InAdmission, Scans
<1>4. ASSUME NEW w \in Workers, CheckMeow(w)
      PROVE  \/ /\ pc[w] = "check" /\ admissionMu = w /\ Admit(w)
                /\ HasRoom /\ req[w].peer \notin Admitted
             \/ /\ UNCHANGED clients
                /\ \A v \in Workers : pc'[v] \in {"reset", "admit"}
                                        => pc[v] \in {"reset", "admit"}
  BY <1>4 DEF CheckMeow, Return, Goto, Locking, InAdmission, policyState, TypeOK
<1>5. ASSUME NEW w \in Workers,
             \/ \E p \in Peers, d \in Discos : RecvMeow(w, p, d)
             \/ LockAdmission(w)
             \/ \E p \in Peers : ScanOne(w, p)
             \/ ClaimLoad(w)
             \/ ClaimCAS(w)
             \/ ResetDevicePeer(w)
             \/ SendAck(w)
      PROVE  /\ UNCHANGED clients
             /\ \A v \in Workers : pc'[v] \in {"reset", "admit"}
                                     => pc[v] \in {"reset", "admit"}
  BY <1>5 DEF RecvMeow, LockAdmission, ScanOne, ClaimLoad, ClaimCAS,
              ResetDevicePeer, SendAck, Return, Goto, policyState, TypeOK
<1>6. ASSUME NEW p \in Peers,
             \/ AddAllowedClient(p)
             \/ \E st \in SessionStates : SessionEvent(p, st)
             \/ CallbackStep(p)
      PROVE  UNCHANGED <<clients, pc>>
  BY <1>6 DEF AddAllowedClient, SessionEvent, CallbackStep, CallbackLoad,
              UpdateLoad, UpdateCAS, policyState, workerState
<1>7. Tick \/ UNCHANGED vars => UNCHANGED <<clients, pc>>
  BY DEF Tick, vars, policyState, workerState
<1>8. UNCHANGED clients => Admitted' = Admitted
  BY DEF Admitted
<1> QED BY <1>1, <1>2, <1>3, <1>4, <1>5, <1>6, <1>7, <1>8 DEF Next, WorkerStep

\* Admitted peers are finitely many.
LEMMA AdmittedFinite == IsFiniteSet(Admitted) /\ Cardinality(Admitted) \in Nat
BY ConstantsAssumption, FS_Subset, FS_CardinalityType DEF Admitted

\* The bound, strengthened for the stretch in which onMeow has dropped mu.
LEMMA CapacityInvariance == Spec => []Capacity
<1>1. Init => Capacity
  <2> SUFFICES ASSUME Init PROVE Capacity
    OBVIOUS
  <2>1. Admitted = {}
    BY DEF Init, Admitted
  <2>2. Cardinality(Admitted) = 0
    BY <2>1, FS_EmptySet
  <2> QED BY <2>2, ConstantsAssumption
          DEF Capacity, ClientBound, RoomAfterForget, Init
<1>2. IInv /\ IInv' /\ Capacity /\ [Next]_vars => Capacity'
  <2> SUFFICES ASSUME IInv, IInv', Capacity, [Next]_vars PROVE Capacity'
    OBVIOUS
  <2>1. CASE Admitted' = Admitted /\ \A w \in Workers :
                pc'[w] \in {"reset", "admit"} => pc[w] \in {"reset", "admit"}
    BY <2>1 DEF Capacity, ClientBound, RoomAfterForget
  <2>2. ASSUME NEW p \in Admitted, Admitted' = Admitted \ {p}
        PROVE  Capacity'
    <3>1. Cardinality(Admitted') = Cardinality(Admitted) - 1
      BY AdmittedFinite, <2>2, FS_RemoveElement
    <3> QED BY AdmittedFinite, <3>1, ConstantsAssumption
            DEF Capacity, ClientBound, RoomAfterForget
  <2>3. ASSUME NEW w \in Workers, HasRoom \/ pc[w] = "admit",
               admissionMu' = Unlocked, req[w].peer \notin Admitted,
               Admitted' = Admitted \union {req[w].peer}
        PROVE  Capacity'
    <3>1. Cardinality(Admitted') = Cardinality(Admitted) + 1
      BY AdmittedFinite, <2>3, FS_AddElement
    <3>2. Cardinality(Admitted) < MaxClients
      BY <2>3 DEF HasRoom, Capacity, RoomAfterForget
    <3>3. \A v \in Workers : pc'[v] \notin {"reset", "admit"}
      BY <2>3, ConstantsAssumption DEF IInv, Locking, InAdmission
    <3> QED BY AdmittedFinite, <3>1, <3>2, <3>3, ConstantsAssumption
            DEF Capacity, ClientBound, RoomAfterForget
  <2> QED BY <2>1, <2>2, <2>3, AdmittedStep
<1> QED BY <1>1, <1>2, Invariance, PTL DEF Spec

\* At most h3MaxClients identities are authorised, although onMeow drops mu
\* between the capacity check and the insertion.
THEOREM BoundedClients == Spec => []ClientBound
BY CapacityInvariance, PTL DEF Capacity

-----------------------------------------------------------------------------
(* Sessions and authorisation.                                             *)

\* NoOrphanSession is inductive given IInv.
LEMMA OrphanStep ==
    ASSUME IInv, IInv', NoOrphanSession, [Next]_vars
    PROVE  NoOrphanSession'
<1> USE DEF IInv
<1>a. SUFFICES ASSUME NEW q \in Peers, session'[q] # "none", q \notin Admitted'
               PROVE  \E v \in Workers : pc'[v] = "reset" /\ scan'[v].cand = q
  BY DEF NoOrphanSession
<1>1. ASSUME session[q] # "none", UNCHANGED clients,
             \A v \in Workers : pc[v] = "reset"
                                  => pc'[v] = "reset" /\ scan'[v] = scan[v]
      PROVE  \E v \in Workers : pc'[v] = "reset" /\ scan'[v].cand = q
  BY <1>a, <1>1 DEF NoOrphanSession, Admitted
<1>2. ASSUME NEW w \in Workers, Forget(w)
      PROVE  \E v \in Workers : pc'[v] = "reset" /\ scan'[v].cand = q
  <2>1. pc'[w] = "reset" /\ scan' = scan /\ session' = session
    BY <1>2 DEF Forget, Goto, TypeOK
  <2>2. CASE q \in Admitted
    BY <1>a, <1>2, <2>1, <2>2 DEF Forget, Admitted, TypeOK
  <2>3. CASE q \notin Admitted
    <3>1. PICK v \in Workers : pc[v] = "reset" /\ scan[v].cand = q
      BY <1>a, <2>1, <2>3 DEF NoOrphanSession
    <3> QED BY <1>2, <3>1 DEF Forget, Locking, InAdmission
  <2> QED BY <2>2, <2>3
<1>3. ASSUME NEW w \in Workers, ResetDevicePeer(w)
      PROVE  FALSE
  <2>1. q # scan[w].cand /\ session[q] # "none" /\ q \notin Admitted
    BY <1>a, <1>3 DEF ResetDevicePeer, Admitted, TypeOK, policyState
  <2>2. PICK v \in Workers : pc[v] = "reset" /\ scan[v].cand = q
    BY <2>1 DEF NoOrphanSession
  <2> QED BY <1>3, <2>1, <2>2 DEF ResetDevicePeer, Locking, InAdmission
<1>4. ASSUME NEW w \in Workers, Admit(w), session' = session,
             pc[w] \in {"check", "admit"}
      PROVE  FALSE
  <2>1. q \notin Admitted
    BY <1>a, <1>4, NewID DEF Admit, Admitted, TypeOK, NoNode
  <2>2. PICK v \in Workers : pc[v] = "reset"
    BY <1>a, <1>4, <2>1 DEF NoOrphanSession
  <2> QED BY <1>4, <2>2 DEF Locking, InAdmission
<1>5. ASSUME NEW w \in Workers,
             \/ \E p \in Peers, d \in Discos : RecvMeow(w, p, d)
             \/ LockAdmission(w)
             \/ \E p \in Peers : ScanOne(w, p)
             \/ ClaimLoad(w)
             \/ ClaimCAS(w)
             \/ SendAck(w)
             \/ CheckMeow(w) /\ ~Admit(w)
      PROVE  /\ session' = session
             /\ UNCHANGED clients
             /\ \A v \in Workers : pc[v] = "reset"
                                  => pc'[v] = "reset" /\ scan'[v] = scan[v]
  BY <1>5 DEF RecvMeow, LockAdmission, ScanOne, ClaimLoad, ClaimCAS, SendAck,
              CheckMeow, Return, Goto, policyState, TypeOK
<1>6. ASSUME NEW w \in Workers,
             (CheckMeow(w) /\ Admit(w)) \/ AdmitAfterReset(w)
      PROVE  Admit(w) /\ session' = session /\ pc[w] \in {"check", "admit"}
  BY <1>6 DEF CheckMeow, AdmitAfterReset
<1>7. ASSUME NEW p \in Peers, NEW st \in SessionStates, SessionEvent(p, st)
      PROVE  /\ session[q] # "none"
             /\ UNCHANGED <<clients, pc, scan>>
  <2>1. UNCHANGED <<clients, pc, scan>>
    BY <1>7 DEF SessionEvent, policyState, workerState
  <2>2. session[q] # "none"
    BY <1>a, <1>7, <2>1 DEF SessionEvent, Admitted, TypeOK
  <2> QED BY <2>1, <2>2
<1>8. ASSUME NEW p \in Peers, AddAllowedClient(p) \/ CallbackStep(p)
      PROVE  UNCHANGED <<session, clients, pc, scan>>
  BY <1>8 DEF AddAllowedClient, CallbackStep, CallbackLoad, UpdateLoad,
              UpdateCAS, policyState, workerState
<1>9. Tick \/ UNCHANGED vars => UNCHANGED <<session, clients, pc, scan>>
  BY DEF Tick, vars, policyState, workerState
<1> QED BY <1>a, <1>1, <1>2, <1>3, <1>4, <1>5, <1>6, <1>7, <1>8, <1>9
        DEF Next, WorkerStep

\* A session without authorisation exists only until the worker that withdrew
\* it has reset the peer.
THEOREM OrphansAreReset == Spec => []NoOrphanSession
<1>1. Init => NoOrphanSession
  BY DEF Init, NoOrphanSession
<1> QED BY <1>1, OrphanStep, Invariance, PTL DEF Spec

\* onMeow admits an identity only when nothing is left of its earlier session:
\* admissionMu keeps it out until ResetDevicePeer has returned.
THEOREM FreshAdmission == Spec => AdmittedWithoutSession
<1>1. ASSUME IInv, NoOrphanSession, [Next]_vars, NEW p \in Peers,
             p \notin Admitted, p \in Admitted'
      PROVE  session[p] = "none"
  <2> USE DEF IInv
  <2>1. PICK w \in Workers : pc[w] \in {"check", "admit"}
    BY <1>1, AdmittedStep
  <2>2. \A v \in Workers : pc[v] # "reset"
    BY <1>1, <2>1 DEF Locking, InAdmission
  <2> QED BY <1>1, <2>2 DEF NoOrphanSession
<1>2. IInv /\ NoOrphanSession /\ [Next]_vars
        => [\A p \in Peers : p \notin Admitted /\ p \in Admitted'
                               => session[p] = "none"]_vars
  BY <1>1
<1> QED BY <1>2, OrphansAreReset, Invariance, PTL
        DEF Spec, AdmittedWithoutSession

-----------------------------------------------------------------------------
(* Retirement and time.                                                    *)

\* A live lease word records the second of the latest event published on it;
\* so does the word a callback is about to publish; a scan's clock reading is
\* in the past.
Times ==
    /\ \A l \in LeaseID : activity[l] # Retired
                            => activity[l].at = Unix(touched[l])
    /\ \A p \in Peers : cb[p].pc \in {"load", "cas"}
                            => cb[p].next.at = Unix(cb[p].t)
    /\ \A w \in Workers : scan[w].now <= now

\* Times is inductive given IInv.
LEMMA TimesStep ==
    ASSUME IInv, IInv', Times, [Next]_vars
    PROVE  Times'
<1> USE DEF IInv
<1>1. ASSUME NEW l \in LeaseID', activity'[l] # Retired
      PROVE  activity'[l].at = Unix(touched'[l])
  <2>1. CASE l \in LeaseID
    <3>1. \A p \in Peers : cb[p].pc = "cas" => cb[p].next.at = Unix(cb[p].t)
      BY DEF Times
    <3> QED BY <1>1, <2>1, <3>1, LeaseStep DEF Times
  <2>2. CASE l \notin LeaseID
    <3>1. nextClientID' # nextClientID
      BY <1>1, <2>2 DEF LeaseID
    <3>2. PICK w \in Workers : Admit(w)
      BY <3>1 DEF Next, WorkerStep, CallbackStep, RecvMeow, LockAdmission,
                  CheckMeow, ScanOne, ClaimLoad,
                  ClaimCAS, Forget, ResetDevicePeer, AdmitAfterReset, SendAck,
                  AddAllowedClient, SessionEvent, CallbackLoad, UpdateLoad,
                  UpdateCAS, Tick, policyState, vars
    <3>3. l = NewClientID
      BY <1>1, <2>2, <3>2, NewID DEF Admit, LeaseID, TypeOK
    <3> QED BY <3>2, <3>3 DEF Admit, Pack
  <2> QED BY <2>1, <2>2
<1>2. ASSUME NEW p \in Peers, cb'[p].pc \in {"load", "cas"}
      PROVE  cb'[p].next.at = Unix(cb'[p].t)
  <2>1. CASE cb'[p] = cb[p]
    BY <1>2, <2>1 DEF Times
  <2>2. cb'[p] # NoCallback /\ \A st \in SessionStates : cb'[p] # CallbackFor(st)
    <3>1. NoCallback.pc = "idle"
      BY DEF NoCallback
    <3>2. \A st \in SessionStates : CallbackFor(st).pc = "start"
      BY DEF CallbackFor
    <3> QED BY <1>2, <3>1, <3>2
  <2>3. CASE CallbackLoad(p)
    BY <2>2, <2>3 DEF CallbackLoad, Pack, TypeOK, CallbackLocals
  <2>4. CASE UpdateLoad(p)
    BY <2>2, <2>4 DEF UpdateLoad, TypeOK, CallbackLocals, Times
  <2>5. CASE UpdateCAS(p)
    <3>1. CASE cb' = [cb EXCEPT ![p] = NoCallback]
      BY <2>2, <3>1 DEF TypeOK
    <3>2. CASE cb' = [cb EXCEPT ![p].pc = "load"]
      <4>1. cb' = [cb EXCEPT ![p] = [cb[p] EXCEPT !.pc = "load"]]
        BY <3>2
      <4> QED BY <2>5, <4>1 DEF UpdateCAS, TypeOK, CallbackLocals, Times
    <3> QED BY <2>5, <3>1, <3>2 DEF UpdateCAS
  <2>6. ASSUME NEW q \in Peers, q # p, CallbackStep(q)
        PROVE  cb'[p] = cb[p]
    BY <2>6 DEF CallbackStep, CallbackLoad, UpdateLoad, UpdateCAS, TypeOK
  <2>7. ASSUME NEW q \in Peers, NEW st \in SessionStates, SessionEvent(q, st)
        PROVE  cb'[p] \in {cb[p], CallbackFor(st)}
    BY <2>7 DEF SessionEvent, TypeOK
  <2>8. ASSUME NEW w \in Workers, ResetDevicePeer(w)
        PROVE  cb'[p] \in {cb[p], CallbackFor("none")}
    BY <2>8 DEF ResetDevicePeer, TypeOK
  <2>9. ASSUME NEW w \in Workers,
               \/ \E r \in Peers, d \in Discos : RecvMeow(w, r, d)
               \/ LockAdmission(w)
               \/ WorkerStep(w) /\ ~ResetDevicePeer(w)
        PROVE  cb' = cb
    BY <2>9 DEF RecvMeow, LockAdmission, WorkerStep, CheckMeow, ScanOne,
                ClaimLoad, ClaimCAS, Forget, AdmitAfterReset, SendAck
  <2>10. ASSUME \/ \E r \in Peers : AddAllowedClient(r)
                \/ Tick
                \/ UNCHANGED vars
         PROVE  cb' = cb
    BY <2>10 DEF AddAllowedClient, Tick, vars
  <2> QED BY <2>1, <2>2, <2>3, <2>4, <2>5, <2>6, <2>7, <2>8, <2>9, <2>10
          DEF Next, CallbackStep, SessionStates
<1>3. ASSUME NEW w \in Workers
      PROVE  scan'[w].now <= now'
  <2>1. now' \in {now, now + 1} /\ now \in Nat
    BY DEF TypeOK, Next, WorkerStep, CallbackStep, RecvMeow, LockAdmission,
           CheckMeow, ScanOne, ClaimLoad, ClaimCAS, Forget, ResetDevicePeer,
           AdmitAfterReset, SendAck, AddAllowedClient, SessionEvent,
           CallbackLoad, UpdateLoad, UpdateCAS, Tick, vars
  <2>2. scan'[w].now \in {0, now, scan[w].now}
    <3>1. ASSUME NEW v \in Workers, NEW ok \in BOOLEAN, Return(v, ok)
          PROVE  scan'[w].now \in {0, scan[w].now}
      BY <3>1 DEF Return, NoScan, TypeOK
    <3>2. ASSUME NEW v \in Workers, CheckMeow(v)
          PROVE  \/ \E ok \in BOOLEAN : Return(v, ok)
                 \/ scan'[w].now \in {now, scan[w].now}
      <4> DEFINE first == [NoScan EXCEPT !.now = now, !.todo = Admitted]
      <4>1. first.now = now
        BY DEF NoScan
      <4> HIDE DEF first
      <4>2. CASE scan' = [scan EXCEPT ![v] = first]
        BY <4>1, <4>2 DEF TypeOK
      <4> QED BY <3>2, <4>2 DEF CheckMeow, Admit, first
    <3>3. ASSUME NEW v \in Workers, NEW p \in Peers, ScanOne(v, p)
          PROVE  scan'[w].now = scan[w].now
      BY <3>3 DEF ScanOne, TypeOK, ScanLocals
    <3>4. ASSUME NEW v \in Workers, ClaimLoad(v)
          PROVE  \/ \E ok \in BOOLEAN : Return(v, ok)
                 \/ scan'[w].now = scan[w].now
      <4> DEFINE word == activity[clientLeases[scan[v].cand]]
      <4>1. CASE scan' = [scan EXCEPT ![v].seen = word]
        <5>1. scan' = [scan EXCEPT ![v] = [scan[v] EXCEPT !.seen = word]]
          BY <4>1
        <5> QED BY <5>1 DEF TypeOK, ScanLocals
      <4> QED BY <3>4, <4>1 DEF ClaimLoad
    <3>5. ASSUME NEW v \in Workers, ClaimCAS(v) \/ AdmitAfterReset(v)
          PROVE  (\E ok \in BOOLEAN : Return(v, ok)) \/ scan' = scan
      BY <3>5 DEF ClaimCAS, AdmitAfterReset, Admit
    <3>6. ASSUME NEW v \in Workers,
                 \/ \E r \in Peers, d \in Discos : RecvMeow(v, r, d)
                 \/ LockAdmission(v)
                 \/ Forget(v)
                 \/ ResetDevicePeer(v)
                 \/ SendAck(v)
          PROVE  scan' = scan
      BY <3>6 DEF RecvMeow, LockAdmission, Forget, ResetDevicePeer, SendAck
    <3>7. ASSUME \/ \E p \in Peers :
                       \/ AddAllowedClient(p)
                       \/ \E st \in SessionStates : SessionEvent(p, st)
                       \/ CallbackStep(p)
                 \/ Tick
                 \/ UNCHANGED vars
          PROVE  scan' = scan
      BY <3>7 DEF AddAllowedClient, SessionEvent, CallbackStep, CallbackLoad,
                  UpdateLoad, UpdateCAS, Tick, vars, workerState
    <3> QED BY <3>1, <3>2, <3>3, <3>4, <3>5, <3>6, <3>7 DEF Next, WorkerStep
  <2>3. scan[w].now <= now /\ scan[w].now \in Nat
    BY DEF Times, TypeOK, ScanLocals
  <2> QED BY <2>1, <2>2, <2>3
<1> QED BY <1>1, <1>2, <1>3 DEF Times

\* A retired identity published nothing for the grace period, less the
\* fraction of a second that the lease word drops.
THEOREM GracePeriod == Spec => RetirementRespectsGrace
<1>1. Init => Times
  BY ConstantsAssumption DEF Init, Times, LeaseID, NoCallback, NoScan
<1>2. Spec => []Times
  BY <1>1, TimesStep, Invariance, PTL DEF Spec
<1>3. ASSUME IInv, Times, [Next]_vars, NEW l \in LeaseID,
             activity[l] # Retired, activity'[l] = Retired
      PROVE  now - touched[l] > Grace - TicksPerSecond
  <2>1. PICK w \in Workers : Reclaimable(activity[l], scan[w].now)
    BY <1>3, LeaseStep DEF IInv, Callbacks, SessionStates, Retired
  <2>2. scan[w].now - Unix(touched[l]) >= Grace
    BY <1>3, <2>1 DEF Reclaimable, Times
  <2>3. /\ scan[w].now <= now
        /\ scan[w].now \in Nat /\ now \in Nat /\ touched[l] \in Nat
    BY <1>3 DEF Times, IInv, TypeOK, ScanLocals
  <2>4. /\ Unix(touched[l]) \in Int
        /\ touched[l] - Unix(touched[l]) <= TicksPerSecond - 1
    BY <2>3, UnixType, ConstantsAssumption
  <2> QED BY <2>2, <2>3, <2>4, ConstantsAssumption
<1>4. IInv /\ Times /\ [Next]_vars
        => [\A l \in LeaseID : activity[l] # Retired /\ activity'[l] = Retired
                => now - touched[l] > Grace - TicksPerSecond]_vars
  BY <1>3
<1> QED BY <1>2, <1>4, Invariance, PTL DEF Spec, RetirementRespectsGrace

-----------------------------------------------------------------------------
(* Leases, network map and node IDs.                                       *)

\* LeaseOfClientIsLive is inductive given IInv.
LEMMA LiveLeaseStep ==
    ASSUME IInv, IInv', LeaseOfClientIsLive, [Next]_vars
    PROVE  LeaseOfClientIsLive'
<1> USE DEF IInv
<1>a. SUFFICES ASSUME NEW q \in Peers, q \in Admitted',
                      activity'[clientLeases'[q]] = Retired
               PROVE  \E v \in Workers : pc'[v] = "forget" /\ scan'[v].cand = q
  BY DEF LeaseOfClientIsLive, Leases
<1>b. ASSUME q \in Admitted, activity[clientLeases[q]] = Retired
      PROVE  \E v \in Workers : pc[v] = "forget" /\ scan[v].cand = q
  BY <1>b DEF LeaseOfClientIsLive
<1>1. ASSUME UNCHANGED <<clients, clientLeases>>,
             activity[clientLeases[q]] = Retired,
             \A v \in Workers : pc[v] = "forget"
                                  => pc'[v] = "forget" /\ scan'[v] = scan[v]
      PROVE  \E v \in Workers : pc'[v] = "forget" /\ scan'[v].cand = q
  BY <1>a, <1>b, <1>1 DEF Admitted
<1>2. ASSUME NEW w \in Workers, ClaimCAS(w)
      PROVE  \E v \in Workers : pc'[v] = "forget" /\ scan'[v].cand = q
  <2>1. \A v \in Workers : pc[v] # "forget"
    BY <1>2 DEF ClaimCAS, Locking, InPolicy
  <2>2. UNCHANGED <<clients, clientLeases>> /\ q \in Admitted
    BY <1>a, <1>2 DEF ClaimCAS, policyState, Admitted
  <2>3. activity[clientLeases[q]] # Retired
    BY <1>b, <2>1, <2>2
  <2>4. clientLeases[q] \in LeaseID /\ scan[w].cand \in Peers
    BY <1>2, <2>2, AdmittedLease DEF ClaimCAS, Scans, Admitted
  <2>5. CASE /\ activity' = [activity EXCEPT ![clientLeases[scan[w].cand]] = Retired]
             /\ Goto(w, "forget")
             /\ scan' = scan
    <3>1. clientLeases[q] = clientLeases[scan[w].cand]
      BY <1>a, <2>2, <2>3, <2>4, <2>5 DEF TypeOK
    <3>2. scan[w].cand = q
      BY <2>4, <3>1 DEF Leases, LeaseID, NoLease
    <3> QED BY <2>5, <3>2 DEF Goto, TypeOK
  <2>6. CASE UNCHANGED activity
    BY <1>a, <2>2, <2>3, <2>6
  <2> QED BY <1>2, <2>5, <2>6 DEF ClaimCAS
<1>3. ASSUME NEW w \in Workers, Forget(w)
      PROVE  FALSE
  <2>1. q # scan[w].cand /\ q \in Admitted /\ clientLeases'[q] = clientLeases[q]
    BY <1>a, <1>3 DEF Forget, Admitted, TypeOK
  <2>2. PICK v \in Workers : pc[v] = "forget" /\ scan[v].cand = q
    BY <1>a, <1>b, <1>3, <2>1 DEF Forget
  <2> QED BY <1>3, <2>1, <2>2 DEF Forget, Locking, InPolicy
<1>4. ASSUME NEW w \in Workers, Admit(w), pc[w] \in {"check", "admit"}
      PROVE  FALSE
  <2>1. \A v \in Workers : pc[v] # "forget"
    BY <1>4 DEF Locking, InAdmission
  <2>2. req[w].peer \in Peers
    BY <1>4 DEF Requests
  <2>3. CASE q = req[w].peer
    <3>1. activity'[clientLeases'[q]] = Pack("handshake", now)
      BY <1>4, <2>3 DEF Admit, TypeOK
    <3> QED BY <1>a, <3>1 DEF Pack, Retired
  <2>4. CASE q # req[w].peer
    <3>1. q \in Admitted /\ clientLeases'[q] = clientLeases[q]
      BY <1>a, <1>4, <2>2, <2>4 DEF Admit, Admitted, TypeOK
    <3>2. clientLeases[q] \in LeaseID /\ NewClientID \notin LeaseID
      BY <3>1, AdmittedLease, NewID DEF TypeOK
    <3>3. activity'[clientLeases[q]] = activity[clientLeases[q]]
      BY <1>4, <3>2 DEF Admit, TypeOK
    <3> QED BY <1>a, <1>b, <2>1, <3>1, <3>3
  <2> QED BY <2>3, <2>4
<1>5. ASSUME NEW p \in Peers, UpdateCAS(p)
      PROVE  /\ UNCHANGED <<clients, clientLeases, pc, scan>>
             /\ activity[clientLeases[q]] = Retired
  <2>1. UNCHANGED <<clients, clientLeases, pc, scan>> /\ q \in Admitted
    BY <1>a, <1>5 DEF UpdateCAS, policyState, workerState, Admitted
  <2>2. cb[p].next # Retired
    BY <1>5 DEF UpdateCAS, Callbacks, SessionStates, Retired
  <2>3. clientLeases[q] \in LeaseID
    BY <2>1, AdmittedLease
  <2> QED BY <1>a, <1>5, <2>1, <2>2, <2>3 DEF UpdateCAS, TypeOK
<1>6. ASSUME NEW w \in Workers,
             \/ \E p \in Peers, d \in Discos : RecvMeow(w, p, d)
             \/ LockAdmission(w)
             \/ CheckMeow(w) /\ ~Admit(w)
             \/ \E p \in Peers : ScanOne(w, p)
             \/ ClaimLoad(w)
             \/ ResetDevicePeer(w)
             \/ SendAck(w)
      PROVE  /\ UNCHANGED <<clients, clientLeases, activity>>
             /\ \A v \in Workers : pc[v] = "forget"
                                  => pc'[v] = "forget" /\ scan'[v] = scan[v]
  BY <1>6 DEF RecvMeow, LockAdmission, CheckMeow, ScanOne, ClaimLoad,
              ResetDevicePeer, SendAck, Return, Goto, policyState, leaseState,
              TypeOK
<1>7. ASSUME NEW w \in Workers,
             (CheckMeow(w) /\ Admit(w)) \/ AdmitAfterReset(w)
      PROVE  Admit(w) /\ pc[w] \in {"check", "admit"}
  BY <1>7 DEF CheckMeow, AdmitAfterReset
<1>8. ASSUME \/ \E p \in Peers :
                   \/ AddAllowedClient(p)
                   \/ \E st \in SessionStates : SessionEvent(p, st)
                   \/ CallbackLoad(p)
                   \/ UpdateLoad(p)
             \/ Tick
             \/ UNCHANGED vars
      PROVE  UNCHANGED <<clients, clientLeases, activity, pc, scan>>
  BY <1>8 DEF AddAllowedClient, SessionEvent, CallbackLoad, UpdateLoad, Tick,
              vars, policyState, leaseState, workerState
<1> QED BY <1>a, <1>1, <1>2, <1>3, <1>4, <1>5, <1>6, <1>7, <1>8
        DEF Next, WorkerStep, CallbackStep

\* onH3SessionState finds for an authorised client its own live lease.
THEOREM LiveLeases == Spec => []LeaseOfClientIsLive
<1>1. Init => LeaseOfClientIsLive
  BY DEF Init, LeaseOfClientIsLive, NoNode, NoLease, Admitted
<1> QED BY <1>1, LiveLeaseStep, Invariance, PTL DEF Spec

\* The network map that onMeow publishes lists exactly the clients, except
\* while a retired peer is being torn down.
THEOREM NetmapCurrent == Spec => []NetmapInSync
<1>1. Init => NetmapInSync
  BY DEF Init, NetmapInSync
<1>2. ASSUME IInv, NetmapInSync, [Next]_vars PROVE NetmapInSync'
  <2> USE DEF IInv
  <2>1. ASSUME NEW w \in Workers, Admit(w) PROVE nm' = clients'
    BY <2>1 DEF Admit, BuildNetmap
  <2>2. ASSUME NEW w \in Workers, Forget(w) \/ ResetDevicePeer(w)
        PROVE  pc'[w] \in {"reset", "admit"}
    BY <1>2, <2>2 DEF Forget, ResetDevicePeer, Goto, TypeOK
  <2>3. ASSUME NEW w \in Workers,
               \/ \E p \in Peers, d \in Discos : RecvMeow(w, p, d)
               \/ LockAdmission(w)
               \/ CheckMeow(w) /\ ~Admit(w)
               \/ \E p \in Peers : ScanOne(w, p)
               \/ ClaimLoad(w)
               \/ ClaimCAS(w)
               \/ SendAck(w)
        PROVE  /\ UNCHANGED <<clients, nm>>
               /\ \A v \in Workers : pc[v] \in {"reset", "admit"}
                                       => pc'[v] = pc[v]
    BY <1>2, <2>3 DEF RecvMeow, LockAdmission, CheckMeow, ScanOne, ClaimLoad,
                ClaimCAS, SendAck, Return, Goto, policyState, TypeOK
  <2>4. ASSUME NEW w \in Workers, AdmitAfterReset(w) PROVE Admit(w)
    BY <2>4 DEF AdmitAfterReset
  <2>5. ASSUME \/ \E p \in Peers :
                     \/ AddAllowedClient(p)
                     \/ \E st \in SessionStates : SessionEvent(p, st)
                     \/ CallbackStep(p)
               \/ Tick
               \/ UNCHANGED vars
        PROVE  UNCHANGED <<clients, nm, pc>>
    BY <2>5 DEF AddAllowedClient, SessionEvent, CallbackStep, CallbackLoad,
                UpdateLoad, UpdateCAS, Tick, vars, policyState, workerState
  <2> QED BY <1>2, <2>1, <2>2, <2>3, <2>4, <2>5
          DEF Next, WorkerStep, NetmapInSync
<1> QED BY <1>1, <1>2, Invariance, PTL DEF Spec

\* onMeow gives no node ID out twice, and never the server's.
THEOREM UniqueNodeIDs == Spec => NodeIDsNeverReused
<1>1. ASSUME IInv, [Next]_vars, NEW p \in Peers, clients'[p] # clients[p],
             clients'[p] # NoNode
      PROVE  clients'[p].id > nextClientID /\ clients'[p].id > 1
  <2> USE DEF IInv
  <2>1. ASSUME NEW w \in Workers, Forget(w) PROVE FALSE
    BY <1>1, <2>1 DEF Forget, TypeOK
  <2>2. CASE \E w \in Workers : Admit(w)
    <3>1. PICK w \in Workers : Admit(w)
      BY <2>2
    <3>2. clients'[p].id = NewClientID
      BY <1>1, <3>1 DEF Admit, TypeOK
    <3> QED BY <1>1, <3>2, NewID DEF TypeOK
  <2>3. UNCHANGED clients \/ \E w \in Workers : Admit(w) \/ Forget(w)
    BY <1>1 DEF Next, WorkerStep, CallbackStep, RecvMeow, LockAdmission,
                CheckMeow, ScanOne, ClaimLoad, ClaimCAS, ResetDevicePeer,
                AdmitAfterReset, SendAck, AddAllowedClient, SessionEvent,
                CallbackLoad, UpdateLoad, UpdateCAS, Tick, policyState, vars
  <2> QED BY <1>1, <2>1, <2>2, <2>3
<1>2. IInv /\ [Next]_vars
        => [\A p \in Peers : clients'[p] # clients[p] /\ clients'[p] # NoNode
                => clients'[p].id > nextClientID /\ clients'[p].id > 1]_vars
  BY <1>1
<1> QED BY <1>2, Invariance, PTL DEF Spec, NodeIDsNeverReused

-----------------------------------------------------------------------------
(* Refinement of AdmissionPolicy.                                          *)

\* Admission adds one live, unconnected identity.
LEMMA AdmitJoins ==
    ASSUME IInv, NEW w \in Workers, Admit(w), req[w].peer \in Peers \ Admitted,
           Cardinality(Admitted) < MaxClients
    PROVE  Policy!PolicyNext
<1> DEFINE p == req[w].peer
<1> USE DEF IInv
<1>1. /\ p \in Admitted'
      /\ activity'[clientLeases'[p]] = Pack("handshake", now)
  BY NewID DEF Admit, Admitted, TypeOK, NoNode
<1>2. ASSUME NEW q \in Peers, q # p
      PROVE  /\ q \in Admitted' <=> q \in Admitted
             /\ q \in Admitted => activity'[clientLeases'[q]]
                                    = activity[clientLeases[q]]
  <2>1. clients'[q] = clients[q] /\ clientLeases'[q] = clientLeases[q]
    BY <1>2 DEF Admit, TypeOK
  <2>2. q \in Admitted => /\ clientLeases[q] \in LeaseID
                          /\ NewClientID \notin LeaseID
    BY AdmittedLease, NewID DEF TypeOK
  <2> QED BY <2>1, <2>2 DEF Admit, Admitted, TypeOK
<1>3. Live' = Live \union {p}
  BY <1>1, <1>2 DEF Live, Admitted, Pack, Retired
<1>4. Connected' = Connected
  BY <1>1, <1>2 DEF Connected, Admitted, Pack
<1>5. Cardinality(Live) < MaxClients
  <2>1. Cardinality(Live) <= Cardinality(Admitted) /\ Cardinality(Live) \in Nat
    BY AdmittedFinite, FS_Subset, FS_CardinalityType DEF Live
  <2> QED BY <2>1, AdmittedFinite, ConstantsAssumption
<1>6. p \notin Live
  BY DEF Live
<1>7. Policy!Join(p)
  BY <1>3, <1>4, <1>5, <1>6 DEF Policy!Join, Policy!Cardinality, Cardinality
<1>8. p \in Peers
  OBVIOUS
<1> HIDE DEF p
<1> QED BY <1>7, <1>8 DEF Policy!PolicyNext

\* A successful claim is the moment an unconnected identity leaves.
LEMMA ClaimLeaves ==
    ASSUME IInv, NEW w \in Workers, ClaimCAS(w)
    PROVE  Policy!PolicyNext \/ UNCHANGED <<Live, Connected>>
<1> USE DEF IInv
<1> DEFINE p == scan[w].cand
           l == clientLeases[p]
<1>1. UNCHANGED <<clients, clientLeases>>
  BY DEF ClaimCAS, policyState
<1>2. p \in Admitted /\ p \in Peers /\ l \in LeaseID
  BY AdmittedLease DEF ClaimCAS, Scans, Admitted
<1>3. CASE UNCHANGED activity
  BY <1>1, <1>3 DEF Live, Connected, Admitted
<1>4. CASE activity[l] = scan[w].seen /\ activity' = [activity EXCEPT ![l] = Retired]
  <2>1. activity[l] # Retired /\ activity[l].st # "established"
    BY <1>4 DEF ClaimCAS, Scans, Reclaimable
  <2>2. activity'[l] = Retired
    BY <1>2, <1>4 DEF TypeOK
  <2>3. \A q \in Peers \ {p} : q \in Admitted
            => activity'[clientLeases[q]] = activity[clientLeases[q]]
    BY <1>2, <1>4, AdmittedLease DEF Leases, TypeOK
  <2>4. Live' = Live \ {p}
    BY <1>1, <1>2, <2>2, <2>3 DEF Live, Admitted
  <2>5. Connected' = Connected
    BY <1>1, <1>2, <2>1, <2>2, <2>3 DEF Connected, Admitted, Retired
  <2>6. p \in Live \ Connected
    BY <1>2, <2>1 DEF Live, Connected
  <2> QED BY <1>2, <2>4, <2>5, <2>6 DEF Policy!PolicyNext, Policy!Leave
<1> QED BY <1>3, <1>4 DEF ClaimCAS, CompareAndSwap

\* Removing the claimed identity from the maps is invisible to the policy.
LEMMA ForgetStutters ==
    ASSUME IInv, NEW w \in Workers, Forget(w)
    PROVE  UNCHANGED <<Live, Connected>>
<1> USE DEF IInv
<1> DEFINE p == scan[w].cand
<1>1. p \in Admitted /\ activity[clientLeases[p]] = Retired
  BY DEF Forget, Scans
<1>2. /\ Admitted' = Admitted \ {p}
      /\ activity' = activity
      /\ \A q \in Peers \ {p} : clientLeases'[q] = clientLeases[q]
  BY <1>1 DEF Forget, Admitted, TypeOK
<1>3. Live' = Live
  BY <1>1, <1>2 DEF Live, Admitted
<1>4. Connected' = Connected
  BY <1>1, <1>2 DEF Connected, Admitted, Retired
<1> QED BY <1>3, <1>4

\* A callback connects or disconnects the identity whose lease it holds.
LEMMA UpdateConnects ==
    ASSUME IInv, NEW p \in Peers, UpdateCAS(p)
    PROVE  Policy!PolicyNext \/ UNCHANGED <<Live, Connected>>
<1> USE DEF IInv
<1> DEFINE l == cb[p].lease
<1>1. UNCHANGED <<clients, clientLeases>> /\ Admitted' = Admitted
  BY DEF UpdateCAS, policyState, Admitted
<1>2. CASE UNCHANGED activity
  BY <1>1, <1>2 DEF Live, Connected
<1>3. CASE activity[l] = cb[p].seen /\ activity' = [activity EXCEPT ![l] = cb[p].next]
  <2>1. l \in LeaseID /\ activity[l] # Retired /\ cb[p].next # Retired
    BY <1>3 DEF UpdateCAS, Callbacks, SessionStates, Retired
  <2>2. activity'[l] = cb[p].next
    BY <1>3, <2>1 DEF TypeOK
  <2>3. ASSUME NEW q \in Admitted, clientLeases[q] # l
        PROVE  activity'[clientLeases[q]] = activity[clientLeases[q]]
    BY <1>3, <2>3, AdmittedLease DEF TypeOK, Admitted
  <2>4. Live' = Live
    BY <1>1, <2>1, <2>2, <2>3 DEF Live
  <2>5. CASE \A q \in Admitted : clientLeases[q] # l
    BY <1>1, <2>3, <2>4, <2>5 DEF Connected
  <2>6. CASE \E q \in Admitted : clientLeases[q] = l
    <3>1. PICK q \in Admitted : clientLeases[q] = l
      BY <2>6
    <3>2. \A o \in Admitted \ {q} : clientLeases[o] # l
      BY <3>1, AdmittedLease DEF Leases, Admitted
    <3>3. q \in Live /\ q \in Peers
      BY <2>1, <3>1 DEF Live, Admitted
    <3>4. CASE cb[p].next.st = "established"
      <4>1. Connected' = Connected \union {q}
        BY <1>1, <2>2, <2>3, <3>1, <3>2, <3>4 DEF Connected
      <4> QED BY <2>4, <3>3, <4>1 DEF Policy!PolicyNext, Policy!Connect
    <3>5. CASE cb[p].next.st # "established"
      <4>1. Connected' = Connected \ {q}
        BY <1>1, <2>2, <2>3, <3>1, <3>2, <3>5 DEF Connected
      <4>2. CASE q \in Connected
        BY <2>4, <3>3, <4>1, <4>2 DEF Policy!PolicyNext, Policy!Disconnect
      <4>3. CASE q \notin Connected
        BY <2>4, <4>1, <4>3
      <4> QED BY <4>2, <4>3
    <3> QED BY <3>4, <3>5
  <2> QED BY <2>5, <2>6
<1> QED BY <1>2, <1>3 DEF UpdateCAS, CompareAndSwap

\* onMeow, its leases and the session callbacks implement AdmissionPolicy, with
\* the compare-and-swap of claimRetirement as the moment an identity leaves.
THEOREM Refinement == Spec => RefinesPolicy
<1>1. Init => Policy!PolicyInit
  BY DEF Init, Policy!PolicyInit, Live, Connected, Admitted
<1>2. ASSUME IInv, Capacity, [Next]_vars
      PROVE  [Policy!PolicyNext]_(Policy!policyVars)
  <2> SUFFICES Policy!PolicyNext \/ UNCHANGED <<Live, Connected>>
    BY DEF Policy!policyVars
  <2> USE DEF IInv
  <2>1. ASSUME NEW w \in Workers, CheckMeow(w)
        PROVE  \/ Policy!PolicyNext
               \/ UNCHANGED <<clients, clientLeases, activity>>
    <3>1. \/ UNCHANGED <<clients, clientLeases, activity>>
          \/ Admit(w) /\ HasRoom /\ req[w].peer \notin Admitted
      BY <2>1 DEF CheckMeow, policyState, leaseState
    <3>2. req[w].peer \in Peers
      BY <1>2, <2>1 DEF CheckMeow, Requests
    <3> QED BY <1>2, <3>1, <3>2, AdmitJoins DEF HasRoom
  <2>2. ASSUME NEW w \in Workers, AdmitAfterReset(w)
        PROVE  Policy!PolicyNext
    <3>1. req[w].peer \in Peers \ Admitted /\ Cardinality(Admitted) < MaxClients
      BY <1>2, <2>2 DEF AdmitAfterReset, Requests, Scans, Capacity,
                        RoomAfterForget
    <3> QED BY <1>2, <2>2, <3>1, AdmitJoins DEF AdmitAfterReset
  <2>3. ASSUME NEW w \in Workers,
               \/ \E p \in Peers, d \in Discos : RecvMeow(w, p, d)
               \/ LockAdmission(w)
               \/ \E p \in Peers : ScanOne(w, p)
               \/ ClaimLoad(w)
               \/ ResetDevicePeer(w)
               \/ SendAck(w)
        PROVE  UNCHANGED <<clients, clientLeases, activity>>
    BY <2>3 DEF RecvMeow, LockAdmission, ScanOne, ClaimLoad,
                ResetDevicePeer, SendAck, policyState, leaseState
  <2>4. ASSUME \/ \E p \in Peers :
                     \/ AddAllowedClient(p)
                     \/ \E st \in SessionStates : SessionEvent(p, st)
                     \/ CallbackLoad(p)
                     \/ UpdateLoad(p)
               \/ Tick
               \/ UNCHANGED vars
        PROVE  UNCHANGED <<clients, clientLeases, activity>>
    BY <2>4 DEF AddAllowedClient, SessionEvent, CallbackLoad, UpdateLoad, Tick,
                vars, policyState, leaseState
  <2>5. UNCHANGED <<clients, clientLeases, activity>>
          => UNCHANGED <<Live, Connected>>
    BY DEF Live, Connected, Admitted
  <2> QED BY <1>2, <2>1, <2>2, <2>3, <2>4, <2>5, ClaimLeaves,
             ForgetStutters, UpdateConnects DEF Next, WorkerStep, CallbackStep
<1> QED BY <1>1, <1>2, Invariance, CapacityInvariance, PTL
        DEF Spec, RefinesPolicy, Policy!PolicySpec

=============================================================================

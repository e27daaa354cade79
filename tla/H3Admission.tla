----------------------------- MODULE H3Admission -----------------------------
(***************************************************************************)
(* Server-side admission of clients: the bounded bootstrap workers of      *)
(* Server.startLocked, locoBackend.onMeow with its two mutexes, the atomic *)
(* lease word of h3ClientLease, retirement of the oldest idle identity,    *)
(* and the lock-free session callback that races with it.                  *)
(*                                                                         *)
(* One action is one stretch of code between two points where another      *)
(* goroutine can interfere: a mutex acquisition, an atomic load, an atomic *)
(* compare-and-swap, a call into the engine.                               *)
(***************************************************************************)
EXTENDS Integers, FiniteSets

CONSTANTS
    Peers,           \* client node keys
    NoPeer,          \* the zero key
    Discos,          \* discovery keys a bootstrap packet can announce
    Workers,         \* tokens of meowSlots, one per admission goroutine
    Unlocked,        \* value of a free mutex
    MaxClients,      \* h3MaxClients
    Grace,           \* h3ClientGrace, in ticks
    TicksPerSecond,  \* clock ticks in the Unix second a lease word stores
    AllowedAtStart,  \* Server.AllowedClients; {} is the nil map
    MaxTime,         \* bound: last tick of the clock
    MaxClientID      \* bound: no packet is accepted once this ID is given out

ASSUME ConstantsAssumption ==
    /\ NoPeer \notin Peers
    /\ Unlocked \notin Workers
    /\ IsFiniteSet(Peers)
    /\ MaxClients \in Nat \ {0}
    /\ Grace \in Nat \ {0}
    /\ TicksPerSecond \in Nat \ {0}
    /\ AllowedAtStart \subseteq Peers
    /\ MaxTime \in Nat
    /\ MaxClientID \in Nat

VARIABLES
    now,             \* wall clock, in ticks
    allowedClients,  \* node keys allowed; {} is the nil map, which allows all
    clients,         \* peer -> [id, disco] of its node, NoNode when absent
    nm,              \* the peers of the network map last published
    nextClientID,
    clientLeases,    \* sync.Map: peer -> lease, NoLease when absent
    activity,        \* lease -> its packed word
    touched,         \* history: lease -> tick of the latest published event
    admissionMu,     \* holder
    mu,              \* holder
    pc, req, scan,   \* per worker: control point, packet, locals
    session,         \* external: the engine's H3 session with each peer
    cb               \* per peer: the session callback being run

policyState == <<allowedClients, clients, nm, nextClientID>>
leaseState  == <<clientLeases, activity, touched>>
workerState == <<pc, req, scan>>
vars == <<now, policyState, leaseState, admissionMu, mu, workerState,
          session, cb>>

-----------------------------------------------------------------------------
SessionStates == {"none", "handshake", "established"}

\* A lease is identified by the node ID given out with it.
LeaseID == 2..nextClientID
NoLease == 0
NoNode  == [id |-> 0, disco |-> NoPeer]

\* The packed lease word, and the tombstone h3LeaseRetired.
Word    == [st : SessionStates \union {"retired"}, at : Int]
Retired == [st |-> "retired", at |-> 0]

\* time.Unix: the whole second a tick falls in.
Unix(t) == t - (t % TicksPerSecond)
Pack(st, t) == [st |-> st, at |-> Unix(t)]

NoScan == [now |-> 0, todo |-> {}, cand |-> NoPeer, oldest |-> 0,
           seen |-> Retired]
NoReq  == [peer |-> NoPeer, disco |-> NoPeer]
NoCallback == [pc |-> "idle", next |-> Retired, lease |-> NoLease,
               seen |-> Retired, t |-> 0]

CallbackFor(st) ==
    [pc |-> "start", next |-> [st |-> st, at |-> 0], lease |-> NoLease,
     seen |-> Retired, t |-> 0]

Admitted == {p \in Peers : clients[p] # NoNode}
Allowed(p) == allowedClients = {} \/ p \in allowedClients

\* Bug: the grace period is compared as if the word kept sub-second time.
ReclaimableEarly(v, t) ==
    /\ v # Retired
    /\ v.st # "established"
    /\ t - v.at >= Grace - 1

\* Bug: the session state is not looked at.
ReclaimableAnyState(v, t) == v # Retired /\ t - v.at >= Grace

\* The test shared by reclaimable and claimRetirement.
Reclaimable(v, t) ==
    /\ v # Retired
    /\ v.st # "established"
    /\ t - v.at >= Grace

\* Bug: a store in place of the compare-and-swap.
BlindSwap(l, old) == TRUE

\* activity.CompareAndSwap(old, ...) succeeds.
CompareAndSwap(l, old) == activity[l] = old

Init ==
    /\ now = 0
    /\ allowedClients = AllowedAtStart
    /\ clients = [p \in Peers |-> NoNode]
    /\ nm = [p \in Peers |-> NoNode]
    /\ nextClientID = 0
    /\ clientLeases = [p \in Peers |-> NoLease]
    /\ activity = [l \in {} |-> Retired]
    /\ touched = [l \in {} |-> 0]
    /\ admissionMu = Unlocked
    /\ mu = Unlocked
    /\ pc = [w \in Workers |-> "idle"]
    /\ req = [w \in Workers |-> NoReq]
    /\ scan = [w \in Workers |-> NoScan]
    /\ session = [p \in Peers |-> "none"]
    /\ cb = [p \in Peers |-> NoCallback]

-----------------------------------------------------------------------------
(* Admission workers.                                                      *)

Goto(w, l) == pc' = [pc EXCEPT ![w] = l]

\* Bug: a refusal returns without unlocking.
ReturnKeepsLock(w, ok) ==
    /\ admissionMu' = IF ok THEN Unlocked ELSE admissionMu
    /\ mu' = Unlocked
    /\ scan' = [scan EXCEPT ![w] = NoScan]
    /\ Goto(w, IF ok THEN "ack" ELSE "idle")
    /\ req' = IF ok THEN req ELSE [req EXCEPT ![w] = NoReq]

\* onMeow returns: both deferred unlocks run; the slot is freed, or the
\* acknowledgment is still to be sent.
Return(w, ok) ==
    /\ admissionMu' = Unlocked
    /\ mu' = Unlocked
    /\ scan' = [scan EXCEPT ![w] = NoScan]
    /\ Goto(w, IF ok THEN "ack" ELSE "idle")
    /\ req' = IF ok THEN req ELSE [req EXCEPT ![w] = NoReq]

\* onDERPRecv: an authenticated bootstrap packet takes a free slot. With no
\* free slot the packet is dropped and nothing changes.
RecvMeow(w, p, d) ==
    /\ pc[w] = "idle"
    /\ nextClientID < MaxClientID
    /\ req' = [req EXCEPT ![w] = [peer |-> p, disco |-> d]]
    /\ Goto(w, "start")
    /\ UNCHANGED <<now, policyState, leaseState, admissionMu, mu, scan,
                   session, cb>>

LockAdmission(w) ==
    /\ pc[w] = "start"
    /\ admissionMu = Unlocked
    /\ admissionMu' = w
    /\ Goto(w, "check")
    /\ UNCHANGED <<now, policyState, leaseState, mu, req, scan, session, cb>>

\* Bug: the first client gets the server's own ID.
IDFromOne == nextClientID + 1

NewClientID == IF nextClientID + 1 < 2 THEN 2 ELSE nextClientID + 1

\* The network map is rebuilt from all clients.
BuildNetmap(cl) == cl

\* The tail of onMeow, under both mutexes: a fresh ID, a lease in state
\* Handshake, the node, and the network map.
Admit(w) ==
    LET p == req[w].peer
    IN  /\ nextClientID' = NewClientID
        /\ activity' = [l \in DOMAIN activity \union {NewClientID} |->
                          IF l = NewClientID THEN Pack("handshake", now)
                                             ELSE activity[l]]
        /\ touched' = [l \in DOMAIN touched \union {NewClientID} |->
                          IF l = NewClientID THEN now ELSE touched[l]]
        /\ clientLeases' = [clientLeases EXCEPT ![p] = NewClientID]
        /\ clients' = [clients EXCEPT
                          ![p] = [id |-> NewClientID, disco |-> req[w].disco]]
        /\ nm' = BuildNetmap(clients')
        /\ Return(w, TRUE)
        /\ UNCHANGED allowedClients

\* Bug: off by one.
HasRoomForOneMore == Cardinality(Admitted) <= MaxClients

HasRoom == Cardinality(Admitted) < MaxClients

\* onMeow from mu.Lock to the first point another goroutine can see into.
CheckMeow(w) ==
    LET p == req[w].peer
    IN  /\ pc[w] = "check"
        /\ mu = Unlocked
        /\ \/ /\ ~Allowed(p)
              /\ Return(w, FALSE)
              /\ UNCHANGED <<policyState, leaseState>>
           \/ /\ Allowed(p)
              /\ p \in Admitted
              /\ Return(w, clients[p].disco = req[w].disco)
              /\ UNCHANGED <<policyState, leaseState>>
           \/ /\ Allowed(p)
              /\ p \notin Admitted
              /\ HasRoom
              /\ Admit(w)
           \/ /\ Allowed(p)
              /\ p \notin Admitted
              /\ ~HasRoom
              /\ mu' = w
              /\ scan' = [scan EXCEPT ![w] = [NoScan EXCEPT !.now = now,
                                                            !.todo = Admitted]]
              /\ Goto(w, "scan")
              /\ UNCHANGED <<policyState, leaseState, admissionMu, req>>
        /\ UNCHANGED <<now, session, cb>>

\* One iteration of retireH3ClientLocked's range over b.clients: an atomic
\* load of one lease word, in the arbitrary order of a Go map.
ScanOne(w, p) ==
    LET s == scan[w]
        l == clientLeases[p]
        better == /\ l # NoLease
                  /\ Reclaimable(activity[l], s.now)
                  /\ s.cand = NoPeer \/ activity[l].at < s.oldest
    IN  /\ pc[w] = "scan"
        /\ p \in s.todo
        /\ scan' = [scan EXCEPT ![w] =
                      [s EXCEPT !.todo = @ \ {p},
                                !.cand = IF better THEN p ELSE @,
                                !.oldest = IF better THEN activity[l].at
                                                     ELSE @]]
        /\ UNCHANGED <<now, policyState, leaseState, admissionMu, mu, pc, req,
                       session, cb>>

\* claimRetirement's load and re-check of the chosen candidate.
ClaimLoad(w) ==
    LET s == scan[w]
        l == clientLeases[s.cand]
    IN  /\ pc[w] = "scan"
        /\ s.todo = {}
        /\ \/ /\ \/ s.cand = NoPeer
                 \/ /\ s.cand # NoPeer
                    /\ \/ l = NoLease
                       \/ l # NoLease /\ ~Reclaimable(activity[l], s.now)
              /\ Return(w, FALSE)
           \/ /\ s.cand # NoPeer
              /\ l # NoLease
              /\ Reclaimable(activity[l], s.now)
              /\ scan' = [scan EXCEPT ![w].seen = activity[l]]
              /\ Goto(w, "cas")
              /\ UNCHANGED <<admissionMu, mu, req>>
        /\ UNCHANGED <<now, policyState, leaseState, session, cb>>

\* claimRetirement's compare-and-swap: the single winner against a callback.
ClaimCAS(w) ==
    LET l == clientLeases[scan[w].cand]
    IN  /\ pc[w] = "cas"
        /\ \/ /\ CompareAndSwap(l, scan[w].seen)
              /\ activity' = [activity EXCEPT ![l] = Retired]
              /\ Goto(w, "forget")
              /\ UNCHANGED <<admissionMu, mu, req, scan>>
           \/ /\ ~CompareAndSwap(l, scan[w].seen)
              /\ Return(w, FALSE)
              /\ UNCHANGED activity
        /\ UNCHANGED <<now, policyState, clientLeases, touched, session, cb>>

\* Bug: admissionMu is released together with mu.
ForgetUnlocksBoth(w) ==
    LET p == scan[w].cand
    IN  /\ pc[w] = "forget"
        /\ clients' = [clients EXCEPT ![p] = NoNode]
        /\ clientLeases' = [clientLeases EXCEPT ![p] = NoLease]
        /\ mu' = Unlocked
        /\ admissionMu' = Unlocked
        /\ Goto(w, "reset")
        /\ UNCHANGED <<now, allowedClients, nm, nextClientID, activity,
                       touched, req, scan, session, cb>>

\* Bug: the retired transport is not closed.
ForgetSkipsReset(w) ==
    LET p == scan[w].cand
    IN  /\ pc[w] = "forget"
        /\ clients' = [clients EXCEPT ![p] = NoNode]
        /\ clientLeases' = [clientLeases EXCEPT ![p] = NoLease]
        /\ mu' = Unlocked
        /\ Goto(w, "admit")
        /\ UNCHANGED <<now, allowedClients, nm, nextClientID, activity,
                       touched, admissionMu, req, scan, session, cb>>

\* Authorisation is withdrawn, then mu (only) is released. nm still lists
\* the retired peer until the new one is admitted.
Forget(w) ==
    LET p == scan[w].cand
    IN  /\ pc[w] = "forget"
        /\ clients' = [clients EXCEPT ![p] = NoNode]
        /\ clientLeases' = [clientLeases EXCEPT ![p] = NoLease]
        /\ mu' = Unlocked
        /\ Goto(w, "reset")
        /\ UNCHANGED <<now, allowedClients, nm, nextClientID, activity,
                       touched, admissionMu, req, scan, session, cb>>

\* ResetDevicePeer (external): the retired peer's session is gone when it
\* returns, and its end may be reported to onH3SessionState at any later time.
\* mu is not held, so the engine may consult the policy meanwhile.
ResetDevicePeer(w) ==
    /\ pc[w] = "reset"
    /\ session' = [session EXCEPT ![scan[w].cand] = "none"]
    /\ \/ UNCHANGED cb
       \/ /\ session[scan[w].cand] # "none"
          /\ cb[scan[w].cand].pc = "idle"
          /\ cb' = [cb EXCEPT ![scan[w].cand] = CallbackFor("none")]
    /\ Goto(w, "admit")
    /\ UNCHANGED <<now, policyState, leaseState, admissionMu, mu, req, scan>>

\* onMeow re-locks mu and admits without repeating any of its checks.
AdmitAfterReset(w) ==
    /\ pc[w] = "admit"
    /\ mu = Unlocked
    /\ Admit(w)
    /\ UNCHANGED <<now, session, cb>>

\* The acknowledgment is sent after both mutexes are released; then the
\* slot is freed.
SendAck(w) ==
    /\ pc[w] = "ack"
    /\ Goto(w, "idle")
    /\ req' = [req EXCEPT ![w] = NoReq]
    /\ UNCHANGED <<now, policyState, leaseState, admissionMu, mu, scan,
                   session, cb>>

-----------------------------------------------------------------------------
(* Everybody else.                                                         *)

\* Server.AddAllowedClient on a started server.
AddAllowedClient(p) ==
    /\ mu = Unlocked
    /\ p \notin allowedClients
    /\ allowedClients' = allowedClients \union {p}
    /\ UNCHANGED <<now, clients, nm, nextClientID, leaseState, admissionMu, mu,
                   workerState, session, cb>>

\* The engine (external) moves a session to another state and calls
\* onH3SessionState; it calls it for one event of a peer at a time. A session
\* is set up only for a peer that peerConfig, under mu, authorises.
SessionEvent(p, st) ==
    /\ cb[p].pc = "idle"
    /\ session[p] # st
    /\ session[p] = "none" => mu = Unlocked /\ p \in Admitted
    /\ session' = [session EXCEPT ![p] = st]
    /\ cb' = [cb EXCEPT ![p] = CallbackFor(st)]
    /\ UNCHANGED <<now, policyState, leaseState, admissionMu, mu, workerState>>

\* onH3SessionState: find the lease, without any mutex, and read the clock.
CallbackLoad(p) ==
    /\ cb[p].pc = "start"
    /\ cb' = [cb EXCEPT ![p] =
                IF clientLeases[p] = NoLease THEN NoCallback
                ELSE [@ EXCEPT !.pc = "load", !.lease = clientLeases[p],
                               !.next = Pack(cb[p].next.st, now), !.t = now]]
    /\ UNCHANGED <<now, policyState, leaseState, admissionMu, mu, workerState,
                   session>>

\* update: load the word; a retired lease is left alone.
UpdateLoad(p) ==
    /\ cb[p].pc = "load"
    /\ cb' = [cb EXCEPT ![p] =
                IF activity[cb[p].lease] = Retired THEN NoCallback
                ELSE [@ EXCEPT !.pc = "cas", !.seen = activity[cb[p].lease]]]
    /\ UNCHANGED <<now, policyState, leaseState, admissionMu, mu, workerState,
                   session>>

\* update: publish state and time together, or go round the loop.
UpdateCAS(p) ==
    LET l == cb[p].lease
    IN  /\ cb[p].pc = "cas"
        /\ \/ /\ CompareAndSwap(l, cb[p].seen)
              /\ activity' = [activity EXCEPT ![l] = cb[p].next]
              /\ touched' = [touched EXCEPT ![l] = cb[p].t]
              /\ cb' = [cb EXCEPT ![p] = NoCallback]
           \/ /\ ~CompareAndSwap(l, cb[p].seen)
              /\ cb' = [cb EXCEPT ![p].pc = "load"]
              /\ UNCHANGED <<activity, touched>>
        /\ UNCHANGED <<now, policyState, clientLeases, admissionMu, mu,
                       workerState, session>>

Tick ==
    /\ now < MaxTime
    /\ now' = now + 1
    /\ UNCHANGED <<policyState, leaseState, admissionMu, mu, workerState,
                   session, cb>>

-----------------------------------------------------------------------------
WorkerStep(w) ==
    \/ CheckMeow(w)
    \/ \E p \in Peers : ScanOne(w, p)
    \/ ClaimLoad(w)
    \/ ClaimCAS(w)
    \/ Forget(w)
    \/ ResetDevicePeer(w)
    \/ AdmitAfterReset(w)
    \/ SendAck(w)

CallbackStep(p) == CallbackLoad(p) \/ UpdateLoad(p) \/ UpdateCAS(p)

Next ==
    \/ \E w \in Workers :
          \/ \E p \in Peers, d \in Discos : RecvMeow(w, p, d)
          \/ LockAdmission(w)
          \/ WorkerStep(w)
    \/ \E p \in Peers :
          \/ AddAllowedClient(p)
          \/ \E st \in SessionStates : SessionEvent(p, st)
          \/ CallbackStep(p)
    \/ Tick

Spec == Init /\ [][Next]_vars

\* A goroutine that can run does run. A Go mutex hands itself over to a
\* goroutine that has waited a millisecond, so no waiter starves.
Fairness ==
    /\ \A w \in Workers : SF_vars(LockAdmission(w)) /\ WF_vars(WorkerStep(w))
    /\ \A p \in Peers : WF_vars(CallbackStep(p))

FairSpec == Spec /\ Fairness

-----------------------------------------------------------------------------
(* Properties.                                                             *)

ScanLocals ==
    [now : Nat, todo : SUBSET Peers, cand : Peers \union {NoPeer},
     oldest : Int, seen : Word]

CallbackLocals ==
    [pc : {"idle", "start", "load", "cas"}, next : Word,
     lease : LeaseID \union {NoLease}, seen : Word, t : Nat]

WorkerPC == {"idle", "start", "check", "scan", "cas", "forget", "reset",
             "admit", "ack"}

\* The values every variable can hold, the mutexes by whom they are held.
TypeOK ==
    /\ now \in Nat
    /\ allowedClients \subseteq Peers
    /\ clients \in [Peers -> [id : Nat, disco : Discos \union {NoPeer}]]
    /\ nm \in [Peers -> [id : Nat, disco : Discos \union {NoPeer}]]
    /\ nextClientID \in Nat
    /\ clientLeases \in [Peers -> LeaseID \union {NoLease}]
    /\ activity \in [LeaseID -> Word]
    /\ touched \in [LeaseID -> Nat]
    /\ admissionMu \in Workers \union {Unlocked}
    /\ mu \in Workers \union {Unlocked}
    /\ pc \in [Workers -> WorkerPC]
    /\ req \in [Workers -> [peer : Peers \union {NoPeer},
                            disco : Discos \union {NoPeer}]]
    /\ scan \in [Workers -> ScanLocals]
    /\ session \in [Peers -> SessionStates]
    /\ cb \in [Peers -> CallbackLocals]

\* onMeow never authorises more than h3MaxClients identities, although the
\* capacity check and the insertion are separated by an unlock of mu.
ClientBound == Cardinality(Admitted) <= MaxClients

\* "Established sessions are never reclamation targets": no step turns a
\* lease word that says established into the tombstone, whatever callback
\* lands between the scan, the re-check and the compare-and-swap.
EstablishedNeverRetired ==
    [][\A l \in LeaseID : activity[l].st = "established"
                             => activity'[l] # Retired]_vars

\* "A losing callback cannot resurrect a retired lease."
TombstoneIsFinal ==
    [][\A l \in LeaseID : activity[l] = Retired
                             => activity'[l] = Retired]_vars

\* A retired identity had published no admission or session event for the
\* grace period, less the fraction of a second the lease word drops.
RetirementRespectsGrace ==
    [][\A l \in LeaseID : activity[l] # Retired /\ activity'[l] = Retired
                             => now - touched[l] > Grace - TicksPerSecond]_vars

\* A session outlives its authorisation only while the worker that withdrew
\* it is about to reset that peer.
NoOrphanSession ==
    \A p \in Peers : session[p] # "none" /\ p \notin Admitted
        => \E w \in Workers : pc[w] = "reset" /\ scan[w].cand = p

\* "admissionMu prevents re-admission of this identity until teardown has
\* completed": an identity is admitted only with no session left over from
\* an earlier admission, so no reset can hit its new session.
AdmittedWithoutSession ==
    [][\A p \in Peers : p \notin Admitted /\ p \in Admitted'
                             => session[p] = "none"]_vars

\* Outside the window in which a retired peer is being torn down, the
\* published network map is exactly the admitted clients.
NetmapInSync ==
    (\A w \in Workers : pc[w] \notin {"reset", "admit"}) => nm = clients

\* "IDs remain unique after old clients are reclaimed": no node ID is ever
\* given out again, and none is the server's own ID 1.
NodeIDsNeverReused ==
    [][\A p \in Peers : clients'[p] # clients[p] /\ clients'[p] # NoNode
                             => clients'[p].id > nextClientID
                                /\ clients'[p].id > 1]_vars

\* A client's callbacks reach its own live lease: the map and the sync.Map
\* agree, and the lease is not a tombstone unless its claimant is about to
\* withdraw it.
LeaseOfClientIsLive ==
    \A p \in Peers :
        /\ clients[p].id = clientLeases[p]
        /\ p \in Admitted /\ activity[clientLeases[p]] = Retired
              => \E w \in Workers : pc[w] = "forget" /\ scan[w].cand = p

\* The refinement mapping. The compare-and-swap of claimRetirement is the
\* point at which an identity leaves; its removal from clients comes later.
Live == {p \in Admitted : activity[clientLeases[p]] # Retired}
Connected == {p \in Admitted : activity[clientLeases[p]].st = "established"}

Policy == INSTANCE AdmissionPolicy
             WITH authorised <- Live, connected <- Connected

\* The locks, leases and callbacks implement the abstract admission policy:
\* in particular an identity leaves only while it is not connected, however
\* callbacks, scan and claim interleave.
RefinesPolicy == Policy!PolicySpec

\* Every accepted bootstrap packet is decided and its slot freed.
EveryMeowIsDecided == \A w \in Workers : pc[w] = "start" ~> pc[w] = "idle"
=============================================================================

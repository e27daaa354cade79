-------------------------- MODULE AdmissionPolicy --------------------------
(***************************************************************************)
(* What H3 admission promises, without locks, workers, leases or time:     *)
(* a bounded set of authorised identities, from which an identity whose    *)
(* session is established is never taken.                                  *)
(***************************************************************************)
EXTENDS Naturals, FiniteSets

CONSTANTS Peers,       \* client node keys
          MaxClients   \* h3MaxClients

VARIABLES authorised,  \* identities the live policy admits
          connected    \* those whose session is known to be established

policyVars == <<authorised, connected>>

PolicyInit == authorised = {} /\ connected = {}

\* A new identity is authorised while there is room for it.
Join(p) ==
    /\ p \notin authorised
    /\ Cardinality(authorised) < MaxClients
    /\ authorised' = authorised \union {p}
    /\ UNCHANGED connected

\* Only an identity without an established session loses authorisation.
Leave(p) ==
    /\ p \in authorised \ connected
    /\ authorised' = authorised \ {p}
    /\ UNCHANGED connected

Connect(p) ==
    /\ p \in authorised
    /\ connected' = connected \union {p}
    /\ UNCHANGED authorised

Disconnect(p) ==
    /\ p \in connected
    /\ connected' = connected \ {p}
    /\ UNCHANGED authorised

PolicyNext ==
    \E p \in Peers : Join(p) \/ Leave(p) \/ Connect(p) \/ Disconnect(p)

PolicySpec == PolicyInit /\ [][PolicyNext]_policyVars
=============================================================================

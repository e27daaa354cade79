SPECIFICATION Spec
SYMMETRY Symmetric
CONSTANTS
    Peers = {p1, p2}
    NoPeer = NoPeer
    Discos = {d1}
    Workers = {w1, w2}
    Unlocked = Unlocked
    MaxClients = 1
    Grace = 2
    TicksPerSecond = 2
    AllowedAtStart = {}
    MaxTime = 3
    MaxClientID = 4
INVARIANTS
    TypeOK
    ClientBound
    NoOrphanSession
PROPERTIES
    EstablishedNeverRetired
    TombstoneIsFinal
    AdmittedWithoutSession
    RetirementRespectsGrace

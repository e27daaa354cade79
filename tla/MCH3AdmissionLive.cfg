SPECIFICATION FairSpec
CONSTANTS
    Peers = {p1, p2}
    NoPeer = NoPeer
    Discos = {d1, d2}
    Workers = {w1, w2}
    Unlocked = Unlocked
    MaxClients = 1
    Grace = 1
    TicksPerSecond = 1
    AllowedAtStart = {p1}
    MaxTime = 1
    MaxClientID = 2
PROPERTIES
    EveryMeowIsDecided
    RefinesPolicy

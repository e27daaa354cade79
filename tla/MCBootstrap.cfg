SPECIFICATION FairSpec
CONSTANTS
    Callers = {c1, c2}
    None = None
    MaxLives = 2
    MaxForgets = 1
INVARIANTS
    UpOnlyIfAcked
PROPERTIES
    PingGetsAck

SPECIFICATION Spec
CONSTANTS
    Width = 3
    SSHPort = 3
    c1 = c1
    c2 = c2
    k1 = k1
    k2 = k2
    Keys <- MCKeys
    Conns <- MCConns
    Configs <- MCConfigs
    Inherited = "inherited"
    Platforms = {"unix", "windows"}
    MaxKeys = 2
INVARIANTS
    FilterMatchesGate
    OnlyWhatIsServed
    HostKeyStable
    PeerKeyTruthful
CHECK_DEADLOCK FALSE

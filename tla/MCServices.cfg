SPECIFICATION FairSpec
CONSTANTS
    Ports = {1, 2}
    Flows = {f1, f2}
    Acceptors = {a1}
    NoListener = NoListener
    ServedTCPPorts = {1}
    ServedUDPPorts = {2}
    OnTCPPorts = {1, 2}
    OnUDPPorts = {2}
    MaxListeners = 2
INVARIANTS
    OpenIsRegistered
    GatesAgree
PROPERTIES
    NoneBlockedOnClosed

SPECIFICATION FlowFairSpec
CONSTANTS
    Users = {"in", "out", "proxy"}
    Timeout = 4
    MaxChecks = 2
PROPERTIES
    NoSpuriousClose
    IdleFlowCloses
    CloseEndsProxy

SPECIFICATION FairSpec
CONSTANTS
    Clients = {c1, c2}
    MaxChunks = 1
INVARIANTS
    DeliveredOnSuccess
    EOFBeforeExit
PROPERTIES
    BothEnd
CHECK_DEADLOCK FALSE

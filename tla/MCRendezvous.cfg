SPECIFICATION MeetSpec
CONSTANTS
    RelayMap <- MCRelayMap
    ServerIDs = {1, 2}
    Reports <- MCReports
    Hour = 9
    KeyNames = {"default", "other"}
    Default = "default"
    Genkeys = {g1, g2}
    Servers = {s1}
    RegionIDs <- MCRegionIDs
    HostLists <- MCHostLists
    CodeOf <- MCCodeOf
    Named <- MCNamed
    Home <- MCHome
    MaxKeys = 2
INVARIANTS
    AddressMeets
    KeepsAddress
CHECK_DEADLOCK FALSE
SYMMETRY Symmetry

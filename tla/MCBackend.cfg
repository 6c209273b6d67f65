SPECIFICATION Spec
CONSTANTS
    Servers = {"v1", "v2"}
    Kids = {"k1", "k2"}
    KBs = {"a", "b"}
    Ports = {6734, 6735}
    MaxMade = 2
    OddServers = {}
    Clients = {"c1", "c2"}
    NodeCount = 2
    Mirrored = TRUE
    ClusterSize = 2
    AdmindUsage = "default"
    Faults <- MCFaults
    MaxLinks = 3
    MaxRanges = 2
    OddLinks = {}
    SegmentCount = 3
    HasMirror = TRUE
    Group <- MCGroup
    MaxCalls = 2
    OddCalls = {}
    AdminClients = {"a1", "a2"}
    NodeTotal = 2
    Stores = {"s"}
    SegmentChoices = {0, 6}
    MaxCommands = 2
    MaxDown = 1
    OddAdmin = {}
    ByteSize = 32
    Jobs <- MCJobs
    SendSizes = {4}
    OddMessages = {}
INVARIANTS
    KbHasOneServer
    
    
PROPERTIES
    LinksProceed
CHECK_DEADLOCK FALSE

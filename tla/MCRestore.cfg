INIT Init
NEXT Next
CONSTANTS
    Servers = {"v1", "v2"}
    Kids = {"k1", "k2"}
    KBs = {"a", "b"}
    Ports = {6734, 6735}
    MaxMade = 2
    OddServers = {}
    Clients = {"c1", "c2"}
    NodeCount = 2
    Mirrored = TRUE
    ClusterSize = 2
    AdmindUsage = "default"
    Faults <- MCFaults
    MaxLinks = 3
    MaxRanges = 2
    OddLinks = {}
    SegmentCount = 3
    HasMirror = TRUE
    Group <- MCGroup
    MaxCalls = 2
    OddCalls = {"object"}
    AdminClients = {}
    NodeTotal = 1
    Stores = {}
    SegmentChoices = {}
    MaxCommands = 0
    MaxDown = 0
    OddAdmin = {}
    ByteSize = 32
    Jobs <- MCJobs
    SendSizes = {4}
    OddMessages = {}
CHECK_DEADLOCK FALSE
INVARIANT AnswersAreOwn

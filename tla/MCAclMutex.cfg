SPECIFICATION Spec
CONSTANTS
    Parts = {"access"}
    Connections = {"c1", "c2"}
    Asks <- MCAsks
    Scenes <- MCScenes
    SegmentSizes <- MCSizes
    PoolSize = 1
    PieceSize = 2
    OddHttp = {}
    Clients = {c1, c2, c3}
    Graphs = {"g"}
    None = None
    MaxLength = 2
    Disturbances = {}
    UpdateOps <- MCOps
    MaxOps = 2
    InitialQuads <- MCInitial
    OddUpdates = {}
    ImportGraphs <- MCImportGraphs
    Statements <- MCStatements
    HomeOf <- MCHome
    CacheSlot <- MCSlot
    ResBufSize = 3
    ChunkSize = 2
    IdRange = 2
    MaxStatements = 3
    MaxDocuments = 2
    OddImports = {}
    AclThreads = {"q1", "q2"}
    AclMain = "main"
    Users = {"adm", "u1"}
    DefaultAdmin = "adm"
    SystemConfig = "sys"
    Configs <- MCConfigs
    BoundRows <- MCRows
    OddAccess = {"no mutex"}
CHECK_DEADLOCK FALSE
INVARIANTS
    OneLoader

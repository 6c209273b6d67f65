CONSTANTS
    serverA = serverA
    serverB = serverB
    Threads = {t1, t2}
    Nobody = Nobody
    NSegments = 3
    Group <- MCGroup
    Mirrored <- MCMirrored
    QuerySets <- MCQuerySets
    Threshold = 1
    MaxCalls = 1
    MaxLost = 1
    Disturbances = {}
    VectorRids <- MCVectorRids
    SetRids <- MCSetRids
    RidNull <- MCRidNull
    FirstSize = 1
    CopyFrom = 1
    SetEntries = 2
    MaxVector = 3
    BitCount = 10
    SortKeys = {1, 2, 3}
    MaxSort = 5
    OddVectors = {}
    HashThreads = {"h1"}
    HashTexts <- MCHashTexts
    HashAttrs = {0, 1, 2}
    MaxHashes = 3
    StoredTerms <- MCTerms
    MaxStored = 2
    OddTerms = {}
SPECIFICATION MCSpec
INVARIANTS
    WaitsAreAnswered
    
    ContainersAreExact
    IdsAgree
 
CHECK_DEADLOCK FALSE

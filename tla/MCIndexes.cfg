CONSTANTS
    ra = ra
    rb = rb
    rc = rc
    m1 = m1
    m2 = m2
    o1 = o1
    o2 = o2
    Rids = {ra, rb, rc}
    Free = Free
    Vals = {0, 1}
    Hash <- MCHash
    InitSize = 2
    InitDist = 1
    MaxSize = 8
    MaxCrashes = 1
    Leaves = {l1, l2}
    Models = {m1, m2}
    Objects = {o1, o2}
    NULL = NULL
    MaxRows = 4
    Keys <- MCKeys
    Levels = 4
    Branches = 2
    KeyModels = {m1, m2}
    KeyObjects = {o1}
    KeyNull = NULL
    Inc = 3
    MaxPairs = 2
    MaxCells = 15
    TreePreds = {"p", "q", "r"}
    TreeRows = {1}
    MaxOpen = 2
    OddRing = {}
    Resources <- MCResources
    NumberChars <- MCNumberChars
    DateChars <- MCDateChars
    BucketSize = 1
    SearchDist = 2
    FirstSize = 2
    LastSize = 16
    InlineLen = 2
    SuffixLen = 3
    PrefixCount = 2
    MaxPrefixes = 4
    PrefixEdges = 2
    TrieSize = 7
    MaxPrefixLength = 5
    NearLength = 0
    OddHash = {}
    Quads <- MCQuads
    BufferRows = 2
    ChunkRows = 2
    IntRows = 8
    MaxListRows = 5
    MaxTripleRows = 3
    OddList = {}
SPECIFICATION Spec
CONSTRAINTS
    TwoPairs
    FewWithLiteral
INVARIANTS
    ModelHashIsMap
    OneReference
    TreeIsSound
    RingKeepsTrees
    ResourcesAreFiled
    ListsAreExact
PROPERTIES
    TableImplementsPairLists
    TreeImplementsPairLists
    LoopsEnd
CHECK_DEADLOCK FALSE

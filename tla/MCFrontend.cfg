SPECIFICATION Spec
CONSTANTS
    Parts = {"requests", "tables", "queries",
             "decimals", "values", "expressions", "texts", "aggregates", "resources", "output"}
    Segments = 2
    Universe <- MCUniverse
    MaxQuads = 3
    Requests <- MCRequests
    DefaultGraph = 0
    OddRequests = {}
    Columns = {1, 2, 3}
    NeededColumns = {1, 2, 3}
    Literals = {1}
    Resources = {3, 4, 5, 6, 7}
    TableNull = 2
    Cases <- MCCases
    OddCases = {}
    MaxBlocks = 7
    Queries <- MCQueries
    Stores <- MCStores
    RdfType = 6
    OddQueries = {}
    IntDigits = 2
    FracDigits = 3
    Operands <- MCOperands
    Operands2 <- MCOperands2
    OddDecimals = {}
    Lexicals = {1, 2, 3, 4, 5, 6, 7, 8, 9, 10, 11, 12, 13, 14, 15}
    EmptyLex = 1
    LexTrue = 14
    LexFalse = 11
    Negatives = {2}
    AsInteger <- MCAsInteger
    AsDouble <- MCAsDouble
    AsDecimal <- MCAsDecimal
    AsTime <- MCAsTime
    NaN = 9999
    StoredTerms <- MCStored
    QueryTerms <- MCQueryTerms
    OddValues = {}
    RowsOfTerms <- MCRowsOfTerms
    Atoms <- MCAtoms
    OddExpressions = {}
    Chars = {1, 2, 3}
    Wide = {3}
    StarChar = 2
    MaxText = 2
    Days = {1, 2}
    Hours = {1, 23}
    Minutes = {0, 30}
    OffsetHours = {0, 1, 5}
    OffsetMinutes = {0, 30}
    OddTexts = {}
    SolutionLists <- MCSolutionLists
    AggFunctions = {"count", "sum", "avg", "min", "max", "sample", "concat"}
    AggOffsets = {0, 1}
    AggLimits <- MCLimits
    OddGroups = {}
    QueryThreads = {q1, q2}
    Rids = {1, 2, 3}
    CacheSize = 2
    OddResolves = {}
    RowVars = {1, 2}
    RowTerms <- MCRowTerms
    ErrorTerms <- MCErrorTerms
    Templates <- MCTemplates
    MaxRows = 2
    MaxEscaped = 3
    OddRows = {}
INVARIANTS
    
    TablesAreRelational
    QueriesAreAnswered
    
    AggregatesAreExact
    
    
CHECK_DEADLOCK FALSE

SPECIFICATION Spec
CONSTANTS
    Models = {m1, m2}
    Triples = {t1, t2}
    GONE = GONE
    None = None
    BlockLen = 2
    InitSize = 3
    MaxSize = 6
    MaxSlots = 4
SYMMETRY Perms
CONSTRAINT Few
INVARIANTS
    OneReference
    ChainsPartitionFile
    ChainHoldsModel
CHECK_DEADLOCK FALSE

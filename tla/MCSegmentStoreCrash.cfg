CONSTANTS
    Models = {m1, m2}
    t1 = t1
    t2 = t2
    p1 = p1
    p2 = p2
    Triples = {t1, t2}
    Preds = {p1, p2}
    Pred <- MCPred
    NULL = NULL
    Disturbances = {"crash"}
SPECIFICATION Spec
INVARIANT
    ChainPredicatesKnown

SPECIFICATION Spec
CONSTANTS
    LockOrder <- TwoRelations
    Keys = {k1}
    Vals = {v1}
    Txs = {t1, t2}
    NoVal = NoVal
    Unseen = Unseen
    MaxObjid <- NoObjids
    MaxOpens = 0
    MaxUsage = 0
    IoFaults = {"apply"}
INVARIANT CacheIsDurable
CHECK_DEADLOCK FALSE

SPECIFICATION Spec
CONSTANTS
    LockOrder <- TwoRelations
    Keys = {k1}
    Vals = {v1}
    Txs = {t1, t2}
    NoVal = NoVal
    Unseen = Unseen
    MaxObjid <- NoObjids
    MaxOpens = 2
    MaxUsage = 0
    IoFaults = {}
SYMMETRY Interchangeable
CONSTRAINT FewTouched
INVARIANT TypeOK
INVARIANT AppliesOnlyFreshReads
INVARIANT TimestampsUnique
INVARIANT CacheIsDurable
PROPERTY ImplementsSerialStore
CHECK_DEADLOCK FALSE

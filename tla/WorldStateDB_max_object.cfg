SPECIFICATION Spec
CONSTANTS
    LockOrder <- OneRelation
    Keys = {k1}
    Vals = {v1}
    Txs = {t1, t2}
    NoVal = NoVal
    Unseen = Unseen
    MaxObjid = 1
    MaxOpens = 1
    MaxUsage = 0
    IoFaults = {}
INVARIANT AllocatorResumesFromDisk
CHECK_DEADLOCK FALSE

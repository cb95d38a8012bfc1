SPECIFICATION Spec
CONSTANTS
    LockOrder <- OneRelation
    Keys = {k1}
    Vals = {v1}
    Txs = {t1, t2}
    NoVal = NoVal
    Unseen = Unseen
    MaxObjid = 0
    MaxOpens = 1
    MaxUsage = 1
    IoFaults = {"apply", "sequences", "persist", "reply"}
PROPERTY CommitAnswered
CHECK_DEADLOCK FALSE

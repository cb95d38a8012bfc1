SPECIFICATION Spec
CONSTANTS
    MaxOid = 3
    MaxPid = 2
    MaxVid = 1
    MaxCalls = 4
    PropNames = {p1, p2}
    VerbNames = {n1}
    Values = {v1, v2}
    ObjAttrChoices <- FewAttrs
    Owners = {1}
    None = None
    NULL = NULL
    Err = Err
    Diverges = Diverges
INVARIANT TypeOK
INVARIANT NearestValueWins
INVARIANT PropertyReadsBack
PROPERTY OrphanNeverAdopted
CHECK_DEADLOCK FALSE

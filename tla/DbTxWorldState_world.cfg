SPECIFICATION Spec
CONSTANTS
    MaxObjects = 3
    NOTHING = NOTHING
    None = None
    Names = {n}
    PropNames = {"p"}
    Uuids = {u1}
    VerbNames = {"look"}
    VerbUuids = {vu1}
    ObjFlagChoices <- WorldObjFlags
    PropFlagChoices <- MCPropFlags
    VerbFlagChoices <- WorldVerbFlags
    Values <- WorldValues
    ArgChoices <- WorldArgs
    PropAttrChoices <- MCPropAttrs
    VerbAttrChoices <- WorldVerbAttrs
    MaxCalls = 4
    InitialWorlds <- WorldSeeds
INVARIANT TypeOK
INVARIANT EdgesBidirectional
INVARIANT ParentAcyclic
INVARIANT NoDanglingValues
INVARIANT PropertyReadsBack
INVARIANT WritesStayBelow
CHECK_DEADLOCK FALSE

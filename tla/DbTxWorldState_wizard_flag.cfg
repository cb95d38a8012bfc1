SPECIFICATION Spec
CONSTANTS
    MaxObjects = 2
    NOTHING = NOTHING
    None = None
    Names = {n}
    PropNames = {"p"}
    Uuids = {u1}
    VerbNames = {"look"}
    VerbUuids = {vu1}
    ObjFlagChoices <- MCObjFlags
    PropFlagChoices <- MCPropFlags
    VerbFlagChoices <- MCVerbFlags
    Values <- MCValues
    ArgChoices <- MCArgs
    PropAttrChoices <- MCPropAttrs
    VerbAttrChoices <- MCVerbAttrs
    MaxCalls = 4
    InitialWorlds <- FreshOnly
INVARIANT FlagPropertyReadsBack
CHECK_DEADLOCK FALSE

SPECIFICATION Spec
CONSTANTS
    NumTasks = 2
    Objs <- MCObjs
    FlagsOf <- MCFlagsOf
    InitialVerbs <- MCInitialVerbs
    ArgChoices <- MCArgChoices
    IoFails = TRUE
    MaxCalls = 3
    Bits = 4
    None = None
INVARIANT TypeOK
INVARIANT OnlyWizardsActForOthers
INVARIANT ShownAndSetAgree
CHECK_DEADLOCK FALSE

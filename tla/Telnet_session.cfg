SPECIFICATION Spec
CONSTANTS
    MaxLines = 6
    MaxInputRequests = 2
    IoFails = TRUE
    Token = Token
    None = None
INVARIANT TypeOK
INVARIANT InputAnsweredOnce
PROPERTY DetachEndsSession
CHECK_DEADLOCK FALSE

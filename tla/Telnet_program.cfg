SPECIFICATION Spec
CONSTANTS
    MaxLines = 6
    MaxInputRequests = 1
    IoFails = FALSE
    Token = Token
    None = None
INVARIANT ProgramIsWhatWasSpooled
CHECK_DEADLOCK FALSE

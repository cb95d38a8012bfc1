SPECIFICATION Spec
CONSTANTS
    MaxRequests = 5
    IoFails = TRUE
INVARIANT TypeOK
INVARIANT OwnerViewAgrees
PROPERTY ServesOnlyOpenTransaction
PROPERTY HangupEndsTransaction
CHECK_DEADLOCK FALSE

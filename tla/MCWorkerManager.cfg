CONSTANTS
    Width = 8
    Handles <- MCHandles
    MaxMsgs = 2
    MaxSends = 2
    MaxOut = 2
    SetBeforeStart = TRUE
SPECIFICATION Spec
INVARIANT TypeOK
INVARIANT CallsAgree
CHECK_DEADLOCK FALSE

CONSTANTS
    MaxMsgs = 3
    MaxWrites = 2
SPECIFICATION Spec
INVARIANT MessagesOnlyAfterAccept
CHECK_DEADLOCK FALSE

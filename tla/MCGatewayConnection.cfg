CONSTANTS
    MaxMsgs = 3
    MaxWrites = 2
SPECIFICATION Spec
INVARIANT TypeOK
INVARIANT DeliveredInOrder
INVARIANT BuffersReturnedOnClose
PROPERTY HandshakeResolves
CHECK_DEADLOCK FALSE

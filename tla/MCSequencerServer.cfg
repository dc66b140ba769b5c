CONSTANTS
    MaxStops = 2
SPECIFICATION Spec
INVARIANT TypeOK
PROPERTY StopFinishes
CHECK_DEADLOCK FALSE

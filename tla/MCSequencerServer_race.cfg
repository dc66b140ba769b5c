CONSTANTS
    MaxStops = 2
SPECIFICATION Spec
INVARIANT JoinSeesStopped
CHECK_DEADLOCK FALSE

CONSTANTS
    MaxSignals = 1
SPECIFICATION Spec
PROPERTY SigintEndsProcess
CHECK_DEADLOCK FALSE

CONSTANTS
    Logspaces = {1, 2}
    Keys = {1, 2}
    Values = {a, b}
    None = None
    MaxFaults = 1
    MaxRestarts = 1
SPECIFICATION Spec
INVARIANT OpensItsOwnData
CHECK_DEADLOCK FALSE

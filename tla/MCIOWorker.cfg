CONSTANTS
    c1 = c1
    c2 = c2
    f1 = f1
    f2 = f2
    NoOwner = NoOwner
    Conns <- MCConns
    Fns <- MCFns
    Typed <- MCConns
    MaxPicks = 2

SPECIFICATION Spec

INVARIANT TypeOK
INVARIANT SingleOwner
INVARIANT ClosingCountExact
INVARIANT PipeClosedOnlyWhenDrained

PROPERTY StopCompletes
PROPERTY QueuedBeforeStopIsHandled
INVARIANT PickCacheExact

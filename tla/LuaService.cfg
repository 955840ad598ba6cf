\* Two services, dispatched at the same time, with two coroutines and, after the
\* one of skynet.start, two sessions each; three operations between them, enough
\* for two calls to a service that exits, or a sleep and the wake-up that races
\* its timeout.
SPECIFICATION Spec
CONSTANTS
    Service = {a, b}
    Workers = 2
    MaxSession = 3
    MaxCo = 2
    MaxOp = 3
    NULL = NULL
SYMMETRY Symmetry
INVARIANTS
    SessionsMatch
    QueuesDrained
    
    
    DownIsDown
CHECK_DEADLOCK FALSE

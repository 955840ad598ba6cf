\* A service that may launch a second one, kill both and abort, and two workers, so that
\* one service sends to the other, or to itself, while it is being killed.  After the
\* start message two more are sent, enough for one to overtake the other.
CONSTANTS
    s1 = s1  s2 = s2  w1 = w1  w2 = w2  timer = timer
    NULL = NULL
    Svc = {s1, s2}
    Worker = {w1, w2}
    Outside = {}
    Boot = {s1}
    MaxSend = 3
    Weight <- WholeQueue
SYMMETRY Symmetry
SPECIFICATION Spec
CHECK_DEADLOCK FALSE
INVARIANTS
    TypeOK QueueExclusive QueueNotLost SerialDispatch RefCounted NoDangling
    DispatchInited DeletedOnce TotalCounts
PROPERTIES FifoPerSource

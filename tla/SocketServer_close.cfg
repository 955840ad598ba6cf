\* One connection, on which one service sends while another closes it.
SPECIFICATION Spec
CONSTANTS
    Sender = {a, b}
    MAX_SOCKET = 1
    MAX_SENDING = 2
    MaxId = 1
    PipeSize = 2
    MaxCall = 3
    NULL = NULL
SYMMETRY Symmetry
INVARIANT ClosingWaits
CHECK_DEADLOCK FALSE

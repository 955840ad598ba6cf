\* Four ids on two slots, so that a slot is used again by a later id; two services
\* that make four calls between them: open, send twice and close, or listen,
\* start, start the accepted connection and send.  QuietSpec leaves out the commands
\* on a slot's old id that are taken between the type and the id of reserve_id: under
\* Spec AssertionsHold and PendingIsWatched fail within these bounds, and CloseOnce
\* with MaxCall = 5 and one slot.
SPECIFICATION QuietSpec
CONSTANTS
    Sender = {a, b}
    MAX_SOCKET = 2
    MAX_SENDING = 2
    MaxId = 4
    PipeSize = 2
    MaxCall = 4
    NULL = NULL
SYMMETRY Symmetry
INVARIANTS
    AssertionsHold
    CloseOnce
    WriteOrder
    GracefulClose
    PendingIsWatched
    SendingCounted
CHECK_DEADLOCK FALSE

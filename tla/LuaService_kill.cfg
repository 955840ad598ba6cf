\* As LuaService.cfg, with killthread.
SPECIFICATION KillSpec
CONSTANTS
    Service = {a, b}
    Workers = 2
    MaxSession = 3
    MaxCo = 2
    MaxOp = 3
    NULL = NULL
SYMMETRY Symmetry
INVARIANT DownIsDown
CHECK_DEADLOCK FALSE

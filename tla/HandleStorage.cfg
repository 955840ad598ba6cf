\* One launcher (the launcher service), a thread that aborts the process and
\* others that retire and name services: the table grows from 2 to 4 slots and
\* handle_index wraps at 3.
CONSTANTS
    c1 = c1  c2 = c2  c3 = c3  c4 = c4  c5 = c5  l1 = l1  l2 = l2  k1 = k1
    NULL = NULL
    Ctx = {c1, c2, c3}
    Launcher = {l1}
    Aborter = {k1}
    Name = {1, 2}
    HANDLE_MASK = 3
    DEFAULT_SLOT_SIZE = 2
    Harbor = 4
SYMMETRY Symmetry
SPECIFICATION Spec
CHECK_DEADLOCK FALSE
INVARIANTS Resolvable NamesFound RetireAllComplete FailsOnlyAtLimits

\* Two threads launch services at the same time, with the code's own table size.
CONSTANTS
    c1 = c1  c2 = c2  c3 = c3  c4 = c4  c5 = c5  l1 = l1  l2 = l2  k1 = k1
    NULL = NULL
    Ctx = {c1, c2, c3, c4, c5}
    Launcher = {l1, l2}
    Aborter = {k1}
    Name = {1}
    HANDLE_MASK = 15
    DEFAULT_SLOT_SIZE = 4
    Harbor = 16
SYMMETRY Symmetry
SPECIFICATION Spec
CHECK_DEADLOCK FALSE
INVARIANTS RehashAssertion

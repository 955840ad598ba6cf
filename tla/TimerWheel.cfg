\* A word of 4 bits: 2 near lists and 3 levels of 2 lists; the time wraps.
CONSTANTS
    TIME_NEAR = 2
    TIME_LEVEL = 2
    LEVELS = 3
    Node = {n1, n2}
    MaxTime = 7
    MaxDiff = 2
SPECIFICATION FairSpec
INVARIANTS FiresOnTime InItsCell SameTickInOrder
PROPERTIES Fires

\* The same services under fairness, with workers of different weights.
CONSTANTS
    s1 = s1  s2 = s2  w1 = w1  w2 = w2  timer = timer
    NULL = NULL
    Svc = {s1, s2}
    Worker = {w1, w2}
    Outside = {}
    Boot = {s1}
    MaxSend = 2
    Weight <- MixedWeights
SPECIFICATION FairSpec
CHECK_DEADLOCK FALSE
PROPERTIES MessagesDrained RetiredReclaimed

\* Two workers; three pushes are enough for a push at each point of a worker's
\* way to sleep and back.
CONSTANTS
    Worker = {"w1", "w2"}
    MaxTotal = 2
    MaxPush = 3
SPECIFICATION FairSpec
INVARIANTS NobodySleepsAfterQuit
PROPERTIES WorkIsTaken Shutdown

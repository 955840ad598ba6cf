\* Three nodes, so that a node may join while another still waits for connections.
\* The network may grow to three nodes and do two more things, a registration and
\* a message to the name, or stay at two nodes and do three.
SPECIFICATION Spec
CONSTANTS
    Nodes = 3
    Name = {"x"}
    MaxOp = 5
    NULL = NULL
INVARIANTS
    FullMesh
    DestinationKnown
    InOrder
    AnswerComing
CHECK_DEADLOCK FALSE

\* Two expansions (2 -> 4 -> 8) from every position of head, thresholds 1, 2, 4.
CONSTANTS
    Message = {"a", "b"}
    NoMessage = "none"
    DEFAULT_QUEUE_SIZE = 2
    MQ_OVERLOAD = 1
    MaxLen = 5
SPECIFICATION Spec
PROPERTIES OverloadOncePerDoubling FifoSpec

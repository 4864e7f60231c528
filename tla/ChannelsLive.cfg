\* Every connection ends on both sides.
SPECIFICATION FairSpec
CHECK_DEADLOCK FALSE
CONSTANTS
    Conns = {c1, c2}
    MaxId = 2
    First = {1}
    Chunks = 1
    Replies = 0
    QueueSize = 1
    Wire = 2
    Slow = {}
    Hibernates = TRUE
    None = None
PROPERTIES
    Settles

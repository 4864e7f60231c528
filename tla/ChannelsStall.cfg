\* A local service that stops reading stalls the other connections for good.
SPECIFICATION FairSpec
CHECK_DEADLOCK FALSE
CONSTANTS
    Conns = {c1}
    MaxId = 1
    First = {1}
    Chunks = 1
    Replies = 1
    QueueSize = 1
    Wire = 2
    Slow = {c1}
    Hibernates = FALSE
    None = None
PROPERTIES
    NoLastingStall

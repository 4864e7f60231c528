\* Two connections of the TypeScript client, one of which may stop reading.
SPECIFICATION SessionFairSpec
CHECK_DEADLOCK FALSE
CONSTANTS
    Conns = {c1, c2}
    MaxId = 2
    First = {1}
    Chunks = 2
    Replies = 1
    QueueSize = 1
    Wire = 2
    Slow = {c2}
    Hibernates = FALSE
    High = 1
    Low = 0
    Uploading = {c2}
    Replying = {c1}
    None = None
INVARIANTS
    BufferIsBounded
    NothingIsLeft
PROPERTIES
    StreamSpec
    SettlesBeside

\* Two connections over one bridge.
SPECIFICATION Spec
CHECK_DEADLOCK FALSE
CONSTANTS
    Conns = {c1, c2}
    MaxId = 2
    First = {2}
    Chunks = 2
    Replies = 1
    QueueSize = 1
    Wire = 2
    Slow = {}
    Hibernates = FALSE
    None = None
SYMMETRY Symmetry
INVARIANTS
    TypeOK
    RunningIsHeld
PROPERTIES
    EndsItsOwn
    StreamSpec

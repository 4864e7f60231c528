\* Two names, two WebSockets of which one may linger at the server, two losses.
SPECIFICATION FairSpec
CHECK_DEADLOCK FALSE
CONSTANTS
    Names = {a, b}
    Sockets = {s1, s2}
    MaxAttempt = 2
    MaxLosses = 1
    None = None
INVARIANTS
    OneBridge
    NamesAgree
PROPERTIES
    KeepsBackingOff
    Closes
    Connects

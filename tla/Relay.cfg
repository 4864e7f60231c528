\* Twelve inputs, two replies, two faults.
SPECIFICATION FairSpec
CHECK_DEADLOCK FALSE
CONSTANTS
    RandomSize = 32
    Domain = 9
    HelloLimit = 120
    Attached = {1, 3}
    Replies = 2
    MaxFaults = 2
    Inputs <- Wires
INVARIANTS
    Whole
    RoutesByName
    Recognized
PROPERTIES
    Released

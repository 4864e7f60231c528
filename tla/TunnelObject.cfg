\* Every call to the platform is answered once; two invocations interleave.
SPECIFICATION Spec
CONSTANTS
    Bridges = {b1, b2}
    Routes = {r1, r2}
    CSRs = {c1, c2}
    CertIDs = {i1, i2, i3}
    Handlers = {h1, h2}
    Faults = {}
    None = None
SYMMETRY Symmetry
INVARIANTS
    TypeOK
    RouteExclusive
    StateTracksBridges
    RenewalIsRunning
    AlarmCovers
PROPERTIES
    ReadyKeepsServing
    DeletedForGood
    LeaseSpec

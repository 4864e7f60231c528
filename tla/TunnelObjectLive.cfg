\* No symmetry: a liveness property.
SPECIFICATION FairSpec
CONSTANTS
    Bridges = {b1, b2}
    Routes = {r1}
    CSRs = {c1}
    CertIDs = {i1, i2}
    Handlers = {h1, h2}
    Faults = {}
    None = None
PROPERTIES
    DueIsRenewed

\* Workflow calls fail, instances die in silence, the object is restarted.
SPECIFICATION Spec
CONSTANTS
    Bridges = {b1}
    Routes = {r1}
    CSRs = {c1, c2}
    CertIDs = {i1, i2, i3}
    Handlers = {h1, h2}
    Faults = {"rpc-fails", "restart"}
    None = None
SYMMETRY Symmetry
INVARIANTS
    ServedKeyIsTheClients

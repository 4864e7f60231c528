\* One client at a time, ended and started again anywhere.
SPECIFICATION Spec
CONSTANTS
    Clients = {cli}
    Daemons = {}
    Tunnels = {t1, t2}
    Keys = {k1, k2, k3}
    MaxSerial = 2
    None = None
SYMMETRY Symmetry
INVARIANT
    Consistent
PROPERTIES
    KeyIsKept
    StaysWhole

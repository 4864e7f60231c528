\* Two tunnels, two keys, two certificates, one process that ends early.
SPECIFICATION FairSpec
CONSTANTS
    Tunnels = {t1, t2}
    Keys = {k1, k2}
    MaxSerial = 2
    MaxCrashes = 1
    Relapses = TRUE
    Faults = {}
    Empty = Empty
    None = None
    PublicKey <- P256
    HostnameSizes <- Sizes
    Numbers <- Values
INVARIANTS
    RequestIsRead
    Consistent
PROPERTIES
    KeyIsStored
    CreatesForNone
    Provisions

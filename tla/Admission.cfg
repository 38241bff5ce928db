SPECIFICATION FairSpec
CONSTANTS
    Conn = {c1, c2, c3}
    Local = local
    Address = {local, a1, a2}
    ReconnectLimit = 1
    MaxPerIP = 1
INVARIANT
    AddressLimit
PROPERTY
    PersistentGetsIn

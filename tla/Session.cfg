SPECIFICATION Spec
CONSTANTS
    Conn = {c1, c2}
    Account = {a1, a2}
    Char = {h1, h2}
    Absent = Absent
    MaxPlayers = 2
    MaxCharacters = 2
    PacketQueueMax = 1
    MaxLoginAttempts = 2
    QuestsThrow = FALSE
    MaxQueued = 1
SYMMETRY Symmetry
CONSTRAINT QueuesSmall
INVARIANTS
    SessionLinked
    OneClientPerAccount
    WorldMatchesSessions
    LoadedMatchesDatabase
    UniquePlayerIds
PROPERTY
    ClosedNeverServes

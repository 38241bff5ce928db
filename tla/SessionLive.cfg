SPECIFICATION FairSpec
CONSTANTS
    Conn = {c1}
    Account = {a1}
    Char = {h1}
    Absent = Absent
    MaxPlayers = 1
    MaxCharacters = 1
    PacketQueueMax = 1
    MaxLoginAttempts = 0
    QuestsThrow = TRUE
    MaxQueued = 2
PROPERTIES
    BadClientsFreed

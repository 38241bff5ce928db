SPECIFICATION Spec
CONSTANTS
    NCharacters = 2
    Tag = {t, u}
    Object = {o1, o2}
    None = None
    GuildCreateMembers = 2
    GuildBankMax = 2
    RecruitCost = 2
    GuildKickRank = 1
    GuildPromoteRank = 1
    GuildPromoteSameRank = 1
    GuildDemoteRank = 1
    GuildRecruitRank = 1
    GuildDisbandRank = 0
    GuildEditRank = 1
    GuildMultipleFounders = TRUE
    MaxRank = 1
    Founding = {u}
    ActsOnStale = FALSE
SYMMETRY Symmetry
CONSTRAINT Small
INVARIANTS CachesAlive LoadedWhileUsed OneGuildPerTag MembersListed
PROPERTIES BankKept CommitsConsistent
CHECK_DEADLOCK FALSE

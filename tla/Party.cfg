SPECIFICATION QuestSpec
CONSTANTS
    Char = {c1, c2, c3, c4}
    c1 = c1
    c2 = c2
    c3 = c3
    c4 = c4
    Group = {g1, g2}
    None = None
    Requests <- Circle
    MaxEntries = 1
    StrayKicks = FALSE
    Absent = Absent
    LastQuest = 1
    Scripts <- Stories
    Places = {"town", "wild"}
    Home = "town"
    MaxItem = 1
    MaxDepth = 5
    MaxLeak = 1
    KillShare = TRUE
    ReloadsAgain = FALSE
CONSTRAINT Calm
SYMMETRY GroupSymmetry
INVARIANTS
    MembershipKnown
    MembersMatch
    HandlersUnwind
    RewardedOnce

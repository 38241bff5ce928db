SPECIFICATION RealmSpec
CONSTANTS
    a = a
    b = b
    Char = {a, b}
    PetOwner = {a}
    boss = boss
    guard = guard
    Limit = 3
    Npc = {guard, boss, priest, law}
    priest = priest
    law = law
    Serving = {priest, law}
    Priest = {priest}
    Law = {law}
    DivorcesStale = FALSE
    ReusesMemory = FALSE
    Dangling = Dangling
    Order <- File
    Temporary = {t}
    Pet = {p, q}
    Boss = {boss}
    Child = {guard, t}
    Guarded = {boss}
    Home = home
    Elsewhere = elsewhere
    ArenaMap = elsewhere
    Marks = 2
    MaxHp = 2
    Exp = 10
    ShareMode = 2
    RespawnBossChildren = TRUE
    RemoteReloads = FALSE
    MaxTotal = 2
    None = None
CONSTRAINTS Few Peace
SYMMETRY Symmetric
INVARIANTS
    OpponentsMatch
    
    KillOwned
    ServedByLiving
    MarriagesMutual
    OccupantsCounted
    ChildrenFall
    PetsFollow

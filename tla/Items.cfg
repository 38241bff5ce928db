SPECIFICATION Spec
CONSTANTS
    Char = {a, b}
    PetOwner = {a}
    ring = ring
    Gold = gold
    Item = {gold, ring}
    Wearable = {ring}
    Amounts = {1, 2}
    MaxItem = 1
    MaxPetItem = 2
    MaxBank = 1
    MaxBankGold = 1
    MaxChest = 2
    MaxTile = 1
    MaxShopBuy = 2
    MaxDrop = 2
    BaseBankSize = 0
    BankSizeStep = 1
    MaxBankUpgrades = 1
    BankUpgradeBase = 1
    BankUpgradeStep = 0
    PetSlots = 1
    ChestSlots = 2
    Price = 1
    ShopTrade <- Trades
    ShopCraft <- Crafts
    Spawns <- Appears
    MaxInt = 3
    MaxNet <- Bounds
CONSTRAINT Few
INVARIANTS
    LimitsKept
PROPERTIES
    ItemsConserved

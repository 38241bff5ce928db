SPECIFICATION Spec
CONSTANTS
    Name = {hero, mage}
    Value = {0, 1}
    New = 0
    None = None
    Attempts = 2
    MaxLog = 2
    MaxPets = 1
    MaxFaults = 2
INVARIANTS
    TransactionMatches
PROPERTIES
    StoreKept

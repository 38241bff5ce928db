SPECIFICATION Spec
CONSTANTS
    a = a
    Char = {a}
    Address = {1, 2, 3, 4}
    Pump = 2
    Speed <- Speeds
    Steps = 2
    MaxLag = 1
    None = None
INVARIANTS
    EventsMatch
PROPERTIES
    AlarmsRing

SPECIFICATION Spec
CONSTANTS
    Packet = {"p", "q"}
    Typed = {"s", "t"}
    File = {"map", "full", "big"}
    Map = {"map"}
    Length <- Lengths
    FileSize <- FileSizes
    Header = 2
    Size = 4
    RecvSize = 2
    Chunk = 3
    MaxNet = 4
    None = None
    Blank = Blank
CHECK_DEADLOCK FALSE
INVARIANTS
    PacketsWhole
PROPERTIES
    PacketsDelivered

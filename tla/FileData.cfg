CONSTANTS
    Sources = {p1, p2}
    Holds <- AllHold
    Leaving = {p2}
    FileSize = 4
    ChunkSize = 3
    SizeHints = {2, 3}
    Packet = 1
    MaxPerPeer = 2
    Assume = TRUE
    CheckWhileOpen = FALSE
    Word = 8
    MaxRequests = 1
    MaxLost = 1
    MaxBad = 1
    MaxIdle = 1
    MaxLeaves = 0
    MaxForced = 1
SPECIFICATION Spec
CHECK_DEADLOCK FALSE
INVARIANTS
    TypeOK
    MissingIsAsked
    RemainsIsOpen
    TotalIsHeld
PROPERTY
    FinishedIsWhole

CONSTANTS
    SeqMod = 16
    MaxSeg = 2
    MaxWin = 2
    MaxQueue = 3
    MaxRetransmit = 1
    MaxSynRetransmit = 1
    ISN <- FromZero
    WriteSizes = {6}
    ReadSizes = {3}
    MaxBytes = 6
    MaxLosses = 2
    MaxRepeats = 0
    MaxFaults = 2
    Openers = {1}
    Writers = {1}
    HalfClosers = {}
    Closers = {}
    Timeouts <- KeepAlive
    Patient = TRUE
SPECIFICATION FairSpec
CHECK_DEADLOCK FALSE
INVARIANTS
    BufferBounded
PROPERTIES
    SendsWithinWindows
    OpeningEnds
    LastByteArrives

CONSTANTS
    SeqMod = 32
    MaxSeg = 2
    MaxWin = 4
    MaxQueue = 3
    MaxRetransmit = 0
    MaxSynRetransmit = 0
    ISN <- TwoOpensEach
    WriteSizes = {2}
    ReadSizes = {}
    MaxBytes = 2
    MaxLosses = 0
    MaxRepeats = 0
    MaxFaults = 0
    Openers = {1, 2}
    Writers = {1}
    HalfClosers = {1}
    Closers = {1, 2}
    Timeouts <- NoTimeouts
    Patient = FALSE
SPECIFICATION Spec
CHECK_DEADLOCK FALSE
INVARIANTS
    FromThisStream

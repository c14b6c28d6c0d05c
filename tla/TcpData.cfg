CONSTANTS
    SeqMod = 16
    MaxSeg = 1
    MaxWin = 2
    MaxQueue = 3
    MaxRetransmit = 0
    MaxSynRetransmit = 0
    ISN <- Rollover
    WriteSizes = {3}
    ReadSizes = {3}
    MaxBytes = 3
    MaxLosses = 1
    MaxRepeats = 1
    MaxFaults = 1
    Openers = {1}
    Writers = {1}
    HalfClosers = {1}
    Closers = {}
    Timeouts <- Retransmits
    Patient = TRUE
SPECIFICATION Spec
CHECK_DEADLOCK FALSE
INVARIANTS
    TypeOK
    AcksAreReceipts
    NoGaps
    NothingForgotten
    EndOfStreamIsLast
PROPERTY ImplementsByteStream

CONSTANTS
    SeqMod = 16
    MaxSeg = 2
    MaxWin = 4
    MaxQueue = 3
    MaxRetransmit = 0
    MaxSynRetransmit = 0
    ISN <- Rollover
    WriteSizes = {1}
    ReadSizes = {3}
    MaxBytes = 2
    MaxLosses = 1
    MaxRepeats = 1
    MaxFaults = 2
    Openers = {1, 2}
    Writers = {1}
    HalfClosers = {}
    Closers = {}
    Timeouts <- Retransmits
    Patient = FALSE
SPECIFICATION Spec
CHECK_DEADLOCK FALSE
INVARIANTS
    StartsAtFirst

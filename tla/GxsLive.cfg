SPECIFICATION FairSpec
CONSTANTS
    Peers = {p, q}
    Messages = {m1, m2}
    Publishers = {q}
    Seekers = {p}
    Invalid = {}
    MaxRequest = 1
    MaxOverlaps = 0
    MaxStamp = 2
    Faults = {"timeout", "disconnect", "crash", "deferral"}
    MaxFaults = 1
INVARIANTS
    TypeOK
    

    
CHECK_DEADLOCK FALSE

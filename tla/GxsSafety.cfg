SPECIFICATION Spec
CONSTANTS
    Peers = {p, q}
    Messages = {m1, m2}
    Publishers = {q}
    Seekers = {p}
    Invalid = {m2}
    MaxRequest = 1
    MaxOverlaps = 1
    MaxStamp = 2
    Faults = {}
    MaxFaults = 1
INVARIANTS
    NoMixing
    
PROPERTIES
    StampNeverGoesBack
CHECK_DEADLOCK FALSE

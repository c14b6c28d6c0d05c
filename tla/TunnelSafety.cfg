SPECIFICATION Spec
CONSTANTS
    ClientItems = {d1}
    ServerItems = {}
    Routes = {r1}
    MaxRequests = 2
    MaxDigs = 2
    MaxKeys = 3
    Events = {"close", "keepalive", "again", "silence", "idle", "loss", "old"}
    MaxEvents = 2
INVARIANTS
    TypeOK
    AckedIsDelivered
    
    TalksUnderKey
    QuietKeysAgree
CHECK_DEADLOCK FALSE

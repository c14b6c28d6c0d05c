CONSTANTS
    c1 = c1
    c2 = c2
    Configs = {c1, c2}
    Failures = {"serialise", "fwrite", "fclose", "sign", "rename"}
    MaxChanges = 2
    MaxFailures = 1
    MaxDiscFull = 1
    MaxCrashes = 1
SPECIFICATION FairSpec
CHECK_DEADLOCK FALSE
INVARIANTS
    TypeOK
    DiskHoldsSaved
    NoLostUpdate
    LoadsWhole
    ExitSaves
PROPERTY ChangeIsSaved

CONSTANTS
    c1 = c1
    Configs = {c1}
    Failures = {}
    MaxChanges = 3
    MaxFailures = 0
    MaxDiscFull = 0
    MaxCrashes = 2
SPECIFICATION Spec
CHECK_DEADLOCK FALSE
PROPERTIES
    RestartRecovers

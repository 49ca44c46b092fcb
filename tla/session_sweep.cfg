SPECIFICATION Spec
CONSTANTS
    b1 = b1
    b2 = b2
    Browsers = {b1, b2}
    MaxContexts = 3
    MaxRaw = 1
    MaxClean = 2
    MaxIdle = 0
    MaxResults = 1
    Resetters = {b1, b2}
    Scanners = {b1}
    Active = {}
CHECK_DEADLOCK FALSE
INVARIANTS ListedIsThere NoHiddenCopy
PROPERTY SweepSparesLive

SPECIFICATION FairSpec
CONSTANTS
    b1 = b1
    b2 = b2
    Browsers = {b1, b2}
    MaxContexts = 4
    MaxRaw = 1
    MaxClean = 0
    MaxIdle = 0
    MaxResults = 1
    Resetters = {}
    Scanners = {b1}
    Active = {b1}
CHECK_DEADLOCK FALSE
PROPERTY IdleIsForgotten

SPECIFICATION Spec
CONSTANTS
    w1 = w1
    w2 = w2
    w3 = w3
    s1 = s1
    s2 = s2
    Writers = {w1, w2}
    Sinks = {s1, s2}
    SinkOf <- SinkPerSession
    Days = 1
    MaxRecords = 2
    Faults = {}
    Genesis = Genesis
    Free = Free
INVARIANT ChainIntact

SPECIFICATION FairSpec
CONSTANTS
    w1 = w1
    w2 = w2
    w3 = w3
    s1 = s1
    s2 = s2
    Writers = {w1, w2, w3}
    Sinks = {s1}
    SinkOf <- OneSink
    Days = 2
    MaxRecords = 4
    Faults = {}
    Genesis = Genesis
    Free = Free
INVARIANTS ChainIntact AckedReadable
PROPERTIES ImplementsTrail AppendEnds

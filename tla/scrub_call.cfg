SPECIFICATION Spec
CONSTANTS
    ssn = ssn
    spaced = spaced
    name = name
    key = key
    Values = {ssn, spaced, name}
    Types = {"US_SSN", "PERSON", "API_KEY"}
    TypeOf <- ValueTypes
    PassOf <- ValuePasses
    ChunkOf <- ValueChunks
    N = 2
    Abuts <- NoNeighbours
    Required = {"presidio", "custom_security", "spacy"}
    Asked <- AllRequests
    Faults = {"detector", "slow", "second", "nlp", "recheck", "audit"}
CHECK_DEADLOCK FALSE
INVARIANTS CoverageIsTrue AuditedOrWarned GatesHold NoActionedSurvivor CleanScrubPublishes

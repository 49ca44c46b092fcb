SPECIFICATION RetentionSpec
CONSTANTS
    doc1 = doc1
    doc2 = doc2
    orig1 = orig1
    orig2 = orig2
    text1 = text1
    alice = alice
    sweeper = sweeper
    run1 = run1
    token1 = token1
    Docs = {doc1, doc2}
    Keys = {orig1, orig2, text1}
    OriginalOf <- Originals
    TextsOf <- Texts
    Deleters = {alice, sweeper}
    Workspace = Workspace
    Indexed = {doc1}
    Faults = {"store", "raise", "crash"}
    MaxFaults = 1
    Sweeper = sweeper
    Runs = {run1}
    Sessions = {token1}
    Born <- Births
    Started <- OldRuns
    Expires <- OldSessions
    Limit = 1
    Requested = {Workspace, doc1}
    Periods = {1, 2}
    Settings <- Beginnings
    Upserts <- Settable
    FirstDay = 2
    LastDay = 3
    None = None
CHECK_DEADLOCK FALSE
INVARIANTS OriginalGoesFirst RemovalsAreLogged
PROPERTIES NothingYoung OverdueGoes

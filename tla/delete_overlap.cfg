SPECIFICATION FairSpec
CONSTANTS
    doc1 = doc1
    doc2 = doc2
    orig1 = orig1
    orig2 = orig2
    text1 = text1
    text2 = text2
    text3 = text3
    alice = alice
    sweeper = sweeper
    Docs = {doc1, doc2}
    Keys = {orig1, orig2, text1, text3}
    OriginalOf <- Originals
    TextsOf <- Texts
    Deleters = {alice, sweeper}
    Workspace = Workspace
    Indexed = {doc2}
    Faults = {"store", "raise", "crash"}
    MaxFaults = 1
CHECK_DEADLOCK FALSE
INVARIANTS CompleteIsGone
PROPERTIES ImplementsErasure Converges

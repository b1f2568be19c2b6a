\* Two lanes with one commit of their workers each; every order of calls.
SPECIFICATION Spec
CONSTANTS
    l1 = l1
    l2 = l2
    Lanes = {l1, l2}
    Order <- MCOrder
    NoCommit = NoCommit
    MaxTip = 2
    MaxExtra = 1
    FixRounds = 1
    G3Runs = 2
    Glue = TRUE
    Faults = {"git", "gate"}
INVARIANTS
    TypeOK
    
    LanesMergeInOrder

    
CHECK_DEADLOCK FALSE

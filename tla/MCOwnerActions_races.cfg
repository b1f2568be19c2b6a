\* Two requesters, two actions, one direct acceptance, one external commit.
SPECIFICATION FairActionSpec
CONSTANTS
    Acceptors = {x1, x2, d}
    Actions = {x1, x2}
    Requesters = {q1, q2}
    Rejecters = {}
    Base = Base
    Candidate = Candidate
    Externals = {e1}
    GateEnabled = TRUE
    Faults = {"crash", "restart", "database"}
INVARIANTS
    ActionTypeOK
    OneAcceptChild
    ActionsTellTheTruth
PROPERTIES
    ActionsEnd
    
CHECK_DEADLOCK FALSE

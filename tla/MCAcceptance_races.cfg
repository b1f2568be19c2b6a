\* Three acceptors of one run, two external commits, every fault.
SPECIFICATION Spec
CONSTANTS
    Acceptors = {a1, a2, a3}
    Rejecters = {r1}
    Base = Base
    Candidate = Candidate
    Externals = {e1, e2}
    GateEnabled = TRUE
    Faults = {"crash", "sync", "database", "edit"}
SYMMETRY Symmetry
INVARIANTS
    TypeOK
    AcceptedIsIntegrated
    OneInstaller
    
PROPERTIES
    ExternalsKept
CHECK_DEADLOCK FALSE

\* One scheduler, one canceller; every fault, runs that die while they are being
\* preempted included.
SPECIFICATION Spec
CONSTANTS
    Runs = {r1, r2, r3}
    NoRun = NoRun
    Jobs = {j1}
    Schedulers = {s1}
    Cancellers = {c1}
    NoJob = NoJob
    NoHolder = NoHolder
    MaxPreemptions = 2
    Limit = 1
    Faults = {"crash", "expire", "tailCrash", "orphan", "busy", "reserveError", "launchError", "readError"}
SYMMETRY RunSymmetry
INVARIANTS
    TypeOK
    PreemptionsCounted
CHECK_DEADLOCK FALSE

\* Two schedulers over one job: the lease is lost and processes die between any
\* two transactions.
SPECIFICATION Spec
CONSTANTS
    Runs = {r1, r2}
    NoRun = NoRun
    Jobs = {j1}
    Schedulers = {s1, s2}
    Cancellers = {}
    NoJob = NoJob
    NoHolder = NoHolder
    MaxPreemptions = 1
    Limit = 1
    Faults = {"crash", "expire", "reserveError"}
SYMMETRY RaceSymmetry
INVARIANTS
    OnlyCurrentRunLives
    LiveGenerationCharged
PROPERTIES
    ImplementsLifecycle
CHECK_DEADLOCK FALSE

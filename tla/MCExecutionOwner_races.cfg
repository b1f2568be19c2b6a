\* Two supervisor processes that do everything, three children: launches,
\* recoveries, cancellations and crashes in any order.
SPECIFICATION Spec
CONSTANTS
    t1 = t1
    t2 = t2
    p1 = p1
    p2 = p2
    Processes = {p1, p2}
    Threads = {t1, t2}
    ProcessOf <- MCProcessOf
    Children = {c1, c2, c3}
    Nobody = Nobody
    Eligible <- Both
    Operations = {"launch", "reconcile", "recover", "cancel"}
    Faults = {"crash", "popen"}
    MaxGen = 3
SYMMETRY Symmetry
INVARIANTS
    TypeOK
    OneExecutor
    ExecutorHoldsTheClaim
PROPERTIES
    NewerGenerationKept
CHECK_DEADLOCK FALSE

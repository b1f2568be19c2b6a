\* Two jobs, two callers that read and write later, two dispatches and one key.
SPECIFICATION Spec
CONSTANTS
    Runs = {r1, r2}
    NoRun = NoRun
    Jobs = {j1, j2}
    Clients = {c1, c2}
    Keys = {k1}
    NoKey = NoKey
    Digests = {d1, d2}
    NoJob = NoJob
    MaxEvents = 5
SYMMETRY Symmetry
INVARIANTS
    TypeOK
    EveryRowMaterialises
    EventsReplayState
    ParksFollowTheirDispatch
    IdempotentAnswers
PROPERTIES
    ImplementsLifecycle
CHECK_DEADLOCK FALSE

\* Two clients, two recovering supervisors, three messages and room for two.
SPECIFICATION Spec
CONSTANTS
    m1 = m1
    m2 = m2
    m3 = m3
    Clients = {c1, c2}
    Recoverers = {r1, r2}
    Messages = {m1, m2, m3}
    MaxPending = 2
    Nobody = Nobody
    Faults = {"crash", "raise", "unsafe"}
SYMMETRY Symmetry
INVARIANTS
    TypeOK
    PendingOnlyUnderControl
    OwnerFollowsMode
PROPERTIES
    OutcomeIsFinal
    ImplementsControl
CHECK_DEADLOCK FALSE

\* The owner under fairness; two clients ask for control, write, interrupt and resume.
SPECIFICATION FairSpec
CONSTANTS
    m1 = m1
    m2 = m2
    m3 = m3
    Clients = {c1, c2}
    Recoverers = {}
    Messages = {m1, m2}
    MaxPending = 2
    Nobody = Nobody
    Faults = {"crash"}
PROPERTIES
    MessagesAreAnswered
    TakeoversAreGranted
CHECK_DEADLOCK FALSE

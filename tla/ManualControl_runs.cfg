CONSTANTS
    r1 = r1
    r2 = r2
    r3 = r3
    c1 = c1
    c2 = c2
    p1 = p1
    p2 = p2
    Runs = {r1, r2, r3}
    Clients = {c1, c2}
    Ports = {p1, p2}
    Nobody = Nobody
SPECIFICATION FairSpec
INVARIANTS
    RunningBotIsFound
PROPERTIES
    ImplementsManualTrigger
    SentIsRead
CHECK_DEADLOCK FALSE

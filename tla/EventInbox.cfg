\* Deliveries, claims and takeovers of two events, and the application of one.
CONSTANTS
    e1 = e1
    e2 = e2
    d1 = d1
    d2 = d2
    d3 = d3
    d4 = d4
    g1 = g1
    g2 = g2
    w1 = w1
    w2 = w2
    id1 = id1
    root = root
    room1 = room1
    room2 = room2
    child1 = child1
    child2 = child2
    a1 = a1
    a2 = a2
    None = None
    Events = {e1, e2}
    Digests = {g1, g2}
    Deliveries = {d1, d2, d3, d4}
    Processes = {w1, w2}
    WorkerIds = {id1}
    Roots = {root}
    Rooms = {room1, room2}
    PlanVersions = {1, 2}
    Children = {child1, child2}
    Analyses = {a1, a2}
    Lease = 1
    ClockLag = 1
    MaxClock = 2
    MaxToken = 3
    EventOf <- MCEventOf
    DigestOf <- MCDigestOf
    ReceivedAt <- MCReceivedAt
    RoomOf <- MCRoomOf
    WorkerId <- MCWorkerId
SPECIFICATION InboxSpec
CHECK_DEADLOCK FALSE
INVARIANTS
    TypeOK
    ClaimsAreFenced
    OccurrencesExplainInbox
PROPERTIES
    OnlyHolderCloses
    LiveLeaseIsKept
    ApplicationEvidenceIsKept

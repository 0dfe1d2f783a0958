\* Two events on one batch, two processes.
CONSTANTS
    e1 = e1
    e2 = e2
    d1 = d1
    d2 = d2
    g1 = g1
    w1 = w1
    w2 = w2
    id1 = id1
    root = root
    child1 = child1
    child2 = child2
    f1 = f1
    card1 = card1
    card2 = card2
    mark = mark
    product1 = product1
    product2 = product2
    None = None
    Root = root
    Children = {child1, child2}
    Processes = {w1, w2}
    WorkerIds = {id1}
    Events = {e1, e2}
    Digests = {g1}
    Deliveries = {d1, d2}
    Keys = {card1, card2, mark}
    RootKeys = {card1, card2, mark}
    Fingerprints = {f1}
    ResultStates = {"SUCCEEDED"}
    MaxVersion = 2
    ClaimLimit = 1
    EventLease = 1
    NodeLease = 9
    MaxClock = 0
    MaxRuns = 1
    MaxToken = 1
    EventOf <- MCEventOf
    DigestOf <- MCDigestOf
    ReceivedAt <- MCReceivedAt
    WorkerId <- MCWorkerId
    ChildOf <- MCChildOf
    ProductOf <- MCProductOf
    KeysOf <- MCKeysOf
    DependsOn <- MCDependsOn
    ResourceKeys <- MCResourceKeys
SPECIFICATION ArrivedSpec
SYMMETRY Twins
CHECK_DEADLOCK FALSE
INVARIANTS
    AppliedIsPublished
    PublishedAfterEmergency
PROPERTIES
    ReuseAvoidsFrozen

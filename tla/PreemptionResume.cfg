\* A crash between the new version and the checkpoint.
CONSTANTS
    e1 = e1
    e2 = e2
    d1 = d1
    d2 = d2
    g1 = g1
    w1 = w1
    w2 = w2
    id1 = id1
    root = root
    child1 = child1
    child2 = child2
    f1 = f1
    card1 = card1
    card2 = card2
    mark = mark
    product1 = product1
    product2 = product2
    None = None
    Root = root
    Children = {child1}
    Processes = {w1, w2}
    WorkerIds = {id1}
    Events = {e1}
    Digests = {g1}
    Deliveries = {d1}
    Keys = {card1, mark}
    RootKeys = {card1, mark}
    Fingerprints = {f1}
    ResultStates = {"SUCCEEDED", "FAILED", "WAITING_RECONCILIATION"}
    MaxVersion = 2
    ClaimLimit = 1
    EventLease = 1
    NodeLease = 9
    MaxClock = 1
    MaxRuns = 1
    MaxToken = 2
    EventOf <- MCEventOf
    DigestOf <- MCDigestOf
    ReceivedAt <- MCReceivedAt
    WorkerId <- MCWorkerId
    ChildOf <- MCChildOf
    ProductOf <- MCProductOf
    KeysOf <- MCKeysOf
    DependsOn <- MCDependsOn
    ResourceKeys <- MCResourceKeys
SPECIFICATION Spec
SYMMETRY Twins
CHECK_DEADLOCK FALSE
INVARIANTS
    UnfinishedCanResume

\* Operators and reconcilers race with workers.
CONSTANTS
    card = card
    prepare = prepare
    c1 = c1
    c2 = c2
    collect = collect
    r1 = r1
    r2 = r2
    e1 = e1
    s1 = s1
    s2 = s2
    f1 = f1
    cmd1 = cmd1
    cmd2 = cmd2
    None = None
    CardBatch = {card}
    Plans = {card}
    Keys = {prepare, c1}
    KeysOf <- SingleKeysOf
    DependsOn <- SingleDependsOn
    RootKeys = {prepare}
    ResourceKeys <- SingleResources
    Events = {}
    Signatures = {}
    Fingerprints = {}
    CommandIds = {cmd1, cmd2}
    ResultStates = {"SUCCEEDED", "FAILED", "WAITING_APPROVAL", "WAITING_RECONCILIATION"}
    MaxVersion = 1
    Lease = 2
    ClaimLimit = 2
    RetryDelays = {1}
    ApprovalTTL = 1
    ReconcileTTL = 2
    ClockLag = 1
    MaxClock = 1
    MaxRuns = 2
SPECIFICATION CommandsSpec
CHECK_DEADLOCK FALSE
INVARIANTS
    TypeOK
    ReadyNodesHaveAge
    IncidentHoldsPlan
PROPERTIES
    TerminalIsFinal

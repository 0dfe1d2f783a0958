CONSTANTS
    batch = batch
    emergency = emergency
    prepare = prepare
    card = card
    collect = collect
    mark = mark
    r1 = r1
    w1 = w1
    w2 = w2
    g1 = g1
    s1 = s1
    s2 = s2
    e1 = e1
    x1 = x1
    cmd1 = cmd1
    None = None
    Workers = {w1, w2}
    Plans = {batch, emergency}
    CardBatch = {batch}
    Keys = {card, collect, mark}
    KeysOf <- TwoKeysOf
    DependsOn <- TwoDependsOn
    RootKeys = {card, mark}
    ResourceKeys <- TwoResources
    ReadKeys = {card}
    WriteKeys = {mark}
    Lease = 1
    Deadline = 3
    RetryDelays = {1}
    MaxClock = 3
    MaxRuns = 2
    MaxReadAttempts = 2
SPECIFICATION SceneSpec
CHECK_DEADLOCK FALSE
INVARIANTS
    TypesOK
    NodesTellTheWrite
    CheckpointsAreBehind
PROPERTIES
    WritesAreMadeOnce
    ScenesEnd

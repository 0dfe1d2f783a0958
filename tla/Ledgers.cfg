SPECIFICATION Spec
CONSTANTS
    Runners = {p1, p2}
    Operators = {o1, o2}
    NoOne = NoOne
    Runs = {r1, r2}
    Aggregators = {a1}
    g1 = g1
    g2 = g2
    c0 = c0
    c1 = c1
    c2 = c2
    a = a
    b = b
    d = d
    z = z
    ta = ta
    tb = tb
    tp = tp
    Window = 1
    Deadline = 1
    LeaseTime = 1
    ValidUntil = 3
    MaxClock = 3
    MaxToken = 2
    Reviewed = {a, b}
    Opposed = {{a, b}}
    Trials = 2
    ParticipantLimit = 2
    MinParticipants = 1
    MaxRetries = 3
    Validation = 2
    HoldoutCases = 1
    ShardSize = 2
    BaselineGood = {2}
    MinGood <- EachSplitOne
    Margin <- EachSplitZero
    MaxVersion = 2
    BatchSize = 1
    PassMin = 1
    Forward = 6
    SmokeCases <- TwoCases
    History = 1
    CaseReservation = 4
    TotalBudget = 10
    Calibration <- OneCase
    Formal <- TwoCases
    StageBudget = 5
    Campaigns = {g1, g2}
    Drafts = {g1}
    FrozenSlots <- TwoThenOne
    RunBudget = 3
    PolicyBudget = 4
    TasksOf <- TasksOfParts
    PayerOf <- PayerOfTasks
    EvaluatedOf <- EvaluatedInParts
    LimitOf <- LimitsInParts
    PhaseLimitOf <- PhaseLimits
    ModelCalls = 2
    SkillCalls = 1
    CallReservation = 1
    CallCosts = {0, 2}
    TaskBudget = 2
    CopilotCases <- PairInOrder
    CopilotLimit = 3
    CopilotReservation = 2
    CopilotCosts = {1, 3}
    AgentLists <- PairsOfCases
    AgentLimit = 5
    AgentSlots = 2
    AgentReservation = 3
    AgentCosts = {1, 2}
    EventLog <- LogOfPartitions
    BatchLimit = 2
    HarnessReads = {a}
    HarnessWrite = b
    HarnessForeign = d
    HarnessRoutes <- RoutesOfProcesses
    IterationLimit = 2
    RepeatLimit = 1
    RequestLimit = 3
SYMMETRY RunnerSymmetry
INVARIANTS
    TypeOK
    
    OneAtATime
    
    QualificationIsBacked
    CallsStayLive
    CommandsAreBacked
    LocksProtectClaims
PROPERTY
    CallsAreMadeOnce
CHECK_DEADLOCK FALSE

\* A severe violation, then a model call that fails.
CONSTANTS
    p1 = p1
    p2 = p2
    Processes = {p1, p2}
    Validation = 2
    Holdout = 1
    ShardSize = 2
    BaselineGood = {2}
    MinGood <- MCMinGood
    Margin <- MCMargin
    MaxVersion = 2
SPECIFICATION Spec
SYMMETRY Twins
CHECK_DEADLOCK FALSE
INVARIANTS
    SevereIsRejected

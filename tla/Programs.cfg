SPECIFICATION Spec
CONSTANTS
    a = a
    b = b
    Token <- MCToken
    K = 3
    Limit = 4
    Steps = 2
    MaxTape = 3
    MaxTicks = 2
    MaxDecode = 2
    Cut = 2
    Word = {"x", "y"}
    Frame <- MCFrame
    DraftLen = 2
    NDecode = 2
    Pid = {"p1", "p2"}
    Operator = {"o1"}
    Config <- MCConfig
    Graceful = TRUE
    MaxStarts = 2
INVARIANTS SpeculationExact IdleLeavesNoTrace TapsOwnFrame RowsAligned Locatable
PROPERTIES ImplementsGreedy Ends
CHECK_DEADLOCK FALSE

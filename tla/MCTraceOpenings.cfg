CONSTANTS
    r1 = r1
    Parent <- Fork
    Accepting <- OneResponse
    Unaudited = {6}
    SeedDelay = 1
    OpeningWindow = 2
    Grace = 1
    SubmitWindow = 9
    LogTail = 1
    BuiltKept = 1
    RestoreInflight = 1
    RestoreFailures = 2
    ReplayFailures = 1
    NotAwaited = 2
    MaxAttempts = 3
    Ordered = TRUE
    MaxMoves = 3
    MaxTrouble = 1
SPECIFICATION Spec
INVARIANT TracesFollowTheChain
PROPERTY AuditsAnswered
CHECK_DEADLOCK FALSE

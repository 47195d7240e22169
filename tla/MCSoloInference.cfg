CONSTANTS
    r1 = r1
    r2 = r2
    Requests = {r1, r2}
    Rewarded = {r1}
    Private = {r1}
    Unreadable = {}
    Eras <- SomeEras
    QueueCap = 1
    SeenCap = 4
    Window = 9
    MaxAttempts = 2
    MaxBlocks = 2
    MaxTrouble = 1
SPECIFICATION Spec
INVARIANT AnswersAreRight
PROPERTY MiningResumes
PROPERTY EveryRequestServed
CHECK_DEADLOCK FALSE

SPECIFICATION Spec
CONSTANTS
    q1 = q1
    Requests = {q1}
    Jobs = {"v4", "v3task", "short"}
    Eras <- TaskThenTrace
    Offers = {TRUE}
    QueueCap = 1
    AuxCap = 2
    B64Cap = 4
    MaxSessions = 2
    MaxLines = 3
INVARIANT SessionIsExact
PROPERTY EveryCommandAnswered
PROPERTY MiningGoesOn
CHECK_DEADLOCK FALSE

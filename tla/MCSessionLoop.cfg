SPECIFICATION Spec
CONSTANTS
    MaxShortSessions = 3
    MaxBackoff = 30
    QueueLen = 2
    Tellers = {"inference", "orphan"}
    Statuses = {"clear", "strike"}
INVARIANT ReconnectsSafely
INVARIANT AlertsAreTrue
PROPERTY StopEnds
CHECK_DEADLOCK FALSE

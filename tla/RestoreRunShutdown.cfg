SPECIFICATION Spec
CONSTANTS
    App = {a1}
    Browser = {b1}
    Url = {u1}
    NONE = NONE
    Mode = {"ask"}
    Retention = 1
    Episode = 0
    MaxRuns = 2
    MaxCopies = 2
    MaxTime = 1
    MaxEvents = 2
INVARIANT ShutdownIsCurrent
CHECK_DEADLOCK FALSE

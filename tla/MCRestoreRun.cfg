SPECIFICATION Spec
CONSTANTS
    App = {a1}
    Browser = {b1}
    Url = {u1}
    NONE = NONE
    Mode = {"ask", "auto"}
    Retention = 1
    Episode = 0
    MaxRuns = 2
    MaxCopies = 2
    MaxTime = 1
    MaxEvents = 2
INVARIANTS TypeOK UndoPredatesEpisode LaunchedWasOpened FinishedIsSettled 
CHECK_DEADLOCK FALSE

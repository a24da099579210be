SPECIFICATION Spec
CONSTANTS
    Key = {k1, k2}
    Sessions <- MCSessions
    Screens <- MCScreens
INVARIANTS ExactlyRestored NothingTwice CompletedInPlace
CHECK_DEADLOCK FALSE

SPECIFICATION FairSpec
CONSTANTS
    r1 = r1
    r2 = r2
    Relay = {r1, r2}
    NONE = NONE
    MaxInstances = 2
    Backoff <- MCBackoff
    MaxFaults = 2
INVARIANTS TypeOK OneLiveConnection
PROPERTIES OnlyTheReaderEnds InstancesReturn Reconnects
CHECK_DEADLOCK FALSE

SPECIFICATION Spec
CONSTANTS
    Tab = {t1}
    DefaultTtl = 1
    MaxTtl = 2
    TtlAsked <- Hours
    RotateAfter = 2
    SweepEvery = 1
    Retention = 1
    MaxTime = 3
    MaxCopies = 2
    MaxChanges = 2
    MaxEvents = 1
    MaxFaults = 1
    MaxPipe = 1
INVARIANTS TypeOK OffMeansPurged  RowsUnderTheirKey
PROPERTY OffStoresNothing
CHECK_DEADLOCK FALSE

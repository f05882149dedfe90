SPECIFICATION TelemetrySpec
CONSTANTS
    Sensors = {d1, d2}
    MaxTime = 6
    BucketLength = 2
    CycleChange = 8
    MaxSkew = 2
    Retention = 1
    MaxInAir = 2
    MaxFaults = 0
CHECK_DEADLOCK FALSE
INVARIANTS
    RetentionSparesCosts
